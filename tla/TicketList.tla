----------------------------- MODULE TicketList -----------------------------
(***************************************************************************)
(* client/tickets: GET /tickets, read page by page by one client that      *)
(* follows next_before_created_at and next_before_id, while tickets are    *)
(* created, accepted, assigned and closed.                                 *)
(*                                                                         *)
(* What the tables hold is read off TicketLedger, which TicketStore        *)
(* implements; this module adds created_at and the list requests.  One     *)
(* request reads three snapshots: the tickets, their departments and their *)
(* users.                                                                  *)
(***************************************************************************)
EXTENDS TicketLedger, FiniteSets

CONSTANTS
    Times,      \* the values of created_at
    Limits,     \* page sizes the client may ask for
    MaxHistory  \* activities of all tickets together (a bound)

ASSUME ListAssumption ==
    /\ Tickets \subseteq Nat
    /\ IsFiniteSet(Tickets)
    /\ Times \subseteq Nat
    /\ Limits \subseteq Nat \ {0}
    /\ None \notin [createdAt : Times, id : Tickets]

VARIABLES
    createdAt,  \* createdAt[t]: start of the transaction that created t, or None
    view,       \* which list the client pages through
    phase,      \* the next step of the client and its request
    cursor,     \* where the client's next page starts
    page,       \* the rows of the request in progress
    hasMore,    \* page.has_more of the request in progress
    shown,      \* the tickets on the pages the client has received
    steady      \* the tickets in the view ever since its first page was read

listing  == <<view, phase, cursor, page, hasMore, shown>>
listVars == <<ledgerVars, createdAt, listing, steady>>

-----------------------------------------------------------------------------
(* Rows, keys and cursors.                                                 *)

Views  == {"open", "closed"}
ListPhases == {"idle", "query", "departments", "users", "answered", "end"}

(* (created_at, id): the order of the list, compared as a row value.       *)
Keys   == [createdAt : Times, id : Tickets]
Key(t) == [createdAt |-> createdAt[t], id |-> t]

Less(k, m) ==
    \/ k.createdAt < m.createdAt
    \/ k.createdAt = m.createdAt /\ k.id < m.id

(* Both halves of a cursor are given, or none.                             *)
Cursors == Keys \cup {None}

ListRow == [key         : Keys,
        status      : {"pending", "accepted", "closed"},
        acceptedBy  : Users \cup {None},
        departments : SUBSET Departments,
        users       : SUBSET Users]

Status(t) ==
    CASE t \in closed       -> "closed"
      [] t \notin closed /\ IsAccepted(log[t])  -> "accepted"
      [] t \notin closed /\ ~IsAccepted(log[t]) -> "pending"

RowOf(t, assignment) ==
    [key         |-> Key(t),
     status      |-> Status(t),
     acceptedBy  |-> Acceptor(log[t]),
     departments |-> assignment.departments,
     users       |-> assignment.users]

InView(t) == log[t] # <<>> /\ (view = "closed" <=> t \in closed)

(* Slip: the cursor's row is read again.                                   *)
CandidatesFromCursor == {t \in Tickets : InView(t) /\ (cursor = None \/ ~Less(cursor, Key(t)))}

(* Slip: only created_at is compared.                                      *)
CandidatesByTimeAlone ==
    {t \in Tickets : InView(t) /\ (cursor = None \/ createdAt[t] < cursor.createdAt)}

(* WHERE: the view's statuses, below the cursor.                           *)
Candidates == {t \in Tickets : InView(t) /\ (cursor = None \/ Less(Key(t), cursor))}

(* ORDER BY created_at DESC, id DESC LIMIT limit, as a set of tickets.     *)
IsNewest(rows, matches, limit) ==
    /\ rows = matches \/ Cardinality(rows) = limit
    /\ Cardinality(rows) <= limit
    /\ \A t \in rows, s \in matches \ rows : Less(Key(s), Key(t))

-----------------------------------------------------------------------------
(* The tables change.                                                      *)

KeepsViewed == steady' = {t \in steady : InView(t)'}

(* A creation commits: created_at is when its transaction began, which may *)
(* be before that of tickets committed earlier, or the same.               *)
Create(t, u) ==
    /\ AddCreation(t, u)
    /\ \E time \in Times : createdAt' = [createdAt EXCEPT ![t] = time]
    /\ UNCHANGED listing
    /\ KeepsViewed

Change(t, u) ==
    /\ Cardinality(UNION {{s} \X DOMAIN log[s] : s \in Tickets}) < MaxHistory
    /\ \/ AddAcceptance(t, u)
       \/ \E a \in Assignment : AddAssignment(t, u, a)
    /\ UNCHANGED <<createdAt, listing>>
    /\ KeepsViewed

CloseTicket(t) ==
    /\ t \notin closed
    /\ AddClosure(t)
    /\ UNCHANGED <<createdAt, listing>>
    /\ KeepsViewed

-----------------------------------------------------------------------------
(* The list.                                                               *)

Tables == <<ledgerVars, createdAt>>

Start(v) ==
    /\ phase = "idle"
    /\ view' = v
    /\ phase' = "query"
    /\ UNCHANGED <<Tables, cursor, page, hasMore, shown, steady>>

Scan(matches, rows) ==
    /\ page' = [t \in rows |-> RowOf(t, Unassigned)]
    /\ phase' = IF rows = {} THEN "answered" ELSE "departments"
    /\ steady' = IF cursor = None THEN matches ELSE steady
    /\ UNCHANGED <<Tables, view, cursor, shown>>

(* The first statement reads up to limit + 1 rows: the page keeps limit of *)
(* them, and one more only tells that there is another page.  No assignee  *)
(* is read for an empty page.                                              *)
QueryTickets ==
    /\ phase = "query"
    /\ LET matches == Candidates
       IN  \E rows \in SUBSET matches, limit \in Limits :
               /\ IsNewest(rows, matches, limit)
               /\ Scan(matches, rows)
               /\ hasMore' = (Cardinality(matches) > limit)

LoadDepartmentAssignments ==
    /\ phase = "departments"
    /\ page' = [t \in DOMAIN page |->
                  [page[t] EXCEPT !.departments = CurrentAssignment(log[t]).departments]]
    /\ phase' = "users"
    /\ UNCHANGED <<Tables, view, cursor, hasMore, shown, steady>>

(* Slip: the rows are not told apart by ticket_id.                         *)
LoadUserAssignmentsOfAll ==
    /\ phase = "users"
    /\ page' = [t \in DOMAIN page |->
                  [page[t] EXCEPT !.users =
                      UNION {CurrentAssignment(log[s]).users : s \in DOMAIN page}]]
    /\ phase' = "answered"
    /\ UNCHANGED <<Tables, view, cursor, hasMore, shown, steady>>

LoadUserAssignments ==
    /\ phase = "users"
    /\ page' = [t \in DOMAIN page |->
                  [page[t] EXCEPT !.users = CurrentAssignment(log[t]).users]]
    /\ phase' = "answered"
    /\ UNCHANGED <<Tables, view, cursor, hasMore, shown, steady>>

(* Slip: the next cursor is the page's first row.                          *)
IsFirst(t) == t \in DOMAIN page /\ \A s \in DOMAIN page : ~Less(page[t].key, page[s].key)

(* NextBeforeCreatedAt and NextBeforeID are those of the page's last row.  *)
IsLast(t) == t \in DOMAIN page /\ \A s \in DOMAIN page : ~Less(page[s].key, page[t].key)

CursorAfter(t) == page[t].key

(* The client receives the page, and asks for the next one.                *)
Receive ==
    /\ phase = "answered"
    /\ shown' = shown \cup DOMAIN page
    /\ \/ /\ hasMore
          /\ \E t \in Tickets : IsLast(t) /\ cursor' = CursorAfter(t)
          /\ phase' = "query"
       \/ /\ ~hasMore
          /\ phase' = "end"
          /\ UNCHANGED cursor
    /\ page' = <<>>
    /\ UNCHANGED <<Tables, view, hasMore, steady>>

(* A statement fails, or the answer of the last one does not reach the     *)
(* client: it has no page and asks once more, with the same cursor.        *)
FailRequest ==
    /\ phase \in {"departments", "users"}
    /\ phase' = "query"
    /\ page' = <<>>
    /\ UNCHANGED <<Tables, view, cursor, hasMore, shown, steady>>

-----------------------------------------------------------------------------
ListInit ==
    /\ LedgerInit
    /\ createdAt \in {[t \in Tickets |-> IF log[t] = <<>> THEN None ELSE time[t]] :
                        time \in [Tickets -> Times]}
    /\ view = "open"
    /\ phase = "idle"
    /\ cursor = None
    /\ page = <<>>
    /\ hasMore = FALSE
    /\ shown = {}
    /\ steady = {}

Environment ==
    \E t \in Tickets :
        \/ CloseTicket(t)
        \/ \E u \in Users : Create(t, u) \/ Change(t, u)

ReadPage == QueryTickets \/ LoadDepartmentAssignments \/ LoadUserAssignments \/ Receive

ListNext ==
    \/ Environment
    \/ \E v \in Views : Start(v)
    \/ ReadPage
    \/ FailRequest

ListSpec == ListInit /\ [][ListNext]_listVars

-----------------------------------------------------------------------------
(* Properties.                                                             *)

(* Every variable keeps its type.                                          *)
ListTypeOK ==
    /\ LedgerTypeOK
    /\ createdAt \in [Tickets -> Times \cup {None}]
    /\ \A t \in Tickets : createdAt[t] \in IF log[t] = <<>> THEN {None} ELSE Times
    /\ view \in Views
    /\ phase \in ListPhases
    /\ cursor \in Cursors
    /\ DOMAIN page \subseteq Tickets
    /\ \A t \in DOMAIN page : page[t] \in ListRow
    /\ hasMore \in BOOLEAN
    /\ shown \subseteq Tickets
    /\ steady \subseteq Tickets

(* A list read to its end has shown every ticket that was in the view all  *)
(* the time: no ticket falls between two pages, whatever is created,       *)
(* accepted or closed meanwhile, also with an old or an equal created_at   *)
(* (repository.go:76, the keyset cursor).                                  *)
NothingSteadyIsMissed == phase = "end" => steady \subseteq shown

(* The next page only goes down: each of its rows is older than every row  *)
(* the client has, so none is shown twice and the client may append.       *)
PagesDescend ==
    \A t \in DOMAIN page, s \in shown : Less(Key(t), Key(s))

Moment(log_t, i) == SubSeq(log_t, 1, i)

(* A row never shows what its ticket never was: its owner, its departments *)
(* and its users are those of three moments of the ticket's history, in    *)
(* the order of the three statements (repository.go:159).  They need not   *)
(* be the same moment.                                                     *)
RowsFollowHistory ==
    phase = "answered" =>
        \A t \in DOMAIN page : \E h, i, j \in 1..Len(log[t]) :
            /\ h <= i /\ i <= j
            /\ page[t].acceptedBy  = Acceptor(Moment(log[t], h))
            /\ page[t].departments = CurrentAssignment(Moment(log[t], i)).departments
            /\ page[t].users       = CurrentAssignment(Moment(log[t], j)).users

(* A row that says closed is final, assignees included, although they are  *)
(* read later: nothing assigns a closed ticket.                            *)
ClosedRowsAreFinal ==
    phase = "answered" =>
        \A t \in DOMAIN page : page[t].status = "closed" =>
            page[t] = RowOf(t, CurrentAssignment(log[t]))

(* Paging comes to an end unless requests keep failing: each page leaves   *)
(* fewer tickets below the cursor.                                         *)
PagingEnds ==
    []<><<FailRequest>>_listVars \/ (phase = "query" ~> phase = "end")
=============================================================================
