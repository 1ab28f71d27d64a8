-------------------------- MODULE TicketListProofs --------------------------
(***************************************************************************)
(* Paging through the ticket list misses no ticket that stays in the view  *)
(* and shows none twice, for any tickets, page sizes and creation times.   *)
(*                                                                         *)
(* ListInvariant is inductive.  Its heart is SteadyAccounted: a steady     *)
(* ticket has been shown, is on the page being read, or is older than      *)
(* everything the client asked for so far.  EnvironmentStep says what the  *)
(* other transactions may do to a ticket in the meantime; each action of   *)
(* the list then has one lemma.                                            *)
(***************************************************************************)
EXTENDS TicketList, ActivityLogProofs, FiniteSetTheorems, SequenceTheorems

-----------------------------------------------------------------------------
(* The inductive invariant.                                                *)

Reading == {"departments", "users", "answered"}

LogsReadable ==
    /\ \A t \in Tickets :
          /\ HasLatest(Positions(log[t], "assignment_updated"))
          /\ HasLatest(Positions(log[t], "accepted"))
    /\ \A t \in closed : log[t] # <<>>

TicketsExist ==
    /\ \A t \in shown \cup steady \cup DOMAIN page : log[t] # <<>>
    /\ \A t \in steady : view = "closed" <=> t \in closed
    /\ \A t \in DOMAIN page : page[t].key = Key(t)

PageIsRead == phase \notin Reading => DOMAIN page = {}

CursorSeparates ==
    phase # "end" =>
        IF cursor = None
        THEN shown = {}
        ELSE /\ \A s \in shown : ~Less(Key(s), cursor)
             /\ \A t \in DOMAIN page : Less(Key(t), cursor)

SteadyAccounted ==
    /\ cursor # None => \A t \in steady : t \in shown \/ Less(Key(t), cursor)
    /\ phase \in Reading =>
          \A t \in steady :
              \/ t \in shown \cup DOMAIN page
              \/ hasMore /\ \A s \in DOMAIN page : Less(Key(t), Key(s))
    /\ phase = "idle" => steady = {}
    /\ phase = "end" => steady \subseteq shown

ClosedAsRead ==
    \A t \in DOMAIN page : page[t].status = "closed" =>
        /\ t \in closed
        /\ page[t].acceptedBy = Acceptor(log[t])
        /\ phase \in {"users", "answered"} =>
              page[t].departments = CurrentAssignment(log[t]).departments
        /\ phase = "answered" => page[t].users = CurrentAssignment(log[t]).users

(* As far as it has been read, a row is what its ticket was at some        *)
(* moments, each no earlier than the one before.                           *)
Remembers(row, history, step) ==
    \E h, i, j \in 1 .. Len(history) :
        /\ h <= i /\ i <= j
        /\ row.acceptedBy = Acceptor(Moment(history, h))
        /\ step \in {"users", "answered"} =>
              row.departments = CurrentAssignment(Moment(history, i)).departments
        /\ step = "answered" =>
              row.users = CurrentAssignment(Moment(history, j)).users

RowsRemember == \A t \in DOMAIN page : Remembers(page[t], log[t], phase)

ListInvariant ==
    /\ ListTypeOK
    /\ LogsReadable
    /\ TicketsExist
    /\ PageIsRead
    /\ CursorSeparates
    /\ SteadyAccounted
    /\ ClosedAsRead
    /\ RowsRemember

-----------------------------------------------------------------------------
(* Keys and logs.                                                          *)

(* Keys of created tickets are compared as pairs of numbers.               *)
LEMMA KeyIsNumeric ==
    ASSUME ListTypeOK, NEW t \in Tickets, log[t] # <<>>
    PROVE  Key(t) \in Keys
BY DEF ListTypeOK, Keys, Key

LEMMA KeysAreNumbers ==
    ASSUME NEW k \in Keys
    PROVE  k.createdAt \in Nat /\ k.id \in Nat
BY ListAssumption DEF Keys

(* A key below a cursor is below every key that is not.                    *)
LEMMA LessThrough ==
    ASSUME NEW k \in Keys, NEW m \in Keys, NEW n \in Keys,
           Less(k, n), ~Less(m, n)
    PROVE  Less(k, m)
BY KeysAreNumbers DEF Less

(* What can be read off a log with typed events.                           *)
LEMMA LogReads ==
    ASSUME NEW l \in Seq(Event),
           HasLatest(Positions(l, "assignment_updated")),
           HasLatest(Positions(l, "accepted"))
    PROVE  /\ CurrentAssignment(l) \in Assignment
           /\ Acceptor(l) \in Users \cup {None}
<1> DEFINE U == Positions(l, "assignment_updated")
           A == Positions(l, "accepted")
<1>1. U \in SUBSET Nat /\ A \in SUBSET Nat
  BY DEF Positions
<1>2. U # {} => Latest(U) \in U
  BY <1>1, LatestExists
<1>3. A # {} => Latest(A) \in A
  BY <1>1, LatestExists
<1>4. \A i \in DOMAIN l : l[i] \in Event
  OBVIOUS
<1>5. U # {} => l[Latest(U)].metadata.after \in Assignment
  BY <1>2, <1>4, EventShape DEF Positions
<1>6. A # {} => l[Latest(A)].actor \in Users
  BY <1>3, <1>4, EventShape DEF Positions
<1>7. Unassigned \in Assignment
  BY DEF Unassigned, Assignment
<1> QED
  BY <1>5, <1>6, <1>7 DEF CurrentAssignment, Acceptor, IsAccepted

(* What a history was stays what it was, and what it is now is a moment.   *)
LEMMA MomentsStay ==
    ASSUME NEW l \in Seq(Event), NEW e \in Event, NEW h \in 1 .. Len(l)
    PROVE  Moment(Append(l, e), h) = Moment(l, h)
<1>1. <<e>> \in Seq(Event) /\ Append(l, e) = l \o <<e>>
  OBVIOUS
<1>2. Len(l) \in Nat /\ 1 \in 1 .. Len(l)
  OBVIOUS
<1> QED
  BY <1>1, <1>2, SubSeqOfConcat1 DEF Moment

LEMMA NowIsAMoment ==
    ASSUME NEW l \in Seq(Event), l # <<>>
    PROVE  Len(l) \in 1 .. Len(l) /\ Moment(l, Len(l)) = l
BY SubSeqFull DEF Moment

LEMMA GrownRemembers ==
    ASSUME NEW l \in Seq(Event), NEW e \in Event, NEW row, NEW step, Remembers(row, l, step)
    PROVE  Remembers(row, Append(l, e), step)
<1>1. \A h \in 1 .. Len(l) : Moment(Append(l, e), h) = Moment(l, h)
  BY MomentsStay
<1>2. 1 .. Len(l) \subseteq 1 .. Len(Append(l, e))
  OBVIOUS
<1> QED
  BY <1>1, <1>2 DEF Remembers

(* A row is a row.                                                         *)
LEMMA RowTyped ==
    ASSUME ListTypeOK, LogsReadable, NEW t \in Tickets, log[t] # <<>>
    PROVE  RowOf(t, Unassigned) \in ListRow
<1>1. log[t] \in Seq(Event)
  BY DEF ListTypeOK, LedgerTypeOK
<1>2. Acceptor(log[t]) \in Users \cup {None}
  BY <1>1, LogReads DEF LogsReadable
<1>3. Status(t) \in {"pending", "accepted", "closed"}
  BY DEF Status
<1>4. Key(t) \in Keys
  BY KeyIsNumeric
<1> QED
  BY <1>2, <1>3, <1>4 DEF RowOf, ListRow, Unassigned

-----------------------------------------------------------------------------
(* What the other transactions do.                                         *)

Grown(t) ==
    \/ log'[t] = log[t]
    \/ /\ t \notin closed
       /\ \E e \in Event : log'[t] = Append(log[t], e)

TicketsMove ==
    /\ UNCHANGED listing
    /\ steady' = {t \in steady : InView(t)'}
    /\ \A t \in Tickets : Grown(t)
    /\ \A t \in Tickets : log[t] # <<>> => createdAt'[t] = createdAt[t]
    /\ \A t \in Tickets : log'[t] = <<>> => createdAt'[t] = None
    /\ \A t \in Tickets : log'[t] # <<>> => createdAt'[t] \in Times
    /\ createdAt' \in [Tickets -> Times \cup {None}]
    /\ closed \subseteq closed' /\ closed' \subseteq Tickets
    /\ \A t \in closed' : log'[t] # <<>>
    /\ log' \in [Tickets -> Seq(Event)]

(* One recorded event grows one log.                                       *)
LEMMA RecordGrows ==
    ASSUME ListTypeOK, NEW t \in Tickets, NEW e \in Event, Record(t, e), t \notin closed
    PROVE  /\ \A s \in Tickets : Grown(s)
           /\ \A s \in Tickets : s # t => log'[s] = log[s]
           /\ log'[t] # <<>>
           /\ closed' = closed
           /\ log' \in [Tickets -> Seq(Event)]
<1>1. log \in [Tickets -> Seq(Event)]
  BY DEF ListTypeOK, LedgerTypeOK
<1>2. log'[t] = Append(log[t], e) /\ \A s \in Tickets : s # t => log'[s] = log[s]
  BY <1>1 DEF Record
<1>3. Append(log[t], e) \in Seq(Event) /\ Append(log[t], e) # <<>>
  BY <1>1
<1>4. log' \in [Tickets -> Seq(Event)]
  BY <1>1, <1>3 DEF Record
<1> QED
  BY <1>2, <1>3, <1>4 DEF Grown, Record

LEMMA EnvironmentStep ==
    ASSUME ListTypeOK, LogsReadable, Environment
    PROVE  TicketsMove
<1> PICK t \in Tickets : CloseTicket(t) \/ \E u \in Users : Create(t, u) \/ Change(t, u)
  BY DEF Environment
<1>1. CASE CloseTicket(t)
  <2>1. log[t] # <<>>
    BY <1>1 DEF CloseTicket, AddClosure, IsAccepted, Positions
  <2> QED
    BY <1>1, <2>1 DEF CloseTicket, AddClosure, TicketsMove, Grown, KeepsViewed, ListTypeOK,
                      LedgerTypeOK, LogsReadable
<1>2. CASE \E u \in Users : Create(t, u)
  <2> PICK u \in Users : Create(t, u)
    BY <1>2
  <2>1. CreatedEvent(u) \in Event
    BY DEF CreatedEvent, Event
  <2>2. PICK time \in Times : createdAt' = [createdAt EXCEPT ![t] = time]
    BY DEF Create
  <2>3. CASE t \notin closed
    <3>1. Record(t, CreatedEvent(u)) /\ log[t] = <<>>
      BY DEF Create, AddCreation
    <3>2. /\ \A s \in Tickets : Grown(s)
          /\ \A s \in Tickets : s # t => log'[s] = log[s]
          /\ log'[t] # <<>> /\ closed' = closed /\ log' \in [Tickets -> Seq(Event)]
      BY <2>1, <2>3, <3>1, RecordGrows
    <3>3. /\ createdAt'[t] = time
          /\ \A s \in Tickets : s # t => createdAt'[s] = createdAt[s]
      BY <2>2 DEF ListTypeOK
    <3>4. \A s \in Tickets : log[s] # <<>> => createdAt'[s] = createdAt[s]
      BY <3>1, <3>3
    <3>5. \A s \in Tickets : IF log'[s] = <<>> THEN createdAt'[s] = None
                                              ELSE createdAt'[s] \in Times
      BY <3>2, <3>3 DEF ListTypeOK
    <3>6. UNCHANGED listing /\ steady' = {s \in steady : InView(s)'}
      BY DEF Create, KeepsViewed
    <3>7. \A s \in closed' : log'[s] # <<>>
      BY <2>3, <3>2 DEF LogsReadable, ListTypeOK, LedgerTypeOK
    <3>8. createdAt' \in [Tickets -> Times \cup {None}]
      BY <2>2 DEF ListTypeOK
    <3> QED
      BY <3>2, <3>4, <3>5, <3>6, <3>7, <3>8 DEF TicketsMove, ListTypeOK, LedgerTypeOK
  <2>4. CASE t \in closed
    BY <2>4 DEF Create, AddCreation, LogsReadable
  <2> QED
    BY <2>3, <2>4
<1>3. CASE \E u \in Users : Change(t, u)
  <2> PICK u \in Users : Change(t, u)
    BY <1>3
  <2>1. PICK e \in Event : Record(t, e) /\ Open(t)
    <3>1. CASE AddAcceptance(t, u)
      <4>1. AcceptedEvent(u) \in Event
        BY DEF AcceptedEvent, Event
      <4> QED
        BY <3>1, <4>1 DEF AddAcceptance
    <3>2. CASE \E a \in Assignment : AddAssignment(t, u, a)
      <4> PICK a \in Assignment : AddAssignment(t, u, a)
        BY <3>2
      <4>1. CurrentAssignment(log[t]) \in Assignment
        BY LogReads DEF LogsReadable, ListTypeOK, LedgerTypeOK
      <4>2. AssignmentUpdatedEvent(u, CurrentAssignment(log[t]), a) \in Event
        BY <4>1 DEF AssignmentUpdatedEvent, Event
      <4> QED
        BY <4>2 DEF AddAssignment
    <3> QED
      BY <3>1, <3>2 DEF Change
  <2>2. /\ \A s \in Tickets : Grown(s)
        /\ \A s \in Tickets : s # t => log'[s] = log[s]
        /\ log'[t] # <<>> /\ closed' = closed /\ log' \in [Tickets -> Seq(Event)]
    BY <2>1, RecordGrows DEF Open
  <2> QED
    BY <2>1, <2>2 DEF Change, KeepsViewed, TicketsMove, ListTypeOK, LedgerTypeOK, Open, LogsReadable
<1> QED
  BY <1>1, <1>2, <1>3

(* A created ticket keeps its key, and its log stays readable.             *)
LEMMA MoveKeepsKeys ==
    ASSUME ListTypeOK, LogsReadable, TicketsMove
    PROVE  /\ \A t \in Tickets : log[t] # <<>> => log'[t] # <<>> /\ Key(t)' = Key(t)
           /\ LogsReadable'
           /\ \A t \in closed \cap Tickets : log'[t] = log[t]
<1>1. \A t \in Tickets : log[t] \in Seq(Event)
  BY DEF ListTypeOK, LedgerTypeOK
<1>2. \A t \in Tickets : log[t] # <<>> => log'[t] # <<>>
  BY <1>1 DEF TicketsMove, Grown
<1>3. LogsReadable'
  <2> SUFFICES ASSUME NEW t \in Tickets, NEW k \in {"assignment_updated", "accepted"}
               PROVE  HasLatest(Positions(log'[t], k))
    BY DEF LogsReadable, TicketsMove
  <2>1. HasLatest(Positions(log[t], k))
    BY DEF LogsReadable
  <2>2. CASE log'[t] = log[t]
    BY <2>1, <2>2
  <2>3. CASE \E e \in Event : log'[t] = Append(log[t], e)
    BY <1>1, <2>1, <2>3, HasLatestAppend
  <2> QED
    BY <2>2, <2>3 DEF TicketsMove, Grown
<1>4. \A t \in Tickets : log[t] # <<>> => Key(t)' = Key(t)
  BY DEF TicketsMove, Key
<1>5. \A t \in closed \cap Tickets : log'[t] = log[t]
  BY DEF TicketsMove, Grown
<1> QED
  BY <1>2, <1>3, <1>4, <1>5

LEMMA MoveKeepsInvariant ==
    ASSUME ListInvariant, TicketsMove
    PROVE  ListInvariant'
<1> USE DEF ListInvariant
<1>1. UNCHANGED <<view, phase, cursor, page, hasMore, shown>>
  BY DEF TicketsMove, listing
<1>2. /\ \A t \in Tickets : log[t] # <<>> => log'[t] # <<>> /\ Key(t)' = Key(t)
      /\ LogsReadable'
      /\ \A t \in closed \cap Tickets : log'[t] = log[t]
  BY MoveKeepsKeys
<1>3. steady' \subseteq steady
  BY DEF TicketsMove
<1>4. shown \cup steady \cup DOMAIN page \subseteq Tickets
  BY DEF ListTypeOK
<1>5. \A t \in shown \cup steady \cup DOMAIN page : log'[t] # <<>> /\ Key(t)' = Key(t)
  BY <1>2, <1>4 DEF TicketsExist
<1>6. ListTypeOK'
  BY <1>1, <1>3 DEF ListTypeOK, LedgerTypeOK, TicketsMove
<1>7. TicketsExist'
  <2>1. \A t \in steady' : (view = "closed" <=> t \in closed)'
    BY <1>1 DEF TicketsMove, InView
  <2>2. \A t \in (shown \cup steady \cup DOMAIN page)' : log'[t] # <<>>
    BY <1>1, <1>3, <1>5
  <2>3. \A t \in (DOMAIN page)' : page'[t].key = Key(t)'
    BY <1>1, <1>5 DEF TicketsExist
  <2> QED
    BY <2>1, <2>2, <2>3 DEF TicketsExist
<1>8. PageIsRead'
  BY <1>1 DEF PageIsRead
<1>9. CursorSeparates'
  BY <1>1, <1>5 DEF CursorSeparates, Less
<1>10. SteadyAccounted'
  BY <1>1, <1>3, <1>5 DEF SteadyAccounted, Less
<1>11. ClosedAsRead'
  <2>1. \A t \in DOMAIN page : t \in closed => log'[t] = log[t] /\ t \in closed'
    BY <1>2, <1>4 DEF TicketsMove
  <2> QED
    BY <1>1, <2>1 DEF ClosedAsRead
<1>12. RowsRemember'
  <2> SUFFICES ASSUME NEW t \in DOMAIN page
               PROVE  Remembers(page[t], log'[t], phase)
    BY <1>1 DEF RowsRemember
  <2>1. log[t] \in Seq(Event) /\ Remembers(page[t], log[t], phase)
    BY <1>4 DEF RowsRemember, ListTypeOK, LedgerTypeOK
  <2>2. log'[t] = log[t] \/ \E e \in Event : log'[t] = Append(log[t], e)
    BY <1>4 DEF TicketsMove, Grown
  <2> QED
    BY <2>1, <2>2, GrownRemembers
<1> QED
  BY <1>2, <1>6, <1>7, <1>8, <1>9, <1>10, <1>11, <1>12

-----------------------------------------------------------------------------
(* What the list itself does.                                              *)

(* While the tables stand still, so do keys and what logs say.             *)
LEMMA TablesStill ==
    ASSUME ListInvariant, UNCHANGED Tables
    PROVE  /\ LedgerTypeOK' /\ LogsReadable'
           /\ UNCHANGED <<log, closed, createdAt>>
           /\ \A t \in Tickets : Key(t)' = Key(t)
BY DEF Tables, ledgerVars, ListInvariant, ListTypeOK, LedgerTypeOK, LogsReadable, Key

LEMMA StartKeeps ==
    ASSUME ListInvariant, NEW v \in Views, Start(v)
    PROVE  ListInvariant'
<1> USE DEF ListInvariant
<1>1. /\ LedgerTypeOK' /\ LogsReadable'
      /\ UNCHANGED <<log, closed, createdAt, cursor, page, hasMore, shown, steady>>
      /\ phase = "idle" /\ phase' = "query" /\ view' = v
  BY TablesStill DEF Start
<1>2. ListTypeOK'
  BY <1>1 DEF ListTypeOK, ListPhases
<1>3. DOMAIN page = {} /\ steady = {}
  BY <1>1 DEF PageIsRead, SteadyAccounted, Reading
<1>4. TicketsExist' /\ PageIsRead' /\ ClosedAsRead' /\ RowsRemember'
  BY <1>1, <1>3 DEF TicketsExist, PageIsRead, ClosedAsRead, RowsRemember
<1>5. CursorSeparates' /\ SteadyAccounted'
  BY <1>1, <1>3 DEF CursorSeparates, SteadyAccounted, Reading, Key, Less
<1> QED
  BY <1>1, <1>2, <1>4, <1>5

(* The rows of a page and the candidates left for later pages.             *)
LEMMA NewestSeparates ==
    ASSUME NEW matches \in SUBSET Tickets, NEW rows \in SUBSET matches,
           NEW limit \in Limits, IsNewest(rows, matches, limit),
           NEW t \in matches \ rows
    PROVE  /\ Cardinality(matches) > limit
           /\ \A s \in rows : Less(Key(t), Key(s))
<1>1. IsFiniteSet(matches) /\ IsFiniteSet(rows)
  BY ListAssumption, FS_Subset
<1>2. Cardinality(matches) \in Nat /\ Cardinality(rows) \in Nat /\ limit \in Nat
  BY <1>1, FS_CardinalityType, ListAssumption
<1>3. Cardinality(rows) <= Cardinality(matches)
      /\ (Cardinality(rows) = Cardinality(matches) => rows = matches)
  BY <1>1, FS_Subset
<1>4. Cardinality(rows) = limit
  BY DEF IsNewest
<1> QED
  BY <1>2, <1>3, <1>4 DEF IsNewest

LEMMA QueryKeeps ==
    ASSUME ListInvariant, QueryTickets
    PROVE  ListInvariant'
<1> USE DEF ListInvariant
<1>1. PICK rows \in SUBSET Candidates, limit \in Limits :
          /\ IsNewest(rows, Candidates, limit)
          /\ Scan(Candidates, rows)
          /\ hasMore' = (Cardinality(Candidates) > limit)
  BY DEF QueryTickets
<1>2. phase = "query"
  BY DEF QueryTickets
<1>3. /\ LedgerTypeOK' /\ LogsReadable'
      /\ UNCHANGED <<log, closed, createdAt>>
      /\ \A t \in Tickets : Key(t)' = Key(t)
  BY <1>1, TablesStill DEF Scan
<1>4. /\ page' = [t \in rows |-> RowOf(t, Unassigned)]
      /\ phase' = IF rows = {} THEN "answered" ELSE "departments"
      /\ steady' = IF cursor = None THEN Candidates ELSE steady
      /\ UNCHANGED <<view, cursor, shown>>
  BY <1>1 DEF Scan
<1>5. Candidates \subseteq Tickets /\ rows \subseteq Candidates
  BY DEF Candidates
<1>6. \A t \in Candidates : InView(t) /\ log[t] # <<>>
  BY DEF Candidates, InView
<1>7. \A t \in rows : RowOf(t, Unassigned) \in ListRow
  BY <1>5, <1>6, RowTyped
<1>8. DOMAIN page' = rows
  BY <1>4
<1>9. ListTypeOK'
  <2>1. hasMore' \in BOOLEAN /\ phase' \in ListPhases
    BY <1>1, <1>4 DEF ListPhases
  <2>2. steady' \subseteq Tickets
    BY <1>4, <1>5 DEF ListTypeOK
  <2>3. \A t \in rows : page'[t] \in ListRow
    BY <1>4, <1>7
  <2> QED
    BY <1>3, <1>4, <1>5, <1>8, <2>1, <2>2, <2>3 DEF ListTypeOK
<1>10. TicketsExist'
  <2>1. \A t \in (shown \cup steady \cup DOMAIN page)' : log[t] # <<>>
    BY <1>4, <1>5, <1>6, <1>8 DEF TicketsExist
  <2>2. \A t \in steady' : view = "closed" <=> t \in closed
    BY <1>4, <1>6 DEF TicketsExist, InView
  <2>3. \A t \in rows : page'[t].key = Key(t)
    BY <1>4 DEF RowOf
  <2> QED
    BY <1>3, <1>4, <1>5, <1>8, <2>1, <2>2, <2>3 DEF TicketsExist
<1>11. PageIsRead'
  BY <1>4 DEF PageIsRead, Reading
<1>12. CursorSeparates'
  <2>1. cursor # None => \A t \in rows : Less(Key(t), cursor)
    BY <1>5 DEF Candidates
  <2> QED
    BY <1>2, <1>3, <1>4, <1>5, <1>8, <2>1 DEF CursorSeparates, ListTypeOK
<1>13. SteadyAccounted'
  <2>1. \A t \in steady' : t \in shown \/ t \in Candidates
    <3>1. CASE cursor = None
      BY <1>4, <3>1
    <3>2. CASE cursor # None
      BY <1>4, <3>2 DEF SteadyAccounted, Candidates, InView, TicketsExist, ListTypeOK
    <3> QED
      BY <3>1, <3>2
  <2>2. \A t \in Candidates \ rows : hasMore' /\ \A s \in rows : Less(Key(t), Key(s))
    BY <1>1, <1>5, NewestSeparates
  <2>3. \A t \in steady' : t \in Tickets /\ Key(t)' = Key(t)
    BY <1>3, <1>9 DEF ListTypeOK
  <2>4. \A t \in rows : Key(t)' = Key(t)
    BY <1>3, <1>5
  <2>5. \A t \in steady' :
          \/ t \in (shown \cup DOMAIN page)'
          \/ hasMore' /\ \A s \in DOMAIN page' : Less(Key(t)', Key(s)')
    BY <1>4, <1>8, <2>1, <2>2, <2>3, <2>4
  <2>6. cursor' # None => \A t \in steady' : t \in shown' \/ Less(Key(t)', cursor')
    BY <1>4, <2>3 DEF SteadyAccounted
  <2> QED
    BY <1>4, <2>5, <2>6 DEF SteadyAccounted, Reading, Less, Key
<1>14. ClosedAsRead'
  <2>1. \A t \in rows : page'[t].status = "closed" =>
             t \in closed /\ page'[t].acceptedBy = Acceptor(log[t])
    BY <1>4 DEF RowOf, Status
  <2> QED
    BY <1>3, <1>4, <1>8, <2>1 DEF ClosedAsRead
<1>15. RowsRemember'
  <2> SUFFICES ASSUME NEW t \in rows
               PROVE  Remembers(page'[t], log[t], phase')
    BY <1>3, <1>8 DEF RowsRemember
  <2>1. log[t] \in Seq(Event) /\ log[t] # <<>>
    BY <1>5, <1>6 DEF ListTypeOK, LedgerTypeOK
  <2>2. Len(log[t]) \in 1 .. Len(log[t]) /\ Moment(log[t], Len(log[t])) = log[t]
    BY <2>1, NowIsAMoment
  <2>3. page'[t].acceptedBy = Acceptor(log[t]) /\ phase' = "departments"
    BY <1>4 DEF RowOf
  <2> QED
    BY <2>1, <2>2, <2>3 DEF Remembers
<1> QED
  BY <1>3, <1>9, <1>10, <1>11, <1>12, <1>13, <1>14, <1>15

(* A step that only fills in the assignees of the page's rows.             *)
LEMMA LoadKeeps ==
    ASSUME ListInvariant, LoadDepartmentAssignments \/ LoadUserAssignments
    PROVE  ListInvariant'
<1> USE DEF ListInvariant
<1>1. UNCHANGED <<Tables, view, cursor, hasMore, shown, steady>>
  BY DEF LoadDepartmentAssignments, LoadUserAssignments
<1>2. /\ LedgerTypeOK' /\ LogsReadable'
      /\ UNCHANGED <<log, closed, createdAt>>
      /\ \A t \in Tickets : Key(t)' = Key(t)
  BY <1>1, TablesStill
<1>3. phase \in Reading /\ phase' \in Reading /\ phase' \in ListPhases
  BY DEF LoadDepartmentAssignments, LoadUserAssignments, Reading, ListPhases
<1>4. DOMAIN page' = DOMAIN page /\ DOMAIN page \subseteq Tickets
  BY DEF LoadDepartmentAssignments, LoadUserAssignments, ListTypeOK
<1>5. \A t \in DOMAIN page :
         /\ CurrentAssignment(log[t]).departments \in SUBSET Departments
         /\ CurrentAssignment(log[t]).users \in SUBSET Users
  BY <1>4, LogReads DEF LogsReadable, ListTypeOK, LedgerTypeOK, Assignment
<1>6. \A t \in DOMAIN page :
         /\ page'[t] \in ListRow
         /\ page'[t].key = page[t].key
         /\ page'[t].status = page[t].status
         /\ page'[t].acceptedBy = page[t].acceptedBy
         /\ phase = "departments" =>
               page'[t].departments = CurrentAssignment(log[t]).departments
         /\ phase = "users" =>
               /\ page'[t].departments = page[t].departments
               /\ page'[t].users = CurrentAssignment(log[t]).users
  <2> SUFFICES ASSUME NEW t \in DOMAIN page
               PROVE  /\ page'[t] \in ListRow
                      /\ page'[t].key = page[t].key
                      /\ page'[t].status = page[t].status
                      /\ page'[t].acceptedBy = page[t].acceptedBy
                      /\ phase = "departments" =>
                            page'[t].departments = CurrentAssignment(log[t]).departments
                      /\ phase = "users" =>
                            /\ page'[t].departments = page[t].departments
                            /\ page'[t].users = CurrentAssignment(log[t]).users
    OBVIOUS
  <2>1. page[t] \in ListRow
    BY DEF ListTypeOK
  <2>2. CASE LoadDepartmentAssignments
    <3>1. phase = "departments" /\ page'[t] =
            [page[t] EXCEPT !.departments = CurrentAssignment(log[t]).departments]
      BY <2>2 DEF LoadDepartmentAssignments
    <3> QED
      BY <1>5, <2>1, <3>1 DEF ListRow
  <2>3. CASE LoadUserAssignments
    <3>1. phase = "users" /\ page'[t] =
            [page[t] EXCEPT !.users = CurrentAssignment(log[t]).users]
      BY <2>3 DEF LoadUserAssignments
    <3> QED
      BY <1>5, <2>1, <3>1 DEF ListRow
  <2> QED
    BY <2>2, <2>3
<1>7. ListTypeOK'
  BY <1>1, <1>2, <1>3, <1>4, <1>6 DEF ListTypeOK
<1>8. TicketsExist'
  BY <1>1, <1>2, <1>4, <1>6 DEF TicketsExist
<1>9. PageIsRead'
  BY <1>3 DEF PageIsRead
<1>10. CursorSeparates'
  BY <1>1, <1>2, <1>3, <1>4 DEF CursorSeparates, ListTypeOK, Reading
<1>11. SteadyAccounted'
  <2>1. \A t \in steady \cup DOMAIN page : Key(t)' = Key(t)
    BY <1>2, <1>4 DEF ListTypeOK
  <2> QED
    BY <1>1, <1>3, <1>4, <2>1 DEF SteadyAccounted, Reading, Less
<1>12. ClosedAsRead'
  <2>1. \/ phase = "departments" /\ phase' = "users"
        \/ phase = "users" /\ phase' = "answered"
    BY DEF LoadDepartmentAssignments, LoadUserAssignments
  <2> QED
    BY <1>2, <1>4, <1>6, <2>1 DEF ClosedAsRead
<1>13. RowsRemember'
  <2> SUFFICES ASSUME NEW t \in DOMAIN page
               PROVE  Remembers(page'[t], log[t], phase')
    BY <1>2, <1>4 DEF RowsRemember
  <2>1. log[t] \in Seq(Event) /\ log[t] # <<>>
    BY <1>4 DEF TicketsExist, ListTypeOK, LedgerTypeOK
  <2> DEFINE now == Len(log[t])
  <2>2. now \in Nat /\ now \in 1 .. now /\ Moment(log[t], now) = log[t]
    BY <2>1, NowIsAMoment
  <2>3. PICK h \in 1 .. now, i \in 1 .. now :
            /\ h <= i
            /\ page[t].acceptedBy = Acceptor(Moment(log[t], h))
            /\ phase \in {"users", "answered"} =>
                  page[t].departments = CurrentAssignment(Moment(log[t], i)).departments
    BY DEF RowsRemember, Remembers
  <2> HIDE DEF now
  <2>4. CASE phase = "departments"
    <3>1. /\ page'[t].acceptedBy = Acceptor(Moment(log[t], h)) /\ h <= now
          /\ page'[t].departments = CurrentAssignment(Moment(log[t], now)).departments
          /\ phase' = "users"
      BY <1>6, <2>2, <2>3, <2>4 DEF LoadDepartmentAssignments, LoadUserAssignments
    <3> QED
      BY <2>2, <3>1 DEF Remembers, now
  <2>5. CASE phase = "users"
    <3>1. /\ page'[t].acceptedBy = Acceptor(Moment(log[t], h)) /\ h <= i /\ i <= now
          /\ page'[t].departments = CurrentAssignment(Moment(log[t], i)).departments
          /\ page'[t].users = CurrentAssignment(Moment(log[t], now)).users
      BY <1>6, <2>2, <2>3, <2>5
    <3> QED
      BY <2>2, <3>1 DEF Remembers, now
  <2> QED
    BY <2>4, <2>5 DEF LoadDepartmentAssignments, LoadUserAssignments
<1> QED
  BY <1>2, <1>7, <1>8, <1>9, <1>10, <1>11, <1>12, <1>13

LEMMA ReceiveKeeps ==
    ASSUME ListInvariant, Receive
    PROVE  ListInvariant'
<1> USE DEF ListInvariant
<1>1. /\ LedgerTypeOK' /\ LogsReadable'
      /\ UNCHANGED <<log, closed, createdAt, view, hasMore, steady>>
      /\ \A t \in Tickets : Key(t)' = Key(t)
  BY TablesStill DEF Receive
<1>2. phase = "answered" /\ shown' = shown \cup DOMAIN page /\ DOMAIN page' = {}
  BY DEF Receive
<1>3. shown \cup steady \cup DOMAIN page \subseteq Tickets
  BY DEF ListTypeOK
<1>4. TicketsExist' /\ ClosedAsRead' /\ RowsRemember'
  BY <1>1, <1>2, <1>3 DEF TicketsExist, ClosedAsRead, RowsRemember
<1>5. PageIsRead'
  BY <1>2 DEF PageIsRead
<1>6. CASE hasMore
  <2>1. PICK last \in Tickets : IsLast(last) /\ cursor' = page[last].key
    BY <1>6 DEF Receive, CursorAfter
  <2>2. phase' = "query"
    BY <1>6 DEF Receive
  <2>3. last \in DOMAIN page /\ cursor' = Key(last) /\ cursor' \in Keys
    BY <2>1 DEF IsLast, TicketsExist, ListTypeOK, ListRow
  <2>4. \A t \in shown \cup steady \cup DOMAIN page : Key(t) \in Keys
    BY <1>3, KeyIsNumeric DEF TicketsExist
  <2>5. \A t \in DOMAIN page : ~Less(Key(t), cursor')
    BY <2>1, <2>3 DEF IsLast, TicketsExist
  <2>6. \A s \in shown : ~Less(Key(s), cursor')
    <3>1. CASE cursor = None
      BY <1>2, <3>1 DEF CursorSeparates
    <3>2. CASE cursor # None
      <4>1. Less(cursor', cursor) /\ cursor \in Keys
        BY <1>2, <2>3, <3>2 DEF CursorSeparates, ListTypeOK, Cursors
      <4>2. \A s \in shown : ~Less(Key(s), cursor)
        BY <1>2, <3>2 DEF CursorSeparates
      <4> QED
        BY <2>3, <2>4, <4>1, <4>2, KeysAreNumbers DEF Less
    <3> QED
      BY <3>1, <3>2
  <2>7. \A t \in steady : t \in shown' \/ Less(Key(t), cursor')
    BY <1>2, <2>3 DEF SteadyAccounted, Reading
  <2>8. cursor' # None
    BY <2>3, ListAssumption DEF Keys
  <2>9. ListTypeOK'
    BY <1>1, <1>2, <1>3, <2>2, <2>3 DEF ListTypeOK, Cursors, ListPhases
  <2>10. CursorSeparates'
    <3>1. \A s \in shown' : ~Less(Key(s), cursor') /\ Key(s)' = Key(s)
      BY <1>1, <1>2, <1>3, <2>5, <2>6
    <3> QED
      BY <1>2, <2>8, <3>1 DEF CursorSeparates, Less
  <2>11. SteadyAccounted'
    <3>1. \A t \in steady' : Key(t)' = Key(t)
      BY <1>1, <1>3
    <3> QED
      BY <1>1, <2>2, <2>7, <3>1 DEF SteadyAccounted, Reading, Less
  <2> QED
    BY <1>1, <1>4, <1>5, <2>9, <2>10, <2>11
<1>7. CASE ~hasMore
  <2>1. phase' = "end" /\ cursor' = cursor
    BY <1>7 DEF Receive
  <2>2. steady' \subseteq shown'
    BY <1>1, <1>2, <1>7 DEF SteadyAccounted, Reading
  <2>3. ListTypeOK'
    BY <1>1, <1>2, <1>3, <2>1 DEF ListTypeOK, ListPhases
  <2>4. CursorSeparates'
    BY <2>1 DEF CursorSeparates
  <2>5. SteadyAccounted'
    <3>1. \A t \in steady' : Key(t)' = Key(t)
      BY <1>1, <1>3
    <3> QED
      BY <1>1, <1>2, <2>1, <2>2, <3>1 DEF SteadyAccounted, Reading, Less
  <2> QED
    BY <1>1, <1>4, <1>5, <2>3, <2>4, <2>5
<1> QED
  BY <1>6, <1>7

LEMMA FailKeeps ==
    ASSUME ListInvariant, FailRequest
    PROVE  ListInvariant'
<1> USE DEF ListInvariant
<1>1. /\ LedgerTypeOK' /\ LogsReadable'
      /\ UNCHANGED <<log, closed, createdAt, view, cursor, hasMore, shown, steady>>
      /\ \A t \in Tickets : Key(t)' = Key(t)
  BY TablesStill DEF FailRequest
<1>2. phase \in Reading /\ phase' = "query" /\ DOMAIN page' = {}
  BY DEF FailRequest, Reading
<1>3. ListTypeOK'
  BY <1>1, <1>2 DEF ListTypeOK, ListPhases
<1>4. TicketsExist' /\ PageIsRead' /\ ClosedAsRead' /\ RowsRemember'
  BY <1>1, <1>2 DEF TicketsExist, PageIsRead, ClosedAsRead, RowsRemember
<1>5. \A t \in shown \cup steady : Key(t)' = Key(t)
  BY <1>1 DEF ListTypeOK
<1>6. CursorSeparates' /\ SteadyAccounted'
  BY <1>1, <1>2, <1>5 DEF CursorSeparates, SteadyAccounted, Reading, Less
<1> QED
  BY <1>1, <1>3, <1>4, <1>6

-----------------------------------------------------------------------------
(* The invariant and what it implies.                                      *)

LEMMA InitEstablishes ==
    ASSUME ListInit
    PROVE  ListInvariant
<1> USE DEF ListInit, LedgerInit
<1>1. \A t \in Tickets : log[t] = <<>> \/ \E u \in Users : log[t] = <<CreatedEvent(u)>>
  OBVIOUS
<1>2. \A u \in Users : CreatedEvent(u) \in Event
  BY DEF CreatedEvent, Event
<1>3. LedgerTypeOK
  <2>1. \A e \in Event : <<e>> \in Seq(Event)
    OBVIOUS
  <2>2. {<<CreatedEvent(u)>> : u \in Users} \subseteq Seq(Event)
    BY <1>2, <2>1
  <2>3. <<>> \in Seq(Event)
    OBVIOUS
  <2> QED
    BY <2>2, <2>3 DEF LedgerTypeOK
<1>4. LogsReadable
  <2> SUFFICES ASSUME NEW t \in Tickets, NEW k \in {"assignment_updated", "accepted"}
               PROVE  Positions(log[t], k) = {}
    BY DEF LogsReadable, HasLatest
  <2> QED
    BY <1>1 DEF Positions, CreatedEvent
<1>5. ListTypeOK
  <2>1. PICK time \in [Tickets -> Times] :
           createdAt = [t \in Tickets |-> IF log[t] = <<>> THEN None ELSE time[t]]
    OBVIOUS
  <2>2. /\ createdAt \in [Tickets -> Times \cup {None}]
        /\ \A t \in Tickets : createdAt[t] \in IF log[t] = <<>> THEN {None} ELSE Times
    BY <2>1
  <2>3. DOMAIN page = {}
    OBVIOUS
  <2> QED
    BY <1>3, <2>2, <2>3 DEF ListTypeOK, Views, ListPhases, Cursors
<1>6. /\ TicketsExist /\ PageIsRead /\ CursorSeparates /\ SteadyAccounted /\ ClosedAsRead
      /\ RowsRemember
  BY DEF TicketsExist, PageIsRead, CursorSeparates, SteadyAccounted, ClosedAsRead, Reading,
         RowsRemember
<1> QED
  BY <1>4, <1>5, <1>6 DEF ListInvariant

LEMMA StepKeeps ==
    ASSUME ListInvariant, [ListNext]_listVars
    PROVE  ListInvariant'
<1>1. CASE Environment
  BY <1>1, EnvironmentStep, MoveKeepsInvariant DEF ListInvariant
<1>2. CASE \E v \in Views : Start(v)
  BY <1>2, StartKeeps
<1>3. CASE QueryTickets
  BY <1>3, QueryKeeps
<1>4. CASE LoadDepartmentAssignments \/ LoadUserAssignments
  BY <1>4, LoadKeeps
<1>5. CASE Receive
  BY <1>5, ReceiveKeeps
<1>6. CASE FailRequest
  BY <1>6, FailKeeps
<1>7. CASE UNCHANGED listVars
  BY <1>7 DEF listVars, listing, ledgerVars, ListInvariant, ListTypeOK, LedgerTypeOK,
              LogsReadable, TicketsExist, PageIsRead, CursorSeparates, SteadyAccounted,
              ClosedAsRead, RowsRemember, Key, Less
<1> QED
  BY <1>1, <1>2, <1>3, <1>4, <1>5, <1>6, <1>7 DEF ListNext, ReadPage

(* ListInvariant holds of every instance of the list.                      *)
THEOREM ListInvariantHolds == ListSpec => []ListInvariant
<1>1. ListInit => ListInvariant
  BY InitEstablishes
<1>2. ListInvariant /\ [ListNext]_listVars => ListInvariant'
  BY StepKeeps
<1> QED
  BY <1>1, <1>2, PTL DEF ListSpec

(* Every variable of the list keeps its type (repository.go, List).        *)
THEOREM ListTypeCorrectness == ListSpec => []ListTypeOK
BY ListInvariantHolds, PTL DEF ListInvariant

(* A list that was read to its end has shown every ticket that was in the  *)
(* view all the time, whatever the tables did (the keyset cursor).         *)
THEOREM PagingMissesNothing == ListSpec => []NothingSteadyIsMissed
<1>1. ListInvariant => NothingSteadyIsMissed
  BY DEF ListInvariant, SteadyAccounted, NothingSteadyIsMissed
<1> QED
  BY <1>1, ListInvariantHolds, PTL

(* Every row of a new page is older than every row the client has.         *)
THEOREM PagingDescends == ListSpec => []PagesDescend
<1>1. ASSUME ListInvariant
      PROVE  PagesDescend
  <2> USE <1>1 DEF ListInvariant
  <2> SUFFICES ASSUME NEW t \in DOMAIN page, NEW s \in shown
               PROVE  Less(Key(t), Key(s))
    BY DEF PagesDescend
  <2>1. phase # "end" /\ cursor # None
    BY DEF PageIsRead, Reading, CursorSeparates
  <2>2. Less(Key(t), cursor) /\ ~Less(Key(s), cursor)
    BY <2>1 DEF CursorSeparates
  <2>3. Key(t) \in Keys /\ Key(s) \in Keys /\ cursor \in Keys
    BY <2>1, KeyIsNumeric DEF ListTypeOK, TicketsExist, Cursors
  <2> QED
    BY <2>2, <2>3, LessThrough
<1> QED
  BY <1>1, ListInvariantHolds, PTL

(* A row that says closed shows the ticket's final owner and assignees.    *)
THEOREM ClosedRowsStayFinal == ListSpec => []ClosedRowsAreFinal
<1>1. ASSUME ListInvariant
      PROVE  ClosedRowsAreFinal
  <2> USE <1>1 DEF ListInvariant
  <2> SUFFICES ASSUME phase = "answered", NEW t \in DOMAIN page, page[t].status = "closed"
               PROVE  page[t] = RowOf(t, CurrentAssignment(log[t]))
    BY DEF ClosedRowsAreFinal
  <2>1. page[t] \in ListRow /\ page[t].key = Key(t)
    BY DEF ListTypeOK, TicketsExist
  <2>2. /\ Status(t) = "closed"
        /\ page[t].acceptedBy = Acceptor(log[t])
        /\ page[t].departments = CurrentAssignment(log[t]).departments
        /\ page[t].users = CurrentAssignment(log[t]).users
    BY DEF ClosedAsRead, Status
  <2> QED
    BY <2>1, <2>2 DEF ListRow, RowOf
<1> QED
  BY <1>1, ListInvariantHolds, PTL

(* A row shows an owner, departments and users that its ticket had at      *)
(* three moments, in the order of the three statements, however the ticket *)
(* changes between them.                                                   *)
THEOREM RowsAreHistory == ListSpec => []RowsFollowHistory
<1>1. ListInvariant => RowsFollowHistory
  BY DEF ListInvariant, RowsRemember, Remembers, RowsFollowHistory
<1> QED
  BY <1>1, ListInvariantHolds, PTL
=============================================================================
