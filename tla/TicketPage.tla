----------------------------- MODULE TicketPage -----------------------------
(***************************************************************************)
(* The staff member's tickets page: routes/+page.svelte with the chat      *)
(* state machine and the acceptance and assignment controllers of          *)
(* lib/client.                                                             *)
(*                                                                         *)
(* The browser runs one handler at a time, so a click and the arrival of   *)
(* an answer are one step each.  What is concurrent are the requests: each *)
(* is in calls from its fetch until its answer has been handled, the       *)
(* server works on it in a step of its own, and answers arrive in any      *)
(* order.  Meanwhile the user clicks on and other staff work too.          *)
(*                                                                         *)
(* Of a ticket the page shows, only the status and whose it is are kept;   *)
(* messages are left out.  A 401 ends the page: it goes to /login.         *)
(***************************************************************************)
EXTENDS Naturals, Sequences, FiniteSets

CONSTANTS
    Tickets,       \* ticket ids, in the order of creation
    Existing,      \* the tickets that are there at first, all pending
    PageSize,      \* pageSize
    Mutations,     \* what the user does besides looking: create, accept, assign
    BehindDialog,  \* whether the keyboard reaches the page behind a dialog
    MaxClicks,     \* how often the user acts (a bound)
    MaxStaff,      \* how often other staff act (a bound)
    None           \* null

ASSUME PageTickets ==
    /\ Tickets \subseteq Nat \ {0} /\ IsFiniteSet(Tickets)
    /\ Existing \subseteq Tickets
ASSUME PageLimit == PageSize \in Nat \ {0}
ASSUME PageChoices == Mutations \subseteq {"create", "accept", "assign"} /\ BehindDialog \in BOOLEAN
ASSUME PageBounds == MaxClicks \in Nat /\ MaxStaff \in Nat
ASSUME PageNull == None \notin Tickets

VARIABLES
    server,     \* server[t]: the status of ticket t in the database
    view,       \* activeView
    list,       \* tickets, page, ticketState, ticketRequestSequence and ...InFlight
    chat,       \* the chat state machine; shown is the ticket it displays
    gen,        \* chatViewGeneration
    dialogs,    \* the open dialogs: newRequestOpen, assignDialogTicketID, ...Origin
    accepting,  \* acceptInFlightIDs
    assigning,  \* assignInFlightIDs
    calls,      \* the requests on their way
    onPage,     \* FALSE once the page has gone to /login
    clicks,     \* how often the user has acted
    staff       \* how often other staff have acted

page == <<view, list, chat, gen, dialogs, accepting, assigning, onPage>>
vars == <<server, page, calls, clicks, staff>>

Views == {"open", "closed"}
Origins == {"row", "chat"}
Statuses == {"absent", "pending", "mine", "theirs", "closed"}
Row == [id : Tickets, status : Statuses \ {"absent"}]

(* The context a mutation is sent in; its answer is compared with it.      *)
Here == [list |-> list.seq, view |-> view, gen |-> gen, chat |-> chat.seq]

(* A request has no reply until the server has worked on it.               *)
Unanswered == [kind |-> "none", rows |-> <<>>, more |-> FALSE]
Told(kind) == [Unanswered EXCEPT !.kind = kind]
Shows(rows, more) == [kind |-> "ok", rows |-> rows, more |-> more]

Call(op, t, at) == [op |-> op, ticket |-> t, before |-> None, at |-> at, reply |-> Unanswered]

InFlight(op) == {c \in calls : c.op = op}

-----------------------------------------------------------------------------
(* The server, as the handlers of client/tickets answer one request.       *)

InView(v) ==
    IF v = "open" THEN {t \in Tickets : server[t] \in {"pending", "mine", "theirs"}}
                  ELSE {t \in Tickets : server[t] = "closed"}

RowOf(t) == [id |-> t, status |-> server[t]]

(* List: the newest tickets of the view that come after the cursor.        *)
ListPage(v, before) ==
    LET after == {t \in InView(v) : before = None \/ t < before}
        size  == IF Cardinality(after) > PageSize THEN PageSize ELSE Cardinality(after)
        nth(i) == CHOOSE t \in after : Cardinality({u \in after : u >= t}) = i
    IN Shows([i \in 1 .. size |-> RowOf(nth(i))], Cardinality(after) > PageSize)

Answered(c, reply) == calls' = (calls \ {c}) \cup {[c EXCEPT !.reply = reply]}

(* An answer of the kind told, or none that the page can use.              *)
AnsweredOrLost(c, reply) == Answered(c, reply) \/ Answered(c, Told("error"))

ServeRead(c) ==
    /\ c.op \in {"first", "more", "detail", "refresh"}
    /\ AnsweredOrLost(c, IF c.op \in {"first", "more"}
                         THEN ListPage(c.at.view, c.before)
                         ELSE Shows(<<RowOf(c.ticket)>>, FALSE))
    /\ UNCHANGED server

ServeAccept(c) ==
    /\ c.op = "accept"
    /\ \/ /\ server[c.ticket] \in {"pending", "mine"}
          /\ server' = [server EXCEPT ![c.ticket] = "mine"]
          /\ AnsweredOrLost(c, Shows(<<[id |-> c.ticket, status |-> "mine"]>>, FALSE))
       \/ /\ server[c.ticket] \in {"theirs", "closed"}
          /\ AnsweredOrLost(c, Told("conflict"))
          /\ UNCHANGED server

ServeAssign(c) ==
    /\ c.op = "assign"
    /\ IF server[c.ticket] = "closed"
       THEN Answered(c, Told("error"))
       ELSE AnsweredOrLost(c, Shows(<<RowOf(c.ticket)>>, FALSE))
    /\ UNCHANGED server

ServeCreate(c) ==
    /\ c.op = "create"
    /\ \E t \in Tickets :
          /\ server[t] = "absent"
          /\ \A u \in Tickets : server[u] = "absent" => t <= u
          /\ server' = [server EXCEPT ![t] = "pending"]
          /\ AnsweredOrLost(c, Shows(<<[id |-> t, status |-> "pending"]>>, FALSE))

(* The request fails before it has an effect, or the session is over.      *)
ServeNot(c) ==
    /\ Answered(c, Told("error")) \/ Answered(c, Told("signed_out"))
    /\ UNCHANGED server

Serve ==
    /\ onPage
    /\ \E c \in calls :
          /\ c.reply = Unanswered
          /\ ServeRead(c) \/ ServeAccept(c) \/ ServeAssign(c) \/ ServeCreate(c) \/ ServeNot(c)
    /\ UNCHANGED <<page, clicks, staff>>

(* Another staff member accepts a ticket, or it is closed by other means.  *)
Staff(t) ==
    /\ onPage
    /\ staff < MaxStaff
    /\ staff' = staff + 1
    /\ \/ server[t] = "pending" /\ server' = [server EXCEPT ![t] = "theirs"]
       \/ server[t] \in {"mine", "theirs"} /\ server' = [server EXCEPT ![t] = "closed"]
    /\ UNCHANGED <<page, calls, clicks>>

-----------------------------------------------------------------------------
(* What several handlers do.                                               *)

(* The fields of the dialogs after closeAssignDialog.                      *)
WithoutAssign == [dialogs EXCEPT !.assign = None, !.origin = "row"]

Closed == [chat EXCEPT !.status = "closed", !.ticket = None, !.shown = None, !.seq = @ + 1]

CloseTicketChat ==
    /\ gen' = gen + 1
    /\ chat' = Closed
    /\ dialogs' = WithoutAssign

(* Slip: the chat keeps what it shows until the answer.                    *)
LoadBehindShownTicket(t) ==
    /\ gen' = gen + 1
    /\ chat' = [chat EXCEPT !.status = "loading", !.ticket = t, !.seq = @ + 1]
    /\ calls' = calls \cup {Call("detail", t, [Here EXCEPT !.gen = @ + 1, !.chat = @ + 1])}

(* begin and loadTicketChat: the chat shows nothing until the answer.      *)
LoadTicketChat(t) ==
    /\ gen' = gen + 1
    /\ chat' = [status |-> "loading", ticket |-> t, shown |-> None, seq |-> chat.seq + 1]
    /\ calls' = calls \cup {Call("detail", t, [Here EXCEPT !.gen = @ + 1, !.chat = @ + 1])}

(* left: the calls that stay; a list request in flight forbids another.    *)
LoadFirstPage(v, left) ==
    IF list.busy
    THEN calls' = left /\ UNCHANGED list
    ELSE /\ list' = [rows |-> <<>>, more |-> FALSE, state |-> "loading",
                     seq |-> list.seq + 1, busy |-> TRUE]
         /\ calls' = left \cup
               {Call("first", None, [Here EXCEPT !.list = @ + 1, !.view = v])}

ListCurrent(c) == c.at.list = list.seq /\ c.at.view = view
ChatCurrent(c) == c.at.gen = gen /\ chat.ticket = c.ticket

(* applyTicketResult of both controllers: patchTicketInList, updateChat.   *)
ShowTicket(c) ==
    LET row == c.reply.rows[1]
    IN /\ list' = IF ListCurrent(c)
                  THEN [list EXCEPT !.rows =
                          [i \in DOMAIN @ |-> IF @[i].id = row.id THEN row ELSE @[i]]]
                  ELSE list
       /\ chat' = IF ChatCurrent(c) THEN [chat EXCEPT !.status = "ready", !.shown = row]
                                    ELSE chat

Leave == onPage' = FALSE

Click ==
    /\ onPage
    /\ clicks < MaxClicks
    /\ clicks' = clicks + 1
    /\ UNCHANGED <<server, onPage, staff>>

(* A dialog covers the page for the mouse, not for the keyboard: nothing   *)
(* behind it is inert, and it does not keep the focus.                     *)
Reachable == BehindDialog \/ (~dialogs.new /\ dialogs.assign = None)

PageClick == Click /\ Reachable

RowsShown == {list.rows[i] : i \in DOMAIN list.rows}

(* getCurrentTicketForAccept and ...ForAssignment, as a set.               *)
CurrentTicket(t, origin) ==
    IF origin = "chat" /\ chat.ticket = t
    THEN {chat.shown} \ {None}
    ELSE {row \in RowsShown : row.id = t}

-----------------------------------------------------------------------------
(* The list.                                                               *)

(* Slip: the tabs work while a list request is in flight.                  *)
SwitchViewWhileBusy(v) ==
    /\ PageClick
    /\ v # view
    /\ CloseTicketChat
    /\ view' = v
    /\ LoadFirstPage(v, calls)
    /\ UNCHANGED <<accepting, assigning>>

SwitchView(v) ==
    /\ PageClick
    /\ v # view /\ ~list.busy
    /\ CloseTicketChat
    /\ view' = v
    /\ LoadFirstPage(v, calls)
    /\ UNCHANGED <<accepting, assigning>>

(* Retry is offered in place of a list that could not be loaded.           *)
RetryTicketLoad ==
    /\ PageClick
    /\ list.state = "error" /\ list.rows = <<>>
    /\ LoadFirstPage(view, calls)
    /\ UNCHANGED <<view, chat, gen, dialogs, accepting, assigning>>

(* loadMore from its button, or from Retry after it failed.                *)
LoadMore ==
    /\ PageClick
    /\ ~list.busy /\ list.more
    /\ list' = [list EXCEPT !.seq = @ + 1, !.busy = TRUE]
    /\ calls' = calls \cup
          {[Call("more", None, [Here EXCEPT !.list = @ + 1])
              EXCEPT !.before = list.rows[Len(list.rows)].id]}
    /\ UNCHANGED <<view, chat, gen, dialogs, accepting, assigning>>

(* Slip: a failed request does not give the list back.                     *)
ListFailedUnreleased(c) ==
    list' = [list EXCEPT !.state = IF c.op = "first" THEN "error" ELSE @]

ListFailed(c) ==
    list' = [list EXCEPT !.state = IF c.op = "first" THEN "error" ELSE @, !.busy = FALSE]

ListAnswered(c) ==
    /\ c.op \in {"first", "more"}
    /\ IF c.at.list # list.seq
       THEN UNCHANGED <<list, onPage>>
       ELSE \/ /\ c.reply.kind = "ok"
               /\ list' = [list EXCEPT
                     !.rows  = IF c.op = "more" THEN @ \o c.reply.rows ELSE c.reply.rows,
                     !.more  = c.reply.more,
                     !.state = "ready",
                     !.busy  = FALSE]
               /\ UNCHANGED onPage
            \/ /\ c.reply.kind = "error"
               /\ ListFailed(c)
               /\ UNCHANGED onPage
            \/ /\ c.reply.kind = "signed_out"
               /\ list' = [list EXCEPT !.busy = FALSE]
               /\ Leave
    /\ UNCHANGED <<view, chat, gen, dialogs, accepting, assigning>>

-----------------------------------------------------------------------------
(* The chat.                                                               *)

OpenTicketChat(t) ==
    /\ PageClick
    /\ \E row \in RowsShown : row.id = t
    /\ LoadTicketChat(t)
    /\ dialogs' = WithoutAssign
    /\ UNCHANGED <<view, list, accepting, assigning>>

(* The chat is part of the list's markup: without rows it is not shown.    *)
ChatShown == chat.status # "closed" /\ list.rows # <<>>

CloseChat ==
    /\ PageClick
    /\ ChatShown
    /\ CloseTicketChat
    /\ UNCHANGED <<view, list, accepting, assigning, calls>>

RetryTicketChat ==
    /\ PageClick
    /\ ChatShown /\ chat.status = "error"
    /\ LoadTicketChat(chat.ticket)
    /\ UNCHANGED <<view, list, dialogs, accepting, assigning>>

(* Slip: isCurrent compares the sequence only.                             *)
LatestRequest(c) == c.at.chat = chat.seq

(* Slip: isCurrent looks at the state only.                                *)
AwaitedRequest(c) == chat.status = "loading"

(* isCurrent.                                                              *)
CurrentRequest(c) ==
    c.at.chat = chat.seq /\ chat.status = "loading" /\ chat.ticket = c.ticket

ChatAnswered(c) ==
    /\ c.op = "detail"
    /\ IF ~CurrentRequest(c)
       THEN UNCHANGED <<chat, onPage>>
       ELSE \/ /\ c.reply.kind = "ok"
               /\ chat' = [chat EXCEPT !.status = "ready", !.ticket = c.ticket,
                                       !.shown = c.reply.rows[1]]
               /\ UNCHANGED onPage
            \/ /\ c.reply.kind = "error"
               /\ chat' = [chat EXCEPT !.status = "error", !.shown = None]
               /\ UNCHANGED onPage
            \/ /\ c.reply.kind = "signed_out"
               /\ chat' = Closed
               /\ Leave
    /\ UNCHANGED <<view, list, gen, dialogs, accepting, assigning>>

-----------------------------------------------------------------------------
(* Acceptance.                                                             *)

AcceptTicket(t, origin) ==
    /\ "accept" \in Mutations
    /\ PageClick
    /\ origin = "chat" => ChatShown /\ chat.ticket = t
    /\ t \notin accepting
    /\ \E ticket \in CurrentTicket(t, origin) : ticket.status = "pending"
    /\ accepting' = accepting \cup {t}
    /\ calls' = calls \cup {Call("accept", t, Here)}
    /\ UNCHANGED <<view, list, chat, gen, dialogs, assigning>>

(* Slip: the ticket is given back before the refresh is answered.          *)
RefreshUnguarded(c) ==
    /\ c.op = "accept" /\ c.reply.kind = "conflict"
    /\ calls' = (calls \ {c}) \cup {Call("refresh", c.ticket, c.at)}
    /\ accepting' = accepting \ {c.ticket}
    /\ UNCHANGED <<view, list, chat, gen, dialogs, assigning, onPage>>

(* After a conflict the ticket stays in flight until it is refreshed.      *)
RefreshAfterConflict(c) ==
    /\ c.op = "accept" /\ c.reply.kind = "conflict"
    /\ calls' = (calls \ {c}) \cup {Call("refresh", c.ticket, c.at)}
    /\ UNCHANGED page

MutationAnswered(c) ==
    \/ /\ c.reply.kind = "ok"
       /\ ShowTicket(c)
       /\ UNCHANGED <<gen, onPage>>
    \/ /\ c.reply.kind = "error"
       /\ UNCHANGED <<list, chat, gen, onPage>>

AcceptAnswered(c) ==
    /\ c.op \in {"accept", "refresh"} /\ c.reply.kind # "conflict"
    /\ accepting' = accepting \ {c.ticket}
    /\ \/ MutationAnswered(c) /\ UNCHANGED dialogs
       \/ c.reply.kind = "signed_out" /\ CloseTicketChat /\ Leave /\ UNCHANGED list
    /\ UNCHANGED <<view, assigning>>

-----------------------------------------------------------------------------
(* Assignment.                                                             *)

OpenAssignDialog(t, origin) ==
    /\ "assign" \in Mutations
    /\ PageClick
    /\ origin = "chat" => ChatShown /\ chat.ticket = t
    /\ t \notin assigning
    /\ \E ticket \in CurrentTicket(t, origin) : ticket.status # "closed"
    /\ dialogs' = [dialogs EXCEPT !.assign = t, !.origin = origin]
    /\ UNCHANGED <<view, list, chat, gen, accepting, assigning, calls>>

(* The dialog cannot be cancelled while it is saving.                      *)
CancelAssign ==
    /\ Click
    /\ dialogs.assign # None /\ InFlight("assign") = {}
    /\ dialogs' = WithoutAssign
    /\ UNCHANGED <<view, list, chat, gen, accepting, assigning, calls>>

(* handleSubmit of the dialog, and assignTicketByID.                       *)
SubmitAssign(t) ==
    /\ Click
    /\ t = dialogs.assign /\ InFlight("assign") = {} /\ ~list.busy
    /\ t \notin assigning
    /\ \E ticket \in CurrentTicket(t, dialogs.origin) : ticket.status # "closed"
    /\ assigning' = assigning \cup {t}
    /\ calls' = calls \cup {Call("assign", t, Here)}
    /\ UNCHANGED <<view, list, chat, gen, dialogs, accepting>>

(* Once it has saved, the dialog that is open closes, for whichever ticket *)
(* it is open by now.                                                      *)
AssignAnswered(c) ==
    /\ c.op = "assign"
    /\ assigning' = assigning \ {c.ticket}
    /\ \/ /\ MutationAnswered(c)
          /\ dialogs' = IF c.reply.kind = "ok" THEN WithoutAssign ELSE dialogs
       \/ c.reply.kind = "signed_out" /\ CloseTicketChat /\ Leave /\ UNCHANGED list
    /\ UNCHANGED <<view, accepting>>

-----------------------------------------------------------------------------
(* New requests.                                                           *)

OpenNewRequest ==
    /\ "create" \in Mutations
    /\ PageClick
    /\ ~list.busy
    /\ gen' = gen + 1
    /\ chat' = Closed
    /\ dialogs' = [WithoutAssign EXCEPT !.new = TRUE]
    /\ UNCHANGED <<view, list, accepting, assigning, calls>>

CancelNewRequest ==
    /\ Click
    /\ dialogs.new /\ InFlight("create") = {}
    /\ dialogs' = [dialogs EXCEPT !.new = FALSE]
    /\ UNCHANGED <<view, list, chat, gen, accepting, assigning, calls>>

SubmitNewRequest ==
    /\ Click
    /\ dialogs.new /\ InFlight("create") = {} /\ ~list.busy
    /\ calls' = calls \cup {Call("create", None, Here)}
    /\ UNCHANGED <<view, list, chat, gen, dialogs, accepting, assigning>>

(* handleNewRequestCreated: the chat closes and the open list is loaded.   *)
NewRequestCreated(c) ==
    /\ c.op = "create" /\ c.reply.kind = "ok"
    /\ gen' = gen + 1
    /\ chat' = Closed
    /\ dialogs' = [WithoutAssign EXCEPT !.new = FALSE]
    /\ view' = "open"
    /\ LoadFirstPage("open", calls \ {c})
    /\ UNCHANGED <<accepting, assigning, onPage>>

NewRequestFailed(c) ==
    /\ c.op = "create" /\ c.reply.kind # "ok"
    /\ onPage' = (c.reply.kind = "error")
    /\ UNCHANGED <<view, list, chat, gen, dialogs, accepting, assigning>>

-----------------------------------------------------------------------------
(* The page once verifySession has found who the user is.                  *)
Init ==
    /\ server = [t \in Tickets |-> IF t \in Existing THEN "pending" ELSE "absent"]
    /\ view = "open"
    /\ list = [rows |-> <<>>, more |-> FALSE, state |-> "loading", seq |-> 1, busy |-> TRUE]
    /\ chat = [status |-> "closed", ticket |-> None, shown |-> None, seq |-> 1]
    /\ gen = 1
    /\ dialogs = [new |-> FALSE, assign |-> None, origin |-> "row"]
    /\ accepting = {} /\ assigning = {}
    /\ calls = {Call("first", None, Here)}
    /\ onPage = TRUE
    /\ clicks = 0 /\ staff = 0

UserActs ==
    \/ \E v \in Views : SwitchView(v)
    \/ RetryTicketLoad \/ LoadMore
    \/ CloseChat \/ RetryTicketChat
    \/ \E t \in Tickets : OpenTicketChat(t)
    \/ \E t \in Tickets, origin \in Origins : AcceptTicket(t, origin)
    \/ \E t \in Tickets, origin \in Origins : OpenAssignDialog(t, origin)
    \/ CancelAssign
    \/ \E t \in Tickets : SubmitAssign(t)
    \/ OpenNewRequest \/ CancelNewRequest \/ SubmitNewRequest

Arrives ==
    /\ onPage
    /\ \E c \in calls :
          /\ c.reply # Unanswered
          /\ \/ RefreshAfterConflict(c) \/ NewRequestCreated(c)
             \/ /\ calls' = calls \ {c}
                /\ \/ ListAnswered(c) \/ ChatAnswered(c) \/ AcceptAnswered(c)
                   \/ AssignAnswered(c) \/ NewRequestFailed(c)
    /\ UNCHANGED <<server, clicks, staff>>

Next == UserActs \/ Serve \/ Arrives \/ \E t \in Tickets : Staff(t)

Spec == Init /\ [][Next]_vars

(* Every fetch settles, and the browser runs the handler that waits for    *)
(* it.  Nobody has to click.                                               *)
FairSpec == Spec /\ WF_vars(Serve) /\ WF_vars(Arrives)

-----------------------------------------------------------------------------
(* Properties.                                                             *)

ListTyped ==
    list \in [rows : Seq(Row), more : BOOLEAN, state : {"loading", "ready", "error"},
              seq : Nat, busy : BOOLEAN]

Chat == [status : {"closed", "loading", "error", "ready"}, ticket : Tickets \cup {None},
         shown : Row \cup {None}, seq : Nat]

(* The shapes of the chat state.                                           *)
ChatTyped ==
    /\ chat \in Chat
    /\ \/ chat.status = "closed" /\ chat.ticket = None /\ chat.shown = None
       \/ chat.status \in {"loading", "error"} /\ chat.ticket \in Tickets /\ chat.shown = None
       \/ chat.status = "ready" /\ chat.shown \in Row /\ chat.shown.id = chat.ticket

DialogsTyped == dialogs \in [new : BOOLEAN, assign : Tickets \cup {None}, origin : Origins]

(* The types.                                                              *)
TypeOK ==
    /\ server \in [Tickets -> Statuses]
    /\ view \in Views
    /\ ListTyped /\ ChatTyped /\ DialogsTyped
    /\ accepting \subseteq Tickets /\ assigning \subseteq Tickets
    /\ onPage \in BOOLEAN
    /\ gen \in Nat /\ clicks \in Nat /\ staff \in Nat

Descending(rows) == \A i, j \in DOMAIN rows : i < j => rows[i].id > rows[j].id

(* The answer c has been handled in this step.                             *)
Handled(c) == c \in calls /\ c \notin calls' /\ c.reply # Unanswered

(* The answer c fills the list under the tab it was asked for.  The open    *)
(* tab can get the closed tickets too, if a creation has moved the tab     *)
(* under the request that counts: see CreationReloadsOpenList.             *)
FillsItsTab(c) ==
    c.at.view = view' \/ (BehindDialog /\ view' = "open" /\ c.at.list = list.seq)

(* Under a list request that counts, only a creation moves the tab.        *)
KeepsItsTab(c) ==
    c.at.list = list.seq /\ view' # view => \E d \in InFlight("create") : Handled(d)

(* What the list shows is a part of one list: an answer only fills it when *)
(* it belongs to the view whose tab is active, and pages join without a    *)
(* ticket twice or out of order, though tickets come and go in between.    *)
ListIsOnePagedView ==
    [][\A c \in InFlight("first") \cup InFlight("more") :
          /\ Handled(c) /\ list'.rows # list.rows
             => FillsItsTab(c) /\ Descending(list'.rows)
          /\ KeepsItsTab(c)]_vars

(* An answer never moves the chat to another ticket or opens it again: it  *)
(* shows the ticket that the user chose last, or none.                     *)
AnswersDoNotMoveChat ==
    [][clicks' = clicks => chat'.ticket \in {chat.ticket, None}]_vars

(* A ticket is not accepted again while its acceptance, with the refresh   *)
(* that a conflict asks for, is under way; nor is it assigned twice.       *)
OneMutationPerTicket ==
    \A t \in Tickets :
        /\ Cardinality({c \in InFlight("accept") \cup InFlight("refresh") : c.ticket = t}) <= 1
        /\ Cardinality({c \in InFlight("assign") : c.ticket = t}) <= 1

(* A finished assignment closes its own dialog, never one that the user    *)
(* has opened for another ticket meanwhile, by keyboard behind the first.  *)
AssignmentClosesItsDialog ==
    [][\A c \in InFlight("assign") :
          Handled(c) /\ dialogs.assign # None /\ dialogs'.assign = None
          => c.ticket = dialogs.assign]_vars

(* A ticket shown as accepted or closed does not say pending after the     *)
(* step, in the row or the chat where it stays.                            *)
NoRowTurnsBack ==
    \A i \in DOMAIN list.rows, j \in DOMAIN list'.rows :
        list.rows[i].id = list'.rows[j].id /\ list'.rows[j].status = "pending"
        => list.rows[i].status = "pending"

ChatDoesNotTurnBack ==
    chat.shown # None /\ chat'.shown # None /\ chat'.ticket = chat.ticket
    /\ chat'.shown.status = "pending" => chat.shown.status = "pending"

NoneTurnsBack == NoRowTurnsBack /\ ChatDoesNotTurnBack

(* What the user has seen of a ticket is not taken back, whatever older    *)
(* answers still arrive.                                                   *)
NeverPendingAgain == [][NoneTurnsBack]_vars

(* The answers of assignments aside, no click and no answer - of the list, *)
(* of a chat, of an acceptance or of the refresh after a conflict - takes  *)
(* back what the user has seen.                                            *)
OnlyAssignmentsTurnBack ==
    [][(\E c \in InFlight("assign") : Handled(c)) \/ NoneTurnsBack]_vars

(* Once the answer to an acceptance has been handled, the row of that      *)
(* ticket, if it is in the list, does not say pending.                     *)
AcceptedRowsArePatched ==
    [][\A c \in InFlight("accept") :
          Handled(c) /\ c.reply.kind = "ok"
          => \A i \in DOMAIN list'.rows :
                list'.rows[i].id = c.ticket => list'.rows[i].status # "pending"]_vars

(* After a creation the open list is loaded from its first page.           *)
CreationReloadsOpenList ==
    [][\A c \in InFlight("create") :
          Handled(c) /\ c.reply.kind = "ok"
          => list'.rows = <<>> /\ \E d \in calls' : d.op = "first" /\ d.at.view = "open"]_vars

(* When the user waits, the page comes to rest: nothing keeps loading or   *)
(* in flight, whatever failed.                                             *)
Resting ==
    ~list.busy /\ chat.status # "loading" /\ accepting = {} /\ assigning = {} /\ calls = {}

ComesToRest == []<>(Resting \/ ~onPage)
=============================================================================
