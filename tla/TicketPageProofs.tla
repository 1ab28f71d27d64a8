--------------------------- MODULE TicketPageProofs ---------------------------
(***************************************************************************)
(* The tickets page, for any tickets, page size and number of clicks: the  *)
(* invariant of TicketPageInvariant holds, the list stays one paged view,  *)
(* no answer moves the chat, a mutation is not sent twice, and only an     *)
(* assignment can take back what the user has seen.                        *)
(***************************************************************************)
EXTENDS TicketPageInvariant, FiniteSetTheorems, WellFoundedInduction, TLAPS

-----------------------------------------------------------------------------
(* What a page of the list is.                                             *)

From(S, t) == {u \in S : u >= t}

Rank(S, t) == Cardinality(From(S, t))

(* The newest ticket has rank 1, and an older one has a higher rank.       *)
LEMMA RankIs ==
    ASSUME NEW S \in SUBSET Nat, IsFiniteSet(S), NEW t \in S
    PROVE  /\ Rank(S, t) \in 1 .. Cardinality(S)
           /\ \A u \in S : u < t => Rank(S, t) < Rank(S, u)
<1>1. From(S, t) \in SUBSET S /\ From(S, t) # {}
  BY DEF From
<1>2. IsFiniteSet(From(S, t)) /\ Rank(S, t) <= Cardinality(S)
  BY <1>1, FS_Subset DEF Rank
<1>3. Rank(S, t) \in Nat /\ Rank(S, t) # 0 /\ Cardinality(S) \in Nat
  BY <1>1, <1>2, FS_EmptySet, FS_CardinalityType DEF Rank
<1>4. ASSUME NEW u \in S, u < t
      PROVE  Rank(S, t) < Rank(S, u)
  <2>1. From(S, t) \in SUBSET From(S, u) /\ From(S, t) # From(S, u)
    <3>1. \A x \in S : x >= t => x >= u
      BY <1>4
    <3>2. u >= u /\ ~(u >= t)
      BY <1>4
    <3> QED
      BY <3>1, <3>2 DEF From
  <2>2. IsFiniteSet(From(S, u))
    BY FS_Subset DEF From
  <2>3. Rank(S, u) \in Nat
    BY <2>2, FS_CardinalityType DEF Rank
  <2> QED
    BY <1>3, <2>1, <2>2, <2>3, FS_Subset DEF Rank
<1> QED
  BY <1>2, <1>3, <1>4

(* Every set of numbers that is not empty has a smallest one.              *)
LEMMA SmallestOf ==
    ASSUME NEW S \in SUBSET Nat, S # {}
    PROVE  \E s \in S : \A u \in S : s <= u
<1>1. PICK s \in S : \A u \in S : ~(<<u, s>> \in OpToRel(<, Nat))
  BY NatLessThanWellFounded, WFMin
<1>2. \A u \in S : ~(u < s)
  BY <1>1 DEF OpToRel
<1> QED
  BY <1>2

(* Every rank is taken: counting from the newest, there is an i-th ticket. *)
LEMMA RanksAreTaken ==
    ASSUME NEW S \in SUBSET Nat, IsFiniteSet(S), NEW i \in 1 .. Cardinality(S)
    PROVE  \E t \in S : Rank(S, t) = i
<1> DEFINE Older == {Rank(S, t) : t \in {s \in S : Rank(S, s) >= i}}
<1>1. Cardinality(S) \in Nat /\ \A t \in S : Rank(S, t) \in Nat
  BY RankIs, FS_CardinalityType
<1>2. Older # {} /\ Older \in SUBSET Nat
  <2>1. S # {}
    BY <1>1, FS_EmptySet
  <2>2. PICK s \in S : \A u \in S : s <= u
    BY <2>1, SmallestOf
  <2>3. From(S, s) = S
    BY <2>2 DEF From
  <2> QED
    BY <1>1, <2>3 DEF Rank
<1>3. PICK k \in Older : \A j \in Older : k <= j
  BY <1>2, SmallestOf
<1>4. PICK t \in S : Rank(S, t) = k /\ k >= i
  BY <1>3
<1>5. CASE k > i
  <2> DEFINE Newer == From(S, t) \ {t}
  <2>1. t \in From(S, t) /\ From(S, t) \in SUBSET S
    BY DEF From
  <2>2. IsFiniteSet(From(S, t))
    BY <2>1, FS_Subset
  <2>3. IsFiniteSet(Newer) /\ Cardinality(Newer) = k - 1
    BY <1>4, <2>1, <2>2, FS_RemoveElement DEF Rank
  <2>4. k - 1 # 0 /\ k \in Nat
    BY <1>1, <1>4, <1>5
  <2>5. Newer # {}
    BY <2>3, <2>4, FS_EmptySet
  <2>6. Newer \in SUBSET Nat
    BY <2>1
  <2>7. PICK s \in Newer : \A u \in Newer : s <= u
    BY <2>5, <2>6, SmallestOf
  <2>8. s \in S /\ s > t
    BY <2>7 DEF From
  <2>9. From(S, s) = Newer
    <3>1. \A u \in S : u >= t /\ u # t <=> u >= s
      <4>1. \A u \in S : u >= t /\ u # t => s <= u
        BY <2>7 DEF From
      <4> QED
        BY <2>8, <4>1
    <3> QED
      BY <3>1 DEF From
  <2>10. Rank(S, s) = k - 1
    BY <2>3, <2>9 DEF Rank
  <2>11. k - 1 \in Older
    BY <1>4, <1>5, <2>4, <2>8, <2>10
  <2> QED
    BY <1>3, <2>4, <2>11
<1>6. CASE k = i
  BY <1>4, <1>6
<1> QED
  BY <1>1, <1>4, <1>5, <1>6

(* What List answers: rows of tickets that exist, newest first, below the  *)
(* cursor, and more only if there are some.                                *)
LEMMA ListPageIs ==
    ASSUME server \in [Tickets -> Statuses], NEW v \in Views,
           NEW before \in Tickets \cup {None}
    PROVE  LET p == ListPage(v, before) IN
           /\ p \in Reply /\ p.kind = "ok"
           /\ \A i \in DOMAIN p.rows :
                 /\ Exists(p.rows[i].id)
                 /\ before # None => p.rows[i].id < before
           /\ Descending(p.rows)
           /\ p.more => p.rows # <<>>
<1> DEFINE after == {t \in InView(v) : before = None \/ t < before}
           size  == IF Cardinality(after) > PageSize THEN PageSize ELSE Cardinality(after)
           nth(i) == CHOOSE t \in after : Cardinality({u \in after : u >= t}) = i
           rows == [i \in 1 .. size |-> RowOf(nth(i))]
<1>1. after \in SUBSET Tickets /\ \A t \in after : Exists(t) /\ server[t] \in Statuses
  BY DEF InView, Exists, Statuses
<1>2. after \in SUBSET Nat /\ IsFiniteSet(after)
  BY <1>1, PageTickets, FS_Subset
<1>3. /\ Cardinality(after) \in Nat /\ size \in Nat /\ size <= Cardinality(after)
      /\ Cardinality(after) > PageSize => size # 0
  BY <1>2, FS_CardinalityType, PageLimit
<1> HIDE DEF after, size
<1>4. ASSUME NEW i \in 1 .. size
      PROVE  nth(i) \in after /\ Rank(after, nth(i)) = i
  <2>1. i \in 1 .. Cardinality(after)
    BY <1>3
  <2>2. \E t \in after : Cardinality({u \in after : u >= t}) = i
    BY <1>2, <2>1, RanksAreTaken DEF Rank, From
  <2> QED
    BY <2>2 DEF Rank, From
<1> HIDE DEF nth
<1>5. \A i \in 1 .. size :
         /\ RowOf(nth(i)) \in Row /\ RowOf(nth(i)).id = nth(i)
         /\ Exists(nth(i)) /\ (before # None => nth(i) < before)
  <2>1. \A t \in after : before # None => t < before
    BY DEF after
  <2>2. \A t \in after : RowOf(t) \in Row /\ RowOf(t).id = t
    BY <1>1 DEF RowOf, Row, Exists
  <2> QED
    BY <1>1, <1>4, <2>1, <2>2
<1>6. rows \in Seq(Row) /\ DOMAIN rows = 1 .. size
  BY <1>3, <1>5
<1>7. \A i, j \in 1 .. size : i < j => nth(i) > nth(j)
  <2> SUFFICES ASSUME NEW i \in 1 .. size, NEW j \in 1 .. size, i < j, ~(nth(i) > nth(j))
               PROVE  FALSE
    OBVIOUS
  <2>1. nth(i) \in Nat /\ nth(j) \in Nat /\ nth(i) \in after /\ nth(j) \in after
    BY <1>2, <1>4
  <2>2. nth(i) = nth(j) \/ nth(i) < nth(j)
    BY <2>1
  <2>3. Rank(after, nth(i)) >= Rank(after, nth(j))
    BY <1>2, <1>4, <2>1, <2>2, RankIs
  <2> QED
    BY <1>3, <1>4, <2>3
<1>8. Descending(rows)
  BY <1>5, <1>6, <1>7 DEF Descending
<1>9. Cardinality(after) > PageSize => rows # <<>>
  BY <1>3, <1>6
<1>10. ListPage(v, before) = Shows(rows, Cardinality(after) > PageSize)
  BY DEF ListPage, after, size, nth
<1> HIDE DEF rows
<1>11. /\ ListPage(v, before).rows = rows /\ ListPage(v, before).kind = "ok"
       /\ ListPage(v, before).more = (Cardinality(after) > PageSize)
       /\ ListPage(v, before) \in Reply
  BY <1>3, <1>6, <1>10 DEF Shows, Unanswered, Reply, Kinds
<1>12. \A i \in DOMAIN rows : rows[i].id = nth(i)
  BY <1>5, <1>6 DEF rows
<1> QED
  BY <1>5, <1>6, <1>8, <1>9, <1>11, <1>12

-----------------------------------------------------------------------------
(* How little a step may change.                                           *)

(* A ticket that exists goes on existing, and what somebody else has       *)
(* accepted, or what is closed, is never the user's to accept.             *)
Taken == {"theirs", "closed"}

ServerGrows ==
    /\ server' \in [Tickets -> Statuses]
    /\ \A t \in Tickets : server[t] # "absent" => server'[t] # "absent"
    /\ \A t \in Tickets : server[t] \in Taken => server'[t] \in Taken

LEMMA UnchangedGrows ==
    ASSUME TypeOK, UNCHANGED server
    PROVE  ServerGrows
BY DEF TypeOK, ServerGrows

LEMMA CallStays ==
    ASSUME ServerGrows, NEW c, CallOK(c), AcceptanceOK(c)
    PROVE  CallOK(c)' /\ AcceptanceOK(c)'
<1>1. \A t : Exists(t) => Exists(t)'
  BY DEF ServerGrows, Exists
<1>2. c.op \in TicketOps => c.ticket \in Tickets
  BY DEF CallOK, Exists
<1>3. CallOK(c)'
  BY <1>1 DEF CallOK, PageReply, TicketReply
<1>4. AcceptanceOK(c)'
  BY <1>2 DEF AcceptanceOK, ServerGrows, Taken, TicketOps
<1> QED
  BY <1>3, <1>4

LEMMA CallsStay ==
    ASSUME CallsOK, ServerGrows,
           \A c \in calls' \ calls : CallOK(c)' /\ AcceptanceOK(c)'
    PROVE  CallsOK'
BY CallStays DEF CallsOK

(* The list keeps its tickets and its request, if any; what a row says may *)
(* change.                                                                 *)
ListKept ==
    /\ ListTyped'
    /\ view' = view
    /\ list'.seq = list.seq /\ list'.busy = list.busy /\ list'.more = list.more
    /\ DOMAIN list'.rows = DOMAIN list.rows /\ Len(list'.rows) = Len(list.rows)
    /\ \A i \in DOMAIN list.rows : list'.rows[i].id = list.rows[i].id

LEMMA UnchangedIsKept ==
    ASSUME TypeOK, UNCHANGED <<view, list>>
    PROVE  ListKept
BY DEF TypeOK, ListKept, ListTyped

LEMMA KeptRows ==
    ASSUME ListTyped, ListKept
    PROVE  /\ list.rows = <<>> <=> list'.rows = <<>>
           /\ list.rows # <<>> => list'.rows[Len(list'.rows)].id = list.rows[Len(list.rows)].id
<1>1. list.rows \in Seq(Row) /\ list'.rows \in Seq(Row)
  BY DEF ListTyped, ListKept
<1>2. list.rows # <<>> => Len(list.rows) \in DOMAIN list.rows
  BY <1>1
<1> QED
  BY <1>1, <1>2 DEF ListKept

LEMMA ListCallsStay ==
    ASSUME TypeOK, ListCallsOK, ListKept,
           \A c \in calls' \ calls : c.op \notin ListOps
    PROVE  ListCallsOK'
<1>1. \A c \in calls : ListCallOK(c) => ListCallOK(c)'
  BY KeptRows DEF TypeOK, ListCallOK, ListKept
<1> QED
  BY <1>1 DEF ListCallsOK

LEMMA ShownStays ==
    ASSUME TypeOK, ShownExists, ListKept, ServerGrows,
           chat'.ticket # None => Exists(chat'.ticket)
    PROVE  ShownExists'
<1>1. \A t : Exists(t) => Exists(t)'
  BY DEF ServerGrows, Exists
<1>2. list'.more => list'.rows # <<>>
  BY KeptRows DEF TypeOK, ShownExists, ListKept
<1>3. Descending(list'.rows)
  BY DEF ShownExists, Descending, ListKept
<1> QED
  BY <1>1, <1>2, <1>3 DEF ShownExists, ListKept

MutationOps == AcceptOps \cup {"assign"}

LEMMA GuardsStay ==
    ASSUME MutationsGuarded, accepting \subseteq accepting', assigning \subseteq assigning',
           \A c \in calls' \ calls : c.op \notin MutationOps
    PROVE  MutationsGuarded'
BY DEF MutationsGuarded, MutationOps

LEMMA DialogsStay ==
    ASSUME DialogsWait, UNCHANGED <<dialogs, onPage>>, list'.busy = list.busy,
           \A c \in calls' \ calls : c.op \notin {"create", "assign"}
    PROVE  DialogsWait'
BY DEF DialogsWait

(* Where the page is when a request is sent.                               *)
LEMMA MomentsAfter ==
    ASSUME NEW h \in Moment
    PROVE  /\ [h EXCEPT !.gen = @ + 1, !.chat = @ + 1] \in Moment
           /\ [h EXCEPT !.list = @ + 1] \in Moment
           /\ [h EXCEPT !.list = @ + 1].list = h.list + 1
           /\ [h EXCEPT !.list = @ + 1].view = h.view
           /\ \A v \in Views :
                 /\ [h EXCEPT !.list = @ + 1, !.view = v] \in Moment
                 /\ [h EXCEPT !.list = @ + 1, !.view = v].list = h.list + 1
                 /\ [h EXCEPT !.list = @ + 1, !.view = v].view = v
<1>1. \A n, m \in Nat : [h EXCEPT !.gen = n, !.chat = m] \in Moment
  BY DEF Moment
<1>2. h.gen + 1 \in Nat /\ h.chat + 1 \in Nat /\ h.list + 1 \in Nat
  BY DEF Moment
<1>3. [h EXCEPT !.gen = @ + 1, !.chat = @ + 1] \in Moment
  BY <1>1, <1>2
<1>4. /\ [h EXCEPT !.list = @ + 1] \in Moment
      /\ [h EXCEPT !.list = @ + 1].list = h.list + 1
      /\ [h EXCEPT !.list = @ + 1].view = h.view
  BY DEF Moment
<1>5. \A n \in Nat, v \in Views :
         /\ [h EXCEPT !.list = n, !.view = v] \in Moment
         /\ [h EXCEPT !.list = n, !.view = v].list = n
         /\ [h EXCEPT !.list = n, !.view = v].view = v
  BY DEF Moment
<1> QED
  BY <1>2, <1>3, <1>4, <1>5

LEMMA HereIsMoment ==
    ASSUME TypeOK
    PROVE  Here \in Moment /\ Here.list = list.seq /\ Here.view = view
<1>1. list.seq \in Nat /\ view \in Views /\ gen \in Nat /\ chat.seq \in Nat
  BY DEF TypeOK, ListTyped, ChatTyped, Chat
<1> QED
  BY <1>1 DEF Here, Moment

(* A request that has just been sent.                                      *)
LEMMA NewCallOK ==
    ASSUME NEW op \in {"first", "detail", "accept", "refresh", "assign", "create"},
           NEW t \in Tickets \cup {None}, NEW at \in Moment, NEW c,
           c = Call(op, t, at), op \in TicketOps => Exists(t),
           op = "refresh" => server[t] \in {"theirs", "closed"}
    PROVE  /\ CallOK(c) /\ AcceptanceOK(c)
           /\ c.op = op /\ c.ticket = t /\ c.at = at /\ c.reply = Unanswered
<1>1. /\ c.op = op /\ c.ticket = t /\ c.at = at /\ c.reply = Unanswered /\ c.before = None
      /\ c.reply.kind = "none"
  BY DEF Call, Unanswered
<1>2. Unanswered \in Reply
  BY DEF Unanswered, Reply, Kinds
<1>3. c \in Calls
  BY <1>2 DEF Calls, Call, ListOps, TicketOps
<1> QED
  BY <1>1, <1>3 DEF CallOK, AcceptanceOK

-----------------------------------------------------------------------------
(* What the user does.                                                     *)

(* The mouse reaches the page only while no dialog waits.                  *)
LEMMA ReachableIsFree ==
    ASSUME PageInvariant, PageClick, ~BehindDialog
    PROVE  /\ ~dialogs.new /\ dialogs.assign = None
           /\ \A c \in calls : c.op \notin {"assign", "create"}
<1>1. ~dialogs.new /\ dialogs.assign = None
  BY DEF PageClick, Reachable
<1>2. \A c \in calls : c.op = "assign" => c.ticket # None
  BY PageNull DEF PageInvariant, CallsOK, CallOK, Exists, TicketOps
<1> QED
  BY <1>1, <1>2 DEF PageInvariant, DialogsWait, PageClick, Click

(* A step that leaves the list and its requests alone, with what it still  *)
(* has to show.                                                            *)
LEMMA ListAside ==
    ASSUME PageInvariant, ServerGrows, ListKept, TypeOK', DialogsWait', MutationsGuarded',
           chat'.ticket # None => Exists(chat'.ticket),
           \A c \in calls' \ calls : c.op \notin ListOps /\ CallOK(c)' /\ AcceptanceOK(c)'
    PROVE  PageInvariant'
<1>1. CallsOK' /\ ListCallsOK' /\ ShownExists'
  BY CallsStay, ListCallsStay, ShownStays DEF PageInvariant
<1> QED
  BY <1>1 DEF PageInvariant

LEMMA ClosedChat ==
    ASSUME TypeOK
    PROVE  Closed \in Chat /\ Closed.status = "closed" /\ Closed.ticket = None
           /\ Closed.shown = None
<1>1. chat \in Chat /\ chat.seq + 1 \in Nat
  BY DEF TypeOK, ChatTyped, Chat
<1>2. \A n \in Nat :
         LET c == [chat EXCEPT !.status = "closed", !.ticket = None, !.shown = None, !.seq = n]
         IN  c \in Chat /\ c.status = "closed" /\ c.ticket = None /\ c.shown = None
  BY <1>1 DEF Chat
<1> QED
  BY <1>1, <1>2 DEF Closed

LEMMA ClosedAssign ==
    ASSUME TypeOK
    PROVE  /\ WithoutAssign \in [new : BOOLEAN, assign : Tickets \cup {None}, origin : Origins]
           /\ WithoutAssign.new = dialogs.new /\ WithoutAssign.assign = None
BY DEF TypeOK, DialogsTyped, WithoutAssign, Origins

LEMMA CloseChatKeeps ==
    ASSUME PageInvariant, CloseChat
    PROVE  PageInvariant'
<1> USE DEF PageInvariant
<1>1. /\ UNCHANGED <<server, view, list, accepting, assigning, calls, onPage, staff>>
      /\ gen' = gen + 1 /\ chat' = Closed /\ dialogs' = WithoutAssign /\ clicks' = clicks + 1
  BY DEF CloseChat, CloseTicketChat, PageClick, Click
<1>2. TypeOK'
  BY <1>1, ClosedChat, ClosedAssign DEF TypeOK, ListTyped, ChatTyped, DialogsTyped
<1>3. MutationsGuarded'
  BY <1>1, GuardsStay
<1>4. DialogsWait'
  BY <1>1, ClosedAssign, ReachableIsFree DEF CloseChat, DialogsWait
<1> QED
  BY <1>1, <1>2, <1>3, <1>4, ListAside, UnchangedGrows, UnchangedIsKept, ClosedChat

LEMMA OpenNewRequestKeeps ==
    ASSUME PageInvariant, OpenNewRequest
    PROVE  PageInvariant'
<1> USE DEF PageInvariant
<1>1. /\ UNCHANGED <<server, view, list, accepting, assigning, calls, onPage, staff>>
      /\ gen' = gen + 1 /\ chat' = Closed /\ clicks' = clicks + 1
      /\ dialogs' = [WithoutAssign EXCEPT !.new = TRUE]
  BY DEF OpenNewRequest, PageClick, Click
<1>2. DialogsTyped' /\ dialogs'.new /\ dialogs'.assign = None
  BY <1>1, ClosedAssign DEF DialogsTyped
<1>3. TypeOK'
  BY <1>1, <1>2, ClosedChat DEF TypeOK, ListTyped, ChatTyped
<1>4. MutationsGuarded'
  BY <1>1, GuardsStay
<1>5. DialogsWait'
  BY <1>1, <1>2, ReachableIsFree DEF OpenNewRequest, DialogsWait
<1> QED
  BY <1>1, <1>3, <1>4, <1>5, ListAside, UnchangedGrows, UnchangedIsKept, ClosedChat

(* The dialogs open and close, and nothing else changes.                   *)
LEMMA DialogClickKeeps ==
    ASSUME PageInvariant,
           \/ \E t \in Tickets, origin \in Origins : OpenAssignDialog(t, origin)
           \/ CancelAssign \/ CancelNewRequest
    PROVE  PageInvariant'
<1> USE DEF PageInvariant
<1>1. /\ UNCHANGED <<server, view, list, chat, gen, accepting, assigning, calls, onPage, staff>>
      /\ clicks' = clicks + 1
  BY DEF OpenAssignDialog, CancelAssign, CancelNewRequest, PageClick, Click
<1>2. DialogsTyped' /\ DialogsWait'
  <2>1. CASE \E t \in Tickets, origin \in Origins : OpenAssignDialog(t, origin)
    BY <1>1, <2>1, ReachableIsFree
    DEF OpenAssignDialog, TypeOK, DialogsTyped, DialogsWait
  <2>2. CASE CancelAssign
    BY <1>1, <2>2, ClosedAssign DEF CancelAssign, InFlight, DialogsTyped, DialogsWait
  <2>3. CASE CancelNewRequest
    BY <1>1, <2>3 DEF CancelNewRequest, InFlight, TypeOK, DialogsTyped, DialogsWait
  <2> QED
    BY <2>1, <2>2, <2>3
<1>3. TypeOK'
  BY <1>1, <1>2 DEF TypeOK, ListTyped, ChatTyped
<1>4. MutationsGuarded'
  BY <1>1, GuardsStay
<1>5. chat'.ticket # None => Exists(chat'.ticket)
  BY <1>1 DEF ShownExists
<1> QED
  BY <1>1, <1>2, <1>3, <1>4, <1>5, ListAside, UnchangedGrows, UnchangedIsKept

(* begin and loadTicketChat.                                               *)
LEMMA LoadTicketChatKeeps ==
    ASSUME PageInvariant, NEW t \in Tickets, Exists(t), LoadTicketChat(t), Click,
           UNCHANGED <<view, list, accepting, assigning>>, DialogsTyped', DialogsWait'
    PROVE  PageInvariant'
<1> USE DEF PageInvariant
<1> DEFINE at == [Here EXCEPT !.gen = @ + 1, !.chat = @ + 1]
           c == Call("detail", t, at)
<1>1. /\ UNCHANGED <<server, onPage, staff>> /\ clicks' = clicks + 1 /\ gen' = gen + 1
      /\ chat' = [status |-> "loading", ticket |-> t, shown |-> None, seq |-> chat.seq + 1]
      /\ calls' = calls \cup {c}
  BY DEF LoadTicketChat, Click
<1>2. TypeOK'
  BY <1>1 DEF TypeOK, ListTyped, ChatTyped, Chat
<1>3. at \in Moment
  BY HereIsMoment, MomentsAfter
<1> HIDE DEF at
<1>4. CallOK(c) /\ AcceptanceOK(c) /\ c.op = "detail"
  BY <1>3, NewCallOK
<1> HIDE DEF c
<1>5. ServerGrows
  BY <1>1, UnchangedGrows
<1>6. MutationsGuarded'
  BY <1>1, <1>4, GuardsStay DEF MutationOps, AcceptOps
<1>7. \A d \in calls' \ calls : d.op \notin ListOps /\ CallOK(d)' /\ AcceptanceOK(d)'
  BY <1>1, <1>4, <1>5, CallStays DEF ListOps
<1> QED
  BY <1>1, <1>2, <1>5, <1>6, <1>7, ListAside, UnchangedIsKept

LEMMA OpenTicketChatKeeps ==
    ASSUME PageInvariant, NEW t \in Tickets, OpenTicketChat(t)
    PROVE  PageInvariant'
<1>1. Exists(t)
  BY DEF OpenTicketChat, RowsShown, PageInvariant, ShownExists
<1>2. DialogsTyped' /\ dialogs'.assign = None /\ dialogs'.new = dialogs.new
  BY ClosedAssign DEF OpenTicketChat, DialogsTyped, PageInvariant
<1>3. DialogsWait'
  <2>1. \A c \in calls' \ calls : c.op = "detail"
    BY DEF OpenTicketChat, LoadTicketChat, Call
  <2>2. UNCHANGED <<list, onPage>> /\ PageClick
    BY DEF OpenTicketChat, PageClick, Click
  <2> QED
    BY <1>2, <2>1, <2>2, ReachableIsFree DEF DialogsWait, PageInvariant
<1> QED
  BY <1>1, <1>2, <1>3, LoadTicketChatKeeps DEF OpenTicketChat, PageClick

LEMMA RetryTicketChatKeeps ==
    ASSUME PageInvariant, RetryTicketChat
    PROVE  PageInvariant'
<1> DEFINE t == chat.ticket
<1>1. t \in Tickets /\ Exists(t)
  BY PageNull DEF RetryTicketChat, PageInvariant, TypeOK, ChatTyped, ShownExists
<1>2. UNCHANGED <<dialogs, list, onPage>>
  BY DEF RetryTicketChat, PageClick, Click
<1>3. DialogsTyped'
  BY <1>2 DEF PageInvariant, TypeOK, DialogsTyped
<1>4. DialogsWait'
  <2>1. \A c \in calls' \ calls : c.op = "detail"
    BY DEF RetryTicketChat, LoadTicketChat, Call
  <2> QED
    BY <1>2, <2>1, DialogsStay DEF PageInvariant
<1> QED
  BY <1>1, <1>3, <1>4, LoadTicketChatKeeps DEF RetryTicketChat, PageClick

(* A mutation is sent: its ticket, or its dialog, is taken.                *)
LEMMA AcceptTicketKeeps ==
    ASSUME PageInvariant, NEW t \in Tickets, NEW origin \in Origins, AcceptTicket(t, origin)
    PROVE  PageInvariant'
<1> USE DEF PageInvariant
<1> DEFINE c == Call("accept", t, Here)
<1>1. /\ UNCHANGED <<server, view, list, chat, gen, dialogs, assigning, onPage, staff>>
      /\ clicks' = clicks + 1
      /\ t \notin accepting /\ accepting' = accepting \cup {t}
      /\ calls' = calls \cup {c}
      /\ \E ticket \in CurrentTicket(t, origin) : ticket.status = "pending"
  BY DEF AcceptTicket, PageClick, Click
<1>2. Exists(t)
  BY <1>1, PageNull DEF CurrentTicket, RowsShown, ShownExists
<1>3. CallOK(c) /\ AcceptanceOK(c) /\ c.op = "accept" /\ c.ticket = t
  BY <1>2, HereIsMoment, NewCallOK
<1> HIDE DEF c
<1>4. TypeOK'
  BY <1>1 DEF TypeOK, ListTyped, ChatTyped, DialogsTyped
<1>5. ServerGrows
  BY <1>1, UnchangedGrows
<1>6. MutationsGuarded'
  BY <1>1, <1>3 DEF MutationsGuarded, AcceptOps
<1>7. \A d \in calls' \ calls : d.op = "accept" /\ CallOK(d)' /\ AcceptanceOK(d)'
  BY <1>1, <1>3, <1>5, CallStays
<1>8. DialogsWait'
  BY <1>1, <1>7, DialogsStay
<1>9. chat'.ticket # None => Exists(chat'.ticket)
  BY <1>1 DEF ShownExists
<1> QED
  BY <1>1, <1>4, <1>5, <1>6, <1>7, <1>8, <1>9, ListAside, UnchangedIsKept DEF ListOps

LEMMA SubmitAssignKeeps ==
    ASSUME PageInvariant, NEW t \in Tickets, SubmitAssign(t)
    PROVE  PageInvariant'
<1> USE DEF PageInvariant
<1> DEFINE c == Call("assign", t, Here)
<1>1. /\ UNCHANGED <<server, view, list, chat, gen, dialogs, accepting, onPage, staff>>
      /\ clicks' = clicks + 1
      /\ assigning' = assigning \cup {t}
      /\ calls' = calls \cup {c}
      /\ t = dialogs.assign /\ \A d \in calls : d.op # "assign"
      /\ CurrentTicket(t, dialogs.origin) # {}
  BY DEF SubmitAssign, InFlight, Click
<1>2. Exists(t)
  BY <1>1, PageNull DEF CurrentTicket, RowsShown, ShownExists
<1>3. CallOK(c) /\ AcceptanceOK(c) /\ c.op = "assign" /\ c.ticket = t
  BY <1>2, HereIsMoment, NewCallOK
<1> HIDE DEF c
<1>4. TypeOK'
  BY <1>1 DEF TypeOK, ListTyped, ChatTyped, DialogsTyped
<1>5. ServerGrows
  BY <1>1, UnchangedGrows
<1>6. MutationsGuarded'
  BY <1>1, <1>3 DEF MutationsGuarded, AcceptOps
<1>7. \A d \in calls' \ calls : d.op = "assign" /\ CallOK(d)' /\ AcceptanceOK(d)'
  BY <1>1, <1>3, <1>5, CallStays
<1>8. DialogsWait'
  BY <1>1, <1>3 DEF DialogsWait
<1>9. chat'.ticket # None => Exists(chat'.ticket)
  BY <1>1 DEF ShownExists
<1> QED
  BY <1>1, <1>4, <1>5, <1>6, <1>7, <1>8, <1>9, ListAside, UnchangedIsKept DEF ListOps

LEMMA SubmitNewRequestKeeps ==
    ASSUME PageInvariant, SubmitNewRequest
    PROVE  PageInvariant'
<1> USE DEF PageInvariant
<1> DEFINE c == Call("create", None, Here)
<1>1. /\ UNCHANGED <<server, view, list, chat, gen, dialogs, accepting, assigning, onPage, staff>>
      /\ clicks' = clicks + 1
      /\ calls' = calls \cup {c}
      /\ dialogs.new /\ \A d \in calls : d.op # "create"
  BY DEF SubmitNewRequest, InFlight, Click
<1>2. CallOK(c) /\ AcceptanceOK(c) /\ c.op = "create"
  BY HereIsMoment, NewCallOK DEF TicketOps
<1> HIDE DEF c
<1>3. TypeOK'
  BY <1>1 DEF TypeOK, ListTyped, ChatTyped, DialogsTyped
<1>4. ServerGrows
  BY <1>1, UnchangedGrows
<1>5. \A d \in calls' \ calls : d.op = "create" /\ CallOK(d)' /\ AcceptanceOK(d)'
  BY <1>1, <1>2, <1>4, CallStays
<1>6. MutationsGuarded'
  BY <1>1, <1>5, GuardsStay DEF MutationOps, AcceptOps
<1>7. DialogsWait'
  BY <1>1, <1>2 DEF DialogsWait
<1>8. chat'.ticket # None => Exists(chat'.ticket)
  BY <1>1 DEF ShownExists
<1> QED
  BY <1>1, <1>3, <1>4, <1>5, <1>6, <1>7, <1>8, ListAside, UnchangedIsKept DEF ListOps

-----------------------------------------------------------------------------
(* Loading the list.                                                       *)

(* A list request in flight with the next number is the one that counts.   *)
LEMMA NextListCall ==
    ASSUME TypeOK, ListCallsOK, CallsOK, NEW c,
           list'.seq = list.seq + 1, c.at.list = list'.seq, ListCallOK(c)',
           calls' \subseteq calls \cup {c}
    PROVE  ListCallsOK'
<1>1. list.seq \in Nat /\ \A d \in calls : d.at.list \in Nat
  BY DEF TypeOK, ListTyped, CallsOK, CallOK, Calls, Moment
<1>2. \A d \in calls : d.op \in ListOps => d.at.list < list'.seq /\ d.at.list # c.at.list
  BY <1>1 DEF ListCallsOK, ListCallOK
<1>3. \A d \in calls : d.op \in ListOps => ListCallOK(d)'
  BY <1>1, <1>2 DEF ListCallOK
<1> QED
  BY <1>2, <1>3 DEF ListCallsOK

(* loadFirstPage when no list request is in flight.                        *)
LEMMA FirstPageLoads ==
    ASSUME PageInvariant, NEW v \in Views, NEW left \in SUBSET calls,
           ~list.busy, LoadFirstPage(v, left), view' = v
    PROVE  /\ ListTyped' /\ list'.rows = <<>> /\ ~list'.more /\ list'.busy
           /\ ListCallsOK'
           /\ \E c : calls' = left \cup {c} /\ c.op = "first" /\ CallOK(c) /\ AcceptanceOK(c)
<1> USE DEF PageInvariant
<1> DEFINE at == [Here EXCEPT !.list = @ + 1, !.view = v]
<1> PICK c : c = Call("first", None, at)
  OBVIOUS
<1>1. /\ list' = [rows |-> <<>>, more |-> FALSE, state |-> "loading",
                  seq |-> list.seq + 1, busy |-> TRUE]
      /\ calls' = left \cup {c}
  BY DEF LoadFirstPage
<1>2. at \in Moment /\ at.list = list.seq + 1 /\ at.view = v
  BY HereIsMoment, MomentsAfter
<1> HIDE DEF at
<1>3. CallOK(c) /\ AcceptanceOK(c) /\ c.op = "first" /\ c.at = at
  BY <1>2, NewCallOK DEF TicketOps
<1>4. ListTyped' /\ list'.rows = <<>> /\ ~list'.more /\ list'.busy /\ list'.seq = list.seq + 1
  BY <1>1 DEF TypeOK, ListTyped
<1>5. ListCallOK(c)'
  BY <1>2, <1>3, <1>4 DEF ListCallOK, ListTyped
<1>6. ListCallsOK'
  BY <1>1, <1>2, <1>3, <1>4, <1>5, NextListCall
<1> QED
  BY <1>1, <1>3, <1>4, <1>6

LEMMA FirstPageKeeps ==
    ASSUME PageInvariant, NEW v \in Views, NEW left \in SUBSET calls,
           ~list.busy, LoadFirstPage(v, left), view' = v, UNCHANGED server,
           ChatTyped', DialogsTyped', DialogsWait',
           UNCHANGED <<accepting, assigning>>, onPage' \in BOOLEAN,
           gen' \in Nat, clicks' \in Nat, staff' \in Nat,
           chat'.ticket # None => Exists(chat'.ticket)
    PROVE  PageInvariant'
<1> USE DEF PageInvariant
<1>1. /\ ListTyped' /\ list'.rows = <<>> /\ ~list'.more /\ list'.busy
      /\ ListCallsOK'
  BY FirstPageLoads
<1>2. PICK c : calls' = left \cup {c} /\ c.op = "first" /\ CallOK(c) /\ AcceptanceOK(c)
  BY FirstPageLoads
<1>3. ServerGrows
  BY UnchangedGrows
<1>4. CallsOK'
  BY <1>2, <1>3, CallsStay, CallStays
<1>5. TypeOK'
  BY <1>1 DEF TypeOK
<1>6. ShownExists'
  BY <1>1 DEF ShownExists, Descending, Exists
<1>7. MutationsGuarded'
  BY <1>2, GuardsStay DEF MutationOps, AcceptOps
<1> QED
  BY <1>1, <1>4, <1>5, <1>6, <1>7

LEMMA SwitchViewKeeps ==
    ASSUME PageInvariant, NEW v \in Views, SwitchView(v)
    PROVE  PageInvariant'
<1> USE DEF PageInvariant
<1>1. /\ UNCHANGED <<server, accepting, assigning, onPage, staff>> /\ view' = v
      /\ gen' = gen + 1 /\ chat' = Closed /\ dialogs' = WithoutAssign /\ clicks' = clicks + 1
      /\ ~list.busy /\ LoadFirstPage(v, calls) /\ PageClick
  BY DEF SwitchView, CloseTicketChat, PageClick, Click
<1>2. PICK c : calls' = calls \cup {c} /\ c.op = "first"
  BY <1>1, FirstPageLoads
<1>3. ChatTyped' /\ DialogsTyped'
  BY <1>1, ClosedChat, ClosedAssign DEF ChatTyped, DialogsTyped
<1>4. DialogsWait'
  BY <1>1, <1>2, ClosedAssign, ReachableIsFree DEF DialogsWait
<1>5. chat'.ticket = None
  BY <1>1, ClosedChat
<1>6. gen' \in Nat /\ clicks' \in Nat /\ staff' \in Nat /\ onPage' \in BOOLEAN
  BY <1>1 DEF TypeOK
<1> QED
  BY <1>1, <1>3, <1>4, <1>5, <1>6, FirstPageKeeps

LEMMA RetryTicketLoadKeeps ==
    ASSUME PageInvariant, RetryTicketLoad
    PROVE  PageInvariant'
<1> USE DEF PageInvariant
<1>1. /\ UNCHANGED <<server, view, chat, gen, dialogs, accepting, assigning, onPage, staff>>
      /\ clicks' = clicks + 1 /\ LoadFirstPage(view, calls) /\ PageClick
  BY DEF RetryTicketLoad, PageClick, Click
<1>2. ChatTyped' /\ DialogsTyped'
  BY <1>1 DEF TypeOK, ChatTyped, DialogsTyped
<1>3. gen' \in Nat /\ clicks' \in Nat /\ staff' \in Nat /\ onPage' \in BOOLEAN /\ view \in Views
  BY <1>1 DEF TypeOK
<1>4. chat'.ticket # None => Exists(chat'.ticket)
  BY <1>1 DEF ShownExists
<1>5. CASE list.busy
  <2>1. UNCHANGED <<list, calls>>
    BY <1>1, <1>5 DEF LoadFirstPage
  <2>2. TypeOK'
    BY <1>1, <1>2, <1>3, <2>1 DEF TypeOK, ListTyped
  <2>3. MutationsGuarded' /\ DialogsWait'
    BY <1>1, <2>1, GuardsStay, DialogsStay
  <2> QED
    BY <1>1, <1>4, <2>1, <2>2, <2>3, ListAside, UnchangedGrows, UnchangedIsKept
<1>6. CASE ~list.busy
  <2>1. PICK c : calls' = calls \cup {c} /\ c.op = "first"
    BY <1>1, <1>3, <1>6, FirstPageLoads
  <2>2. DialogsWait'
    BY <1>1, <2>1, ReachableIsFree DEF DialogsWait
  <2> QED
    BY <1>1, <1>2, <1>3, <1>4, <1>6, <2>2, FirstPageKeeps
<1> QED
  BY <1>5, <1>6

LEMMA LoadMoreKeeps ==
    ASSUME PageInvariant, LoadMore
    PROVE  PageInvariant'
<1> USE DEF PageInvariant
<1> DEFINE at == [Here EXCEPT !.list = @ + 1]
           last == list.rows[Len(list.rows)].id
<1> PICK c : c = [Call("more", None, at) EXCEPT !.before = last]
  OBVIOUS
<1>1. /\ UNCHANGED <<server, view, chat, gen, dialogs, accepting, assigning, onPage, staff>>
      /\ clicks' = clicks + 1 /\ ~list.busy /\ list.more
      /\ list' = [list EXCEPT !.seq = @ + 1, !.busy = TRUE]
      /\ calls' = calls \cup {c} /\ PageClick
  BY DEF LoadMore, PageClick, Click
<1>2. at \in Moment /\ at.list = list.seq + 1 /\ at.view = view
  BY HereIsMoment, MomentsAfter
<1> HIDE DEF at
<1>3. list.rows # <<>> /\ Exists(last) /\ last # None
  <2>1. list.rows \in Seq(Row) /\ list.rows # <<>>
    BY <1>1 DEF TypeOK, ListTyped, ShownExists
  <2>2. Len(list.rows) \in DOMAIN list.rows
    BY <2>1
  <2> QED
    BY <2>1, <2>2, PageNull DEF ShownExists, Exists
<1> HIDE DEF last
<1>4. c = [op |-> "more", ticket |-> None, before |-> last, at |-> at, reply |-> Unanswered]
  BY DEF Call
<1>5. CallOK(c) /\ AcceptanceOK(c) /\ c.op = "more" /\ c.at = at /\ c.before = last
  <2>1. Unanswered \in Reply /\ Unanswered.kind = "none"
    BY DEF Unanswered, Reply, Kinds
  <2>2. c \in Calls
    BY <1>2, <1>3, <1>4, <2>1 DEF Calls, ListOps, Exists
  <2> QED
    BY <1>3, <1>4, <2>1, <2>2 DEF CallOK, AcceptanceOK, TicketOps
<1>6. /\ ListTyped' /\ list'.rows = list.rows /\ list'.more = list.more /\ list'.busy
      /\ list'.seq = list.seq + 1 /\ list.seq \in Nat
  <2>1. list.seq \in Nat /\ list.seq + 1 \in Nat
    BY DEF TypeOK, ListTyped
  <2>2. \A n \in Nat :
           LET l == [list EXCEPT !.seq = n, !.busy = TRUE]
           IN  /\ l \in [rows : Seq(Row), more : BOOLEAN,
                         state : {"loading", "ready", "error"}, seq : Nat, busy : BOOLEAN]
               /\ l.rows = list.rows /\ l.more = list.more /\ l.busy /\ l.seq = n
    BY DEF TypeOK, ListTyped
  <2>3. list' = [list EXCEPT !.seq = list.seq + 1, !.busy = TRUE]
    BY <1>1
  <2> QED
    BY <2>1, <2>2, <2>3 DEF ListTyped
<1>7. ListCallOK(c)'
  BY <1>1, <1>2, <1>3, <1>5, <1>6 DEF ListCallOK, last
<1>8. ListCallsOK'
  BY <1>1, <1>2, <1>5, <1>6, <1>7, NextListCall
<1>9. ServerGrows
  BY <1>1, UnchangedGrows
<1>10. CallsOK'
  BY <1>1, <1>5, <1>9, CallsStay, CallStays
<1>11. TypeOK'
  BY <1>1, <1>6 DEF TypeOK, ChatTyped, DialogsTyped
<1>12. ShownExists'
  BY <1>1, <1>6 DEF ShownExists, Exists
<1>13. MutationsGuarded'
  BY <1>1, <1>5, GuardsStay DEF MutationOps, AcceptOps
<1>14. DialogsWait'
  <2>1. \A e \in calls' : e.op \in {"create", "assign"} => e \in calls
    BY <1>1, <1>5
  <2>2. ~BehindDialog => ~dialogs.new /\ dialogs.assign = None
    BY <1>1, ReachableIsFree
  <2> QED
    BY <1>1, <2>1, <2>2 DEF DialogsWait
<1> QED
  BY <1>8, <1>10, <1>11, <1>12, <1>13, <1>14

LEMMA UserKeeps ==
    ASSUME PageInvariant, UserActs
    PROVE  PageInvariant'
BY SwitchViewKeeps, RetryTicketLoadKeeps, LoadMoreKeeps, CloseChatKeeps, RetryTicketChatKeeps,
   OpenTicketChatKeeps, AcceptTicketKeeps, DialogClickKeeps, SubmitAssignKeeps,
   OpenNewRequestKeeps, SubmitNewRequestKeeps DEF UserActs

-----------------------------------------------------------------------------
(* What the server and other staff do.                                     *)

(* A step that the page does not notice.                                   *)
LEMMA PageStands ==
    ASSUME PageInvariant, UNCHANGED page, ServerGrows, clicks' \in Nat, staff' \in Nat
    PROVE  /\ TypeOK' /\ ShownExists' /\ ListKept
           /\ UNCHANGED <<view, list, chat, gen, dialogs, accepting, assigning, onPage>>
<1> USE DEF PageInvariant
<1>1. UNCHANGED <<view, list, chat, gen, dialogs, accepting, assigning, onPage>>
  BY DEF page
<1>2. TypeOK'
  BY <1>1 DEF TypeOK, ListTyped, ChatTyped, DialogsTyped, ServerGrows
<1>3. chat'.ticket # None => Exists(chat'.ticket)
  BY <1>1 DEF ShownExists
<1> QED
  BY <1>1, <1>2, <1>3, UnchangedIsKept, ShownStays

LEMMA StaffKeeps ==
    ASSUME PageInvariant, NEW t \in Tickets, Staff(t)
    PROVE  PageInvariant'
<1> USE DEF PageInvariant
<1>1. ServerGrows
  BY DEF Staff, TypeOK, ServerGrows, Statuses, Taken
<1>2. UNCHANGED <<page, calls, clicks>> /\ staff' = staff + 1
  BY DEF Staff
<1>3. /\ TypeOK' /\ ShownExists' /\ ListKept
      /\ UNCHANGED <<view, list, chat, gen, dialogs, accepting, assigning, onPage>>
  BY <1>1, <1>2, PageStands DEF TypeOK
<1>4. CallsOK' /\ ListCallsOK'
  BY <1>1, <1>2, <1>3, CallsStay, ListCallsStay
<1>5. MutationsGuarded' /\ DialogsWait'
  BY <1>2, <1>3, GuardsStay, DialogsStay
<1> QED
  BY <1>3, <1>4, <1>5

LEMMA ToldIs ==
    ASSUME NEW kind \in Kinds
    PROVE  Told(kind) \in Reply /\ Told(kind).kind = kind
<1>1. Unanswered \in Reply
  BY DEF Unanswered, Reply, Kinds
<1>2. \A r \in Reply : [r EXCEPT !.kind = kind] \in Reply /\ [r EXCEPT !.kind = kind].kind = kind
  BY DEF Reply
<1> QED
  BY <1>1, <1>2 DEF Told

(* A call that is d once it is answered was c before.                      *)
LEMMA AnsweredStays ==
    ASSUME ListCallsOK, MutationsGuarded, DialogsWait, NEW c \in calls, NEW d,
           calls' = (calls \ {c}) \cup {d},
           d.op = c.op, d.ticket = c.ticket, d.at = c.at, d.before = c.before,
           UNCHANGED <<view, list, dialogs, accepting, assigning, onPage>>
    PROVE  ListCallsOK' /\ MutationsGuarded' /\ DialogsWait'
<1>1. \A e \in calls' : e \in calls \ {c} \/ e = d
  OBVIOUS
<1>2. ListCallsOK'
  <2>1. \A e \in calls : e.op \in ListOps => ListCallOK(e)'
    BY DEF ListCallsOK, ListCallOK
  <2>2. c.op \in ListOps => ListCallOK(d)'
    BY <2>1 DEF ListCallOK
  <2>3. ASSUME NEW e \in calls', NEW f \in calls', e.op \in ListOps, f.op \in ListOps,
               e.at.list = f.at.list
        PROVE  e = f
    BY <1>1, <2>3 DEF ListCallsOK
  <2> QED
    BY <1>1, <2>1, <2>2, <2>3 DEF ListCallsOK
<1>3. MutationsGuarded'
  <2>1. \A e \in calls' : /\ e.op \in AcceptOps => e.ticket \in accepting'
                         /\ e.op = "assign" => e.ticket \in assigning'
    BY <1>1 DEF MutationsGuarded
  <2>2. ASSUME NEW e \in calls', NEW f \in calls', e.op \in AcceptOps, f.op \in AcceptOps,
               e.ticket = f.ticket
        PROVE  e = f
    BY <1>1, <2>2 DEF MutationsGuarded
  <2>3. ASSUME NEW e \in calls', NEW f \in calls', e.op = "assign", f.op = "assign"
        PROVE  e = f
    BY <1>1, <2>3 DEF MutationsGuarded
  <2> QED
    BY <2>1, <2>2, <2>3 DEF MutationsGuarded
<1>4. DialogsWait'
  <2>1. ASSUME NEW e \in calls', NEW f \in calls', e.op = "create", f.op = "create"
        PROVE  e = f
    BY <1>1, <2>1 DEF DialogsWait
  <2>2. \A e \in calls' : /\ e.op = "create" => dialogs'.new
                         /\ ~BehindDialog /\ onPage' /\ e.op = "assign" =>
                               dialogs'.assign = e.ticket
    BY <1>1 DEF DialogsWait
  <2>3. ~BehindDialog /\ dialogs'.new => ~list'.busy /\ dialogs'.assign = None
    BY DEF DialogsWait
  <2> QED
    BY <2>1, <2>2, <2>3 DEF DialogsWait
<1> QED
  BY <1>2, <1>3, <1>4

(* The server answers c with r, which is what c can be told.               *)
LEMMA AnswerKeeps ==
    ASSUME PageInvariant, NEW c \in calls, NEW r \in Reply, Answered(c, r),
           ServerGrows, UNCHANGED <<page, clicks, staff>>,
           NEW d, d = [c EXCEPT !.reply = r],
           d \in Calls /\ d.op = c.op /\ d.ticket = c.ticket /\ d.at = c.at
             /\ d.before = c.before /\ d.reply = r
             => CallOK(d)' /\ AcceptanceOK(d)'
    PROVE  PageInvariant'
<1> USE DEF PageInvariant
<1>1. c \in Calls
  BY DEF CallsOK, CallOK
<1>2. d \in Calls /\ d.op = c.op /\ d.ticket = c.ticket /\ d.at = c.at
        /\ d.before = c.before /\ d.reply = r
  BY <1>1 DEF Calls
<1>3. calls' = (calls \ {c}) \cup {d}
  BY DEF Answered
<1>4. /\ TypeOK' /\ ShownExists' /\ ListKept
      /\ UNCHANGED <<view, list, chat, gen, dialogs, accepting, assigning, onPage>>
  BY PageStands DEF TypeOK
<1>5. CallsOK'
  BY <1>2, <1>3, CallsStay
<1>6. ListCallsOK' /\ MutationsGuarded' /\ DialogsWait'
  BY <1>2, <1>3, <1>4, AnsweredStays
<1> QED
  BY <1>4, <1>5, <1>6

LEMMA FailureKeeps ==
    ASSUME PageInvariant, NEW c \in calls, NEW kind \in {"error", "signed_out"},
           Answered(c, Told(kind)), ServerGrows, UNCHANGED <<page, clicks, staff>>
    PROVE  PageInvariant'
<1> DEFINE r == Told(kind)
<1>1. r \in Reply /\ r.kind = kind
  BY ToldIs DEF Kinds
<1>2. CallOK(c)' /\ AcceptanceOK(c)'
  BY CallStays DEF PageInvariant, CallsOK
<1> PICK d : d = [c EXCEPT !.reply = r]
  OBVIOUS
<1>3. ASSUME d \in Calls, d.op = c.op, d.ticket = c.ticket, d.at = c.at,
             d.before = c.before, d.reply = r
      PROVE  CallOK(d)' /\ AcceptanceOK(d)'
  BY <1>1, <1>2, <1>3 DEF CallOK, AcceptanceOK
<1> HIDE DEF r
<1> QED
  BY <1>1, <1>3, AnswerKeeps DEF r

(* A ticket comes back: the row of c's ticket, and for an acceptance or    *)
(* its refresh not a pending one.                                          *)
LEMMA TicketAnswerKeeps ==
    ASSUME PageInvariant, NEW c \in calls, c.op \in TicketOps,
           NEW row \in Row, row.id = c.ticket,
           c.op \in AcceptOps => row.status # "pending",
           Answered(c, Shows(<<row>>, FALSE)), ServerGrows, UNCHANGED <<page, clicks, staff>>
    PROVE  PageInvariant'
<1> DEFINE r == Shows(<<row>>, FALSE)
<1>1. r \in Reply /\ r.kind = "ok" /\ r.rows # <<>> /\ r.rows[1] = row
  BY DEF Shows, Reply, Kinds
<1>4. Answered(c, r)
  OBVIOUS
<1> HIDE DEF r
<1>2. CallOK(c)' /\ AcceptanceOK(c)'
  BY CallStays DEF PageInvariant, CallsOK
<1> PICK d : d = [c EXCEPT !.reply = r]
  OBVIOUS
<1>3. ASSUME d \in Calls, d.op = c.op, d.ticket = c.ticket, d.at = c.at,
             d.before = c.before, d.reply = r
      PROVE  CallOK(d)' /\ AcceptanceOK(d)'
  <2>1. /\ d.reply.rows # <<>> /\ d.reply.rows[1] = row /\ d.reply.kind = "ok"
        /\ d.reply # Unanswered
    BY <1>1, <1>3 DEF Unanswered
  <2>2. CallOK(d)'
    BY <1>2, <1>3, <2>1 DEF CallOK, TicketReply, TicketOps, ListOps
  <2>3. AcceptanceOK(d)'
    BY <1>2, <1>3, <2>1 DEF AcceptanceOK, AcceptOps
  <2> QED
    BY <2>2, <2>3
<1> QED
  BY <1>1, <1>3, <1>4, AnswerKeeps

LEMMA ServeReadKeeps ==
    ASSUME PageInvariant, NEW c \in calls, ServeRead(c), UNCHANGED <<page, clicks, staff>>
    PROVE  PageInvariant'
<1> USE DEF PageInvariant
<1>1. UNCHANGED server /\ ServerGrows /\ CallOK(c) /\ AcceptanceOK(c)
  BY UnchangedGrows DEF ServeRead, CallsOK
<1>2. CASE Answered(c, Told("error"))
  BY <1>1, <1>2, FailureKeeps
<1>3. CASE c.op \in ListOps /\ Answered(c, ListPage(c.at.view, c.before))
  <2>1. c.at.view \in Views /\ c.before \in Tickets \cup {None}
    BY <1>1 DEF CallOK, Calls, Moment
  <2> PICK r : r = ListPage(c.at.view, c.before)
    OBVIOUS
  <2>2. /\ r \in Reply /\ r.kind = "ok"
        /\ \A i \in DOMAIN r.rows :
              /\ Exists(r.rows[i].id)
              /\ c.before # None => r.rows[i].id < c.before
        /\ Descending(r.rows)
        /\ r.more => r.rows # <<>>
    BY <2>1, ListPageIs DEF TypeOK
  <2> PICK d : d = [c EXCEPT !.reply = r]
    OBVIOUS
  <2>3. ASSUME d \in Calls, d.op = c.op, d.ticket = c.ticket, d.at = c.at,
               d.before = c.before, d.reply = r
        PROVE  CallOK(d)' /\ AcceptanceOK(d)'
    <3>1. PageReply(d)
      BY <1>1, <2>2, <2>3 DEF PageReply, CallOK
    <3>2. CallOK(d)
      BY <1>1, <1>3, <2>2, <2>3, <3>1 DEF CallOK, TicketOps, ListOps
    <3>3. AcceptanceOK(d)
      BY <1>1, <1>3, <2>2, <2>3 DEF AcceptanceOK, ListOps
    <3> QED
      BY <1>1, <3>2, <3>3, CallStays
  <2> QED
    BY <1>1, <1>3, <2>2, <2>3, AnswerKeeps
<1>4. CASE c.op \in {"detail", "refresh"} /\ Answered(c, Shows(<<RowOf(c.ticket)>>, FALSE))
  <2>1. RowOf(c.ticket) \in Row /\ RowOf(c.ticket).id = c.ticket
        /\ RowOf(c.ticket).status = server[c.ticket]
    BY <1>1, <1>4 DEF CallOK, TicketOps, Exists, RowOf, Row, TypeOK, Statuses
  <2>2. c.op \in AcceptOps => RowOf(c.ticket).status # "pending"
    BY <1>1, <1>4, <2>1 DEF AcceptanceOK, AcceptOps
  <2> QED
    BY <1>1, <1>4, <2>1, <2>2, TicketAnswerKeeps DEF TicketOps
<1> QED
  BY <1>2, <1>3, <1>4 DEF ServeRead, AnsweredOrLost, ListOps

LEMMA ServeAcceptKeeps ==
    ASSUME PageInvariant, NEW c \in calls, ServeAccept(c), UNCHANGED <<page, clicks, staff>>
    PROVE  PageInvariant'
<1> USE DEF PageInvariant
<1>1. c.op = "accept" /\ c.ticket \in Tickets /\ CallOK(c) /\ AcceptanceOK(c)
  BY DEF ServeAccept, CallsOK, CallOK, TicketOps, Exists
<1>2. ServerGrows
  BY <1>1 DEF ServeAccept, TypeOK, ServerGrows, Statuses, Taken
<1>3. CASE Answered(c, Told("error"))
  BY <1>2, <1>3, FailureKeeps
<1>4. CASE Answered(c, Shows(<<[id |-> c.ticket, status |-> "mine"]>>, FALSE))
  <2> DEFINE row == [id |-> c.ticket, status |-> "mine"]
  <2>1. row \in Row /\ row.id = c.ticket /\ row.status # "pending"
    BY <1>1 DEF Row, Statuses
  <2> HIDE DEF row
  <2> QED
    BY <1>1, <1>2, <1>4, <2>1, TicketAnswerKeeps DEF TicketOps, row
<1>5. CASE server[c.ticket] \in Taken /\ UNCHANGED server /\ Answered(c, Told("conflict"))
  <2> PICK r : r = Told("conflict")
    OBVIOUS
  <2>1. r \in Reply /\ r.kind = "conflict"
    BY ToldIs DEF Kinds
  <2> PICK d : d = [c EXCEPT !.reply = r]
    OBVIOUS
  <2>2. ASSUME d \in Calls, d.op = c.op, d.ticket = c.ticket, d.at = c.at,
               d.before = c.before, d.reply = r
        PROVE  CallOK(d)' /\ AcceptanceOK(d)'
    <3>1. CallOK(d)
      BY <1>1, <2>1, <2>2 DEF CallOK, TicketOps
    <3>2. AcceptanceOK(d)
      BY <1>1, <1>5, <2>1, <2>2 DEF AcceptanceOK, Taken
    <3> QED
      BY <1>2, <3>1, <3>2, CallStays
  <2> QED
    BY <1>2, <1>5, <2>1, <2>2, AnswerKeeps
<1> QED
  BY <1>3, <1>4, <1>5 DEF ServeAccept, AnsweredOrLost, Taken

LEMMA ServeAssignKeeps ==
    ASSUME PageInvariant, NEW c \in calls, ServeAssign(c), UNCHANGED <<page, clicks, staff>>
    PROVE  PageInvariant'
<1> USE DEF PageInvariant
<1>1. c.op = "assign" /\ Exists(c.ticket) /\ UNCHANGED server /\ ServerGrows
  BY UnchangedGrows DEF ServeAssign, CallsOK, CallOK, TicketOps
<1>2. CASE Answered(c, Told("error"))
  BY <1>1, <1>2, FailureKeeps
<1>3. CASE Answered(c, Shows(<<RowOf(c.ticket)>>, FALSE))
  <2>1. RowOf(c.ticket) \in Row /\ RowOf(c.ticket).id = c.ticket
    BY <1>1 DEF Exists, RowOf, Row, TypeOK, Statuses
  <2> QED
    BY <1>1, <1>3, <2>1, TicketAnswerKeeps DEF TicketOps, AcceptOps
<1> QED
  BY <1>2, <1>3 DEF ServeAssign, AnsweredOrLost

LEMMA ServeCreateKeeps ==
    ASSUME PageInvariant, NEW c \in calls, ServeCreate(c), UNCHANGED <<page, clicks, staff>>
    PROVE  PageInvariant'
<1> USE DEF PageInvariant
<1>1. PICK t \in Tickets :
          /\ server[t] = "absent" /\ server' = [server EXCEPT ![t] = "pending"]
          /\ AnsweredOrLost(c, Shows(<<[id |-> t, status |-> "pending"]>>, FALSE))
  BY DEF ServeCreate
<1>2. ServerGrows /\ c.op = "create"
  BY <1>1 DEF ServeCreate, TypeOK, ServerGrows, Statuses, Taken
<1>3. CASE Answered(c, Told("error"))
  BY <1>2, <1>3, FailureKeeps
<1>4. CASE Answered(c, Shows(<<[id |-> t, status |-> "pending"]>>, FALSE))
  <2> DEFINE r == Shows(<<[id |-> t, status |-> "pending"]>>, FALSE)
  <2>1. [id |-> t, status |-> "pending"] \in Row
    BY DEF Row, Statuses
  <2>2. r \in Reply /\ r.kind = "ok"
    BY <2>1 DEF Shows, Reply, Kinds
  <2>4. Answered(c, r)
    BY <1>4
  <2> HIDE DEF r
  <2> PICK d : d = [c EXCEPT !.reply = r]
    OBVIOUS
  <2>3. ASSUME d \in Calls, d.op = c.op, d.ticket = c.ticket, d.at = c.at,
               d.before = c.before, d.reply = r
        PROVE  CallOK(d)' /\ AcceptanceOK(d)'
    BY <1>2, <2>2, <2>3 DEF CallOK, AcceptanceOK, TicketOps, ListOps
  <2> QED
    BY <1>2, <2>2, <2>3, <2>4, AnswerKeeps
<1> QED
  BY <1>1, <1>3, <1>4 DEF AnsweredOrLost

LEMMA ServeKeeps ==
    ASSUME PageInvariant, Serve
    PROVE  PageInvariant'
<1>1. PICK c \in calls :
          ServeRead(c) \/ ServeAccept(c) \/ ServeAssign(c) \/ ServeCreate(c) \/ ServeNot(c)
  BY DEF Serve
<1>2. UNCHANGED <<page, clicks, staff>>
  BY DEF Serve
<1>3. CASE ServeNot(c)
  BY <1>2, <1>3, FailureKeeps, UnchangedGrows DEF ServeNot, PageInvariant
<1> QED
  BY <1>1, <1>2, <1>3, ServeReadKeeps, ServeAcceptKeeps, ServeAssignKeeps, ServeCreateKeeps

-----------------------------------------------------------------------------
(* What the page does with an answer.                                      *)

LEMMA LeftOver ==
    ASSUME PageInvariant, UNCHANGED server, calls' \subseteq calls
    PROVE  CallsOK' /\ ServerGrows
BY UnchangedGrows, CallsStay DEF PageInvariant

(* An answer that leaves the list's request alone.                         *)
LEMMA AnswerAside ==
    ASSUME PageInvariant, UNCHANGED <<server, clicks, staff>>, calls' \subseteq calls,
           ListKept, ChatTyped', chat'.ticket \in {chat.ticket, None},
           DialogsTyped', DialogsWait', MutationsGuarded',
           accepting' \subseteq Tickets, assigning' \subseteq Tickets,
           onPage' \in BOOLEAN, gen' \in Nat
    PROVE  PageInvariant'
<1> USE DEF PageInvariant
<1>1. CallsOK' /\ ServerGrows
  BY LeftOver
<1>2. TypeOK'
  BY DEF TypeOK, ListKept
<1>3. chat'.ticket # None => Exists(chat'.ticket)
  BY DEF ShownExists
<1>4. \A d \in calls' \ calls : d.op \notin ListOps /\ CallOK(d)' /\ AcceptanceOK(d)'
  OBVIOUS
<1> QED
  BY <1>1, <1>2, <1>3, <1>4, ListAside

(* No dialog is concerned by the answer.                                   *)
LEMMA DialogsWaitOn ==
    ASSUME DialogsWait, UNCHANGED dialogs, onPage' => onPage, calls' \subseteq calls,
           list'.busy => list.busy
    PROVE  DialogsWait'
BY DEF DialogsWait

(* The page that was read under the last row goes on below it.             *)
LEMMA RowsJoin ==
    ASSUME NEW above \in Seq(Row), NEW below \in Seq(Row), above # <<>>,
           Descending(above), Descending(below),
           \A i \in DOMAIN below : below[i].id < above[Len(above)].id
    PROVE  /\ above \o below \in Seq(Row) /\ above \o below # <<>>
           /\ Descending(above \o below)
           /\ \A k \in DOMAIN (above \o below) :
                 \/ k \in DOMAIN above /\ (above \o below)[k] = above[k]
                 \/ \E i \in DOMAIN below : (above \o below)[k] = below[i]
<1> DEFINE n == Len(above)
           rows == above \o below
<1>1. /\ n \in Nat \ {0} /\ Len(below) \in Nat
      /\ DOMAIN above = 1 .. n /\ DOMAIN below = 1 .. Len(below)
      /\ rows \in Seq(Row) /\ Len(rows) = n + Len(below) /\ DOMAIN rows = 1 .. Len(rows)
  OBVIOUS
<1>2. \A k \in 1 .. n : rows[k] = above[k] /\ above[k] \in Row
  BY <1>1
<1>3. \A k \in DOMAIN rows :
         k > n => k - n \in DOMAIN below /\ rows[k] = below[k - n] /\ below[k - n] \in Row
  BY <1>1
<1>4. /\ \A k \in 1 .. n : above[k].id \in Nat /\ above[k].id >= above[n].id
      /\ \A k \in DOMAIN below : below[k].id \in Nat
  <2>1. \A r \in Row : r.id \in Nat
    BY PageTickets DEF Row
  <2>2. \A k \in 1 .. n : above[k].id \in Nat /\ above[k].id >= above[n].id
    BY <1>1, <1>2, <2>1 DEF Descending
  <2>3. \A k \in DOMAIN below : below[k] \in Row
    OBVIOUS
  <2> QED
    BY <2>1, <2>2, <2>3
<1>6. ASSUME NEW i \in DOMAIN rows, NEW j \in DOMAIN rows, i < j
      PROVE  rows[i].id > rows[j].id
  <2>1. CASE j <= n
    BY <1>1, <1>2, <1>6, <2>1 DEF Descending
  <2>2. CASE i <= n /\ j > n
    <3>1. i \in 1 .. n /\ j - n \in DOMAIN below
      BY <1>1, <1>3, <2>2
    <3>2. below[j - n].id < above[n].id
      BY <3>1
    <3> QED
      BY <1>1, <1>2, <1>3, <1>4, <2>2, <3>1, <3>2
  <2>3. CASE i > n
    <3>1. i - n \in DOMAIN below /\ j - n \in DOMAIN below /\ i - n < j - n
      BY <1>1, <1>3, <1>6, <2>3
    <3> QED
      BY <1>1, <1>3, <1>6, <2>3, <3>1 DEF Descending
  <2> QED
    BY <1>1, <1>6, <2>1, <2>2, <2>3
<1>7. \A k \in DOMAIN rows : k <= n \/ k > n
  BY <1>1
<1> HIDE DEF rows, n
<1>8. Descending(rows) /\ rows # <<>>
  BY <1>1, <1>6 DEF Descending
<1> QED
  BY <1>1, <1>2, <1>3, <1>7, <1>8 DEF rows

(* The answer that the list waits for fills it.                            *)
LEMMA PageArrives ==
    ASSUME PageInvariant, NEW c \in calls, c.op \in ListOps, c.at.list = list.seq,
           c.reply.kind = "ok",
           list' = [list EXCEPT
               !.rows  = IF c.op = "more" THEN @ \o c.reply.rows ELSE c.reply.rows,
               !.more  = c.reply.more,
               !.state = "ready",
               !.busy  = FALSE]
    PROVE  /\ ListTyped' /\ Descending(list'.rows)
           /\ list'.seq = list.seq /\ ~list'.busy
           /\ \A i \in DOMAIN list'.rows : Exists(list'.rows[i].id)
           /\ list'.more => list'.rows # <<>>
<1> USE DEF PageInvariant
<1>1. PageReply(c) /\ c \in Calls
  BY DEF CallsOK, CallOK
<1>2. c.reply.rows \in Seq(Row) /\ c.reply.more \in BOOLEAN
  BY <1>1 DEF Calls, Reply
<1> PICK rows : rows = IF c.op = "more" THEN list.rows \o c.reply.rows ELSE c.reply.rows
  OBVIOUS
<1>3. /\ rows \in Seq(Row) /\ Descending(rows)
      /\ \A i \in DOMAIN rows : Exists(rows[i].id)
      /\ c.reply.more => rows # <<>>
  <2>1. CASE c.op = "more"
    <3>1. /\ list.rows # <<>> /\ list.rows \in Seq(Row) /\ Descending(list.rows)
          /\ c.before = list.rows[Len(list.rows)].id
          /\ \A i \in DOMAIN list.rows : Exists(list.rows[i].id)
      BY <2>1 DEF ListCallsOK, ListCallOK, TypeOK, ListTyped, ShownExists
    <3>2. \A i \in DOMAIN c.reply.rows : c.reply.rows[i].id < list.rows[Len(list.rows)].id
      BY <1>1, <2>1, <3>1 DEF PageReply
    <3>3. rows = list.rows \o c.reply.rows /\ Descending(c.reply.rows)
      BY <1>1, <2>1 DEF PageReply
    <3>4. /\ rows \in Seq(Row) /\ rows # <<>> /\ Descending(rows)
          /\ \A k \in DOMAIN rows :
                \/ k \in DOMAIN list.rows /\ rows[k] = list.rows[k]
                \/ \E i \in DOMAIN c.reply.rows : rows[k] = c.reply.rows[i]
      <4> DEFINE above == list.rows
                 below == c.reply.rows
      <4>1. /\ above \in Seq(Row) /\ below \in Seq(Row) /\ above # <<>>
            /\ Descending(above) /\ Descending(below)
            /\ \A i \in DOMAIN below : below[i].id < above[Len(above)].id
        BY <1>2, <3>1, <3>2, <3>3
      <4>2. rows = above \o below
        BY <3>3
      <4> HIDE DEF above, below
      <4>3. /\ above \o below \in Seq(Row) /\ above \o below # <<>>
            /\ Descending(above \o below)
            /\ \A k \in DOMAIN (above \o below) :
                  \/ k \in DOMAIN above /\ (above \o below)[k] = above[k]
                  \/ \E i \in DOMAIN below : (above \o below)[k] = below[i]
        BY <4>1, RowsJoin
      <4> QED
        BY <4>2, <4>3 DEF above, below
    <3> QED
      BY <1>1, <3>1, <3>4 DEF PageReply
  <2>2. CASE c.op # "more"
    BY <1>1, <1>2, <2>2 DEF PageReply
  <2> QED
    BY <2>1, <2>2
<1>4. list' = [list EXCEPT !.rows = rows, !.more = c.reply.more, !.state = "ready",
                           !.busy = FALSE]
  OBVIOUS
<1>5. /\ list'.rows = rows /\ list'.more = c.reply.more /\ list'.seq = list.seq
      /\ ~list'.busy /\ ListTyped'
  BY <1>2, <1>3, <1>4 DEF TypeOK, ListTyped
<1> QED
  BY <1>3, <1>5

LEMMA ListAnsweredKeeps ==
    ASSUME PageInvariant, NEW c \in calls, ListAnswered(c), calls' = calls \ {c}, onPage,
           UNCHANGED <<server, clicks, staff>>
    PROVE  PageInvariant'
<1> USE DEF PageInvariant
<1>1. /\ UNCHANGED <<view, chat, gen, dialogs, accepting, assigning>>
      /\ onPage' \in BOOLEAN /\ c.op \in ListOps
  BY DEF ListAnswered, Leave, ListOps, TypeOK
<1>2. ChatTyped' /\ DialogsTyped'
  BY <1>1 DEF TypeOK, ChatTyped, DialogsTyped
<1>3. MutationsGuarded'
  BY <1>1, GuardsStay
<1>4. CASE c.at.list # list.seq
  <2>1. UNCHANGED <<list, onPage>>
    BY <1>4 DEF ListAnswered
  <2>2. DialogsWait'
    BY <1>1, <2>1, DialogsWaitOn
  <2> QED
    BY <1>1, <1>2, <1>3, <2>1, <2>2, AnswerAside, UnchangedIsKept DEF TypeOK
<1>5. CASE c.at.list = list.seq
  <2>1. /\ ListTyped' /\ Descending(list'.rows)
        /\ list'.seq = list.seq /\ ~list'.busy
        /\ \A i \in DOMAIN list'.rows : Exists(list'.rows[i].id)
        /\ list'.more => list'.rows # <<>>
    <3>1. CASE c.reply.kind = "ok"
      BY <1>1, <1>5, <3>1, PageArrives DEF ListAnswered
    <3>2. CASE c.reply.kind # "ok"
      <4>1. /\ list'.rows = list.rows /\ list'.more = list.more /\ list'.seq = list.seq
            /\ ~list'.busy /\ ListTyped'
        BY <1>5, <3>2 DEF ListAnswered, ListFailed, TypeOK, ListTyped
      <4> QED
        BY <4>1 DEF ShownExists
    <3> QED
      BY <3>1, <3>2
  <2>2. CallsOK'
    BY LeftOver
  <2>3. \A d \in calls' : d.op \in ListOps => d \in calls /\ d.at.list # list.seq
    BY <1>1, <1>5 DEF ListCallsOK
  <2>4. ListCallsOK'
    BY <2>1, <2>3 DEF ListCallsOK, ListCallOK
  <2>5. DialogsWait'
    BY <1>1, <2>1, DialogsWaitOn DEF TypeOK
  <2>6. ShownExists'
    BY <1>1, <2>1 DEF ShownExists, Exists
  <2>7. TypeOK'
    BY <1>1, <1>2, <2>1 DEF TypeOK
  <2> QED
    BY <1>3, <2>2, <2>4, <2>5, <2>6, <2>7
<1> QED
  BY <1>4, <1>5

LEMMA ChatAnsweredKeeps ==
    ASSUME PageInvariant, NEW c \in calls, ChatAnswered(c), calls' = calls \ {c}, onPage,
           UNCHANGED <<server, clicks, staff>>
    PROVE  PageInvariant'
<1> USE DEF PageInvariant
<1>1. /\ UNCHANGED <<view, list, gen, dialogs, accepting, assigning>>
      /\ onPage' \in BOOLEAN /\ c.op = "detail"
  BY DEF ChatAnswered, Leave, TypeOK
<1>2. ChatTyped' /\ chat'.ticket \in {chat.ticket, None}
  <2>1. CASE UNCHANGED chat
    BY <2>1 DEF TypeOK, ChatTyped
  <2>2. CASE CurrentRequest(c) /\ c.reply.kind = "ok" /\
             chat' = [chat EXCEPT !.status = "ready", !.ticket = c.ticket,
                                  !.shown = c.reply.rows[1]]
    <3>1. c.reply.rows \in Seq(Row) /\ c.reply.rows # <<>> /\ c.reply.rows[1].id = c.ticket
      BY <1>1, <2>2 DEF CallsOK, CallOK, TicketReply, TicketOps, Calls, Reply
    <3>2. c.reply.rows[1] \in Row
      BY <3>1
    <3>3. chat.ticket = c.ticket /\ chat \in Chat
      BY <2>2 DEF CurrentRequest, TypeOK, ChatTyped
    <3> QED
      BY <2>2, <3>1, <3>2, <3>3 DEF ChatTyped, Chat
  <2>3. CASE CurrentRequest(c) /\ chat' = [chat EXCEPT !.status = "error", !.shown = None]
    BY <2>3 DEF CurrentRequest, TypeOK, ChatTyped, Chat
  <2>4. CASE chat' = Closed
    BY <2>4, ClosedChat DEF ChatTyped
  <2> QED
    BY <2>1, <2>2, <2>3, <2>4 DEF ChatAnswered
<1>3. DialogsTyped' /\ gen' \in Nat /\ accepting' \subseteq Tickets /\ assigning' \subseteq Tickets
  BY <1>1 DEF TypeOK, DialogsTyped
<1>4. MutationsGuarded' /\ DialogsWait'
  BY <1>1, GuardsStay, DialogsWaitOn
<1> QED
  BY <1>1, <1>2, <1>3, <1>4, AnswerAside, UnchangedIsKept

(* The ticket that a mutation answers with, in the row and in the chat.    *)
LEMMA ShowTicketKeeps ==
    ASSUME PageInvariant, NEW c \in calls, c.op \in TicketOps, c.reply.kind = "ok",
           ShowTicket(c), UNCHANGED view
    PROVE  ListKept /\ ChatTyped' /\ chat'.ticket = chat.ticket
<1> USE DEF PageInvariant
<1>1. c.reply.rows \in Seq(Row) /\ c.reply.rows # <<>> /\ c.reply.rows[1].id = c.ticket
  BY DEF CallsOK, CallOK, TicketReply, TicketOps, Calls, Reply
<1> PICK row : row = c.reply.rows[1]
  OBVIOUS
<1>2. row \in Row /\ row.id = c.ticket
  BY <1>1
<1>3. ListKept
  <2> PICK rows : rows = [i \in DOMAIN list.rows |->
                             IF list.rows[i].id = row.id THEN row ELSE list.rows[i]]
    OBVIOUS
  <2>1. list.rows \in Seq(Row)
    BY DEF TypeOK, ListTyped
  <2>2. /\ DOMAIN rows = DOMAIN list.rows
        /\ \A i \in DOMAIN rows : rows[i] \in Row /\ rows[i].id = list.rows[i].id
    BY <1>2, <2>1
  <2>3. rows \in Seq(Row) /\ Len(rows) = Len(list.rows)
    <3>1. DOMAIN list.rows = 1 .. Len(list.rows) /\ Len(list.rows) \in Nat
      BY <2>1
    <3>2. rows \in [1 .. Len(list.rows) -> Row]
      BY <2>2, <3>1
    <3> QED
      BY <3>1, <3>2
  <2>4. list' = list \/ list' = [list EXCEPT !.rows = rows]
    BY DEF ShowTicket
  <2>5. CASE list' = list
    BY <2>5, UnchangedIsKept
  <2>6. CASE list' = [list EXCEPT !.rows = rows]
    BY <2>2, <2>3, <2>6 DEF ListKept, TypeOK, ListTyped
  <2> QED
    BY <2>4, <2>5, <2>6
<1>4. ChatTyped' /\ chat'.ticket = chat.ticket
  <2>1. CASE chat' = chat
    BY <2>1 DEF TypeOK, ChatTyped
  <2>2. CASE ChatCurrent(c) /\ chat' = [chat EXCEPT !.status = "ready", !.shown = row]
    BY <1>2, <2>2 DEF ChatCurrent, TypeOK, ChatTyped, Chat
  <2> QED
    BY <2>1, <2>2 DEF ShowTicket
<1> QED
  BY <1>3, <1>4

(* A mutation is answered, with a ticket or an error, or the session over. *)
LEMMA MutationArrives ==
    ASSUME PageInvariant, NEW c \in calls, c.op \in MutationOps, UNCHANGED view,
           \/ MutationAnswered(c)
           \/ CloseTicketChat /\ Leave /\ UNCHANGED list
    PROVE  /\ ListKept /\ ChatTyped' /\ chat'.ticket \in {chat.ticket, None}
           /\ gen' \in Nat /\ onPage' \in BOOLEAN /\ (onPage' => onPage)
<1> USE DEF PageInvariant
<1>1. CASE c.reply.kind = "ok" /\ ShowTicket(c) /\ UNCHANGED <<gen, onPage>>
  <2>1. ListKept /\ ChatTyped' /\ chat'.ticket = chat.ticket
    BY <1>1, ShowTicketKeeps DEF MutationOps, AcceptOps, TicketOps
  <2> QED
    BY <1>1, <2>1 DEF TypeOK
<1>2. CASE UNCHANGED <<list, chat, gen, onPage>>
  BY <1>2, UnchangedIsKept DEF TypeOK, ChatTyped
<1>3. CASE CloseTicketChat /\ Leave /\ UNCHANGED list
  <2>1. chat' = Closed /\ gen' = gen + 1 /\ onPage' = FALSE
    BY <1>3 DEF CloseTicketChat, Leave
  <2>2. ListKept /\ chat'.ticket = None
    BY <1>3, <2>1, ClosedChat, UnchangedIsKept
  <2>3. ChatTyped'
    BY <2>1, ClosedChat DEF ChatTyped
  <2>4. gen' \in Nat
    BY <2>1 DEF TypeOK
  <2> QED
    BY <2>1, <2>2, <2>3, <2>4
<1> QED
  BY <1>1, <1>2, <1>3 DEF MutationAnswered

LEMMA AcceptAnsweredKeeps ==
    ASSUME PageInvariant, NEW c \in calls, AcceptAnswered(c), calls' = calls \ {c}, onPage,
           UNCHANGED <<server, clicks, staff>>
    PROVE  PageInvariant'
<1> USE DEF PageInvariant
<1>1. /\ UNCHANGED <<view, assigning>> /\ accepting' = accepting \ {c.ticket}
      /\ c.op \in AcceptOps
  BY DEF AcceptAnswered, AcceptOps
<1>2. /\ ListKept /\ ChatTyped' /\ chat'.ticket \in {chat.ticket, None}
      /\ gen' \in Nat /\ onPage' \in BOOLEAN /\ (onPage' => onPage)
  BY <1>1, MutationArrives DEF AcceptAnswered, MutationOps
<1>3. UNCHANGED dialogs \/ (dialogs' = WithoutAssign /\ onPage' = FALSE)
  BY DEF AcceptAnswered, CloseTicketChat, Leave
<1>4. DialogsTyped'
  BY <1>3, ClosedAssign DEF TypeOK, DialogsTyped
<1>5. DialogsWait'
  <2>1. list'.busy = list.busy
    BY <1>2 DEF ListKept
  <2>2. CASE UNCHANGED dialogs
    BY <1>2, <2>1, <2>2, DialogsWaitOn
  <2>3. CASE dialogs' = WithoutAssign /\ onPage' = FALSE
    BY <2>1, <2>3, ClosedAssign DEF DialogsWait
  <2> QED
    BY <1>3, <2>2, <2>3
<1>6. MutationsGuarded'
  <2>1. \A d \in calls' : d.op \in AcceptOps => d.ticket \in accepting /\ d.ticket # c.ticket
    BY <1>1 DEF MutationsGuarded
  <2> QED
    BY <1>1, <2>1 DEF MutationsGuarded
<1>7. accepting' \subseteq Tickets /\ assigning' \subseteq Tickets
  BY <1>1 DEF TypeOK
<1> QED
  BY <1>2, <1>4, <1>5, <1>6, <1>7, AnswerAside

LEMMA AssignAnsweredKeeps ==
    ASSUME PageInvariant, NEW c \in calls, AssignAnswered(c), calls' = calls \ {c}, onPage,
           UNCHANGED <<server, clicks, staff>>
    PROVE  PageInvariant'
<1> USE DEF PageInvariant
<1>1. /\ UNCHANGED <<view, accepting>> /\ assigning' = assigning \ {c.ticket}
      /\ c.op = "assign"
  BY DEF AssignAnswered
<1>2. /\ ListKept /\ ChatTyped' /\ chat'.ticket \in {chat.ticket, None}
      /\ gen' \in Nat /\ onPage' \in BOOLEAN
  BY <1>1, MutationArrives DEF AssignAnswered, MutationOps
<1>3. dialogs' \in {dialogs, WithoutAssign}
  BY DEF AssignAnswered, CloseTicketChat
<1>4. DialogsTyped'
  BY <1>3, ClosedAssign DEF TypeOK, DialogsTyped
<1>5. \A d \in calls' : d.op # "assign"
  BY <1>1 DEF MutationsGuarded
<1>6. DialogsWait'
  <2>1. list'.busy = list.busy
    BY <1>2 DEF ListKept
  <2> QED
    BY <1>3, <1>5, <2>1, ClosedAssign DEF DialogsWait
<1>7. MutationsGuarded'
  BY <1>1, <1>5 DEF MutationsGuarded
<1>8. accepting' \subseteq Tickets /\ assigning' \subseteq Tickets
  BY <1>1 DEF TypeOK
<1> QED
  BY <1>2, <1>4, <1>6, <1>7, <1>8, AnswerAside

(* The refresh takes the place of the acceptance that met the conflict.    *)
LEMMA RefreshAfterConflictKeeps ==
    ASSUME PageInvariant, NEW c \in calls, RefreshAfterConflict(c),
           UNCHANGED <<server, clicks, staff>>
    PROVE  PageInvariant'
<1> USE DEF PageInvariant
<1> DEFINE d == Call("refresh", c.ticket, c.at)
<1>1. /\ c.op = "accept" /\ c.reply.kind = "conflict"
      /\ UNCHANGED page /\ calls' = (calls \ {c}) \cup {d}
  BY DEF RefreshAfterConflict
<1>2. c \in Calls /\ Exists(c.ticket) /\ server[c.ticket] \in {"theirs", "closed"}
  BY <1>1 DEF CallsOK, CallOK, AcceptanceOK, TicketOps
<1>3. CallOK(d) /\ AcceptanceOK(d) /\ d.op = "refresh" /\ d.ticket = c.ticket
  <2>1. c.ticket \in Tickets /\ c.at \in Moment
    BY <1>2 DEF Exists, Calls
  <2> QED
    BY <1>2, <2>1, NewCallOK
<1> HIDE DEF d
<1>4. ServerGrows
  BY UnchangedGrows
<1>5. /\ TypeOK' /\ ShownExists' /\ ListKept
      /\ UNCHANGED <<view, list, chat, gen, dialogs, accepting, assigning, onPage>>
  BY <1>1, <1>4, PageStands DEF TypeOK
<1>6. CallsOK'
  BY <1>1, <1>3, <1>4, CallsStay, CallStays
<1>7. ListCallsOK'
  BY <1>1, <1>3, <1>5, ListCallsStay DEF ListOps
<1>8. MutationsGuarded'
  <2>1. \A e \in calls' : e \in calls \ {c} \/ e = d
    BY <1>1
  <2>2. \A e \in calls : e.op \in AcceptOps /\ e.ticket = c.ticket => e = c
    BY <1>1 DEF MutationsGuarded, AcceptOps
  <2>3. c.ticket \in accepting
    BY <1>1 DEF MutationsGuarded, AcceptOps
  <2>4. UNCHANGED <<accepting, assigning>>
    BY <1>5
  <2> QED
    BY <1>3, <2>1, <2>2, <2>3, <2>4 DEF MutationsGuarded
<1>9. DialogsWait'
  BY <1>1, <1>3, <1>5, DialogsStay
<1> QED
  BY <1>5, <1>6, <1>7, <1>8, <1>9

LEMMA NewRequestFailedKeeps ==
    ASSUME PageInvariant, NEW c \in calls, NewRequestFailed(c), calls' = calls \ {c}, onPage,
           UNCHANGED <<server, clicks, staff>>
    PROVE  PageInvariant'
<1> USE DEF PageInvariant
<1>1. /\ UNCHANGED <<view, list, chat, gen, dialogs, accepting, assigning>>
      /\ onPage' \in BOOLEAN
  BY DEF NewRequestFailed
<1>2. ChatTyped' /\ DialogsTyped' /\ gen' \in Nat
      /\ accepting' \subseteq Tickets /\ assigning' \subseteq Tickets
  BY <1>1 DEF TypeOK, ChatTyped, DialogsTyped
<1>3. MutationsGuarded' /\ DialogsWait'
  BY <1>1, GuardsStay, DialogsWaitOn
<1> QED
  BY <1>1, <1>2, <1>3, AnswerAside, UnchangedIsKept

(* The page goes to the open list; with the mouse alone no list request is *)
(* in flight then, for the dialog was waiting.                             *)
LEMMA NewRequestCreatedKeeps ==
    ASSUME PageInvariant, NEW c \in calls, NewRequestCreated(c), onPage,
           UNCHANGED <<server, clicks, staff>>
    PROVE  PageInvariant'
<1> USE DEF PageInvariant
<1>1. /\ UNCHANGED <<accepting, assigning, onPage>> /\ gen' = gen + 1 /\ chat' = Closed
      /\ dialogs' = [WithoutAssign EXCEPT !.new = FALSE] /\ view' = "open"
      /\ LoadFirstPage("open", calls \ {c}) /\ c.op = "create"
  BY DEF NewRequestCreated
<1>2. DialogsTyped' /\ dialogs'.assign = None /\ ~dialogs'.new
  BY <1>1, ClosedAssign DEF DialogsTyped
<1>3. ChatTyped' /\ chat'.ticket = None /\ gen' \in Nat
  BY <1>1, ClosedChat DEF ChatTyped, TypeOK
<1>4. \A d \in calls \ {c} : d.op # "create"
  BY <1>1 DEF DialogsWait
<1>5. ~BehindDialog => ~list.busy /\ \A d \in calls : d.op # "assign"
  <2>1. dialogs.new /\ (~BehindDialog => dialogs.assign = None /\ ~list.busy)
    BY <1>1 DEF DialogsWait
  <2>2. \A d \in calls : d.op = "assign" => d.ticket # None
    BY PageNull DEF CallsOK, CallOK, Exists, TicketOps
  <2> QED
    BY <2>1, <2>2 DEF DialogsWait
<1>6. CASE list.busy
  <2>1. calls' = calls \ {c} /\ UNCHANGED list
    BY <1>1, <1>6 DEF LoadFirstPage
  <2>2. CallsOK' /\ ServerGrows
    BY <2>1, LeftOver
  <2>3. ListCallsOK'
    <3>1. \A d \in calls : ListCallOK(d) => ListCallOK(d)'
      BY <1>1, <1>5, <1>6, <2>1 DEF ListCallOK
    <3> QED
      BY <2>1, <3>1 DEF ListCallsOK
  <2>4. TypeOK'
    BY <1>1, <1>2, <1>3, <2>1 DEF TypeOK, ListTyped, Views
  <2>5. ShownExists'
    BY <1>3, <2>1 DEF ShownExists, Exists
  <2>6. MutationsGuarded'
    BY <1>1, <2>1, GuardsStay
  <2>7. DialogsWait'
    BY <1>2, <1>4, <1>5, <1>6, <2>1 DEF DialogsWait
  <2> QED
    BY <2>2, <2>3, <2>4, <2>5, <2>6, <2>7
<1>7. CASE ~list.busy
  <2>1. PICK d : calls' = (calls \ {c}) \cup {d} /\ d.op = "first"
    BY <1>1, <1>7, FirstPageLoads DEF Views
  <2>2. DialogsWait'
    BY <1>2, <1>4, <1>5, <2>1 DEF DialogsWait
  <2>3. clicks' \in Nat /\ staff' \in Nat /\ onPage' \in BOOLEAN
    BY <1>1 DEF TypeOK
  <2> QED
    BY <1>1, <1>2, <1>3, <1>7, <2>2, <2>3, FirstPageKeeps DEF Views
<1> QED
  BY <1>6, <1>7

LEMMA ArrivesKeeps ==
    ASSUME PageInvariant, Arrives
    PROVE  PageInvariant'
<1>1. PICK c \in calls :
          \/ RefreshAfterConflict(c) \/ NewRequestCreated(c)
          \/ /\ calls' = calls \ {c}
             /\ \/ ListAnswered(c) \/ ChatAnswered(c) \/ AcceptAnswered(c)
                \/ AssignAnswered(c) \/ NewRequestFailed(c)
  BY DEF Arrives
<1>2. onPage /\ UNCHANGED <<server, clicks, staff>>
  BY DEF Arrives
<1> QED
  BY <1>1, <1>2, RefreshAfterConflictKeeps, NewRequestCreatedKeeps, ListAnsweredKeeps,
     ChatAnsweredKeeps, AcceptAnsweredKeeps, AssignAnsweredKeeps, NewRequestFailedKeeps

-----------------------------------------------------------------------------
(* The invariant.                                                          *)

LEMMA InitKeeps ==
    ASSUME Init
    PROVE  PageInvariant
<1>1. TypeOK
  BY PageTickets DEF Init, TypeOK, ListTyped, ChatTyped, Chat, DialogsTyped, Statuses, Views, Origins
<1> DEFINE c == Call("first", None, Here)
<1>2. calls = {c}
  BY DEF Init
<1>3. CallOK(c) /\ AcceptanceOK(c) /\ c.op = "first" /\ c.at = Here
  BY <1>1, HereIsMoment, NewCallOK DEF TicketOps
<1> HIDE DEF c
<1>4. Here.list = list.seq /\ Here.view = view
  BY <1>1, HereIsMoment
<1>5. list.rows = <<>> /\ list.busy /\ ~list.more /\ list.seq = 1
      /\ chat.ticket = None /\ ~dialogs.new
  BY DEF Init
<1>6. ShownExists
  BY <1>5 DEF ShownExists, Descending
<1>7. ListCallsOK
  BY <1>2, <1>3, <1>4, <1>5 DEF ListCallsOK, ListCallOK
<1> QED
  BY <1>1, <1>2, <1>3, <1>5, <1>6, <1>7
  DEF PageInvariant, CallsOK, MutationsGuarded, DialogsWait, AcceptOps

LEMMA StepKeeps ==
    ASSUME PageInvariant, [Next]_vars
    PROVE  PageInvariant'
<1>1. CASE UNCHANGED vars
  <2>1. UNCHANGED <<server, view, list, chat, gen, dialogs, accepting, assigning, calls,
                    onPage, clicks, staff>>
    BY <1>1 DEF vars, page
  <2>2. ServerGrows /\ ListKept
    BY <2>1, UnchangedGrows, UnchangedIsKept DEF PageInvariant
  <2>3. TypeOK'
    BY <2>1 DEF PageInvariant, TypeOK, ListTyped, ChatTyped, DialogsTyped
  <2>4. MutationsGuarded' /\ DialogsWait'
    BY <2>1, GuardsStay, DialogsStay DEF PageInvariant
  <2>5. chat'.ticket # None => Exists(chat'.ticket)
    BY <2>1 DEF PageInvariant, ShownExists
  <2> QED
    BY <2>1, <2>2, <2>3, <2>4, <2>5, ListAside
<1>2. CASE Next
  BY <1>2, UserKeeps, ServeKeeps, ArrivesKeeps, StaffKeeps DEF Next
<1> QED
  BY <1>1, <1>2

(* Every request fits the page that sent it, in every state.               *)
THEOREM InvariantHolds == Spec => []PageInvariant
<1>1. Init => PageInvariant
  BY InitKeeps
<1>2. PageInvariant /\ [Next]_vars => PageInvariant'
  BY StepKeeps
<1> QED
  BY <1>1, <1>2, PTL DEF Spec

(* The types, in every state.                                              *)
THEOREM TypeCorrect == Spec => []TypeOK
<1>1. PageInvariant => TypeOK
  BY DEF PageInvariant
<1> QED
  BY <1>1, InvariantHolds, PTL

LEMMA AtMostOne ==
    ASSUME NEW S, \A x, y \in S : x = y
    PROVE  Cardinality(S) <= 1
<1>1. CASE S = {}
  BY <1>1, FS_EmptySet
<1>2. CASE S # {}
  <2>1. PICK x : x \in S
    BY <1>2
  <2>2. S = {x}
    BY <2>1
  <2> QED
    BY <2>2, FS_Singleton
<1> QED
  BY <1>1, <1>2

(* However the clicks and the answers interleave, a ticket is never        *)
(* accepted, or refreshed after a conflict, or assigned twice at a time.   *)
THEOREM OneMutationAtATime == Spec => []OneMutationPerTicket
<1>1. ASSUME PageInvariant
      PROVE  OneMutationPerTicket
  <2> SUFFICES ASSUME NEW t \in Tickets
               PROVE
        /\ Cardinality({c \in InFlight("accept") \cup InFlight("refresh") : c.ticket = t}) <= 1
        /\ Cardinality({c \in InFlight("assign") : c.ticket = t}) <= 1
    BY DEF OneMutationPerTicket
  <2>1. \A x, y \in {c \in InFlight("accept") \cup InFlight("refresh") : c.ticket = t} : x = y
    BY <1>1 DEF InFlight, PageInvariant, MutationsGuarded, AcceptOps
  <2>2. \A x, y \in {c \in InFlight("assign") : c.ticket = t} : x = y
    BY <1>1 DEF InFlight, PageInvariant, MutationsGuarded
  <2> QED
    BY <2>1, <2>2, AtMostOne
<1> QED
  BY <1>1, InvariantHolds, PTL

-----------------------------------------------------------------------------
(* Which step handles an answer, and what it leaves alone.                 *)

LEMMA ClicksKeepCalls ==
    ASSUME UserActs
    PROVE  calls \subseteq calls' /\ UNCHANGED <<server, onPage>> /\ clicks' = clicks + 1
<1>1. ASSUME NEW v \in Views, SwitchView(v)
      PROVE  calls \subseteq calls' /\ Click
  BY <1>1 DEF SwitchView, LoadFirstPage, PageClick
<1>2. ASSUME RetryTicketLoad \/ LoadMore \/ CloseChat \/ RetryTicketChat
      PROVE  calls \subseteq calls' /\ Click
  BY <1>2 DEF RetryTicketLoad, LoadMore, CloseChat, RetryTicketChat, LoadTicketChat,
              LoadFirstPage, PageClick
<1>3. ASSUME NEW t \in Tickets, OpenTicketChat(t) \/ SubmitAssign(t)
      PROVE  calls \subseteq calls' /\ Click
  BY <1>3 DEF OpenTicketChat, SubmitAssign, LoadTicketChat, PageClick
<1>4. ASSUME NEW t \in Tickets, NEW origin \in Origins,
             AcceptTicket(t, origin) \/ OpenAssignDialog(t, origin)
      PROVE  calls \subseteq calls' /\ Click
  BY <1>4 DEF AcceptTicket, OpenAssignDialog, PageClick
<1>5. ASSUME CancelAssign \/ OpenNewRequest \/ CancelNewRequest \/ SubmitNewRequest
      PROVE  calls \subseteq calls' /\ Click
  BY <1>5 DEF CancelAssign, OpenNewRequest, CancelNewRequest, SubmitNewRequest, PageClick
<1>6. calls \subseteq calls' /\ Click
  BY <1>1, <1>2, <1>3, <1>4, <1>5 DEF UserActs
<1> QED
  BY <1>6 DEF Click

(* An answer is handled by the step that takes it off the calls.           *)
LEMMA HandledArrives ==
    ASSUME PageInvariant, [Next]_vars, NEW c, Handled(c)
    PROVE  /\ onPage
           /\ \/ RefreshAfterConflict(c) \/ NewRequestCreated(c)
              \/ /\ calls' = calls \ {c}
                 /\ \/ ListAnswered(c) \/ ChatAnswered(c) \/ AcceptAnswered(c)
                    \/ AssignAnswered(c) \/ NewRequestFailed(c)
<1>1. c \in calls /\ c \notin calls' /\ c.reply # Unanswered
  BY DEF Handled
<1>2. ~UserActs
  BY <1>1, ClicksKeepCalls
<1>3. ~UNCHANGED vars
  BY <1>1 DEF vars
<1>4. ~\E t \in Tickets : Staff(t)
  BY <1>1 DEF Staff
<1>5. ~Serve
  BY <1>1 DEF Serve, ServeRead, ServeAccept, ServeAssign, ServeCreate, ServeNot,
              AnsweredOrLost, Answered
<1>6. Arrives
  BY <1>2, <1>3, <1>4, <1>5 DEF Next
<1>7. PICK d \in calls :
          \/ RefreshAfterConflict(d) \/ NewRequestCreated(d)
          \/ /\ calls' = calls \ {d}
             /\ \/ ListAnswered(d) \/ ChatAnswered(d) \/ AcceptAnswered(d)
                \/ AssignAnswered(d) \/ NewRequestFailed(d)
  BY <1>6 DEF Arrives
<1>8. calls \ {d} \subseteq calls'
  BY <1>7 DEF RefreshAfterConflict, NewRequestCreated, LoadFirstPage
<1>9. c = d
  BY <1>1, <1>8
<1> QED
  BY <1>6, <1>7, <1>9 DEF Arrives

(* Only the answer to a list request changes which rows there are, and it  *)
(* is an answer for the view that is active, but for FillsItsTab's case.   *)
LEMMA OnePagedViewStep ==
    ASSUME PageInvariant, [Next]_vars, NEW c \in calls,
           Handled(c), c.op \in {"first", "more"}, list'.rows # list.rows
    PROVE  FillsItsTab(c) /\ Descending(list'.rows)
<1>1. ListAnswered(c)
  BY HandledArrives DEF RefreshAfterConflict, NewRequestCreated, ChatAnswered, AcceptAnswered,
                        AssignAnswered, NewRequestFailed
<1>2. c.at.list = list.seq /\ view' = view
  BY <1>1 DEF ListAnswered
<1>3. c.at.view = view \/ (BehindDialog /\ view = "open")
  BY <1>2 DEF PageInvariant, ListCallsOK, ListCallOK, ListOps
<1>4. Descending(list'.rows)
  BY StepKeeps DEF PageInvariant, ShownExists, Descending
<1> QED
  BY <1>2, <1>3, <1>4 DEF FillsItsTab

(* While the list waits, the tabs are disabled; a creation alone opens the *)
(* tab of the open tickets.                                                *)
LEMMA TabStep ==
    ASSUME PageInvariant, [Next]_vars, NEW c \in calls, c.op \in {"first", "more"}
    PROVE  KeepsItsTab(c)
<1> SUFFICES ASSUME c.at.list = list.seq, view' # view
             PROVE  \E d \in InFlight("create") : Handled(d)
  BY DEF KeepsItsTab
<1>1. list.busy
  BY DEF PageInvariant, ListCallsOK, ListCallOK, ListOps
<1>2. ~UserActs
  BY <1>1 DEF UserActs, SwitchView, RetryTicketLoad, LoadMore, CloseChat, RetryTicketChat,
              OpenTicketChat, AcceptTicket, OpenAssignDialog, CancelAssign, SubmitAssign,
              OpenNewRequest, CancelNewRequest, SubmitNewRequest
<1>3. ~Serve /\ ~\E t \in Tickets : Staff(t)
  BY DEF Serve, Staff, page
<1>4. Arrives
  BY <1>2, <1>3 DEF Next, vars, page
<1>5. PICK d \in calls : d.reply # Unanswered /\ NewRequestCreated(d)
  BY <1>4 DEF Arrives, RefreshAfterConflict, ListAnswered, ChatAnswered, AcceptAnswered, page,
              AssignAnswered, NewRequestFailed
<1>6. d.op = "create" /\ calls' = calls \ {d}
  BY <1>1, <1>5 DEF NewRequestCreated, LoadFirstPage
<1> QED
  BY <1>5, <1>6 DEF InFlight, Handled

(* The list never mixes the views, repeats a ticket or loses the order: an *)
(* answer fills it only if it was asked for the view that is active, and   *)
(* joins below the last row.  Only a creation moves the tab under a        *)
(* request, so with the keyboard behind its dialog the open tab alone can  *)
(* get the rows of another view.                                           *)
THEOREM ListStaysOnePagedView == Spec => ListIsOnePagedView
<1> DEFINE OneView == \A c \in InFlight("first") \cup InFlight("more") :
              /\ Handled(c) /\ list'.rows # list.rows
                 => FillsItsTab(c) /\ Descending(list'.rows)
              /\ KeepsItsTab(c)
<1>1. PageInvariant /\ [Next]_vars => [OneView]_vars
  BY OnePagedViewStep, TabStep DEF InFlight
<1> HIDE DEF OneView
<1>2. Spec => [][OneView]_vars
  BY <1>1, InvariantHolds, PTL DEF Spec
<1> QED
  BY <1>2 DEF OneView, ListIsOnePagedView

(* After a creation the open list is loaded from its first page, unless    *)
(* the keyboard reaches the page behind the dialog.                        *)
THEOREM CreationReloads ==
    ASSUME ~BehindDialog
    PROVE  Spec => CreationReloadsOpenList
<1> DEFINE Reloads == \A c \in InFlight("create") :
              Handled(c) /\ c.reply.kind = "ok"
              => list'.rows = <<>> /\ \E d \in calls' : d.op = "first" /\ d.at.view = "open"
<1>1. ASSUME PageInvariant, [Next]_vars
      PROVE  Reloads
  <2> SUFFICES ASSUME NEW c \in InFlight("create"), Handled(c), c.reply.kind = "ok"
               PROVE  /\ list'.rows = <<>>
                      /\ \E d \in calls' : d.op = "first" /\ d.at.view = "open"
    OBVIOUS
  <2>1. c \in calls /\ c.op = "create"
    BY DEF InFlight
  <2>2. NewRequestCreated(c)
    BY <1>1, <2>1, HandledArrives DEF RefreshAfterConflict, ListAnswered, ChatAnswered,
                                      AcceptAnswered, AssignAnswered, NewRequestFailed
  <2>3. ~list.busy
    BY <1>1, <2>1 DEF PageInvariant, DialogsWait
  <2> DEFINE at == [Here EXCEPT !.list = @ + 1, !.view = "open"]
             d == Call("first", None, at)
  <2>4. list'.rows = <<>> /\ d \in calls'
    BY <2>2, <2>3 DEF NewRequestCreated, LoadFirstPage
  <2>5. at.view = "open"
    BY <1>1, HereIsMoment, MomentsAfter DEF PageInvariant, Views
  <2> HIDE DEF at
  <2>6. d.op = "first" /\ d.at.view = "open"
    BY <2>5 DEF Call
  <2> HIDE DEF d
  <2> QED
    BY <2>4, <2>6
<1> HIDE DEF Reloads
<1>2. Spec => [][Reloads]_vars
  BY <1>1, InvariantHolds, PTL DEF Spec
<1> QED
  BY <1>2 DEF Reloads, CreationReloadsOpenList

(* What arrives leaves the chat at its ticket or closes it.                *)
LEMMA ChatStaysPut ==
    ASSUME PageInvariant, [Next]_vars, clicks' = clicks
    PROVE  chat'.ticket \in {chat.ticket, None}
<1> USE DEF PageInvariant
<1>1. ~UserActs
  BY ClicksKeepCalls DEF TypeOK
<1>2. CASE UNCHANGED chat
  BY <1>2
<1>3. CASE Arrives
  <2>1. PICK c \in calls :
          \/ RefreshAfterConflict(c) \/ NewRequestCreated(c)
          \/ ListAnswered(c) \/ ChatAnswered(c) \/ AcceptAnswered(c)
          \/ AssignAnswered(c) \/ NewRequestFailed(c)
    BY <1>3 DEF Arrives
  <2>2. CASE RefreshAfterConflict(c) \/ ListAnswered(c) \/ NewRequestFailed(c)
    BY <2>2 DEF RefreshAfterConflict, ListAnswered, NewRequestFailed, page
  <2>3. CASE NewRequestCreated(c)
    BY <2>3, ClosedChat DEF NewRequestCreated
  <2>4. CASE ChatAnswered(c)
    <3>1. UNCHANGED chat \/ chat' = Closed
          \/ (chat' = [chat EXCEPT !.status = "error", !.shown = None])
          \/ (/\ chat.ticket = c.ticket
              /\ chat' = [chat EXCEPT !.status = "ready", !.ticket = c.ticket,
                                      !.shown = c.reply.rows[1]])
      BY <2>4 DEF ChatAnswered, CurrentRequest
    <3> QED
      BY <3>1, ClosedChat DEF TypeOK, ChatTyped, Chat
  <2>5. CASE AcceptAnswered(c) \/ AssignAnswered(c)
    BY <2>5, MutationArrives DEF AcceptAnswered, AssignAnswered, MutationOps, AcceptOps
  <2> QED
    BY <2>1, <2>2, <2>3, <2>4, <2>5
<1>4. CASE Serve \/ UNCHANGED vars \/ \E t \in Tickets : Staff(t)
  BY <1>2, <1>4 DEF Serve, Staff, vars, page
<1> QED
  BY <1>1, <1>3, <1>4 DEF Next

(* Whatever order the answers come in, none of them moves the chat to      *)
(* another ticket or opens it again.                                       *)
THEOREM AnswersLeaveTheChat == Spec => AnswersDoNotMoveChat
<1> DEFINE StaysPut == clicks' = clicks => chat'.ticket \in {chat.ticket, None}
<1>1. PageInvariant /\ [Next]_vars => [StaysPut]_vars
  BY ChatStaysPut
<1> HIDE DEF StaysPut
<1>2. Spec => [][StaysPut]_vars
  BY <1>1, InvariantHolds, PTL DEF Spec
<1> QED
  BY <1>2 DEF StaysPut, AnswersDoNotMoveChat

-----------------------------------------------------------------------------
(* What the user has seen.                                                 *)

(* A list without repetition whose rows stay, or that is emptied.          *)
LEMMA RowsHoldStill ==
    ASSUME PageInvariant, list'.rows = list.rows \/ list'.rows = <<>>
    PROVE  NoRowTurnsBack
<1>1. list.rows \in Seq(Row) /\ \A i \in DOMAIN list.rows : list.rows[i].id \in Nat
  <2>1. list.rows \in Seq(Row) /\ \A r \in Row : r.id \in Nat
    BY PageTickets DEF PageInvariant, TypeOK, ListTyped, Row
  <2>2. \A i \in DOMAIN list.rows : list.rows[i] \in Row
    BY <2>1
  <2> QED
    BY <2>1, <2>2
<1>2. \A i, j \in DOMAIN list.rows : list.rows[i].id = list.rows[j].id => i = j
  BY <1>1 DEF PageInvariant, ShownExists, Descending
<1> QED
  BY <1>1, <1>2 DEF NoRowTurnsBack

LEMMA JoinKeepsRows ==
    ASSUME NEW above \in Seq(Row), NEW below \in Seq(Row)
    PROVE  \A i \in DOMAIN above :
              i \in DOMAIN (above \o below) /\ (above \o below)[i] = above[i]
OBVIOUS

(* The rows of an answer come below the rows that are there.               *)
LEMMA ArrivingRowsAreNew ==
    ASSUME PageInvariant, NEW c \in calls, ListAnswered(c)
    PROVE  NoRowTurnsBack
<1> USE DEF PageInvariant
<1>1. CASE list'.rows = list.rows
  BY <1>1, RowsHoldStill
<1>2. CASE list'.rows # list.rows
  <2>1. /\ c.at.list = list.seq /\ c.op \in ListOps /\ c.reply.kind = "ok"
        /\ list' = [list EXCEPT
                !.rows  = IF c.op = "more" THEN @ \o c.reply.rows ELSE c.reply.rows,
                !.more  = c.reply.more,
                !.state = "ready",
                !.busy  = FALSE]
    BY <1>2 DEF ListAnswered, ListFailed, ListOps, TypeOK, ListTyped
  <2>2. ListCallOK(c) /\ PageReply(c) /\ c \in Calls
    BY <2>1 DEF ListCallsOK, CallsOK, CallOK
  <2>3. CASE c.op = "first"
    BY <2>1, <2>2, <2>3 DEF ListCallOK, NoRowTurnsBack
  <2>4. CASE c.op = "more"
    <3>1. /\ list.rows \in Seq(Row) /\ c.reply.rows \in Seq(Row) /\ list.rows # <<>>
          /\ list'.rows = list.rows \o c.reply.rows
      BY <2>1, <2>2, <2>4 DEF TypeOK, ListTyped, ListCallOK, Calls, Reply
    <3>2. Descending(list'.rows) /\ list'.rows \in Seq(Row)
      BY <2>1, PageArrives DEF ListTyped
    <3>3. \A i \in DOMAIN list.rows : i \in DOMAIN list'.rows /\ list'.rows[i] = list.rows[i]
      <4> DEFINE above == list.rows
                 below == c.reply.rows
      <4>1. above \in Seq(Row) /\ below \in Seq(Row) /\ list'.rows = above \o below
        BY <3>1
      <4> HIDE DEF above, below
      <4>2. \A i \in DOMAIN above :
               i \in DOMAIN (above \o below) /\ (above \o below)[i] = above[i]
        BY <4>1, JoinKeepsRows
      <4> QED
        BY <4>1, <4>2 DEF above, below
    <3>4. \A i, j \in DOMAIN list'.rows : list'.rows[i].id = list'.rows[j].id => i = j
      <4>1. \A r \in Row : r.id \in Nat
        BY PageTickets DEF Row
      <4>2. \A i \in DOMAIN list'.rows : list'.rows[i] \in Row /\ i \in Nat
        BY <3>2
      <4> QED
        BY <3>2, <4>1, <4>2 DEF Descending
    <3> QED
      BY <3>3, <3>4 DEF NoRowTurnsBack
  <2> QED
    BY <2>1, <2>3, <2>4 DEF ListOps
<1> QED
  BY <1>1, <1>2

(* The answer of an acceptance or of a refresh is not pending.             *)
LEMMA AcceptanceShowsItsEnd ==
    ASSUME PageInvariant, NEW c \in calls, c.op \in AcceptOps, c.reply.kind = "ok",
           ShowTicket(c), UNCHANGED view
    PROVE  NoneTurnsBack
<1> USE DEF PageInvariant
<1> PICK row : row = c.reply.rows[1]
  OBVIOUS
<1>1. row.status # "pending"
  BY DEF CallsOK, AcceptanceOK, AcceptOps
<1>2. NoRowTurnsBack
  <2>1. CASE list' = list
    BY <2>1, RowsHoldStill
  <2>2. CASE ListCurrent(c)
    <3>1. list'.rows = [i \in DOMAIN list.rows |->
                           IF list.rows[i].id = row.id THEN row ELSE list.rows[i]]
      BY <2>2 DEF ShowTicket, TypeOK, ListTyped
    <3>2. /\ DOMAIN list'.rows = DOMAIN list.rows
          /\ \A j \in DOMAIN list.rows :
                list'.rows[j].status = "pending" => list'.rows[j] = list.rows[j]
      BY <1>1, <3>1
    <3>3. \A i, j \in DOMAIN list.rows : list.rows[i].id = list.rows[j].id => i = j
      <4>1. list.rows \in Seq(Row) /\ \A r \in Row : r.id \in Nat
        BY PageTickets DEF TypeOK, ListTyped, Row
      <4>2. \A i \in DOMAIN list.rows : list.rows[i] \in Row /\ i \in Nat
        BY <4>1
      <4> QED
        BY <4>1, <4>2 DEF ShownExists, Descending
    <3> QED
      BY <3>2, <3>3 DEF NoRowTurnsBack
  <2> QED
    BY <2>1, <2>2 DEF ShowTicket
<1>3. ChatDoesNotTurnBack
  <2>1. chat' = chat \/ chat' = [chat EXCEPT !.status = "ready", !.shown = row]
    BY DEF ShowTicket
  <2> QED
    BY <1>1, <2>1 DEF TypeOK, ChatTyped, Chat, ChatDoesNotTurnBack
<1> QED
  BY <1>2, <1>3 DEF NoneTurnsBack

(* What a click shows at once is what was shown, or nothing.               *)
LEMMA ClicksTurnNothingBack ==
    ASSUME PageInvariant, UserActs
    PROVE  NoneTurnsBack
<1> USE DEF PageInvariant
<1>1. list'.rows = list.rows \/ list'.rows = <<>>
  <2>1. ASSUME NEW v \in Views, SwitchView(v)
        PROVE  list'.rows = list.rows \/ list'.rows = <<>>
    BY <2>1 DEF SwitchView, LoadFirstPage
  <2>2. CASE RetryTicketLoad
    BY <2>2 DEF RetryTicketLoad, LoadFirstPage
  <2>3. CASE LoadMore
    <3>1. \A n : [list EXCEPT !.seq = n, !.busy = TRUE].rows = list.rows
      BY DEF TypeOK, ListTyped
    <3>2. list' = [list EXCEPT !.seq = list.seq + 1, !.busy = TRUE]
      BY <2>3 DEF LoadMore
    <3> QED
      BY <3>1, <3>2
  <2>4. CASE UNCHANGED list
    BY <2>4
  <2> QED
    BY <2>1, <2>2, <2>3, <2>4
    DEF UserActs, CloseChat, RetryTicketChat, OpenTicketChat, AcceptTicket, OpenAssignDialog,
        CancelAssign, SubmitAssign, OpenNewRequest, CancelNewRequest, SubmitNewRequest
<1>2. chat' = chat \/ chat'.shown = None
  <2>1. Closed.shown = None
    BY ClosedChat
  <2>2. \A t : LoadTicketChat(t) => chat'.shown = None
    BY DEF LoadTicketChat
  <2> QED
    BY <2>1, <2>2
    DEF UserActs, SwitchView, RetryTicketLoad, LoadMore, CloseChat, RetryTicketChat,
        OpenTicketChat, AcceptTicket, OpenAssignDialog, CancelAssign, SubmitAssign,
        OpenNewRequest, CancelNewRequest, SubmitNewRequest, CloseTicketChat
<1> QED
  BY <1>1, <1>2, RowsHoldStill DEF NoneTurnsBack, ChatDoesNotTurnBack

LEMMA ArrivalsTurnNothingBack ==
    ASSUME PageInvariant, Arrives, ~(\E c \in InFlight("assign") : Handled(c))
    PROVE  NoneTurnsBack
<1> USE DEF PageInvariant
<1>1. PICK c \in calls :
          /\ c.reply # Unanswered
          /\ \/ RefreshAfterConflict(c) \/ NewRequestCreated(c)
             \/ /\ calls' = calls \ {c}
                /\ \/ ListAnswered(c) \/ ChatAnswered(c) \/ AcceptAnswered(c)
                   \/ AssignAnswered(c) \/ NewRequestFailed(c)
  BY DEF Arrives
<1>2. CASE RefreshAfterConflict(c) \/ NewRequestFailed(c)
  <2>1. UNCHANGED <<list, chat>>
    BY <1>2 DEF RefreshAfterConflict, NewRequestFailed, page
  <2> QED
    BY <2>1, RowsHoldStill DEF NoneTurnsBack, ChatDoesNotTurnBack
<1>3. CASE NewRequestCreated(c)
  <2>1. list'.rows = list.rows \/ list'.rows = <<>>
    BY <1>3 DEF NewRequestCreated, LoadFirstPage
  <2>2. chat'.shown = None
    BY <1>3, ClosedChat DEF NewRequestCreated
  <2> QED
    BY <2>1, <2>2, RowsHoldStill DEF NoneTurnsBack, ChatDoesNotTurnBack
<1>4. CASE ListAnswered(c)
  <2>1. UNCHANGED chat
    BY <1>4 DEF ListAnswered
  <2> QED
    BY <1>4, <2>1, ArrivingRowsAreNew DEF NoneTurnsBack, ChatDoesNotTurnBack
<1>5. CASE ChatAnswered(c)
  <2>1. UNCHANGED list
    BY <1>5 DEF ChatAnswered
  <2>2. chat' = chat \/ chat.shown = None \/ chat'.shown = None
    <3>1. UNCHANGED chat \/ chat.status = "loading"
      BY <1>5 DEF ChatAnswered, CurrentRequest
    <3> QED
      BY <3>1 DEF TypeOK, ChatTyped
  <2> QED
    BY <2>1, <2>2, RowsHoldStill DEF NoneTurnsBack, ChatDoesNotTurnBack
<1>6. CASE AcceptAnswered(c)
  <2>1. CASE c.reply.kind = "ok" /\ ShowTicket(c) /\ UNCHANGED view
    BY <1>6, <2>1, AcceptanceShowsItsEnd DEF AcceptAnswered, AcceptOps
  <2>2. CASE UNCHANGED <<list, chat>>
    BY <2>2, RowsHoldStill DEF NoneTurnsBack, ChatDoesNotTurnBack
  <2>3. CASE CloseTicketChat /\ UNCHANGED list
    BY <2>3, RowsHoldStill, ClosedChat DEF CloseTicketChat, NoneTurnsBack, ChatDoesNotTurnBack
  <2> QED
    BY <1>6, <2>1, <2>2, <2>3 DEF AcceptAnswered, MutationAnswered
<1>7. CASE AssignAnswered(c) /\ calls' = calls \ {c}
  <2>1. c \in InFlight("assign") /\ Handled(c)
    BY <1>1, <1>7 DEF AssignAnswered, InFlight, Handled
  <2> QED
    BY <2>1
<1> QED
  BY <1>1, <1>2, <1>3, <1>4, <1>5, <1>6, <1>7

LEMMA TurnBackStep ==
    ASSUME PageInvariant, [Next]_vars
    PROVE  (\E c \in InFlight("assign") : Handled(c)) \/ NoneTurnsBack
<1>1. CASE Serve \/ UNCHANGED vars \/ \E t \in Tickets : Staff(t)
  <2>1. UNCHANGED <<list, chat>>
    BY <1>1 DEF Serve, Staff, vars, page
  <2> QED
    BY <2>1, RowsHoldStill DEF NoneTurnsBack, ChatDoesNotTurnBack
<1> QED
  BY <1>1, ClicksTurnNothingBack, ArrivalsTurnNothingBack DEF Next

(* A ticket seen as accepted or closed turns pending again only by the     *)
(* late answer of an assignment; no list page, detail, acceptance or       *)
(* refresh does it, however old the answer is.                             *)
THEOREM OnlyAssignmentsTakeBack == Spec => OnlyAssignmentsTurnBack
<1> DEFINE TurnsBack == (\E c \in InFlight("assign") : Handled(c)) \/ NoneTurnsBack
<1>1. PageInvariant /\ [Next]_vars => [TurnsBack]_vars
  BY TurnBackStep
<1> HIDE DEF TurnsBack
<1>2. Spec => [][TurnsBack]_vars
  BY <1>1, InvariantHolds, PTL DEF Spec
<1> QED
  BY <1>2 DEF TurnsBack, OnlyAssignmentsTurnBack

=============================================================================
