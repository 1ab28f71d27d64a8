-------------------------- MODULE TicketStoreProofs --------------------------
(***************************************************************************)
(* StoreInvariant is inductive, so TypeOK, HistoryExplainsTicket and       *)
(* AcceptAnswersStayTrue hold of every instance of TicketStore, and every  *)
(* step of it is a step of TicketLedger or a stutter.                      *)
(*                                                                         *)
(* The proof has one lemma per kind of step.  OwnStepKeeps deals once with *)
(* everything a step of r leaves alone, so that an action of r only has to *)
(* be shown to keep TypeOK and what r itself knows.  The tables change in  *)
(* Commit and in Close only; CommitCases says how.                         *)
(*                                                                         *)
(* StoreInvariant says what a transaction knows of the tables.  For what   *)
(* the handlers answer, AnswersInvariant adds what it knows of its share   *)
(* locks and of the reply it has read so far.  Two facts carry that proof: *)
(* a step of one request leaves the rows that another one relies on alone, *)
(* and a closed ticket does not change.                                    *)
(***************************************************************************)
EXTENDS TicketStoreInvariant, ActivityLogProofs

-----------------------------------------------------------------------------
(* Rows.                                                                   *)

(* The status of a row that satisfies the CHECK constraints determines     *)
(* its shape.                                                              *)
LEMMA RowCases ==
    ASSUME NEW w \in Row
    PROVE  /\ w.status \in {"absent", "pending", "accepted", "closed"}
           /\ w.status = "absent" <=> w = AbsentRow
           /\ w.status = "pending" <=> w = PendingRow
           /\ w.status \in {"absent", "pending"} => w.acceptedBy = None
           /\ w.status = "accepted" => w.acceptedBy \in Users /\ w = AcceptedRow(w.acceptedBy)
           /\ w.status = "closed" => w.acceptedBy \in Users /\ w = ClosedRow(w.acceptedBy)
BY DEF Row, AbsentRow, PendingRow, AcceptedRow, ClosedRow

(* The rows and buffers the actions write are rows and buffers.            *)
LEMMA Shapes ==
    /\ AbsentRow \in Row /\ PendingRow \in Row
    /\ \A u \in Users : AcceptedRow(u) \in Row /\ ClosedRow(u) \in Row
    /\ Unassigned \in Assignment
    /\ NoWrites \in Buffer
    /\ NoReply \in Reply
    /\ \A u \in Users : CreatedEvent(u) \in Event /\ AcceptedEvent(u) \in Event
    /\ \A u \in Users, a, b \in Assignment : AssignmentUpdatedEvent(u, a, b) \in Event
    /\ \A a, b \in Assignment : Removed(a, b) \in Assignment /\ Added(a, b) \in Assignment
<1>1. Unassigned \in Assignment
  BY DEF Unassigned, Assignment
<1>2. AbsentRow \in Row /\ PendingRow \in Row
  BY DEF Row
<1>3. \A u \in Users : AcceptedRow(u) \in Row /\ ClosedRow(u) \in Row
  BY DEF Row
<1>4. NoWrites \in Buffer
  BY <1>1 DEF NoWrites, Buffer
<1>5. NoReply \in Reply
  BY <1>1, <1>2 DEF NoReply, Reply
<1>6. \A u \in Users : CreatedEvent(u) \in Event /\ AcceptedEvent(u) \in Event
  BY DEF CreatedEvent, AcceptedEvent, Event
<1>7. \A u \in Users, a, b \in Assignment : AssignmentUpdatedEvent(u, a, b) \in Event
  BY DEF AssignmentUpdatedEvent, Event
<1>8. \A a, b \in Assignment : Removed(a, b) \in Assignment /\ Added(a, b) \in Assignment
  BY DEF Removed, Added, Assignment
<1> QED
  BY <1>1, <1>2, <1>3, <1>4, <1>5, <1>6, <1>7, <1>8

-----------------------------------------------------------------------------
(* What a step leaves alone.                                               *)

(* r relies on its ticket's committed row: it created it, or locks it.     *)
Relies(r) ==
    \/ InCreation(r)
    \/ pc[r] \in AcceptLocked /\ req[r].op = "accept"
    \/ pc[r] \in AssignLocked /\ req[r].op = "assign"

Unmoved(q) ==
    /\ pc'[q] = pc[q]
    /\ req'[q] = req[q]
    /\ tx'[q] = tx[q]
    /\ reply'[q] = reply[q]
    /\ outcome'[q] = outcome[q]

(* What q knows survives every step that does not move q, does not take    *)
(* its lock away, and does not change the rows it relies on.               *)
LEMMA UnmovedKnows ==
    ASSUME NEW q \in Requests, Knows(q), Unmoved(q),
           issued \subseteq issued',
           \A t \in Tickets : rowLock[t] = q => rowLock'[t] = q,
           Relies(q) => req[q].ticket \in Tickets,
           Relies(q) => /\ row'[req[q].ticket] = row[req[q].ticket]
                        /\ assigned'[req[q].ticket] = assigned[req[q].ticket]
    PROVE  Knows(q)'
<1>1. RequestShape(q)'
  BY DEF Knows, RequestShape, InPhaseOf, Unmoved
<1>2. CreateKnows(q)'
  BY DEF Knows, CreateKnows, InCreation, Unmoved, Relies
<1>3. AcceptKnows(q)'
  BY DEF Knows, AcceptKnows, AcceptsWith, Unmoved, Relies
<1>4. AssignKnows(q)'
  <2>1. CASE pc[q] \in AssignLocked /\ req[q].op = "assign"
    <3>1. /\ row'[req[q].ticket] = row[req[q].ticket]
          /\ assigned'[req[q].ticket] = assigned[req[q].ticket]
          /\ rowLock[req[q].ticket] = q => rowLock'[req[q].ticket] = q
      BY <2>1 DEF Relies
    <3>2. ASSUME NEW event, AssignsWith(q, event)
          PROVE  AssignsWith(q, event)'
      BY <3>1, <3>2 DEF AssignsWith, Unmoved
    <3> QED
      BY <2>1, <3>1, <3>2 DEF Knows, AssignKnows, Unmoved
  <2>2. CASE ~(pc[q] \in AssignLocked /\ req[q].op = "assign")
    BY <2>2 DEF AssignKnows, Unmoved
  <2> QED
    BY <2>1, <2>2
<1>5. DetailKnows(q)'
  BY DEF Knows, DetailKnows, Unmoved
<1> QED
  BY <1>1, <1>2, <1>3, <1>4, <1>5 DEF Knows

(* A request that relies on a ticket names one.                            *)
LEMMA ReliesOnTicket ==
    ASSUME StoreInvariant, NEW r \in Requests, Relies(r)
    PROVE  /\ pc[r] \notin {"idle", "done"}
           /\ req[r].ticket \in Tickets
BY DEF StoreInvariant, TypeOK, Knows, RequestShape, CreateKnows, InCreation, Relies,
       AcceptLocked, AssignLocked, ReadBackPhases

(* A step of r that changes none of the tables.                            *)
OwnStep(r) ==
    /\ row' = row /\ assigned' = assigned /\ activity' = activity
    /\ \A q \in Requests \ {r} : Unmoved(q)
    /\ issued \subseteq issued'
    /\ \A t \in Tickets : rowLock[t] \notin {r, None} => rowLock'[t] = rowLock[t]

(* Such a step keeps the invariant if it keeps the types, what r knows,    *)
(* the freshness of an id r takes, and the truth of an answer it gives.    *)
LEMMA OwnStepKeeps ==
    ASSUME StoreInvariant, NEW r \in Requests, OwnStep(r),
           TypeOK', Knows(r)', AnswerHolds(r)',
           InCreation(r)' => \/ InCreation(r) /\ req'[r].ticket = req[r].ticket
                             \/ req'[r].ticket \notin issued
    PROVE  StoreInvariant'
<1>1. ASSUME NEW q \in Requests
      PROVE  Knows(q)'
  <2>1. CASE q = r
    BY <2>1
  <2>2. CASE q # r
    <3>1. \A t \in Tickets : rowLock[t] = q => rowLock'[t] = q
      BY <2>2, IdsAreDistinct DEF OwnStep
    <3> QED
      BY <2>2, <3>1, UnmovedKnows, ReliesOnTicket DEF OwnStep, StoreInvariant
  <2> QED
    BY <2>1, <2>2
<1>2. IdsAreFresh'
  <2>1. \A t \in Tickets : row'[t] # AbsentRow => t \in issued'
    BY DEF OwnStep, StoreInvariant, IdsAreFresh
  <2>2. ASSUME NEW q \in Requests, NEW s \in Requests,
               InCreation(q)', InCreation(s)', req'[q].ticket = req'[s].ticket
        PROVE  q = s
    <3>1. \A u \in Requests \ {r} :
             InCreation(u)' => /\ InCreation(u)
                               /\ req'[u].ticket = req[u].ticket
                               /\ req[u].ticket \in issued
      BY DEF OwnStep, Unmoved, InCreation, StoreInvariant, Knows, CreateKnows
    <3>2. InCreation(r) => req[r].ticket \in issued
      BY DEF StoreInvariant, Knows, CreateKnows
    <3> QED
      BY <2>2, <3>1, <3>2 DEF StoreInvariant, IdsAreFresh
  <2> QED
    BY <2>1, <2>2 DEF IdsAreFresh
<1>3. UpdatesHaveLatest' /\ HistoryExplainsTicket'
  BY DEF OwnStep, StoreInvariant, UpdatesHaveLatest, HistoryExplainsTicket
<1>4. AcceptAnswersStayTrue'
  BY DEF OwnStep, Unmoved, StoreInvariant, AcceptAnswersStayTrue, AnswerHolds
<1> QED
  BY <1>1, <1>2, <1>3, <1>4 DEF StoreInvariant

-----------------------------------------------------------------------------
(* Failing.                                                                *)

(* Every early return keeps the invariant: nothing was committed, and the  *)
(* answer makes no promise, or one that holds already.                     *)
LEMMA FailKeeps ==
    ASSUME StoreInvariant, NEW r \in Requests, pc[r] \notin {"idle", "done"},
           NEW answer \in Outcomes \ {"none", "ok"}, Fail(r, answer),
           answer = "already_accepted" /\ req[r].op = "accept" =>
              row[req[r].ticket].acceptedBy \notin {None, req[r].actor}
    PROVE  StoreInvariant'
<1>1. /\ row' = row /\ assigned' = assigned /\ activity' = activity
      /\ active' = active /\ issued' = issued /\ req' = req
      /\ pc' = [pc EXCEPT ![r] = "done"]
      /\ outcome' = [outcome EXCEPT ![r] = answer]
      /\ reply' = [reply EXCEPT ![r] = NoReply]
      /\ tx' = [tx EXCEPT ![r] = NoWrites]
      /\ rowLock' = [t \in Tickets |-> IF rowLock[t] = r THEN None ELSE rowLock[t]]
      /\ shareLocks' = [x \in Targets |-> shareLocks[x] \ {r}]
  BY DEF Fail, Finish, ReleaseLocks, tables
<1>2. TypeOK
  BY DEF StoreInvariant
<1>3. TypeOK'
  BY <1>1, <1>2, Shapes DEF TypeOK, Phases
<1>4. OwnStep(r)
  BY <1>1, <1>2 DEF OwnStep, Unmoved, TypeOK
<1>5. pc'[r] = "done" /\ tx'[r] = NoWrites /\ outcome'[r] = answer /\ req'[r] = req[r]
  BY <1>1, <1>2 DEF TypeOK
<1>6. Knows(r)'
  <2>1. RequestShape(r)
    BY DEF StoreInvariant, Knows
  <2>2. RequestShape(r)'
    BY <1>5, <2>1 DEF RequestShape
  <2> QED
    BY <1>5, <2>2 DEF Knows, CreateKnows, InCreation, AcceptKnows, AssignKnows, DetailKnows,
                      AcceptLocked, AssignLocked, ReadBackPhases
<1>7. AnswerHolds(r)'
  BY <1>1, <1>5 DEF AnswerHolds
<1>8. ~InCreation(r)'
  BY <1>5 DEF InCreation
<1> QED
  BY <1>3, <1>4, <1>6, <1>7, <1>8, OwnStepKeeps

(* The actions that only fail.                                             *)
LEMMA FailingStepsKeep ==
    ASSUME StoreInvariant, NEW r \in Requests,
           \/ CreateWithoutDepartment(r) \/ CreateWithoutLocation(r)
           \/ TicketMissing(r) \/ RefuseAcceptance(r) \/ RefuseAssignment(r)
           \/ DetailMissing(r) \/ Abort(r)
    PROVE  StoreInvariant'
<1>1. CASE \/ CreateWithoutDepartment(r) \/ CreateWithoutLocation(r)
           \/ TicketMissing(r) \/ RefuseAssignment(r)
           \/ DetailMissing(r) \/ Abort(r)
  <2>1. /\ pc[r] \notin {"idle", "done"}
        /\ \E answer \in Outcomes \ {"none", "ok", "already_accepted"} : Fail(r, answer)
    BY <1>1 DEF CreateWithoutDepartment, CreateWithoutLocation, TicketMissing,
                RefuseAssignment, DetailMissing, Abort, At, LocksRow, Outcomes
  <2> QED
    BY <2>1, FailKeeps
<1>2. CASE RefuseAcceptance(r)
  <2>1. pc[r] \notin {"idle", "done"} /\ req[r].op = "accept" /\ req[r].ticket \in Tickets
    BY <1>2 DEF RefuseAcceptance, LocksRow, At, StoreInvariant, Knows, RequestShape
  <2>2. \/ /\ Fail(r, "already_accepted")
           /\ row[req[r].ticket].status = "accepted"
           /\ row[req[r].ticket].acceptedBy # req[r].actor
        \/ Fail(r, "closed")
    BY <1>2 DEF RefuseAcceptance
  <2>3. row[req[r].ticket] \in Row
    BY <2>1 DEF StoreInvariant, TypeOK
  <2>4. row[req[r].ticket].status = "accepted" => row[req[r].ticket].acceptedBy # None
    BY <2>3, RowCases, IdsAreDistinct DEF Targets
  <2>5. {"already_accepted", "closed"} \subseteq Outcomes \ {"none", "ok"}
    BY DEF Outcomes
  <2> QED
    BY <2>1, <2>2, <2>4, <2>5, FailKeeps
<1> QED
  BY <1>1, <1>2

-----------------------------------------------------------------------------
(* Advancing inside a transaction.                                         *)

(* r goes on to its next statement, with w buffered and v read.            *)
Advance(r, phase, w, v) ==
    /\ row' = row /\ assigned' = assigned /\ activity' = activity
    /\ active' = active /\ issued' = issued
    /\ pc' = [pc EXCEPT ![r] = phase]
    /\ req' = req
    /\ tx' = [tx EXCEPT ![r] = w]
    /\ reply' = [reply EXCEPT ![r] = v]
    /\ outcome' = outcome

(* Locks are only taken, and only free ones.                               *)
LocksTaken(r) ==
    /\ rowLock' \in [Tickets -> Requests \cup {None}]
    /\ shareLocks' \in [Targets -> SUBSET Requests]
    /\ \A t \in Tickets : rowLock[t] \notin {r, None} => rowLock'[t] = rowLock[t]

LEMMA AdvanceKeeps ==
    ASSUME StoreInvariant, NEW r \in Requests, pc[r] \notin {"idle", "done"},
           NEW phase \in Phases \ {"idle", "done"}, NEW w \in Buffer, NEW v \in Reply,
           Advance(r, phase, w, v), LocksTaken(r),
           Knows(r)', InCreation(r)' => InCreation(r)
    PROVE  StoreInvariant'
<1>1. TypeOK
  BY DEF StoreInvariant
<1>2. TypeOK'
  BY <1>1 DEF TypeOK, Advance, LocksTaken
<1>3. OwnStep(r)
  BY <1>1 DEF OwnStep, Unmoved, TypeOK, Advance, LocksTaken
<1>4. AnswerHolds(r)'
  BY DEF StoreInvariant, Knows, RequestShape, AnswerHolds, Advance
<1>5. req'[r].ticket = req[r].ticket
  BY DEF Advance
<1> QED
  BY <1>2, <1>3, <1>4, <1>5, OwnStepKeeps

(* What the two ways of locking, and locking nothing, do to the locks.     *)
LEMMA LockingTakes ==
    ASSUME StoreInvariant, NEW r \in Requests,
           \/ UNCHANGED locks
           \/ \E x \in Targets : LockShared(r, x)
           \/ \E t \in Tickets : LockRow(r, t)
    PROVE  LocksTaken(r)
<1>1. TypeOK
  BY DEF StoreInvariant
<1>2. CASE UNCHANGED locks
  BY <1>1, <1>2 DEF locks, TypeOK, LocksTaken
<1>3. CASE \E x \in Targets : LockShared(r, x)
  BY <1>1, <1>3 DEF LockShared, TypeOK, LocksTaken
<1>4. CASE \E t \in Tickets : LockRow(r, t)
  BY <1>1, <1>4 DEF LockRow, RowLockFree, TypeOK, LocksTaken
<1> QED
  BY <1>2, <1>3, <1>4

(* What is known of a request that is between its arrival and its answer.  *)
LEMMA RunningRequest ==
    ASSUME StoreInvariant, NEW r \in Requests, pc[r] \notin {"idle", "done"}
    PROVE  /\ req[r] \in Request /\ tx[r] \in Buffer /\ reply[r] \in Reply
           /\ outcome[r] = "none"
           /\ InPhaseOf(r)
           /\ req[r].actor \in Users
           /\ req[r].op # "create" =>
                /\ req[r].ticket \in Tickets
                /\ row[req[r].ticket] \in Row
                /\ assigned[req[r].ticket] \in Assignment
           /\ req[r].op = "create" => req[r].department \in Departments
           /\ Knows(r)
BY DEF StoreInvariant, TypeOK, Knows, RequestShape, Request

-----------------------------------------------------------------------------
(* Arrival.                                                                *)

LEMMA ArriveKeeps ==
    ASSUME StoreInvariant, NEW r \in Requests, Arrive(r)
    PROVE  StoreInvariant'
<1>1. PICK first \in {"begun", "read_row"}, request \in Request :
         /\ Submit(r, first, request)
         /\ request.op # "create" => request.ticket \in Tickets
         /\ request.op = "create" => request.department \in Departments
         /\ (first = "read_row") <=> (request.op = "detail")
         /\ request.op \in Operations
  <2>1. Unassigned \in Assignment
    BY Shapes
  <2>2. CASE SubmitCreate(r)
    BY <2>1, <2>2 DEF SubmitCreate, Request, Operations
  <2>3. CASE SubmitAccept(r)
    BY <2>1, <2>3 DEF SubmitAccept, Request, Operations
  <2>4. CASE SubmitAssign(r)
    BY <2>4 DEF SubmitAssign, Request, Operations
  <2>5. CASE SubmitDetail(r)
    BY <2>1, <2>5 DEF SubmitDetail, Request, Operations
  <2> QED
    BY <2>2, <2>3, <2>4, <2>5 DEF Arrive
<1>2. /\ row' = row /\ assigned' = assigned /\ activity' = activity
      /\ active' = active /\ issued' = issued /\ rowLock' = rowLock /\ shareLocks' = shareLocks
      /\ tx' = tx /\ reply' = reply /\ outcome' = outcome
      /\ pc' = [pc EXCEPT ![r] = first]
      /\ req' = [req EXCEPT ![r] = request]
      /\ pc[r] = "idle"
  BY <1>1 DEF Submit, Goto, tables, locks
<1>3. TypeOK
  BY DEF StoreInvariant
<1>4. TypeOK'
  BY <1>2, <1>3 DEF TypeOK, Phases
<1>5. OwnStep(r)
  BY <1>2, <1>3 DEF OwnStep, Unmoved, TypeOK
<1>6. /\ pc'[r] = first /\ req'[r] = request
      /\ tx'[r] = NoWrites /\ outcome'[r] = "none"
  BY <1>2, <1>3 DEF TypeOK, StoreInvariant, Knows, RequestShape
<1>7. Knows(r)'
  BY <1>1, <1>6 DEF Knows, RequestShape, InPhaseOf, CreatePhases, CreateKnows, InCreation,
        AcceptKnows, AssignKnows, DetailKnows, AcceptLocked, AssignLocked, ReadBackPhases,
        Operations
<1>8. ~InCreation(r)' /\ AnswerHolds(r)'
  BY <1>6 DEF InCreation, AnswerHolds
<1> QED
  BY <1>4, <1>5, <1>7, <1>8, OwnStepKeeps

-----------------------------------------------------------------------------
(* The statements of Create.                                               *)

LEMMA LockingTargetsKeeps ==
    ASSUME StoreInvariant, NEW r \in Requests, LockDepartment(r) \/ LockLocation(r)
    PROVE  StoreInvariant'
<1>1. PICK phase \in {"insert_ticket", "lock_location"} :
         /\ pc[r] \in {"begun", "lock_location"} /\ req[r].op = "create"
         /\ Advance(r, phase, tx[r], reply[r])
         /\ phase = "lock_location" => req[r].location # None
  BY DEF StoreInvariant, TypeOK, LockDepartment, LockLocation, At, Goto, Advance, LockShared,
         tables
<1>2. /\ req[r] \in Request /\ tx[r] \in Buffer /\ reply[r] \in Reply
      /\ req[r].department \in Departments
      /\ Knows(r)
  BY <1>1, RunningRequest
<1>3. LocksTaken(r)
  <2>1. CASE LockDepartment(r)
    BY <1>2, <2>1, LockingTakes DEF LockDepartment, Targets
  <2>2. CASE LockLocation(r)
    BY <1>2, <2>2, LockingTakes DEF LockLocation, At, Targets, Knows, RequestShape
  <2> QED
    BY <2>1, <2>2
<1>4. /\ pc'[r] = phase /\ tx'[r] = tx[r] /\ req'[r] = req[r] /\ outcome'[r] = outcome[r]
  BY <1>1 DEF Advance, StoreInvariant, TypeOK
<1>5. Knows(r)'
  BY <1>1, <1>2, <1>4 DEF Knows, RequestShape, InPhaseOf, CreatePhases, CreateKnows,
        InCreation, AcceptKnows, AssignKnows, DetailKnows, Request
<1>6. ~InCreation(r)'
  BY <1>4 DEF InCreation
<1>7. phase \in Phases \ {"idle", "done"}
  BY DEF Phases
<1> QED
  BY <1>1, <1>2, <1>3, <1>5, <1>6, <1>7, AdvanceKeeps

(* The inserted row takes an id nobody was given before.                   *)
LEMMA InsertTicketKeeps ==
    ASSUME StoreInvariant, NEW r \in Requests, InsertTicket(r)
    PROVE  StoreInvariant'
<1>1. PICK t \in Tickets \ issued :
         /\ issued' = issued \cup {t}
         /\ req' = [req EXCEPT ![r].ticket = t]
  BY DEF InsertTicket
<1>2. /\ row' = row /\ assigned' = assigned /\ activity' = activity
      /\ active' = active /\ rowLock' = rowLock /\ shareLocks' = shareLocks
      /\ outcome' = outcome
      /\ pc' = [pc EXCEPT ![r] = "record_creation"]
      /\ tx' = [tx EXCEPT ![r].row = PendingRow]
      /\ reply' = [reply EXCEPT ![r] = [row |-> PendingRow, assignment |-> Unassigned]]
      /\ pc[r] = "insert_ticket" /\ req[r].op = "create"
  BY DEF InsertTicket, At, Goto, tables, locks
<1>3. TypeOK /\ req[r] \in Request /\ tx[r] = NoWrites /\ Knows(r)
      /\ req[r].department \in Departments /\ outcome[r] = "none"
  BY <1>2, RunningRequest DEF StoreInvariant, Knows, CreateKnows
<1>4. /\ pc'[r] = "record_creation"
      /\ req'[r] = [req[r] EXCEPT !.ticket = t]
      /\ tx'[r] = [NoWrites EXCEPT !.row = PendingRow]
      /\ reply'[r] = [row |-> PendingRow, assignment |-> Unassigned]
      /\ outcome'[r] = "none"
  BY <1>1, <1>2, <1>3 DEF TypeOK
<1>5. req'[r] \in Request /\ tx'[r] \in Buffer /\ reply'[r] \in Reply
  <2>1. [req[r] EXCEPT !.ticket = t] \in Request
    BY <1>3 DEF Request
  <2>2. [NoWrites EXCEPT !.row = PendingRow] \in Buffer
    BY Shapes DEF Buffer
  <2>3. [row |-> PendingRow, assignment |-> Unassigned] \in Reply
    BY Shapes DEF Reply
  <2> QED
    BY <1>4, <2>1, <2>2, <2>3
<1>6. TypeOK'
  BY <1>1, <1>2, <1>3, <1>4, <1>5 DEF TypeOK, Phases
<1>7. OwnStep(r)
  BY <1>1, <1>2, <1>3 DEF OwnStep, Unmoved, TypeOK
<1>8. /\ req'[r].op = "create" /\ req'[r].department = req[r].department
      /\ req'[r].ticket = t
  BY <1>2, <1>3, <1>4 DEF Request
<1>9. row[t] = AbsentRow
  BY DEF StoreInvariant, IdsAreFresh
<1>10. tx'[r] = [NoWrites EXCEPT !.row = PendingRow,
                    !.event = IF pc'[r] = "commit" THEN CreatedEvent(req'[r].actor) ELSE None]
  BY <1>4 DEF NoWrites
<1>11. Knows(r)'
  BY <1>1, <1>2, <1>3, <1>4, <1>5, <1>8, <1>9, <1>10
     DEF Knows, RequestShape, InPhaseOf, CreatePhases, CreateKnows, InCreation, AcceptKnows,
         AssignKnows, DetailKnows
<1>12. AnswerHolds(r)'
  BY <1>4 DEF AnswerHolds
<1> QED
  BY <1>6, <1>7, <1>8, <1>11, <1>12, OwnStepKeeps

LEMMA RecordCreationKeeps ==
    ASSUME StoreInvariant, NEW r \in Requests, RecordCreation(r)
    PROVE  StoreInvariant'
<1> DEFINE w == [tx[r] EXCEPT !.event = CreatedEvent(req[r].actor)]
<1>1. /\ pc[r] = "record_creation" /\ req[r].op = "create"
      /\ Advance(r, "commit", w, reply[r])
      /\ LocksTaken(r)
  BY LockingTakes DEF StoreInvariant, TypeOK, RecordCreation, At, Goto, Advance, tables
<1>2. req[r] \in Request /\ reply[r] \in Reply /\ tx[r] \in Buffer /\ Knows(r)
  BY <1>1, RunningRequest
<1>3. w \in Buffer
  BY <1>2, Shapes DEF Buffer, Request
<1>4. /\ pc'[r] = "commit" /\ tx'[r] = w /\ req'[r] = req[r] /\ outcome'[r] = outcome[r]
      /\ reply'[r] = reply[r] /\ issued' = issued /\ row' = row
  BY <1>1 DEF Advance, StoreInvariant, TypeOK
<1>5. InCreation(r)
  BY <1>1 DEF InCreation
<1>6. w = [NoWrites EXCEPT !.row = PendingRow, !.event = CreatedEvent(req[r].actor)]
  BY <1>1, <1>2, <1>5 DEF Knows, CreateKnows, NoWrites
<1> HIDE DEF w
<1>7. Knows(r)'
  BY <1>1, <1>2, <1>4, <1>5, <1>6
     DEF Knows, RequestShape, InPhaseOf, CreatePhases, CreateKnows, InCreation, AcceptKnows,
         AssignKnows, DetailKnows
<1> QED
  BY <1>1, <1>2, <1>3, <1>5, <1>7, AdvanceKeeps DEF Phases

-----------------------------------------------------------------------------
(* The statements of Accept.                                               *)

LEMMA LockingForAcceptKeeps ==
    ASSUME StoreInvariant, NEW r \in Requests, LockPending(r) \/ ReplayAcceptance(r)
    PROVE  StoreInvariant'
<1>1. PICK phase \in {"claim", "read_row"} :
         /\ pc[r] = "begun" /\ req[r].op = "accept"
         /\ Advance(r, phase, tx[r], reply[r])
         /\ LockRow(r, req[r].ticket)
         /\ phase = "claim" => row[req[r].ticket].status = "pending"
         /\ phase = "read_row" => row[req[r].ticket] = AcceptedRow(req[r].actor)
  BY DEF StoreInvariant, TypeOK, LockPending, ReplayAcceptance, LocksRow, At, Goto, Advance,
         LockRow, tables
<1>2. /\ req[r] \in Request /\ tx[r] \in Buffer /\ reply[r] \in Reply
      /\ req[r].ticket \in Tickets /\ row[req[r].ticket] \in Row
      /\ Knows(r)
  BY <1>1, RunningRequest
<1>3. LocksTaken(r)
  BY <1>1, <1>2, LockingTakes
<1>4. /\ pc'[r] = phase /\ tx'[r] = tx[r] /\ req'[r] = req[r] /\ outcome'[r] = outcome[r]
      /\ row' = row /\ rowLock'[req[r].ticket] = r
  BY <1>1, <1>2 DEF Advance, LockRow, StoreInvariant, TypeOK
<1>5. tx[r] = NoWrites
  BY <1>1, <1>2 DEF Knows, RequestShape
<1>6. phase = "claim" => row[req[r].ticket] = PendingRow
  BY <1>1, <1>2, RowCases
<1>7. Knows(r)'
  BY <1>1, <1>2, <1>4, <1>5, <1>6
     DEF Knows, RequestShape, InPhaseOf, CreateKnows, InCreation, AcceptKnows,
         AssignKnows, DetailKnows, AcceptLocked, ReadBackPhases
<1>8. ~InCreation(r)'
  BY <1>1, <1>4 DEF InCreation
<1>9. phase \in Phases \ {"idle", "done"}
  BY DEF Phases
<1> QED
  BY <1>1, <1>2, <1>3, <1>7, <1>8, <1>9, AdvanceKeeps

(* The two writes of Accept, on a row that is still the locked one.        *)
LEMMA ClaimTicketKeeps ==
    ASSUME StoreInvariant, NEW r \in Requests, ClaimTicket(r)
    PROVE  StoreInvariant'
<1> DEFINE w == [tx[r] EXCEPT !.row = AcceptedRow(req[r].actor)]
<1>1. /\ pc[r] = "claim" /\ req[r].op = "accept"
      /\ Advance(r, "record_acceptance", w, reply[r])
      /\ LocksTaken(r)
  BY LockingTakes DEF StoreInvariant, TypeOK, ClaimTicket, At, Goto, Advance, tables
<1>2. req[r] \in Request /\ reply[r] \in Reply /\ tx[r] \in Buffer /\ Knows(r)
  BY <1>1, RunningRequest
<1>3. w \in Buffer
  BY <1>2, Shapes DEF Buffer, Request
<1>4. /\ pc'[r] = "record_acceptance" /\ tx'[r] = w /\ req'[r] = req[r]
      /\ outcome'[r] = outcome[r] /\ row' = row /\ rowLock' = rowLock
  BY <1>1 DEF Advance, StoreInvariant, TypeOK, ClaimTicket, locks
<1>5. /\ rowLock[req[r].ticket] = r /\ row[req[r].ticket] = PendingRow /\ tx[r] = NoWrites
  BY <1>1, <1>2 DEF Knows, AcceptKnows, AcceptLocked
<1>6. w = [NoWrites EXCEPT !.row = AcceptedRow(req[r].actor), !.event = None]
  <2>1. w = [NoWrites EXCEPT !.row = AcceptedRow(req[r].actor)]
    BY <1>5
  <2>2. NoWrites.event = None
    BY DEF NoWrites
  <2> QED
    BY <2>1, <2>2 DEF NoWrites
<1> HIDE DEF w
<1>7. Knows(r)'
  BY <1>1, <1>2, <1>4, <1>5, <1>6
     DEF Knows, RequestShape, InPhaseOf, CreateKnows, InCreation, AcceptKnows, AcceptsWith,
         AssignKnows, DetailKnows, AcceptLocked, ReadBackPhases
<1>8. ~InCreation(r)'
  BY <1>4 DEF InCreation
<1> QED
  BY <1>1, <1>2, <1>3, <1>7, <1>8, AdvanceKeeps DEF Phases

LEMMA RecordAcceptanceKeeps ==
    ASSUME StoreInvariant, NEW r \in Requests, RecordAcceptance(r)
    PROVE  StoreInvariant'
<1> DEFINE w == [tx[r] EXCEPT !.event = AcceptedEvent(req[r].actor)]
<1>1. /\ pc[r] = "record_acceptance" /\ req[r].op = "accept"
      /\ Advance(r, "read_row", w, reply[r])
      /\ LocksTaken(r)
  BY LockingTakes DEF StoreInvariant, TypeOK, RecordAcceptance, At, Goto, Advance, tables
<1>2. req[r] \in Request /\ reply[r] \in Reply /\ tx[r] \in Buffer /\ Knows(r)
  BY <1>1, RunningRequest
<1>3. w \in Buffer
  BY <1>2, Shapes DEF Buffer, Request
<1>4. /\ pc'[r] = "read_row" /\ tx'[r] = w /\ req'[r] = req[r]
      /\ outcome'[r] = outcome[r] /\ row' = row /\ rowLock' = rowLock
  BY <1>1 DEF Advance, StoreInvariant, TypeOK, RecordAcceptance, locks
<1>5. rowLock[req[r].ticket] = r /\ AcceptsWith(r, None)
  BY <1>1, <1>2 DEF Knows, AcceptKnows, AcceptLocked
<1>6. w = [NoWrites EXCEPT !.row = AcceptedRow(req[r].actor),
                           !.event = AcceptedEvent(req[r].actor)]
  BY <1>5 DEF AcceptsWith, NoWrites
<1>7. row[req[r].ticket] = PendingRow
  BY <1>5 DEF AcceptsWith
<1> HIDE DEF w
<1>8. Knows(r)'
  BY <1>1, <1>2, <1>4, <1>5, <1>6, <1>7
     DEF Knows, RequestShape, InPhaseOf, CreateKnows, InCreation, AcceptKnows, AcceptsWith,
         AssignKnows, DetailKnows, AcceptLocked, ReadBackPhases
<1>9. ~InCreation(r)'
  BY <1>4 DEF InCreation
<1> QED
  BY <1>1, <1>2, <1>3, <1>8, <1>9, AdvanceKeeps DEF Phases

-----------------------------------------------------------------------------
(* The statements of Assign.                                               *)

LEMMA LockForAssignmentKeeps ==
    ASSUME StoreInvariant, NEW r \in Requests, LockForAssignment(r)
    PROVE  StoreInvariant'
<1>1. /\ pc[r] = "begun" /\ req[r].op = "assign"
      /\ row[req[r].ticket].status \in {"pending", "accepted"}
      /\ Advance(r, "load", tx[r], reply[r])
      /\ LockRow(r, req[r].ticket)
  BY DEF StoreInvariant, TypeOK, LockForAssignment, LocksRow, At, Goto, Advance, LockRow, tables
<1>2. /\ req[r] \in Request /\ tx[r] \in Buffer /\ reply[r] \in Reply
      /\ req[r].ticket \in Tickets /\ Knows(r)
  BY <1>1, RunningRequest
<1>3. LocksTaken(r)
  BY <1>1, <1>2, LockingTakes
<1>4. /\ pc'[r] = "load" /\ tx'[r] = tx[r] /\ req'[r] = req[r] /\ outcome'[r] = outcome[r]
      /\ row' = row /\ rowLock'[req[r].ticket] = r
  BY <1>1, <1>2 DEF Advance, LockRow, StoreInvariant, TypeOK
<1>5. tx[r] = NoWrites
  BY <1>1, <1>2 DEF Knows, RequestShape
<1>6. Knows(r)'
  BY <1>1, <1>2, <1>4, <1>5
     DEF Knows, RequestShape, InPhaseOf, CreateKnows, InCreation, AcceptKnows,
         AssignKnows, DetailKnows, AssignLocked, ReadBackPhases
<1>7. ~InCreation(r)'
  BY <1>4 DEF InCreation
<1> QED
  BY <1>1, <1>2, <1>3, <1>6, <1>7, AdvanceKeeps DEF Phases

(* Loading and validating only read; what is loaded is what is locked.     *)
LEMMA LoadAssignmentKeeps ==
    ASSUME StoreInvariant, NEW r \in Requests, LoadAssignment(r)
    PROVE  StoreInvariant'
<1> DEFINE v == [reply[r] EXCEPT !.assignment = assigned[req[r].ticket]]
<1>1. /\ pc[r] = "load" /\ req[r].op = "assign"
      /\ Advance(r, "validate_departments", tx[r], v)
      /\ LocksTaken(r)
  BY LockingTakes DEF StoreInvariant, TypeOK, LoadAssignment, At, Goto, Advance, tables
<1>2. /\ req[r] \in Request /\ tx[r] \in Buffer /\ reply[r] \in Reply
      /\ assigned[req[r].ticket] \in Assignment /\ Knows(r)
  BY <1>1, RunningRequest
<1>3. v \in Reply /\ v.assignment = assigned[req[r].ticket]
  BY <1>2 DEF Reply
<1>4. /\ pc'[r] = "validate_departments" /\ tx'[r] = tx[r] /\ req'[r] = req[r]
      /\ outcome'[r] = outcome[r] /\ row' = row /\ assigned' = assigned /\ rowLock' = rowLock
      /\ reply'[r] = v
  BY <1>1 DEF Advance, StoreInvariant, TypeOK, LoadAssignment, locks
<1> HIDE DEF v
<1>5. Knows(r)'
  BY <1>1, <1>2, <1>3, <1>4
     DEF Knows, RequestShape, InPhaseOf, CreateKnows, InCreation, AcceptKnows,
         AssignKnows, DetailKnows, AssignLocked, ReadBackPhases
<1>6. ~InCreation(r)'
  BY <1>4 DEF InCreation
<1> QED
  BY <1>1, <1>2, <1>3, <1>5, <1>6, AdvanceKeeps DEF Phases

LEMMA ValidationKeeps ==
    ASSUME StoreInvariant, NEW r \in Requests, ValidateDepartments(r) \/ ValidateUsers(r)
    PROVE  StoreInvariant'
<1>1. CASE Fail(r, "department_unavailable") \/ Fail(r, "user_unavailable")
  <2>1. pc[r] \notin {"idle", "done"}
    BY DEF ValidateDepartments, ValidateUsers, At
  <2>2. {"department_unavailable", "user_unavailable"} \subseteq Outcomes \ {"none", "ok"}
    BY DEF Outcomes
  <2> QED
    BY <1>1, <2>1, <2>2, FailKeeps
<1>2. CASE ~(Fail(r, "department_unavailable") \/ Fail(r, "user_unavailable"))
  <2>1. PICK phase \in {"validate_users", "read_row", "replace"} :
           /\ pc[r] \in {"validate_departments", "validate_users"} /\ req[r].op = "assign"
           /\ Advance(r, phase, tx[r], reply[r])
           /\ phase = "replace" => reply[r].assignment # req[r].assignment
           /\ phase = "read_row" => reply[r].assignment = req[r].assignment
           /\ UNCHANGED locks
    BY <1>2 DEF StoreInvariant, TypeOK, ValidateDepartments, ValidateUsers, At, Goto, Advance,
                tables
  <2>2. /\ req[r] \in Request /\ tx[r] \in Buffer /\ reply[r] \in Reply /\ Knows(r)
    BY <2>1, RunningRequest
  <2>3. LocksTaken(r)
    BY <2>1, LockingTakes
  <2>4. /\ pc'[r] = phase /\ tx'[r] = tx[r] /\ req'[r] = req[r]
        /\ outcome'[r] = outcome[r] /\ row' = row /\ assigned' = assigned /\ rowLock' = rowLock
        /\ reply'[r] = reply[r]
    BY <2>1 DEF Advance, StoreInvariant, TypeOK, locks
  <2>5. Knows(r)'
    BY <2>1, <2>2, <2>4
       DEF Knows, RequestShape, InPhaseOf, CreateKnows, InCreation, AcceptKnows,
           AssignKnows, DetailKnows, AssignLocked, ReadBackPhases
  <2>6. ~InCreation(r)'
    BY <2>4 DEF InCreation
  <2>7. phase \in Phases \ {"idle", "done"}
    BY DEF Phases
  <2> QED
    BY <2>1, <2>2, <2>3, <2>5, <2>6, <2>7, AdvanceKeeps
<1> QED
  BY <1>1, <1>2

LEMMA ReplaceAssignmentKeeps ==
    ASSUME StoreInvariant, NEW r \in Requests, ReplaceAssignment(r)
    PROVE  StoreInvariant'
<1> DEFINE w == [tx[r] EXCEPT !.removed = Removed(reply[r].assignment, req[r].assignment),
                              !.added   = Added(reply[r].assignment, req[r].assignment)]
<1>1. /\ pc[r] = "replace" /\ req[r].op = "assign"
      /\ UNCHANGED locks
  BY DEF ReplaceAssignment, At
<1>2. Advance(r, "record_assignment", w, reply[r])
  BY DEF StoreInvariant, TypeOK, ReplaceAssignment, AddedTargets, Goto, Advance, tables
<1>3. /\ req[r] \in Request /\ tx[r] \in Buffer /\ reply[r] \in Reply /\ Knows(r)
  BY <1>1, RunningRequest
<1>4. w \in Buffer
  <2>1. reply[r].assignment \in Assignment /\ req[r].assignment \in Assignment
    BY <1>3 DEF Request, Reply
  <2> QED
    BY <1>3, <2>1, Shapes DEF Buffer
<1>5. /\ pc'[r] = "record_assignment" /\ tx'[r] = w /\ req'[r] = req[r]
      /\ outcome'[r] = outcome[r] /\ row' = row /\ assigned' = assigned /\ rowLock' = rowLock
      /\ reply'[r] = reply[r]
  BY <1>1, <1>2 DEF Advance, StoreInvariant, TypeOK, locks
<1>6. /\ rowLock[req[r].ticket] = r
      /\ row[req[r].ticket].status \in {"pending", "accepted"}
      /\ tx[r] = NoWrites
      /\ reply[r].assignment = assigned[req[r].ticket]
      /\ assigned[req[r].ticket] # req[r].assignment
  BY <1>1, <1>3 DEF Knows, AssignKnows, AssignLocked
<1>7. w = [NoWrites EXCEPT !.removed = Removed(assigned[req[r].ticket], req[r].assignment),
                           !.added   = Added(assigned[req[r].ticket], req[r].assignment),
                           !.event   = None]
  <2>1. w = [NoWrites EXCEPT !.removed = Removed(assigned[req[r].ticket], req[r].assignment),
                             !.added   = Added(assigned[req[r].ticket], req[r].assignment)]
    BY <1>6
  <2> QED
    BY <2>1 DEF NoWrites
<1> HIDE DEF w
<1>8. AssignsWith(r, None)'
  BY <1>5, <1>6, <1>7 DEF AssignsWith
<1>9. Knows(r)'
  BY <1>1, <1>3, <1>5, <1>6, <1>8
     DEF Knows, RequestShape, InPhaseOf, CreateKnows, InCreation, AcceptKnows,
         AssignKnows, DetailKnows, AssignLocked, ReadBackPhases
<1>10. ~InCreation(r)'
  BY <1>5 DEF InCreation
<1>11. LocksTaken(r)
  BY <1>1, LockingTakes
<1> QED
  BY <1>1, <1>2, <1>3, <1>4, <1>9, <1>10, <1>11, AdvanceKeeps DEF Phases

LEMMA RecordAssignmentKeeps ==
    ASSUME StoreInvariant, NEW r \in Requests, RecordAssignment(r)
    PROVE  StoreInvariant'
<1> DEFINE event == AssignmentUpdatedEvent(req[r].actor, reply[r].assignment, req[r].assignment)
           w == [tx[r] EXCEPT !.event = event]
<1>1. /\ pc[r] = "record_assignment" /\ req[r].op = "assign"
      /\ UNCHANGED locks
  BY DEF RecordAssignment, At
<1>2. Advance(r, "read_row", w, reply[r])
  BY DEF StoreInvariant, TypeOK, RecordAssignment, Goto, Advance, tables
<1>3. /\ req[r] \in Request /\ tx[r] \in Buffer /\ reply[r] \in Reply /\ Knows(r)
  BY <1>1, RunningRequest
<1>4. w \in Buffer
  <2>1. /\ reply[r].assignment \in Assignment /\ req[r].assignment \in Assignment
        /\ req[r].actor \in Users
    BY <1>3 DEF Request, Reply
  <2>2. event \in Event
    BY <2>1, Shapes
  <2> QED
    BY <1>3, <2>2 DEF Buffer
<1>5. /\ pc'[r] = "read_row" /\ tx'[r] = w /\ req'[r] = req[r]
      /\ outcome'[r] = outcome[r] /\ row' = row /\ assigned' = assigned /\ rowLock' = rowLock
  BY <1>1, <1>2 DEF Advance, StoreInvariant, TypeOK, locks
<1>6. /\ rowLock[req[r].ticket] = r
      /\ row[req[r].ticket].status \in {"pending", "accepted"}
      /\ reply[r].assignment = assigned[req[r].ticket]
      /\ AssignsWith(r, None)
  BY <1>1, <1>3 DEF Knows, AssignKnows, AssignLocked
<1>7. w = [NoWrites EXCEPT !.removed = Removed(assigned[req[r].ticket], req[r].assignment),
                           !.added   = Added(assigned[req[r].ticket], req[r].assignment),
                           !.event   = event]
  BY <1>6 DEF NoWrites, AssignsWith
<1>8. event = AssignmentUpdatedEvent(req[r].actor, assigned[req[r].ticket], req[r].assignment)
  BY <1>6
<1>9. assigned[req[r].ticket] # req[r].assignment
  BY <1>6 DEF AssignsWith
<1> HIDE DEF w, event
<1>10. AssignsWith(r, AssignmentUpdatedEvent(req[r].actor, assigned[req[r].ticket],
                                             req[r].assignment))'
  BY <1>5, <1>7, <1>8, <1>9 DEF AssignsWith
<1>11. Knows(r)'
  BY <1>1, <1>3, <1>5, <1>6, <1>10
     DEF Knows, RequestShape, InPhaseOf, CreateKnows, InCreation, AcceptKnows,
         AssignKnows, DetailKnows, AssignLocked, ReadBackPhases
<1>12. ~InCreation(r)'
  BY <1>5 DEF InCreation
<1>13. LocksTaken(r)
  BY <1>1, LockingTakes
<1> QED
  BY <1>1, <1>2, <1>3, <1>4, <1>11, <1>12, <1>13, AdvanceKeeps DEF Phases

-----------------------------------------------------------------------------
(* findByID.                                                               *)

(* What a transaction reads of its own writes has the tables' types.       *)
LEMMA SeenByTypes ==
    ASSUME StoreInvariant, NEW r \in Requests, pc[r] \notin {"idle", "done"},
           req[r].ticket \in Tickets
    PROVE  /\ RowSeenBy(r) \in Row
           /\ DepartmentsSeenBy(r) \in SUBSET Departments
           /\ UsersSeenBy(r) \in SUBSET Users
<1>1. tx[r] \in Buffer /\ row[req[r].ticket] \in Row /\ assigned[req[r].ticket] \in Assignment
  BY DEF StoreInvariant, TypeOK
<1>2. RowSeenBy(r) \in Row
  BY <1>1 DEF RowSeenBy, Buffer
<1>3. DepartmentsSeenBy(r) \in SUBSET Departments /\ UsersSeenBy(r) \in SUBSET Users
  BY <1>1 DEF DepartmentsSeenBy, UsersSeenBy, Buffer, Assignment
<1> QED
  BY <1>2, <1>3

LEMMA ReadBackKeeps ==
    ASSUME StoreInvariant, NEW r \in Requests,
           ReadRow(r) \/ ReadDepartments(r) \/ ReadUsers(r)
    PROVE  StoreInvariant'
<1>1. /\ pc[r] \in {"read_row", "read_departments", "read_users"}
      /\ pc[r] = "read_users" => req[r].op # "detail"
  BY DEF ReadRow, ReadDepartments, ReadUsers, FinishDetail
<1>2. /\ req[r] \in Request /\ tx[r] \in Buffer /\ reply[r] \in Reply /\ Knows(r)
      /\ InPhaseOf(r)
  BY <1>1, RunningRequest
<1>3. req[r].op \in {"accept", "assign", "detail"} /\ req[r].ticket \in Tickets
  BY <1>1, <1>2, RunningRequest DEF InPhaseOf, CreatePhases
<1>4. PICK phase \in {"read_departments", "read_users", "commit"}, v \in Reply :
         /\ Advance(r, phase, tx[r], v)
         /\ UNCHANGED locks
         /\ phase = "commit" => req[r].op # "detail"
  <2>1. TypeOK
    BY DEF StoreInvariant
  <2>2. CASE ReadRow(r)
    <3>1. [reply[r] EXCEPT !.row = RowSeenBy(r)] \in Reply
      BY <1>1, <1>2, <1>3, SeenByTypes DEF Reply
    <3>2. Advance(r, "read_departments", tx[r], [reply[r] EXCEPT !.row = RowSeenBy(r)])
      BY <2>1, <2>2 DEF ReadRow, Advance, Goto, tables, TypeOK
    <3> QED
      BY <2>2, <3>1, <3>2 DEF ReadRow
  <2>3. CASE ReadDepartments(r)
    <3>1. [reply[r] EXCEPT !.assignment.departments = DepartmentsSeenBy(r)] \in Reply
      BY <1>1, <1>2, <1>3, SeenByTypes DEF Reply, Assignment
    <3>2. Advance(r, "read_users", tx[r],
                  [reply[r] EXCEPT !.assignment.departments = DepartmentsSeenBy(r)])
      BY <2>1, <2>3 DEF ReadDepartments, Advance, Goto, tables, TypeOK
    <3> QED
      BY <2>3, <3>1, <3>2 DEF ReadDepartments
  <2>4. CASE ReadUsers(r)
    <3>1. [reply[r] EXCEPT !.assignment.users = UsersSeenBy(r)] \in Reply
      BY <1>1, <1>2, <1>3, SeenByTypes DEF Reply, Assignment
    <3>2. Advance(r, "commit", tx[r], [reply[r] EXCEPT !.assignment.users = UsersSeenBy(r)])
      BY <2>1, <2>4 DEF ReadUsers, Advance, Goto, tables, TypeOK
    <3> QED
      BY <2>4, <3>1, <3>2 DEF ReadUsers
  <2> QED
    BY <2>2, <2>3, <2>4
<1>5. /\ pc'[r] = phase /\ tx'[r] = tx[r] /\ req'[r] = req[r]
      /\ outcome'[r] = outcome[r] /\ row' = row /\ assigned' = assigned /\ rowLock' = rowLock
  BY <1>4 DEF Advance, StoreInvariant, TypeOK, locks
<1>6. RequestShape(r)' /\ DetailKnows(r)' /\ CreateKnows(r)'
  BY <1>2, <1>3, <1>4, <1>5
     DEF Knows, RequestShape, InPhaseOf, CreateKnows, InCreation, DetailKnows,
         AcceptLocked, AssignLocked, ReadBackPhases
<1>7. AcceptKnows(r)'
  BY <1>1, <1>2, <1>3, <1>5 DEF Knows, AcceptKnows, AcceptsWith, AcceptLocked, ReadBackPhases
<1>8. AssignKnows(r)'
  <2>1. \A event : AssignsWith(r, event) => AssignsWith(r, event)'
    BY <1>5 DEF AssignsWith
  <2> QED
    BY <1>1, <1>2, <1>3, <1>5, <2>1 DEF Knows, AssignKnows, AssignLocked, ReadBackPhases
<1>9. Knows(r)'
  BY <1>6, <1>7, <1>8 DEF Knows
<1>10. ~InCreation(r)'
  BY <1>3, <1>5 DEF InCreation
<1>11. phase \in Phases \ {"idle", "done"}
  BY DEF Phases
<1>12. LocksTaken(r)
  BY <1>4, LockingTakes
<1> QED
  BY <1>1, <1>2, <1>4, <1>9, <1>10, <1>11, <1>12, AdvanceKeeps

(* A detail ends like a failure: nothing was buffered.                     *)
LEMMA FinishDetailKeeps ==
    ASSUME StoreInvariant, NEW r \in Requests, FinishDetail(r)
    PROVE  StoreInvariant'
<1> DEFINE v == [reply[r] EXCEPT !.assignment.users = UsersSeenBy(r)]
<1>1. /\ row' = row /\ assigned' = assigned /\ activity' = activity
      /\ active' = active /\ issued' = issued /\ req' = req
      /\ pc[r] = "read_users" /\ req[r].op = "detail"
      /\ pc' = [pc EXCEPT ![r] = "done"]
      /\ outcome' = [outcome EXCEPT ![r] = "ok"]
      /\ reply' = [reply EXCEPT ![r] = v]
      /\ tx' = [tx EXCEPT ![r] = NoWrites]
      /\ rowLock' = [t \in Tickets |-> IF rowLock[t] = r THEN None ELSE rowLock[t]]
      /\ shareLocks' = [x \in Targets |-> shareLocks[x] \ {r}]
  BY DEF FinishDetail, At, Finish, ReleaseLocks, tables
<1>2. /\ TypeOK /\ req[r] \in Request /\ reply[r] \in Reply /\ req[r].ticket \in Tickets
      /\ Knows(r)
  BY <1>1, RunningRequest DEF StoreInvariant
<1>3. v \in Reply
  BY <1>1, <1>2, SeenByTypes DEF Reply, Assignment
<1> HIDE DEF v
<1>4. TypeOK'
  BY <1>1, <1>2, <1>3, Shapes DEF TypeOK, Phases, Outcomes
<1>5. OwnStep(r)
  BY <1>1, <1>2 DEF OwnStep, Unmoved, TypeOK
<1>6. pc'[r] = "done" /\ tx'[r] = NoWrites /\ outcome'[r] = "ok" /\ req'[r] = req[r]
  BY <1>1, <1>2 DEF TypeOK
<1>7. Knows(r)'
  BY <1>1, <1>2, <1>6 DEF Knows, RequestShape, CreateKnows, InCreation, AcceptKnows,
       AssignKnows, DetailKnows, AcceptLocked, AssignLocked, ReadBackPhases
<1>8. ~InCreation(r)' /\ AnswerHolds(r)'
  BY <1>1, <1>6 DEF InCreation, AnswerHolds
<1> QED
  BY <1>4, <1>5, <1>7, <1>8, OwnStepKeeps

-----------------------------------------------------------------------------
(* What a new event explains.                                              *)

LEMMA CreationExplains ==
    ASSUME NEW u \in Users, NEW a, Explains(<<>>, AbsentRow, a)
    PROVE  Explains(Append(<<>>, CreatedEvent(u)), PendingRow, a)
<1> DEFINE e == CreatedEvent(u)
           L == Append(<<>>, e)
<1>1. e \in Event /\ e.action = "created"
  BY Shapes DEF CreatedEvent
<1>2. <<>> \in Seq(Event) /\ Len(<<>>) = 0
  OBVIOUS
<1>3. \A k : Positions(<<>>, k) = {}
  BY DEF Positions
<1>4. Positions(L, "created") = {1}
  <2>1. Positions(L, "created") = Positions(<<>>, "created") \cup {Len(<<>>) + 1}
    BY <1>1, <1>2, OwnPositionAdded
  <2> QED
    BY <2>1, <1>2, <1>3
<1>5. Positions(L, "accepted") = {} /\ Positions(L, "assignment_updated") = {}
  <2>1. e.action # "accepted" /\ e.action # "assignment_updated"
    BY <1>1
  <2>2. Positions(L, "accepted") = Positions(<<>>, "accepted")
    BY <1>1, <1>2, <2>1, OtherPositionsKept
  <2>3. Positions(L, "assignment_updated") = Positions(<<>>, "assignment_updated")
    BY <1>1, <1>2, <2>1, OtherPositionsKept
  <2> QED
    BY <1>3, <2>2, <2>3
<1>6. L # <<>>
  BY <1>1
<1>7. a = Unassigned
  BY <1>3 DEF Explains, CurrentAssignment
<1> HIDE DEF L
<1> QED
  BY <1>4, <1>5, <1>6, <1>7
     DEF Explains, IsAccepted, Acceptor, CurrentAssignment, PendingRow, AbsentRow, L

LEMMA AcceptanceExplains ==
    ASSUME NEW u \in Users, NEW a, NEW log \in Seq(Event), Explains(log, PendingRow, a),
           HasLatest(Positions(log, "assignment_updated"))
    PROVE  Explains(Append(log, AcceptedEvent(u)), AcceptedRow(u), a)
<1> DEFINE e == AcceptedEvent(u)
           L == Append(log, e)
<1>1. e \in Event /\ e.action = "accepted" /\ e.actor = u
  BY Shapes DEF AcceptedEvent
<1>2. Positions(log, "accepted") = {}
  BY DEF Explains, IsAccepted, PendingRow
<1>3. HasLatest(Positions(log, "accepted"))
  BY <1>2 DEF HasLatest
<1>4. Positions(L, "accepted") = {Len(log) + 1}
  BY <1>1, <1>2, OwnPositionAdded
<1>5. Positions(L, "created") = Positions(log, "created")
  <2>1. e.action # "created"
    BY <1>1
  <2> QED
    BY <1>1, <2>1, OtherPositionsKept
<1>6. CurrentAssignment(L) = CurrentAssignment(log)
  BY <1>1, CurrentAssignmentAppend
<1>7. IsAccepted(L) /\ Acceptor(L) = u
  BY <1>1, <1>3, AcceptorAppend
<1>8. L # <<>> /\ log # <<>>
  BY <1>1 DEF Explains, PendingRow, AbsentRow
<1> HIDE DEF L
<1> QED
  BY <1>4, <1>5, <1>6, <1>7, <1>8 DEF Explains, AcceptedRow, AbsentRow, L

LEMMA AssignmentExplains ==
    ASSUME NEW u \in Users, NEW w \in Row, NEW a \in Assignment, NEW b \in Assignment,
           w # AbsentRow,
           NEW log \in Seq(Event), Explains(log, w, a),
           HasLatest(Positions(log, "assignment_updated"))
    PROVE  Explains(Append(log, AssignmentUpdatedEvent(u, a, b)), w, b)
<1> DEFINE e == AssignmentUpdatedEvent(u, a, b)
           L == Append(log, e)
<1>1. e \in Event /\ e.action = "assignment_updated" /\ e.metadata.after = b
  BY Shapes DEF AssignmentUpdatedEvent
<1>2. /\ Positions(log, "accepted") \in SUBSET Nat
      /\ \A i, j \in Positions(log, "accepted") : i = j
  BY PositionsAppend, <1>1 DEF Explains
<1>3. HasLatest(Positions(log, "accepted"))
  BY <1>2, UniqueHasLatest
<1>4. Positions(L, "accepted") = Positions(log, "accepted")
  <2>1. e.action # "accepted"
    BY <1>1
  <2> QED
    BY <1>1, <2>1, OtherPositionsKept
<1>5. Positions(L, "created") = Positions(log, "created")
  <2>1. e.action # "created"
    BY <1>1
  <2> QED
    BY <1>1, <2>1, OtherPositionsKept
<1>6. CurrentAssignment(L) = b
  BY <1>1, CurrentAssignmentAppend
<1>7. (IsAccepted(L) <=> IsAccepted(log)) /\ Acceptor(L) = Acceptor(log)
  BY <1>1, <1>3, AcceptorAppend
<1>8. L # <<>> /\ log # <<>>
  BY <1>1 DEF Explains
<1> HIDE DEF L
<1> QED
  BY <1>4, <1>5, <1>6, <1>7, <1>8 DEF Explains, L

-----------------------------------------------------------------------------
(* The steps that change the tables.                                       *)

(* The four things a commit can do to the tables.                          *)
CommitsNothing == row' = row /\ assigned' = assigned /\ activity' = activity

CommitsCreation(t, u) ==
    /\ row[t] = AbsentRow
    /\ row' = [row EXCEPT ![t] = PendingRow]
    /\ assigned' = assigned
    /\ activity' = [activity EXCEPT ![t] = Append(activity[t], CreatedEvent(u))]

CommitsAcceptance(t, u) ==
    /\ row[t] = PendingRow
    /\ row' = [row EXCEPT ![t] = AcceptedRow(u)]
    /\ assigned' = assigned
    /\ activity' = [activity EXCEPT ![t] = Append(activity[t], AcceptedEvent(u))]

CommitsAssignment(t, u, a) ==
    /\ row[t].status \in {"pending", "accepted"}
    /\ assigned[t] # a
    /\ row' = row
    /\ assigned' = [assigned EXCEPT ![t] = a]
    /\ activity' = [activity EXCEPT ![t] =
                       Append(activity[t], AssignmentUpdatedEvent(u, assigned[t], a))]

(* Replacing an assignment by way of its differences yields the requested  *)
(* one; writing no difference leaves it.                                   *)
LEMMA SeenAssignment ==
    ASSUME NEW a \in Assignment, NEW b \in Assignment
    PROVE  /\ [departments |-> (a.departments \ Removed(a, b).departments)
                                  \cup Added(a, b).departments,
               users       |-> (a.users \ Removed(a, b).users) \cup Added(a, b).users] = b
           /\ [departments |-> (a.departments \ Unassigned.departments)
                                  \cup Unassigned.departments,
               users       |-> (a.users \ Unassigned.users) \cup Unassigned.users] = a
<1>1. /\ (a.departments \ (a.departments \ b.departments))
             \cup (b.departments \ a.departments) = b.departments
      /\ (a.users \ (a.users \ b.users)) \cup (b.users \ a.users) = b.users
      /\ (a.departments \ {}) \cup {} = a.departments
      /\ (a.users \ {}) \cup {} = a.users
  OBVIOUS
<1>2. /\ a = [departments |-> a.departments, users |-> a.users]
      /\ b = [departments |-> b.departments, users |-> b.users]
  BY DEF Assignment
<1> QED
  BY <1>1, <1>2 DEF Removed, Added, Unassigned

(* What is committed, by operation.                                        *)
LEMMA CommitCases ==
    ASSUME StoreInvariant, NEW r \in Requests, Commit(r)
    PROVE  /\ req[r].ticket \in Tickets /\ req[r].actor \in Users
           /\ req[r].assignment \in Assignment
           /\ \/ /\ req[r].op = "create"
                 /\ CommitsCreation(req[r].ticket, req[r].actor)
              \/ /\ req[r].op = "accept"
                 /\ CommitsAcceptance(req[r].ticket, req[r].actor)
              \/ /\ req[r].op = "accept"
                 /\ row[req[r].ticket] = AcceptedRow(req[r].actor)
                 /\ CommitsNothing
              \/ /\ req[r].op = "assign"
                 /\ CommitsAssignment(req[r].ticket, req[r].actor, req[r].assignment)
              \/ /\ req[r].op = "assign"
                 /\ CommitsNothing
<1> DEFINE t == req[r].ticket
           a == assigned[t]
           b == req[r].assignment
           seen == [departments |-> DepartmentsSeenBy(r), users |-> UsersSeenBy(r)]
<1>1. /\ pc[r] = "commit"
      /\ row' = [row EXCEPT ![t] = RowSeenBy(r)]
      /\ assigned' = [assigned EXCEPT ![t] = seen]
      /\ tx[r].event = None => activity' = activity
      /\ tx[r].event # None =>
            activity' = [activity EXCEPT ![t] = Append(activity[t], tx[r].event)]
  BY DEF Commit
<1>2. /\ TypeOK /\ Knows(r) /\ InPhaseOf(r) /\ req[r] \in Request
  BY <1>1, RunningRequest DEF StoreInvariant
<1>3. req[r].op \in {"create", "accept", "assign"}
  BY <1>1, <1>2 DEF InPhaseOf
<1>4. t \in Tickets
  <2>1. req[r].op = "create" => t \in issued
    BY <1>1, <1>2 DEF Knows, CreateKnows, InCreation
  <2> QED
    BY <1>1, <1>2, <1>3, <2>1 DEF TypeOK, Knows, RequestShape
<1>5. a \in Assignment /\ b \in Assignment /\ req[r].actor \in Users /\ row[t] \in Row
  BY <1>2, <1>4 DEF TypeOK, Request
<1>6. \A u \in Users : /\ PendingRow # None /\ AcceptedRow(u) # None
                       /\ CreatedEvent(u) # None /\ AcceptedEvent(u) # None
                       /\ AssignmentUpdatedEvent(u, a, b) # None
  <2>1. (\A w \in Row : w # None) /\ (\A e \in Event : e # None)
    BY NullIsDistinct
  <2>2. TAKE u \in Users
  <2>3. PendingRow \in Row /\ AcceptedRow(u) \in Row
    BY Shapes
  <2>4. CreatedEvent(u) \in Event /\ AcceptedEvent(u) \in Event
    BY Shapes
  <2>5. AssignmentUpdatedEvent(u, a, b) \in Event
    BY <1>5, Shapes
  <2> QED
    BY <2>1, <2>3, <2>4, <2>5
<1>7. tx[r].removed = Unassigned /\ tx[r].added = Unassigned => assigned' = assigned
  <2>1. tx[r].removed = Unassigned /\ tx[r].added = Unassigned => seen = a
    BY <1>5, SeenAssignment DEF DepartmentsSeenBy, UsersSeenBy
  <2> QED
    BY <1>1, <1>2, <1>4, <2>1 DEF TypeOK
<1>8. tx[r] = NoWrites => CommitsNothing
  BY <1>1, <1>2, <1>4, <1>7 DEF CommitsNothing, NoWrites, RowSeenBy, TypeOK
<1> HIDE DEF seen
<1>9. CASE req[r].op = "create"
  <2>1. /\ row[t] = AbsentRow
        /\ tx[r] = [NoWrites EXCEPT !.row = PendingRow, !.event = CreatedEvent(req[r].actor)]
    BY <1>1, <1>2, <1>9 DEF Knows, CreateKnows, InCreation
  <2>2. /\ tx[r].row = PendingRow /\ tx[r].event = CreatedEvent(req[r].actor)
        /\ tx[r].removed = Unassigned /\ tx[r].added = Unassigned
    BY <2>1 DEF NoWrites
  <2> QED
    BY <1>1, <1>4, <1>5, <1>6, <1>7, <1>9, <2>1, <2>2 DEF CommitsCreation, RowSeenBy
<1>10. CASE req[r].op = "accept"
  <2>1. \/ AcceptsWith(r, AcceptedEvent(req[r].actor))
        \/ row[t] = AcceptedRow(req[r].actor) /\ tx[r] = NoWrites
    BY <1>1, <1>2, <1>10 DEF Knows, AcceptKnows, AcceptLocked, ReadBackPhases
  <2>2. CASE AcceptsWith(r, AcceptedEvent(req[r].actor))
    <3>1. /\ row[t] = PendingRow
          /\ tx[r].row = AcceptedRow(req[r].actor) /\ tx[r].event = AcceptedEvent(req[r].actor)
          /\ tx[r].removed = Unassigned /\ tx[r].added = Unassigned
      BY <2>2 DEF AcceptsWith, NoWrites
    <3> QED
      BY <1>1, <1>4, <1>5, <1>6, <1>7, <1>10, <3>1 DEF CommitsAcceptance, RowSeenBy
  <2>3. CASE row[t] = AcceptedRow(req[r].actor) /\ tx[r] = NoWrites
    BY <1>4, <1>5, <1>8, <1>10, <2>3
  <2> QED
    BY <2>1, <2>2, <2>3
<1>11. CASE req[r].op = "assign"
  <2> DEFINE event == AssignmentUpdatedEvent(req[r].actor, a, b)
  <2>1. /\ row[t].status \in {"pending", "accepted"}
        /\ AssignsWith(r, event) \/ tx[r] = NoWrites
    BY <1>1, <1>2, <1>11 DEF Knows, AssignKnows, AssignLocked, ReadBackPhases
  <2>2. CASE AssignsWith(r, event)
    <3>1. /\ a # b
          /\ tx[r].row = None /\ tx[r].event = event
          /\ tx[r].removed = Removed(a, b) /\ tx[r].added = Added(a, b)
      BY <2>2 DEF AssignsWith, NoWrites
    <3>2. seen = b
      <4>1. /\ DepartmentsSeenBy(r)
                 = (a.departments \ Removed(a, b).departments) \cup Added(a, b).departments
            /\ UsersSeenBy(r) = (a.users \ Removed(a, b).users) \cup Added(a, b).users
        BY <3>1 DEF DepartmentsSeenBy, UsersSeenBy
      <4> HIDE DEF a, b
      <4>2. [departments |-> DepartmentsSeenBy(r), users |-> UsersSeenBy(r)] = b
        BY <1>5, <4>1, SeenAssignment
      <4> QED
        BY <4>2 DEF seen
    <3>3. row' = row
      BY <1>1, <1>2, <1>4, <3>1 DEF RowSeenBy, TypeOK
    <3> QED
      BY <1>1, <1>4, <1>5, <1>6, <1>11, <2>1, <3>1, <3>2, <3>3 DEF CommitsAssignment
  <2>3. CASE tx[r] = NoWrites
    BY <1>4, <1>5, <1>8, <1>11, <2>3
  <2> QED
    BY <2>1, <2>2, <2>3
<1> QED
  BY <1>3, <1>9, <1>10, <1>11

(* Whatever is committed, the history still explains every ticket.         *)
LEMMA CommitExplains ==
    ASSUME StoreInvariant, NEW t \in Tickets, NEW u \in Users, NEW a \in Assignment,
           CommitsCreation(t, u) \/ CommitsAcceptance(t, u) \/ CommitsAssignment(t, u, a)
    PROVE  /\ row' \in [Tickets -> Row]
           /\ assigned' \in [Tickets -> Assignment]
           /\ activity' \in [Tickets -> Seq(Event)]
           /\ HistoryExplainsTicket'
           /\ UpdatesHaveLatest'
<1>1. /\ row \in [Tickets -> Row] /\ assigned \in [Tickets -> Assignment]
      /\ activity \in [Tickets -> Seq(Event)]
  BY DEF StoreInvariant, TypeOK
<1>2. /\ \A s \in Tickets : Explains(activity[s], row[s], assigned[s])
      /\ \A s \in Tickets : HasLatest(Positions(activity[s], "assignment_updated"))
  BY DEF StoreInvariant, HistoryExplainsTicket, UpdatesHaveLatest
<1>3. PICK e \in Event, w \in Row, b \in Assignment :
         /\ row' = [row EXCEPT ![t] = w]
         /\ assigned' = [assigned EXCEPT ![t] = b]
         /\ activity' = [activity EXCEPT ![t] = Append(activity[t], e)]
         /\ Explains(Append(activity[t], e), w, b)
  <2>1. CASE CommitsCreation(t, u)
    <3>1. activity[t] = <<>>
      BY <1>2, <2>1 DEF CommitsCreation, Explains
    <3>2. Explains(Append(activity[t], CreatedEvent(u)), PendingRow, assigned[t])
      BY <1>2, <2>1, <3>1, CreationExplains DEF CommitsCreation
    <3>3. CreatedEvent(u) \in Event /\ PendingRow \in Row /\ assigned[t] \in Assignment
      BY <1>1, Shapes
    <3>4. assigned' = [assigned EXCEPT ![t] = assigned[t]]
      BY <1>1, <2>1 DEF CommitsCreation
    <3> QED
      BY <2>1, <3>2, <3>3, <3>4 DEF CommitsCreation
  <2>2. CASE CommitsAcceptance(t, u)
    <3>1. Explains(Append(activity[t], AcceptedEvent(u)), AcceptedRow(u), assigned[t])
      BY <1>1, <1>2, <2>2, AcceptanceExplains DEF CommitsAcceptance
    <3>2. AcceptedEvent(u) \in Event /\ AcceptedRow(u) \in Row /\ assigned[t] \in Assignment
      BY <1>1, Shapes
    <3>3. assigned' = [assigned EXCEPT ![t] = assigned[t]]
      BY <1>1, <2>2 DEF CommitsAcceptance
    <3> QED
      BY <2>2, <3>1, <3>2, <3>3 DEF CommitsAcceptance
  <2>3. CASE CommitsAssignment(t, u, a)
    <3>1. row[t] \in Row /\ row[t] # AbsentRow
      BY <1>1, <2>3 DEF CommitsAssignment, AbsentRow
    <3>2. Explains(Append(activity[t], AssignmentUpdatedEvent(u, assigned[t], a)), row[t], a)
      BY <1>1, <1>2, <3>1, AssignmentExplains
    <3>3. AssignmentUpdatedEvent(u, assigned[t], a) \in Event
      BY <1>1, Shapes
    <3>4. row' = [row EXCEPT ![t] = row[t]]
      BY <1>1, <2>3 DEF CommitsAssignment
    <3> QED
      BY <2>3, <3>1, <3>2, <3>3, <3>4 DEF CommitsAssignment
  <2> QED
    BY <2>1, <2>2, <2>3
<1>4. Append(activity[t], e) \in Seq(Event)
  BY <1>1
<1>5. HasLatest(Positions(Append(activity[t], e), "assignment_updated"))
  BY <1>1, <1>2, HasLatestAppend
<1>6. ASSUME NEW s \in Tickets
      PROVE  /\ Explains(activity'[s], row'[s], assigned'[s])
             /\ HasLatest(Positions(activity'[s], "assignment_updated"))
  <2>1. CASE s = t
    BY <1>1, <1>3, <1>5, <2>1
  <2>2. CASE s # t
    BY <1>1, <1>2, <1>3, <2>2
  <2> QED
    BY <2>1, <2>2
<1>7. HistoryExplainsTicket' /\ UpdatesHaveLatest'
  BY <1>6 DEF HistoryExplainsTicket, UpdatesHaveLatest
<1> QED
  BY <1>1, <1>3, <1>4, <1>7

(* No two requests rely on the same ticket.                                *)
LEMMA ReliesExclusively ==
    ASSUME StoreInvariant, NEW q \in Requests, NEW r \in Requests, q # r,
           Relies(q), Relies(r)
    PROVE  req[q].ticket # req[r].ticket
<1>1. ASSUME NEW s \in Requests, Relies(s), ~InCreation(s)
      PROVE  /\ rowLock[req[s].ticket] = s
             /\ row[req[s].ticket].status \in {"pending", "accepted"}
  <2>1. AcceptKnows(s) /\ AssignKnows(s)
    BY DEF StoreInvariant, Knows
  <2>2. CASE pc[s] \in AcceptLocked /\ req[s].op = "accept"
    <3>1. /\ rowLock[req[s].ticket] = s
          /\ \/ row[req[s].ticket] = PendingRow
             \/ row[req[s].ticket] = AcceptedRow(req[s].actor)
      BY <2>1, <2>2 DEF AcceptKnows, AcceptsWith, AcceptLocked
    <3> QED
      BY <3>1 DEF PendingRow, AcceptedRow
  <2>3. CASE pc[s] \in AssignLocked /\ req[s].op = "assign"
    BY <2>1, <2>3 DEF AssignKnows
  <2> QED
    BY <1>1, <2>2, <2>3 DEF Relies
<1>2. ASSUME NEW s \in Requests, InCreation(s)
      PROVE  row[req[s].ticket].status = "absent"
  <2>1. row[req[s].ticket] = AbsentRow
    BY <1>2 DEF StoreInvariant, Knows, CreateKnows
  <2> QED
    BY <2>1 DEF AbsentRow
<1>3. CASE InCreation(q) /\ InCreation(r)
  BY <1>3 DEF StoreInvariant, IdsAreFresh
<1>4. CASE ~(InCreation(q) /\ InCreation(r))
  BY <1>1, <1>2, <1>4
<1> QED
  BY <1>3, <1>4

LEMMA CommitKeeps ==
    ASSUME StoreInvariant, NEW r \in Requests, Commit(r)
    PROVE  StoreInvariant'
<1> DEFINE t == req[r].ticket
           u == req[r].actor
           a == req[r].assignment
<1>1. PICK answer \in {"ok", "error"}, v \in Reply :
         /\ pc[r] = "commit"
         /\ active' = active /\ issued' = issued /\ req' = req
         /\ pc' = [pc EXCEPT ![r] = "done"]
         /\ outcome' = [outcome EXCEPT ![r] = answer]
         /\ reply' = [reply EXCEPT ![r] = v]
         /\ tx' = [tx EXCEPT ![r] = NoWrites]
         /\ rowLock' = [s \in Tickets |-> IF rowLock[s] = r THEN None ELSE rowLock[s]]
         /\ shareLocks' = [x \in Targets |-> shareLocks[x] \ {r}]
  <2>1. reply[r] \in Reply /\ NoReply \in Reply
    BY Shapes DEF StoreInvariant, TypeOK
  <2> QED
    BY <2>1 DEF Commit, Finish, ReleaseLocks
<1>2. /\ t \in Tickets /\ u \in Users /\ a \in Assignment
      /\ req[r].op = "create" => CommitsCreation(t, u)
      /\ req[r].op = "accept" =>
            CommitsAcceptance(t, u) \/ (CommitsNothing /\ row[t] = AcceptedRow(u))
      /\ req[r].op = "assign" => CommitsAssignment(t, u, a) \/ CommitsNothing
      /\ req[r].op \in {"create", "accept", "assign"}
  BY CommitCases
<1>3. TypeOK /\ Knows(r)
  BY DEF StoreInvariant
<1>4. /\ row' \in [Tickets -> Row]
      /\ assigned' \in [Tickets -> Assignment]
      /\ activity' \in [Tickets -> Seq(Event)]
      /\ HistoryExplainsTicket'
      /\ UpdatesHaveLatest'
  <2>1. CASE CommitsNothing
    BY <1>3, <2>1
       DEF CommitsNothing, TypeOK, StoreInvariant, HistoryExplainsTicket, UpdatesHaveLatest
  <2>2. CASE ~CommitsNothing
    BY <1>2, <2>2, CommitExplains
  <2> QED
    BY <2>1, <2>2
<1>5. TypeOK'
  BY <1>1, <1>3, <1>4, Shapes DEF TypeOK, Phases, Outcomes
<1>6. \A s \in Tickets \ {t} : row'[s] = row[s] /\ assigned'[s] = assigned[s]
  BY <1>2, <1>3 DEF CommitsCreation, CommitsAcceptance, CommitsAssignment, CommitsNothing, TypeOK
<1>7. /\ pc'[r] = "done" /\ tx'[r] = NoWrites /\ outcome'[r] = answer
      /\ \A q \in Requests \ {r} : Unmoved(q)
  BY <1>1, <1>3 DEF TypeOK, Unmoved
<1>8. Relies(r)
  BY <1>1, <1>2 DEF Relies, InCreation, AcceptLocked, AssignLocked, ReadBackPhases
<1>9. ASSUME NEW q \in Requests
      PROVE  Knows(q)'
  <2>1. CASE q = r
    BY <1>1, <1>2, <1>3, <1>7, <2>1 DEF Knows, RequestShape, CreateKnows, InCreation,
       AcceptKnows, AssignKnows, DetailKnows, AcceptLocked, AssignLocked, ReadBackPhases
  <2>2. CASE q # r
    <3>1. Relies(q) => req[q].ticket \in Tickets \ {t}
      BY <1>8, <2>2, ReliesExclusively, ReliesOnTicket
    <3>2. \A s \in Tickets : rowLock[s] = q => rowLock'[s] = q
      BY <1>1, <2>2
    <3>3. Knows(q) /\ Unmoved(q) /\ issued \subseteq issued'
      BY <1>1, <1>7, <2>2 DEF StoreInvariant
    <3> QED
      BY <1>6, <3>1, <3>2, <3>3, UnmovedKnows
  <2> QED
    BY <2>1, <2>2
<1>10. IdsAreFresh'
  <2>1. row'[t] # AbsentRow => t \in issued'
    <3>1. CASE req[r].op = "create"
      BY <1>1, <1>3, <3>1 DEF Knows, CreateKnows, InCreation
    <3>2. CASE req[r].op # "create"
      <4>1. row[t] # AbsentRow \/ row' = row
        BY <1>2, <3>2 DEF CommitsAcceptance, CommitsAssignment, CommitsNothing,
                          PendingRow, AbsentRow
      <4> QED
        BY <1>1, <1>2, <4>1 DEF StoreInvariant, IdsAreFresh
    <3> QED
      BY <3>1, <3>2
  <2>2. \A s \in Tickets : row'[s] # AbsentRow => s \in issued'
    BY <1>1, <1>6, <2>1 DEF StoreInvariant, IdsAreFresh
  <2>3. \A q \in Requests : InCreation(q)' => InCreation(q) /\ req'[q].ticket = req[q].ticket
    BY <1>1, <1>7 DEF InCreation, Unmoved
  <2> QED
    BY <2>2, <2>3 DEF StoreInvariant, IdsAreFresh
<1>11. AcceptAnswersStayTrue'
  <2>1. \A s \in Tickets : row[s].acceptedBy # None => row'[s].acceptedBy = row[s].acceptedBy
    <3>1. row[t].acceptedBy # None => row'[t] = row[t]
      BY <1>2, <1>3 DEF CommitsCreation, CommitsAcceptance, CommitsAssignment,
         CommitsNothing, AbsentRow, PendingRow
    <3> QED
      BY <1>6, <3>1
  <2>2. ASSUME NEW q \in Requests
        PROVE  AnswerHolds(q)'
    <3>1. CASE q = r
      <4>1. req[r].op = "accept" => row'[t].acceptedBy = u
        BY <1>2, <1>3 DEF CommitsAcceptance, CommitsNothing, AcceptedRow, TypeOK
      <4> QED
        BY <1>1, <1>7, <3>1, <4>1 DEF AnswerHolds
    <3>2. CASE q # r
      <4>1. AnswerHolds(q) /\ Unmoved(q)
        BY <1>7, <3>2 DEF StoreInvariant, AcceptAnswersStayTrue
      <4>2. outcome[q] # "none" /\ req[q].op = "accept" => req[q].ticket \in Tickets
        BY DEF StoreInvariant, Knows, RequestShape
      <4>3. CASE outcome[q] # "none" /\ req[q].op = "accept"
        <5>1. req[q].ticket \in Tickets /\ req[q].actor \in Users
          BY <4>2, <4>3 DEF StoreInvariant, Knows, RequestShape, Request
        <5>2. req[q].actor # None
          BY <5>1, IdsAreDistinct DEF Targets
        <5> QED
          BY <2>1, <4>1, <4>3, <5>1, <5>2 DEF AnswerHolds, Unmoved
      <4>4. CASE ~(outcome[q] # "none" /\ req[q].op = "accept")
        BY <4>1, <4>4 DEF AnswerHolds, Unmoved
      <4> QED
        BY <4>3, <4>4
    <3> QED
      BY <3>1, <3>2
  <2> QED
    BY <2>2 DEF AcceptAnswersStayTrue
<1> QED
  BY <1>4, <1>5, <1>9, <1>10, <1>11 DEF StoreInvariant

(* Closing changes the status and nothing the history speaks of.           *)
LEMMA CloseKeeps ==
    ASSUME StoreInvariant, NEW t \in Tickets, Close(t)
    PROVE  StoreInvariant'
<1> DEFINE w == ClosedRow(row[t].acceptedBy)
<1>1. /\ row[t].status = "accepted" /\ rowLock[t] = None
      /\ row' = [row EXCEPT ![t] = w]
      /\ assigned' = assigned /\ activity' = activity /\ active' = active
      /\ issued' = issued /\ rowLock' = rowLock /\ shareLocks' = shareLocks
      /\ pc' = pc /\ req' = req /\ tx' = tx /\ reply' = reply /\ outcome' = outcome
  BY DEF Close, locks, requests
<1>2. TypeOK
  BY DEF StoreInvariant
<1>3. row[t] \in Row /\ row[t].acceptedBy \in Users
  BY <1>1, <1>2, RowCases DEF TypeOK
<1>4. /\ w \in Row /\ w.acceptedBy = row[t].acceptedBy /\ w.status = "closed"
      /\ w # AbsentRow /\ row[t] # AbsentRow
  BY <1>1, <1>3, Shapes DEF ClosedRow, AbsentRow
<1> HIDE DEF w
<1>5. TypeOK'
  BY <1>1, <1>2, <1>4 DEF TypeOK
<1>6. \A s \in Tickets : /\ row'[s].acceptedBy = row[s].acceptedBy
                         /\ row'[s] = AbsentRow <=> row[s] = AbsentRow
                         /\ row'[s].status \in {"accepted", "closed"}
                              <=> row[s].status \in {"accepted", "closed"}
                         /\ s # t => row'[s] = row[s]
  BY <1>1, <1>2, <1>4 DEF TypeOK
<1>7. ASSUME NEW q \in Requests
      PROVE  Knows(q)'
  <2>1. Knows(q) /\ Unmoved(q)
    BY <1>1 DEF StoreInvariant, Unmoved
  <2>2. Relies(q) => req[q].ticket \in Tickets \ {t}
    <3>1. Relies(q) /\ ~InCreation(q) => rowLock[req[q].ticket] = q
      BY <2>1 DEF Relies, Knows, AcceptKnows, AssignKnows
    <3>2. InCreation(q) => row[req[q].ticket] = AbsentRow
      BY <2>1 DEF Knows, CreateKnows
    <3>3. q # None
      BY IdsAreDistinct
    <3> QED
      BY <1>1, <1>4, <3>1, <3>2, <3>3, ReliesOnTicket
  <2> QED
    BY <1>1, <1>6, <2>1, <2>2, UnmovedKnows
<1>8. IdsAreFresh'
  BY <1>1, <1>6 DEF StoreInvariant, IdsAreFresh, InCreation
<1>9. HistoryExplainsTicket' /\ UpdatesHaveLatest'
  BY <1>1, <1>6 DEF StoreInvariant, HistoryExplainsTicket, UpdatesHaveLatest, Explains
<1>10. AcceptAnswersStayTrue'
  <2>1. ASSUME NEW q \in Requests
        PROVE  AnswerHolds(q)'
    <3>1. AnswerHolds(q)
      BY DEF StoreInvariant, AcceptAnswersStayTrue
    <3>2. outcome[q] # "none" /\ req[q].op = "accept" => req[q].ticket \in Tickets
      BY DEF StoreInvariant, Knows, RequestShape
    <3> QED
      BY <1>1, <1>6, <3>1, <3>2 DEF AnswerHolds
  <2> QED
    BY <2>1 DEF AcceptAnswersStayTrue
<1> QED
  BY <1>5, <1>7, <1>8, <1>9, <1>10 DEF StoreInvariant

(* Nothing but the is_active flags changes.                                *)
LEMMA SwitchKeeps ==
    ASSUME StoreInvariant, NEW x \in Switchable, Deactivate(x) \/ Activate(x)
    PROVE  StoreInvariant'
<1>1. /\ row' = row /\ assigned' = assigned /\ activity' = activity
      /\ issued' = issued /\ rowLock' = rowLock /\ shareLocks' = shareLocks
      /\ pc' = pc /\ req' = req /\ tx' = tx /\ reply' = reply /\ outcome' = outcome
      /\ active' \subseteq Targets
  BY IdsAreDistinct DEF Deactivate, Activate, tables, locks, requests, StoreInvariant, TypeOK
<1>2. TypeOK'
  BY <1>1 DEF StoreInvariant, TypeOK
<1>3. \A q \in Requests : Knows(q)'
  BY <1>1, UnmovedKnows, ReliesOnTicket DEF StoreInvariant, Unmoved
<1>4. IdsAreFresh' /\ HistoryExplainsTicket' /\ UpdatesHaveLatest' /\ AcceptAnswersStayTrue'
  BY <1>1 DEF StoreInvariant, IdsAreFresh, InCreation, HistoryExplainsTicket,
              UpdatesHaveLatest, AcceptAnswersStayTrue, AnswerHolds
<1> QED
  BY <1>2, <1>3, <1>4 DEF StoreInvariant

(* A step that changes nothing.                                            *)
LEMMA StutterKeeps ==
    ASSUME StoreInvariant, UNCHANGED vars
    PROVE  StoreInvariant'
<1>1. /\ row' = row /\ assigned' = assigned /\ activity' = activity /\ active' = active
      /\ issued' = issued /\ rowLock' = rowLock /\ shareLocks' = shareLocks
      /\ pc' = pc /\ req' = req /\ tx' = tx /\ reply' = reply /\ outcome' = outcome
  BY DEF vars, tables, locks, requests
<1>2. TypeOK'
  BY <1>1 DEF StoreInvariant, TypeOK
<1>3. \A q \in Requests : Knows(q)'
  BY <1>1, UnmovedKnows, ReliesOnTicket DEF StoreInvariant, Unmoved
<1>4. IdsAreFresh' /\ HistoryExplainsTicket' /\ UpdatesHaveLatest' /\ AcceptAnswersStayTrue'
  BY <1>1 DEF StoreInvariant, IdsAreFresh, InCreation, HistoryExplainsTicket,
              UpdatesHaveLatest, AcceptAnswersStayTrue, AnswerHolds
<1> QED
  BY <1>2, <1>3, <1>4 DEF StoreInvariant

-----------------------------------------------------------------------------
(* The invariant is inductive.                                             *)

LEMMA InitEstablishes == Init => StoreInvariant
<1> SUFFICES ASSUME Init
             PROVE  StoreInvariant
  OBVIOUS
<1>1. PICK creator \in [Existing -> Users] :
         activity = [t \in Tickets |->
                       IF t \in Existing THEN <<CreatedEvent(creator[t])>> ELSE <<>>]
  BY DEF Init
<1>2. \A t \in Tickets : activity[t] = Append(<<>>, CreatedEvent(creator[t])) \/ activity[t] = <<>>
  <2>1. \A event : <<event>> = Append(<<>>, event)
    OBVIOUS
  <2>2. \A t \in Tickets : activity[t] = <<CreatedEvent(creator[t])>> \/ activity[t] = <<>>
    BY <1>1, Zenon
  <2> QED
    BY <2>1, <2>2, Zenon
<1>3. ASSUME NEW t \in Tickets
      PROVE  /\ activity[t] \in Seq(Event)
             /\ Explains(activity[t], row[t], assigned[t])
             /\ HasLatest(Positions(activity[t], "assignment_updated"))
  <2>1. \A k : Positions(<<>>, k) = {}
    BY DEF Positions
  <2>2. Explains(<<>>, AbsentRow, Unassigned)
    BY <2>1 DEF Explains, IsAccepted, Acceptor, CurrentAssignment, AbsentRow
  <2>3. HasLatest(Positions(<<>>, "assignment_updated"))
    BY <2>1 DEF HasLatest
  <2>4. assigned[t] = Unassigned
    BY DEF Init
  <2>5. CASE t \in Existing
    <3>1. activity[t] = Append(<<>>, CreatedEvent(creator[t])) /\ row[t] = PendingRow
      BY <1>1, <2>5 DEF Init
    <3>2. creator[t] \in Users /\ CreatedEvent(creator[t]) \in Event
      BY <2>5, Shapes
    <3>3. <<>> \in Seq(Event)
      OBVIOUS
    <3>4. Append(<<>>, CreatedEvent(creator[t])) \in Seq(Event)
      BY <3>2
    <3>5. Explains(Append(<<>>, CreatedEvent(creator[t])), PendingRow, Unassigned)
      BY <2>2, <3>2, CreationExplains
    <3>6. HasLatest(Positions(Append(<<>>, CreatedEvent(creator[t])), "assignment_updated"))
      BY <2>3, <3>2, <3>3, HasLatestAppend
    <3> QED
      BY <2>4, <3>1, <3>4, <3>5, <3>6
  <2>6. CASE t \notin Existing
    <3>1. activity[t] = <<>> /\ row[t] = AbsentRow
      BY <1>1, <2>6 DEF Init
    <3> QED
      BY <2>2, <2>3, <2>4, <3>1
  <2> QED
    BY <2>5, <2>6
<1>4. TypeOK
  <2>1. activity \in [Tickets -> Seq(Event)]
    BY <1>1, <1>3
  <2> QED
    BY <2>1, Shapes, IdsAreDistinct DEF Init, TypeOK, Phases, Outcomes
<1>5. \A r \in Requests : Knows(r)
  BY DEF Init, Knows, RequestShape, CreateKnows, InCreation, AcceptKnows, AssignKnows,
         DetailKnows, AcceptLocked, AssignLocked, ReadBackPhases
<1>6. IdsAreFresh /\ AcceptAnswersStayTrue
  BY DEF Init, IdsAreFresh, InCreation, AcceptAnswersStayTrue, AnswerHolds
<1> QED
  BY <1>3, <1>4, <1>5, <1>6 DEF StoreInvariant, HistoryExplainsTicket, UpdatesHaveLatest

LEMMA NextKeeps == StoreInvariant /\ [Next]_vars => StoreInvariant'
<1> SUFFICES ASSUME StoreInvariant, [Next]_vars
             PROVE  StoreInvariant'
  OBVIOUS
<1>1. CASE UNCHANGED vars
  BY <1>1, StutterKeeps
<1>2. CASE AllAnswered
  BY <1>2, StutterKeeps DEF AllAnswered
<1>3. ASSUME NEW r \in Requests, Arrive(r)
      PROVE  StoreInvariant'
  BY <1>3, ArriveKeeps
<1>4. ASSUME NEW r \in Requests, CreateStep(r)
      PROVE  StoreInvariant'
  BY <1>4, LockingTargetsKeeps, FailingStepsKeep, InsertTicketKeeps, RecordCreationKeeps
     DEF CreateStep
<1>5. ASSUME NEW r \in Requests, AcceptStep(r)
      PROVE  StoreInvariant'
  BY <1>5, LockingForAcceptKeeps, FailingStepsKeep, ClaimTicketKeeps, RecordAcceptanceKeeps
     DEF AcceptStep
<1>6. ASSUME NEW r \in Requests, AssignStep(r)
      PROVE  StoreInvariant'
  BY <1>6, LockForAssignmentKeeps, FailingStepsKeep, LoadAssignmentKeeps, ValidationKeeps,
     ReplaceAssignmentKeeps, RecordAssignmentKeeps
     DEF AssignStep
<1>7. ASSUME NEW r \in Requests, ReadStep(r)
      PROVE  StoreInvariant'
  BY <1>7, FailingStepsKeep, ReadBackKeeps, FinishDetailKeeps DEF ReadStep
<1>8. ASSUME NEW r \in Requests, TicketMissing(r) \/ Commit(r) \/ Abort(r)
      PROVE  StoreInvariant'
  BY <1>8, FailingStepsKeep, CommitKeeps
<1>9. ASSUME NEW x \in Switchable, Deactivate(x) \/ Activate(x)
      PROVE  StoreInvariant'
  BY <1>9, SwitchKeeps
<1>10. ASSUME NEW t \in Tickets, Close(t)
       PROVE  StoreInvariant'
  BY <1>10, CloseKeeps
<1> QED
  BY <1>1, <1>2, <1>3, <1>4, <1>5, <1>6, <1>7, <1>8, <1>9, <1>10 DEF Next, Proceed

(* StoreInvariant: what each transaction of client/tickets relies on       *)
(* between its statements holds in every reachable state.                  *)
THEOREM InvariantHolds == Spec => []StoreInvariant
BY InitEstablishes, NextKeeps, PTL DEF Spec

(* TypeOK: the committed and the buffered rows always satisfy the CHECK    *)
(* constraints of migration 0008.                                          *)
THEOREM TypeCorrectness == Spec => []TypeOK
<1>1. StoreInvariant => TypeOK
  BY DEF StoreInvariant
<1> QED
  BY <1>1, InvariantHolds, PTL

(* The activity of a ticket always explains its row and its assignment.    *)
THEOREM HistoryIsComplete == Spec => []HistoryExplainsTicket
<1>1. StoreInvariant => HistoryExplainsTicket
  BY DEF StoreInvariant
<1> QED
  BY <1>1, InvariantHolds, PTL

(* What Accept answers (200, or 409 ticket_already_accepted) stays true.   *)
THEOREM AnswersStayTrue == Spec => []AcceptAnswersStayTrue
<1>1. StoreInvariant => AcceptAnswersStayTrue
  BY DEF StoreInvariant
<1> QED
  BY <1>1, InvariantHolds, PTL

-----------------------------------------------------------------------------
(* The tables implement TicketLedger.                                      *)

LEMMA InitIsLedgerInit == Init => Ledger!LedgerInit
<1> SUFFICES ASSUME Init
             PROVE  Ledger!LedgerInit
  OBVIOUS
<1>1. PICK creator \in [Existing -> Users] :
         activity = [t \in Tickets |->
                       IF t \in Existing THEN <<CreatedEvent(creator[t])>> ELSE <<>>]
  BY DEF Init
<1>2. activity \in [Tickets -> {<<>>} \cup {<<CreatedEvent(u)>> : u \in Users}]
  BY <1>1
<1>3. {t \in Tickets : row[t].status = "closed"} = {}
  BY DEF Init, PendingRow, AbsentRow
<1> QED
  BY <1>2, <1>3 DEF Ledger!LedgerInit, Ledger!CreatedEvent, CreatedEvent

(* The commits and the closure are the steps of the ledger.                *)
LEMMA CommitIsLedgerStep ==
    ASSUME StoreInvariant, NEW r \in Requests, Commit(r)
    PROVE  Ledger!LedgerNext \/ UNCHANGED Ledger!ledgerVars
<1> DEFINE t == req[r].ticket
           u == req[r].actor
           a == req[r].assignment
           closed == {s \in Tickets : row[s].status = "closed"}
<1>1. /\ t \in Tickets /\ u \in Users /\ a \in Assignment
      /\ \/ CommitsCreation(t, u) \/ CommitsAcceptance(t, u)
         \/ CommitsAssignment(t, u, a) \/ CommitsNothing
  BY CommitCases
<1>2. /\ TypeOK
      /\ Explains(activity[t], row[t], assigned[t])
  BY <1>1 DEF StoreInvariant, HistoryExplainsTicket
<1>3. CASE CommitsCreation(t, u)
  <2>1. activity[t] = <<>>
    BY <1>2, <1>3 DEF CommitsCreation, Explains
  <2>2. closed' = closed
    BY <1>1, <1>2, <1>3 DEF CommitsCreation, TypeOK, PendingRow, AbsentRow
  <2>3. Ledger!AddCreation(t, u)
    BY <1>3, <2>1, <2>2
       DEF CommitsCreation, Ledger!AddCreation, Ledger!Record, Ledger!CreatedEvent, CreatedEvent
  <2> QED
    BY <1>1, <2>3 DEF Ledger!LedgerNext
<1>4. CASE CommitsAcceptance(t, u)
  <2>1. activity[t] # <<>> /\ ~IsAccepted(activity[t]) /\ t \notin closed
    BY <1>2, <1>4 DEF CommitsAcceptance, Explains, PendingRow, AbsentRow
  <2>2. closed' = closed
    BY <1>1, <1>2, <1>4 DEF CommitsAcceptance, TypeOK, PendingRow, AcceptedRow
  <2>3. Ledger!AddAcceptance(t, u)
    BY <1>4, <2>1, <2>2
       DEF CommitsAcceptance, Ledger!AddAcceptance, Ledger!Open, Ledger!Record,
           Ledger!AcceptedEvent, AcceptedEvent, Ledger!IsAccepted, IsAccepted,
           Ledger!Positions, Positions
  <2> QED
    BY <1>1, <2>3 DEF Ledger!LedgerNext
<1>5. CASE CommitsAssignment(t, u, a)
  <2>1. activity[t] # <<>> /\ t \notin closed
    BY <1>2, <1>5 DEF CommitsAssignment, Explains, AbsentRow
  <2>2. closed' = closed
    BY <1>5 DEF CommitsAssignment
  <2>3. assigned[t] = Ledger!CurrentAssignment(activity[t])
    BY <1>2 DEF Explains, Ledger!CurrentAssignment, CurrentAssignment, Ledger!Positions,
                Positions, Ledger!Latest, Latest, Ledger!Unassigned, Unassigned
  <2>4. Ledger!AddAssignment(t, u, a)
    BY <1>5, <2>1, <2>2, <2>3
       DEF CommitsAssignment, Ledger!AddAssignment, Ledger!Open, Ledger!Record,
           Ledger!AssignmentUpdatedEvent, AssignmentUpdatedEvent
  <2>5. a \in Ledger!Assignment
    BY <1>1 DEF Ledger!Assignment, Assignment
  <2> QED
    BY <1>1, <2>4, <2>5 DEF Ledger!LedgerNext
<1>6. CASE CommitsNothing
  BY <1>6 DEF CommitsNothing, Ledger!ledgerVars
<1> QED
  BY <1>1, <1>3, <1>4, <1>5, <1>6

LEMMA CloseIsLedgerStep ==
    ASSUME StoreInvariant, NEW t \in Tickets, Close(t)
    PROVE  Ledger!LedgerNext
<1>1. Explains(activity[t], row[t], assigned[t]) /\ row \in [Tickets -> Row]
  BY DEF StoreInvariant, HistoryExplainsTicket, TypeOK
<1>2. IsAccepted(activity[t])
  BY <1>1 DEF Close, Explains
<1>3. {s \in Tickets : row[s].status = "closed"}'
        = {s \in Tickets : row[s].status = "closed"} \cup {t}
  BY <1>1 DEF Close, ClosedRow
<1>4. activity' = activity
  BY DEF Close
<1>5. Ledger!AddClosure(t)
  BY <1>2, <1>3, <1>4
     DEF Ledger!AddClosure, Ledger!IsAccepted, IsAccepted, Ledger!Positions, Positions
<1> QED
  BY <1>5 DEF Ledger!LedgerNext

(* Every other step leaves the tables alone.                               *)
LEMMA OtherStepsKeepTables ==
    ASSUME Next, \A r \in Requests : ~Commit(r), \A t \in Tickets : ~Close(t)
    PROVE  row' = row /\ activity' = activity
<1>1. CASE AllAnswered
  BY <1>1 DEF AllAnswered, vars, tables
<1>2. ASSUME NEW r \in Requests, Arrive(r)
      PROVE  row' = row /\ activity' = activity
  BY <1>2 DEF Arrive, SubmitCreate, SubmitAccept, SubmitAssign, SubmitDetail, Submit, tables
<1>3. ASSUME NEW r \in Requests, NEW answer, Fail(r, answer)
      PROVE  row' = row /\ activity' = activity
  BY <1>3 DEF Fail, tables
<1>4. ASSUME NEW r \in Requests, CreateStep(r)
      PROVE  row' = row /\ activity' = activity
  BY <1>3, <1>4 DEF CreateStep, LockDepartment, CreateWithoutDepartment, LockLocation,
                    CreateWithoutLocation, InsertTicket, RecordCreation, tables
<1>5. ASSUME NEW r \in Requests, AcceptStep(r)
      PROVE  row' = row /\ activity' = activity
  BY <1>3, <1>5 DEF AcceptStep, LockPending, ReplayAcceptance, RefuseAcceptance, ClaimTicket,
                    RecordAcceptance, tables
<1>6. ASSUME NEW r \in Requests, AssignStep(r)
      PROVE  row' = row /\ activity' = activity
  BY <1>3, <1>6 DEF AssignStep, LockForAssignment, RefuseAssignment, LoadAssignment,
                    ValidateDepartments, ValidateUsers, ReplaceAssignment, RecordAssignment, tables
<1>7. ASSUME NEW r \in Requests, ReadStep(r) \/ TicketMissing(r) \/ Abort(r)
      PROVE  row' = row /\ activity' = activity
  BY <1>3, <1>7 DEF ReadStep, DetailMissing, ReadRow, ReadDepartments, ReadUsers, FinishDetail,
                    TicketMissing, Abort, tables
<1>8. ASSUME NEW x, Deactivate(x) \/ Activate(x)
      PROVE  row' = row /\ activity' = activity
  BY <1>8 DEF Deactivate, Activate, tables
<1> QED
  BY <1>1, <1>2, <1>4, <1>5, <1>6, <1>7, <1>8 DEF Next, Proceed

LEMMA NextIsLedgerStep ==
    ASSUME StoreInvariant, [Next]_vars
    PROVE  [Ledger!LedgerNext]_(Ledger!ledgerVars)
<1>1. CASE UNCHANGED vars
  BY <1>1 DEF vars, tables, Ledger!ledgerVars
<1>2. CASE \E r \in Requests : Commit(r)
  BY <1>2, CommitIsLedgerStep
<1>3. CASE \E t \in Tickets : Close(t)
  BY <1>3, CloseIsLedgerStep
<1>4. CASE /\ Next
           /\ \A r \in Requests : ~Commit(r)
           /\ \A t \in Tickets : ~Close(t)
  <2>1. row' = row /\ activity' = activity
    BY <1>4, OtherStepsKeepTables
  <2> QED
    BY <2>1 DEF Ledger!ledgerVars
<1> QED
  BY <1>1, <1>2, <1>3, <1>4

(* TicketStore implements TicketLedger: the committed history grows by     *)
(* whole events, with one acceptance, chained assignments, and nothing     *)
(* after the closure.                                                      *)
THEOREM StoreImplementsLedger == Spec => ImplementsLedger
<1>1. StoreInvariant /\ [Next]_vars => [Ledger!LedgerNext]_(Ledger!ledgerVars)
  BY NextIsLedgerStep
<1> QED
  BY <1>1, InitIsLedgerInit, InvariantHolds, PTL DEF Spec, ImplementsLedger, Ledger!LedgerSpec

-----------------------------------------------------------------------------
(* What is answered: the strengthening of StoreInvariant.                  *)

Held(r, x) == x \in active /\ r \in shareLocks[x]

(* A creation holds the lookup rows it has checked, and they are active.   *)
HoldsTargets(r) ==
    /\ pc[r] \in CreatePhases \ {"begun"} /\ req[r].op = "create" =>
          Held(r, req[r].department)
    /\ /\ pc[r] \in CreatePhases \ {"begun", "lock_location"}
       /\ req[r].op = "create"
       /\ req[r].location # None
       => Held(r, req[r].location)

(* What findByID has read back inside a transaction is what it will commit. *)
ReadsItsTicket(r) ==
    pc[r] # "idle" /\ req[r].op \in {"accept", "assign"} =>
        /\ pc[r] \in {"read_departments", "read_users", "commit"} =>
              reply[r].row = RowSeenBy(r)
        /\ pc[r] \in {"read_users", "commit"} =>
              reply[r].assignment.departments = DepartmentsSeenBy(r)
        /\ pc[r] = "commit" => reply[r].assignment.users = UsersSeenBy(r)

(* Once a detail has read a closed row, what it reads is final.            *)
ReadsFinalTicket(r) ==
    /\ pc[r] \in {"read_departments", "read_users", "done"}
    /\ req[r].op = "detail"
    /\ reply[r].row.status = "closed"
    => /\ reply[r].row = row[req[r].ticket]
       /\ pc[r] \in {"read_users", "done"} =>
             reply[r].assignment.departments = assigned[req[r].ticket].departments
       /\ pc[r] = "done" =>
             reply[r].assignment.users = assigned[req[r].ticket].users

Answering(r) == HoldsTargets(r) /\ ReadsItsTicket(r) /\ ReadsFinalTicket(r)

AnswersInvariant == StoreInvariant /\ \A r \in Requests : Answering(r)

-----------------------------------------------------------------------------
(* What a step of one request leaves alone.                                *)

(* Nobody else moves, and no lookup row changes or loses another's lock.   *)
LeavesOthers(r) ==
    /\ active' = active
    /\ \A q \in Requests \ {r} :
          Unmoved(q) /\ \A x \in Targets : q \in shareLocks[x] => q \in shareLocks'[x]

(* A step of r that changes no table, keeps what r knows, and tells r of   *)
(* a success only at the end of a detail.                                  *)
QuietStep(r) ==
    /\ LeavesOthers(r)
    /\ row' = row /\ assigned' = assigned
    /\ Answering(r)'
    /\ outcome[r] = "none" /\ outcome'[r] = "ok" => req[r].op = "detail"

(* No share lock is given up.                                              *)
SharesKept ==
    \A q \in Requests, x \in Targets : q \in shareLocks[x] => q \in shareLocks'[x]

(* A failure ends r and is not a success.                                  *)
LEMMA FailLeaves ==
    ASSUME StoreInvariant, NEW r \in Requests, NEW answer \in Outcomes \ {"ok"},
           Fail(r, answer)
    PROVE  /\ LeavesOthers(r)
           /\ row' = row /\ assigned' = assigned
           /\ req' = req /\ pc'[r] = "done"
           /\ outcome'[r] # "ok" /\ reply'[r] = NoReply
<1>1. TypeOK
  BY DEF StoreInvariant
<1> QED
  BY <1>1 DEF Fail, Finish, ReleaseLocks, tables, TypeOK, LeavesOthers, Unmoved

(* Going on inside a transaction leaves the others and the tables alone.   *)
LEMMA AdvanceLeaves ==
    ASSUME StoreInvariant, NEW r \in Requests, NEW phase, NEW w, NEW v,
           Advance(r, phase, w, v), SharesKept
    PROVE  /\ LeavesOthers(r)
           /\ row' = row /\ assigned' = assigned
           /\ req' = req /\ pc'[r] = phase /\ outcome' = outcome
           /\ tx'[r] = w /\ reply'[r] = v
<1>1. TypeOK
  BY DEF StoreInvariant
<1> QED
  BY <1>1 DEF Advance, SharesKept, TypeOK, LeavesOthers, Unmoved

(* The phases before anything is read back or locked for a creation.       *)
EarlyPhases ==
    {"idle", "begun", "claim", "record_acceptance", "load", "validate_departments",
     "validate_users", "replace", "record_assignment", "read_row"}

(* Nothing has to be shown of the replies of a request in these phases.    *)
LEMMA EarlyAnswering ==
    ASSUME NEW r \in Requests, pc'[r] \in EarlyPhases
    PROVE  Answering(r)'
BY DEF EarlyPhases, Answering, HoldsTargets, ReadsItsTicket, ReadsFinalTicket, CreatePhases

LEMMA FailIsQuiet ==
    ASSUME StoreInvariant, NEW r \in Requests, NEW answer \in Outcomes \ {"ok"},
           Fail(r, answer)
    PROVE  QuietStep(r)
<1>1. /\ LeavesOthers(r) /\ row' = row /\ assigned' = assigned
      /\ pc'[r] = "done" /\ outcome'[r] # "ok" /\ reply'[r] = NoReply
  BY FailLeaves
<1>2. Answering(r)'
  BY <1>1 DEF Answering, HoldsTargets, ReadsItsTicket, ReadsFinalTicket, CreatePhases,
              NoReply, AbsentRow
<1> QED
  BY <1>1, <1>2 DEF QuietStep

LEMMA FailingStepsAreQuiet ==
    ASSUME StoreInvariant, NEW r \in Requests,
           \/ CreateWithoutDepartment(r) \/ CreateWithoutLocation(r)
           \/ TicketMissing(r) \/ RefuseAcceptance(r) \/ RefuseAssignment(r)
           \/ DetailMissing(r) \/ Abort(r)
    PROVE  QuietStep(r)
<1>1. \E answer \in Outcomes \ {"ok"} : Fail(r, answer)
  BY DEF CreateWithoutDepartment, CreateWithoutLocation, TicketMissing, RefuseAcceptance,
         RefuseAssignment, DetailMissing, Abort, Outcomes
<1> QED
  BY <1>1, FailIsQuiet

LEMMA ArriveIsQuiet ==
    ASSUME StoreInvariant, NEW r \in Requests, Arrive(r)
    PROVE  QuietStep(r)
<1>0. PICK first \in {"begun", "read_row"} : \E request : Submit(r, first, request)
  BY DEF Arrive, SubmitCreate, SubmitAccept, SubmitAssign, SubmitDetail
<1>1. PICK request : Submit(r, first, request)
  BY <1>0
<1>2. TypeOK
  BY DEF StoreInvariant
<1>3. /\ pc' = [pc EXCEPT ![r] = first] /\ outcome' = outcome
      /\ req' = [req EXCEPT ![r] = request]
      /\ row' = row /\ assigned' = assigned /\ active' = active
      /\ shareLocks' = shareLocks /\ tx' = tx /\ reply' = reply
  BY <1>1 DEF Submit, Goto, tables, locks
<1>4. LeavesOthers(r)
  BY <1>2, <1>3 DEF LeavesOthers, Unmoved, TypeOK
<1>5. pc'[r] \in EarlyPhases
  BY <1>2, <1>3 DEF TypeOK, EarlyPhases
<1> QED
  BY <1>3, <1>4, <1>5, EarlyAnswering DEF QuietStep

(* Steps of a transaction whose replies nobody reads yet.                  *)
LEMMA EarlyAdvanceIsQuiet ==
    ASSUME StoreInvariant, NEW r \in Requests, NEW phase \in EarlyPhases, NEW w, NEW v,
           Advance(r, phase, w, v), SharesKept
    PROVE  QuietStep(r)
BY AdvanceLeaves, EarlyAnswering DEF QuietStep

-----------------------------------------------------------------------------
(* The steps of Create.                                                    *)

(* A lookup row that is locked is held, as are those locked before.        *)
LEMMA LockSharedHolds ==
    ASSUME StoreInvariant, NEW r \in Requests, NEW x \in active, LockShared(r, x),
           active' = active
    PROVE  SharesKept /\ Held(r, x)' /\ \A y \in Targets : Held(r, y) => Held(r, y)'
BY DEF StoreInvariant, TypeOK, LockShared, SharesKept, Held

LEMMA LockingTargetsIsQuiet ==
    ASSUME StoreInvariant, NEW r \in Requests, Answering(r),
           LockDepartment(r) \/ LockLocation(r)
    PROVE  QuietStep(r)
<1>1. /\ pc[r] \in {"begun", "lock_location"} /\ req[r].op = "create"
      /\ outcome[r] = "none"
  BY RunningRequest DEF LockDepartment, LockLocation, At
<1>2. /\ req[r].department \in Departments
      /\ pc[r] = "lock_location" => req[r].location \in Locations
  BY <1>1 DEF StoreInvariant, Knows, RequestShape
<1>3. CASE LockDepartment(r)
  <2>1. PICK phase \in {"insert_ticket", "lock_location"} :
           /\ Advance(r, phase, tx[r], reply[r])
           /\ phase = "insert_ticket" => req[r].location = None
    BY <1>3 DEF LockDepartment, Goto, Advance, tables, StoreInvariant, TypeOK
  <2>2. SharesKept /\ Held(r, req[r].department)'
    BY <1>3, LockSharedHolds DEF LockDepartment
  <2>3. LeavesOthers(r) /\ req' = req /\ pc'[r] = phase /\ row' = row
          /\ assigned' = assigned /\ outcome' = outcome
    BY <2>1, <2>2, AdvanceLeaves
  <2>4. Answering(r)'
    BY <1>1, <2>1, <2>2, <2>3
       DEF Answering, HoldsTargets, ReadsItsTicket, ReadsFinalTicket, CreatePhases, Held
  <2> QED
    BY <1>1, <2>3, <2>4 DEF QuietStep
<1>4. CASE LockLocation(r)
  <2>1. Advance(r, "insert_ticket", tx[r], reply[r])
    BY <1>4 DEF LockLocation, Goto, Advance, tables, StoreInvariant, TypeOK
  <2>2. Held(r, req[r].department)
    BY <1>1, <1>4 DEF LockLocation, At, Answering, HoldsTargets, CreatePhases
  <2>3. SharesKept /\ Held(r, req[r].location)' /\ Held(r, req[r].department)'
    BY <1>2, <1>4, <2>2, LockSharedHolds DEF LockLocation, Targets
  <2>4. LeavesOthers(r) /\ req' = req /\ pc'[r] = "insert_ticket" /\ row' = row
          /\ assigned' = assigned /\ outcome' = outcome
    BY <2>1, <2>3, AdvanceLeaves
  <2>5. Answering(r)'
    BY <1>1, <2>3, <2>4
       DEF Answering, HoldsTargets, ReadsItsTicket, ReadsFinalTicket, CreatePhases, Held
  <2> QED
    BY <1>1, <2>4, <2>5 DEF QuietStep
<1> QED
  BY <1>3, <1>4

LEMMA InsertingIsQuiet ==
    ASSUME StoreInvariant, NEW r \in Requests, Answering(r),
           InsertTicket(r) \/ RecordCreation(r)
    PROVE  QuietStep(r)
<1>1. PICK phase \in {"record_creation", "commit"} :
         /\ pc[r] \in CreatePhases \ {"begun", "lock_location"} /\ req[r].op = "create"
         /\ pc' = [pc EXCEPT ![r] = phase] /\ outcome' = outcome
         /\ row' = row /\ assigned' = assigned /\ active' = active
         /\ shareLocks' = shareLocks
         /\ \A q \in Requests \ {r} : tx'[q] = tx[q] /\ reply'[q] = reply[q] /\ req'[q] = req[q]
  BY DEF InsertTicket, RecordCreation, At, Goto, tables, locks, CreatePhases,
         StoreInvariant, TypeOK
<1>2. /\ req'[r].op = req[r].op
      /\ req'[r].department = req[r].department
      /\ req'[r].location = req[r].location
  <2>1. req[r] \in Request /\ r \in DOMAIN req
    BY <1>1 DEF StoreInvariant, TypeOK, Knows, RequestShape, CreatePhases
  <2> QED
    BY <2>1 DEF InsertTicket, RecordCreation, Request
<1>3. pc'[r] = phase /\ LeavesOthers(r)
  BY <1>1 DEF LeavesOthers, Unmoved, StoreInvariant, TypeOK
<1>4. Answering(r)'
  BY <1>1, <1>2, <1>3
     DEF Answering, HoldsTargets, ReadsItsTicket, ReadsFinalTicket, CreatePhases, Held
<1> QED
  BY <1>1, <1>3, <1>4 DEF QuietStep

LEMMA CreateIsQuiet ==
    ASSUME StoreInvariant, NEW r \in Requests, Answering(r), CreateStep(r)
    PROVE  QuietStep(r)
BY LockingTargetsIsQuiet, InsertingIsQuiet, FailingStepsAreQuiet DEF CreateStep

-----------------------------------------------------------------------------
(* The steps of Accept and Assign.                                         *)

LEMMA AcceptIsQuiet ==
    ASSUME StoreInvariant, NEW r \in Requests, AcceptStep(r)
    PROVE  QuietStep(r)
<1>1. CASE RefuseAcceptance(r)
  BY <1>1, FailingStepsAreQuiet
<1>2. CASE \/ LockPending(r) \/ ReplayAcceptance(r)
           \/ ClaimTicket(r) \/ RecordAcceptance(r)
  <2>1. \E phase \in EarlyPhases : \E w, v : Advance(r, phase, w, v)
    <3>1. reply = [reply EXCEPT ![r] = reply[r]] /\ tx = [tx EXCEPT ![r] = tx[r]]
      BY DEF StoreInvariant, TypeOK
    <3>2. CASE LockPending(r)
      <4>1. Advance(r, "claim", tx[r], reply[r])
        BY <3>1, <3>2 DEF LockPending, Goto, Advance, tables
      <4> QED
        BY <4>1 DEF EarlyPhases
    <3>3. CASE ReplayAcceptance(r)
      <4>1. Advance(r, "read_row", tx[r], reply[r])
        BY <3>1, <3>3 DEF ReplayAcceptance, Goto, Advance, tables
      <4> QED
        BY <4>1 DEF EarlyPhases
    <3>4. CASE ClaimTicket(r)
      <4>1. \E w : Advance(r, "record_acceptance", w, reply[r])
        BY <3>1, <3>4 DEF ClaimTicket, Goto, Advance, tables
      <4> QED
        BY <4>1 DEF EarlyPhases
    <3>5. CASE RecordAcceptance(r)
      <4>1. \E w : Advance(r, "read_row", w, reply[r])
        BY <3>1, <3>5 DEF RecordAcceptance, Goto, Advance, tables
      <4> QED
        BY <4>1 DEF EarlyPhases
    <3> QED
      BY <1>2, <3>2, <3>3, <3>4, <3>5
  <2>2. SharesKept
    BY <1>2 DEF LockPending, ReplayAcceptance, ClaimTicket, RecordAcceptance, LockRow,
                locks, SharesKept
  <2> QED
    BY <2>1, <2>2, EarlyAdvanceIsQuiet
<1> QED
  BY <1>1, <1>2 DEF AcceptStep

LEMMA AssignIsQuiet ==
    ASSUME StoreInvariant, NEW r \in Requests, AssignStep(r)
    PROVE  QuietStep(r)
<1>1. CASE RefuseAssignment(r)
  BY <1>1, FailingStepsAreQuiet
<1>2. CASE \E answer \in Outcomes \ {"ok"} : Fail(r, answer)
  BY <1>2, FailIsQuiet
<1>3. CASE /\ AssignStep(r) /\ ~RefuseAssignment(r)
           /\ ~\E answer \in Outcomes \ {"ok"} : Fail(r, answer)
  <2>1. {"department_unavailable", "user_unavailable"} \subseteq Outcomes \ {"ok"}
    BY DEF Outcomes
  <2>2. \E phase \in EarlyPhases : \E w, v : Advance(r, phase, w, v)
    <3>1. reply = [reply EXCEPT ![r] = reply[r]] /\ tx = [tx EXCEPT ![r] = tx[r]]
      BY DEF StoreInvariant, TypeOK
    <3>2. CASE LockForAssignment(r)
      <4>1. Advance(r, "load", tx[r], reply[r])
        BY <3>1, <3>2 DEF LockForAssignment, Goto, Advance, tables
      <4> QED
        BY <4>1 DEF EarlyPhases
    <3>3. CASE LoadAssignment(r)
      <4>1. \E v : Advance(r, "validate_departments", tx[r], v)
        BY <3>1, <3>3 DEF LoadAssignment, Goto, Advance, tables
      <4> QED
        BY <4>1 DEF EarlyPhases
    <3>4. CASE ValidateDepartments(r)
      <4>1. Advance(r, "validate_users", tx[r], reply[r])
        BY <1>3, <2>1, <3>1, <3>4 DEF ValidateDepartments, Goto, Advance, tables
      <4> QED
        BY <4>1 DEF EarlyPhases
    <3>5. CASE ValidateUsers(r)
      <4>1. \E phase \in {"read_row", "replace"} : Advance(r, phase, tx[r], reply[r])
        BY <1>3, <2>1, <3>1, <3>5 DEF ValidateUsers, Goto, Advance, tables
      <4> QED
        BY <4>1 DEF EarlyPhases
    <3>6. CASE ReplaceAssignment(r)
      <4>1. \E w : Advance(r, "record_assignment", w, reply[r])
        <5> DEFINE w == [tx[r] EXCEPT
                           !.removed = Removed(reply[r].assignment, req[r].assignment),
                           !.added   = AddedTargets(r)]
        <5>1. tx' = [tx EXCEPT ![r] = w]
          BY <3>6 DEF ReplaceAssignment, StoreInvariant, TypeOK
        <5> QED
          BY <3>1, <3>6, <5>1 DEF ReplaceAssignment, Goto, Advance, tables
      <4> QED
        BY <4>1 DEF EarlyPhases
    <3>7. CASE RecordAssignment(r)
      <4>1. \E w : Advance(r, "read_row", w, reply[r])
        BY <3>1, <3>7 DEF RecordAssignment, Goto, Advance, tables
      <4> QED
        BY <4>1 DEF EarlyPhases
    <3> QED
      BY <1>3, <3>2, <3>3, <3>4, <3>5, <3>6, <3>7 DEF AssignStep
  <2>3. SharesKept
    BY <1>3, <2>1 DEF AssignStep, LockForAssignment, LoadAssignment, ValidateDepartments,
                ValidateUsers, ReplaceAssignment, RecordAssignment, LockRow, locks, SharesKept
  <2> QED
    BY <2>2, <2>3, EarlyAdvanceIsQuiet
<1> QED
  BY <1>1, <1>2, <1>3

-----------------------------------------------------------------------------
(* Reading the ticket back.                                                *)

(* A detail writes nothing, so it sees the committed rows.                 *)
LEMMA DetailSees ==
    ASSUME StoreInvariant, NEW r \in Requests, pc[r] # "idle", req[r].op = "detail"
    PROVE  /\ RowSeenBy(r) = row[req[r].ticket]
           /\ DepartmentsSeenBy(r) = assigned[req[r].ticket].departments
           /\ UsersSeenBy(r) = assigned[req[r].ticket].users
<1>1. tx[r] = NoWrites
  BY DEF StoreInvariant, Knows, DetailKnows
<1>2. /\ tx[r].row = None
      /\ tx[r].removed.departments = {} /\ tx[r].removed.users = {}
      /\ tx[r].added.departments = {} /\ tx[r].added.users = {}
  BY <1>1 DEF NoWrites, Unassigned
<1> QED
  BY <1>2 DEF RowSeenBy, DepartmentsSeenBy, UsersSeenBy

(* A statement of findByID adds to the reply v of r, and r goes on.        *)
ReadsBack(r, phase, v) ==
    /\ pc' = [pc EXCEPT ![r] = phase]
    /\ row' = row /\ assigned' = assigned /\ req' = req
    /\ reply' = [reply EXCEPT ![r] = v]
    /\ LeavesOthers(r)
    /\ v.row = IF pc[r] = "read_row" THEN RowSeenBy(r) ELSE reply[r].row
    /\ v.assignment.departments = IF pc[r] = "read_departments"
                                  THEN DepartmentsSeenBy(r)
                                  ELSE reply[r].assignment.departments
    /\ v.assignment.users = IF pc[r] = "read_users"
                            THEN UsersSeenBy(r)
                            ELSE reply[r].assignment.users
    /\ \/ pc[r] = "read_row" /\ phase = "read_departments"
       \/ pc[r] = "read_departments" /\ phase = "read_users"
       \/ pc[r] = "read_users" /\ phase = "commit" /\ req[r].op # "detail"
       \/ pc[r] = "read_users" /\ phase = "done" /\ req[r].op = "detail"
    /\ phase = "done" \/ (outcome' = outcome /\ tx' = tx)

LEMMA ReadingCases ==
    ASSUME StoreInvariant, NEW r \in Requests,
           ReadRow(r) \/ ReadDepartments(r) \/ ReadUsers(r) \/ FinishDetail(r)
    PROVE  \E phase, v : ReadsBack(r, phase, v)
<1>1. TypeOK /\ reply[r] \in Reply /\ reply[r].assignment \in Assignment
  BY DEF StoreInvariant, TypeOK, Reply
<1>2. CASE ReadRow(r)
  <2> DEFINE v == [reply[r] EXCEPT !.row = RowSeenBy(r)]
  <2>1. /\ v.row = RowSeenBy(r) /\ v.assignment = reply[r].assignment
    BY <1>1 DEF Reply
  <2>2. ReadsBack(r, "read_departments", v)
    BY <1>1, <1>2, <2>1 DEF ReadRow, ReadsBack, Goto, locks, tables, LeavesOthers, Unmoved,
                          TypeOK
  <2> QED
    BY <2>2
<1>3. CASE ReadDepartments(r)
  <2> DEFINE v == [reply[r] EXCEPT !.assignment.departments = DepartmentsSeenBy(r)]
  <2>1. /\ v.row = reply[r].row /\ v.assignment.departments = DepartmentsSeenBy(r)
        /\ v.assignment.users = reply[r].assignment.users
    BY <1>1 DEF Reply, Assignment
  <2>2. ReadsBack(r, "read_users", v)
    BY <1>1, <1>3, <2>1 DEF ReadDepartments, ReadsBack, Goto, locks, tables, LeavesOthers, Unmoved,
                          TypeOK
  <2> QED
    BY <2>2
<1>4. CASE ReadUsers(r)
  <2> DEFINE v == [reply[r] EXCEPT !.assignment.users = UsersSeenBy(r)]
  <2>1. /\ v.row = reply[r].row /\ v.assignment.users = UsersSeenBy(r)
        /\ v.assignment.departments = reply[r].assignment.departments
    BY <1>1 DEF Reply, Assignment
  <2>2. ReadsBack(r, "commit", v)
    BY <1>1, <1>4, <2>1 DEF ReadUsers, ReadsBack, Goto, locks, tables, LeavesOthers, Unmoved,
                          TypeOK
  <2> QED
    BY <2>2
<1>5. CASE FinishDetail(r)
  <2> DEFINE v == [reply[r] EXCEPT !.assignment.users = UsersSeenBy(r)]
  <2>1. /\ v.row = reply[r].row /\ v.assignment.users = UsersSeenBy(r)
        /\ v.assignment.departments = reply[r].assignment.departments
    BY <1>1 DEF Reply, Assignment
  <2>2. ReadsBack(r, "done", v)
    BY <1>1, <1>5, <2>1 DEF FinishDetail, ReadsBack, At, Finish, ReleaseLocks, tables, LeavesOthers, Unmoved,
                          TypeOK
  <2> QED
    BY <2>2
<1> QED
  BY <1>2, <1>3, <1>4, <1>5

LEMMA ReadingIsQuiet ==
    ASSUME StoreInvariant, NEW r \in Requests, Answering(r),
           ReadRow(r) \/ ReadDepartments(r) \/ ReadUsers(r) \/ FinishDetail(r)
    PROVE  QuietStep(r)
<1>1. PICK phase, v : ReadsBack(r, phase, v)
  BY ReadingCases
<1>2. /\ pc'[r] = phase /\ reply'[r] = v /\ req' = req
      /\ row' = row /\ assigned' = assigned /\ LeavesOthers(r)
  BY <1>1 DEF ReadsBack, StoreInvariant, TypeOK
<1>3. phase # "done" => /\ RowSeenBy(r)' = RowSeenBy(r)
                        /\ DepartmentsSeenBy(r)' = DepartmentsSeenBy(r)
                        /\ UsersSeenBy(r)' = UsersSeenBy(r)
  BY <1>1, <1>2 DEF ReadsBack, RowSeenBy, DepartmentsSeenBy, UsersSeenBy
<1>4. HoldsTargets(r)'
  <2>1. req[r].op # "create"
    BY <1>1, RunningRequest DEF ReadsBack, InPhaseOf, CreatePhases
  <2> QED
    BY <1>2, <2>1 DEF HoldsTargets
<1>5. ReadsItsTicket(r)'
  BY <1>1, <1>2, <1>3 DEF ReadsBack, ReadsItsTicket, Answering
<1>6. ReadsFinalTicket(r)'
  <2>1. req[r].op = "detail" =>
           /\ RowSeenBy(r) = row[req[r].ticket]
           /\ DepartmentsSeenBy(r) = assigned[req[r].ticket].departments
           /\ UsersSeenBy(r) = assigned[req[r].ticket].users
    BY <1>1, DetailSees DEF ReadsBack
  <2> QED
    BY <1>1, <1>2, <2>1 DEF ReadsBack, ReadsFinalTicket, Answering
<1>7. outcome'[r] = "ok" /\ outcome[r] = "none" => req[r].op = "detail"
  BY <1>1 DEF ReadsBack
<1> QED
  BY <1>2, <1>4, <1>5, <1>6, <1>7 DEF QuietStep, Answering

LEMMA ReadIsQuiet ==
    ASSUME StoreInvariant, NEW r \in Requests, Answering(r), ReadStep(r)
    PROVE  QuietStep(r)
BY ReadingIsQuiet, FailingStepsAreQuiet DEF ReadStep

(* Every step of a request but a commit.                                   *)
LEMMA StepIsQuiet ==
    ASSUME StoreInvariant, NEW r \in Requests, Answering(r),
           Arrive(r) \/ Proceed(r) \/ Abort(r), ~Commit(r)
    PROVE  QuietStep(r)
BY ArriveIsQuiet, CreateIsQuiet, AcceptIsQuiet, AssignIsQuiet, ReadIsQuiet,
   FailingStepsAreQuiet
   DEF Proceed

-----------------------------------------------------------------------------
(* What a request knows survives the steps of others.                      *)

(* Closed tickets have their final row and assignment.                     *)
ClosedStay ==
    \A t \in Tickets :
        row[t].status = "closed" => row'[t] = row[t] /\ assigned'[t] = assigned[t]

LEMMA UnmovedAnswering ==
    ASSUME StoreInvariant, NEW q \in Requests, Answering(q), Unmoved(q), ClosedStay,
           \A x \in Targets : Held(q, x) => Held(q, x)',
           Relies(q) => /\ row'[req[q].ticket] = row[req[q].ticket]
                        /\ assigned'[req[q].ticket] = assigned[req[q].ticket]
    PROVE  Answering(q)'
<1>1. HoldsTargets(q)'
  <2>1. pc[q] \in CreatePhases /\ req[q].op = "create" =>
           /\ req[q].department \in Targets
           /\ req[q].location \in Targets \cup {None}
    BY DEF StoreInvariant, Knows, RequestShape, Request, CreatePhases, Targets
  <2> QED
    BY <2>1 DEF Answering, HoldsTargets, Unmoved, CreatePhases
<1>2. ReadsItsTicket(q)'
  <2>1. CASE /\ pc[q] \in {"read_departments", "read_users", "commit"}
             /\ req[q].op \in {"accept", "assign"}
    <3>1. Relies(q)
      BY <2>1 DEF Relies, AcceptLocked, AssignLocked, ReadBackPhases
    <3>2. /\ RowSeenBy(q)' = RowSeenBy(q)
          /\ DepartmentsSeenBy(q)' = DepartmentsSeenBy(q)
          /\ UsersSeenBy(q)' = UsersSeenBy(q)
      BY <3>1 DEF RowSeenBy, DepartmentsSeenBy, UsersSeenBy, Unmoved
    <3> QED
      BY <2>1, <3>2 DEF Answering, ReadsItsTicket, Unmoved
  <2>2. CASE ~(/\ pc[q] \in {"read_departments", "read_users", "commit"}
               /\ req[q].op \in {"accept", "assign"})
    BY <2>2 DEF ReadsItsTicket, Unmoved
  <2> QED
    BY <2>1, <2>2
<1>3. ReadsFinalTicket(q)'
  <2>1. pc[q] # "idle" /\ req[q].op = "detail" => req[q].ticket \in Tickets
    BY DEF StoreInvariant, Knows, RequestShape
  <2> QED
    BY <2>1 DEF Answering, ReadsFinalTicket, ClosedStay, Unmoved
<1> QED
  BY <1>1, <1>2, <1>3 DEF Answering

(* A commit of r writes the ticket r alone relies on, which is not closed, *)
(* or writes nothing.                                                      *)
LEMMA CommitLeaves ==
    ASSUME StoreInvariant, NEW r \in Requests, Commit(r)
    PROVE  /\ LeavesOthers(r)
           /\ ClosedStay
           /\ req' = req /\ pc'[r] = "done" /\ req[r].op # "detail"
           /\ \A q \in Requests \ {r} : Relies(q) =>
                 /\ row'[req[q].ticket] = row[req[q].ticket]
                 /\ assigned'[req[q].ticket] = assigned[req[q].ticket]
<1> DEFINE t == req[r].ticket
<1>1. /\ t \in Tickets
      /\ req[r].op \in {"create", "accept", "assign"}
      /\ \/ CommitsCreation(t, req[r].actor)
         \/ CommitsAcceptance(t, req[r].actor)
         \/ CommitsAssignment(t, req[r].actor, req[r].assignment)
         \/ CommitsNothing
  BY CommitCases
<1>2. TypeOK
  BY DEF StoreInvariant
<1>3. \A s \in Tickets \ {t} : row'[s] = row[s] /\ assigned'[s] = assigned[s]
  BY <1>1, <1>2 DEF CommitsCreation, CommitsAcceptance, CommitsAssignment, CommitsNothing,
                    TypeOK
<1>4. row[t].status = "closed" => row'[t] = row[t] /\ assigned'[t] = assigned[t]
  BY <1>1 DEF CommitsCreation, CommitsAcceptance, CommitsAssignment, CommitsNothing,
              AbsentRow, PendingRow
<1>5. /\ LeavesOthers(r) /\ req' = req /\ pc'[r] = "done" /\ pc[r] = "commit"
  BY <1>2 DEF Commit, Finish, ReleaseLocks, TypeOK, LeavesOthers, Unmoved
<1>6. Relies(r)
  BY <1>1, <1>5 DEF Relies, InCreation, AcceptLocked, AssignLocked, ReadBackPhases
<1>7. ASSUME NEW q \in Requests \ {r}, Relies(q)
      PROVE  req[q].ticket \in Tickets \ {t}
  BY <1>6, <1>7, ReliesExclusively, ReliesOnTicket
<1> QED
  BY <1>1, <1>3, <1>4, <1>5, <1>7 DEF ClosedStay

LEMMA RequestStepKeepsAnswering ==
    ASSUME AnswersInvariant, NEW r \in Requests, Arrive(r) \/ Proceed(r) \/ Abort(r)
    PROVE  \A q \in Requests : Answering(q)'
<1>1. /\ Answering(r)' /\ LeavesOthers(r) /\ ClosedStay
      /\ \A q \in Requests \ {r} : Relies(q) =>
            /\ row'[req[q].ticket] = row[req[q].ticket]
            /\ assigned'[req[q].ticket] = assigned[req[q].ticket]
  <2>1. CASE Commit(r)
    <3>1. pc'[r] = "done" /\ req' = req /\ req[r].op # "detail"
      BY <2>1, CommitLeaves DEF AnswersInvariant
    <3>2. Answering(r)'
      BY <3>1 DEF Answering, HoldsTargets, ReadsItsTicket, ReadsFinalTicket, CreatePhases
    <3> QED
      BY <2>1, <3>2, CommitLeaves DEF AnswersInvariant
  <2>2. CASE ~Commit(r)
    BY <2>2, StepIsQuiet DEF AnswersInvariant, QuietStep, ClosedStay
  <2> QED
    BY <2>1, <2>2
<1>2. ASSUME NEW q \in Requests \ {r}
      PROVE  Answering(q)'
  <2>1. Unmoved(q) /\ \A x \in Targets : Held(q, x) => Held(q, x)'
    BY <1>1 DEF LeavesOthers, Held
  <2> QED
    BY <1>1, <2>1, UnmovedAnswering DEF AnswersInvariant
<1> QED
  BY <1>1, <1>2

(* A deactivation waits for the holders of the row; a closure for the      *)
(* holder of the ticket.                                                   *)
LEMMA OutsideStepKeepsAnswering ==
    ASSUME AnswersInvariant,
           \/ \E x \in Switchable : Deactivate(x) \/ Activate(x)
           \/ \E t \in Tickets : Close(t)
           \/ UNCHANGED vars
    PROVE  /\ \A q \in Requests : Answering(q)' /\ Unmoved(q)
<1>1. \A q \in Requests : Unmoved(q)
  BY DEF Deactivate, Activate, Close, vars, requests, Unmoved
<1>2. \A q \in Requests, x \in Targets : Held(q, x) => Held(q, x)'
  BY DEF Deactivate, Activate, Close, vars, locks, Held
<1>3. ClosedStay
  BY DEF Deactivate, Activate, Close, vars, tables, ClosedStay, AnswersInvariant,
         StoreInvariant, TypeOK
<1>4. ASSUME NEW q \in Requests, Relies(q)
      PROVE  /\ row'[req[q].ticket] = row[req[q].ticket]
             /\ assigned'[req[q].ticket] = assigned[req[q].ticket]
  <2>1. CASE \E t \in Tickets : Close(t)
    <3>1. PICK t \in Tickets : Close(t)
      BY <2>1
    <3>2. req[q].ticket \in Tickets /\ q # None
      BY <1>4, ReliesOnTicket, IdsAreDistinct DEF AnswersInvariant
    <3>3. Knows(q)
      BY DEF AnswersInvariant, StoreInvariant
    <3>4. InCreation(q) => row[req[q].ticket] = AbsentRow
      BY <3>3 DEF Knows, CreateKnows
    <3>5. ~InCreation(q) => rowLock[req[q].ticket] = q
      BY <1>4, <3>3 DEF Relies, Knows, AcceptKnows, AssignKnows
    <3>6. req[q].ticket # t
      BY <3>1, <3>2, <3>4, <3>5 DEF Close, AbsentRow
    <3> QED
      BY <3>1, <3>2, <3>6 DEF Close, AnswersInvariant, StoreInvariant, TypeOK
  <2>2. CASE row' = row /\ assigned' = assigned
    BY <2>2
  <2> QED
    BY <2>1, <2>2 DEF Deactivate, Activate, vars, tables
<1> QED
  BY <1>1, <1>2, <1>3, <1>4, UnmovedAnswering DEF AnswersInvariant

LEMMA NextKeepsAnswers == AnswersInvariant /\ [Next]_vars => AnswersInvariant'
<1> SUFFICES ASSUME AnswersInvariant, [Next]_vars
             PROVE  AnswersInvariant'
  OBVIOUS
<1>1. StoreInvariant'
  BY NextKeeps DEF AnswersInvariant
<1>2. \A q \in Requests : Answering(q)'
  BY RequestStepKeepsAnswering, OutsideStepKeepsAnswering DEF Next, AllAnswered
<1> QED
  BY <1>1, <1>2 DEF AnswersInvariant

LEMMA InitAnswers == Init => AnswersInvariant
<1> SUFFICES ASSUME Init
             PROVE  AnswersInvariant
  OBVIOUS
<1>1. \A r \in Requests : pc[r] = "idle"
  BY DEF Init
<1>2. \A r \in Requests : Answering(r)
  BY <1>1 DEF Answering, HoldsTargets, ReadsItsTicket, ReadsFinalTicket, CreatePhases
<1> QED
  BY <1>2, InitEstablishes DEF AnswersInvariant

LEMMA AnswersInvariantHolds == Spec => []AnswersInvariant
BY InitAnswers, NextKeepsAnswers, PTL DEF Spec

-----------------------------------------------------------------------------
(* The three properties.                                                   *)

(* A success is told at the end of a detail, or by a commit.               *)
LEMMA SuccessIsCommit ==
    ASSUME AnswersInvariant, [Next]_vars, NEW r \in Requests,
           outcome[r] = "none", outcome'[r] = "ok", req[r].op # "detail"
    PROVE  Commit(r)
<1>1. ~Unmoved(r)
  BY DEF Unmoved
<1>2. PICK s \in Requests : Arrive(s) \/ Proceed(s) \/ Abort(s)
  BY <1>1, OutsideStepKeepsAnswering DEF Next, AllAnswered
<1>3. CASE Commit(s)
  BY <1>1, <1>3, CommitLeaves DEF AnswersInvariant, LeavesOthers
<1>4. CASE ~Commit(s)
  BY <1>1, <1>2, <1>4, StepIsQuiet DEF AnswersInvariant, QuietStep, LeavesOthers
<1> QED
  BY <1>3, <1>4

(* What a successful commit writes, and what it answers.                   *)
LEMMA CommitAnswers ==
    ASSUME AnswersInvariant, NEW r \in Requests, Commit(r), outcome'[r] = "ok"
    PROVE  /\ reply'[r] = reply[r] /\ req' = req /\ active' = active
           /\ req[r].ticket \in Tickets /\ pc[r] = "commit"
           /\ row'[req[r].ticket] = RowSeenBy(r)
           /\ assigned'[req[r].ticket] =
                 [departments |-> DepartmentsSeenBy(r), users |-> UsersSeenBy(r)]
<1>1. req[r].ticket \in Tickets
  BY CommitCases DEF AnswersInvariant
<1>2. TypeOK
  BY DEF AnswersInvariant, StoreInvariant
<1> QED
  BY <1>1, <1>2 DEF Commit, Finish, TypeOK

(* A ticket that is not there has no assignment.                           *)
LEMMA AbsentIsUnassigned ==
    ASSUME StoreInvariant, NEW t \in Tickets, row[t] = AbsentRow
    PROVE  assigned[t] = Unassigned
<1>1. activity[t] = <<>> /\ assigned[t] = CurrentAssignment(activity[t])
  BY DEF StoreInvariant, HistoryExplainsTicket, Explains
<1>2. Positions(<<>>, "assignment_updated") = {}
  BY DEF Positions
<1> QED
  BY <1>1, <1>2 DEF CurrentAssignment

(* Create answers only when the department and the location it was asked   *)
(* for are active as it commits: they are locked FOR SHARE since it        *)
(* checked them, and an update of is_active waits for that lock.           *)
THEOREM CreatedForActive == Spec => CreatedForActiveTargets
<1>1. ASSUME AnswersInvariant, [Next]_vars, NEW r \in Requests,
             outcome[r] = "none", outcome'[r] = "ok", req[r].op = "create"
      PROVE  {req[r].department, req[r].location} \subseteq active' \cup {None}
  <2>1. Commit(r)
    BY <1>1, SuccessIsCommit
  <2>2. pc[r] = "commit" /\ active' = active
    BY <1>1, <2>1, CommitAnswers
  <2> QED
    BY <1>1, <2>2 DEF AnswersInvariant, Answering, HoldsTargets, Held, CreatePhases
<1>2. AnswersInvariant /\ [Next]_vars =>
        [\A r \in Requests :
            outcome[r] = "none" /\ outcome'[r] = "ok" /\ req[r].op = "create" =>
               {req[r].department, req[r].location} \subseteq active' \cup {None}]_vars
  BY <1>1
<1> QED
  BY <1>2, AnswersInvariantHolds, PTL DEF Spec, CreatedForActiveTargets

(* Create, Accept and ReplaceAssignments answer with the ticket that their *)
(* commit leaves: findByID runs before it, on the rows they have locked.   *)
THEOREM AnswersAreCommitted == Spec => RepliesWithWhatItCommits
<1>1. ASSUME AnswersInvariant, [Next]_vars, NEW r \in Requests,
             outcome[r] = "none", outcome'[r] = "ok", req[r].op # "detail"
      PROVE  reply'[r] = [row        |-> row'[req'[r].ticket],
                          assignment |-> assigned'[req'[r].ticket]]
  <2> DEFINE seen == [departments |-> DepartmentsSeenBy(r), users |-> UsersSeenBy(r)]
  <2>1. Commit(r)
    BY <1>1, SuccessIsCommit
  <2>2. /\ reply'[r] = reply[r] /\ req' = req /\ pc[r] = "commit"
        /\ req[r].ticket \in Tickets
        /\ row'[req[r].ticket] = RowSeenBy(r)
        /\ assigned'[req[r].ticket] = seen
    BY <1>1, <2>1, CommitAnswers
  <2>3. StoreInvariant /\ Knows(r) /\ Answering(r) /\ reply[r] \in Reply
    BY <1>1 DEF AnswersInvariant, StoreInvariant, TypeOK
  <2>4. req[r].op \in {"create", "accept", "assign"}
    BY <2>1, <2>3, CommitCases
  <2>5. reply[r] = [row |-> RowSeenBy(r), assignment |-> seen]
    <3>1. CASE req[r].op = "create"
      <4>1. /\ row[req[r].ticket] = AbsentRow
            /\ tx[r] = [NoWrites EXCEPT !.row = PendingRow,
                                        !.event = CreatedEvent(req[r].actor)]
            /\ reply[r] = [row |-> PendingRow, assignment |-> Unassigned]
        BY <2>2, <2>3, <3>1 DEF Knows, CreateKnows, InCreation
      <4>2. assigned[req[r].ticket] = Unassigned
        BY <2>2, <2>3, <4>1, AbsentIsUnassigned
      <4>3. /\ tx[r].row = PendingRow
            /\ tx[r].removed = Unassigned /\ tx[r].added = Unassigned
        BY <4>1 DEF NoWrites
      <4>4. PendingRow # None
        BY NullIsDistinct, Shapes
      <4>5. RowSeenBy(r) = PendingRow
        BY <4>3, <4>4 DEF RowSeenBy
      <4>6. DepartmentsSeenBy(r) = {} /\ UsersSeenBy(r) = {}
        BY <4>2, <4>3 DEF DepartmentsSeenBy, UsersSeenBy, Unassigned
      <4>7. seen = Unassigned
        BY <4>6 DEF Unassigned
      <4> QED
        BY <4>1, <4>5, <4>7
    <3>2. CASE req[r].op \in {"accept", "assign"}
      <4>1. /\ reply[r].row = RowSeenBy(r)
            /\ reply[r].assignment.departments = DepartmentsSeenBy(r)
            /\ reply[r].assignment.users = UsersSeenBy(r)
        BY <2>2, <2>3, <3>2 DEF Answering, ReadsItsTicket
      <4>2. reply[r].assignment = seen
        BY <2>3, <4>1 DEF Reply, Assignment
      <4> QED
        BY <2>3, <4>1, <4>2 DEF Reply
    <3> QED
      BY <2>4, <3>1, <3>2
  <2> QED
    BY <2>2, <2>5
<1>2. AnswersInvariant /\ [Next]_vars =>
        [\A r \in Requests :
            outcome[r] = "none" /\ outcome'[r] = "ok" /\ req[r].op # "detail" =>
               reply'[r] = [row        |-> row'[req'[r].ticket],
                            assignment |-> assigned'[req'[r].ticket]]]_vars
  BY <1>1
<1> QED
  BY <1>2, AnswersInvariantHolds, PTL DEF Spec, RepliesWithWhatItCommits

(* A detail that shows a closed ticket shows its final row and assignment, *)
(* although its statements read three snapshots.                           *)
THEOREM ClosedDetailsAreFinal == Spec => []ClosedDetailIsFinal
<1>1. AnswersInvariant => ClosedDetailIsFinal
  <2> SUFFICES ASSUME AnswersInvariant, NEW r \in Requests,
                      outcome[r] = "ok", req[r].op = "detail",
                      reply[r].row.status = "closed"
               PROVE  reply[r] = [row        |-> row[req[r].ticket],
                                  assignment |-> assigned[req[r].ticket]]
    BY DEF ClosedDetailIsFinal
  <2>1. RequestShape(r) /\ ReadsFinalTicket(r) /\ reply[r] \in Reply
    BY DEF AnswersInvariant, StoreInvariant, TypeOK, Knows, Answering
  <2>2. pc[r] = "done"
    BY <2>1 DEF RequestShape
  <2>3. assigned[req[r].ticket] \in Assignment
    BY <2>2 DEF AnswersInvariant, StoreInvariant, TypeOK, Knows, RequestShape
  <2>4. /\ reply[r].row = row[req[r].ticket]
        /\ reply[r].assignment.departments = assigned[req[r].ticket].departments
        /\ reply[r].assignment.users = assigned[req[r].ticket].users
    BY <2>1, <2>2 DEF ReadsFinalTicket
  <2>5. reply[r].assignment = assigned[req[r].ticket]
    BY <2>1, <2>3, <2>4 DEF Reply, Assignment
  <2> QED
    BY <2>1, <2>4, <2>5 DEF Reply
<1> QED
  BY <1>1, AnswersInvariantHolds, PTL
=============================================================================
