---------------------------- MODULE TicketStore ----------------------------
(***************************************************************************)
(* client/tickets: the create, accept, assign and detail handlers as       *)
(* concurrent transactions over the tickets, assignment and                *)
(* ticket_activity tables.                                                 *)
(*                                                                         *)
(* Each request is one handler call.  It takes one step per SQL statement  *)
(* whose effect or answer another transaction can influence; what a        *)
(* transaction has written stays in its own buffer until Commit, and       *)
(* statements read committed rows through that buffer (READ COMMITTED).    *)
(* SELECT ... FOR UPDATE on a ticket row is rowLock, SELECT ... FOR SHARE  *)
(* on a department or location row is shareLocks.                          *)
(***************************************************************************)
EXTENDS ActivityLog

CONSTANTS
    Locations,  \* location ids
    Existing,   \* the tickets created before the model starts
    Requests,   \* handler calls; each one is used once
    Switchable  \* the lookup rows whose is_active may change (a bound)

(* Ids of the lookup tables, all of them rows with an is_active column.    *)
Targets == Users \cup Departments \cup Locations

(* A lookup row is identified by its id alone in "active" and              *)
(* "shareLocks", so the three tables' ids are told apart.                  *)
ASSUME IdsAreDistinct ==
    /\ Users \cap Departments = {}
    /\ Users \cap Locations = {}
    /\ Departments \cap Locations = {}
    /\ None \notin Targets \cup Tickets \cup Requests
    /\ Switchable \subseteq Targets
    /\ Existing \subseteq Tickets

VARIABLES
    row,         \* row[t]: status and accepted_by of the committed ticket row
    assigned,    \* assigned[t]: the committed assignment membership rows
    activity,    \* activity[t]: the committed ticket_activity rows of t
    active,      \* the lookup rows whose is_active is TRUE
    issued,      \* ticket ids taken from the sequence, committed or not
    rowLock,     \* rowLock[t]: the request whose transaction holds FOR UPDATE
    shareLocks,  \* shareLocks[x]: the requests that hold FOR SHARE on row x
    pc,          \* pc[r]: the next statement of request r
    req,         \* req[r]: what r asks for, as validated by its handler
    tx,          \* tx[r]: the uncommitted writes of r's transaction
    reply,       \* reply[r]: the Ticket value r has read or built so far
    outcome      \* outcome[r]: the answer of a finished request

tables   == <<row, assigned, activity>>
locks    == <<rowLock, shareLocks>>
requests == <<pc, req, tx, reply, outcome>>
vars     == <<tables, active, issued, locks, requests>>

-----------------------------------------------------------------------------
(* Rows, requests and transaction buffers.                                 *)

AbsentRow      == [status |-> "absent", acceptedBy |-> None]
PendingRow     == [status |-> "pending", acceptedBy |-> None]
AcceptedRow(u) == [status |-> "accepted", acceptedBy |-> u]
ClosedRow(u)   == [status |-> "closed", acceptedBy |-> u]

(* The combinations the CHECK constraints of the tickets table admit, and  *)
(* the row that is not there.                                              *)
Row == {AbsentRow, PendingRow}
         \cup {AcceptedRow(u) : u \in Users}
         \cup {ClosedRow(u) : u \in Users}

(* The NULL of the models is neither a row nor an event.                   *)
ASSUME NullIsDistinct == None \notin Row \cup Event

Operations == {"create", "accept", "assign", "detail"}

Request ==
    [op         : Operations,
     actor      : Users,
     ticket     : Tickets \cup {None},
     department : Departments \cup {None},
     location   : Locations \cup {None},
     assignment : Assignment]

Buffer ==
    [row     : Row \cup {None},  \* None: the row is not written
     removed : Assignment,
     added   : Assignment,
     event   : Event \cup {None}]

NoWrites == [row |-> None, removed |-> Unassigned, added |-> Unassigned, event |-> None]

Reply == [row : Row, assignment : Assignment]

NoReply == [row |-> AbsentRow, assignment |-> Unassigned]

Outcomes ==
    {"none", "ok", "error", "not_found", "already_accepted", "closed",
     "department_unavailable", "location_unavailable", "user_unavailable"}

Phases ==
    {"idle", "begun", "done",
     "lock_location", "insert_ticket", "record_creation",
     "claim", "record_acceptance",
     "load", "validate_departments", "validate_users", "replace", "record_assignment",
     "read_row", "read_departments", "read_users", "commit"}

(* assignmentDiff, on the sets its two id lists stand for.                 *)
Removed(current, requested) ==
    [departments |-> current.departments \ requested.departments,
     users       |-> current.users \ requested.users]

Added(current, requested) == Removed(requested, current)

(* What a statement of r's transaction reads: committed rows, overlaid     *)
(* with the transaction's own writes.                                      *)
RowSeenBy(r) ==
    IF tx[r].row = None THEN row[req[r].ticket] ELSE tx[r].row

DepartmentsSeenBy(r) ==
    (assigned[req[r].ticket].departments \ tx[r].removed.departments)
      \cup tx[r].added.departments

UsersSeenBy(r) ==
    (assigned[req[r].ticket].users \ tx[r].removed.users)
      \cup tx[r].added.users

-----------------------------------------------------------------------------
(* Locks, and how a request ends.                                          *)

(* Slip: the row is read without FOR UPDATE.                               *)
RowLockIgnored(r, t) == TRUE

(* Another transaction's FOR UPDATE or UPDATE makes the statement wait.    *)
RowLockFree(r, t) == rowLock[t] \in {None, r}

(* Slip: the row lock is waited for, not kept (a SELECT on the pool).      *)
LockRowForStatement(r, t) == RowLockFree(r, t) /\ UNCHANGED <<rowLock, shareLocks>>

LockRow(r, t) ==
    /\ RowLockFree(r, t)
    /\ rowLock' = [rowLock EXCEPT ![t] = r]
    /\ UNCHANGED shareLocks

(* Slip: the lookup row is checked without FOR SHARE.                      *)
LockSharedNothing(r, x) == UNCHANGED <<rowLock, shareLocks>>

(* FOR SHARE on a lookup row; an is_active update of it waits for r.       *)
LockShared(r, x) ==
    /\ shareLocks' = [shareLocks EXCEPT ![x] = @ \cup {r}]
    /\ UNCHANGED rowLock

(* Slip: an early return without the deferred Rollback.                    *)
ReleaseNothing(r) == UNCHANGED <<rowLock, shareLocks>>

ReleaseLocks(r) ==
    /\ rowLock' = [t \in Tickets |-> IF rowLock[t] = r THEN None ELSE rowLock[t]]
    /\ shareLocks' = [x \in Targets |-> shareLocks[x] \ {r}]

Goto(r, phase) ==
    /\ pc' = [pc EXCEPT ![r] = phase]
    /\ UNCHANGED outcome

(* Every return of a handler: the deferred Rollback, or the Commit before  *)
(* it, ends the transaction, which gives up its buffer and its locks.      *)
Finish(r, answer, ticket) ==
    /\ pc' = [pc EXCEPT ![r] = "done"]
    /\ outcome' = [outcome EXCEPT ![r] = answer]
    /\ reply' = [reply EXCEPT ![r] = ticket]
    /\ tx' = [tx EXCEPT ![r] = NoWrites]
    /\ ReleaseLocks(r)

Fail(r, answer) ==
    /\ Finish(r, answer, NoReply)
    /\ UNCHANGED <<tables, active, issued, req>>

At(r, op, phase) == pc[r] = phase /\ req[r].op = op

-----------------------------------------------------------------------------
(* A request arrives: RequireAuth has found an active user, the handler    *)
(* has validated the body, and the repository method begins (Begin takes   *)
(* no lock and no snapshot under READ COMMITTED).                          *)

Submit(r, first, request) ==
    /\ pc[r] = "idle"
    /\ request.actor \in active
    /\ Goto(r, first)
    /\ req' = [req EXCEPT ![r] = request]
    /\ UNCHANGED <<tables, active, issued, locks, tx, reply>>

SubmitCreate(r) ==
    \E u \in Users, d \in Departments, l \in Locations \cup {None} :
        Submit(r, "begun",
               [op |-> "create", actor |-> u, ticket |-> None,
                department |-> d, location |-> l, assignment |-> Unassigned])

SubmitAccept(r) ==
    \E u \in Users, t \in Tickets :
        Submit(r, "begun",
               [op |-> "accept", actor |-> u, ticket |-> t,
                department |-> None, location |-> None, assignment |-> Unassigned])

SubmitAssign(r) ==
    \E u \in Users, t \in Tickets, a \in Assignment :
        Submit(r, "begun",
               [op |-> "assign", actor |-> u, ticket |-> t,
                department |-> None, location |-> None, assignment |-> a])

SubmitDetail(r) ==
    \E u \in Users, t \in Tickets :
        Submit(r, "read_row",
               [op |-> "detail", actor |-> u, ticket |-> t,
                department |-> None, location |-> None, assignment |-> Unassigned])

-----------------------------------------------------------------------------
(* Create.                                                                 *)

(* SELECT ... FROM departments WHERE id = $1 AND is_active = TRUE FOR SHARE *)
LockDepartment(r) ==
    /\ At(r, "create", "begun")
    /\ req[r].department \in active
    /\ LockShared(r, req[r].department)
    /\ Goto(r, IF req[r].location = None THEN "insert_ticket" ELSE "lock_location")
    /\ UNCHANGED <<tables, active, issued, req, tx, reply>>

CreateWithoutDepartment(r) ==
    /\ At(r, "create", "begun")
    /\ req[r].department \notin active
    /\ Fail(r, "department_unavailable")

(* The same for the optional location.                                     *)
LockLocation(r) ==
    /\ At(r, "create", "lock_location")
    /\ req[r].location \in active
    /\ LockShared(r, req[r].location)
    /\ Goto(r, "insert_ticket")
    /\ UNCHANGED <<tables, active, issued, req, tx, reply>>

CreateWithoutLocation(r) ==
    /\ At(r, "create", "lock_location")
    /\ req[r].location \notin active
    /\ Fail(r, "location_unavailable")

(* Slip: the next id is computed from the committed rows.                  *)
InsertTicketWithNextId(r) ==
    /\ At(r, "create", "insert_ticket")
    /\ \E t \in Tickets :
          /\ row[t] = AbsentRow
          /\ issued' = issued \cup {t}
          /\ req' = [req EXCEPT ![r].ticket = t]
    /\ tx' = [tx EXCEPT ![r].row = PendingRow]
    /\ reply' = [reply EXCEPT ![r] = [row |-> PendingRow, assignment |-> Unassigned]]
    /\ Goto(r, "record_creation")
    /\ UNCHANGED <<tables, active, locks>>

(* INSERT INTO tickets ... RETURNING id: the sequence hands out a fresh    *)
(* id, which a rollback does not give back.  The reply is built from local *)
(* values, with no assignment.                                             *)
InsertTicket(r) ==
    /\ At(r, "create", "insert_ticket")
    /\ \E t \in Tickets \ issued :
          /\ issued' = issued \cup {t}
          /\ req' = [req EXCEPT ![r].ticket = t]
    /\ tx' = [tx EXCEPT ![r].row = PendingRow]
    /\ reply' = [reply EXCEPT ![r] = [row |-> PendingRow, assignment |-> Unassigned]]
    /\ Goto(r, "record_creation")
    /\ UNCHANGED <<tables, active, locks>>

RecordCreation(r) ==
    /\ At(r, "create", "record_creation")
    /\ tx' = [tx EXCEPT ![r].event = CreatedEvent(req[r].actor)]
    /\ Goto(r, "commit")
    /\ UNCHANGED <<tables, active, issued, locks, req, reply>>

-----------------------------------------------------------------------------
(* Accept and Assign lock the ticket row first.                            *)

TicketMissing(r) ==
    /\ pc[r] = "begun"
    /\ req[r].op \in {"accept", "assign"}
    /\ row[req[r].ticket] = AbsentRow
    /\ Fail(r, "not_found")

(* SELECT status, accepted_by FROM tickets WHERE id = $1 FOR UPDATE, and   *)
(* the switch on what it returned.                                         *)
LocksRow(r, op) ==
    /\ At(r, op, "begun")
    /\ RowLockFree(r, req[r].ticket)

LockPending(r) ==
    /\ LocksRow(r, "accept")
    /\ row[req[r].ticket].status = "pending"
    /\ LockRow(r, req[r].ticket)
    /\ Goto(r, "claim")
    /\ UNCHANGED <<tables, active, issued, req, tx, reply>>

(* Slip: an accepted ticket is replayed to whoever asks.                   *)
ReplayAnyAcceptance(r) ==
    /\ LocksRow(r, "accept")
    /\ row[req[r].ticket].status = "accepted"
    /\ LockRow(r, req[r].ticket)
    /\ Goto(r, "read_row")
    /\ UNCHANGED <<tables, active, issued, req, tx, reply>>

(* The caller accepted it before: nothing is written.                      *)
ReplayAcceptance(r) ==
    /\ LocksRow(r, "accept")
    /\ row[req[r].ticket] = AcceptedRow(req[r].actor)
    /\ LockRow(r, req[r].ticket)
    /\ Goto(r, "read_row")
    /\ UNCHANGED <<tables, active, issued, req, tx, reply>>

RefuseAcceptance(r) ==
    /\ LocksRow(r, "accept")
    /\ \/ /\ row[req[r].ticket].status = "accepted"
          /\ row[req[r].ticket].acceptedBy # req[r].actor
          /\ Fail(r, "already_accepted")
       \/ /\ row[req[r].ticket].status = "closed"
          /\ Fail(r, "closed")

(* UPDATE tickets SET status = 'accepted', accepted_by = $2, ...           *)
(* WHERE id = $1 AND status = 'pending'                                    *)
ClaimTicket(r) ==
    /\ At(r, "accept", "claim")
    /\ RowLockFree(r, req[r].ticket)
    /\ RowSeenBy(r).status = "pending"
    /\ tx' = [tx EXCEPT ![r].row = AcceptedRow(req[r].actor)]
    /\ Goto(r, "record_acceptance")
    /\ UNCHANGED <<tables, active, issued, locks, req, reply>>

RecordAcceptance(r) ==
    /\ At(r, "accept", "record_acceptance")
    /\ tx' = [tx EXCEPT ![r].event = AcceptedEvent(req[r].actor)]
    /\ Goto(r, "read_row")
    /\ UNCHANGED <<tables, active, issued, locks, req, reply>>

-----------------------------------------------------------------------------
(* Assign.  The current assignment it loads is kept in reply until the     *)
(* read-back overwrites it.                                                *)

(* Slip: closed tickets stay assignable.                                   *)
LockAnyForAssignment(r) ==
    /\ LocksRow(r, "assign")
    /\ row[req[r].ticket] # AbsentRow
    /\ LockRow(r, req[r].ticket)
    /\ Goto(r, "load")
    /\ UNCHANGED <<tables, active, issued, req, tx, reply>>

LockForAssignment(r) ==
    /\ LocksRow(r, "assign")
    /\ row[req[r].ticket].status \in {"pending", "accepted"}
    /\ LockRow(r, req[r].ticket)
    /\ Goto(r, "load")
    /\ UNCHANGED <<tables, active, issued, req, tx, reply>>

RefuseAssignment(r) ==
    /\ LocksRow(r, "assign")
    /\ row[req[r].ticket].status = "closed"
    /\ Fail(r, "closed")

(* loadAssignmentIDs                                                       *)
LoadAssignment(r) ==
    /\ At(r, "assign", "load")
    /\ reply' = [reply EXCEPT ![r].assignment = assigned[req[r].ticket]]
    /\ Goto(r, "validate_departments")
    /\ UNCHANGED <<tables, active, issued, locks, req, tx>>

(* validateAssignmentTargets: two plain SELECTs, which lock nothing.       *)
AddedTargets(r) == Added(reply[r].assignment, req[r].assignment)

ValidateDepartments(r) ==
    /\ At(r, "assign", "validate_departments")
    /\ \/ /\ AddedTargets(r).departments \subseteq active
          /\ Goto(r, "validate_users")
          /\ UNCHANGED <<tables, active, issued, locks, req, tx, reply>>
       \/ /\ ~(AddedTargets(r).departments \subseteq active)
          /\ Fail(r, "department_unavailable")

ValidateUsers(r) ==
    /\ At(r, "assign", "validate_users")
    /\ \/ /\ AddedTargets(r).users \subseteq active
          /\ Goto(r, IF reply[r].assignment = req[r].assignment
                     THEN "read_row" ELSE "replace")
          /\ UNCHANGED <<tables, active, issued, locks, req, tx, reply>>
       \/ /\ ~(AddedTargets(r).users \subseteq active)
          /\ Fail(r, "user_unavailable")

(* replaceDepartmentAssignments and replaceUserAssignments                 *)
ReplaceAssignment(r) ==
    /\ At(r, "assign", "replace")
    /\ tx' = [tx EXCEPT ![r].removed = Removed(reply[r].assignment, req[r].assignment),
                        ![r].added   = AddedTargets(r)]
    /\ Goto(r, "record_assignment")
    /\ UNCHANGED <<tables, active, issued, locks, req, reply>>

(* Slip: the before lists are read after the replacement.                  *)
RecordAssignmentLate(r) ==
    /\ At(r, "assign", "record_assignment")
    /\ tx' = [tx EXCEPT ![r].event =
                 AssignmentUpdatedEvent(req[r].actor, req[r].assignment, req[r].assignment)]
    /\ Goto(r, "read_row")
    /\ UNCHANGED <<tables, active, issued, locks, req, reply>>

(* UPDATE tickets SET updated_at, then the activity with both id lists.    *)
RecordAssignment(r) ==
    /\ At(r, "assign", "record_assignment")
    /\ RowLockFree(r, req[r].ticket)
    /\ tx' = [tx EXCEPT ![r].event =
                 AssignmentUpdatedEvent(req[r].actor, reply[r].assignment, req[r].assignment)]
    /\ Goto(r, "read_row")
    /\ UNCHANGED <<tables, active, issued, locks, req, reply>>

-----------------------------------------------------------------------------
(* findByID: three statements, inside the transaction of accept and        *)
(* assign, each on its own pool connection for the detail handler.         *)

DetailMissing(r) ==
    /\ At(r, "detail", "read_row")
    /\ RowSeenBy(r) = AbsentRow
    /\ Fail(r, "not_found")

ReadRow(r) ==
    /\ pc[r] = "read_row"
    /\ RowSeenBy(r) # AbsentRow
    /\ reply' = [reply EXCEPT ![r].row = RowSeenBy(r)]
    /\ Goto(r, "read_departments")
    /\ UNCHANGED <<tables, active, issued, locks, req, tx>>

(* loadDepartmentAssignments                                               *)
ReadDepartments(r) ==
    /\ pc[r] = "read_departments"
    /\ reply' = [reply EXCEPT ![r].assignment.departments = DepartmentsSeenBy(r)]
    /\ Goto(r, "read_users")
    /\ UNCHANGED <<tables, active, issued, locks, req, tx>>

(* loadUserAssignments                                                     *)
ReadUsers(r) ==
    /\ pc[r] = "read_users"
    /\ req[r].op # "detail"
    /\ reply' = [reply EXCEPT ![r].assignment.users = UsersSeenBy(r)]
    /\ Goto(r, "commit")
    /\ UNCHANGED <<tables, active, issued, locks, req, tx>>

(* The same statement is the last one of a detail.                         *)
FinishDetail(r) ==
    /\ At(r, "detail", "read_users")
    /\ Finish(r, "ok", [reply[r] EXCEPT !.assignment.users = UsersSeenBy(r)])
    /\ UNCHANGED <<tables, active, issued, req>>

-----------------------------------------------------------------------------
(* The end of a transaction.                                               *)

(* The client may be told of an error although the transaction committed:  *)
(* the connection can be lost before the commit is acknowledged.           *)
Commit(r) ==
    /\ pc[r] = "commit"
    /\ row' = [row EXCEPT ![req[r].ticket] = RowSeenBy(r)]
    /\ assigned' = [assigned EXCEPT ![req[r].ticket] =
                       [departments |-> DepartmentsSeenBy(r), users |-> UsersSeenBy(r)]]
    /\ activity' = IF tx[r].event = None
                   THEN activity
                   ELSE [activity EXCEPT ![req[r].ticket] = Append(@, tx[r].event)]
    /\ Finish(r, "ok", reply[r]) \/ Finish(r, "error", NoReply)
    /\ UNCHANGED <<active, issued, req>>

(* Any statement can fail: a lost connection, a cancelled context, a       *)
(* crash of the server process.  PostgreSQL rolls the transaction back.    *)
Abort(r) ==
    /\ pc[r] \notin {"idle", "done"}
    /\ Fail(r, "error")

-----------------------------------------------------------------------------
(* What happens outside client/tickets.                                    *)

(* UPDATE ... SET is_active = FALSE waits for FOR SHARE holders.           *)
Deactivate(x) ==
    /\ x \in active
    /\ shareLocks[x] = {}
    /\ active' = active \ {x}
    /\ UNCHANGED <<tables, issued, locks, requests>>

Activate(x) ==
    /\ x \notin active
    /\ shareLocks[x] = {}
    /\ active' = active \cup {x}
    /\ UNCHANGED <<tables, issued, locks, requests>>

(* No handler closes a ticket yet; the schema admits closing an accepted   *)
(* one, and the code reads the status.                                     *)
Close(t) ==
    /\ row[t].status = "accepted"
    /\ rowLock[t] = None
    /\ row' = [row EXCEPT ![t] = ClosedRow(row[t].acceptedBy)]
    /\ UNCHANGED <<assigned, activity, active, issued, locks, requests>>

-----------------------------------------------------------------------------
Init ==
    /\ \E creator \in [Existing -> Users] :
          activity = [t \in Tickets |->
                        IF t \in Existing THEN <<CreatedEvent(creator[t])>> ELSE <<>>]
    /\ row = [t \in Tickets |-> IF t \in Existing THEN PendingRow ELSE AbsentRow]
    /\ assigned = [t \in Tickets |-> Unassigned]
    /\ active = Targets
    /\ issued = Existing
    /\ rowLock = [t \in Tickets |-> None]
    /\ shareLocks = [x \in Targets |-> {}]
    /\ pc = [r \in Requests |-> "idle"]
    /\ req = [r \in Requests |-> None]
    /\ tx = [r \in Requests |-> NoWrites]
    /\ reply = [r \in Requests |-> NoReply]
    /\ outcome = [r \in Requests |-> "none"]

Arrive(r) ==
    SubmitCreate(r) \/ SubmitAccept(r) \/ SubmitAssign(r) \/ SubmitDetail(r)

CreateStep(r) ==
    \/ LockDepartment(r) \/ CreateWithoutDepartment(r)
    \/ LockLocation(r)   \/ CreateWithoutLocation(r)
    \/ InsertTicket(r)   \/ RecordCreation(r)

AcceptStep(r) ==
    \/ LockPending(r) \/ ReplayAcceptance(r) \/ RefuseAcceptance(r)
    \/ ClaimTicket(r) \/ RecordAcceptance(r)

AssignStep(r) ==
    \/ LockForAssignment(r) \/ RefuseAssignment(r) \/ LoadAssignment(r)
    \/ ValidateDepartments(r) \/ ValidateUsers(r)
    \/ ReplaceAssignment(r) \/ RecordAssignment(r)

ReadStep(r) ==
    \/ DetailMissing(r) \/ ReadRow(r) \/ ReadDepartments(r)
    \/ ReadUsers(r)     \/ FinishDetail(r)

(* What the handler itself does, once its request has arrived.             *)
Proceed(r) ==
    \/ CreateStep(r) \/ AcceptStep(r) \/ AssignStep(r) \/ ReadStep(r)
    \/ TicketMissing(r) \/ Commit(r)

(* No request is left: the model stops, the server idles.                  *)
AllAnswered ==
    /\ \A r \in Requests : pc[r] = "done"
    /\ UNCHANGED vars

Next ==
    \/ AllAnswered
    \/ \E r \in Requests : Arrive(r) \/ Proceed(r) \/ Abort(r)
    \/ \E x \in Switchable : Deactivate(x) \/ Activate(x)
    \/ \E t \in Tickets : Close(t)

Spec == Init /\ [][Next]_vars

-----------------------------------------------------------------------------
(* Properties.                                                             *)

(* Every variable keeps its type; the committed rows and the buffered ones *)
(* satisfy the CHECK constraints of migration 0008.                        *)
TypeOK ==
    /\ row \in [Tickets -> Row]
    /\ assigned \in [Tickets -> Assignment]
    /\ activity \in [Tickets -> Seq(Event)]
    /\ active \subseteq Targets
    /\ issued \subseteq Tickets
    /\ rowLock \in [Tickets -> Requests \cup {None}]
    /\ shareLocks \in [Targets -> SUBSET Requests]
    /\ pc \in [Requests -> Phases]
    /\ req \in [Requests -> Request \cup {None}]
    /\ tx \in [Requests -> Buffer]
    /\ reply \in [Requests -> Reply]
    /\ outcome \in [Requests -> Outcomes]

(* A log explains a row w and an assignment a.                             *)
Explains(log, w, a) ==
    /\ w = AbsentRow <=> log = <<>>
    /\ log # <<>> => Positions(log, "created") = {1}
    /\ w.status \in {"accepted", "closed"} <=> IsAccepted(log)
    /\ w.acceptedBy = Acceptor(log)
    /\ \A i, j \in Positions(log, "accepted") : i = j
    /\ a = CurrentAssignment(log)

(* The business history explains the ticket: a ticket exists exactly when  *)
(* its history starts with one creation, it has an owner exactly when the  *)
(* history has one acceptance, by that owner, and its assignees are those  *)
(* the last assignment activity left (Create, Accept and Assign write the  *)
(* rows and the activity in one transaction; none of their failures, no    *)
(* lost acknowledgement and no race separates the two).                    *)
HistoryExplainsTicket ==
    \A t \in Tickets : Explains(activity[t], row[t], assigned[t])

AnswerHolds(r) ==
    outcome[r] # "none" /\ req[r].op = "accept" =>
        LET owner == row[req[r].ticket].acceptedBy
        IN  /\ outcome[r] = "ok" => owner = req[r].actor
            /\ outcome[r] = "already_accepted" => owner \notin {None, req[r].actor}

(* What an accept request was told stays true: after a 200 the caller owns *)
(* the ticket for good, after a 409 ticket_already_accepted somebody else  *)
(* does (first accepter wins, a replay by the owner succeeds).             *)
AcceptAnswersStayTrue == \A r \in Requests : AnswerHolds(r)

(* A detail that shows a closed ticket shows its final state, although its *)
(* three statements read three snapshots: the row is read first, and the   *)
(* assignment of a closed ticket no longer changes.                        *)
ClosedDetailIsFinal ==
    \A r \in Requests :
        outcome[r] = "ok" /\ req[r].op = "detail" /\ reply[r].row.status = "closed" =>
            reply[r] = [row |-> row[req[r].ticket], assignment |-> assigned[req[r].ticket]]

(* The ticket a create, accept or assign request answers with is the one   *)
(* its commit leaves in the tables, never a mixture with another           *)
(* transaction's writes (findByID runs before Commit, under the row lock). *)
RepliesWithWhatItCommits ==
    [][\A r \in Requests :
          outcome[r] = "none" /\ outcome'[r] = "ok" /\ req[r].op # "detail" =>
             reply'[r] = [row |-> row'[req'[r].ticket], assignment |-> assigned'[req'[r].ticket]]
      ]_vars

(* A ticket is only ever created for a department, and a location, that    *)
(* are active when its creation commits (their rows are locked FOR SHARE   *)
(* from the check to the commit).                                          *)
CreatedForActiveTargets ==
    [][\A r \in Requests :
          outcome[r] = "none" /\ outcome'[r] = "ok" /\ req[r].op = "create" =>
             {req[r].department, req[r].location} \subseteq active' \cup {None}
      ]_vars

(* SPEC-09: "Inactive targets cannot be newly assigned."  The code checks  *)
(* is_active without locking the rows, so they can be deactivated between  *)
(* the check and the commit.                                               *)
NewAssigneesAreActive ==
    [][\A t \in Tickets :
          LET new == Added(assigned[t], assigned'[t])
          IN  new.departments \cup new.users \subseteq active
      ]_vars

(* Every request that arrives is answered: no lock is left behind by a     *)
(* request that failed, and no two requests wait for each other.           *)
EveryRequestIsAnswered ==
    \A r \in Requests : pc[r] # "idle" ~> pc[r] = "done"

(* The committed tables implement the ledger.                              *)
Ledger == INSTANCE TicketLedger
    WITH log    <- activity,
         closed <- {t \in Tickets : row[t].status = "closed"}

(* The activity log grows as the ledger says: whole events, a single       *)
(* acceptance, assignment replacements that chain, nothing after closure.  *)
ImplementsLedger == Ledger!LedgerSpec
=============================================================================
