------------------------ MODULE TicketStoreInvariant ------------------------
(***************************************************************************)
(* The inductive invariant of TicketStore: what a transaction knows, at    *)
(* each of its statements, of the rows it has locked.  TLC checks it on    *)
(* small instances; TicketStoreProofs proves it.                           *)
(***************************************************************************)
EXTENDS TicketStore

(* The phases of each operation between its first statement and its end.   *)
CreatePhases == {"begun", "lock_location", "insert_ticket", "record_creation", "commit"}

(* In these phases an accept or an assign holds its ticket's row lock.     *)
ReadBackPhases == {"read_row", "read_departments", "read_users", "commit"}

AcceptLocked == {"claim", "record_acceptance"} \cup ReadBackPhases

AssignLocked ==
    {"load", "validate_departments", "validate_users", "replace", "record_assignment"}
      \cup ReadBackPhases

InPhaseOf(r) ==
    \/ req[r].op = "create" /\ pc[r] \in CreatePhases
    \/ req[r].op = "accept" /\ pc[r] \in {"begun"} \cup AcceptLocked
    \/ req[r].op = "assign" /\ pc[r] \in {"begun"} \cup AssignLocked
    \/ req[r].op = "detail" /\ pc[r] \in {"read_row", "read_departments", "read_users"}

(* A request that runs has a well-formed request record, and one that does *)
(* not has nothing buffered.                                               *)
RequestShape(r) ==
    /\ pc[r] = "idle" => outcome[r] = "none"
    /\ pc[r] \notin {"idle", "done"} => InPhaseOf(r) /\ outcome[r] = "none"
    /\ pc[r] # "idle" => req[r] \in Request
    /\ pc[r] # "idle" /\ req[r].op # "create" => req[r].ticket \in Tickets
    /\ pc[r] # "idle" /\ req[r].op = "create" =>
          /\ req[r].department \in Departments
          /\ pc[r] = "lock_location" => req[r].location \in Locations
    /\ pc[r] \in {"idle", "begun", "done"} => tx[r] = NoWrites

InCreation(r) ==
    /\ pc[r] \in {"record_creation", "commit"}
    /\ req[r].op = "create"

(* A creating transaction owns an id nobody else has seen.                 *)
CreateKnows(r) ==
    /\ pc[r] \in {"lock_location", "insert_ticket"} => tx[r] = NoWrites
    /\ InCreation(r) =>
          /\ req[r].ticket \in issued
          /\ row[req[r].ticket] = AbsentRow
          /\ tx[r] = [NoWrites EXCEPT !.row = PendingRow,
                         !.event = IF pc[r] = "commit" THEN CreatedEvent(req[r].actor) ELSE None]
          /\ reply[r] = [row |-> PendingRow, assignment |-> Unassigned]

AcceptsWith(r, event) ==
    /\ row[req[r].ticket] = PendingRow
    /\ tx[r] = [NoWrites EXCEPT !.row = AcceptedRow(req[r].actor), !.event = event]

AcceptKnows(r) ==
    pc[r] \in AcceptLocked /\ req[r].op = "accept" =>
        /\ rowLock[req[r].ticket] = r
        /\ pc[r] = "claim" => row[req[r].ticket] = PendingRow /\ tx[r] = NoWrites
        /\ pc[r] = "record_acceptance" => AcceptsWith(r, None)
        /\ pc[r] \in ReadBackPhases =>
              \/ AcceptsWith(r, AcceptedEvent(req[r].actor))
              \/ row[req[r].ticket] = AcceptedRow(req[r].actor) /\ tx[r] = NoWrites

AssignsWith(r, event) ==
    /\ assigned[req[r].ticket] # req[r].assignment
    /\ tx[r] = [NoWrites EXCEPT
                  !.removed = Removed(assigned[req[r].ticket], req[r].assignment),
                  !.added   = Added(assigned[req[r].ticket], req[r].assignment),
                  !.event   = event]

AssignKnows(r) ==
    pc[r] \in AssignLocked /\ req[r].op = "assign" =>
        /\ rowLock[req[r].ticket] = r
        /\ row[req[r].ticket].status \in {"pending", "accepted"}
        /\ pc[r] \in {"load", "validate_departments", "validate_users", "replace"} =>
              tx[r] = NoWrites
        /\ pc[r] \in {"validate_departments", "validate_users", "replace", "record_assignment"} =>
              reply[r].assignment = assigned[req[r].ticket]
        /\ pc[r] = "replace" => assigned[req[r].ticket] # req[r].assignment
        /\ pc[r] = "record_assignment" => AssignsWith(r, None)
        /\ pc[r] \in ReadBackPhases =>
              \/ AssignsWith(r, AssignmentUpdatedEvent(req[r].actor,
                                     assigned[req[r].ticket], req[r].assignment))
              \/ assigned[req[r].ticket] = req[r].assignment /\ tx[r] = NoWrites

DetailKnows(r) == pc[r] # "idle" /\ req[r].op = "detail" => tx[r] = NoWrites

Knows(r) ==
    /\ RequestShape(r)
    /\ CreateKnows(r)
    /\ AcceptKnows(r)
    /\ AssignKnows(r)
    /\ DetailKnows(r)

IdsAreFresh ==
    /\ \A t \in Tickets : row[t] # AbsentRow => t \in issued
    /\ \A q, r \in Requests :
          InCreation(q) /\ InCreation(r) /\ req[q].ticket = req[r].ticket => q = r

(* Implied by the finiteness of a log; kept by induction over its growth.  *)
UpdatesHaveLatest ==
    \A t \in Tickets : HasLatest(Positions(activity[t], "assignment_updated"))

(* Everything a step of a transaction relies on.                           *)
StoreInvariant ==
    /\ TypeOK
    /\ \A r \in Requests : Knows(r)
    /\ IdsAreFresh
    /\ UpdatesHaveLatest
    /\ HistoryExplainsTicket
    /\ AcceptAnswersStayTrue
=============================================================================
