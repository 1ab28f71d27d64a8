---------------------------- MODULE ActivityLog ----------------------------
(***************************************************************************)
(* The rows of ticket_activity that belong to one ticket, as a sequence in *)
(* the order their transactions committed, and what can be read off them.  *)
(* Shared by TicketLedger, which promises how the sequence grows, and by   *)
(* TicketStore, which models the transactions that write it.               *)
(***************************************************************************)
EXTENDS Naturals, Sequences

CONSTANTS
    Tickets,      \* ticket ids: what the BIGSERIAL sequence can hand out
    Users,        \* user ids
    Departments,  \* department ids
    None          \* SQL NULL, and "no such thing" in the models

(***************************************************************************)
(* The two membership tables ticket_assigned_departments and               *)
(* ticket_assigned_users, restricted to one ticket.                        *)
(***************************************************************************)
Assignment == [departments : SUBSET Departments, users : SUBSET Users]
Unassigned == [departments |-> {}, users |-> {}]

(***************************************************************************)
(* The three activities the code writes.  Only assignment_updated carries  *)
(* metadata: the four id lists, as a before and an after assignment.       *)
(***************************************************************************)
CreatedEvent(u)  == [action |-> "created",  actor |-> u, metadata |-> None]
AcceptedEvent(u) == [action |-> "accepted", actor |-> u, metadata |-> None]
AssignmentUpdatedEvent(u, before, after) ==
    [action   |-> "assignment_updated",
     actor    |-> u,
     metadata |-> [before |-> before, after |-> after]]

Event ==
    [action : {"created", "accepted"}, actor : Users, metadata : {None}]
      \cup
    [action   : {"assignment_updated"},
     actor    : Users,
     metadata : [before : Assignment, after : Assignment]]

(***************************************************************************)
(* Reading a log.                                                          *)
(***************************************************************************)
Positions(log, action) == {i \in DOMAIN log : log[i].action = action}

Latest(I) == CHOOSE i \in I : \A j \in I : j <= i

HasLatest(I) == I # {} => \E i \in I : \A j \in I : j <= i

IsAccepted(log) == Positions(log, "accepted") # {}

Acceptor(log) ==
    IF IsAccepted(log) THEN log[Latest(Positions(log, "accepted"))].actor ELSE None

CurrentAssignment(log) ==
    LET updates == Positions(log, "assignment_updated")
    IN  IF updates = {} THEN Unassigned ELSE log[Latest(updates)].metadata.after
=============================================================================
