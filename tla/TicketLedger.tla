---------------------------- MODULE TicketLedger ----------------------------
(***************************************************************************)
(* What the ticket store promises, whatever transactions race: the         *)
(* business history of a ticket grows one whole event at a time, starts    *)
(* with its creation, holds at most one acceptance, chains assignment      *)
(* replacements (each one starts from the assignment the previous one      *)
(* left), and stops growing once the ticket is closed.                     *)
(* TicketStore implements this specification.                              *)
(***************************************************************************)
EXTENDS ActivityLog

VARIABLES
    log,    \* log[t]: the activity of ticket t, <<>> before its creation
    closed  \* the tickets that have been closed

ledgerVars == <<log, closed>>

LedgerTypeOK ==
    /\ log \in [Tickets -> Seq(Event)]
    /\ closed \in SUBSET Tickets

(* Any set of tickets may already have been created.                       *)
LedgerInit ==
    /\ log \in [Tickets -> {<<>>} \cup {<<CreatedEvent(u)>> : u \in Users}]
    /\ closed = {}

Record(t, event) ==
    /\ log' = [log EXCEPT ![t] = Append(log[t], event)]
    /\ UNCHANGED closed

Open(t) == log[t] # <<>> /\ t \notin closed

AddCreation(t, u) ==
    /\ log[t] = <<>>
    /\ Record(t, CreatedEvent(u))

AddAcceptance(t, u) ==
    /\ Open(t)
    /\ ~IsAccepted(log[t])
    /\ Record(t, AcceptedEvent(u))

(* Slip: a ticket stays assignable after it was closed.                    *)
AddAssignmentOfAny(t, u, a) ==
    /\ log[t] # <<>>
    /\ a # CurrentAssignment(log[t])
    /\ Record(t, AssignmentUpdatedEvent(u, CurrentAssignment(log[t]), a))

AddAssignment(t, u, a) ==
    /\ Open(t)
    /\ a # CurrentAssignment(log[t])
    /\ Record(t, AssignmentUpdatedEvent(u, CurrentAssignment(log[t]), a))

(* Closing writes no activity in this version of the code.                 *)
AddClosure(t) ==
    /\ IsAccepted(log[t])
    /\ closed' = closed \cup {t}
    /\ UNCHANGED log

LedgerNext ==
    \E t \in Tickets :
        \/ AddClosure(t)
        \/ \E u \in Users :
              \/ AddCreation(t, u)
              \/ AddAcceptance(t, u)
              \/ \E a \in Assignment : AddAssignment(t, u, a)

LedgerSpec == LedgerInit /\ [][LedgerNext]_ledgerVars
=============================================================================
