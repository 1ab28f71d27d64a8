------------------------------ MODULE Dialogs ------------------------------
(***************************************************************************)
(* The two dialogs of the tickets page.  They share no state, and the page *)
(* shows one at a time, so a behaviour uses one of them: steps of the      *)
(* other one in between could not be told apart from none.                 *)
(***************************************************************************)
EXTENDS AssignDialog, RequestDialog

vars == <<assignVars, requestVars>>

Init == AssignInit /\ RequestInit

Next ==
    \/ inputs = 0 /\ AssignNext /\ UNCHANGED requestVars
    \/ acts = 0 /\ RequestNext /\ UNCHANGED assignVars

Spec == Init /\ [][Next]_vars

\* The browser's timers fire and every call is answered, or fails at last.
FairSpec ==
    /\ Spec
    /\ WF_vars(AssignWaits /\ UNCHANGED requestVars)
    /\ WF_vars(RequestWaits /\ UNCHANGED assignVars)

\* When the user stops acting, nothing stays loading, searching or sending:
\* every dialog that is open can be used again.
DialogsSettle == <>[](AssignSettled /\ RequestSettled)
============================================================================
