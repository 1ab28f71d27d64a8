----------------------------- MODULE MC_Dialogs -----------------------------
(* Two tickets with different assignees, of which one is in no other list, *)
(* two groups, and two locations that one query tells apart.               *)
EXTENDS Dialogs

MCHomeOf == [u \in Users |-> IF u = "cleaner" THEN "cleaning" ELSE "repair"]

MCAssigned ==
    [t \in Tickets |-> IF t = 1
        THEN [departments |-> {"cleaning"}, users |-> {"cleaner"}]
        ELSE [departments |-> {}, users |-> {"retired"}]]

MCFound == [t \in Terms |-> IF t = Everyone THEN Users \ {"retired"} ELSE {"fitter"}]

MCMatches ==
    [q \in Queries |-> CASE q = Blank -> Locations
                         [] q \in Locations -> {q}
                         [] OTHER -> {"lobby"}]
=============================================================================
