--------------------------- MODULE MC_TicketTables ---------------------------
(* TicketTables on small instances.                                        *)
EXTENDS TicketTables, TLC

Symmetry == Permutations(Requests) \cup Permutations(Users)
=============================================================================
