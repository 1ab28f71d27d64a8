--------------------------- MODULE MC_TicketStore ---------------------------
(* TicketStore on a small instance.                                        *)
EXTENDS TicketStoreInvariant
=============================================================================
