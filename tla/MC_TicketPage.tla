---------------------------- MODULE MC_TicketPage ----------------------------
(* TicketPage on small instances.                                          *)
EXTENDS TicketPageInvariant
=============================================================================
