--------------------------- MODULE MC_AuthSessions ---------------------------
(* AuthSessions on a small instance.                                       *)
EXTENDS AuthSessions
=============================================================================
