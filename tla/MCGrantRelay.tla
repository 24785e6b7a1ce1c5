----------------------------- MODULE MCGrantRelay -----------------------------
(* Small grants for TLC.                                                   *)
EXTENDS GrantRelay
=============================================================================
