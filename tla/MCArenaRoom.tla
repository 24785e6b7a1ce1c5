----------------------------- MODULE MCArenaRoom -----------------------------
(* ArenaRoom on small instances.                                           *)
EXTENDS ArenaRoom
=============================================================================
