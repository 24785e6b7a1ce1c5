----------------------------- MODULE MCArenaMatch -----------------------------
(***************************************************************************)
(* Short matches for TLC.                                                  *)
(***************************************************************************)
EXTENDS ArenaMatch, TLC

Symmetry == Permutations(Handlers)
=============================================================================
