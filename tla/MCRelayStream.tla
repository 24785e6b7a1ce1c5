----------------------------- MODULE MCRelayStream -----------------------------
(* A few calls for TLC.                                                    *)
EXTENDS RelayStream, TLC

Symmetry == Permutations(Calls)
=============================================================================
