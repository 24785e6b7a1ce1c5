----------------------------- MODULE GrantLedger -----------------------------
(***************************************************************************)
(* What a grant promises the two devices: a number of model calls, each    *)
(* charged once when it starts, one call in progress at a time.  The       *)
(* server's relay (GrantRelay) is shown to implement it as long as no two  *)
(* of its frame handlers overlap.                                          *)
(***************************************************************************)
EXTENDS Integers, FiniteSets

CONSTANTS Inferences,   \* the calls a winner may ask for
          MaxCalls      \* DEFAULT_MAX_CALLS, the calls the grant is worth

VARIABLES calls,     \* calls left
          charged,   \* the inferences a call was charged for
          open       \* the charged inferences that have not ended

ledgerVars == <<calls, charged, open>>

LedgerInit ==
    /\ calls = MaxCalls
    /\ charged = {}
    /\ open = {}

\* A call is charged once, and only while none is open.  It may be charged
\* after its requester has already given it up: then it never opens.
Charge(i) ==
    /\ calls > 0
    /\ open = {}
    /\ i \notin charged
    /\ calls' = calls - 1
    /\ charged' = charged \cup {i}
    /\ open' \in {{}, {i}}

End(i) ==
    /\ i \in open
    /\ open' = {}
    /\ UNCHANGED <<calls, charged>>

LedgerNext == \E i \in Inferences : Charge(i) \/ End(i)

LedgerSpec == LedgerInit /\ [][LedgerNext]_ledgerVars
=============================================================================
