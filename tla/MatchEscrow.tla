------------------------------ MODULE MatchEscrow ------------------------------
(***************************************************************************)
(* What a settlement promises (settleMatch in server/src/settlement.ts and *)
(* settleInTransaction in server/src/postgres.ts), whatever else the       *)
(* server does to a match: both stakes stay locked until a verdict is      *)
(* recorded; the verdict is recorded once; with a winner the winner's      *)
(* stake is unlocked and the other's is converted into one grant, without  *)
(* one both are released.                                                  *)
(***************************************************************************)
EXTENDS Naturals

CONSTANTS Seats, Undecided, Nobody

VARIABLES
    verdict,   \* Undecided, a seat, or Nobody
    stakes,    \* the status of each seat's stake
    grants     \* how many grants each seat owes on its stake

EscrowInit ==
    /\ verdict = Undecided
    /\ stakes = [s \in Seats |-> "locked"]
    /\ grants = [s \in Seats |-> 0]

Award(w) ==
    /\ verdict = Undecided
    /\ verdict' = w
    /\ stakes' = [s \in Seats |-> IF s = w THEN "unlocked" ELSE "converted"]
    /\ grants' = [s \in Seats |-> IF s = w THEN 0 ELSE 1]

Release ==
    /\ verdict = Undecided
    /\ verdict' = Nobody
    /\ stakes' = [s \in Seats |-> "released"]
    /\ UNCHANGED grants

EscrowNext == (\E w \in Seats : Award(w)) \/ Release

EscrowSpec == EscrowInit /\ [][EscrowNext]_<<verdict, stakes, grants>>
=============================================================================
