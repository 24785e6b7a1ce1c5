----------------------------- MODULE MCMatchPlay -----------------------------
(***************************************************************************)
(* Matches for TLC, in two parts that share no state: "table" is           *)
(* PokerEngine under every action a seat may take, "scripts" a scripted    *)
(* match (ScriptedMatch) on an engine of its own.                          *)
(*                                                                         *)
(* The table is small: the shape of BLIND_SCHEDULE (the blinds double) at  *)
(* a scale where blinds put seats all-in, raises fall short and a match    *)
(* reaches and passes MaxHands.  The scripts play with the constants of    *)
(* the game (constants.ts).                                                *)
(***************************************************************************)
EXTENDS PokerEngine

VARIABLES
    practice, policy,   \* the engine and the policies of the scripted match
    part                \* the component that moves

scriptVars == <<practice, policy>>
allVars == <<vars, scriptVars, part>>

MCBlinds == << [fromHand |-> 1, small |-> 1, big |-> 2],
               [fromHand |-> 2, small |-> 2, big |-> 4] >>

GameBlinds == << [fromHand |-> 1, small |-> 1, big |-> 2],
                 [fromHand |-> 6, small |-> 2, big |-> 4],
                 [fromHand |-> 11, small |-> 4, big |-> 8],
                 [fromHand |-> 16, small |-> 8, big |-> 16] >>

Scripts == INSTANCE ScriptedMatch WITH
    state <- practice, StartingStack <- 80, MaxHands <- 20, HandBound <- 24,
    BlindSchedule <- GameBlinds

\* What does not move has one initial state.
PartsInit ==
    /\ Init /\ Scripts!MatchInit
    /\ part \in {"table", "scripts"}
    /\ part = "table" =>
         /\ practice.button = "A"
         /\ policy = [seat \in Seat |-> "call-station"]
    /\ part = "scripts" => state.button = "A"

PartsNext ==
    /\ UNCHANGED part
    /\ \/ part = "table" /\ Next /\ UNCHANGED scriptVars
       \/ part = "scripts" /\ Scripts!MatchNext /\ UNCHANGED vars

PartsSpec ==
    /\ PartsInit /\ [][PartsNext]_allVars
    /\ Fairness
    /\ part = "scripts" => Scripts!MatchFairness

------------------------------------------------------------------------------

\* The engine refuses no decision of a script, which would throw out of the
\* match: min-raise-once names minRaiseTo without a look at maxRaiseTo
\* (script-policy.ts 16-19, engine.ts 166-171).
ScriptsPlayLegally == Scripts!ScriptsPlayLegally

\* Every snapshot of a scripted match follows from the one before by the rules
\* of the engine, so what is proved of PokerEngine holds of it; and it ends
\* with a winner: two scripts that check or fold through every hand are parted
\* by the blinds (local-match.ts 28-48).
ScriptsPlayAMatch ==
    /\ Scripts!PlaysByTheRules
    /\ part = "scripts" => Scripts!MatchEnds
==============================================================================
