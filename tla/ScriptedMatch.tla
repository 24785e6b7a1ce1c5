---------------------------- MODULE ScriptedMatch ----------------------------
(***************************************************************************)
(* A match two scripts play: playScriptedMatch (poker/src/local-match.ts)  *)
(* with the policies of script-policy.ts on a PokerEngine, as the local    *)
(* practice of the plugin runs it (plugin/src/host/local-match.ts).        *)
(*                                                                         *)
(* The whole match is one call; a step is what it publishes, one snapshot  *)
(* per deal and per action.  An action the engine refuses throws out of    *)
(* the call, and is a step that is not enabled.  The module extends        *)
(* PokerEngine, whose HandBound means here that a hand so late is not      *)
(* split.                                                                  *)
(*                                                                         *)
(* An operator X_y is X with one plausible mistake, y; no action uses it.  *)
(***************************************************************************)
EXTENDS PokerEngine

VARIABLE policy   \* policyA and policyB

matchVars == <<state, policy>>

ScriptKind == {"check-fold", "call-station", "min-raise-once"}

MatchInit == Init /\ policy \in [Seat -> ScriptKind]

------------------------------------------------------------------------------
(* scriptDecide.  A decision is an action and what it raises to.           *)

act(kind) == [action |-> kind, raiseTo |-> 0]
minRaise(s) == [action |-> "raise", raiseTo |-> minRaiseTo(s)]

checkOrCallOrFold(s) ==
    IF mayCheck(s) THEN act("check")
    ELSE IF mayCall(s) THEN act("call") ELSE act("fold")

scriptDecide_everyHand(kind, s) ==
    IF kind = "min-raise-once" /\ mayRaise(s) THEN minRaise(s)
    ELSE checkOrCallOrFold(s)

scriptDecide(kind, s) ==
    CASE kind = "check-fold" -> IF mayCheck(s) THEN act("check") ELSE act("fold")
      [] kind = "min-raise-once" /\ s.handNo = 1 /\ mayRaise(s) -> minRaise(s)
      [] OTHER -> checkOrCallOrFold(s)

\* What apply lets through, and what it makes of it.
accepted(s, decision) ==
    CASE decision.action = "fold"  -> mayAct(s)
      [] decision.action = "check" -> mayCheck(s)
      [] decision.action = "call"  -> mayCall(s)
      [] decision.action = "raise" -> /\ mayRaise(s)
                                      /\ raiseAccepted(s, decision.raiseTo)

applied(s, decision) ==
    CASE decision.action = "fold"  -> applyFold(s)
      [] decision.action = "check" -> applyCheck(s)
      [] decision.action = "call"  -> applyCall(s)
      [] decision.action = "raise" -> applyRaise(s, decision.raiseTo)

------------------------------------------------------------------------------
(* playScriptedMatch                                                       *)

inHand(s) == s.street # "complete" /\ live(s) /\ s.toAct # NoSeat

tied(s) == s.handNo >= MaxHands /\ live(s) /\ s.stack["A"] = s.stack["B"]

handOver_leaderWins(s) ==
    IF inHand(s) \/ ~ live(s) \/ s.handNo < MaxHands THEN s
    ELSE close(s, "chip_lead", IF s.stack["A"] > s.stack["B"] THEN "A" ELSE "B")

\* When the inner loop is left, the match may be over.
handOver(s) == IF inHand(s) \/ tied(s) THEN s ELSE maybeFinishMatch(s)

mayDeal_toMaxHands == live(state) /\ state.handNo < MaxHands

mayDeal == live(state)

DealHand ==
    /\ ~ inHand(state)
    /\ mayDeal
    /\ \E deck \in Deck :
          /\ state.handNo + 1 >= HandBound => deck # Seat   \* bound of the model
          /\ \E dealt \in {startHand(state, deck)} : state' = handOver(dealt)
    /\ UNCHANGED policy

Play ==
    LET decision == scriptDecide(policy[state.toAct], state) IN
    /\ inHand(state)
    /\ accepted(state, decision)
    /\ \E next \in {applied(state, decision)} : state' = handOver(next)
    /\ UNCHANGED policy

MatchNext == DealHand \/ Play

MatchSpec == MatchInit /\ [][MatchNext]_matchVars

mayGoOn ==
    IF inHand(state) THEN accepted(state, scriptDecide(policy[state.toAct], state))
                     ELSE mayDeal

(***************************************************************************)
(* The call runs to its end: nothing in it waits.  The formula is          *)
(* WF_matchVars(MatchNext) written out, as in PokerEngine.                 *)
(***************************************************************************)
MatchFairness == []<>(~ mayGoOn) \/ []<><<MatchNext>>_matchVars

FairMatchSpec == MatchSpec /\ MatchFairness

------------------------------------------------------------------------------

\* The engine refuses no decision of a script, which would throw out of the
\* match.  min-raise-once names minRaiseTo without a look at maxRaiseTo: it is
\* legal only because it raises in the first hand alone, from equal stacks that
\* are a multiple of the big blind, so that the raises of two such scripts end
\* in an exact all-in (script-policy.ts 16-19, engine.ts 166-171).
ScriptsPlayLegally ==
    inHand(state) => accepted(state, scriptDecide(policy[state.toAct], state))

\* Every snapshot of a scripted match follows from the one before by the rules
\* of the engine, whose verdict is the verdict of the match: the loop neither
\* ends a tied match nor deals into one that is over (local-match.ts 28-48).
\* What is proved of PokerEngine holds of it, the types included.
PlaysByTheRules == Spec

\* A scripted match ends, and with a winner: two scripts that check or fold
\* through every hand are parted by the blinds, and a tie after MaxHands is
\* played on (local-match.ts 44-47).
MatchEnds == <>(state.terminal.winner \in Seat)
==============================================================================
