---------------------------- MODULE PokerEngine ----------------------------
(***************************************************************************)
(* The heads-up no-limit hold'em engine, packages/poker/src/engine.ts.     *)
(*                                                                         *)
(* The class holds one mutable object, this.state; the module holds one    *)
(* record, state, with the fields the rules read.  Every method of the     *)
(* class that changes the object is an operator from state to state of the *)
(* same name, so that a public method (startHand, apply, forfeit, ...) is  *)
(* one step that includes every call it makes.  A call that throws changes *)
(* nothing, and is a step that is not enabled.                             *)
(*                                                                         *)
(* Cards are abstracted to what the rules tell apart: a deck is the set of *)
(* seats its nine live cards make win at showdown (compareHoles), the      *)
(* board is the number of its cards, and deckCursor counts the cards that  *)
(* left the deck.  BoardIsDeckDetermined is what makes this sound: however *)
(* the board is dealt, the same cards of the deck reach it.                *)
(*                                                                         *)
(* An operator X_y is X with one plausible mistake, y; no action uses it.  *)
(* Put in the place of X, it shows that a property notices the mistake.    *)
(***************************************************************************)
EXTENDS Integers, Sequences

CONSTANTS
    StartingStack,   \* STARTING_STACK, chips of each seat before hand 1
    MaxHands,        \* MAX_HANDS, the hand after which a chip lead decides
    BlindSchedule,   \* BLIND_SCHEDULE, rows [fromHand, small, big]
    HandBound        \* bound of the model: no hand starts after this one

ASSUME StackAssumption == StartingStack \in Nat \ {0}
ASSUME HandsAssumption == MaxHands \in Nat /\ HandBound \in Nat
ASSUME BlindAssumption ==
    /\ Len(BlindSchedule) >= 1
    /\ \A i \in 1..Len(BlindSchedule) :
          /\ BlindSchedule[i].fromHand \in Nat
          /\ BlindSchedule[i].small \in Nat \ {0}
          /\ BlindSchedule[i].big \in Nat \ {0}

VARIABLE state

vars == <<state>>

Seat == {"A", "B"}
NoSeat == "none"
Betting == {"preflop", "flop", "turn", "river"}
Street == Betting \cup {"complete"}

\* The decks a hand can be dealt from: who wins if the hand is shown down.
Deck == {{"A"}, {"B"}, {"A", "B"}}

NotTerminal == [reason |-> "live", winner |-> NoSeat]
Terminal == [reason : {"live", "bust", "chip_lead", "forfeit",
                       "double_disconnect", "server_fault"},
             winner : Seat \cup {NoSeat}]

Other(seat) == IF seat = "A" THEN "B" ELSE "A"

leftOfButton(button) == Other(button)

\* The row that governs a hand is the last one that has begun.
Governs(i, handNo) ==
    /\ handNo >= BlindSchedule[i].fromHand
    /\ \A j \in 1..Len(BlindSchedule) :
          handNo >= BlindSchedule[j].fromHand => j <= i

blindsForHand(handNo) ==
    IF \E i \in 1..Len(BlindSchedule) : Governs(i, handNo)
    THEN BlindSchedule[CHOOSE i \in 1..Len(BlindSchedule) : Governs(i, handNo)]
    ELSE BlindSchedule[1]

Zero == [t \in Seat |-> 0]

MaxOf(f) == IF f["A"] >= f["B"] THEN f["A"] ELSE f["B"]
MinOf(f) == IF f["A"] <= f["B"] THEN f["A"] ELSE f["B"]

live(s) == s.terminal = NotTerminal

-----------------------------------------------------------------------------
(***************************************************************************)
(* Private methods.                                                        *)
(***************************************************************************)

recomputePot(s) ==
    [s EXCEPT !.pot = s.handCommitted["A"] + s.handCommitted["B"]]

\* Moves chips from a stack to the bets of the street and of the hand.  The
\* caller owes 0 <= amount <= stack, or the method throws.
commit(s, seat, amount) ==
    [s EXCEPT !.stack[seat] = @ - amount,
              !.streetCommitted[seat] = @ + amount,
              !.handCommitted[seat] = @ + amount,
              !.allIn = IF s.stack[seat] = amount THEN @ \cup {seat} ELSE @]

postBlind(s, seat, amount) ==
    commit(s, seat, IF amount <= s.stack[seat] THEN amount ELSE s.stack[seat])

returnUncalledBet_keepsIt(s) == s

returnUncalledBet_stalePot(s) ==
    LET matched == MinOf(s.streetCommitted)
        extra   == [t \in Seat |-> s.streetCommitted[t] - matched]
    IN  [s EXCEPT !.streetCommitted = [t \in Seat |-> matched],
                  !.handCommitted = [t \in Seat |-> @[t] - extra[t]],
                  !.stack = [t \in Seat |-> @[t] + extra[t]]]

\* What the higher bet of the street exceeds the lower one by goes back.  The
\* flag allIn is left as it was.
returnUncalledBet(s) ==
    LET matched == MinOf(s.streetCommitted)
        extra   == [t \in Seat |-> s.streetCommitted[t] - matched]
    IN  IF s.streetCommitted["A"] = s.streetCommitted["B"] THEN s
        ELSE recomputePot(
               [s EXCEPT !.streetCommitted = [t \in Seat |-> matched],
                         !.handCommitted = [t \in Seat |-> @[t] - extra[t]],
                         !.stack = [t \in Seat |-> @[t] + extra[t]]])

close(s, reason, winner) ==
    [s EXCEPT !.terminal = [reason |-> reason, winner |-> winner]]

\* Called with street = "complete": bust first, then the lead at MaxHands; a
\* tie there plays on.
maybeFinishMatch(s) ==
    IF ~ live(s) THEN s
    ELSE IF s.stack["A"] <= 0 THEN close(s, "bust", "B")
    ELSE IF s.stack["B"] <= 0 THEN close(s, "bust", "A")
    ELSE IF s.handNo >= MaxHands /\ s.stack["A"] # s.stack["B"]
         THEN close(s, "chip_lead",
                    IF s.stack["A"] > s.stack["B"] THEN "A" ELSE "B")
    ELSE s

\* Pays prize to the seats, empties the pot and ends the hand.
payOut(s, prize) ==
    [s EXCEPT !.stack = [t \in Seat |-> @[t] + prize[t]],
              !.handCommitted = Zero,
              !.pot = 0,
              !.street = "complete",
              !.toAct = NoSeat]

finishHandByFold_neverFinishes(s) ==
    LET r == returnUncalledBet(s)
    IN  payOut(r, [t \in Seat |-> IF t \in r.folded THEN 0 ELSE r.pot])

finishHandByFold(s) ==
    LET r      == returnUncalledBet(s)
        winner == IF "A" \in r.folded THEN "B" ELSE "A"
    IN  maybeFinishMatch(
          payOut(r, [t \in Seat |-> IF t = winner THEN r.pot ELSE 0]))

\* The odd chip of a split pot goes to the seat left of the button.
showdownPrize(s) ==
    LET share == s.pot \div 2
        odd   == s.pot - share * 2
    IN  [t \in Seat |->
            IF s.deck = Seat
            THEN IF t = leftOfButton(s.button) THEN share + odd ELSE share
            ELSE IF t \in s.deck THEN s.pot ELSE 0]

showdown_judgesBeforePaying(s) ==
    LET r == returnUncalledBet(s)
    IN  payOut(maybeFinishMatch(r), showdownPrize(r))

showdown(s) ==
    LET r == returnUncalledBet(s)
    IN  maybeFinishMatch(payOut(r, showdownPrize(r)))

dealBoard_forgetsBurn(s) ==
    IF s.board = 0 THEN [s EXCEPT !.board = 3, !.deckCursor = @ + 4]
    ELSE IF s.board < 5 THEN [s EXCEPT !.board = @ + 1, !.deckCursor = @ + 1]
    ELSE s

\* One burn and the next cards of the board, if any is missing.
dealBoard(s) ==
    IF s.board = 0 THEN [s EXCEPT !.board = 3, !.deckCursor = @ + 4]
    ELSE IF s.board < 5 THEN [s EXCEPT !.board = @ + 1, !.deckCursor = @ + 2]
    ELSE s

\* The loop over board.length, unrolled: flop, turn and river at the most.
runOut(s) == showdown(dealBoard(dealBoard(dealBoard(returnUncalledBet(s)))))

streetClosed_ignoresActions(s) ==
    \A t \in Seat \ s.folded :
        t \in s.allIn \/ s.streetCommitted[t] = s.currentBet

streetClosed_ignoresBets(s) ==
    \A t \in Seat \ s.folded : t \in s.allIn \/ t \in s.actedThisStreet

streetClosed(s) ==
    \A t \in Seat \ s.folded :
        \/ t \in s.allIn
        \/ s.streetCommitted[t] = s.currentBet /\ t \in s.actedThisStreet

resetStreet_keepsBets(s) ==
    [returnUncalledBet(s) EXCEPT
        !.currentBet = 0,
        !.lastRaiseSize = blindsForHand(s.handNo).big,
        !.actedThisStreet = {}]

resetStreet_restartsSequence(s) ==
    [returnUncalledBet(s) EXCEPT
        !.streetCommitted = Zero,
        !.currentBet = 0,
        !.lastRaiseSize = blindsForHand(s.handNo).big,
        !.actedThisStreet = {},
        !.actionSeq = 0]

resetStreet(s) ==
    [returnUncalledBet(s) EXCEPT
        !.streetCommitted = Zero,
        !.currentBet = 0,
        !.lastRaiseSize = blindsForHand(s.handNo).big,
        !.actedThisStreet = {}]

dealStreet(s) ==
    CASE s.street = "preflop" ->
           [s EXCEPT !.street = "flop", !.board = 3, !.deckCursor = @ + 4]
      [] s.street = "flop" ->
           [s EXCEPT !.street = "turn", !.board = @ + 1, !.deckCursor = @ + 2]
      [] OTHER ->
           [s EXCEPT !.street = "river", !.board = @ + 1, !.deckCursor = @ + 2]

nextStreet_neverRunsOut(s) ==
    LET r == resetStreet(s)
    IN  IF r.street = "river" THEN showdown(r)
        ELSE [dealStreet(r) EXCEPT !.toAct = Other(s.button)]

nextStreet(s) ==
    LET r == resetStreet(s)
    IN  IF r.street = "river" THEN showdown(r)
        ELSE IF r.allIn # {} THEN runOut(dealStreet(r))
        ELSE [dealStreet(r) EXCEPT !.toAct = Other(s.button)]

advanceAfterAction(s) ==
    IF s.folded # {} THEN finishHandByFold(s)
    ELSE IF streetClosed(s) THEN nextStreet(s)
    ELSE [s EXCEPT !.toAct = Other(s.toAct)]

\* The tail every action of apply shares, after the action's own effect.
acted(s, seat) ==
    advanceAfterAction(recomputePot(
        [s EXCEPT !.actedThisStreet = @ \cup {seat},
                  !.actionSeq = @ + 1]))

-----------------------------------------------------------------------------
(***************************************************************************)
(* Public methods.                                                         *)
(***************************************************************************)

create(firstButton) ==
    [stack           |-> [t \in Seat |-> StartingStack],
     button          |-> firstButton,
     handNo          |-> 0,
     street          |-> "complete",
     actionSeq       |-> 0,
     deck            |-> Seat,
     deckCursor      |-> 0,
     board           |-> 0,
     streetCommitted |-> Zero,
     handCommitted   |-> Zero,
     folded          |-> {},
     allIn           |-> {},
     currentBet      |-> 0,
     lastRaiseSize   |-> 0,
     toAct           |-> NoSeat,
     pot             |-> 0,
     actedThisStreet |-> {},
     terminal        |-> NotTerminal]

\* The hand after the deal and the blinds, before anyone is asked to act.
dealHand(s, deck) ==
    LET button == IF s.handNo = 0 THEN s.button ELSE Other(s.button)
        handNo == s.handNo + 1
        dealt  == [s EXCEPT
                     !.button = button, !.handNo = handNo, !.deck = deck,
                     !.deckCursor = 4, !.board = 0, !.actedThisStreet = {},
                     !.street = "preflop", !.actionSeq = 0, !.folded = {},
                     !.streetCommitted = Zero, !.handCommitted = Zero,
                     !.allIn = {t \in Seat : s.stack[t] = 0}]
        posted == postBlind(postBlind(dealt, button, blindsForHand(handNo).small),
                            Other(button), blindsForHand(handNo).big)
    IN  recomputePot([posted EXCEPT
                        !.currentBet = MaxOf(posted.streetCommitted),
                        !.lastRaiseSize = blindsForHand(handNo).big])

startHand_forgetsBigBlind(s, deck) ==
    LET h == dealHand(s, deck)
    IN  [h EXCEPT !.toAct = IF h.button \in h.allIn THEN NoSeat ELSE h.button]

startHand(s, deck) ==
    LET h == dealHand(s, deck)
    IN  IF h.button \notin h.allIn
        THEN [h EXCEPT !.toAct = h.button]
        ELSE IF Other(h.button) \notin h.allIn
        THEN [h EXCEPT !.toAct = Other(h.button)]
        ELSE runOut([h EXCEPT !.toAct = NoSeat])

toCall(s) == s.currentBet - s.streetCommitted[s.toAct]
maxRaiseTo(s) == s.streetCommitted[s.toAct] + s.stack[s.toAct]
minRaiseTo(s) == s.currentBet + s.lastRaiseSize

\* What legalActions lists, by kind.
mayAct(s) == live(s) /\ s.toAct \in Seat /\ s.street \in Betting
mayCheck(s) == mayAct(s) /\ toCall(s) <= 0
mayCall(s) == mayAct(s) /\ toCall(s) > 0 /\ s.stack[s.toAct] > 0
mayRaise(s) ==
    /\ mayAct(s)
    /\ Other(s.toAct) \notin s.allIn
    /\ s.stack[s.toAct] > toCall(s)
    /\ maxRaiseTo(s) > s.currentBet

applyFold(s) == acted([s EXCEPT !.folded = @ \cup {s.toAct}], s.toAct)

applyCheck(s) == acted(s, s.toAct)

applyCall(s) ==
    acted(commit(s, s.toAct,
                 IF toCall(s) <= s.stack[s.toAct] THEN toCall(s)
                                                  ELSE s.stack[s.toAct]),
          s.toAct)

\* A raise by at least lastRaiseSize reopens the street for the opponent; a
\* shorter all-in does not.
applyRaise(s, raiseTo) ==
    LET increment == raiseTo - s.currentBet
        full      == increment >= s.lastRaiseSize
        paid      == commit(s, s.toAct, raiseTo - s.streetCommitted[s.toAct])
    IN  acted([paid EXCEPT
                 !.lastRaiseSize = IF full THEN increment ELSE @,
                 !.actedThisStreet = IF full THEN {s.toAct} ELSE @,
                 !.currentBet = IF @ >= raiseTo THEN @ ELSE raiseTo],
              s.toAct)

raiseAccepted_ignoresStack(s, raiseTo) == raiseTo >= minRaiseTo(s)

\* The raises apply accepts: at most the stack, at least the minimum unless
\* it is all-in.
raiseAccepted(s, raiseTo) ==
    /\ raiseTo <= maxRaiseTo(s)
    /\ raiseTo >= minRaiseTo(s) \/ raiseTo = maxRaiseTo(s)

autoFault(s) == IF mayCheck(s) THEN applyCheck(s) ELSE applyFold(s)

forfeit(s, loser) ==
    close(payOut(s, [t \in Seat |-> IF t = Other(loser)
                                    THEN s.handCommitted["A"] + s.handCommitted["B"]
                                    ELSE 0]),
          "forfeit", Other(loser))

\* returnCommittedToStacks and close without a winner, as doubleDisconnect and
\* serverFault do.
release(s, reason) ==
    close([payOut(s, s.handCommitted) EXCEPT !.streetCommitted = Zero],
          reason, NoSeat)

-----------------------------------------------------------------------------
(***************************************************************************)
(* The engine under any caller: hands are dealt, the seat to act acts or   *)
(* its clock rings, and the match can be ended from outside at any moment. *)
(***************************************************************************)

Init == \E firstButton \in Seat : state = create(firstButton)

StartHand ==
    /\ live(state)
    /\ state.street = "complete"
    /\ state.handNo < HandBound
    /\ \E deck \in Deck : state' = startHand(state, deck)

Fold == mayAct(state) /\ state' = applyFold(state)

Check == mayCheck(state) /\ state' = applyCheck(state)

Call == mayCall(state) /\ state' = applyCall(state)

Raise ==
    /\ mayRaise(state)
    /\ \E raiseTo \in 0..2 * StartingStack :
          /\ raiseAccepted(state, raiseTo)
          /\ state' = applyRaise(state, raiseTo)

AutoFault == mayAct(state) /\ state' = autoFault(state)

Forfeit == live(state) /\ \E loser \in Seat : state' = forfeit(state, loser)

DoubleDisconnect ==
    live(state) /\ state' = release(state, "double_disconnect")

ServerFault == live(state) /\ state' = release(state, "server_fault")

Next ==
    \/ StartHand
    \/ Fold \/ Check \/ Call \/ Raise \/ AutoFault
    \/ Forfeit \/ DoubleDisconnect \/ ServerFault

Spec == Init /\ [][Next]_vars

(***************************************************************************)
(* Only the clock is fair: the arena arms it for every seat it asks to     *)
(* act (persistAndPublish), and players owe nothing.  The formula is       *)
(* WF_vars(AutoFault) written out: AutoFault is enabled, and changes the   *)
(* state, exactly when a seat may act.                                     *)
(***************************************************************************)
Fairness == []<>(~ mayAct(state)) \/ []<><<AutoFault>>_vars

FairSpec == Spec /\ Fairness

-----------------------------------------------------------------------------
(***************************************************************************)
(* Properties.                                                             *)
(***************************************************************************)

State ==
    [stack           : [Seat -> Nat],
     button          : Seat,
     handNo          : Nat,
     street          : Street,
     actionSeq       : Nat,
     deck            : Deck,
     deckCursor      : Nat,
     board           : 0..5,
     streetCommitted : [Seat -> Nat],
     handCommitted   : [Seat -> Nat],
     folded          : SUBSET Seat,
     allIn           : SUBSET Seat,
     currentBet      : Nat,
     lastRaiseSize   : Nat,
     toAct           : Seat \cup {NoSeat},
     pot             : Nat,
     actedThisStreet : SUBSET Seat,
     terminal        : Terminal]

\* The fields hold values of their types; in particular no stack and no bet is
\* ever negative, so commit never throws (engine.ts 285-286).
TypeOK == state \in State

\* The chips a seat still owns a claim to: its stack and its bets of this hand.
total(s, t) == s.stack[t] + s.handCommitted[t]

\* The end of the match was decided outside the rules of the hand.
EndedOutside(s) ==
    s.terminal.reason \in {"forfeit", "double_disconnect", "server_fault"}

\* No action, deal, payout, return or close creates or loses a chip, and the
\* pot is always the sum of the bets of the hand, also where a method forgets
\* to call recomputePot: assertConservation never throws.
ChipsConserved ==
    /\ total(state, "A") + total(state, "B") = 2 * StartingStack
    /\ state.pot = state.handCommitted["A"] + state.handCommitted["B"]

\* While a hand is played, both seats have paid the same for the streets that
\* are over, so what a showdown or a fold pays out was matched chip by chip
\* (returnUncalledBet looks at the current street only), and the bet to match
\* is the highest bet of the street.
StreetsMatched ==
    state.street \in Betting =>
        /\ \A t \in Seat : state.streetCommitted[t] <= state.handCommitted[t]
        /\ state.handCommitted["A"] - state.streetCommitted["A"]
             = state.handCommitted["B"] - state.streetCommitted["B"]
        /\ state.currentBet = MaxOf(state.streetCommitted)

\* A hand in progress waits for exactly one seat, and that seat can decide:
\* it has chips, has not folded, and still owes the street an action or chips.
\* No hand waits for a seat that is all-in (runOut must have been called), and
\* none waits for nobody.
ActorCanAct ==
    /\ state.street \in Betting <=> state.toAct \in Seat
    /\ state.toAct \in Seat =>
         /\ live(state)
         /\ state.folded = {}
         /\ state.stack[state.toAct] > 0
         /\ state.allIn = {t \in Seat : state.stack[t] = 0}
         /\ \/ state.toAct \notin state.actedThisStreet
            \/ toCall(state) > 0

\* Between two hands of a live match both seats can post a blind, and after
\* MaxHands the match goes on only while the stacks are equal: maybeFinishMatch
\* is reached on every path that ends a hand.
PlaysOnOnlyWhenOpen ==
    live(state) /\ state.street = "complete" =>
        /\ \A t \in Seat : state.stack[t] > 0
        /\ state.handNo >= MaxHands /\ state.handNo > 0
             => state.stack["A"] = state.stack["B"]

\* A hand that is played can be finished, and a match that goes on can be
\* played: the three facts every method of the engine relies on and none checks.
HandIsSound == StreetsMatched /\ ActorCanAct /\ PlaysOnOnlyWhenOpen

\* The verdict settlement acts on is the one the chips show: a bust winner has
\* every chip, a chip lead is a strict lead after MaxHands, a match without a
\* decision names no winner, and nothing is left in the pot.
VerdictMatchesChips ==
    ~ live(state) =>
        /\ state.street = "complete" /\ state.pot = 0
        /\ state.terminal.reason = "bust" =>
             state.stack[state.terminal.winner] = 2 * StartingStack
        /\ state.terminal.reason = "chip_lead" =>
             /\ state.handNo >= MaxHands
             /\ state.stack[state.terminal.winner]
                  > state.stack[Other(state.terminal.winner)]
        /\ state.terminal.winner = NoSeat
             <=> state.terminal.reason \in {"double_disconnect", "server_fault"}

\* Whether the board is dealt street by street or run out after an all-in, the
\* same cards of the deck are burned and shown, so the outcome depends on the
\* deck alone; a hand nobody folded is decided on five board cards.
BoardIsDeckDetermined ==
    state.handNo > 0 =>
        /\ state.deckCursor = 4 + (CASE state.board = 0 -> 0
                                     [] state.board = 3 -> 4
                                     [] state.board = 4 -> 6
                                     [] state.board = 5 -> 8)
        /\ state.board = (CASE state.street = "preflop" -> 0
                            [] state.street = "flop" -> 3
                            [] state.street = "turn" -> 4
                            [] state.street = "river" -> 5
                            [] OTHER ->
                                 IF state.folded = {} /\ ~ EndedOutside(state)
                                 THEN 5 ELSE state.board)

\* Nobody wins or loses more in a hand than the smaller of the two stacks the
\* hand began with, whatever was raised, called short or returned.
EffectiveStackBound ==
    [][ ~ EndedOutside(state') =>
          \A t \in Seat :
             total(state', t) - total(state, t)
               <= MinOf([u \in Seat |-> total(state, u)]) ]_vars

\* A split pot gives each seat back exactly what it bet in the hand: uncalled
\* chips were returned first, so the pot is even and the odd-chip rule of
\* showdown moves nothing.
SplitRestoresStacks ==
    [][ /\ state'.street = "complete" /\ state'.folded = {}
        /\ state'.deck = Seat /\ ~ EndedOutside(state')
        => \A t \in Seat : state'.stack[t] = total(state, t) ]_vars

\* What a hand pays, won or split, is what its bets allow (engine.ts 363-406).
PayoutIsFair == EffectiveStackBound /\ SplitRestoresStacks

\* A street ends without a fold only after both seats acted on it or are
\* all-in: the big blind keeps its option, and a check by one seat does not
\* close a street for the other.
NoStreetSkipsASeat ==
    [][ /\ state.street \in Betting /\ state'.street # state.street
        /\ state'.folded = {} /\ ~ EndedOutside(state')
        => \A t \in Seat : t = state.toAct \/ t \in state.actedThisStreet
                                           \/ t \in state'.allIn ]_vars

\* A raise is always answered by the opponent, also the short all-in raise
\* that does not reopen the betting: it never ends the street by itself.
RaiseIsAnswered ==
    [][ Raise => /\ state'.street = state.street
                 /\ state'.toAct = Other(state.toAct) ]_vars

\* A decision is named by its hand and its sequence number, and no later
\* decision of the match has the name of an earlier one: the check of both in
\* the arena refuses a repeated or delayed action.
DecisionsAreFresh ==
    [][ state'.toAct \in Seat =>
          \/ state'.handNo > state.handNo
          \/ state'.handNo = state.handNo /\ state'.actionSeq > state.actionSeq ]_vars

\* Seats decide in turn, a raise and a street wait for the other seat, and no
\* decision is asked for twice (engine.ts 297-346).
TurnsAreOrderly == NoStreetSkipsASeat /\ RaiseIsAnswered /\ DecisionsAreFresh

\* Every hand that is dealt ends, if the clock of the seat to act rings.
HandCompletes == (state.street \in Betting) ~> (state.street = "complete")
=============================================================================
