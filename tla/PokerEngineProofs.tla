------------------------- MODULE PokerEngineProofs -------------------------
(***************************************************************************)
(* Proofs about PokerEngine for every stack, blind schedule and match      *)
(* length.  The inductive invariant IInv is a disjunction: a hand is being *)
(* played (HandInv) or the table is at rest (RestInv).  Every private      *)
(* method gets a lemma of its own, from the innermost (returnUncalledBet,  *)
(* commit) outwards, and the public methods cite them.                     *)
(*                                                                         *)
(* The last part is about the scripts of MCMatchPlay, which play with the  *)
(* constants of the game.                                                  *)
(***************************************************************************)
EXTENDS MCMatchPlay, TLAPS

\* The bookkeeping of the chips while bets are on the table.
Bets(s) ==
    /\ \A t \in Seat : s.streetCommitted[t] <= s.handCommitted[t]
    /\ s.handCommitted["A"] - s.streetCommitted["A"]
         = s.handCommitted["B"] - s.streetCommitted["B"]
    /\ total(s, "A") + total(s, "B") = 2 * StartingStack

Money(s) ==
    /\ Bets(s)
    /\ s.pot = s.handCommitted["A"] + s.handCommitted["B"]

\* The cards that left the deck are those the board shows and their burns.
Dealt(s) ==
    \/ s.board = 0 /\ s.deckCursor = 4
    \/ s.board = 3 /\ s.deckCursor = 8
    \/ s.board = 4 /\ s.deckCursor = 10
    \/ s.board = 5 /\ s.deckCursor = 12

StreetBoard(s) ==
    \/ s.street = "preflop" /\ s.board = 0
    \/ s.street = "flop" /\ s.board = 3
    \/ s.street = "turn" /\ s.board = 4
    \/ s.street = "river" /\ s.board = 5

\* A hand on the table, whoever is to act.
OpenBets(s) ==
    /\ s \in State
    /\ Bets(s)
    /\ live(s)
    /\ s.handNo > 0
    /\ Dealt(s)
    /\ StreetBoard(s)
    /\ s.currentBet = MaxOf(s.streetCommitted)
    /\ s.lastRaiseSize > 0
    /\ s.allIn = {t \in Seat : s.stack[t] = 0}

Open(s) ==
    /\ OpenBets(s)
    /\ s.pot = s.handCommitted["A"] + s.handCommitted["B"]

\* A hand that waits for the decision of toAct.
HandInv(s) ==
    /\ Open(s)
    /\ s.folded = {}
    /\ s.toAct \in Seat
    /\ s.stack[s.toAct] > 0
    /\ s.toAct \notin s.actedThisStreet \/ toCall(s) > 0

\* No hand on the table: before the first one, between two, or at the end.
AtRest(s) ==
    /\ s \in State
    /\ s.street = "complete"
    /\ s.handCommitted = Zero
    /\ s.pot = 0
    /\ s.toAct = NoSeat
    /\ s.stack["A"] + s.stack["B"] = 2 * StartingStack

Verdict(s) ==
    /\ live(s) =>
         /\ s.stack["A"] > 0 /\ s.stack["B"] > 0
         /\ s.handNo >= MaxHands /\ s.handNo > 0 => s.stack["A"] = s.stack["B"]
    /\ s.terminal.reason = "live" => live(s)
    /\ s.terminal.reason = "bust" =>
         s.terminal.winner \in Seat /\ s.stack[s.terminal.winner] = 2 * StartingStack
    /\ s.terminal.reason = "chip_lead" =>
         /\ s.terminal.winner \in Seat
         /\ s.handNo >= MaxHands
         /\ s.stack[s.terminal.winner] > s.stack[Other(s.terminal.winner)]
    /\ s.terminal.reason = "forfeit" => s.terminal.winner \in Seat
    /\ s.terminal.reason \in {"double_disconnect", "server_fault"}
         => s.terminal.winner = NoSeat

RestBoard(s) ==
    s.handNo > 0 => /\ Dealt(s)
                    /\ s.folded = {} /\ ~ EndedOutside(s) => s.board = 5

RestInv(s) == AtRest(s) /\ Verdict(s) /\ RestBoard(s)

IInv == HandInv(state) \/ RestInv(state)

\* What the end of a hand may do to the chips: m is what either seat had
\* matched, and a split gives every chip back.
FairEnd(r, s) ==
    /\ \A t \in Seat : total(r, t) - total(s, t) <= s.handCommitted[Other(t)]
    /\ \A t \in Seat : total(r, t) - total(s, t) <= s.handCommitted[t]
    /\ s.folded = {} /\ s.deck = Seat => \A t \in Seat : r.stack[t] = total(s, t)
    /\ r.folded = s.folded /\ r.deck = s.deck /\ r.allIn = s.allIn

-----------------------------------------------------------------------------
(***************************************************************************)
(* Types and chips of the private methods.                                 *)
(***************************************************************************)

LEMMA OtherSeat ==
    ASSUME NEW t \in Seat
    PROVE  Other(t) \in Seat /\ Other(t) # t /\ Other(Other(t)) = t
           /\ \A u \in Seat : u = t \/ u = Other(t)
BY DEF Other, Seat

LEMMA BlindsType ==
    ASSUME NEW n \in Nat
    PROVE  blindsForHand(n).small \in Nat \ {0} /\ blindsForHand(n).big \in Nat \ {0}
<1>1. CASE \E i \in 1..Len(BlindSchedule) : Governs(i, n)
  <2>1. (CHOOSE i \in 1..Len(BlindSchedule) : Governs(i, n))
          \in 1..Len(BlindSchedule)
    BY <1>1
  <2> QED BY <1>1, <2>1, BlindAssumption DEF blindsForHand
<1>2. CASE ~ \E i \in 1..Len(BlindSchedule) : Governs(i, n)
  <2>1. BlindSchedule[1].small \in Nat \ {0} /\ BlindSchedule[1].big \in Nat \ {0}
    <3>1. 1 \in 1..Len(BlindSchedule)
      BY BlindAssumption
    <3> QED BY <3>1, BlindAssumption
  <2> QED BY <1>2, <2>1 DEF blindsForHand
<1> QED BY <1>1, <1>2

\* The updates of the record that keep it a State, each with abstract values.
LEMMA BetUpdate ==
    ASSUME NEW s \in State, NEW x \in [Seat -> Nat], NEW y \in [Seat -> Nat],
           NEW z \in [Seat -> Nat], NEW w \in SUBSET Seat
    PROVE  [s EXCEPT !.stack = x, !.streetCommitted = y, !.handCommitted = z,
                     !.allIn = w] \in State
BY DEF State

LEMMA EndUpdate ==
    ASSUME NEW s \in State, NEW x \in [Seat -> Nat], NEW y \in [Seat -> Nat],
           NEW p \in Nat, NEW st \in Street, NEW t \in Seat \cup {NoSeat}
    PROVE  [s EXCEPT !.stack = x, !.handCommitted = y, !.pot = p,
                     !.street = st, !.toAct = t] \in State
BY DEF State

LEMMA DealUpdate ==
    ASSUME NEW s \in State, NEW b \in 0..5, NEW c \in Nat
    PROVE  [s EXCEPT !.board = b, !.deckCursor = c] \in State
BY DEF State

LEMMA ReturnLemma ==
    ASSUME NEW s \in State, Money(s), NEW r, r = returnUncalledBet(s)
    PROVE  /\ r \in State
           /\ Money(r)
           /\ r.handCommitted["A"] = r.handCommitted["B"]
           /\ r.streetCommitted["A"] = r.streetCommitted["B"]
           /\ \A t \in Seat : /\ r.handCommitted[t] <= s.handCommitted[t]
                              /\ total(r, t) = total(s, t)
                              /\ r.stack[t] >= s.stack[t]
<1> DEFINE m == MinOf(s.streetCommitted)
           x == [t \in Seat |-> s.streetCommitted[t] - m]
           y == [t \in Seat |-> m]
           z == [t \in Seat |-> s.handCommitted[t] - x[t]]
           w == [t \in Seat |-> s.stack[t] + x[t]]
<1>0. /\ s.streetCommitted \in [Seat -> Nat] /\ s.handCommitted \in [Seat -> Nat]
      /\ s.stack \in [Seat -> Nat]
  BY DEF State
<1>1. CASE s.streetCommitted["A"] = s.streetCommitted["B"]
  <2>1. r = s BY <1>1 DEF returnUncalledBet
  <2>2. s.handCommitted["A"] = s.handCommitted["B"]
    BY <1>1, <1>0 DEF Money, Bets, Seat
  <2>3. \A t \in Seat : s.handCommitted[t] <= s.handCommitted[t]
                       /\ s.stack[t] >= s.stack[t]
    BY <1>0
  <2> QED BY <2>1, <2>2, <2>3, <1>1
<1>2. CASE s.streetCommitted["A"] # s.streetCommitted["B"]
  <2>1. m \in Nat /\ \A t \in Seat : m <= s.streetCommitted[t]
    BY <1>0 DEF MinOf, Seat
  <2>2. /\ y \in [Seat -> Nat] /\ z \in [Seat -> Nat] /\ w \in [Seat -> Nat]
        /\ z["A"] + z["B"] \in Nat
    <3>1. \A t \in Seat : x[t] \in Nat /\ x[t] <= s.handCommitted[t]
      BY <1>0, <2>1 DEF Money, Bets
    <3> QED BY <3>1, <2>1, <1>0 DEF Seat
  <2>3. r = [s EXCEPT !.streetCommitted = y, !.handCommitted = z, !.stack = w,
                      !.pot = z["A"] + z["B"]]
    BY <1>2 DEF returnUncalledBet, recomputePot, State
  <2>4. r \in State
    BY <2>2, <2>3 DEF State
  <2>5. /\ r.streetCommitted = y /\ r.handCommitted = z /\ r.stack = w
        /\ r.pot = z["A"] + z["B"]
    BY <2>3 DEF State
  <2>6. /\ z["A"] = s.handCommitted["A"] - s.streetCommitted["A"] + m
        /\ z["B"] = s.handCommitted["B"] - s.streetCommitted["B"] + m
        /\ w["A"] = s.stack["A"] + s.streetCommitted["A"] - m
        /\ w["B"] = s.stack["B"] + s.streetCommitted["B"] - m
        /\ y["A"] = m /\ y["B"] = m
    BY <2>1, <1>0 DEF Seat
  <2>7. z["A"] = z["B"] /\ m <= z["A"]
    BY <2>6, <2>1, <1>0 DEF Money, Bets, Seat
  <2> HIDE DEF m, x, y, z, w
  <2>8. Money(r)
    BY <2>5, <2>6, <2>7, <2>1, <1>0 DEF Money, Bets, total, Seat
  <2> QED BY <2>4, <2>5, <2>6, <2>7, <2>8, <2>1, <1>0 DEF total, Seat
<1> QED BY <1>1, <1>2

LEMMA ReturnFrame ==
    ASSUME NEW s \in State
    PROVE  LET r == returnUncalledBet(s) IN
           /\ r.button = s.button /\ r.handNo = s.handNo /\ r.street = s.street
           /\ r.actionSeq = s.actionSeq /\ r.deck = s.deck
           /\ r.deckCursor = s.deckCursor /\ r.board = s.board
           /\ r.folded = s.folded /\ r.allIn = s.allIn /\ r.toAct = s.toAct
           /\ r.actedThisStreet = s.actedThisStreet /\ r.terminal = s.terminal
BY DEF returnUncalledBet, recomputePot, State

LEMMA PayOutLemma ==
    ASSUME NEW s \in State, NEW prize \in [Seat -> Nat],
           s.stack["A"] + prize["A"] + s.stack["B"] + prize["B"] = 2 * StartingStack,
           NEW r, r = payOut(s, prize)
    PROVE  /\ AtRest(r)
           /\ \A t \in Seat : r.stack[t] = s.stack[t] + prize[t]
           /\ \A t \in Seat : total(r, t) = s.stack[t] + prize[t]
           /\ r.button = s.button /\ r.handNo = s.handNo /\ r.deck = s.deck
           /\ r.deckCursor = s.deckCursor /\ r.board = s.board
           /\ r.folded = s.folded /\ r.allIn = s.allIn /\ r.terminal = s.terminal
<1> DEFINE x == [t \in Seat |-> s.stack[t] + prize[t]]
<1>1. s.stack \in [Seat -> Nat]
  BY DEF State
<1>2. x \in [Seat -> Nat] /\ Zero \in [Seat -> Nat] /\ NoSeat \in Seat \cup {NoSeat}
      /\ "complete" \in Street /\ x["A"] + x["B"] = 2 * StartingStack
      /\ \A t \in Seat : x[t] = s.stack[t] + prize[t] /\ Zero[t] = 0
  BY <1>1 DEF Zero, Street, Seat
<1>3. r = [s EXCEPT !.stack = x, !.handCommitted = Zero, !.pot = 0,
                    !.street = "complete", !.toAct = NoSeat]
  BY DEF payOut, State
<1> HIDE DEF x
<1>4. r \in State
  <2>1. 0 \in Nat
    OBVIOUS
  <2>2. [s EXCEPT !.stack = x, !.handCommitted = Zero, !.pot = 0,
                  !.street = "complete", !.toAct = NoSeat] \in State
    BY <1>2, <2>1, EndUpdate
  <2> QED BY <1>3, <2>2
<1>5. /\ r.stack = x /\ r.handCommitted = Zero /\ r.pot = 0
      /\ r.street = "complete" /\ r.toAct = NoSeat
      /\ r.button = s.button /\ r.handNo = s.handNo /\ r.deck = s.deck
      /\ r.deckCursor = s.deckCursor /\ r.board = s.board
      /\ r.folded = s.folded /\ r.allIn = s.allIn /\ r.terminal = s.terminal
  BY <1>3 DEF State
<1>6. AtRest(r)
  BY <1>2, <1>4, <1>5 DEF AtRest
<1>7. \A t \in Seat : total(r, t) = s.stack[t] + prize[t]
  BY <1>1, <1>2, <1>5 DEF total
<1> QED BY <1>2, <1>5, <1>6, <1>7

\* Closing the match touches nothing but the verdict.
LEMMA CloseLemma ==
    ASSUME NEW s, AtRest(s), NEW reason, NEW winner,
           [reason |-> reason, winner |-> winner] \in Terminal,
           NEW r, r = close(s, reason, winner)
    PROVE  /\ AtRest(r)
           /\ r.terminal = [reason |-> reason, winner |-> winner]
           /\ r.terminal.reason = reason /\ r.terminal.winner = winner
           /\ r.stack = s.stack /\ r.handNo = s.handNo /\ r.deck = s.deck
           /\ r.deckCursor = s.deckCursor /\ r.board = s.board
           /\ r.folded = s.folded /\ r.allIn = s.allIn
           /\ \A t \in Seat : total(r, t) = total(s, t)
<1>1. s \in State
  BY DEF AtRest
<1>2. r \in State
  BY <1>1 DEF close, State
<1> QED BY <1>1, <1>2 DEF close, State, AtRest, total

LEMMA MaybeFinishLemma ==
    ASSUME NEW s, AtRest(s), live(s), NEW r, r = maybeFinishMatch(s)
    PROVE  /\ AtRest(r)
           /\ Verdict(r)
           /\ ~ EndedOutside(r)
           /\ r.stack = s.stack /\ r.handNo = s.handNo /\ r.deck = s.deck
           /\ r.deckCursor = s.deckCursor /\ r.board = s.board
           /\ r.folded = s.folded /\ r.allIn = s.allIn
           /\ \A t \in Seat : total(r, t) = total(s, t)
<1>1. /\ s.stack["A"] \in Nat /\ s.stack["B"] \in Nat
      /\ s.stack["A"] + s.stack["B"] = 2 * StartingStack
      /\ s.handNo \in Nat /\ StartingStack \in Nat \ {0} /\ MaxHands \in Nat
  BY StackAssumption, HandsAssumption DEF AtRest, State, Seat
<1>2. CASE s.stack["A"] <= 0
  <2>1. r = close(s, "bust", "B")
    BY <1>2 DEF maybeFinishMatch
  <2>2. [reason |-> "bust", winner |-> "B"] \in Terminal
    BY DEF Terminal, Seat
  <2>3. s.stack["B"] = 2 * StartingStack
    BY <1>1, <1>2
  <2> QED BY <2>1, <2>2, <2>3, CloseLemma DEF Verdict, EndedOutside, live, NotTerminal, Seat
<1>3. CASE ~ (s.stack["A"] <= 0) /\ s.stack["B"] <= 0
  <2>1. r = close(s, "bust", "A")
    BY <1>3 DEF maybeFinishMatch
  <2>2. [reason |-> "bust", winner |-> "A"] \in Terminal
    BY DEF Terminal, Seat
  <2>3. s.stack["A"] = 2 * StartingStack
    BY <1>1, <1>3
  <2> QED BY <2>1, <2>2, <2>3, CloseLemma DEF Verdict, EndedOutside, live, NotTerminal, Seat
<1>4. CASE /\ ~ (s.stack["A"] <= 0) /\ ~ (s.stack["B"] <= 0)
           /\ s.handNo >= MaxHands /\ s.stack["A"] # s.stack["B"]
  <2> DEFINE w == IF s.stack["A"] > s.stack["B"] THEN "A" ELSE "B"
  <2>1. r = close(s, "chip_lead", w)
    BY <1>4 DEF maybeFinishMatch
  <2>2. w \in Seat /\ s.stack[w] > s.stack[Other(w)]
    BY <1>1, <1>4 DEF Seat, Other
  <2>3. [reason |-> "chip_lead", winner |-> w] \in Terminal
    BY <2>2 DEF Terminal
  <2> HIDE DEF w
  <2> QED BY <1>4, <2>1, <2>2, <2>3, CloseLemma DEF Verdict, EndedOutside, live, NotTerminal
<1>5. CASE /\ ~ (s.stack["A"] <= 0) /\ ~ (s.stack["B"] <= 0)
           /\ ~ (s.handNo >= MaxHands /\ s.stack["A"] # s.stack["B"])
  <2>1. r = s
    BY <1>5 DEF maybeFinishMatch
  <2>2. s.terminal.reason = "live"
    BY DEF live, NotTerminal
  <2>3. Verdict(s)
    BY <1>1, <1>5, <2>2 DEF Verdict
  <2> QED BY <2>1, <2>2, <2>3 DEF EndedOutside
<1> QED BY <1>2, <1>3, <1>4, <1>5

LEMMA ShowdownLemma ==
    ASSUME NEW s \in State, Money(s), live(s), s.handNo > 0, s.deckCursor = 12,
           s.board = 5, NEW r, r = showdown(s)
    PROVE  RestInv(r) /\ FairEnd(r, s) /\ ~ EndedOutside(r)
<1> DEFINE u == returnUncalledBet(s)
           p == payOut(u, showdownPrize(u))
           h == u.handCommitted["A"]
<1>1. /\ u \in State /\ Money(u) /\ u.handCommitted["B"] = h
      /\ \A t \in Seat : /\ u.handCommitted[t] <= s.handCommitted[t]
                         /\ total(u, t) = total(s, t)
  BY ReturnLemma
<1>2. /\ u.button = s.button /\ u.handNo = s.handNo /\ u.deck = s.deck
      /\ u.deckCursor = s.deckCursor /\ u.board = s.board
      /\ u.folded = s.folded /\ u.allIn = s.allIn /\ u.terminal = s.terminal
  BY ReturnFrame
<1> HIDE DEF u
<1>3. /\ h \in Nat /\ u.pot = 2 * h
      /\ u.stack["A"] \in Nat /\ u.stack["B"] \in Nat
      /\ u.stack["A"] + h + u.stack["B"] + h = 2 * StartingStack
  BY <1>1, StackAssumption DEF Money, Bets, State, Seat, total
<1>4. /\ showdownPrize(u) \in [Seat -> Nat]
      /\ showdownPrize(u)["A"] + showdownPrize(u)["B"] = 2 * h
      /\ \A t \in Seat : showdownPrize(u)[t] <= 2 * h
      /\ u.deck = Seat => \A t \in Seat : showdownPrize(u)[t] = h
  <2>1. u.pot \div 2 = h /\ u.pot - h * 2 = 0
    BY <1>3
  <2>2. CASE u.deck = Seat
    <3>1. showdownPrize(u) = [t \in Seat |-> h]
      <4>1. \A t \in Seat : (IF t = leftOfButton(u.button) THEN h + 0 ELSE h) = h
        BY <1>3
      <4> QED BY <2>1, <2>2, <4>1 DEF showdownPrize
    <3> QED BY <3>1, <1>3 DEF Seat
  <2>3. CASE u.deck # Seat
    <3>1. showdownPrize(u) = [t \in Seat |-> IF t \in u.deck THEN u.pot ELSE 0]
      BY <2>3 DEF showdownPrize
    <3>2. u.deck = {"A"} \/ u.deck = {"B"}
      BY <1>1, <2>3 DEF State, Deck, Seat
    <3> QED BY <3>1, <3>2, <1>3, <2>3 DEF Seat
  <2> QED BY <2>2, <2>3
<1> DEFINE prize == showdownPrize(u)
<1> HIDE DEF prize
<1>5. /\ AtRest(p) /\ live(p) /\ p.handNo > 0 /\ p.deckCursor = 12 /\ p.board = 5
      /\ p.folded = s.folded /\ p.allIn = s.allIn /\ p.deck = s.deck
      /\ \A t \in Seat : /\ p.stack[t] = u.stack[t] + prize[t]
                         /\ total(p, t) = u.stack[t] + prize[t]
  <2>1. u.stack["A"] + prize["A"] + u.stack["B"] + prize["B"] = 2 * StartingStack
    BY <1>3, <1>4 DEF prize, Seat
  <2> QED BY <2>1, <1>1, <1>2, <1>4, PayOutLemma DEF prize, live
<1> HIDE DEF p
<1>6. r = maybeFinishMatch(p)
  BY DEF showdown, p, u
<1>7. /\ AtRest(r) /\ Verdict(r) /\ ~ EndedOutside(r)
      /\ r.stack = p.stack /\ r.handNo = p.handNo /\ r.deck = p.deck
      /\ r.deckCursor = p.deckCursor /\ r.board = p.board
      /\ r.folded = p.folded /\ r.allIn = p.allIn
      /\ \A t \in Seat : total(r, t) = total(p, t)
  BY <1>5, <1>6, MaybeFinishLemma
<1>8. RestInv(r)
  BY <1>5, <1>7 DEF RestInv, RestBoard, Dealt
<1>9. FairEnd(r, s)
  <2>1. \A t \in Seat : /\ total(s, t) = u.stack[t] + h
                        /\ total(s, t) \in Int /\ u.stack[t] \in Nat
                        /\ h <= s.handCommitted[t] /\ s.handCommitted[t] \in Nat
    BY <1>1, <1>3 DEF total, Seat, State
  <2>2. \A t \in Seat : prize[t] \in Nat /\ prize[t] <= 2 * h
    BY <1>4 DEF prize
  <2>3. \A t \in Seat : total(r, t) - total(s, t) <= h
    BY <1>3, <1>5, <1>7, <2>1, <2>2
  <2>4. s.deck = Seat => \A t \in Seat : r.stack[t] = total(s, t)
    BY <1>2, <1>4, <1>5, <1>7, <2>1 DEF prize
  <2>5. \A t \in Seat : total(r, t) \in Int
    BY <1>5, <1>7, <2>1, <2>2
  <2>6. \A t \in Seat : /\ total(r, t) - total(s, t) <= s.handCommitted[t]
                        /\ total(r, t) - total(s, t) <= s.handCommitted[Other(t)]
    BY <1>3, <2>1, <2>3, <2>5, OtherSeat
  <2> QED BY <1>5, <1>7, <2>4, <2>6 DEF FairEnd
<1> QED BY <1>7, <1>8, <1>9

LEMMA FoldLemma ==
    ASSUME NEW s \in State, Money(s), live(s), Dealt(s), s.folded # {},
           NEW r, r = finishHandByFold(s)
    PROVE  RestInv(r) /\ FairEnd(r, s) /\ ~ EndedOutside(r)
<1> DEFINE u == returnUncalledBet(s)
           h == u.handCommitted["A"]
           w == IF "A" \in u.folded THEN "B" ELSE "A"
           prize == [t \in Seat |-> IF t = w THEN u.pot ELSE 0]
           p == payOut(u, prize)
<1>1. /\ u \in State /\ Money(u) /\ u.handCommitted["B"] = h
      /\ \A t \in Seat : /\ u.handCommitted[t] <= s.handCommitted[t]
                         /\ total(u, t) = total(s, t)
  BY ReturnLemma
<1>2. /\ u.button = s.button /\ u.handNo = s.handNo /\ u.deck = s.deck
      /\ u.deckCursor = s.deckCursor /\ u.board = s.board
      /\ u.folded = s.folded /\ u.allIn = s.allIn /\ u.terminal = s.terminal
  BY ReturnFrame
<1> HIDE DEF u
<1>3. /\ h \in Nat /\ u.pot = 2 * h
      /\ u.stack["A"] \in Nat /\ u.stack["B"] \in Nat
      /\ u.stack["A"] + h + u.stack["B"] + h = 2 * StartingStack
  BY <1>1, StackAssumption DEF Money, Bets, State, Seat, total
<1>4. /\ prize \in [Seat -> Nat]
      /\ prize["A"] + prize["B"] = 2 * h
      /\ \A t \in Seat : prize[t] <= 2 * h
  BY <1>3 DEF Seat
<1>5. r = maybeFinishMatch(p)
  BY DEF finishHandByFold, u
<1> HIDE DEF prize, w
<1>6. /\ AtRest(p) /\ live(p) /\ p.handNo = s.handNo /\ Dealt(p)
      /\ p.folded = s.folded /\ p.allIn = s.allIn /\ p.deck = s.deck
      /\ \A t \in Seat : total(p, t) = u.stack[t] + prize[t]
  <2>1. u.stack["A"] + prize["A"] + u.stack["B"] + prize["B"] = 2 * StartingStack
    BY <1>3, <1>4 DEF Seat
  <2> QED BY <2>1, <1>1, <1>2, <1>4, PayOutLemma DEF live, Dealt
<1> HIDE DEF p
<1>7. /\ AtRest(r) /\ Verdict(r) /\ ~ EndedOutside(r)
      /\ r.handNo = p.handNo /\ r.deck = p.deck
      /\ r.deckCursor = p.deckCursor /\ r.board = p.board
      /\ r.folded = p.folded /\ r.allIn = p.allIn
      /\ \A t \in Seat : total(r, t) = total(p, t)
  BY <1>5, <1>6, MaybeFinishLemma
<1>8. RestInv(r)
  BY <1>6, <1>7 DEF RestInv, RestBoard, Dealt
<1>9. FairEnd(r, s)
  <2>1. \A t \in Seat : /\ total(s, t) = u.stack[t] + h
                        /\ total(s, t) \in Int /\ u.stack[t] \in Nat
                        /\ h <= s.handCommitted[t] /\ s.handCommitted[t] \in Nat
    BY <1>1, <1>3 DEF total, Seat, State
  <2>2. \A t \in Seat : prize[t] \in Nat /\ prize[t] <= 2 * h
    BY <1>4
  <2>3. \A t \in Seat : total(r, t) \in Int /\ total(r, t) - total(s, t) <= h
    BY <1>3, <1>6, <1>7, <2>1, <2>2
  <2>4. \A t \in Seat : /\ total(r, t) - total(s, t) <= s.handCommitted[t]
                        /\ total(r, t) - total(s, t) <= s.handCommitted[Other(t)]
    BY <1>3, <2>1, <2>3, OtherSeat
  <2> QED BY <1>6, <1>7, <2>4 DEF FairEnd
<1> QED BY <1>7, <1>8, <1>9

LEMMA DealBoardLemma ==
    ASSUME NEW s \in State, Dealt(s), NEW r, r = dealBoard(s)
    PROVE  /\ r \in State /\ Dealt(r)
           /\ r.board = IF s.board = 0 THEN 3 ELSE IF s.board < 5 THEN s.board + 1 ELSE 5
           /\ r.stack = s.stack /\ r.streetCommitted = s.streetCommitted
           /\ r.handCommitted = s.handCommitted /\ r.pot = s.pot
           /\ r.handNo = s.handNo /\ r.deck = s.deck /\ r.folded = s.folded
           /\ r.allIn = s.allIn /\ r.terminal = s.terminal
<1>1. s.board \in 0..5 /\ s.deckCursor \in Nat
  BY DEF State
<1>2. CASE s.board = 0
  <2>1. r = [s EXCEPT !.board = 3, !.deckCursor = s.deckCursor + 4]
    BY <1>2 DEF dealBoard
  <2>2. r \in State
    <3>1. 3 \in 0..5 /\ s.deckCursor + 4 \in Nat
      BY <1>1
    <3> QED BY <2>1, <3>1, DealUpdate
  <2> QED BY <1>1, <1>2, <2>1, <2>2 DEF Dealt, State
<1>3. CASE s.board # 0 /\ s.board < 5
  <2>1. r = [s EXCEPT !.board = s.board + 1, !.deckCursor = s.deckCursor + 2]
    BY <1>3 DEF dealBoard
  <2>2. r \in State
    <3>1. s.board + 1 \in 0..5 /\ s.deckCursor + 2 \in Nat
      BY <1>1, <1>3
    <3> QED BY <2>1, <3>1, DealUpdate
  <2> QED BY <1>1, <1>3, <2>1, <2>2 DEF Dealt, State
<1>4. CASE s.board = 5
  BY <1>4 DEF dealBoard
<1> QED BY <1>1, <1>2, <1>3, <1>4

LEMMA RunOutLemma ==
    ASSUME NEW s \in State, Money(s), live(s), s.handNo > 0, Dealt(s),
           NEW r, r = runOut(s)
    PROVE  RestInv(r) /\ FairEnd(r, s) /\ ~ EndedOutside(r)
<1> DEFINE u  == returnUncalledBet(s)
           d1 == dealBoard(u)
           d2 == dealBoard(d1)
           d3 == dealBoard(d2)
<1>1. /\ u \in State /\ Money(u)
      /\ \A t \in Seat : /\ u.handCommitted[t] <= s.handCommitted[t]
                         /\ total(u, t) = total(s, t)
  BY ReturnLemma
<1>2. /\ u.handNo = s.handNo /\ u.deck = s.deck
      /\ u.deckCursor = s.deckCursor /\ u.board = s.board
      /\ u.folded = s.folded /\ u.allIn = s.allIn /\ u.terminal = s.terminal
  BY ReturnFrame
<1> HIDE DEF u
<1>3. Dealt(u)
  BY <1>2 DEF Dealt
<1>4. /\ d1 \in State /\ Dealt(d1)
      /\ d1.board = IF u.board = 0 THEN 3 ELSE IF u.board < 5 THEN u.board + 1 ELSE 5
      /\ d1.stack = u.stack /\ d1.streetCommitted = u.streetCommitted
      /\ d1.handCommitted = u.handCommitted /\ d1.pot = u.pot
      /\ d1.handNo = u.handNo /\ d1.deck = u.deck /\ d1.folded = u.folded
      /\ d1.allIn = u.allIn /\ d1.terminal = u.terminal
  BY <1>1, <1>3, DealBoardLemma
<1> HIDE DEF d1
<1>5. /\ d2 \in State /\ Dealt(d2)
      /\ d2.board = IF d1.board = 0 THEN 3 ELSE IF d1.board < 5 THEN d1.board + 1 ELSE 5
      /\ d2.stack = d1.stack /\ d2.streetCommitted = d1.streetCommitted
      /\ d2.handCommitted = d1.handCommitted /\ d2.pot = d1.pot
      /\ d2.handNo = d1.handNo /\ d2.deck = d1.deck /\ d2.folded = d1.folded
      /\ d2.allIn = d1.allIn /\ d2.terminal = d1.terminal
  BY <1>4, DealBoardLemma
<1> HIDE DEF d2
<1>6. /\ d3 \in State /\ Dealt(d3)
      /\ d3.board = IF d2.board = 0 THEN 3 ELSE IF d2.board < 5 THEN d2.board + 1 ELSE 5
      /\ d3.stack = d2.stack /\ d3.streetCommitted = d2.streetCommitted
      /\ d3.handCommitted = d2.handCommitted /\ d3.pot = d2.pot
      /\ d3.handNo = d2.handNo /\ d3.deck = d2.deck /\ d3.folded = d2.folded
      /\ d3.allIn = d2.allIn /\ d3.terminal = d2.terminal
  BY <1>5, DealBoardLemma
<1> HIDE DEF d3
<1>7. d3.board = 5 /\ d3.deckCursor = 12
  BY <1>3, <1>4, <1>5, <1>6 DEF Dealt
<1>8. Money(d3) /\ live(d3) /\ d3.handNo > 0
  BY <1>1, <1>2, <1>4, <1>5, <1>6 DEF Money, Bets, live, total
<1>9. r = showdown(d3)
  BY DEF runOut, u, d1, d2, d3
<1>10. RestInv(r) /\ FairEnd(r, d3) /\ ~ EndedOutside(r)
  BY <1>6, <1>7, <1>8, <1>9, ShowdownLemma
<1>11. FairEnd(r, s)
  <2>1. /\ d3.folded = s.folded /\ d3.deck = s.deck /\ d3.allIn = s.allIn
        /\ d3.handCommitted = u.handCommitted /\ d3.stack = u.stack
    BY <1>2, <1>4, <1>5, <1>6
  <2>2. \A t \in Seat : total(d3, t) = total(s, t)
    BY <1>1, <2>1 DEF total
  <2>3. \A t \in Seat : /\ d3.handCommitted[t] <= s.handCommitted[t]
                        /\ d3.handCommitted[t] \in Nat /\ s.handCommitted[t] \in Nat
                        /\ total(r, t) - total(s, t) \in Int
    BY <1>1, <1>6, <1>10, <2>1 DEF State, total, RestInv, AtRest
  <2>4. \A t \in Seat : /\ total(r, t) - total(s, t) <= d3.handCommitted[t]
                        /\ total(r, t) - total(s, t) <= d3.handCommitted[Other(t)]
    BY <1>10, <2>2 DEF FairEnd
  <2>5. \A t \in Seat : /\ total(r, t) - total(s, t) <= s.handCommitted[t]
                        /\ total(r, t) - total(s, t) <= s.handCommitted[Other(t)]
    <3> TAKE t \in Seat
    <3>1. Other(t) \in Seat
      BY OtherSeat
    <3> QED BY <2>3, <2>4, <3>1
  <2> QED BY <1>10, <2>1, <2>2, <2>5 DEF FairEnd
<1> QED BY <1>10, <1>11

-----------------------------------------------------------------------------
(***************************************************************************)
(* The end of a street and of an action.                                   *)
(***************************************************************************)

\* What the tail of an action leads to: the hand waits for decision n, with the
\* chips of nobody changed, or it is over.
Outcome(r, s, n) ==
    \/ /\ HandInv(r)
       /\ \A t \in Seat : total(r, t) = total(s, t)
       /\ r.handNo = s.handNo /\ r.actionSeq = n
       /\ r.folded = s.folded /\ r.allIn = s.allIn
    \/ RestInv(r) /\ FairEnd(r, s) /\ ~ EndedOutside(r)

LEMMA StreetUpdate ==
    ASSUME NEW s \in State, NEW st \in Street, NEW b \in 0..5, NEW c \in Nat
    PROVE  [s EXCEPT !.street = st, !.board = b, !.deckCursor = c] \in State
BY DEF State

LEMMA NextStreetLemma ==
    ASSUME NEW s, Open(s), s.folded = {}, NEW r, r = nextStreet(s)
    PROVE  Outcome(r, s, s.actionSeq)
<1> DEFINE u == returnUncalledBet(s)
           v == [u EXCEPT !.streetCommitted = Zero, !.currentBet = 0,
                          !.lastRaiseSize = blindsForHand(s.handNo).big,
                          !.actedThisStreet = {}]
<1>0. s \in State /\ Money(s)
  BY DEF Open, OpenBets, Money
<1>1. /\ u \in State /\ Money(u)
      /\ u.handCommitted["A"] = u.handCommitted["B"]
      /\ \A t \in Seat : /\ u.handCommitted[t] <= s.handCommitted[t]
                         /\ total(u, t) = total(s, t)
                         /\ u.stack[t] >= s.stack[t]
  BY <1>0, ReturnLemma
<1>2. /\ u.button = s.button /\ u.handNo = s.handNo /\ u.street = s.street
      /\ u.deck = s.deck /\ u.deckCursor = s.deckCursor /\ u.board = s.board
      /\ u.folded = s.folded /\ u.allIn = s.allIn /\ u.terminal = s.terminal
      /\ u.actionSeq = s.actionSeq
  BY <1>0, ReturnFrame
<1> HIDE DEF u
<1>3. v \in State /\ blindsForHand(s.handNo).big \in Nat \ {0}
  <2>1. s.handNo \in Nat
    BY <1>0 DEF State
  <2>2. blindsForHand(s.handNo).big \in Nat \ {0}
    BY <2>1, BlindsType
  <2>3. Zero \in [Seat -> Nat] /\ {} \in SUBSET Seat
    BY DEF Zero
  <2> QED BY <1>1, <2>2, <2>3 DEF State
<1>4. /\ v.streetCommitted = Zero /\ v.currentBet = 0 /\ v.actedThisStreet = {}
      /\ v.stack = u.stack /\ v.handCommitted = u.handCommitted /\ v.pot = u.pot
      /\ v.button = s.button /\ v.handNo = s.handNo /\ v.street = s.street
      /\ v.deck = s.deck /\ v.deckCursor = s.deckCursor /\ v.board = s.board
      /\ v.folded = {} /\ v.allIn = s.allIn /\ v.terminal = s.terminal
      /\ v.actionSeq = s.actionSeq
      /\ v.lastRaiseSize = blindsForHand(s.handNo).big
  BY <1>1, <1>2 DEF State
<1> HIDE DEF v
<1>5. Money(v)
  BY <1>1, <1>4 DEF Money, Bets, total, Zero, Seat, State
<1>6. live(v) /\ v.handNo > 0 /\ Dealt(v)
  BY <1>4 DEF live, Open, OpenBets, Dealt
<1>7. \A t \in Seat : /\ total(v, t) = total(s, t)
                      /\ v.handCommitted[t] <= s.handCommitted[t]
                      /\ v.handCommitted[t] \in Nat /\ s.handCommitted[t] \in Nat
  BY <1>0, <1>1, <1>4 DEF total, State
<1>8. ASSUME NEW q, NEW w, RestInv(q), FairEnd(q, w), ~ EndedOutside(q),
             w.folded = v.folded, w.deck = v.deck, w.allIn = v.allIn,
             w.stack = v.stack, w.handCommitted = v.handCommitted
      PROVE  RestInv(q) /\ FairEnd(q, s) /\ ~ EndedOutside(q)
  <2>1. \A t \in Seat : total(w, t) = total(s, t)
    BY <1>7, <1>8 DEF total
  <2>2. \A t \in Seat : total(q, t) - total(s, t) \in Int
    BY <1>8, <1>0 DEF RestInv, AtRest, total, State
  <2>3. \A t \in Seat : /\ total(q, t) - total(s, t) <= v.handCommitted[t]
                        /\ total(q, t) - total(s, t) <= v.handCommitted[Other(t)]
    BY <1>8, <2>1 DEF FairEnd
  <2>4. \A t \in Seat : /\ total(q, t) - total(s, t) <= s.handCommitted[t]
                        /\ total(q, t) - total(s, t) <= s.handCommitted[Other(t)]
    <3> TAKE t \in Seat
    <3>1. Other(t) \in Seat
      BY OtherSeat
    <3> QED BY <1>7, <2>2, <2>3, <3>1
  <2> QED BY <1>8, <1>4, <1>2, <2>1, <2>4 DEF FairEnd
<1>9. CASE s.street = "river"
  <2>1. r = showdown(v)
    BY <1>2, <1>9, <1>4 DEF nextStreet, resetStreet, u, v
  <2>2. v.board = 5 /\ v.deckCursor = 12
    BY <1>4, <1>9 DEF Open, OpenBets, Dealt, StreetBoard
  <2>3. RestInv(r) /\ FairEnd(r, v) /\ ~ EndedOutside(r)
    BY <1>3, <1>5, <1>6, <2>1, <2>2, ShowdownLemma
  <2> QED BY <1>8, <2>3 DEF Outcome
<1>10. CASE s.street # "river"
  <2> DEFINE st == CASE v.street = "preflop" -> "flop"
                     [] v.street = "flop" -> "turn"
                     [] OTHER -> "river"
             b == IF v.street = "preflop" THEN 3 ELSE v.board + 1
             c == IF v.street = "preflop" THEN v.deckCursor + 4 ELSE v.deckCursor + 2
             d == [v EXCEPT !.street = st, !.board = b, !.deckCursor = c]
  <2>1. r = IF v.allIn # {} THEN runOut(d) ELSE [d EXCEPT !.toAct = Other(s.button)]
    <3>1. r = LET dealt ==
                CASE v.street = "preflop" ->
                       [v EXCEPT !.street = "flop", !.board = 3, !.deckCursor = @ + 4]
                  [] v.street = "flop" ->
                       [v EXCEPT !.street = "turn", !.board = @ + 1, !.deckCursor = @ + 2]
                  [] OTHER ->
                       [v EXCEPT !.street = "river", !.board = @ + 1, !.deckCursor = @ + 2]
              IN  IF v.street = "river" THEN showdown(v)
                  ELSE IF v.allIn # {} THEN runOut(dealt)
                  ELSE [dealt EXCEPT !.toAct = Other(s.button)]
      BY DEF nextStreet, resetStreet, dealStreet, u, v
    <3>2. v.street # "river" /\ (v.street = "preflop" \/ v.street = "flop" \/ v.street = "turn")
      BY <1>4, <1>10 DEF Open, OpenBets, StreetBoard
    <3>3. CASE v.street = "preflop"
      BY <3>1, <3>3
    <3>4. CASE v.street = "flop"
      BY <3>1, <3>4
    <3>5. CASE v.street = "turn"
      BY <3>1, <3>5
    <3> QED BY <3>2, <3>3, <3>4, <3>5
  <2>2. /\ st \in Street /\ st \in Betting /\ b \in 0..5 /\ c \in Nat
        /\ \/ st = "flop" /\ b = 3 /\ c = 8
           \/ st = "turn" /\ b = 4 /\ c = 10
           \/ st = "river" /\ b = 5 /\ c = 12
    BY <1>4, <1>6, <1>10 DEF Open, OpenBets, StreetBoard, Dealt, Street, Betting
  <2> HIDE DEF st, b, c
  <2>3. d \in State
    BY <1>3, <2>2, StreetUpdate
  <2>4. /\ d.street = st /\ d.board = b /\ d.deckCursor = c
        /\ d.streetCommitted = Zero /\ d.currentBet = 0 /\ d.actedThisStreet = {}
        /\ d.stack = v.stack /\ d.handCommitted = v.handCommitted /\ d.pot = v.pot
        /\ d.button = v.button /\ d.handNo = v.handNo /\ d.deck = v.deck
        /\ d.folded = {} /\ d.allIn = v.allIn /\ d.terminal = v.terminal
        /\ d.actionSeq = s.actionSeq /\ d.lastRaiseSize = v.lastRaiseSize
    BY <1>3, <1>4 DEF State
  <2> HIDE DEF d
  <2>5. Money(d) /\ live(d) /\ d.handNo > 0 /\ Dealt(d) /\ StreetBoard(d)
    <3>1. Money(d)
      BY <1>5, <1>4, <2>4 DEF Money, Bets, total
    <3> QED BY <1>6, <2>2, <2>4, <3>1 DEF live, Dealt, StreetBoard
  <2>6. CASE v.allIn # {}
    <3>1. r = runOut(d)
      BY <2>1, <2>6
    <3>2. RestInv(r) /\ FairEnd(r, d) /\ ~ EndedOutside(r)
      BY <2>3, <2>5, <3>1, RunOutLemma
    <3> QED BY <1>8, <1>4, <2>4, <3>2 DEF Outcome
  <2>7. CASE v.allIn = {}
    <3> DEFINE a == Other(s.button)
    <3>1. r = [d EXCEPT !.toAct = a] /\ a \in Seat
      <4>1. s.button \in Seat
        BY <1>0 DEF State
      <4> QED BY <4>1, <2>1, <2>7, OtherSeat
    <3> HIDE DEF a
    <3>2. r \in State /\ r.toAct = a
          /\ r.street = d.street /\ r.board = d.board /\ r.deckCursor = d.deckCursor
          /\ r.streetCommitted = Zero /\ r.currentBet = 0 /\ r.actedThisStreet = {}
          /\ r.stack = d.stack /\ r.handCommitted = d.handCommitted /\ r.pot = d.pot
          /\ r.handNo = d.handNo /\ r.folded = {} /\ r.allIn = d.allIn
          /\ r.terminal = d.terminal /\ r.actionSeq = s.actionSeq
          /\ r.lastRaiseSize = v.lastRaiseSize
      BY <2>3, <2>4, <3>1 DEF State
    <3>3. Money(r)
      BY <2>5, <2>4, <3>2 DEF Money, Bets, total
    <3>4. live(r) /\ r.handNo > 0 /\ Dealt(r) /\ StreetBoard(r)
      BY <2>5, <3>2 DEF live, Dealt, StreetBoard
    <3>5. r.currentBet = MaxOf(r.streetCommitted)
      BY <3>2 DEF MaxOf, Zero, Seat
    <3>6. r.allIn = {} /\ \A t \in Seat : r.stack[t] > 0
      <4>1. s.allIn = {} /\ s.allIn = {t \in Seat : s.stack[t] = 0}
        BY <1>4, <2>7 DEF Open, OpenBets
      <4>2. \A t \in Seat : s.stack[t] > 0 /\ s.stack[t] \in Nat
        BY <4>1, <1>0 DEF State
      <4>3. \A t \in Seat : u.stack[t] > 0
        BY <4>2, <1>1 DEF State
      <4> QED BY <4>3, <1>4, <2>4, <3>2, <2>7
    <3>7. r.allIn = {t \in Seat : r.stack[t] = 0}
      BY <3>6
    <3>8. r.lastRaiseSize > 0
      BY <1>3, <1>4, <3>2
    <3>9. HandInv(r)
      BY <3>1, <3>2, <3>3, <3>4, <3>5, <3>6, <3>7, <3>8
         DEF HandInv, Open, OpenBets, Money
    <3>10. /\ \A t \in Seat : total(r, t) = total(s, t)
           /\ r.handNo = s.handNo /\ r.folded = s.folded /\ r.allIn = s.allIn
      BY <1>4, <1>7, <2>4, <3>2 DEF total
    <3> QED BY <3>2, <3>9, <3>10 DEF Outcome
  <2> QED BY <2>6, <2>7
<1> QED BY <1>9, <1>10

LEMMA AdvanceLemma ==
    ASSUME NEW s, Open(s), s.toAct \in Seat,
           s.folded = {} => /\ s.toAct \in s.actedThisStreet
                            /\ \/ s.toAct \in s.allIn
                               \/ s.streetCommitted[s.toAct] = s.currentBet,
           NEW r, r = advanceAfterAction(s)
    PROVE  /\ Outcome(r, s, s.actionSeq)
           /\ s.folded = {} /\ ~ streetClosed(s)
                => r.street = s.street /\ r.toAct = Other(s.toAct)
<1>0. s \in State /\ Money(s) /\ live(s) /\ Dealt(s) /\ s.handNo > 0
  BY DEF Open, OpenBets, Money
<1>1. CASE s.folded # {}
  <2>1. r = finishHandByFold(s)
    BY <1>1 DEF advanceAfterAction
  <2> QED BY <1>0, <1>1, <2>1, FoldLemma DEF Outcome
<1>2. CASE s.folded = {} /\ streetClosed(s)
  <2>1. r = nextStreet(s)
    BY <1>2 DEF advanceAfterAction
  <2> QED BY <1>2, <2>1, NextStreetLemma
<1>3. CASE s.folded = {} /\ ~ streetClosed(s)
  <2> DEFINE o == Other(s.toAct)
  <2>1. o \in Seat /\ \A t \in Seat : t = s.toAct \/ t = o
    BY OtherSeat
  <2>2. /\ o \notin s.allIn
        /\ s.streetCommitted[o] # s.currentBet \/ o \notin s.actedThisStreet
    BY <1>3, <2>1 DEF streetClosed
  <2>3. r = [s EXCEPT !.toAct = o]
    BY <1>3 DEF advanceAfterAction
  <2> HIDE DEF o
  <2>4. r \in State
    BY <1>0, <2>1, <2>3 DEF State
  <2>5. /\ r.toAct = o /\ r.street = s.street /\ r.board = s.board
        /\ r.deckCursor = s.deckCursor /\ r.streetCommitted = s.streetCommitted
        /\ r.currentBet = s.currentBet /\ r.actedThisStreet = s.actedThisStreet
        /\ r.stack = s.stack /\ r.handCommitted = s.handCommitted /\ r.pot = s.pot
        /\ r.handNo = s.handNo /\ r.folded = s.folded /\ r.allIn = s.allIn
        /\ r.terminal = s.terminal /\ r.actionSeq = s.actionSeq
        /\ r.lastRaiseSize = s.lastRaiseSize
    BY <1>0, <2>3 DEF State
  <2>6. Open(r)
    BY <2>4, <2>5 DEF Open, OpenBets, Bets, total, live, Dealt, StreetBoard
  <2>7. s.stack[o] > 0
    <3>1. s.stack[o] \in Nat /\ s.stack[o] # 0
      BY <1>0, <2>1, <2>2 DEF State, Open, OpenBets
    <3> QED BY <3>1
  <2>8. s.streetCommitted[o] # s.currentBet => s.currentBet - s.streetCommitted[o] > 0
    <3>1. \A t \in Seat : s.streetCommitted[t] \in Nat
      BY <1>0 DEF State
    <3>2. s.streetCommitted[o] <= s.currentBet
      BY <2>1, <3>1 DEF Open, OpenBets, MaxOf, Seat
    <3>3. s.currentBet \in Nat
      BY <1>0 DEF State
    <3> QED BY <3>1, <3>2, <3>3, <2>1
  <2>9. HandInv(r)
    BY <1>3, <2>1, <2>2, <2>5, <2>6, <2>7, <2>8 DEF HandInv, toCall
  <2> QED BY <2>5, <2>9 DEF Outcome, total, o
<1> QED BY <1>1, <1>2, <1>3

\* A street that ends has heard or holds all-in every seat.
SkipsNobody(r, s) ==
    r.street # s.street =>
        \A t \in Seat : t = s.toAct \/ t \in s.actedThisStreet \/ t \in r.allIn

\* A street waits for a seat that has chips left and has not matched the bet.
WaitsForBets(r, s) ==
    (\E t \in Seat : t \notin s.allIn /\ s.streetCommitted[t] # s.currentBet)
        => r.street = s.street /\ r.toAct = Other(s.toAct)

LEMMA TailUpdate ==
    ASSUME NEW s \in State, NEW a \in SUBSET Seat, NEW n \in Nat, NEW p \in Nat
    PROVE  [s EXCEPT !.actedThisStreet = a, !.actionSeq = n, !.pot = p] \in State
BY DEF State

LEMMA ActedLemma ==
    ASSUME NEW s, OpenBets(s), s.toAct \in Seat,
           s.folded = {} => \/ s.toAct \in s.allIn
                            \/ s.streetCommitted[s.toAct] = s.currentBet,
           NEW r, r = acted(s, s.toAct)
    PROVE  /\ Outcome(r, s, s.actionSeq + 1)
           /\ s.folded = {} => SkipsNobody(r, s) /\ WaitsForBets(r, s)
<1> DEFINE a == s.actedThisStreet \cup {s.toAct}
           n == s.actionSeq + 1
           p == s.handCommitted["A"] + s.handCommitted["B"]
           u == [s EXCEPT !.actedThisStreet = a, !.actionSeq = n, !.pot = p]
<1>0. s \in State
  BY DEF OpenBets
<1>1. a \in SUBSET Seat /\ n \in Nat /\ p \in Nat /\ s.toAct \in a
  BY <1>0 DEF State, Seat
<1>2. r = advanceAfterAction(u)
  BY <1>0 DEF acted, recomputePot, State
<1> HIDE DEF a, n
<1>3. u \in State
  BY <1>0, <1>1, TailUpdate
<1>4. /\ u.actedThisStreet = a /\ u.pot = p /\ u.toAct = s.toAct
      /\ u.street = s.street /\ u.board = s.board
      /\ u.deckCursor = s.deckCursor /\ u.streetCommitted = s.streetCommitted
      /\ u.currentBet = s.currentBet
      /\ u.stack = s.stack /\ u.handCommitted = s.handCommitted
      /\ u.handNo = s.handNo /\ u.folded = s.folded /\ u.allIn = s.allIn
      /\ u.terminal = s.terminal /\ u.deck = s.deck
      /\ u.lastRaiseSize = s.lastRaiseSize /\ u.actionSeq = s.actionSeq + 1
  BY <1>0 DEF State, n
<1> HIDE DEF u
<1>5. Open(u)
  BY <1>3, <1>4 DEF Open, OpenBets, Bets, total, live, Dealt, StreetBoard
<1>6. /\ Outcome(r, u, u.actionSeq)
      /\ u.folded = {} /\ ~ streetClosed(u)
           => r.street = u.street /\ r.toAct = Other(u.toAct)
  BY <1>1, <1>2, <1>4, <1>5, AdvanceLemma
<1>7. \A t \in Seat : total(u, t) = total(s, t)
  BY <1>4 DEF total
<1>8. Outcome(r, s, s.actionSeq + 1)
  BY <1>4, <1>6, <1>7 DEF Outcome, FairEnd
<1>9. ASSUME s.folded = {}
      PROVE  SkipsNobody(r, s) /\ WaitsForBets(r, s)
  <2>1. r.allIn = s.allIn
    BY <1>8 DEF Outcome, FairEnd
  <2> QED BY <1>4, <1>6, <1>9, <2>1 DEF SkipsNobody, WaitsForBets, streetClosed, a
<1> QED BY <1>8, <1>9

-----------------------------------------------------------------------------
(***************************************************************************)
(* The public methods.                                                     *)
(***************************************************************************)

\* The decision a step asks for has a number no earlier one had.
Fresher(r, s) ==
    \/ r.handNo > s.handNo
    \/ r.handNo = s.handNo /\ r.actionSeq > s.actionSeq

\* What a step of a hand leads to, said with the chips the seats held before.
Result(r, s) ==
    \/ /\ HandInv(r)
       /\ \A t \in Seat : total(r, t) = total(s, t)
       /\ Fresher(r, s)
    \/ /\ RestInv(r)
       /\ ~ EndedOutside(r)
       /\ \A t \in Seat : /\ total(r, t) - total(s, t) <= total(s, t)
                          /\ total(r, t) - total(s, t) <= total(s, Other(t))
       /\ r.folded = {} /\ r.deck = Seat
            => \A t \in Seat : r.stack[t] = total(s, t)

LEMMA EndResult ==
    ASSUME NEW s, NEW u, NEW r, u \in State,
           RestInv(r), FairEnd(r, u), ~ EndedOutside(r),
           \A t \in Seat : total(u, t) = total(s, t)
    PROVE  Result(r, s)
<1>1. \A t \in Seat : /\ u.handCommitted[t] <= total(u, t)
                      /\ u.handCommitted[t] \in Nat
                      /\ total(u, t) \in Nat /\ total(r, t) \in Int
  BY DEF State, total, RestInv, AtRest
<1>2. \A t \in Seat : /\ total(r, t) - total(u, t) <= u.handCommitted[t]
                      /\ total(r, t) - total(u, t) <= u.handCommitted[Other(t)]
  BY DEF FairEnd
<1>3. \A t \in Seat : /\ total(r, t) - total(s, t) <= total(s, t)
                      /\ total(r, t) - total(s, t) <= total(s, Other(t))
  <2> TAKE t \in Seat
  <2>1. Other(t) \in Seat
    BY OtherSeat
  <2> QED BY <1>1, <1>2, <2>1
<1> QED BY <1>3 DEF Result, FairEnd

LEMMA OutcomeResult ==
    ASSUME NEW s, NEW u, NEW r, u \in State, s \in State,
           Outcome(r, u, s.actionSeq + 1), u.handNo = s.handNo,
           \A t \in Seat : total(u, t) = total(s, t)
    PROVE  Result(r, s)
<1>1. CASE /\ HandInv(r) /\ \A t \in Seat : total(r, t) = total(u, t)
           /\ r.handNo = u.handNo /\ r.actionSeq = s.actionSeq + 1
  <2>1. Fresher(r, s)
    BY <1>1 DEF State, Fresher
  <2> QED BY <1>1, <2>1 DEF Result
<1>2. CASE RestInv(r) /\ FairEnd(r, u) /\ ~ EndedOutside(r)
  BY <1>2, EndResult
<1> QED BY <1>1, <1>2 DEF Outcome

LEMMA FoldStep ==
    ASSUME NEW s, HandInv(s), NEW r, r = applyFold(s)
    PROVE  Result(r, s) /\ r.folded # {}
<1> DEFINE u == [s EXCEPT !.folded = s.folded \cup {s.toAct}]
<1>0. s \in State /\ s.toAct \in Seat /\ OpenBets(s)
  BY DEF HandInv, Open, OpenBets
<1>1. u \in State
  BY <1>0 DEF State
<1>2. /\ u.toAct = s.toAct /\ u.street = s.street /\ u.board = s.board
      /\ u.deckCursor = s.deckCursor /\ u.streetCommitted = s.streetCommitted
      /\ u.currentBet = s.currentBet /\ u.stack = s.stack
      /\ u.handCommitted = s.handCommitted /\ u.handNo = s.handNo
      /\ u.folded # {} /\ u.allIn = s.allIn /\ u.terminal = s.terminal
      /\ u.lastRaiseSize = s.lastRaiseSize /\ u.actionSeq = s.actionSeq
  BY <1>0 DEF State
<1>3. r = acted(u, u.toAct)
  BY <1>2 DEF applyFold
<1> HIDE DEF u
<1>4. OpenBets(u)
  BY <1>0, <1>1, <1>2 DEF OpenBets, Bets, total, live, Dealt, StreetBoard
<1>5. Outcome(r, u, s.actionSeq + 1)
  BY <1>0, <1>2, <1>3, <1>4, ActedLemma
<1>6. \A t \in Seat : total(u, t) = total(s, t)
  BY <1>2 DEF total
<1>7. r.folded # {}
  BY <1>2, <1>5 DEF Outcome, FairEnd
<1> QED BY <1>0, <1>1, <1>2, <1>5, <1>6, <1>7, OutcomeResult

LEMMA CheckStep ==
    ASSUME NEW s, HandInv(s), mayCheck(s), NEW r, r = applyCheck(s)
    PROVE  Result(r, s) /\ SkipsNobody(r, s)
<1>0. s \in State /\ s.toAct \in Seat /\ OpenBets(s)
  BY DEF HandInv, Open, OpenBets
<1>1. s.streetCommitted[s.toAct] = s.currentBet
  <2>1. \A t \in Seat : s.streetCommitted[t] \in Nat
    BY <1>0 DEF State
  <2>2. s.streetCommitted[s.toAct] <= s.currentBet /\ s.currentBet \in Nat
    BY <1>0, <2>1 DEF OpenBets, MaxOf, Seat
  <2> QED BY <1>0, <2>1, <2>2 DEF mayCheck, toCall
<1>2. s.folded = {}
  BY DEF HandInv
<1>3. Outcome(r, s, s.actionSeq + 1) /\ SkipsNobody(r, s)
  BY <1>0, <1>1, <1>2, ActedLemma DEF applyCheck
<1> QED BY <1>0, <1>3, OutcomeResult

\* Committing chips keeps the bookkeeping, up to the pot and the bet to match.
LEMMA CommitBets ==
    ASSUME NEW s \in State, Bets(s), s.allIn = {t \in Seat : s.stack[t] = 0},
           NEW seat \in Seat, NEW amount \in 0..s.stack[seat],
           NEW r, r = commit(s, seat, amount)
    PROVE  /\ r \in State
           /\ Bets(r)
           /\ r.allIn = {t \in Seat : r.stack[t] = 0}
           /\ \A t \in Seat : total(r, t) = total(s, t)
           /\ r.stack[seat] = s.stack[seat] - amount
           /\ r.streetCommitted[seat] = s.streetCommitted[seat] + amount
           /\ r.handCommitted[seat] = s.handCommitted[seat] + amount
           /\ r.stack[Other(seat)] = s.stack[Other(seat)]
           /\ r.streetCommitted[Other(seat)] = s.streetCommitted[Other(seat)]
           /\ r.handCommitted[Other(seat)] = s.handCommitted[Other(seat)]
           /\ r.toAct = s.toAct /\ r.street = s.street /\ r.board = s.board
           /\ r.deckCursor = s.deckCursor /\ r.currentBet = s.currentBet
           /\ r.lastRaiseSize = s.lastRaiseSize
           /\ r.actedThisStreet = s.actedThisStreet
           /\ r.handNo = s.handNo /\ r.folded = s.folded /\ r.deck = s.deck
           /\ r.terminal = s.terminal /\ r.button = s.button
           /\ r.actionSeq = s.actionSeq
<1> DEFINE o == Other(seat)
<1>0. o \in Seat /\ o # seat /\ \A t \in Seat : t = seat \/ t = o
  BY OtherSeat
<1>1. /\ s.stack \in [Seat -> Nat] /\ s.streetCommitted \in [Seat -> Nat]
      /\ s.handCommitted \in [Seat -> Nat]
  BY DEF State
<1>2. /\ r \in State
      /\ r.stack = [s.stack EXCEPT ![seat] = @ - amount]
      /\ r.streetCommitted = [s.streetCommitted EXCEPT ![seat] = @ + amount]
      /\ r.handCommitted = [s.handCommitted EXCEPT ![seat] = @ + amount]
      /\ r.allIn = IF s.stack[seat] = amount THEN s.allIn \cup {seat} ELSE s.allIn
  <2>1. /\ [s.stack EXCEPT ![seat] = @ - amount] \in [Seat -> Nat]
        /\ [s.streetCommitted EXCEPT ![seat] = @ + amount] \in [Seat -> Nat]
        /\ [s.handCommitted EXCEPT ![seat] = @ + amount] \in [Seat -> Nat]
        /\ (IF s.stack[seat] = amount THEN s.allIn \cup {seat} ELSE s.allIn)
             \in SUBSET Seat
    BY DEF State
  <2>2. commit(s, seat, amount) \in State
    BY <2>1, BetUpdate DEF commit, State
  <2> QED BY <2>2 DEF commit, State
<1>3. /\ r.toAct = s.toAct /\ r.street = s.street /\ r.board = s.board
      /\ r.deckCursor = s.deckCursor /\ r.currentBet = s.currentBet
      /\ r.lastRaiseSize = s.lastRaiseSize
      /\ r.actedThisStreet = s.actedThisStreet
      /\ r.handNo = s.handNo /\ r.folded = s.folded /\ r.deck = s.deck
      /\ r.terminal = s.terminal /\ r.button = s.button
      /\ r.actionSeq = s.actionSeq
  BY DEF commit, State
<1> HIDE DEF o
<1>4. /\ r.stack[seat] = s.stack[seat] - amount
      /\ r.streetCommitted[seat] = s.streetCommitted[seat] + amount
      /\ r.handCommitted[seat] = s.handCommitted[seat] + amount
      /\ r.stack[o] = s.stack[o]
      /\ r.streetCommitted[o] = s.streetCommitted[o]
      /\ r.handCommitted[o] = s.handCommitted[o]
  BY <1>0, <1>1, <1>2
<1>5. \A t \in Seat : total(r, t) = total(s, t)
  <2>1. total(r, seat) = total(s, seat)
    BY <1>1, <1>4 DEF total
  <2>2. total(r, o) = total(s, o)
    BY <1>4 DEF total
  <2> QED BY <1>0, <2>1, <2>2
<1>6. Bets(r)
  <2>1. \A t \in Seat : r.streetCommitted[t] <= r.handCommitted[t]
    BY <1>0, <1>1, <1>4 DEF Bets
  <2>2. r.handCommitted[seat] - r.streetCommitted[seat]
          = s.handCommitted[seat] - s.streetCommitted[seat]
    BY <1>1, <1>4
  <2>3. \A t \in Seat : r.handCommitted[t] - r.streetCommitted[t]
                          = s.handCommitted[t] - s.streetCommitted[t]
    BY <1>0, <1>4, <2>2
  <2>4. "A" \in Seat /\ "B" \in Seat
    BY DEF Seat
  <2> QED BY <1>5, <2>1, <2>3, <2>4 DEF Bets
<1>7. r.allIn = {t \in Seat : r.stack[t] = 0}
  <2>1. r.stack[seat] = 0 <=> s.stack[seat] = amount
    BY <1>1, <1>4
  <2>2. s.stack[seat] = 0 => s.stack[seat] = amount
    BY <1>1
  <2> QED BY <1>0, <1>2, <1>4, <2>1, <2>2
<1> QED BY <1>2, <1>3, <1>4, <1>5, <1>6, <1>7 DEF o

LEMMA CallStep ==
    ASSUME NEW s, HandInv(s), mayCall(s), NEW r, r = applyCall(s)
    PROVE  Result(r, s) /\ SkipsNobody(r, s)
<1> DEFINE seat == s.toAct
           amount == IF toCall(s) <= s.stack[seat] THEN toCall(s) ELSE s.stack[seat]
           u == commit(s, seat, amount)
<1>0. /\ s \in State /\ seat \in Seat /\ OpenBets(s) /\ Bets(s) /\ s.folded = {}
      /\ s.allIn = {t \in Seat : s.stack[t] = 0}
  BY DEF HandInv, Open, OpenBets
<1>1. /\ s.stack[seat] \in Nat /\ s.currentBet \in Nat
      /\ \A t \in Seat : s.streetCommitted[t] \in Nat
  BY <1>0 DEF State
<1>2. toCall(s) \in Int /\ toCall(s) > 0 /\ s.stack[seat] > 0
      /\ toCall(s) = s.currentBet - s.streetCommitted[seat]
  BY <1>0, <1>1 DEF toCall, mayCall
<1>3. amount \in 0..s.stack[seat]
  BY <1>1, <1>2
<1>4. r = acted(u, seat)
  BY DEF applyCall
<1> HIDE DEF u, amount
<1>5. /\ u \in State /\ Bets(u)
      /\ u.allIn = {t \in Seat : u.stack[t] = 0}
      /\ \A t \in Seat : total(u, t) = total(s, t)
      /\ u.stack[seat] = s.stack[seat] - amount
      /\ u.streetCommitted[seat] = s.streetCommitted[seat] + amount
      /\ u.streetCommitted[Other(seat)] = s.streetCommitted[Other(seat)]
      /\ u.toAct = s.toAct /\ u.street = s.street /\ u.board = s.board
      /\ u.deckCursor = s.deckCursor /\ u.currentBet = s.currentBet
      /\ u.handNo = s.handNo /\ u.folded = s.folded /\ u.terminal = s.terminal
      /\ u.lastRaiseSize = s.lastRaiseSize /\ u.actionSeq = s.actionSeq
      /\ u.actedThisStreet = s.actedThisStreet
  BY <1>0, <1>3, CommitBets DEF u
<1>6. u.streetCommitted[seat] = s.currentBet \/ seat \in u.allIn
  <2>1. CASE toCall(s) <= s.stack[seat]
    <3>1. amount = toCall(s)
      BY <2>1 DEF amount
    <3> QED BY <1>0, <1>1, <1>2, <1>5, <3>1
  <2>2. CASE ~ (toCall(s) <= s.stack[seat])
    <3>1. amount = s.stack[seat]
      BY <2>2 DEF amount
    <3> QED BY <1>0, <1>1, <1>5, <3>1
  <2> QED BY <2>1, <2>2
<1>7. u.currentBet = MaxOf(u.streetCommitted)
  <2>1. amount <= toCall(s) /\ amount \in Nat
    BY <1>1, <1>2 DEF amount
  <2>2. u.streetCommitted[seat] <= s.currentBet
    BY <1>0, <1>1, <1>2, <1>5, <2>1
  <2>3. s.streetCommitted[Other(seat)] = s.currentBet
    BY <1>0, <1>1, <1>2 DEF OpenBets, MaxOf, Other, Seat
  <2>4. u.streetCommitted[Other(seat)] = s.currentBet
    BY <1>5, <2>3
  <2>5. u.streetCommitted[seat] \in Nat
    BY <1>0, <1>1, <1>5, <2>1
  <2>6. CASE seat = "A"
    <3>1. Other(seat) = "B"
      BY <2>6 DEF Other
    <3> QED BY <1>1, <1>5, <2>2, <2>4, <2>5, <2>6, <3>1 DEF MaxOf
  <2>7. CASE seat = "B"
    <3>1. Other(seat) = "A"
      BY <2>7 DEF Other
    <3> QED BY <1>1, <1>5, <2>2, <2>4, <2>5, <2>7, <3>1 DEF MaxOf
  <2> QED BY <1>0, <2>6, <2>7 DEF Seat
<1>8. OpenBets(u)
  BY <1>0, <1>5, <1>7 DEF OpenBets, live, Dealt, StreetBoard
<1>9. Outcome(r, u, s.actionSeq + 1) /\ SkipsNobody(r, u)
  BY <1>0, <1>4, <1>5, <1>6, <1>8, ActedLemma
<1>10. SkipsNobody(r, s)
  BY <1>5, <1>9 DEF SkipsNobody
<1> QED BY <1>0, <1>5, <1>9, <1>10, OutcomeResult

LEMMA RaiseUpdate ==
    ASSUME NEW s \in State, NEW n \in Nat, NEW a \in SUBSET Seat, NEW c \in Nat
    PROVE  [s EXCEPT !.lastRaiseSize = n, !.actedThisStreet = a, !.currentBet = c]
              \in State
BY DEF State

LEMMA RaiseStep ==
    ASSUME NEW s, HandInv(s), mayRaise(s), NEW raiseTo \in Nat,
           raiseAccepted(s, raiseTo), NEW r, r = applyRaise(s, raiseTo)
    PROVE  /\ Result(r, s)
           /\ r.street = s.street /\ r.toAct = Other(s.toAct)
<1> DEFINE seat == s.toAct
           amount == raiseTo - s.streetCommitted[seat]
           increment == raiseTo - s.currentBet
           n == IF increment >= s.lastRaiseSize THEN increment ELSE s.lastRaiseSize
           a == IF increment >= s.lastRaiseSize THEN {seat} ELSE s.actedThisStreet
           c == IF s.currentBet >= raiseTo THEN s.currentBet ELSE raiseTo
           p == commit(s, seat, amount)
           u == [p EXCEPT !.lastRaiseSize = n, !.actedThisStreet = a, !.currentBet = c]
<1>0. /\ s \in State /\ seat \in Seat /\ OpenBets(s) /\ Bets(s) /\ s.folded = {}
      /\ s.allIn = {t \in Seat : s.stack[t] = 0}
  BY DEF HandInv, Open, OpenBets
<1>1. /\ s.stack[seat] \in Nat /\ s.currentBet \in Nat /\ s.lastRaiseSize \in Nat
      /\ \A t \in Seat : s.streetCommitted[t] \in Nat
      /\ s.streetCommitted[seat] \in Nat
  BY <1>0 DEF State
<1>2. \A t \in Seat : s.streetCommitted[t] <= s.currentBet
  BY <1>0, <1>1 DEF OpenBets, MaxOf, Seat
<1>3. raiseTo > s.currentBet /\ raiseTo <= s.streetCommitted[seat] + s.stack[seat]
  <2>1. s.lastRaiseSize > 0
    BY <1>0 DEF OpenBets
  <2> QED BY <1>0, <1>1, <2>1 DEF raiseAccepted, mayRaise, minRaiseTo, maxRaiseTo
<1>4. amount \in 0..s.stack[seat] /\ increment \in Nat /\ c = raiseTo
  BY <1>0, <1>1, <1>2, <1>3
<1>5. n \in Nat /\ n > 0 /\ a \in SUBSET Seat /\ c \in Nat
  <2>1. s.actedThisStreet \in SUBSET Seat /\ s.lastRaiseSize > 0
    BY <1>0 DEF State, OpenBets
  <2> QED BY <1>0, <1>1, <1>4, <2>1
<1> HIDE DEF amount
<1>6. /\ p \in State /\ Bets(p)
      /\ p.allIn = {t \in Seat : p.stack[t] = 0}
      /\ \A t \in Seat : total(p, t) = total(s, t)
      /\ p.streetCommitted[seat] = s.streetCommitted[seat] + amount
      /\ p.streetCommitted[Other(seat)] = s.streetCommitted[Other(seat)]
      /\ p.toAct = s.toAct /\ p.street = s.street /\ p.board = s.board
      /\ p.deckCursor = s.deckCursor /\ p.currentBet = s.currentBet
      /\ p.lastRaiseSize = s.lastRaiseSize /\ p.actedThisStreet = s.actedThisStreet
      /\ p.handNo = s.handNo /\ p.folded = s.folded /\ p.terminal = s.terminal
      /\ p.actionSeq = s.actionSeq /\ p.stack[Other(seat)] = s.stack[Other(seat)]
  BY <1>0, <1>4, CommitBets
<1>7. r = acted(u, seat)
  BY <1>6 DEF applyRaise, amount
<1> HIDE DEF p, n, a, c, increment
<1>8. u \in State
  BY <1>5, <1>6, RaiseUpdate
<1>9. /\ u.currentBet = c /\ u.toAct = seat /\ u.street = s.street
      /\ u.board = s.board /\ u.deckCursor = s.deckCursor
      /\ u.streetCommitted = p.streetCommitted /\ u.stack = p.stack
      /\ u.handCommitted = p.handCommitted /\ u.handNo = s.handNo
      /\ u.folded = s.folded /\ u.allIn = p.allIn /\ u.terminal = s.terminal
      /\ u.lastRaiseSize = n /\ u.actionSeq = s.actionSeq
  BY <1>6 DEF State
<1> HIDE DEF u
<1>10. p.streetCommitted[seat] = raiseTo
  BY <1>1, <1>6 DEF amount
<1>11. u.currentBet = MaxOf(u.streetCommitted)
  BY <1>0, <1>1, <1>2, <1>3, <1>4, <1>6, <1>9, <1>10 DEF MaxOf, Other, Seat
<1>12. /\ OpenBets(u)
       /\ u.streetCommitted[seat] = u.currentBet
       /\ \A t \in Seat : total(u, t) = total(s, t)
  BY <1>0, <1>4, <1>5, <1>6, <1>8, <1>9, <1>10, <1>11
     DEF OpenBets, Bets, total, live, Dealt, StreetBoard
<1>13. Outcome(r, u, s.actionSeq + 1) /\ WaitsForBets(r, u)
  BY <1>0, <1>7, <1>9, <1>12, ActedLemma
<1>14. /\ Other(seat) \in Seat /\ Other(seat) \notin u.allIn
       /\ u.streetCommitted[Other(seat)] # u.currentBet
  <2>1. Other(seat) \in Seat /\ Other(seat) \notin s.allIn
    BY <1>0, OtherSeat DEF mayRaise
  <2>2. s.stack[Other(seat)] # 0
    BY <1>0, <2>1
  <2>3. Other(seat) \notin u.allIn
    BY <1>6, <1>9, <2>1, <2>2
  <2>4. u.streetCommitted[Other(seat)] <= s.currentBet /\ u.currentBet = raiseTo
    BY <1>2, <1>4, <1>6, <1>9, <2>1
  <2>5. u.streetCommitted[Other(seat)] \in Nat
    BY <1>1, <1>6, <1>9, <2>1
  <2> QED BY <1>1, <1>3, <2>1, <2>3, <2>4, <2>5
<1>15. r.street = s.street /\ r.toAct = Other(seat)
  BY <1>9, <1>13, <1>14 DEF WaitsForBets
<1>16. Result(r, s)
  BY <1>0, <1>8, <1>9, <1>12, <1>13, OutcomeResult
<1> QED BY <1>15, <1>16

LEMMA AutoFaultStep ==
    ASSUME NEW s, HandInv(s), NEW r, r = autoFault(s)
    PROVE  Result(r, s) /\ (r.folded = {} => SkipsNobody(r, s))
BY CheckStep, FoldStep DEF autoFault

LEMMA DealtUpdate ==
    ASSUME NEW s \in State, NEW b \in Seat, NEW n \in Nat, NEW d \in Deck
    PROVE  [s EXCEPT !.button = b, !.handNo = n, !.deck = d,
                     !.deckCursor = 4, !.board = 0, !.actedThisStreet = {},
                     !.street = "preflop", !.actionSeq = 0, !.folded = {},
                     !.streetCommitted = Zero, !.handCommitted = Zero,
                     !.allIn = {t \in Seat : s.stack[t] = 0}] \in State
<1>1. /\ Zero \in [Seat -> Nat] /\ "preflop" \in Street /\ 4 \in Nat /\ 0 \in Nat
      /\ 0 \in 0..5 /\ {} \in SUBSET Seat
      /\ {t \in Seat : s.stack[t] = 0} \in SUBSET Seat
  BY DEF Zero, Street, Betting
<1> HIDE DEF Zero, Street
<1> QED BY <1>1 DEF State

LEMMA StakesUpdate ==
    ASSUME NEW s \in State, NEW c \in Nat, NEW l \in Nat, NEW p \in Nat,
           NEW a \in Seat \cup {NoSeat}
    PROVE  [s EXCEPT !.currentBet = c, !.lastRaiseSize = l, !.pot = p,
                     !.toAct = a] \in State
BY DEF State

LEMMA StartHandStep ==
    ASSUME NEW s, RestInv(s), live(s), NEW deck \in Deck,
           NEW r, r = startHand(s, deck)
    PROVE  Result(r, s)
<1> DEFINE button == IF s.handNo = 0 THEN s.button ELSE Other(s.button)
           handNo == s.handNo + 1
           small == blindsForHand(handNo).small
           big == blindsForHand(handNo).big
           d == [s EXCEPT !.button = button, !.handNo = handNo, !.deck = deck,
                     !.deckCursor = 4, !.board = 0, !.actedThisStreet = {},
                     !.street = "preflop", !.actionSeq = 0, !.folded = {},
                     !.streetCommitted = Zero, !.handCommitted = Zero,
                     !.allIn = {t \in Seat : s.stack[t] = 0}]
           p == postBlind(d, button, small)
           q == postBlind(p, Other(button), big)
           c == MaxOf(q.streetCommitted)
           pot == q.handCommitted["A"] + q.handCommitted["B"]
           h == recomputePot([q EXCEPT !.currentBet = c, !.lastRaiseSize = big])
<1>0. /\ s \in State /\ s.handCommitted = Zero
      /\ s.stack["A"] + s.stack["B"] = 2 * StartingStack
      /\ \A t \in Seat : s.stack[t] > 0 /\ s.stack[t] \in Nat
  BY DEF RestInv, AtRest, Verdict, State, Seat
<1>1. /\ button \in Seat /\ handNo \in Nat /\ handNo > 0
      /\ small \in Nat /\ big \in Nat /\ big > 0
      /\ handNo > s.handNo
  <2>1. s.button \in Seat /\ s.handNo \in Nat
    BY <1>0 DEF State
  <2>2. handNo \in Nat /\ handNo > 0 /\ handNo > s.handNo
    BY <2>1
  <2> QED BY <2>1, <2>2, BlindsType, OtherSeat
<1>2. h = dealHand(s, deck)
  BY DEF dealHand
<1> HIDE DEF button, handNo, small, big
<1>3. d \in State
  BY <1>0, <1>1, DealtUpdate
<1>4. /\ d.stack = s.stack /\ d.streetCommitted = Zero /\ d.handCommitted = Zero
      /\ d.allIn = {t \in Seat : d.stack[t] = 0} /\ d.handNo = handNo
      /\ d.deckCursor = 4 /\ d.board = 0 /\ d.actedThisStreet = {}
      /\ d.street = "preflop" /\ d.folded = {} /\ d.deck = deck
      /\ d.button = button /\ d.terminal = s.terminal
  BY <1>0 DEF State
<1> HIDE DEF d
<1>5. Bets(d) /\ \A t \in Seat : total(d, t) = total(s, t)
  BY <1>0, <1>4 DEF Bets, total, Zero, Seat
<1> DEFINE x == IF small <= d.stack[button] THEN small ELSE d.stack[button]
           y == IF big <= p.stack[Other(button)] THEN big ELSE p.stack[Other(button)]
<1>6. x \in 0..d.stack[button] /\ p = commit(d, button, x)
  <2>1. d.stack[button] \in Nat
    BY <1>1, <1>3 DEF State
  <2> QED BY <1>1, <2>1 DEF postBlind
<1> HIDE DEF x, p
<1>7. /\ p \in State /\ Bets(p)
      /\ p.allIn = {t \in Seat : p.stack[t] = 0}
      /\ \A t \in Seat : total(p, t) = total(d, t)
      /\ p.actedThisStreet = {} /\ p.street = "preflop" /\ p.board = 0
      /\ p.deckCursor = 4 /\ p.handNo = handNo /\ p.folded = {} /\ p.deck = deck
      /\ p.button = button /\ p.terminal = s.terminal
  BY <1>1, <1>3, <1>4, <1>5, <1>6, CommitBets
<1>8. y \in 0..p.stack[Other(button)] /\ q = commit(p, Other(button), y)
      /\ Other(button) \in Seat
  <2>1. Other(button) \in Seat
    BY <1>1, OtherSeat
  <2>2. p.stack[Other(button)] \in Nat
    BY <2>1, <1>7 DEF State
  <2> QED BY <1>1, <2>1, <2>2 DEF postBlind
<1> HIDE DEF y, q
<1>9. /\ q \in State /\ Bets(q)
      /\ q.allIn = {t \in Seat : q.stack[t] = 0}
      /\ \A t \in Seat : total(q, t) = total(p, t)
      /\ q.actedThisStreet = {} /\ q.street = "preflop" /\ q.board = 0
      /\ q.deckCursor = 4 /\ q.handNo = handNo /\ q.folded = {} /\ q.deck = deck
      /\ q.button = button /\ q.terminal = s.terminal
  BY <1>7, <1>8, CommitBets
<1>10. c \in Nat /\ pot \in Nat
  <2>1. /\ q.streetCommitted["A"] \in Nat /\ q.streetCommitted["B"] \in Nat
        /\ q.handCommitted["A"] \in Nat /\ q.handCommitted["B"] \in Nat
    BY <1>9 DEF State, Seat
  <2> QED BY <2>1 DEF MaxOf
<1>11. h = [q EXCEPT !.currentBet = c, !.lastRaiseSize = big, !.pot = pot]
  BY <1>9 DEF recomputePot, State
<1>12. ASSUME NEW a \in Seat \cup {NoSeat}, NEW w, w = [h EXCEPT !.toAct = a]
       PROVE  /\ Open(w) /\ w.toAct = a /\ w.folded = {} /\ w.actedThisStreet = {}
              /\ w.allIn = q.allIn /\ w.deck = deck /\ w.stack = q.stack
              /\ \A t \in Seat : total(w, t) = total(s, t)
              /\ w.handNo = handNo
  <2>1. w = [q EXCEPT !.currentBet = c, !.lastRaiseSize = big, !.pot = pot,
                      !.toAct = a]
    BY <1>9, <1>11, <1>12 DEF State
  <2> HIDE DEF c, pot
  <2>2. w \in State
    <3>1. q \in State /\ c \in Nat /\ big \in Nat /\ pot \in Nat
          /\ a \in Seat \cup {NoSeat}
      BY <1>1, <1>9, <1>10, <1>12
    <3>2. [q EXCEPT !.currentBet = c, !.lastRaiseSize = big, !.pot = pot,
                    !.toAct = a] \in State
      BY <3>1, StakesUpdate
    <3> QED BY <2>1, <3>2
  <2>3. /\ w.currentBet = c /\ w.pot = pot /\ w.toAct = a
        /\ w.stack = q.stack /\ w.streetCommitted = q.streetCommitted
        /\ w.handCommitted = q.handCommitted /\ w.allIn = q.allIn
        /\ w.actedThisStreet = {} /\ w.street = "preflop" /\ w.board = 0
        /\ w.deckCursor = 4 /\ w.handNo = handNo /\ w.folded = {}
        /\ w.deck = deck /\ w.terminal = s.terminal /\ w.lastRaiseSize = big
    BY <1>9, <2>1 DEF State
  <2>4. \A t \in Seat : total(w, t) = total(s, t)
    BY <1>5, <1>7, <1>9, <2>3 DEF total
  <2>5. Bets(w)
    BY <1>9, <2>3 DEF Bets, total
  <2>6. live(w) /\ w.handNo > 0 /\ Dealt(w) /\ StreetBoard(w)
    BY <1>1, <2>3 DEF live, Dealt, StreetBoard
  <2>7. /\ w.currentBet = MaxOf(w.streetCommitted)
        /\ w.pot = w.handCommitted["A"] + w.handCommitted["B"]
    BY <2>3 DEF c, pot
  <2> QED BY <1>1, <1>9, <2>2, <2>3, <2>4, <2>5, <2>6, <2>7 DEF Open, OpenBets
<1>13. h.button = button /\ h.allIn = q.allIn
  BY <1>9, <1>11 DEF State
<1>14. ASSUME NEW a \in Seat, a \notin q.allIn, NEW w, w = [h EXCEPT !.toAct = a]
       PROVE  Result(w, s)
  <2>1. /\ Open(w) /\ w.toAct = a /\ w.folded = {} /\ w.actedThisStreet = {}
        /\ w.stack = q.stack /\ \A t \in Seat : total(w, t) = total(s, t)
        /\ w.handNo = handNo
    BY <1>12, <1>14
  <2>2. q.stack[a] > 0
    <3>1. q.stack[a] \in Nat
      BY <1>9, <1>14 DEF State
    <3> QED BY <3>1, <1>9, <1>14
  <2> QED BY <1>1, <2>1, <2>2, <1>14 DEF HandInv, Result, Fresher
<1> HIDE DEF h
<1>15. CASE button \notin q.allIn
  <2>1. r = [h EXCEPT !.toAct = button]
    BY <1>2, <1>13, <1>15 DEF startHand
  <2> QED BY <1>1, <1>14, <1>15, <2>1
<1>16. CASE button \in q.allIn /\ Other(button) \notin q.allIn
  <2>1. r = [h EXCEPT !.toAct = Other(button)]
    BY <1>2, <1>13, <1>16 DEF startHand
  <2> QED BY <1>8, <1>14, <1>16, <2>1
<1>17. CASE button \in q.allIn /\ Other(button) \in q.allIn
  <2> DEFINE w == [h EXCEPT !.toAct = NoSeat]
  <2>1. r = runOut(w)
    BY <1>2, <1>13, <1>17 DEF startHand
  <2>2. /\ Open(w) /\ \A t \in Seat : total(w, t) = total(s, t)
    <3>1. NoSeat \in Seat \cup {NoSeat}
      OBVIOUS
    <3> QED BY <3>1, <1>12
  <2> HIDE DEF w
  <2>3. w \in State /\ Money(w) /\ live(w) /\ w.handNo > 0 /\ Dealt(w)
    BY <2>2 DEF Open, OpenBets, Money
  <2>4. RestInv(r) /\ FairEnd(r, w) /\ ~ EndedOutside(r)
    BY <2>1, <2>3, RunOutLemma
  <2> QED BY <1>0, <2>2, <2>3, <2>4, EndResult
<1> QED BY <1>15, <1>16, <1>17

\* The ways a match ends from outside leave the chips of the hand on a stack.
LEMMA OutsideStep ==
    ASSUME NEW s \in State, total(s, "A") + total(s, "B") = 2 * StartingStack,
           NEW prize \in [Seat -> Nat],
           prize["A"] + prize["B"] = s.handCommitted["A"] + s.handCommitted["B"],
           NEW reason \in {"forfeit", "double_disconnect", "server_fault"},
           NEW winner,
           IF reason = "forfeit" THEN winner \in Seat ELSE winner = NoSeat,
           s.handNo > 0 => Dealt(s),
           NEW r, r = close(payOut(s, prize), reason, winner)
    PROVE  RestInv(r) /\ EndedOutside(r)
<1> DEFINE p == payOut(s, prize)
<1>1. /\ \A t \in Seat : s.stack[t] \in Nat /\ s.handCommitted[t] \in Nat
                         /\ prize[t] \in Nat
      /\ "A" \in Seat /\ "B" \in Seat
  BY DEF State, Seat
<1>2. s.stack["A"] + prize["A"] + s.stack["B"] + prize["B"] = 2 * StartingStack
  BY <1>1, StackAssumption DEF total
<1>3. /\ AtRest(p) /\ p.handNo = s.handNo /\ p.deckCursor = s.deckCursor
      /\ p.board = s.board
  BY <1>2, PayOutLemma
<1> HIDE DEF p
<1>4. [reason |-> reason, winner |-> winner] \in Terminal
  BY DEF Terminal
<1>5. r = close(p, reason, winner)
  BY DEF p
<1>6. /\ AtRest(r) /\ r.terminal.reason = reason /\ r.terminal.winner = winner
      /\ r.terminal = [reason |-> reason, winner |-> winner]
      /\ r.handNo = p.handNo /\ r.deckCursor = p.deckCursor /\ r.board = p.board
  BY <1>3, <1>4, <1>5, CloseLemma
<1>7. Verdict(r)
  BY <1>6 DEF Verdict, live, NotTerminal
<1>8. EndedOutside(r)
  BY <1>6 DEF EndedOutside
<1> QED BY <1>3, <1>6, <1>7, <1>8 DEF RestInv, RestBoard, Dealt

LEMMA InvFacts ==
    ASSUME NEW s, HandInv(s) \/ RestInv(s)
    PROVE  /\ s \in State
           /\ total(s, "A") + total(s, "B") = 2 * StartingStack
           /\ s.handNo > 0 => Dealt(s)
<1>1. CASE HandInv(s)
  BY <1>1 DEF HandInv, Open, OpenBets, Bets
<1>2. CASE RestInv(s)
  <2>1. s \in State /\ s.stack["A"] + s.stack["B"] = 2 * StartingStack
        /\ s.handCommitted["A"] = 0 /\ s.handCommitted["B"] = 0
        /\ s.stack["A"] \in Nat /\ s.stack["B"] \in Nat
    BY <1>2 DEF RestInv, AtRest, Zero, Seat, State
  <2> QED BY <1>2, <2>1 DEF total, RestInv, RestBoard
<1> QED BY <1>1, <1>2

LEMMA ForfeitStep ==
    ASSUME NEW s, HandInv(s) \/ RestInv(s), NEW loser \in Seat,
           NEW r, r = forfeit(s, loser)
    PROVE  RestInv(r) /\ EndedOutside(r)
<1> DEFINE pot == s.handCommitted["A"] + s.handCommitted["B"]
           prize == [t \in Seat |-> IF t = Other(loser) THEN pot ELSE 0]
<1>1. pot \in Nat
  BY InvFacts DEF State, Seat
<1>2. Other(loser) \in Seat
  BY OtherSeat
<1>3. r = close(payOut(s, prize), "forfeit", Other(loser))
  BY DEF forfeit
<1> HIDE DEF pot
<1>4. prize \in [Seat -> Nat] /\ prize["A"] + prize["B"] = pot
  BY <1>1, <1>2 DEF Seat
<1> HIDE DEF prize
<1> QED BY <1>2, <1>3, <1>4, InvFacts, OutsideStep DEF pot

LEMMA ReleaseStep ==
    ASSUME NEW s, HandInv(s) \/ RestInv(s),
           NEW reason \in {"double_disconnect", "server_fault"},
           NEW r, r = release(s, reason)
    PROVE  RestInv(r) /\ EndedOutside(r)
<1> DEFINE p == payOut(s, s.handCommitted)
           q == close(p, reason, NoSeat)
<1>0. s \in State /\ s.handCommitted \in [Seat -> Nat]
  BY InvFacts DEF State
<1>1. RestInv(q) /\ EndedOutside(q)
  BY <1>0, InvFacts, OutsideStep
<1>2. r = [q EXCEPT !.streetCommitted = Zero]
  BY <1>0 DEF release, close, payOut, State
<1> HIDE DEF q
<1>3. q \in State
  BY <1>1 DEF RestInv, AtRest
<1>4. r \in State
  <2>1. Zero \in [Seat -> Nat]
    BY DEF Zero
  <2> QED BY <1>2, <1>3, <2>1 DEF State
<1>5. /\ r.stack = q.stack /\ r.handNo = q.handNo /\ r.street = q.street
      /\ r.deckCursor = q.deckCursor /\ r.board = q.board
      /\ r.handCommitted = q.handCommitted /\ r.folded = q.folded
      /\ r.toAct = q.toAct /\ r.pot = q.pot /\ r.terminal = q.terminal
  BY <1>2, <1>3 DEF State
<1> QED BY <1>1, <1>4, <1>5
        DEF RestInv, AtRest, Verdict, RestBoard, Dealt, live, EndedOutside

-----------------------------------------------------------------------------
(***************************************************************************)
(* The specification.                                                      *)
(***************************************************************************)

LEMMA InitInv == Init => IInv
<1> SUFFICES ASSUME NEW b \in Seat, state = create(b)
             PROVE  RestInv(state)
  BY DEF Init, IInv
<1>1. [t \in Seat |-> StartingStack] \in [Seat -> Nat] /\ Zero \in [Seat -> Nat]
  BY StackAssumption DEF Zero
<1>2. state \in State
  BY <1>1 DEF create, State, Street, Deck, Seat, Terminal, NotTerminal
<1>3. /\ state.stack = [t \in Seat |-> StartingStack] /\ state.handNo = 0
      /\ state.street = "complete" /\ state.handCommitted = Zero
      /\ state.pot = 0 /\ state.toAct = NoSeat /\ state.terminal = NotTerminal
  BY DEF create
<1>4. AtRest(state)
  BY <1>2, <1>3, StackAssumption DEF AtRest, Seat
<1>5. Verdict(state)
  BY <1>3, StackAssumption DEF Verdict, live, NotTerminal, Seat
<1> QED BY <1>3, <1>4, <1>5 DEF RestInv, RestBoard

\* Every step plays the hand on, ends it fairly, or ends the match from outside.
LEMMA StepResult ==
    ASSUME IInv, Next
    PROVE  Result(state', state) \/ (RestInv(state') /\ EndedOutside(state'))
<1>1. ASSUME mayAct(state)
      PROVE  HandInv(state)
  BY <1>1 DEF IInv, RestInv, AtRest, mayAct, Seat, NoSeat
<1>2. CASE StartHand
  <2>1. RestInv(state)
    BY <1>2 DEF StartHand, IInv, HandInv, Open, OpenBets, StreetBoard
  <2> QED BY <1>2, <2>1, StartHandStep DEF StartHand
<1>3. CASE Fold
  BY <1>1, <1>3, FoldStep DEF Fold
<1>4. CASE Check
  BY <1>1, <1>4, CheckStep DEF Check, mayCheck
<1>5. CASE Call
  BY <1>1, <1>5, CallStep DEF Call, mayCall
<1>6. CASE Raise
  <2>1. PICK raiseTo \in 0..2 * StartingStack :
          raiseAccepted(state, raiseTo) /\ state' = applyRaise(state, raiseTo)
    BY <1>6 DEF Raise
  <2>2. raiseTo \in Nat
    BY <2>1, StackAssumption
  <2>3. mayRaise(state) /\ HandInv(state)
    BY <1>1, <1>6 DEF Raise, mayRaise
  <2> QED BY <2>1, <2>2, <2>3, RaiseStep
<1>7. CASE AutoFault
  BY <1>1, <1>7, AutoFaultStep DEF AutoFault
<1>8. CASE Forfeit
  BY <1>8, ForfeitStep DEF Forfeit, IInv
<1>9. CASE DoubleDisconnect
  BY <1>9, ReleaseStep DEF DoubleDisconnect, IInv
<1>10. CASE ServerFault
  BY <1>10, ReleaseStep DEF ServerFault, IInv
<1> QED BY <1>2, <1>3, <1>4, <1>5, <1>6, <1>7, <1>8, <1>9, <1>10 DEF Next

LEMMA RaiseAnswered ==
    ASSUME IInv, Raise
    PROVE  state'.street = state.street /\ state'.toAct = Other(state.toAct)
<1>1. mayRaise(state) /\ HandInv(state)
  BY DEF Raise, mayRaise, mayAct, IInv, RestInv, AtRest, Seat, NoSeat
<1>2. PICK raiseTo \in 0..2 * StartingStack :
        raiseAccepted(state, raiseTo) /\ state' = applyRaise(state, raiseTo)
  BY DEF Raise
<1>3. raiseTo \in Nat
  BY <1>2, StackAssumption
<1> QED BY <1>1, <1>2, <1>3, RaiseStep

LEMMA NextInv == IInv /\ [Next]_vars => IInv'
<1>1. IInv /\ Next => IInv'
  BY StepResult DEF Result, IInv
<1>2. IInv /\ UNCHANGED vars => IInv'
  BY DEF IInv, vars
<1> QED BY <1>1, <1>2

\* The inductive invariant: a hand is played, or the table is at rest.
THEOREM EngineInvariant == Spec => []IInv
<1>1. Init => IInv
  BY InitInv
<1>2. IInv /\ [Next]_vars => IInv'
  BY NextInv
<1> QED BY <1>1, <1>2, PTL DEF Spec

\* Every field of the match object keeps its type; commit (engine.ts 285-286)
\* never throws.
THEOREM TypeCorrect == Spec => []TypeOK
<1>1. IInv => TypeOK
  BY InvFacts DEF IInv, TypeOK
<1> QED BY <1>1, EngineInvariant, PTL

\* No chip is created or lost and the pot is never stale, for every stack and
\* schedule: assertConservation (engine.ts 444) never throws.
THEOREM Conservation == Spec => []ChipsConserved
<1>1. ASSUME HandInv(state)
      PROVE  ChipsConserved
  BY <1>1 DEF HandInv, Open, OpenBets, Bets, ChipsConserved
<1>2. ASSUME RestInv(state)
      PROVE  ChipsConserved
  BY <1>2, InvFacts DEF RestInv, AtRest, Zero, Seat, ChipsConserved
<1>3. IInv => ChipsConserved
  BY <1>1, <1>2 DEF IInv
<1> QED BY <1>3, EngineInvariant, PTL

\* Both seats have matched the streets that are over (engine.ts 318-346, 396-406).
THEOREM StreetsAreMatched == Spec => []StreetsMatched
<1>1. IInv => StreetsMatched
  BY DEF IInv, HandInv, Open, OpenBets, Bets, RestInv, AtRest, StreetsMatched, Betting
<1> QED BY <1>1, EngineInvariant, PTL

\* A hand never waits for a seat that cannot decide (engine.ts 120-127, 297-346).
THEOREM NoStuckHand == Spec => []ActorCanAct
<1>1. ASSUME HandInv(state)
      PROVE  ActorCanAct
  <2>1. state.street \in Betting
    BY <1>1 DEF HandInv, Open, OpenBets, StreetBoard, Betting
  <2> QED BY <1>1, <2>1 DEF HandInv, Open, OpenBets, ActorCanAct
<1>2. ASSUME RestInv(state)
      PROVE  ActorCanAct
  BY <1>2 DEF RestInv, AtRest, ActorCanAct, Betting, Seat, NoSeat
<1>3. IInv => ActorCanAct
  BY <1>1, <1>2 DEF IInv
<1> QED BY <1>3, EngineInvariant, PTL

\* maybeFinishMatch (engine.ts 256-267) is reached wherever a hand ends.
THEOREM MatchEndsInTime == Spec => []PlaysOnOnlyWhenOpen
<1>1. ASSUME HandInv(state)
      PROVE  PlaysOnOnlyWhenOpen
  BY <1>1 DEF HandInv, Open, OpenBets, StreetBoard, PlaysOnOnlyWhenOpen
<1>2. ASSUME RestInv(state)
      PROVE  PlaysOnOnlyWhenOpen
  BY <1>2 DEF RestInv, Verdict, PlaysOnOnlyWhenOpen, Seat
<1>3. IInv => PlaysOnOnlyWhenOpen
  BY <1>1, <1>2 DEF IInv
<1> QED BY <1>3, EngineInvariant, PTL

\* Every hand can be finished and every open match played on.
THEOREM HandsAreSound == Spec => []HandIsSound
<1>1. StreetsMatched /\ ActorCanAct /\ PlaysOnOnlyWhenOpen => HandIsSound
  BY DEF HandIsSound
<1> QED BY <1>1, StreetsAreMatched, NoStuckHand, MatchEndsInTime, PTL

\* What settlement reads as the result is what the chips say (engine.ts 427-438).
THEOREM VerdictIsJust == Spec => []VerdictMatchesChips
<1>1. ASSUME HandInv(state)
      PROVE  VerdictMatchesChips
  BY <1>1 DEF HandInv, Open, OpenBets, VerdictMatchesChips
<1>2. ASSUME RestInv(state)
      PROVE  VerdictMatchesChips
  <2>1. state.terminal \in Terminal
    BY <1>2 DEF RestInv, AtRest, State
  <2>2. state.terminal.reason \in {"live", "bust", "chip_lead", "forfeit",
                                   "double_disconnect", "server_fault"}
    BY <2>1 DEF Terminal
  <2> QED BY <1>2, <2>2
          DEF RestInv, AtRest, Verdict, VerdictMatchesChips, Seat, NoSeat
<1>3. IInv => VerdictMatchesChips
  BY <1>1, <1>2 DEF IInv
<1> QED BY <1>3, EngineInvariant, PTL

\* Nobody wins or loses more than the smaller stack of the hand (engine.ts
\* 363-406).
THEOREM EffectiveStackHolds == Spec => EffectiveStackBound
<1>1. ASSUME IInv, Next, ~ EndedOutside(state'), NEW t \in Seat
      PROVE  total(state', t) - total(state, t)
               <= MinOf([u \in Seat |-> total(state, u)])
  <2>1. Result(state', state)
    BY <1>1, StepResult
  <2>2. \A u \in Seat : total(state, u) \in Nat
    BY <1>1, InvFacts DEF IInv, State, total
  <2>3. Other(t) \in Seat /\ \A u \in Seat : u = t \/ u = Other(t)
    BY OtherSeat
  <2>4. total(state', t) - total(state, t) <= total(state, "A")
        /\ total(state', t) - total(state, t) <= total(state, "B")
    <3>1. CASE HandInv(state') /\ \A u \in Seat : total(state', u) = total(state, u)
      BY <2>2, <3>1 DEF Seat
    <3>2. CASE \A u \in Seat :
                 /\ total(state', u) - total(state, u) <= total(state, u)
                 /\ total(state', u) - total(state, u) <= total(state, Other(u))
      <4>1. "A" \in Seat /\ "B" \in Seat
        BY DEF Seat
      <4>2. total(state', t) - total(state, t) <= total(state, t)
            /\ total(state', t) - total(state, t) <= total(state, Other(t))
        BY <3>2
      <4>3. ("A" = t /\ "B" = Other(t)) \/ ("B" = t /\ "A" = Other(t))
        BY DEF Other, Seat
      <4> QED BY <4>2, <4>3
    <3> QED BY <2>1, <3>1, <3>2 DEF Result
  <2> QED BY <2>4 DEF MinOf, Seat
<1>2. ASSUME IInv, UNCHANGED vars, NEW t \in Seat
      PROVE  total(state', t) - total(state, t)
               <= MinOf([u \in Seat |-> total(state, u)])
  <2>1. \A u \in Seat : total(state, u) \in Nat
    BY <1>2, InvFacts DEF IInv, State, total
  <2>2. total(state', t) = total(state, t)
    BY <1>2 DEF vars
  <2>3. total(state, "A") \in Nat /\ total(state, "B") \in Nat
    BY <2>1 DEF Seat
  <2> QED BY <1>2, <2>1, <2>2, <2>3 DEF MinOf, Seat
<1>3. IInv /\ [Next]_vars =>
        [ ~ EndedOutside(state') =>
            \A t \in Seat :
               total(state', t) - total(state, t)
                 <= MinOf([u \in Seat |-> total(state, u)]) ]_vars
  BY <1>1, <1>2
<1> QED BY <1>3, EngineInvariant, PTL DEF Spec, EffectiveStackBound

\* However the board is dealt, street by street or run out, the same cards of
\* the deck reach it (engine.ts 326-360).
THEOREM BoardFollowsDeck == Spec => []BoardIsDeckDetermined
<1>1. ASSUME HandInv(state)
      PROVE  BoardIsDeckDetermined
  BY <1>1 DEF HandInv, Open, OpenBets, Dealt, StreetBoard, BoardIsDeckDetermined
<1>2. ASSUME RestInv(state)
      PROVE  BoardIsDeckDetermined
  BY <1>2 DEF RestInv, AtRest, RestBoard, Dealt, BoardIsDeckDetermined
<1>3. IInv => BoardIsDeckDetermined
  BY <1>1, <1>2 DEF IInv
<1> QED BY <1>3, EngineInvariant, PTL

\* A hand that waits for a seat is never at rest, and the other way round.
LEMMA ActingHand ==
    ASSUME IInv
    PROVE  /\ mayAct(state) => HandInv(state)
           /\ state.street \in Betting => HandInv(state)
<1>1. ASSUME RestInv(state)
      PROVE  ~ mayAct(state) /\ state.street \notin Betting
  BY <1>1 DEF RestInv, AtRest, mayAct, Betting, Seat, NoSeat
<1> QED BY <1>1 DEF IInv

\* A street that ends without a fold has heard every seat that has chips left
\* (engine.ts 297-315).
THEOREM StreetsHearEverySeat == Spec => NoStreetSkipsASeat
<1>1. ASSUME IInv, Next, state.street \in Betting, state'.street # state.street,
             state'.folded = {}, ~ EndedOutside(state')
      PROVE  SkipsNobody(state', state)
  <2>1. HandInv(state)
    BY <1>1, ActingHand
  <2>2. ~ StartHand
    BY <1>1 DEF StartHand, Betting
  <2>3. CASE Fold
    BY <1>1, <2>1, <2>3, FoldStep DEF Fold
  <2>4. CASE Check
    BY <2>1, <2>4, CheckStep DEF Check
  <2>5. CASE Call
    BY <2>1, <2>5, CallStep DEF Call
  <2>6. CASE Raise
    BY <1>1, <2>1, <2>6, RaiseAnswered
  <2>7. CASE AutoFault
    BY <1>1, <2>1, <2>7, AutoFaultStep DEF AutoFault
  <2>8. CASE Forfeit
    BY <1>1, <2>8, ForfeitStep DEF Forfeit, IInv
  <2>9. CASE DoubleDisconnect
    BY <1>1, <2>9, ReleaseStep DEF DoubleDisconnect, IInv
  <2>10. CASE ServerFault
    BY <1>1, <2>10, ReleaseStep DEF ServerFault, IInv
  <2> QED BY <1>1, <2>2, <2>3, <2>4, <2>5, <2>6, <2>7, <2>8, <2>9, <2>10 DEF Next
<1>2. IInv /\ [Next]_vars =>
        [ /\ state.street \in Betting /\ state'.street # state.street
          /\ state'.folded = {} /\ ~ EndedOutside(state')
          => \A t \in Seat : t = state.toAct \/ t \in state.actedThisStreet
                                             \/ t \in state'.allIn ]_vars
  BY <1>1 DEF SkipsNobody
<1> QED BY <1>2, EngineInvariant, PTL DEF Spec, NoStreetSkipsASeat

\* A raise, also the short all-in that reopens nothing, waits for the opponent
\* (engine.ts 225-253).
THEOREM RaisesAreAnswered == Spec => RaiseIsAnswered
<1>1. IInv /\ [Next]_vars =>
        [Raise => state'.street = state.street
                  /\ state'.toAct = Other(state.toAct)]_vars
  BY RaiseAnswered
<1> QED BY <1>1, EngineInvariant, PTL DEF Spec, RaiseIsAnswered

\* No decision of a match is asked for twice under one name (engine.ts 104-118,
\* 297-302).
THEOREM DecisionsStayFresh == Spec => DecisionsAreFresh
<1>1. ASSUME IInv, Next, state'.toAct \in Seat
      PROVE  Fresher(state', state)
  <2>1. ~ RestInv(state')
    BY <1>1 DEF RestInv, AtRest, Seat, NoSeat
  <2> QED BY <1>1, <2>1, StepResult DEF Result
<1>2. IInv /\ [Next]_vars =>
        [ state'.toAct \in Seat =>
            \/ state'.handNo > state.handNo
            \/ /\ state'.handNo = state.handNo
               /\ state'.actionSeq > state.actionSeq ]_vars
  BY <1>1 DEF Fresher
<1> QED BY <1>2, EngineInvariant, PTL DEF Spec, DecisionsAreFresh

\* Seats decide in turn, and no decision is asked for twice.
THEOREM TurnsStayOrderly == Spec => TurnsAreOrderly
<1> QED BY StreetsHearEverySeat, RaisesAreAnswered, DecisionsStayFresh
        DEF TurnsAreOrderly

\* A split pot gives every seat its bets back (engine.ts 375-394).
THEOREM SplitsRestore == Spec => SplitRestoresStacks
<1>1. ASSUME IInv, Next, state'.street = "complete", state'.folded = {},
             state'.deck = Seat, ~ EndedOutside(state')
      PROVE  \A t \in Seat : state'.stack[t] = total(state, t)
  <2>1. Result(state', state)
    BY <1>1, StepResult
  <2>2. ~ HandInv(state')
    BY <1>1 DEF HandInv, Open, OpenBets, StreetBoard
  <2> QED BY <1>1, <2>1, <2>2 DEF Result
<1>2. IInv /\ [Next]_vars =>
        [ /\ state'.street = "complete" /\ state'.folded = {}
          /\ state'.deck = Seat /\ ~ EndedOutside(state')
          => \A t \in Seat : state'.stack[t] = total(state, t) ]_vars
  BY <1>1
<1> QED BY <1>2, EngineInvariant, PTL DEF Spec, SplitRestoresStacks

\* A hand pays what its bets allow.
THEOREM PayoutsAreFair == Spec => PayoutIsFair
<1> QED BY EffectiveStackHolds, SplitsRestore DEF PayoutIsFair

-----------------------------------------------------------------------------
(***************************************************************************)
(* The scripts.  In the first hand every bet but the small blind is a      *)
(* multiple of the big blind, and so is what a seat can raise to: the      *)
(* stacks it began with less what the streets before took from either.     *)
(***************************************************************************)

\* The fields, with no bound on the chips.
Loose ==
    [stack : [Seat -> Int], button : Seat, handNo : Nat, street : Street, actionSeq : Int,
     deck : Deck, deckCursor : Int, board : Int, streetCommitted : [Seat -> Int],
     handCommitted : [Seat -> Int], folded : SUBSET Seat, allIn : SUBSET Seat,
     currentBet : Int, lastRaiseSize : Int, toAct : Seat \cup {NoSeat}, pot : Int,
     actedThisStreet : SUBSET Seat, terminal : Terminal]

Even(n) == \E k \in Int : n = 2 * k

\* The bets of a street of the first hand.
EvenBets(s) ==
    /\ s.lastRaiseSize = 2
    /\ Even(s.currentBet)
    /\ \A t \in Seat : s.stack[t] + s.handCommitted[t] = 80
    /\ s.handCommitted["A"] - s.streetCommitted["A"] = s.handCommitted["B"] - s.streetCommitted["B"]
    /\ Even(s.handCommitted["A"] - s.streetCommitted["A"])

ScriptState(s) ==
    /\ s \in Loose
    /\ s.handNo = 0 => s.street = "complete" /\ \A t \in Seat : s.stack[t] = 80
    /\ s.handNo = 1 /\ s.street \in Betting => EvenBets(s)

ScriptInv == ScriptState(practice) /\ policy \in [Seat -> Scripts!ScriptKind]

(* The constants and operators of the engine the scripts play on.            *)
LEMMA ScriptSeats ==
    /\ Scripts!Seat = Seat /\ Scripts!NoSeat = NoSeat /\ Scripts!Betting = Betting
    /\ Scripts!Zero = [t \in Seat |-> 0] /\ Scripts!NotTerminal = NotTerminal
    /\ Scripts!Deck = Deck
    /\ Seat = {"A", "B"} /\ NoSeat \notin Seat /\ NotTerminal \in Terminal
    /\ \A t \in Seat : Scripts!Other(t) \in Seat /\ Scripts!Other(t) # t
  BY DEF Scripts!Seat, Seat, Scripts!NoSeat, NoSeat, Scripts!Betting, Betting, Scripts!Zero,
         Scripts!NotTerminal, NotTerminal, Scripts!Deck, Deck, Scripts!Other, Terminal

LEMMA ScriptBlinds ==
    /\ \A n \in Nat : Scripts!blindsForHand(n).small \in Int /\ Scripts!blindsForHand(n).big \in Int
    /\ Scripts!blindsForHand(1).small = 1 /\ Scripts!blindsForHand(1).big = 2
<1>1. /\ Len(GameBlinds) = 4 /\ GameBlinds[1] = [fromHand |-> 1, small |-> 1, big |-> 2]
      /\ GameBlinds[2] = [fromHand |-> 6, small |-> 2, big |-> 4]
      /\ GameBlinds[3] = [fromHand |-> 11, small |-> 4, big |-> 8]
      /\ GameBlinds[4] = [fromHand |-> 16, small |-> 8, big |-> 16]
  BY DEF GameBlinds
<1>2. \A i \in 1 .. 4 : i = 1 \/ i = 2 \/ i = 3 \/ i = 4
  OBVIOUS
<1>3. \A i \in 1 .. 4 : GameBlinds[i].small \in Int /\ GameBlinds[i].big \in Int
  BY <1>1, <1>2
<1>4. ASSUME NEW n \in Nat
      PROVE  \E i \in 1 .. 4 : Scripts!blindsForHand(n) = GameBlinds[i]
  <2>1. CASE \E i \in 1 .. 4 : Scripts!Governs(i, n)
    <3>1. (CHOOSE i \in 1 .. 4 : Scripts!Governs(i, n)) \in 1 .. 4
      BY <2>1
    <3> QED
      BY <1>1, <2>1, <3>1 DEF Scripts!blindsForHand
  <2>2. CASE ~ \E i \in 1 .. 4 : Scripts!Governs(i, n)
    BY <1>1, <2>2 DEF Scripts!blindsForHand
  <2> QED
    BY <2>1, <2>2
<1>5. \A i \in 1 .. 4 : Scripts!Governs(i, 1) <=> i = 1
  BY <1>1, <1>2 DEF Scripts!Governs
<1>6. (CHOOSE i \in 1 .. 4 : Scripts!Governs(i, 1)) = 1
  BY <1>5
<1>7. Scripts!blindsForHand(1) = GameBlinds[1]
  BY <1>1, <1>5, <1>6 DEF Scripts!blindsForHand
<1> QED
  BY <1>1, <1>3, <1>4, <1>7

(* A field of the record that changes.                                      *)
LEMMA LooseChips ==
    ASSUME NEW s \in Loose, NEW x \in [Seat -> Int], NEW y \in [Seat -> Int],
           NEW z \in [Seat -> Int], NEW p \in Int, NEW w \in SUBSET Seat
    PROVE  [s EXCEPT !.stack = x, !.streetCommitted = y, !.handCommitted = z, !.pot = p,
                     !.allIn = w] \in Loose
  BY DEF Loose

LEMMA LooseReturn ==
    ASSUME NEW s \in Loose, NEW r, r = Scripts!returnUncalledBet(s)
    PROVE  /\ r \in Loose /\ r.handNo = s.handNo /\ r.street = s.street /\ r.allIn = s.allIn
           /\ s.streetCommitted["A"] = s.streetCommitted["B"] => r = s
<1> DEFINE m == Scripts!MinOf(s.streetCommitted)
           x == [t \in Seat |-> s.stack[t] + (s.streetCommitted[t] - m)]
           y == [t \in Seat |-> m]
           z == [t \in Seat |-> s.handCommitted[t] - (s.streetCommitted[t] - m)]
<1>1. /\ s.stack \in [Seat -> Int] /\ s.streetCommitted \in [Seat -> Int]
      /\ s.handCommitted \in [Seat -> Int] /\ s.allIn \in SUBSET Seat
  BY DEF Loose
<1>2. m \in Int
  BY <1>1 DEF Scripts!MinOf, Seat
<1>3. x \in [Seat -> Int] /\ y \in [Seat -> Int] /\ z \in [Seat -> Int] /\ z["A"] + z["B"] \in Int
  BY <1>1, <1>2 DEF Seat
<1>4. CASE s.streetCommitted["A"] # s.streetCommitted["B"]
  <2>1. r = [s EXCEPT !.stack = x, !.streetCommitted = y, !.handCommitted = z,
                      !.pot = z["A"] + z["B"], !.allIn = s.allIn]
    <3>1. Scripts!Seat = Seat
      BY ScriptSeats
    <3>2. s.allIn = s.allIn /\ DOMAIN s.streetCommitted = Seat /\ DOMAIN s.stack = Seat
          /\ DOMAIN s.handCommitted = Seat
      BY <1>1
    <3> DEFINE extra == [t \in Scripts!Seat |-> s.streetCommitted[t] - m]
    <3>3. /\ x = [t \in Scripts!Seat |-> s.stack[t] + extra[t]]
          /\ y = [t \in Scripts!Seat |-> m]
          /\ z = [t \in Scripts!Seat |-> s.handCommitted[t] - extra[t]]
      BY <3>1
    <3> DEFINE q == [s EXCEPT !.streetCommitted = y, !.handCommitted = z, !.stack = x]
    <3>4. r = [q EXCEPT !.pot = q.handCommitted["A"] + q.handCommitted["B"]]
      BY <1>4, <3>3 DEF Scripts!returnUncalledBet, Scripts!recomputePot
    <3> HIDE DEF x, y, z
    <3> QED
      BY <3>4 DEF Loose
  <2> HIDE DEF x, y, z
  <2>2. r \in Loose
    <3>1. [s EXCEPT !.stack = x, !.streetCommitted = y, !.handCommitted = z,
                    !.pot = z["A"] + z["B"], !.allIn = s.allIn] \in Loose
      BY <1>1, <1>3, LooseChips
    <3> QED
      BY <2>1, <3>1
  <2> QED
    BY <1>4, <2>1, <2>2 DEF Loose
<1>5. CASE s.streetCommitted["A"] = s.streetCommitted["B"]
  BY <1>5 DEF Scripts!returnUncalledBet
<1> QED
  BY <1>4, <1>5

LEMMA LooseFinish ==
    ASSUME NEW s \in Loose, NEW r, r = Scripts!maybeFinishMatch(s)
    PROVE  /\ r \in Loose
           /\ r = [s EXCEPT !.terminal = r.terminal]
<1>1. \A why \in {"bust", "chip_lead"}, w \in Seat :
         [reason |-> why, winner |-> w] \in Terminal
  BY DEF Terminal
<1>2. s.terminal \in Terminal
  BY DEF Loose
<1>3. \E e \in Terminal : r = [s EXCEPT !.terminal = e]
  <2>1. s = [s EXCEPT !.terminal = s.terminal]
    BY DEF Loose
  <2> QED
    BY <1>1, <1>2, <2>1 DEF Scripts!maybeFinishMatch, Scripts!close, Seat
<1>4. PICK e \in Terminal : r = [s EXCEPT !.terminal = e]
  BY <1>3
<1> QED
  BY <1>4 DEF Loose

LEMMA LoosePayOut ==
    ASSUME NEW s \in Loose, NEW prize \in [Seat -> Int], NEW r,
           r = Scripts!payOut(s, prize)
    PROVE  r \in Loose /\ r.handNo = s.handNo /\ r.street = "complete"
<1> DEFINE x == [t \in Seat |-> s.stack[t] + prize[t]]
<1>1. x \in [Seat -> Int] /\ [t \in Seat |-> 0] \in [Seat -> Int] /\ "complete" \in Street
      /\ NoSeat \in Seat \cup {NoSeat}
  BY DEF Loose, Street
<1>2. r = [s EXCEPT !.stack = x, !.handCommitted = [t \in Seat |-> 0], !.pot = 0,
                    !.street = "complete", !.toAct = NoSeat]
  BY ScriptSeats DEF Scripts!payOut, Loose
<1> HIDE DEF x
<1> QED
  BY <1>1, <1>2 DEF Loose

LEMMA LooseFold ==
    ASSUME NEW s \in Loose, NEW r, r = Scripts!finishHandByFold(s)
    PROVE  r \in Loose /\ r.handNo = s.handNo /\ r.street = "complete"
<1> DEFINE b == Scripts!returnUncalledBet(s)
           winner == IF "A" \in b.folded THEN "B" ELSE "A"
           prize == [t \in Seat |-> IF t = winner THEN b.pot ELSE 0]
           p == Scripts!payOut(b, prize)
<1>1. b \in Loose /\ b.handNo = s.handNo
  BY LooseReturn
<1>2. prize \in [Seat -> Int]
  BY <1>1 DEF Loose
<1>3. r = Scripts!maybeFinishMatch(p)
  BY ScriptSeats DEF Scripts!finishHandByFold
<1> HIDE DEF b, prize
<1>4. p \in Loose /\ p.handNo = s.handNo /\ p.street = "complete"
  BY <1>1, <1>2, LoosePayOut
<1> HIDE DEF p
<1> QED
  BY <1>3, <1>4, LooseFinish DEF Loose

LEMMA LooseShowdown ==
    ASSUME NEW s \in Loose, NEW r, r = Scripts!showdown(s)
    PROVE  r \in Loose /\ r.handNo = s.handNo /\ r.street = "complete"
<1> DEFINE b == Scripts!returnUncalledBet(s)
           prize == Scripts!showdownPrize(b)
           p == Scripts!payOut(b, prize)
<1>1. b \in Loose /\ b.handNo = s.handNo
  BY LooseReturn
<1> HIDE DEF b
<1>2. prize \in [Seat -> Int]
  <2>1. b.pot \in Int /\ b.pot \div 2 \in Int
    BY <1>1 DEF Loose
  <2> QED
    BY <2>1, ScriptSeats DEF Scripts!showdownPrize
<1>3. r = Scripts!maybeFinishMatch(p)
  BY DEF Scripts!showdown, b
<1> HIDE DEF prize
<1>4. p \in Loose /\ p.handNo = s.handNo /\ p.street = "complete"
  BY <1>1, <1>2, LoosePayOut
<1> HIDE DEF p
<1> QED
  BY <1>3, <1>4, LooseFinish DEF Loose

LEMMA LooseBoard ==
    ASSUME NEW s \in Loose, NEW r, r = Scripts!dealBoard(s)
    PROVE  r \in Loose /\ r.handNo = s.handNo
<1>1. s.board \in Int /\ s.deckCursor \in Int /\ s.board + 1 \in Int
      /\ s.deckCursor + 2 \in Int /\ s.deckCursor + 4 \in Int
  BY DEF Loose
<1>2. \A b, n \in Int : [s EXCEPT !.board = b, !.deckCursor = n] \in Loose
  BY DEF Loose
<1>3. \A b, n : [s EXCEPT !.board = b, !.deckCursor = n].handNo = s.handNo
  BY DEF Loose
<1>4. \/ r = s
      \/ r = [s EXCEPT !.board = 3, !.deckCursor = s.deckCursor + 4]
      \/ r = [s EXCEPT !.board = s.board + 1, !.deckCursor = s.deckCursor + 2]
  BY DEF Scripts!dealBoard, Loose
<1>5. \E b, n \in Int : r = s \/ r = [s EXCEPT !.board = b, !.deckCursor = n]
  <2>1. 3 \in Int
    OBVIOUS
  <2> QED
    BY <1>1, <1>4, <2>1
<1> QED
  BY <1>2, <1>3, <1>5

LEMMA LooseRunOut ==
    ASSUME NEW s \in Loose, NEW r, r = Scripts!runOut(s)
    PROVE  r \in Loose /\ r.handNo = s.handNo /\ r.street = "complete"
<1> DEFINE a == Scripts!returnUncalledBet(s)
           b == Scripts!dealBoard(a)
           c == Scripts!dealBoard(b)
           d == Scripts!dealBoard(c)
<1>1. a \in Loose /\ a.handNo = s.handNo
  BY LooseReturn
<1> HIDE DEF a
<1>2. b \in Loose /\ b.handNo = s.handNo
  BY <1>1, LooseBoard
<1> HIDE DEF b
<1>3. c \in Loose /\ c.handNo = s.handNo
  BY <1>2, LooseBoard
<1> HIDE DEF c
<1>4. d \in Loose /\ d.handNo = s.handNo
  BY <1>3, LooseBoard
<1>5. r = Scripts!showdown(d)
  BY DEF Scripts!runOut, a, b, c
<1> HIDE DEF d
<1> QED
  BY <1>4, <1>5, LooseShowdown

(* What the actions keep of a hand whose bets are even, if it is the first. *)
Stays(r, s) ==
    /\ r \in Loose /\ r.handNo = s.handNo
    /\ r.handNo = 1 /\ r.street \in Betting => EvenBets(r)

LEMMA EvenNumbers ==
    /\ Even(0) /\ Even(2)
    /\ \A m, n \in Int : Even(m) /\ Even(n) => Even(m + n)
    /\ \A m, n \in Int : Even(m) /\ Even(n) /\ m < n => m + 2 <= n
    /\ \A n \in Int : Even(n) => Even(80 - n)
<1>1. 0 = 2 * 0 /\ 2 = 2 * 1
  OBVIOUS
<1>2. ASSUME NEW m \in Int, NEW n \in Int, Even(m), Even(n)
      PROVE  Even(m + n) /\ (m < n => m + 2 <= n)
  <2>1. PICK k \in Int : m = 2 * k
    BY <1>2 DEF Even
  <2>2. PICK l \in Int : n = 2 * l
    BY <1>2 DEF Even
  <2>3. m + n = 2 * (k + l) /\ (m < n => m + 2 <= n) /\ k + l \in Int
    BY <2>1, <2>2
  <2> QED
    BY <2>3 DEF Even
<1>3. ASSUME NEW n \in Int, Even(n) PROVE Even(80 - n)
  <2>1. PICK k \in Int : n = 2 * k
    BY <1>3 DEF Even
  <2>2. 80 - n = 2 * (40 - k) /\ 40 - k \in Int
    BY <2>1
  <2> QED
    BY <2>2 DEF Even
<1>4. Even(0) /\ Even(2)
  BY <1>1 DEF Even
<1> HIDE DEF Even
<1> QED
  BY <1>2, <1>3, <1>4

LEMMA LooseNextStreet ==
    ASSUME NEW s \in Loose, NEW r, r = Scripts!nextStreet(s),
           s.handNo = 1 => EvenBets(s),
           s.allIn = {} => \A t \in Seat : s.streetCommitted[t] = s.currentBet
    PROVE  Stays(r, s)
<1> DEFINE a == Scripts!returnUncalledBet(s)
           big == Scripts!blindsForHand(s.handNo).big
           b == Scripts!resetStreet(s)
           c == Scripts!dealStreet(b)
<1>1. a \in Loose /\ a.handNo = s.handNo /\ a.allIn = s.allIn /\ (s.allIn = {} => a = s)
  BY LooseReturn, ScriptSeats
<1>2. s.handNo \in Nat /\ big \in Int
  BY ScriptBlinds DEF Loose
<1>3. b = [a EXCEPT !.streetCommitted = [t \in Seat |-> 0], !.currentBet = 0,
                    !.lastRaiseSize = big, !.actedThisStreet = {}]
  BY ScriptSeats DEF Scripts!resetStreet
<1> HIDE DEF a
<1>4. /\ b \in Loose /\ b.handNo = s.handNo /\ b.allIn = s.allIn
      /\ b.stack = a.stack /\ b.handCommitted = a.handCommitted
      /\ b.streetCommitted = [t \in Seat |-> 0] /\ b.currentBet = 0 /\ b.lastRaiseSize = big
  <2>1. [t \in Seat |-> 0] \in [Seat -> Int] /\ 0 \in Int /\ {} \in SUBSET Seat
    OBVIOUS
  <2> HIDE DEF big
  <2> QED
    BY <1>1, <1>2, <1>3, <2>1 DEF Loose
<1>5. r = IF b.street = "river" THEN Scripts!showdown(b)
          ELSE IF b.allIn # {} THEN Scripts!runOut(c)
          ELSE [c EXCEPT !.toAct = Scripts!Other(s.button)]
  BY DEF Scripts!nextStreet
<1> HIDE DEF b
<1>6. /\ c \in Loose /\ c.handNo = b.handNo /\ c.stack = b.stack
      /\ c.handCommitted = b.handCommitted /\ c.streetCommitted = b.streetCommitted
      /\ c.currentBet = b.currentBet /\ c.lastRaiseSize = b.lastRaiseSize
  <2>1. b.board \in Int /\ b.deckCursor \in Int
    BY <1>4 DEF Loose
  <2>2. \E t \in {"flop", "turn", "river"}, m \in {3, b.board + 1}, n \in {4, 2} :
           c = [b EXCEPT !.street = t, !.board = m, !.deckCursor = b.deckCursor + n]
    BY <1>4 DEF Scripts!dealStreet, Loose
  <2>3. PICK t \in {"flop", "turn", "river"}, m \in {3, b.board + 1}, n \in {4, 2} :
           c = [b EXCEPT !.street = t, !.board = m, !.deckCursor = b.deckCursor + n]
    BY <2>2
  <2>4. t \in Street /\ m \in Int /\ b.deckCursor + n \in Int
    BY <2>1 DEF Street, Betting
  <2> HIDE DEF c
  <2> QED
    BY <1>4, <2>3, <2>4 DEF Loose
<1> HIDE DEF c
<1>7. CASE b.street = "river" \/ b.allIn # {}
  <2>1. r \in Loose /\ r.handNo = s.handNo /\ r.street = "complete"
    BY <1>4, <1>5, <1>6, <1>7, LooseShowdown, LooseRunOut
  <2> QED
    BY <2>1 DEF Stays, Betting
<1>8. CASE b.street # "river" /\ b.allIn = {}
  <2>1. r = [c EXCEPT !.toAct = Scripts!Other(s.button)] /\ Scripts!Other(s.button) \in Seat
    BY <1>5, <1>8, ScriptSeats DEF Loose
  <2>2. /\ r \in Loose /\ r.handNo = s.handNo /\ r.stack = s.stack
        /\ r.handCommitted = s.handCommitted /\ r.streetCommitted = [t \in Seat |-> 0]
        /\ r.currentBet = 0 /\ r.lastRaiseSize = big
    BY <1>1, <1>4, <1>6, <1>8, <2>1 DEF Loose
  <2>3. ASSUME s.handNo = 1 PROVE EvenBets(r)
    <3>1. EvenBets(s) /\ "A" \in Seat /\ "B" \in Seat /\ s.currentBet \in Int
          /\ s.handCommitted["A"] \in Int /\ s.handCommitted["B"] \in Int
      BY <2>3, ScriptSeats DEF Loose
    <3>2. s.streetCommitted["A"] = s.currentBet /\ s.streetCommitted["B"] = s.currentBet
      BY <1>4, <1>8, <3>1
    <3>3. /\ s.handCommitted["A"] - 0 = (s.handCommitted["A"] - s.currentBet) + s.currentBet
          /\ s.handCommitted["A"] - 0 = s.handCommitted["B"] - 0
          /\ s.handCommitted["A"] - s.currentBet \in Int
      BY <3>1, <3>2 DEF EvenBets
    <3>4. Even(s.handCommitted["A"] - 0) /\ Even(0)
      <4>1. /\ Even(s.handCommitted["A"] - s.currentBet) /\ Even(s.currentBet)
            /\ \A m, n \in Int : Even(m) /\ Even(n) => Even(m + n)
        BY <3>1, <3>2, EvenNumbers DEF EvenBets
      <4>2. Even((s.handCommitted["A"] - s.currentBet) + s.currentBet)
        BY <3>1, <3>3, <4>1
      <4> QED
        BY <3>3, <4>2, EvenNumbers
    <3>5. big = 2
      BY <2>3, ScriptBlinds
    <3> QED
      BY <2>2, <3>1, <3>3, <3>4, <3>5 DEF EvenBets
  <2> QED
    BY <2>2, <2>3 DEF Stays
<1> QED
  BY <1>7, <1>8

LEMMA LooseActed ==
    ASSUME NEW s \in Loose, s.toAct \in Seat, NEW r, r = Scripts!acted(s, s.toAct),
           s.handNo = 1 => EvenBets(s)
    PROVE  Stays(r, s)
<1> DEFINE a == [s EXCEPT !.actedThisStreet = @ \cup {s.toAct}, !.actionSeq = @ + 1]
           b == Scripts!recomputePot(a)
<1>1. /\ s.actionSeq + 1 \in Int /\ s.actedThisStreet \cup {s.toAct} \in SUBSET Seat
      /\ s.handCommitted["A"] + s.handCommitted["B"] \in Int
  BY ScriptSeats DEF Loose
<1>2. b = [s EXCEPT !.actedThisStreet = s.actedThisStreet \cup {s.toAct},
                    !.actionSeq = s.actionSeq + 1,
                    !.pot = s.handCommitted["A"] + s.handCommitted["B"]]
  BY DEF Scripts!recomputePot, Loose
<1>3. r = Scripts!advanceAfterAction(b)
  BY DEF Scripts!acted
<1> HIDE DEF b
<1>4. /\ b \in Loose /\ b.handNo = s.handNo /\ b.toAct = s.toAct
      /\ b.lastRaiseSize = s.lastRaiseSize /\ b.currentBet = s.currentBet
      /\ b.stack = s.stack /\ b.handCommitted = s.handCommitted
      /\ b.streetCommitted = s.streetCommitted
  BY <1>1, <1>2 DEF Loose
<1>5. b.handNo = 1 => EvenBets(b)
  BY <1>4 DEF EvenBets
<1>6. CASE b.folded # {}
  <2>1. r = Scripts!finishHandByFold(b)
    BY <1>3, <1>6 DEF Scripts!advanceAfterAction
  <2> QED
    BY <1>4, <2>1, LooseFold DEF Stays, Betting
<1>7. CASE b.folded = {} /\ Scripts!streetClosed(b)
  <2>1. r = Scripts!nextStreet(b)
    BY <1>3, <1>7 DEF Scripts!advanceAfterAction
  <2>2. b.allIn = {} => \A t \in Seat : b.streetCommitted[t] = b.currentBet
    BY <1>7, ScriptSeats DEF Scripts!streetClosed
  <2>3. Stays(r, b)
    BY <1>4, <1>5, <2>1, <2>2, LooseNextStreet
  <2> QED
    BY <1>4, <2>3 DEF Stays
<1>8. CASE b.folded = {} /\ ~ Scripts!streetClosed(b)
  <2>1. r = [b EXCEPT !.toAct = Scripts!Other(b.toAct)] /\ Scripts!Other(b.toAct) \in Seat
    BY <1>3, <1>4, <1>8, ScriptSeats DEF Scripts!advanceAfterAction
  <2>2. /\ r \in Loose /\ r.handNo = b.handNo
        /\ r.lastRaiseSize = b.lastRaiseSize /\ r.currentBet = b.currentBet
        /\ r.stack = b.stack /\ r.handCommitted = b.handCommitted
        /\ r.streetCommitted = b.streetCommitted
    BY <1>4, <2>1 DEF Loose
  <2> QED
    BY <1>4, <1>5, <2>2 DEF Stays, EvenBets
<1> QED
  BY <1>6, <1>7, <1>8

(* Chips move from the stack of t to its bets.                              *)
Pays(r, s, t, n) ==
    /\ r \in Loose /\ r.handNo = s.handNo /\ r.toAct = s.toAct
    /\ r.lastRaiseSize = s.lastRaiseSize /\ r.currentBet = s.currentBet
    /\ r.button = s.button
    /\ \A u \in Seat :
          /\ r.stack[u] = IF u = t THEN s.stack[u] - n ELSE s.stack[u]
          /\ r.handCommitted[u] = IF u = t THEN s.handCommitted[u] + n ELSE s.handCommitted[u]
          /\ r.streetCommitted[u] = IF u = t THEN s.streetCommitted[u] + n
                                             ELSE s.streetCommitted[u]
    /\ EvenBets(s) => EvenBets(r)

LEMMA LooseCommit ==
    ASSUME NEW s \in Loose, NEW t \in Seat, NEW n \in Int, NEW r, r = Scripts!commit(s, t, n)
    PROVE  Pays(r, s, t, n)
<1> DEFINE x == [s.stack EXCEPT ![t] = @ - n]
           y == [s.streetCommitted EXCEPT ![t] = @ + n]
           z == [s.handCommitted EXCEPT ![t] = @ + n]
           w == IF s.stack[t] = n THEN s.allIn \cup {t} ELSE s.allIn
<1>1. /\ s.stack \in [Seat -> Int] /\ s.streetCommitted \in [Seat -> Int]
      /\ s.handCommitted \in [Seat -> Int] /\ s.allIn \in SUBSET Seat
  BY DEF Loose
<1>2. /\ x \in [Seat -> Int] /\ y \in [Seat -> Int] /\ z \in [Seat -> Int] /\ w \in SUBSET Seat
      /\ \A u \in Seat : /\ x[u] = IF u = t THEN s.stack[u] - n ELSE s.stack[u]
                         /\ y[u] = IF u = t THEN s.streetCommitted[u] + n
                                            ELSE s.streetCommitted[u]
                         /\ z[u] = IF u = t THEN s.handCommitted[u] + n
                                            ELSE s.handCommitted[u]
  BY <1>1
<1>3. r = [s EXCEPT !.stack = x, !.streetCommitted = y, !.handCommitted = z, !.allIn = w]
  BY DEF Scripts!commit, Loose
<1> HIDE DEF x, y, z, w
<1>5. /\ r \in Loose /\ r.handNo = s.handNo /\ r.toAct = s.toAct
      /\ r.lastRaiseSize = s.lastRaiseSize /\ r.currentBet = s.currentBet
      /\ r.button = s.button
      /\ r.stack = x /\ r.streetCommitted = y /\ r.handCommitted = z
  BY <1>2, <1>3 DEF Loose
<1>6. ASSUME EvenBets(s) PROVE EvenBets(r)
  <2>1. \A u \in Seat : /\ z[u] - y[u] = s.handCommitted[u] - s.streetCommitted[u]
                        /\ x[u] + z[u] = s.stack[u] + s.handCommitted[u]
    BY <1>1, <1>2
  <2> QED
    BY <1>5, <1>6, <2>1, ScriptSeats DEF EvenBets
<1> QED
  BY <1>2, <1>5, <1>6 DEF Pays

LEMMA LooseHandOver ==
    ASSUME NEW s \in Loose, NEW r, r = Scripts!handOver(s)
    PROVE  /\ r \in Loose /\ r.handNo = s.handNo /\ r.street = s.street
           /\ EvenBets(s) => EvenBets(r)
<1>1. r = s \/ r = Scripts!maybeFinishMatch(s)
  BY DEF Scripts!handOver
<1>2. r \in Loose /\ (r = s \/ r = [s EXCEPT !.terminal = r.terminal])
  BY <1>1, LooseFinish
<1>3. /\ r.handNo = s.handNo /\ r.street = s.street /\ r.stack = s.stack
      /\ r.lastRaiseSize = s.lastRaiseSize /\ r.currentBet = s.currentBet
      /\ r.handCommitted = s.handCommitted /\ r.streetCommitted = s.streetCommitted
  BY <1>2 DEF Loose
<1> QED
  BY <1>2, <1>3 DEF EvenBets

(* A hand is dealt.                                                         *)
LEMMA LooseStart ==
    ASSUME NEW s, ScriptState(s), NEW deck \in Deck, NEW r, r = Scripts!startHand(s, deck)
    PROVE  /\ r \in Loose /\ r.handNo = s.handNo + 1
           /\ r.handNo = 1 /\ r.street \in Betting => EvenBets(r)
<1> DEFINE button == IF s.handNo = 0 THEN s.button ELSE Scripts!Other(s.button)
           small == Scripts!blindsForHand(s.handNo + 1).small
           big == Scripts!blindsForHand(s.handNo + 1).big
           dealt == [s EXCEPT
                       !.button = button, !.handNo = s.handNo + 1, !.deck = deck,
                       !.deckCursor = 4, !.board = 0, !.actedThisStreet = {},
                       !.street = "preflop", !.actionSeq = 0, !.folded = {},
                       !.streetCommitted = [t \in Seat |-> 0],
                       !.handCommitted = [t \in Seat |-> 0],
                       !.allIn = {t \in Seat : s.stack[t] = 0}]
           one == Scripts!postBlind(dealt, button, small)
           two == Scripts!postBlind(one, Scripts!Other(button), big)
           bet == Scripts!MaxOf(two.streetCommitted)
           h == Scripts!dealHand(s, deck)
<1>1. s \in Loose /\ s.handNo \in Nat /\ s.handNo + 1 \in Nat /\ s.button \in Seat
  BY DEF ScriptState, Loose
<1>2. /\ button \in Seat /\ Scripts!Other(button) \in Seat /\ Scripts!Other(button) # button
      /\ small \in Int /\ big \in Int
  BY <1>1, ScriptSeats, ScriptBlinds
<1>3. h = Scripts!recomputePot([two EXCEPT !.currentBet = bet, !.lastRaiseSize = big])
  BY ScriptSeats DEF Scripts!dealHand
<1> HIDE DEF button, small, big
<1>4. /\ dealt \in Loose /\ dealt.handNo = s.handNo + 1 /\ dealt.stack = s.stack
      /\ dealt.streetCommitted = [t \in Seat |-> 0] /\ dealt.handCommitted = [t \in Seat |-> 0]
      /\ dealt.button = button /\ dealt.allIn = {t \in Seat : s.stack[t] = 0}
  <2>1. /\ [t \in Seat |-> 0] \in [Seat -> Int] /\ {t \in Seat : s.stack[t] = 0} \in SUBSET Seat
        /\ 0 \in Int /\ 4 \in Int /\ {} \in SUBSET Seat /\ "preflop" \in Street
    BY DEF Street, Betting
  <2> QED
    BY <1>1, <1>2, <2>1 DEF Loose
<1> HIDE DEF dealt
<1> DEFINE other == Scripts!Other(button)
           paid == IF small <= s.stack[button] THEN small ELSE s.stack[button]
           paid2 == IF big <= one.stack[other] THEN big ELSE one.stack[other]
<1>5. one = Scripts!commit(dealt, button, paid) /\ paid \in Int
  BY <1>1, <1>2, <1>4 DEF Scripts!postBlind, Loose
<1> HIDE DEF one, paid
<1>6. one \in Loose /\ one.stack[other] \in Int
  <2>1. one \in Loose
    BY <1>2, <1>4, <1>5, LooseCommit DEF Pays
  <2> QED
    BY <1>2, <2>1 DEF Loose
<1>7. two = Scripts!commit(one, other, paid2) /\ paid2 \in Int
  BY <1>2, <1>6 DEF Scripts!postBlind
<1> HIDE DEF two, other, paid2
<1>8. other \in Seat /\ other # button
  BY <1>2 DEF other
<1>9. /\ two \in Loose /\ two.handNo = s.handNo + 1 /\ two.button = button
  <2>1. one.handNo = s.handNo + 1 /\ one.button = button
    <3>1. Pays(one, dealt, button, paid)
      BY <1>2, <1>4, <1>5, LooseCommit
    <3> QED
      BY <1>4, <3>1 DEF Pays
  <2>2. Pays(two, one, other, paid2)
    BY <1>6, <1>7, <1>8, LooseCommit
  <2> QED
    BY <2>1, <2>2 DEF Pays
<1>10. bet \in Int
  BY <1>9, ScriptSeats DEF Scripts!MaxOf, Loose
<1> HIDE DEF bet, h
<1>11. h = [two EXCEPT !.currentBet = bet, !.lastRaiseSize = big,
                       !.pot = two.handCommitted["A"] + two.handCommitted["B"]]
  BY <1>3, <1>9 DEF Scripts!recomputePot, Loose
<1>12. /\ h \in Loose /\ h.handNo = s.handNo + 1 /\ h.button = button
       /\ h.currentBet = bet /\ h.lastRaiseSize = big /\ h.stack = two.stack
       /\ h.handCommitted = two.handCommitted /\ h.streetCommitted = two.streetCommitted
       /\ h.allIn = two.allIn
  <2>1. two.handCommitted["A"] + two.handCommitted["B"] \in Int
    BY <1>9, ScriptSeats DEF Loose
  <2> QED
    BY <1>2, <1>9, <1>10, <1>11, <2>1 DEF Loose
<1>13. \/ \E t \in Seat \cup {NoSeat} : r = [h EXCEPT !.toAct = t]
       \/ /\ h.button \in h.allIn
          /\ r = Scripts!runOut([h EXCEPT !.toAct = NoSeat])
  BY <1>2, <1>12, ScriptSeats DEF Scripts!startHand, h, other
<1>14. \A t \in Seat \cup {NoSeat} :
          /\ [h EXCEPT !.toAct = t] \in Loose
          /\ [h EXCEPT !.toAct = t].handNo = s.handNo + 1
          /\ EvenBets(h) => EvenBets([h EXCEPT !.toAct = t])
  BY <1>12 DEF Loose, EvenBets
<1>15. ASSUME s.handNo = 0 PROVE EvenBets(h)
  <2>1. small = 1 /\ big = 2
    BY <1>15, ScriptBlinds DEF small, big
  <2>2. s.stack[button] = 80 /\ s.stack[other] = 80
    BY <1>2, <1>8, <1>15 DEF ScriptState
  <2>3. /\ one = Scripts!commit(dealt, button, 1) /\ 1 \in Int
    BY <1>5, <2>1, <2>2 DEF paid
  <2>4. /\ one.stack[button] = 79 /\ one.handCommitted[button] = 1
        /\ one.streetCommitted[button] = 1
        /\ one.stack[other] = 80 /\ one.handCommitted[other] = 0
        /\ one.streetCommitted[other] = 0
    <3>1. /\ dealt.stack[button] = 80 /\ dealt.stack[other] = 80
          /\ dealt.handCommitted[button] = 0 /\ dealt.handCommitted[other] = 0
          /\ dealt.streetCommitted[button] = 0 /\ dealt.streetCommitted[other] = 0
      BY <1>2, <1>4, <1>8, <2>2
    <3>2. \A u \in Seat :
             /\ one.stack[u] = IF u = button THEN dealt.stack[u] - 1 ELSE dealt.stack[u]
             /\ one.handCommitted[u] = IF u = button THEN dealt.handCommitted[u] + 1
                                                     ELSE dealt.handCommitted[u]
             /\ one.streetCommitted[u] = IF u = button THEN dealt.streetCommitted[u] + 1
                                                       ELSE dealt.streetCommitted[u]
      <4>1. Pays(one, dealt, button, 1)
        BY <1>2, <1>4, <2>3, LooseCommit
      <4> QED
        BY <4>1 DEF Pays
    <3> QED
      BY <1>2, <1>8, <3>1, <3>2
  <2>5. two = Scripts!commit(one, other, 2) /\ 2 \in Int
    BY <1>7, <2>1, <2>4 DEF paid2
  <2>6. /\ two.stack[button] = 79 /\ two.handCommitted[button] = 1
        /\ two.streetCommitted[button] = 1
        /\ two.stack[other] = 78 /\ two.handCommitted[other] = 2
        /\ two.streetCommitted[other] = 2
    <3>1. Pays(two, one, other, 2)
      BY <1>6, <1>8, <2>5, LooseCommit
    <3>2. \A u \in Seat :
             /\ two.stack[u] = IF u = other THEN one.stack[u] - 2 ELSE one.stack[u]
             /\ two.handCommitted[u] = IF u = other THEN one.handCommitted[u] + 2
                                                    ELSE one.handCommitted[u]
             /\ two.streetCommitted[u] = IF u = other THEN one.streetCommitted[u] + 2
                                                      ELSE one.streetCommitted[u]
      BY <3>1 DEF Pays
    <3> QED
      BY <1>2, <1>8, <2>4, <3>2
  <2>7. Seat = {button, other}
    BY <1>2, <1>8, ScriptSeats
  <2>8. bet = 2
    BY <2>6, <2>7, ScriptSeats DEF bet, Scripts!MaxOf
  <2>9. \A t \in Seat : /\ two.stack[t] + two.handCommitted[t] = 80
                        /\ two.handCommitted[t] - two.streetCommitted[t] = 0
    BY <2>6, <2>7
  <2>10. Even(2) /\ Even(0)
    BY EvenNumbers
  <2> QED
    BY <1>12, <2>1, <2>8, <2>9, <2>10, ScriptSeats DEF EvenBets
<1>16. CASE \E t \in Seat \cup {NoSeat} : r = [h EXCEPT !.toAct = t]
  <2>1. r \in Loose /\ r.handNo = s.handNo + 1 /\ (s.handNo = 0 => EvenBets(r))
    BY <1>14, <1>15, <1>16
  <2>2. r.handNo = 1 => s.handNo = 0
    BY <1>1, <2>1
  <2> QED
    BY <2>1, <2>2
<1>17. CASE r = Scripts!runOut([h EXCEPT !.toAct = NoSeat])
  <2>1. r \in Loose /\ r.handNo = s.handNo + 1 /\ r.street = "complete"
    <3> DEFINE n == [h EXCEPT !.toAct = NoSeat]
    <3>1. n \in Loose /\ n.handNo = s.handNo + 1
      BY <1>14
    <3> HIDE DEF n
    <3> QED
      BY <1>17, <3>1, LooseRunOut DEF n
  <2> QED
    BY <2>1 DEF Betting
<1> QED
  BY <1>13, <1>16, <1>17

(* A seat acts.                                                             *)
LEMMA MinimumFits ==
    ASSUME NEW s, ScriptState(s), s.handNo = 1, Scripts!mayRaise(s)
    PROVE  /\ s.toAct \in Seat
           /\ Scripts!minRaiseTo(s) <= Scripts!maxRaiseTo(s)
           /\ Scripts!minRaiseTo(s) = s.currentBet + 2
<1>1. /\ s \in Loose /\ s.toAct \in Seat /\ s.street \in Betting
      /\ Scripts!maxRaiseTo(s) > s.currentBet
  BY ScriptSeats DEF ScriptState, Scripts!mayRaise, Scripts!mayAct
<1>2. EvenBets(s)
  BY <1>1 DEF ScriptState
<1> DEFINE t == s.toAct
           was == s.handCommitted["A"] - s.streetCommitted["A"]
<1>3. /\ s.stack[t] \in Int /\ s.streetCommitted[t] \in Int /\ s.handCommitted[t] \in Int
      /\ was \in Int /\ s.currentBet \in Int
  BY <1>1, ScriptSeats DEF Loose
<1>4. s.handCommitted[t] - s.streetCommitted[t] = was
  BY <1>1, <1>2, ScriptSeats DEF EvenBets
<1>5. s.stack[t] + s.handCommitted[t] = 80
  BY <1>1, <1>2 DEF EvenBets
<1>6. Scripts!maxRaiseTo(s) = 80 - was
  BY <1>3, <1>4, <1>5 DEF Scripts!maxRaiseTo
<1>7. Even(80 - was) /\ Even(s.currentBet) /\ s.currentBet < 80 - was /\ 80 - was \in Int
  <2>1. Even(was) /\ Even(s.currentBet)
    BY <1>2 DEF EvenBets
  <2> HIDE DEF was
  <2>2. Even(80 - was)
    BY <1>3, <2>1, EvenNumbers
  <2> QED
    BY <1>1, <1>3, <1>6, <2>1, <2>2
<1> HIDE DEF was
<1>8. s.currentBet + 2 <= 80 - was
  BY <1>3, <1>7, EvenNumbers
<1>9. Scripts!minRaiseTo(s) = s.currentBet + 2
  BY <1>2 DEF Scripts!minRaiseTo, EvenBets
<1> QED
  BY <1>1, <1>6, <1>8, <1>9

LEMMA LoosePlay ==
    ASSUME NEW s, ScriptState(s), s.toAct \in Seat, s.street \in Betting,
           NEW kind \in Scripts!ScriptKind, NEW r,
           r = Scripts!applied(s, Scripts!scriptDecide(kind, s))
    PROVE  Stays(r, s)
<1> DEFINE d == Scripts!scriptDecide(kind, s)
           t == s.toAct
<1>1. s \in Loose /\ (s.handNo = 1 => EvenBets(s))
  BY DEF ScriptState
<1>2. /\ s.stack[t] \in Int /\ s.streetCommitted[t] \in Int /\ s.currentBet \in Int
      /\ s.folded \cup {t} \in SUBSET Seat
  BY <1>1 DEF Loose
<1>3. \/ d \in {Scripts!act("fold"), Scripts!act("check"), Scripts!act("call")}
      \/ d = Scripts!minRaise(s) /\ s.handNo = 1 /\ Scripts!mayRaise(s)
  BY DEF Scripts!scriptDecide, Scripts!checkOrCallOrFold, Scripts!ScriptKind
<1>4. CASE d = Scripts!act("fold")
  <2>1. r = Scripts!acted([s EXCEPT !.folded = s.folded \cup {t}], t)
    BY <1>4, <1>1 DEF Scripts!applied, Scripts!act, Scripts!applyFold, Loose
  <2> DEFINE f == [s EXCEPT !.folded = s.folded \cup {t}]
  <2>2. /\ f \in Loose /\ f.toAct = t /\ f.handNo = s.handNo /\ (s.handNo = 1 => EvenBets(f))
    BY <1>1, <1>2 DEF Loose, EvenBets
  <2> HIDE DEF f
  <2>3. Stays(r, f)
    BY <2>1, <2>2, LooseActed DEF f
  <2> QED
    BY <2>2, <2>3 DEF Stays
<1>5. CASE d = Scripts!act("check")
  <2>1. r = Scripts!acted(s, t)
    BY <1>5 DEF Scripts!applied, Scripts!act, Scripts!applyCheck
  <2> QED
    BY <1>1, <2>1, LooseActed
<1>6. CASE d = Scripts!act("call")
  <2> DEFINE n == IF Scripts!toCall(s) <= s.stack[t] THEN Scripts!toCall(s) ELSE s.stack[t]
             c == Scripts!commit(s, t, n)
  <2>1. r = Scripts!acted(c, t)
    BY <1>6 DEF Scripts!applied, Scripts!act, Scripts!applyCall
  <2>2. n \in Int
    BY <1>2 DEF Scripts!toCall
  <2> HIDE DEF n
  <2>3. /\ c \in Loose /\ c.toAct = t /\ c.handNo = s.handNo /\ (s.handNo = 1 => EvenBets(c))
    BY <1>1, <2>2, LooseCommit DEF Pays
  <2> HIDE DEF c
  <2>4. Stays(r, c)
    BY <2>1, <2>3, LooseActed
  <2> QED
    BY <2>3, <2>4 DEF Stays
<1>7. CASE d = Scripts!minRaise(s) /\ s.handNo = 1 /\ Scripts!mayRaise(s)
  <2> DEFINE to == s.currentBet + 2
             c == Scripts!commit(s, t, to - s.streetCommitted[t])
             e == [c EXCEPT !.lastRaiseSize = 2, !.actedThisStreet = {t}, !.currentBet = to]
  <2>1. Scripts!minRaiseTo(s) = to /\ to \in Int /\ to - s.streetCommitted[t] \in Int
    BY <1>2, <1>7, MinimumFits
  <2>2. EvenBets(s)
    BY <1>1, <1>7
  <2>3. /\ c \in Loose /\ c.toAct = t /\ c.handNo = s.handNo /\ EvenBets(c)
        /\ c.currentBet = s.currentBet /\ c.lastRaiseSize = 2
    <3>1. s.lastRaiseSize = 2
      BY <2>2 DEF EvenBets
    <3> DEFINE n == to - s.streetCommitted[t]
    <3>2. n \in Int
      BY <2>1
    <3> HIDE DEF n
    <3> QED
      BY <1>1, <1>7, <2>2, <3>1, <3>2, LooseCommit DEF Pays, n
  <2>4. r = Scripts!applyRaise(s, to)
    BY <1>7, <2>1 DEF Scripts!applied, Scripts!minRaise
  <2>5. to - s.currentBet = 2 /\ ~ s.currentBet >= to /\ s.lastRaiseSize = 2
    BY <1>2, <2>2 DEF EvenBets
  <2> HIDE DEF c
  <2>6. r = Scripts!acted(e, t)
    <3>1. r = Scripts!acted(
                 [c EXCEPT !.lastRaiseSize = IF 2 >= 2 THEN 2 ELSE c.lastRaiseSize,
                           !.actedThisStreet = IF 2 >= 2 THEN {t} ELSE c.actedThisStreet,
                           !.currentBet = IF c.currentBet >= to THEN c.currentBet ELSE to], t)
      BY <2>3, <2>4, <2>5 DEF Scripts!applyRaise, c, Loose
    <3> QED
      <4>1. /\ (IF 2 >= 2 THEN 2 ELSE c.lastRaiseSize) = 2
            /\ (IF 2 >= 2 THEN {t} ELSE c.actedThisStreet) = {t}
            /\ (IF c.currentBet >= to THEN c.currentBet ELSE to) = to
        BY <2>3, <2>5
      <4> HIDE DEF to
      <4> QED
        BY <3>1, <4>1
  <2>7. Even(to)
    <3>1. Even(s.currentBet) /\ Even(2) /\ 2 \in Int
      BY <2>2, EvenNumbers DEF EvenBets
    <3> QED
      BY <1>2, <3>1, EvenNumbers
  <2>8. /\ e \in Loose /\ e.toAct = t /\ e.handNo = s.handNo /\ EvenBets(e)
    <3>1. 2 \in Int /\ {t} \in SUBSET Seat
      OBVIOUS
    <3> HIDE DEF to
    <3>2. /\ e \in Loose /\ e.toAct = t /\ e.handNo = s.handNo
          /\ e.lastRaiseSize = 2 /\ e.currentBet = to /\ e.stack = c.stack
          /\ e.handCommitted = c.handCommitted /\ e.streetCommitted = c.streetCommitted
      BY <2>1, <2>3, <3>1 DEF Loose
    <3> QED
      BY <2>3, <2>7, <3>2 DEF EvenBets
  <2> HIDE DEF e
  <2>9. Stays(r, e)
    BY <2>6, <2>8, LooseActed
  <2> QED
    BY <2>8, <2>9 DEF Stays
<1> QED
  BY <1>3, <1>4, <1>5, <1>6, <1>7

-----------------------------------------------------------------------------
LEMMA ScriptInit == ASSUME PartsInit PROVE ScriptInv
<1>1. PICK b \in Seat : practice = Scripts!create(b)
  BY ScriptSeats DEF PartsInit, Scripts!MatchInit, Scripts!Init
<1>2. practice \in Loose /\ practice.handNo = 0 /\ practice.street = "complete"
      /\ \A t \in Seat : practice.stack[t] = 80
  <2>1. /\ [t \in Seat |-> 80] \in [Seat -> Int] /\ [t \in Seat |-> 0] \in [Seat -> Int]
        /\ Seat \in Deck /\ "complete" \in Street /\ 0 \in Int /\ 0 \in Nat
    BY DEF Deck, Seat, Street
  <2> QED
    BY <1>1, <2>1, ScriptSeats DEF Scripts!create, Loose
<1> QED
  BY <1>2, ScriptSeats DEF ScriptInv, ScriptState, PartsInit, Scripts!MatchInit

LEMMA ScriptNext == ASSUME ScriptInv, [PartsNext]_allVars PROVE ScriptInv'
<1>1. CASE UNCHANGED scriptVars
  BY <1>1 DEF ScriptInv, scriptVars
<1>2. CASE Scripts!DealHand
  <2>1. PICK deck \in Deck : practice' = Scripts!handOver(Scripts!startHand(practice, deck))
    BY <1>2, ScriptSeats DEF Scripts!DealHand
  <2> DEFINE r == Scripts!startHand(practice, deck)
  <2>2. /\ r \in Loose /\ r.handNo = practice.handNo + 1 /\ practice.handNo \in Nat
        /\ r.handNo = 1 /\ r.street \in Betting => EvenBets(r)
    BY LooseStart DEF ScriptInv, ScriptState, Loose
  <2> HIDE DEF r
  <2>3. /\ practice' \in Loose /\ practice'.handNo = r.handNo
        /\ practice'.street = r.street /\ (EvenBets(r) => EvenBets(practice'))
    BY <2>1, <2>2, LooseHandOver DEF r
  <2> QED
    BY <1>2, <2>2, <2>3 DEF ScriptInv, ScriptState, Scripts!DealHand
<1>3. CASE Scripts!Play
  <2> DEFINE r == Scripts!applied(practice, Scripts!scriptDecide(policy[practice.toAct], practice))
  <2>1. practice' = Scripts!handOver(r) /\ policy' = policy /\ Scripts!inHand(practice)
    BY <1>3 DEF Scripts!Play
  <2>2. practice.toAct \in Seat /\ practice.street \in Betting
    BY <2>1, ScriptSeats DEF ScriptInv, ScriptState, Loose, Scripts!inHand, Street
  <2>3. policy[practice.toAct] \in Scripts!ScriptKind
    BY <2>2 DEF ScriptInv
  <2>4. Stays(r, practice)
    BY <2>2, <2>3, LoosePlay DEF ScriptInv
  <2> HIDE DEF r
  <2>5. practice.handNo # 0
    BY <2>2 DEF ScriptInv, ScriptState, Betting
  <2>6. /\ practice' \in Loose /\ practice'.handNo = r.handNo
        /\ practice'.street = r.street /\ (EvenBets(r) => EvenBets(practice'))
    BY <2>1, <2>4, LooseHandOver DEF Stays
  <2> QED
    BY <2>1, <2>4, <2>5, <2>6 DEF ScriptInv, ScriptState, Stays
<1> QED
  BY <1>1, <1>2, <1>3 DEF PartsNext, allVars, scriptVars, Scripts!MatchNext

LEMMA ScriptsAccepted == ASSUME ScriptInv PROVE ScriptsPlayLegally
<1> SUFFICES ASSUME Scripts!inHand(practice)
             PROVE  Scripts!accepted(practice,
                        Scripts!scriptDecide(policy[practice.toAct], practice))
  BY DEF ScriptsPlayLegally, Scripts!ScriptsPlayLegally
<1> DEFINE s == practice
           kind == policy[practice.toAct]
<1>1. s.toAct \in Seat /\ Scripts!mayAct(s)
  BY ScriptSeats DEF ScriptInv, ScriptState, Loose, Scripts!inHand, Scripts!mayAct, Street
<1>2. kind \in Scripts!ScriptKind
  BY <1>1 DEF ScriptInv
<1>3. CASE Scripts!scriptDecide(kind, s) = Scripts!minRaise(s) /\ s.handNo = 1
            /\ Scripts!mayRaise(s)
  <2>1. Scripts!minRaiseTo(s) <= Scripts!maxRaiseTo(s) /\ s.currentBet \in Int
        /\ Scripts!minRaiseTo(s) = s.currentBet + 2
    BY <1>3, MinimumFits DEF ScriptInv, ScriptState, Loose
  <2> QED
    BY <1>3, <2>1 DEF Scripts!accepted, Scripts!minRaise, Scripts!raiseAccepted
<1>4. CASE Scripts!scriptDecide(kind, s) = Scripts!act("check") /\ Scripts!mayCheck(s)
  BY <1>4 DEF Scripts!accepted, Scripts!act
<1>5. CASE Scripts!scriptDecide(kind, s) = Scripts!act("call") /\ Scripts!mayCall(s)
  BY <1>5 DEF Scripts!accepted, Scripts!act
<1>6. CASE Scripts!scriptDecide(kind, s) = Scripts!act("fold")
  BY <1>1, <1>6 DEF Scripts!accepted, Scripts!act
<1> QED
  BY <1>2, <1>3, <1>4, <1>5, <1>6 DEF Scripts!scriptDecide, Scripts!checkOrCallOrFold,
     Scripts!ScriptKind

\* The engine refuses no decision of a script, whatever cards are dealt and whichever
\* of the policies the seats follow (script-policy.ts 16-19, engine.ts 166-171).
THEOREM ScriptsStayLegal == PartsSpec => []ScriptsPlayLegally
<1>1. PartsInit => ScriptInv
  BY ScriptInit
<1>2. ScriptInv /\ [PartsNext]_allVars => ScriptInv'
  BY ScriptNext
<1>3. ScriptInv => ScriptsPlayLegally
  BY ScriptsAccepted
<1> QED
  BY <1>1, <1>2, <1>3, PTL DEF PartsSpec
==============================================================================
