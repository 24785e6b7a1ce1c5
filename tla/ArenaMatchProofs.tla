--------------------------- MODULE ArenaMatchProofs ---------------------------
(***************************************************************************)
(* Proofs about ArenaMatch for every number of overlapping handlers, of    *)
(* faults and of hands: its type invariant, that what is settled is the    *)
(* verdict of the engine, and that the tables implement MatchEscrow.  And  *)
(* of a match whose handlers run one at a time: the tables follow the      *)
(* play, and a clock runs for the decision that waits.                     *)
(*                                                                         *)
(* The invariant says of every suspended handler what it may rely on when  *)
(* it goes on (HandlerOK).  Other handlers only make engines, or change    *)
(* engines that have no verdict yet (Later), and that keeps it true.       *)
(* With one handler, HandlerFollows says how far a half-finished handler   *)
(* has brought the row (SerialInv), TimerFollows what its clock lacks      *)
(* (TimedInv); the latter needs a store that answers.                      *)
(***************************************************************************)
EXTENDS ArenaMatch, TLAPS

\* The awaits after which a handler uses its engine.
Holding == {"deal_save", "deal_publish", "next_hand", "save", "events",
            "append", "publish", "settle"}

HandlerOK(r, e) ==
    /\ r \in HandlerState
    /\ WellFormed(r.game)
    /\ r.obj \in 0..Len(e)
    /\ r.at \in Holding => r.obj > 0
    /\ r.at \in {"row", "act"} /\ ~r.void => r.obj > 0 /\ r.seat \in Seats
    /\ r.at = "seq" => r.void
    /\ r.at \in {"entropy_save", "abort"} => r.seat \in Seats
    /\ r.at = "settle" => /\ r.verdict # Undecided
                          /\ r.verdict = e[r.obj].verdict

EngineOK(e) ==
    /\ e \in Seq(Game)
    /\ \A o \in 1..Len(e) : WellFormed(e[o])

\* Engines are made or played on; a verdict stays.
Later(e, f) ==
    /\ Len(e) <= Len(f)
    /\ \A o \in 1..Len(e) : e[o].verdict # Undecided => f[o].verdict = e[o].verdict

RowOK ==
    /\ row \in [status : {"pending_entropy", "live", "terminal"},
                entropy : SUBSET Seats, state : Game, settled : BOOLEAN,
                winner : Seats \cup {Nobody}]
    /\ WellFormed(row.state)

EscrowOK ==
    /\ stakes \in [Seats -> {"locked", "unlocked", "converted", "released"}]
    /\ grants \in [Seats -> Nat]
    /\ ~row.settled => /\ stakes = [s \in Seats |-> "locked"]
                       /\ grants = [s \in Seats |-> 0]

ClocksOK ==
    /\ action \in [armed : BOOLEAN, hand : Nat, seq : Int]
    /\ grace \in [armed : BOOLEAN, seat : Seats \cup {Nobody}]

WorldOK ==
    /\ presence \in [Seats -> {"unknown", "online", "silent", "lapsed",
                              "away", "gone"}]
    /\ entropies \in Nat
    /\ faults \in Nat
    /\ shown \in [hand : Nat, seq : Nat]

HandlersOK ==
    /\ EngineOK(engine)
    /\ handler \in [Handlers -> HandlerState]
    /\ \A h \in Handlers : HandlerOK(handler[h], engine)

Inv == RowOK /\ EscrowOK /\ ClocksOK /\ WorldOK /\ HandlersOK

------------------------------------------------------------------------------
(* Engines.                                                                *)

LEMMA SeatFacts ==
    /\ Seats \subseteq Verdicts
    /\ Nobody \notin Seats /\ Undecided \notin Seats /\ Nobody # Undecided
    /\ Nobody \in Verdicts /\ Undecided \in Verdicts
    /\ \A s \in Seats : Other(s) \in Seats
BY DEF Seats, Verdicts, Nobody, Undecided, Other

LEMMA Games ==
    /\ NoGame \in Game /\ WellFormed(NoGame)
    /\ FirstHand \in Game /\ WellFormed(FirstHand)
BY SeatFacts DEF NoGame, FirstHand, Game, WellFormed, Seats, Nobody, Undecided,
                 Verdicts

LEMMA NextHandsAreGames ==
    ASSUME NEW g \in Game, NEW n \in NextHands(g)
    PROVE  n \in Game /\ WellFormed(n)
<1>1. PICK s \in Seats : n = [hand |-> g.hand + 1, seq |-> 0, over |-> FALSE,
                              toAct |-> s, verdict |-> Undecided]
  BY DEF NextHands
<1>2. n.over = FALSE /\ n.toAct = s /\ n.verdict = Undecided
  BY <1>1
<1>3. WellFormed(n)
  BY <1>2, SeatFacts, Zenon DEF WellFormed
<1>4. g.hand + 1 \in Nat
  BY DEF Game
<1>5. n \in Game
  BY <1>1, <1>4, SeatFacts DEF Game
<1> QED BY <1>3, <1>5

\* Whatever play leads to: an engine whose verdict, if any, ends its hand.
LEMMA PlayedAreGames ==
    ASSUME NEW g \in Game, NEW n \in Played(g), g.toAct # Nobody, WellFormed(g)
    PROVE  n \in Game /\ WellFormed(n)
<1> DEFINE k == g.seq + 1
           handOver == [g EXCEPT !.seq = k, !.over = TRUE, !.toAct = Nobody]
<1>1. k \in Nat
  BY DEF Game
<1>2. g.over = FALSE /\ g.verdict = Undecided
  BY DEF WellFormed, Game
<1>3. \/ \E s \in Seats : n = [g EXCEPT !.seq = k, !.toAct = s]
      \/ \E s \in Seats : n = [handOver EXCEPT !.verdict = s]
      \/ n = handOver
  BY DEF Played
<1> HIDE DEF k
<1>4. CASE \E s \in Seats : n = [g EXCEPT !.seq = k, !.toAct = s]
  <2>1. PICK s \in Seats : n = [g EXCEPT !.seq = k, !.toAct = s]
    BY <1>4
  <2>2. n \in Game /\ n.over = FALSE /\ n.toAct = s /\ n.verdict = Undecided
    BY <2>1, <1>1, <1>2 DEF Game
  <2> QED BY <2>2, SeatFacts, Zenon DEF WellFormed
<1>5. CASE \E s \in Seats : n = [handOver EXCEPT !.verdict = s]
  <2>1. PICK s \in Seats : n = [handOver EXCEPT !.verdict = s]
    BY <1>5
  <2>2. n \in Game /\ n.over = TRUE /\ n.toAct = Nobody
    BY <2>1, <1>1, SeatFacts DEF Game
  <2> QED BY <2>2, Zenon DEF WellFormed
<1>6. CASE n = handOver
  <2>2. n \in Game /\ n.over = TRUE /\ n.toAct = Nobody
    BY <1>6, <1>1, SeatFacts DEF Game
  <2> QED BY <2>2, Zenon DEF WellFormed
<1> QED BY <1>3, <1>4, <1>5, <1>6

LEMMA ClosedIsGame ==
    ASSUME NEW g \in Game, NEW v \in Verdicts, NEW n, n = Closed(g, v)
    PROVE  n \in Game /\ WellFormed(n) /\ n.verdict = v
<1>1. n \in Game /\ n.over = TRUE /\ n.toAct = Nobody /\ n.verdict = v
  BY SeatFacts DEF Closed, Game
<1> QED BY <1>1, Zenon DEF WellFormed

LEMMA EnginePlayed ==
    ASSUME EngineOK(engine), NEW o \in 1..Len(engine), NEW g \in Game,
           WellFormed(g), engine[o].verdict = Undecided,
           engine' = [engine EXCEPT ![o] = g]
    PROVE  /\ EngineOK(engine') /\ Later(engine, engine')
           /\ Len(engine') = Len(engine) /\ engine'[o] = g
<1>1. engine' \in Seq(Game) /\ Len(engine') = Len(engine) /\ engine'[o] = g
  BY DEF EngineOK
<1>2. \A p \in 1..Len(engine) : engine'[p] = IF p = o THEN g ELSE engine[p]
  BY DEF EngineOK
<1> QED BY <1>1, <1>2 DEF EngineOK, Later

LEMMA EngineMade ==
    ASSUME NEW e, EngineOK(e), NEW g \in Game, WellFormed(g),
           NEW f, f = Append(e, g)
    PROVE  EngineOK(f) /\ Later(e, f) /\ Len(f) = Len(e) + 1 /\ f[Len(e) + 1] = g
<1>1. f \in Seq(Game) /\ Len(f) = Len(e) + 1 /\ f[Len(e) + 1] = g
  BY DEF EngineOK
<1>2. \A p \in 1..Len(e) : f[p] = e[p]
  BY DEF EngineOK
<1> QED BY <1>1, <1>2 DEF EngineOK, Later

LEMMA SameEngine ==
    ASSUME NEW e, EngineOK(e)
    PROVE  Later(e, e)
BY DEF EngineOK, Later

------------------------------------------------------------------------------
(* Handlers.                                                               *)

LEMMA HandlerStays ==
    ASSUME NEW e, NEW f, EngineOK(e), EngineOK(f), Later(e, f),
           NEW r, HandlerOK(r, e)
    PROVE  HandlerOK(r, f)
<1>1. Len(e) \in Nat /\ Len(f) \in Nat /\ Len(e) <= Len(f)
  BY DEF EngineOK, Later
<1>2. r.obj \in 0..Len(f)
  BY <1>1 DEF HandlerOK
<1>3. r.at = "settle" => /\ r.verdict # Undecided
                         /\ r.verdict = f[r.obj].verdict
  <2> SUFFICES ASSUME r.at = "settle"
               PROVE  r.verdict # Undecided /\ r.verdict = f[r.obj].verdict
    OBVIOUS
  <2>1. r.obj \in 1..Len(e)
    BY <1>1 DEF HandlerOK, Holding
  <2> QED BY <2>1 DEF HandlerOK, Later
<1> QED BY <1>2, <1>3 DEF HandlerOK

LEMMA IdleState ==
    /\ Idle \in HandlerState
    /\ Idle.at = "idle" /\ Idle.void = FALSE /\ Idle.obj = 0
    /\ Idle.game = NoGame /\ Idle.verdict = Undecided
BY Games, SeatFacts DEF Idle, HandlerState, At

LEMMA IdleOK ==
    ASSUME NEW e, EngineOK(e)
    PROVE  HandlerOK(Idle, e)
BY IdleState, Games DEF HandlerOK, Holding, EngineOK

\* The form of every step of a handler that goes on or ends.
LEMMA HandlerMoves ==
    ASSUME HandlersOK, EngineOK(engine'), Later(engine, engine'),
           NEW h \in Handlers, NEW r, HandlerOK(r, engine'), suspend(h, r)
    PROVE  HandlersOK'
<1>1. r \in HandlerState
  BY DEF HandlerOK
<1>2. handler' \in [Handlers -> HandlerState]
  BY <1>1 DEF HandlersOK, suspend
<1>3. \A k \in Handlers : handler'[k] = IF k = h THEN r ELSE handler[k]
  BY DEF HandlersOK, suspend
<1>4. \A k \in Handlers : HandlerOK(handler[k], engine')
  BY HandlerStays DEF HandlersOK
<1> QED BY <1>2, <1>3, <1>4 DEF HandlersOK

LEMMA EngineKept ==
    ASSUME HandlersOK, UNCHANGED engine
    PROVE  EngineOK(engine') /\ Later(engine, engine') /\ Current' = Current
BY SameEngine DEF HandlersOK, Current

LEMMA CurrentFacts ==
    ASSUME HandlersOK
    PROVE  /\ Current \in Nat
           /\ Current > 0 => /\ Current \in 1..Len(engine)
                             /\ engine[Current] \in Game
                             /\ WellFormed(engine[Current])
BY DEF HandlersOK, EngineOK, Current

LEMMA ObjFacts ==
    ASSUME HandlersOK, NEW h \in Handlers, handler[h].obj > 0
    PROVE  LET o == handler[h].obj IN
           /\ o \in 1..Len(engine)
           /\ engine[o] \in Game
           /\ WellFormed(engine[o])
BY DEF HandlersOK, HandlerOK, EngineOK

\* A handler that is done, or refuses what it was asked.
LEMMA HandlerEnds ==
    ASSUME HandlersOK, UNCHANGED engine, NEW h \in Handlers, suspend(h, Idle)
    PROVE  HandlersOK'
BY EngineKept, IdleOK, HandlerMoves DEF HandlersOK

------------------------------------------------------------------------------
(* Restarts.                                                               *)

LEMMA ScheduledOK ==
    ASSUME NEW g \in Game
    PROVE  scheduled(g) \in [armed : BOOLEAN, hand : Nat, seq : Int]
BY DEF scheduled, Game

LEMMA RestartOK ==
    ASSUME Inv, Restart
    PROVE  ClocksOK' /\ HandlersOK'
           /\ presence' \in [Seats -> {"unknown", "online", "silent", "lapsed",
                                       "away", "gone"}]
<1>1. EngineOK(engine')
  <2>1. row.state \in Game /\ WellFormed(row.state)
    BY DEF Inv, RowOK
  <2>2. CASE engine' = <<row.state>>
    BY <2>1, <2>2 DEF EngineOK
  <2>3. CASE engine' = <<>>
    BY <2>3 DEF EngineOK
  <2> QED BY <2>2, <2>3 DEF Restart
<1>2. HandlersOK'
  <2>1. \A h \in Handlers : handler'[h] = Idle
    BY DEF Restart
  <2>2. HandlerOK(Idle, engine')
    BY <1>1, IdleOK
  <2>3. handler' \in [Handlers -> HandlerState]
    BY <2>2 DEF Restart, HandlerOK
  <2> QED BY <1>1, <2>1, <2>2, <2>3 DEF HandlersOK
<1>3. ClocksOK'
  <2>1. row.state \in Game
    BY DEF Inv, RowOK
  <2> QED BY <2>1, ScheduledOK DEF Restart, Inv, ClocksOK
<1> QED BY <1>2, <1>3 DEF Restart

LEMMA ThrowOK ==
    ASSUME Inv, NEW h \in Handlers, Throw(h)
    PROVE  ClocksOK' /\ HandlersOK'
           /\ presence' \in [Seats -> {"unknown", "online", "silent", "lapsed",
                                       "away", "gone"}]
<1>1. CASE handler[h].void
  BY <1>1, RestartOK DEF Throw
<1>2. CASE ~handler[h].void
  <2>1. suspend(h, Idle) /\ UNCHANGED <<engine, clocks, presence>>
    BY <1>2 DEF Throw
  <2>2. HandlersOK'
    BY <2>1, HandlerEnds DEF Inv
  <2> QED BY <2>1, <2>2 DEF Inv, ClocksOK, WorldOK, clocks
<1> QED BY <1>1, <1>2

------------------------------------------------------------------------------
(* Dealing.                                                                *)

LEMMA StepEntropyArrives ==
    ASSUME Inv, NEW h \in Handlers, NEW s \in Seats, EntropyArrives(h, s)
    PROVE  Inv'
<1> DEFINE r == [Idle EXCEPT !.at = "entropy_save", !.seat = s]
<1>1. r \in HandlerState /\ r.game = NoGame /\ r.obj = 0 /\ r.at = "entropy_save"
      /\ r.seat = s
  BY IdleState, SeatFacts DEF HandlerState, At
<1>2. HandlerOK(r, engine')
  BY <1>1, Games, EngineKept DEF HandlerOK, Holding, EntropyArrives, Inv, EngineOK
<1>3. HandlersOK'
  BY <1>2, EngineKept, HandlerMoves DEF EntropyArrives, Inv
<1>4. WorldOK'
  BY DEF EntropyArrives, Inv, WorldOK
<1> QED BY <1>3, <1>4 DEF EntropyArrives, Inv, RowOK, EscrowOK, ClocksOK, clocks,
                         tables

LEMMA StepEntropySave ==
    ASSUME Inv, NEW h \in Handlers, EntropySave(h)
    PROVE  Inv'
<1> DEFINE r == [Idle EXCEPT !.at = "entropy_check"]
<1>1. r \in HandlerState /\ r.game = NoGame /\ r.obj = 0 /\ r.at = "entropy_check"
  BY IdleState, SeatFacts DEF HandlerState, At
<1>2. HandlerOK(r, engine')
  BY <1>1, Games, EngineKept DEF HandlerOK, Holding, EntropySave, Inv, EngineOK
<1>3. HandlersOK'
  BY <1>2, EngineKept, HandlerMoves DEF EntropySave, Inv
<1>4. RowOK'
  <2>1. handler[h].seat \in Seats
    BY DEF EntropySave, Inv, HandlersOK, HandlerOK
  <2> QED BY <2>1 DEF EntropySave, Inv, RowOK
<1>5. row'.settled = row.settled
  BY DEF EntropySave, Inv, RowOK
<1> QED BY <1>3, <1>4, <1>5 DEF EntropySave, Inv, EscrowOK, ClocksOK, WorldOK,
                               clocks, bounds

LEMMA StepDealFirst ==
    ASSUME Inv, NEW h \in Handlers, DealFirst(h)
    PROVE  Inv'
<1>1. HandlersOK'
  <2>1. CASE row.entropy = Seats
    <3> DEFINE o == Current + 1
               r == [Idle EXCEPT !.at = "deal_save", !.obj = o,
                                 !.game = FirstHand]
    <3>1. engine' = Append(engine, FirstHand) /\ suspend(h, r)
      BY <2>1 DEF DealFirst
    <3>2. EngineOK(engine') /\ Later(engine, engine') /\ Len(engine') = Current + 1
      BY <3>1, EngineMade, Games DEF Inv, HandlersOK, Current
    <3>3. Current \in Nat
      BY CurrentFacts DEF Inv
    <3>4. /\ r \in HandlerState /\ r.game = FirstHand /\ r.obj = o
          /\ r.at = "deal_save"
      <4>1. FirstHand \in Game /\ o \in Nat
        BY <3>3, Games
      <4> HIDE DEF o
      <4> QED BY <4>1, IdleState DEF HandlerState, At
    <3>5. HandlerOK(r, engine')
      BY <3>2, <3>3, <3>4, Games DEF HandlerOK, Holding
    <3> QED BY <3>1, <3>2, <3>5, HandlerMoves DEF Inv
  <2>2. CASE row.entropy # Seats
    BY <2>2, HandlerEnds DEF DealFirst, Inv
  <2> QED BY <2>1, <2>2
<1> QED BY <1>1 DEF DealFirst, Inv, RowOK, EscrowOK, ClocksOK, WorldOK,
                   tables, clocks, bounds

LEMMA StepDealSave ==
    ASSUME Inv, NEW h \in Handlers, DealSave(h)
    PROVE  Inv'
<1> DEFINE r == [handler[h] EXCEPT !.at = "deal_publish", !.game = NoGame]
<1>1. handler[h] \in HandlerState /\ WellFormed(handler[h].game)
      /\ handler[h].obj \in 1..Len(engine)
  BY DEF DealSave, Inv, HandlersOK, HandlerOK, Holding, EngineOK
<1>2. r \in HandlerState /\ r.game = NoGame /\ r.obj = handler[h].obj
      /\ r.at = "deal_publish"
  BY <1>1, Games DEF HandlerState, At
<1>3. HandlerOK(r, engine')
  BY <1>1, <1>2, Games, EngineKept DEF HandlerOK, Holding, DealSave, Inv
<1>4. HandlersOK'
  BY <1>3, EngineKept, HandlerMoves DEF DealSave, Inv
<1>5. RowOK' /\ row'.settled = row.settled
  <2>1. row' = [row EXCEPT !.status = "live", !.state = handler[h].game]
    BY DEF DealSave
  <2>2. handler[h].game \in Game
    BY <1>1 DEF HandlerState
  <2>3. row'.state = handler[h].game
    BY <2>1 DEF Inv, RowOK
  <2> QED BY <2>1, <2>2, <2>3, <1>1 DEF Inv, RowOK
<1> QED BY <1>4, <1>5 DEF DealSave, Inv, EscrowOK, ClocksOK, WorldOK,
                         clocks, bounds

LEMMA ShownOK ==
    ASSUME WorldOK, NEW g \in Game, publishSnapshots(g)
    PROVE  shown' \in [hand : Nat, seq : Nat]
BY DEF WorldOK, publishSnapshots, Game

LEMMA StepDealPublish ==
    ASSUME Inv, NEW h \in Handlers, DealPublish(h)
    PROVE  Inv'
<1>1. engine[handler[h].obj] \in Game
  BY ObjFacts DEF DealPublish, Inv, HandlersOK, HandlerOK, Holding
<1>2. HandlersOK'
  BY HandlerEnds DEF DealPublish, Inv
<1>3. shown' \in [hand : Nat, seq : Nat]
  BY <1>1, ShownOK DEF DealPublish, Inv
<1>4. ClocksOK'
  BY <1>1, ScheduledOK DEF DealPublish, Inv, ClocksOK
<1> QED BY <1>2, <1>3, <1>4 DEF DealPublish, Inv, RowOK, EscrowOK, WorldOK,
                               tables, bounds

------------------------------------------------------------------------------
(* Actions and timeouts.                                                   *)

LEMMA StepActionArrives ==
    ASSUME Inv, NEW h \in Handlers, ActionArrives(h)
    PROVE  Inv'
<1> DEFINE g == engine[Current]
           r == [Idle EXCEPT !.at = "row", !.obj = Current, !.seat = g.toAct,
                             !.hand = g.hand, !.seq = g.seq]
<1>1. Current \in 1..Len(engine) /\ g \in Game
  BY CurrentFacts DEF ActionArrives, Playing, Inv
<1>2. g.toAct \in Seats /\ g.hand \in Nat /\ g.seq \in Int /\ Current \in Nat
  BY <1>1, CurrentFacts DEF Game, Inv, ActionArrives
<1>3. suspend(h, r) /\ UNCHANGED engine
  BY DEF ActionArrives
<1> HIDE DEF g
<1>4. r \in HandlerState /\ r.game = NoGame /\ r.obj = Current /\ r.at = "row"
      /\ r.seat = g.toAct
  BY <1>2, IdleState DEF HandlerState, At
<1>5. HandlerOK(r, engine')
  BY <1>1, <1>2, <1>3, <1>4, Games DEF HandlerOK, Holding
<1>6. HandlersOK'
  BY <1>3, <1>5, EngineKept, HandlerMoves DEF Inv
<1> QED BY <1>6 DEF ActionArrives, Inv, RowOK, EscrowOK, ClocksOK, WorldOK,
                   tables, clocks, bounds

LEMMA StepActionDue ==
    ASSUME Inv, NEW h \in Handlers, ActionDue(h)
    PROVE  Inv'
<1> DEFINE r == [Idle EXCEPT !.at = "seq", !.void = TRUE]
<1>1. r \in HandlerState /\ r.game = NoGame /\ r.obj = 0 /\ r.at = "seq"
  BY IdleState DEF HandlerState, At
<1>2. HandlerOK(r, engine')
  BY <1>1, Games, EngineKept DEF HandlerOK, Holding, ActionDue, Inv, EngineOK
<1>3. HandlersOK'
  BY <1>2, EngineKept, HandlerMoves DEF ActionDue, Inv
<1> QED BY <1>3 DEF ActionDue, Inv, RowOK, EscrowOK, ClocksOK, WorldOK,
                   tables, bounds

LEMMA StepTimeoutStarts ==
    ASSUME Inv, NEW h \in Handlers, TimeoutStarts(h)
    PROVE  Inv'
<1> DEFINE r == [handler[h] EXCEPT !.at = "row", !.obj = Current,
                                   !.seq = action.seq]
<1>1. handler[h] \in HandlerState /\ WellFormed(handler[h].game)
  BY DEF Inv, HandlersOK, HandlerOK
<1>2. Current \in Nat /\ action.seq \in Int
  BY CurrentFacts DEF Inv, ClocksOK
<1>3. handler[h].void
  BY DEF TimeoutStarts, Inv, HandlersOK, HandlerOK
<1>4. r \in HandlerState /\ r.game = handler[h].game /\ r.obj = Current
      /\ r.at = "row" /\ r.void
  BY <1>1, <1>2, <1>3 DEF HandlerState, At
<1>5. HandlerOK(r, engine')
  BY <1>1, <1>2, <1>4 DEF HandlerOK, Holding, TimeoutStarts, Current
<1>6. HandlersOK'
  BY <1>5, EngineKept, HandlerMoves DEF TimeoutStarts, Inv
<1> QED BY <1>6 DEF TimeoutStarts, Inv, RowOK, EscrowOK, ClocksOK, WorldOK,
                   tables, clocks, bounds

LEMMA StepMatchRead ==
    ASSUME Inv, NEW h \in Handlers, MatchRead(h)
    PROVE  Inv'
<1> DEFINE live == row.status = "live"
           r == [handler[h] EXCEPT !.at = "act", !.live = live]
<1>1. /\ handler[h] \in HandlerState /\ WellFormed(handler[h].game)
      /\ handler[h].obj \in 0..Len(engine)
      /\ ~handler[h].void => handler[h].obj > 0 /\ handler[h].seat \in Seats
  BY DEF Inv, HandlersOK, HandlerOK, MatchRead
<1>2. live \in BOOLEAN
  OBVIOUS
<1>3. suspend(h, r) /\ UNCHANGED engine
  BY DEF MatchRead
<1> HIDE DEF live
<1>4. r \in HandlerState /\ r.game = handler[h].game /\ r.obj = handler[h].obj
      /\ r.at = "act" /\ r.void = handler[h].void /\ r.seat = handler[h].seat
  BY <1>1, <1>2 DEF HandlerState, At
<1>5. HandlerOK(r, engine')
  BY <1>1, <1>3, <1>4 DEF HandlerOK, Holding
<1>6. HandlersOK'
  BY <1>3, <1>5, EngineKept, HandlerMoves DEF Inv
<1> QED BY <1>6 DEF MatchRead, Inv, RowOK, EscrowOK, ClocksOK, WorldOK,
                   tables, clocks, bounds

\* A handler that plays an engine goes on with that engine.
LEMMA PlaysOK ==
    ASSUME Inv, NEW h \in Handlers, handler[h].obj > 0,
           engine[handler[h].obj].toAct # Nobody, plays(h)
    PROVE  HandlersOK'
<1> DEFINE o == handler[h].obj
<1>1. o \in 1..Len(engine) /\ engine[o] \in Game /\ WellFormed(engine[o])
  BY ObjFacts DEF Inv
<1>2. engine[o].verdict = Undecided
  BY <1>1 DEF WellFormed
<1>3. PICK g \in Played(engine[o]) :
        /\ engine' = [engine EXCEPT ![o] = g]
        /\ suspend(h, [Idle EXCEPT
              !.at = IF g.over /\ g.verdict = Undecided THEN "next_hand"
                     ELSE "save",
              !.void = handler[h].void, !.obj = o, !.game = g])
  BY DEF plays
<1>4. g \in Game /\ WellFormed(g)
  BY <1>1, PlayedAreGames
<1>5. EngineOK(engine') /\ Later(engine, engine') /\ Len(engine') = Len(engine)
  <2>1. EngineOK(engine)
    BY DEF Inv, HandlersOK
  <2>2. engine' = [engine EXCEPT ![o] = g]
    BY <1>3
  <2> HIDE DEF o
  <2> QED BY <1>1, <1>2, <1>4, <2>1, <2>2, EnginePlayed
<1> DEFINE next == IF g.over /\ g.verdict = Undecided THEN "next_hand" ELSE "save"
           r == [Idle EXCEPT !.at = next, !.void = handler[h].void, !.obj = o,
                             !.game = g]
<1>6. next \in {"next_hand", "save"}
  OBVIOUS
<1>7. suspend(h, r)
  BY <1>3
<1>8. o \in Nat /\ handler[h].void \in BOOLEAN
  BY DEF Inv, HandlersOK, HandlerState
<1> HIDE DEF next, o
<1>9. r \in HandlerState /\ r.game = g /\ r.obj = o /\ r.at = next
  BY <1>4, <1>6, <1>8, IdleState DEF HandlerState, At
<1>10. HandlerOK(r, engine')
  BY <1>1, <1>4, <1>5, <1>6, <1>9 DEF HandlerOK, Holding
<1> QED BY <1>5, <1>7, <1>10, HandlerMoves DEF Inv

LEMMA StepSubmitAction ==
    ASSUME Inv, NEW h \in Handlers, SubmitAction(h)
    PROVE  Inv'
<1>1. HandlersOK'
  <2>1. CASE actionAccepted(h)
    <3>1. handler[h].obj > 0 /\ handler[h].seat \in Seats
      BY DEF SubmitAction, Inv, HandlersOK, HandlerOK
    <3>2. plays(h) /\ engine[handler[h].obj].toAct # Nobody
      BY <2>1, <3>1, SeatFacts DEF SubmitAction, actionAccepted
    <3> QED BY <3>1, <3>2, PlaysOK
  <2>2. CASE ~actionAccepted(h)
    BY <2>2, HandlerEnds DEF SubmitAction, Inv
  <2> QED BY <2>1, <2>2
<1> QED BY <1>1 DEF SubmitAction, Inv, RowOK, EscrowOK, ClocksOK, WorldOK,
                   tables, clocks, bounds

LEMMA StepTimeoutSeat ==
    ASSUME Inv, NEW h \in Handlers, TimeoutSeat(h)
    PROVE  Inv'
<1>1. HandlersOK'
  <2>1. CASE timeoutStands(h)
    BY <2>1, PlaysOK DEF TimeoutSeat, timeoutStands
  <2>2. CASE ~timeoutStands(h)
    BY <2>2, HandlerEnds DEF TimeoutSeat, Inv
  <2> QED BY <2>1, <2>2
<1> QED BY <1>1 DEF TimeoutSeat, Inv, RowOK, EscrowOK, ClocksOK, WorldOK,
                   tables, clocks, bounds

------------------------------------------------------------------------------
(* Saving and publishing.                                                  *)

LEMMA StepDealNextHand ==
    ASSUME Inv, NEW h \in Handlers, DealNextHand(h)
    PROVE  Inv'
<1> DEFINE o == handler[h].obj
<1>1. o \in 1..Len(engine) /\ engine[o] \in Game /\ WellFormed(engine[o])
  BY ObjFacts DEF DealNextHand, Inv, HandlersOK, HandlerOK, Holding
<1>2. /\ ClocksOK' /\ HandlersOK'
      /\ presence' \in [Seats -> {"unknown", "online", "silent", "lapsed",
                                  "away", "gone"}]
  <2>1. CASE mayDeal(engine[o])
    <3>1. PICK g \in NextHands(engine[o]) :
            /\ engine' = [engine EXCEPT ![o] = g]
            /\ suspend(h, [handler[h] EXCEPT !.at = "save", !.game = g])
      BY <2>1 DEF DealNextHand
    <3>2. g \in Game /\ WellFormed(g)
      BY <1>1, NextHandsAreGames
    <3>3. EngineOK(engine)
      BY DEF Inv, HandlersOK
    <3>4. engine[o].verdict = Undecided
      BY <2>1 DEF mayDeal
    <3> HIDE DEF o
    <3>5. EngineOK(engine') /\ Later(engine, engine') /\ Len(engine') = Len(engine)
      BY <1>1, <3>1, <3>2, <3>3, <3>4, EnginePlayed
    <3> USE DEF o
    <3> DEFINE r == [handler[h] EXCEPT !.at = "save", !.game = g]
    <3>6. handler[h] \in HandlerState
      BY DEF Inv, HandlersOK
    <3>7. r \in HandlerState /\ r.game = g /\ r.obj = o /\ r.at = "save"
      BY <3>2, <3>6 DEF HandlerState, At
    <3>8. HandlerOK(r, engine')
      BY <1>1, <3>2, <3>5, <3>7 DEF HandlerOK, Holding
    <3>9. HandlersOK'
      BY <3>1, <3>5, <3>8, HandlerMoves DEF Inv
    <3> QED BY <2>1, <3>9 DEF DealNextHand, Inv, ClocksOK, WorldOK, clocks
  <2>2. CASE ~mayDeal(engine[o])
    BY <2>2, ThrowOK DEF DealNextHand
  <2> QED BY <2>1, <2>2
<1> QED BY <1>2 DEF DealNextHand, Inv, RowOK, EscrowOK, WorldOK, tables, bounds

LEMMA StepSaveState ==
    ASSUME Inv, NEW h \in Handlers, SaveState(h)
    PROVE  Inv'
<1> DEFINE g == handler[h].game
           status == IF g.verdict = Undecided THEN "live" ELSE "terminal"
           r == [handler[h] EXCEPT !.at = "events", !.game = NoGame]
<1>1. handler[h] \in HandlerState /\ g \in Game /\ WellFormed(g)
      /\ handler[h].obj \in 1..Len(engine)
  BY DEF SaveState, Inv, HandlersOK, HandlerOK, Holding, EngineOK, HandlerState
<1>2. r \in HandlerState /\ r.game = NoGame /\ r.obj = handler[h].obj
      /\ r.at = "events"
  BY <1>1, Games DEF HandlerState, At
<1>3. HandlerOK(r, engine')
  BY <1>1, <1>2, Games, EngineKept DEF HandlerOK, Holding, SaveState, Inv
<1>4. HandlersOK'
  BY <1>3, EngineKept, HandlerMoves DEF SaveState, Inv
<1>5. RowOK' /\ row'.settled = row.settled
  <2>1. row' = [row EXCEPT !.state = g, !.status = status]
    BY DEF SaveState
  <2>2. status \in {"pending_entropy", "live", "terminal"}
    OBVIOUS
  <2> HIDE DEF status, g
  <2>3. row'.state = g
    BY <2>1 DEF Inv, RowOK
  <2> QED BY <2>1, <2>2, <2>3, <1>1 DEF Inv, RowOK
<1> QED BY <1>4, <1>5 DEF SaveState, Inv, EscrowOK, ClocksOK, WorldOK,
                         clocks, bounds

LEMMA StepListEvents ==
    ASSUME Inv, NEW h \in Handlers, ListEvents(h)
    PROVE  Inv'
<1> DEFINE next == IF handler[h].at = "events" THEN "append" ELSE "end_append"
           r == [handler[h] EXCEPT !.at = next, !.latest = TRUE]
<1>1. /\ handler[h] \in HandlerState /\ WellFormed(handler[h].game)
      /\ handler[h].obj \in 0..Len(engine)
      /\ handler[h].at = "events" => handler[h].obj > 0
      /\ next \in {"append", "end_append"}
      /\ next = "append" => handler[h].at = "events"
  BY DEF Inv, HandlersOK, HandlerOK, Holding
<1>2. suspend(h, r) /\ UNCHANGED engine
  BY <1>1 DEF ListEvents, HandlerState
<1> HIDE DEF next
<1>3. r \in HandlerState /\ r.game = handler[h].game /\ r.obj = handler[h].obj
      /\ r.at = next
  BY <1>1 DEF HandlerState, At
<1>4. HandlerOK(r, engine')
  BY <1>1, <1>2, <1>3 DEF HandlerOK, Holding
<1>5. HandlersOK'
  BY <1>2, <1>4, EngineKept, HandlerMoves DEF Inv
<1> QED BY <1>5 DEF ListEvents, Inv, RowOK, EscrowOK, ClocksOK, WorldOK,
                   tables, clocks, bounds

LEMMA StepAppendEvent ==
    ASSUME Inv, NEW h \in Handlers, AppendEvent(h)
    PROVE  Inv'
<1>1. /\ ClocksOK' /\ HandlersOK'
      /\ presence' \in [Seats -> {"unknown", "online", "silent", "lapsed",
                                  "away", "gone"}]
  <2>1. CASE handler[h].latest
    <3> DEFINE moved(k) ==
                 IF k # h THEN [handler[k] EXCEPT !.latest = FALSE]
                 ELSE IF handler[h].at = "end_append" THEN Idle
                 ELSE [handler[h] EXCEPT !.at = "publish", !.latest = FALSE]
    <3>1. handler' = [k \in Handlers |-> moved(k)]
          /\ UNCHANGED <<engine, clocks, presence>>
      BY <2>1 DEF AppendEvent
    <3>2. ASSUME NEW k \in Handlers PROVE HandlerOK(moved(k), engine)
      <4>1. HandlerOK(handler[k], engine) /\ handler[k] \in HandlerState
        BY DEF Inv, HandlersOK
      <4>2. CASE k # h
        <5> DEFINE r == [handler[k] EXCEPT !.latest = FALSE]
        <5>1. /\ r \in HandlerState /\ r.game = handler[k].game
              /\ r.obj = handler[k].obj /\ r.at = handler[k].at
              /\ r.void = handler[k].void /\ r.seat = handler[k].seat
              /\ r.verdict = handler[k].verdict
          BY <4>1 DEF HandlerState
        <5>2. HandlerOK(r, engine)
          BY <4>1, <5>1 DEF HandlerOK
        <5> QED BY <4>2, <5>2
      <4>3. CASE k = h /\ handler[h].at = "end_append"
        BY <4>3, IdleOK DEF Inv, HandlersOK
      <4>4. CASE k = h /\ handler[h].at # "end_append"
        <5> DEFINE r == [handler[h] EXCEPT !.at = "publish", !.latest = FALSE]
        <5>1. /\ r \in HandlerState /\ r.game = handler[h].game
              /\ r.obj = handler[h].obj /\ r.at = "publish"
          BY <4>1, <4>4 DEF HandlerState, At
        <5>2. HandlerOK(r, engine)
          BY <4>1, <4>4, <5>1 DEF HandlerOK, Holding, AppendEvent
        <5> QED BY <4>4, <5>2
      <4> QED BY <4>2, <4>3, <4>4
    <3>3. \A k \in Handlers : moved(k) \in HandlerState
      BY <3>2 DEF HandlerOK
    <3> HIDE DEF moved
    <3>4. HandlersOK'
      BY <3>1, <3>2, <3>3 DEF Inv, HandlersOK
    <3> QED BY <3>1, <3>4 DEF Inv, ClocksOK, WorldOK, clocks
  <2>2. CASE ~handler[h].latest
    BY <2>2, ThrowOK DEF AppendEvent
  <2> QED BY <2>1, <2>2
<1> QED BY <1>1 DEF AppendEvent, Inv, RowOK, EscrowOK, WorldOK, tables, bounds

\* A verdict on its way to the tables is the engine's.
LEMMA FinishOK ==
    ASSUME Inv, EngineOK(engine'), Later(engine, engine'),
           NEW h \in Handlers, NEW o \in 1..Len(engine'),
           NEW g \in Game, g.verdict # Undecided, engine'[o].verdict = g.verdict,
           NEW void \in BOOLEAN, finish(h, o, g, void)
    PROVE  HandlersOK' /\ ClocksOK'
<1> DEFINE r == [Idle EXCEPT !.at = "settle", !.obj = o, !.void = void,
                             !.verdict = g.verdict]
<1>1. o \in Nat /\ g.verdict \in Verdicts
  BY DEF EngineOK, Game
<1>2. /\ r \in HandlerState /\ r.game = NoGame /\ r.obj = o /\ r.at = "settle"
      /\ r.verdict = g.verdict
  BY <1>1, IdleState DEF HandlerState, At
<1>3. HandlerOK(r, engine')
  BY <1>2, Games DEF HandlerOK, Holding, EngineOK
<1>4. HandlersOK'
  BY <1>3, HandlerMoves DEF finish, Inv
<1>5. ClocksOK'
  BY SeatFacts DEF finish, Disarmed, NoGrace, ClocksOK
<1> QED BY <1>4, <1>5

LEMMA StepPublish ==
    ASSUME Inv, NEW h \in Handlers, Publish(h)
    PROVE  Inv'
<1> DEFINE o == handler[h].obj
           g == engine[o]
<1>1. o \in 1..Len(engine) /\ g \in Game /\ handler[h].void \in BOOLEAN
  BY ObjFacts DEF Publish, Inv, HandlersOK, HandlerOK, Holding, HandlerState
<1>2. EngineOK(engine') /\ Later(engine, engine') /\ engine' = engine
  BY EngineKept DEF Publish, Inv
<1>3. HandlersOK' /\ ClocksOK'
  <2>1. CASE g.verdict # Undecided
    <3>1. finish(h, o, g, handler[h].void)
      BY <2>1 DEF Publish
    <3> HIDE DEF o
    <3> QED BY <1>1, <1>2, <2>1, <3>1, FinishOK
  <2>2. CASE g.verdict = Undecided
    <3>1. rearms(g) /\ suspend(h, Idle)
      BY <2>2 DEF Publish
    <3>2. HandlersOK'
      BY <1>2, <3>1, HandlerEnds DEF Inv
    <3>3. ClocksOK'
      BY <1>1, <3>1, ScheduledOK DEF rearms, Disarmed, Inv, ClocksOK
    <3> QED BY <3>2, <3>3
  <2> QED BY <2>1, <2>2
<1>4. shown' \in [hand : Nat, seq : Nat]
  BY <1>1, ShownOK DEF Publish, Inv
<1> QED BY <1>3, <1>4 DEF Publish, Inv, RowOK, EscrowOK, WorldOK, tables, bounds

LEMMA StepSettle ==
    ASSUME Inv, NEW h \in Handlers, Settle(h)
    PROVE  Inv'
<1> DEFINE v == handler[h].verdict
           r == [Idle EXCEPT !.at = "end_events", !.void = handler[h].void]
<1>1. v \in Seats \cup {Nobody} /\ handler[h].void \in BOOLEAN
  BY SeatFacts DEF Settle, Inv, HandlersOK, HandlerOK, HandlerState, Verdicts
<1>2. r \in HandlerState /\ r.game = NoGame /\ r.obj = 0 /\ r.at = "end_events"
  BY <1>1, IdleState DEF HandlerState, At
<1>3. HandlerOK(r, engine')
  BY <1>2, Games, EngineKept DEF HandlerOK, Holding, Settle, Inv, EngineOK
<1>4. HandlersOK'
  BY <1>3, EngineKept, HandlerMoves DEF Settle, Inv
<1>5. RowOK' /\ EscrowOK'
  <2>1. CASE maySettle(row)
    <3>1. /\ row' = [row EXCEPT !.settled = TRUE, !.status = "terminal",
                                !.winner = v]
          /\ stakes' = stakesFor(v)
          /\ grants' = [s \in Seats |-> grants[s] + grantsFor(v)[s]]
      BY <2>1 DEF Settle
    <3>2. RowOK' /\ row'.settled
      BY <1>1, <3>1 DEF Inv, RowOK
    <3>3. stakes' \in [Seats -> {"locked", "unlocked", "converted", "released"}]
      BY <3>1 DEF stakesFor
    <3>4. grants' \in [Seats -> Nat]
      BY <3>1 DEF grantsFor, Inv, EscrowOK
    <3> QED BY <3>2, <3>3, <3>4 DEF EscrowOK
  <2>2. CASE ~maySettle(row)
    BY <2>2 DEF Settle, Inv, RowOK, EscrowOK, tables
  <2> QED BY <2>1, <2>2
<1> QED BY <1>4, <1>5 DEF Settle, Inv, ClocksOK, WorldOK, clocks, bounds

------------------------------------------------------------------------------
(* Presence and faults.                                                    *)

LEMMA StepSocketCloses ==
    ASSUME Inv, NEW h \in Handlers, NEW s \in Seats, SocketCloses(h, s)
    PROVE  Inv'
<1> DEFINE r == [Idle EXCEPT !.at = "abort", !.void = TRUE, !.seat = s]
<1>1. r \in HandlerState /\ r.game = NoGame /\ r.obj = 0 /\ r.at = "abort"
      /\ r.seat = s
  BY IdleState, SeatFacts DEF HandlerState, At
<1>2. HandlerOK(r, engine')
  BY <1>1, Games, EngineKept DEF HandlerOK, Holding, SocketCloses, Inv, EngineOK
<1>3. HandlersOK'
  BY <1>2, EngineKept, HandlerMoves DEF SocketCloses, Inv
<1>4. WorldOK'
  BY DEF SocketCloses, Inv, WorldOK, bounds
<1> QED BY <1>3, <1>4 DEF SocketCloses, Inv, RowOK, EscrowOK, ClocksOK, clocks,
                         tables

\* A disconnect that ends the match.
LEMMA ForfeitOK ==
    ASSUME Inv, NEW h \in Handlers, Playing, NEW v \in Verdicts, v # Undecided,
           NEW g, g = Closed(engine[Current], v),
           engine' = [engine EXCEPT ![Current] = g], finish(h, Current, g, TRUE)
    PROVE  HandlersOK' /\ ClocksOK'
<1>1. Current \in 1..Len(engine) /\ engine[Current] \in Game
  BY CurrentFacts DEF Inv, Playing
<1>2. g \in Game /\ WellFormed(g) /\ g.verdict = v
  BY <1>1, ClosedIsGame
<1>3. EngineOK(engine') /\ Later(engine, engine')
      /\ Len(engine') = Len(engine) /\ engine'[Current] = g
  <2>1. EngineOK(engine) /\ engine[Current].verdict = Undecided
    BY DEF Inv, HandlersOK, Playing
  <2> QED BY <1>1, <1>2, <2>1, EnginePlayed
<1> QED BY <1>1, <1>2, <1>3, FinishOK

LEMMA StepHandleDisconnect ==
    ASSUME Inv, NEW h \in Handlers, HandleDisconnect(h)
    PROVE  Inv'
<1> DEFINE s == handler[h].seat
           v == IF offline(Other(s)) THEN Nobody ELSE Other(s)
           g == Closed(engine[Current], v)
<1>1. s \in Seats
  BY DEF HandleDisconnect, Inv, HandlersOK, HandlerOK
<1>2. HandlersOK' /\ ClocksOK'
  <2>1. CASE Playing /\ forLong(s)
    <3>1. v \in Verdicts /\ v # Undecided
      BY <1>1, SeatFacts
    <3>2. engine' = [engine EXCEPT ![Current] = g] /\ finish(h, Current, g, TRUE)
      BY <2>1 DEF HandleDisconnect
    <3> HIDE DEF v
    <3> QED BY <2>1, <3>1, <3>2, ForfeitOK
  <2>2. CASE Playing /\ offline(s) /\ ~forLong(s)
    <3>1. grace' = [armed |-> TRUE, seat |-> s] /\ suspend(h, Idle)
          /\ UNCHANGED <<engine, action>>
      BY <2>2 DEF HandleDisconnect
    <3> QED BY <1>1, <3>1, HandlerEnds DEF Inv, ClocksOK
  <2>3. CASE ~(Playing /\ forLong(s)) /\ ~(Playing /\ offline(s) /\ ~forLong(s))
    <3>1. suspend(h, Idle) /\ UNCHANGED <<engine, clocks>>
      BY <2>3 DEF HandleDisconnect
    <3> QED BY <3>1, HandlerEnds DEF Inv, ClocksOK, clocks
  <2> QED BY <2>1, <2>2, <2>3
<1> QED BY <1>2 DEF HandleDisconnect, Inv, RowOK, EscrowOK, WorldOK, tables, bounds

LEMMA StepEvaluateDisconnect ==
    ASSUME Inv, NEW h \in Handlers, EvaluateDisconnect(h)
    PROVE  Inv'
<1>1. HandlersOK' /\ ClocksOK'
  <2>1. CASE Playing /\ graceVerdicts # {}
    <3>1. PICK v \in graceVerdicts :
            LET g == Closed(engine[Current], v) IN
            /\ engine' = [engine EXCEPT ![Current] = g]
            /\ finish(h, Current, g, TRUE)
      BY <2>1 DEF EvaluateDisconnect
    <3>2. v \in Verdicts /\ v # Undecided
      BY SeatFacts DEF graceVerdicts
    <3> QED BY <2>1, <3>1, <3>2, ForfeitOK
  <2>2. CASE ~(Playing /\ graceVerdicts # {})
    <3>1. grace' = NoGrace /\ UNCHANGED <<engine, action, handler>>
      BY <2>2 DEF EvaluateDisconnect
    <3> QED BY <3>1 DEF NoGrace, Inv, ClocksOK, HandlersOK
  <2> QED BY <2>1, <2>2
<1> QED BY <1>1 DEF EvaluateDisconnect, Inv, RowOK, EscrowOK, WorldOK, tables,
                   bounds

LEMMA StepPresence ==
    ASSUME Inv, NEW s \in Seats, Returns(s) \/ FallsSilent(s) \/ GraceEnds(s)
    PROVE  Inv'
<1>1. UNCHANGED <<tables, engine, action, handler, bounds, shown>>
  BY DEF Returns, FallsSilent, GraceEnds, clocks
<1>2. WorldOK'
  BY <1>1 DEF Returns, FallsSilent, GraceEnds, Inv, WorldOK, bounds
<1>3. ClocksOK'
  BY <1>1 DEF Returns, FallsSilent, GraceEnds, Inv, ClocksOK, clocks
<1> QED BY <1>1, <1>2, <1>3 DEF Inv, RowOK, EscrowOK, HandlersOK, tables

LEMMA StepCrash ==
    ASSUME Inv, Crash
    PROVE  Inv'
BY RestartOK DEF Crash, Inv, RowOK, EscrowOK, WorldOK, tables

LEMMA StepStoreFails ==
    ASSUME Inv, NEW h \in Handlers, StoreFails(h)
    PROVE  Inv'
BY ThrowOK DEF StoreFails, Inv, RowOK, EscrowOK, WorldOK, tables

LEMMA StepStutter ==
    ASSUME Inv, UNCHANGED vars
    PROVE  Inv'
BY DEF vars, tables, clocks, bounds, Inv, RowOK, EscrowOK, ClocksOK, WorldOK,
       HandlersOK

------------------------------------------------------------------------------
(* The theorems.                                                           *)

LEMMA InitInv == Init => Inv
<1> SUFFICES ASSUME Init PROVE Inv
  OBVIOUS
<1>1. RowOK
  BY Games DEF Init, RowOK
<1>2. EscrowOK /\ WorldOK
  BY DEF Init, EscrowOK, WorldOK
<1>3. ClocksOK
  BY DEF Init, ClocksOK, Disarmed, NoGrace
<1>4. EngineOK(engine)
  BY DEF Init, EngineOK
<1>5. HandlersOK
  BY <1>4, IdleOK, IdleState DEF Init, HandlersOK
<1> QED BY <1>1, <1>2, <1>3, <1>5 DEF Inv

LEMMA NextInv == Inv /\ [Next]_vars => Inv'
<1> SUFFICES ASSUME Inv, [Next]_vars PROVE Inv'
  OBVIOUS
<1>1. ASSUME NEW h \in Handlers, HandlerStep(h) PROVE Inv'
  BY <1>1, StepEntropySave, StepDealFirst, StepDealSave, StepDealPublish,
     StepTimeoutStarts, StepMatchRead, StepSubmitAction, StepTimeoutSeat,
     StepDealNextHand, StepSaveState, StepListEvents, StepAppendEvent,
     StepPublish, StepSettle, StepHandleDisconnect DEF HandlerStep
<1>2. ASSUME NEW h \in Handlers,
             \/ ActionArrives(h) \/ ActionDue(h) \/ EvaluateDisconnect(h)
             \/ StoreFails(h)
             \/ \E s \in Seats : EntropyArrives(h, s) \/ SocketCloses(h, s)
      PROVE  Inv'
  BY <1>2, StepActionArrives, StepActionDue, StepEvaluateDisconnect,
     StepStoreFails, StepEntropyArrives, StepSocketCloses
<1>3. CASE \E s \in Seats : Returns(s) \/ FallsSilent(s) \/ GraceEnds(s)
  BY <1>3, StepPresence
<1>4. CASE Crash
  BY <1>4, StepCrash
<1>5. CASE UNCHANGED vars
  BY <1>5, StepStutter
<1> QED BY <1>1, <1>2, <1>3, <1>4, <1>5 DEF Next

\* What every suspended handler relies on holds in every reachable state.
THEOREM MatchInvariant == Spec => []Inv
BY InitInv, NextInv, PTL DEF Spec

\* However many handlers overlap, fail or are lost: the tables, the timers and
\* what handlers hold stay well formed.
THEOREM TypeCorrect == Spec => []TypeOK
<1>1. Inv => TypeOK
  BY DEF Inv, RowOK, EscrowOK, ClocksOK, WorldOK, HandlersOK, EngineOK, HandlerOK,
         TypeOK, Current
<1> QED BY <1>1, MatchInvariant, PTL

\* However many handlers overlap, what finish carries to the tables is the
\* verdict the engine ended with.
THEOREM VerdictIsTheEngines == Spec => []SettlesTheVerdict
<1>1. Inv => SettlesTheVerdict
  BY DEF Inv, HandlersOK, HandlerOK, SettlesTheVerdict
<1> QED BY <1>1, MatchInvariant, PTL

LEMMA InitEscrow == Init => Escrow!EscrowInit
BY DEF Init, Escrow!EscrowInit

escrow == <<IF row.settled THEN row.winner ELSE Undecided, stakes, grants>>

\* Settle touches the escrow only in a row that was not settled before.
LEMMA SettleEscrow ==
    ASSUME Inv, NEW h \in Handlers, Settle(h)
    PROVE  Escrow!EscrowNext \/ UNCHANGED escrow
<1> DEFINE v == handler[h].verdict
<1>1. v \in Seats \cup {Nobody} /\ v # Undecided
  BY SeatFacts DEF Settle, Inv, HandlersOK, HandlerOK, HandlerState, Verdicts
<1>2. CASE maySettle(row)
  <2>1. /\ row' = [row EXCEPT !.settled = TRUE, !.status = "terminal",
                              !.winner = v]
        /\ stakes' = stakesFor(v)
        /\ grants' = [s \in Seats |-> grants[s] + grantsFor(v)[s]]
    BY <1>2 DEF Settle
  <2>2. /\ row.settled = FALSE
        /\ row'.settled /\ row'.winner = v
        /\ grants = [s \in Seats |-> 0]
    BY <1>2, <2>1 DEF maySettle, Inv, RowOK, EscrowOK
  <2>3. grants' = grantsFor(v)
    BY <2>1, <2>2 DEF grantsFor
  <2> HIDE DEF v
  <2>4. CASE v \in Seats
    <3>1. stakes' = [s \in Seats |-> IF s = v THEN "unlocked" ELSE "converted"]
      BY <2>1, <2>4, SeatFacts DEF stakesFor
    <3>2. grants' = [s \in Seats |-> IF s = v THEN 0 ELSE 1]
      BY <2>3, <2>4, SeatFacts DEF grantsFor
    <3>3. Escrow!Award(v)
      BY <2>2, <3>1, <3>2 DEF Escrow!Award
    <3> QED BY <2>4, <3>3 DEF Escrow!EscrowNext
  <2>5. CASE v = Nobody
    <3>1. stakes' = [s \in Seats |-> "released"]
      BY <2>1, <2>5 DEF stakesFor
    <3>2. grants' = grants
      BY <2>2, <2>3, <2>5 DEF grantsFor
    <3>3. Escrow!Release
      BY <2>2, <2>5, <3>1, <3>2 DEF Escrow!Release
    <3> QED BY <3>3 DEF Escrow!EscrowNext
  <2> QED BY <1>1, <2>4, <2>5
<1>3. CASE ~maySettle(row)
  BY <1>3 DEF Settle, tables, escrow
<1> QED BY <1>2, <1>3

\* Every other step leaves it alone, the saves of the row among them.
LEMMA OthersKeepEscrow ==
    ASSUME Inv, [Next]_vars, \A h \in Handlers : ~Settle(h)
    PROVE  UNCHANGED escrow
<1>1. ASSUME NEW h \in Handlers, EntropySave(h) \/ DealSave(h) \/ SaveState(h)
      PROVE  UNCHANGED escrow
  <2>1. row'.settled = row.settled /\ row'.winner = row.winner
    BY <1>1 DEF EntropySave, DealSave, SaveState, Inv, RowOK
  <2> QED BY <1>1, <2>1 DEF EntropySave, DealSave, SaveState, escrow
<1>2. ASSUME NEW h \in Handlers,
             \/ DealFirst(h) \/ DealPublish(h) \/ TimeoutStarts(h)
             \/ MatchRead(h) \/ SubmitAction(h) \/ TimeoutSeat(h)
             \/ DealNextHand(h) \/ ListEvents(h) \/ AppendEvent(h)
             \/ Publish(h) \/ HandleDisconnect(h)
             \/ ActionArrives(h) \/ ActionDue(h) \/ EvaluateDisconnect(h)
             \/ StoreFails(h)
             \/ \E s \in Seats : EntropyArrives(h, s) \/ SocketCloses(h, s)
      PROVE  UNCHANGED tables
  BY <1>2 DEF DealFirst, DealPublish, TimeoutStarts, MatchRead, SubmitAction,
     TimeoutSeat, DealNextHand, ListEvents, AppendEvent, Publish,
     HandleDisconnect, ActionArrives, ActionDue, EvaluateDisconnect,
     StoreFails, EntropyArrives, SocketCloses
<1>3. ASSUME \/ \E s \in Seats : Returns(s) \/ FallsSilent(s) \/ GraceEnds(s)
             \/ Crash
             \/ UNCHANGED vars
      PROVE  UNCHANGED tables
  BY <1>3 DEF Returns, FallsSilent, GraceEnds, Crash, vars
<1>4. UNCHANGED tables => UNCHANGED escrow
  BY DEF tables, escrow
<1> QED BY <1>1, <1>2, <1>3, <1>4 DEF Next, HandlerStep

\* However handlers overlap, fail or are lost: a match is settled once, by a
\* verdict the stakes and grants follow, and nothing changes it afterwards.
THEOREM EscrowIsKept == Spec => RefinesEscrow
<1>1. Init => Escrow!EscrowInit
  BY InitEscrow
<1>2. Inv /\ [Next]_vars => Escrow!EscrowNext \/ UNCHANGED escrow
  BY SettleEscrow, OthersKeepEscrow
<1> QED BY <1>1, <1>2, MatchInvariant, PTL
        DEF Spec, RefinesEscrow, Escrow!EscrowSpec, escrow
------------------------------------------------------------------------------
(***************************************************************************)
(* One handler at a time.  When handlers do not overlap, the row follows   *)
(* the engine: a handler holds the newest engine and the game it is in,    *)
(* and what was sent is in the row.  The lemmas speak of the one handler   *)
(* h; the theorems assume Handlers = {h}.                                  *)
(***************************************************************************)

RowFollows ==
    /\ row.settled => row.status = "terminal"
    /\ row.status = "pending_entropy" => row.state = NoGame
    /\ ~further(row.state, shown)
    /\ Current > 0 => ~further(engine[Current], row.state)
    /\ row.settled /\ Current > 0 => engine[Current].verdict = row.winner

HandlerFollows(h) ==
    LET r == handler[h] IN
    /\ r.at \in Holding \cup {"row", "act"} => r.obj = Current
    /\ r.at \in {"entropy_save", "entropy_check", "deal_save"}
         => row.status = "pending_entropy"
    /\ r.at \in {"deal_save", "next_hand", "save"} => r.game = engine[Current]
    /\ r.at \in {"next_hand", "save"} => ~row.settled
    /\ r.at \in {"deal_publish", "events", "append", "publish"}
         => row.state = engine[Current]

SerialInv(h) == Inv /\ RowFollows /\ HandlerFollows(h)

LEMMA FurtherOrder ==
    ASSUME NEW p, NEW q, NEW r, p.hand \in Nat, p.seq \in Nat, q.hand \in Nat,
           q.seq \in Nat, r.hand \in Nat, r.seq \in Nat
    PROVE  /\ ~further(p, p)
           /\ further(p, q) => ~further(q, p)
           /\ ~further(q, p) /\ ~further(r, q) => ~further(r, p)
BY DEF further

LEMMA PlayedIsFurther ==
    ASSUME NEW g \in Game, NEW n \in Played(g)
    PROVE  further(g, n)
<1> DEFINE k == g.seq + 1
<1>1. k \in Nat /\ g.seq < k
  BY DEF Game
<1> HIDE DEF k
<1>2. n.hand = g.hand /\ n.seq = k
  BY DEF Played, Game, k
<1> QED BY <1>1, <1>2 DEF further

LEMMA NextHandIsFurther ==
    ASSUME NEW g \in Game, NEW n \in NextHands(g)
    PROVE  further(g, n)
BY DEF NextHands, Game, further

LEMMA ClosedIsLevel ==
    ASSUME NEW g \in Game, NEW v
    PROVE  Closed(g, v).hand = g.hand /\ Closed(g, v).seq = g.seq
BY DEF Closed, Game

LEMMA Suspended ==
    ASSUME HandlersOK, NEW h \in Handlers, NEW r, suspend(h, r)
    PROVE  handler'[h] = r
BY DEF HandlersOK, suspend

\* A handler that is idle relies on nothing.
LEMMA IdleFollows ==
    ASSUME NEW h \in Handlers, handler'[h] = Idle
    PROVE  HandlerFollows(h)'
BY IdleState DEF HandlerFollows, Holding

\* Most steps leave the row, the engines and what was shown alone.
LEMMA SameRow ==
    ASSUME RowFollows, UNCHANGED <<row, engine, shown>>
    PROVE  RowFollows'
BY DEF RowFollows, further, Current

LEMMA RowFacts ==
    ASSUME Inv
    PROVE  /\ row.state \in Game /\ row.state.hand \in Nat /\ row.state.seq \in Nat
           /\ shown.hand \in Nat /\ shown.seq \in Nat
           /\ Current \in Nat
           /\ Current > 0 => /\ engine[Current] \in Game
                             /\ engine[Current].hand \in Nat
                             /\ engine[Current].seq \in Nat
BY CurrentFacts DEF Inv, RowOK, WorldOK, Game

\* An engine that plays on, in the newest game, is not behind the row.
LEMMA PlayFollows ==
    ASSUME Inv, RowFollows, NEW g \in Game, Playing,
           further(engine[Current], g) \/ (g.hand = engine[Current].hand
                                           /\ g.seq = engine[Current].seq),
           engine' = [engine EXCEPT ![Current] = g], UNCHANGED <<row, shown>>
    PROVE  /\ RowFollows' /\ ~row.settled
           /\ Current' = Current /\ engine'[Current] = g
<1>1. Current > 0 /\ engine[Current].verdict = Undecided /\ Current \in 1..Len(engine)
  BY CurrentFacts DEF Inv, Playing
<1>2. ~row.settled
  BY <1>1, SeatFacts DEF RowFollows, Inv, RowOK
<1>3. Current' = Current /\ engine'[Current] = g
  BY <1>1 DEF Inv, HandlersOK, EngineOK, Current
<1>4. g.hand \in Nat /\ g.seq \in Nat
  BY DEF Game
<1>5. ~further(g, row.state)
  <2>1. ~further(engine[Current], row.state)
    BY <1>1 DEF RowFollows
  <2>2. ~further(g, engine[Current])
    BY <1>1, <1>4, RowFacts, FurtherOrder DEF further
  <2> QED BY <1>1, <1>4, <2>1, <2>2, RowFacts, FurtherOrder
<1> QED BY <1>2, <1>3, <1>5 DEF RowFollows, further

LEMMA RestartFollows ==
    ASSUME Inv, RowFollows, Restart, NEW h \in Handlers, UNCHANGED <<row, shown>>
    PROVE  RowFollows' /\ HandlerFollows(h)'
<1>1. HandlerFollows(h)'
  BY IdleFollows DEF Restart
<1>2. CASE restores(row)
  <2>1. Current' = 1 /\ engine'[1] = row.state
    BY <1>2 DEF Restart, Current
  <2>2. ~row.settled
    BY <1>2 DEF RowFollows, restores
  <2>3. ~further(row.state, row.state)
    BY RowFacts, FurtherOrder
  <2> QED BY <1>1, <2>1, <2>2, <2>3 DEF RowFollows, further
<1>3. CASE ~restores(row)
  <2>1. Current' = 0
    BY <1>3 DEF Restart, Current
  <2> QED BY <1>1, <2>1 DEF RowFollows, further
<1> QED BY <1>2, <1>3

LEMMA ThrowFollows ==
    ASSUME Inv, RowFollows, NEW h \in Handlers, Throw(h), UNCHANGED <<row, shown>>
    PROVE  RowFollows' /\ HandlerFollows(h)'
<1>1. CASE handler[h].void
  BY <1>1, RestartFollows DEF Throw
<1>2. CASE ~handler[h].void
  BY <1>2, Suspended, IdleFollows, SameRow DEF Throw, Inv
<1> QED BY <1>1, <1>2

LEMMA SerialEntropyArrives ==
    ASSUME NEW h \in Handlers, SerialInv(h), NEW s \in Seats, EntropyArrives(h, s)
    PROVE  RowFollows' /\ HandlerFollows(h)'
<1> DEFINE r == [Idle EXCEPT !.at = "entropy_save", !.seat = s]
<1>1. r.at = "entropy_save"
  BY IdleState DEF HandlerState
<1>2. handler'[h] = r
  BY Suspended DEF EntropyArrives, SerialInv, Inv
<1> HIDE DEF r
<1>3. HandlerFollows(h)'
  BY <1>1, <1>2 DEF HandlerFollows, Holding, EntropyArrives, tables
<1> QED BY <1>3, SameRow DEF EntropyArrives, SerialInv, tables

LEMMA SerialEntropySave ==
    ASSUME NEW h \in Handlers, SerialInv(h), EntropySave(h)
    PROVE  RowFollows' /\ HandlerFollows(h)'
<1> DEFINE r == [Idle EXCEPT !.at = "entropy_check"]
<1>1. r.at = "entropy_check"
  BY IdleState DEF HandlerState
<1>2. handler'[h] = r
  BY Suspended DEF EntropySave, SerialInv, Inv
<1> HIDE DEF r
<1>3. /\ row'.state = row.state /\ row'.status = row.status
      /\ row'.settled = row.settled /\ row'.winner = row.winner
  BY DEF EntropySave, SerialInv, Inv, RowOK
<1>4. HandlerFollows(h)'
  BY <1>1, <1>2, <1>3 DEF HandlerFollows, Holding, EntropySave, SerialInv
<1>5. RowFollows'
  BY <1>3 DEF RowFollows, EntropySave, SerialInv, further, Current
<1> QED BY <1>4, <1>5

LEMMA SerialDealFirst ==
    ASSUME NEW h \in Handlers, SerialInv(h), DealFirst(h)
    PROVE  RowFollows' /\ HandlerFollows(h)'
<1>1. CASE row.entropy = Seats
  <2> DEFINE o == Current + 1
             r == [Idle EXCEPT !.at = "deal_save", !.obj = o, !.game = FirstHand]
  <2>1. engine' = Append(engine, FirstHand) /\ suspend(h, r)
    BY <1>1 DEF DealFirst
  <2>2. Current' = o /\ engine'[o] = FirstHand
    BY <2>1, EngineMade, Games DEF SerialInv, Inv, HandlersOK, Current
  <2>3. handler'[h] = r
    BY <2>1, Suspended DEF SerialInv, Inv
  <2> HIDE DEF o
  <2>4. r.at = "deal_save" /\ r.obj = o /\ r.game = FirstHand
    BY IdleState DEF HandlerState
  <2> HIDE DEF r
  <2>5. row.status = "pending_entropy" /\ UNCHANGED <<row, shown>>
    BY DEF DealFirst, SerialInv, HandlerFollows, tables
  <2>6. HandlerFollows(h)'
    BY <2>2, <2>3, <2>4, <2>5 DEF HandlerFollows, Holding
  <2>7. row.state = NoGame /\ ~row.settled /\ ~further(FirstHand, NoGame)
    BY <2>5 DEF SerialInv, RowFollows, further, FirstHand, NoGame
  <2>8. RowFollows'
    BY <2>2, <2>5, <2>7 DEF SerialInv, RowFollows, further
  <2> QED BY <2>6, <2>8
<1>2. CASE row.entropy # Seats
  BY <1>2, Suspended, IdleFollows, SameRow DEF DealFirst, SerialInv, Inv, tables
<1> QED BY <1>1, <1>2

LEMMA SerialDealSave ==
    ASSUME NEW h \in Handlers, SerialInv(h), DealSave(h)
    PROVE  RowFollows' /\ HandlerFollows(h)'
<1> DEFINE r == [handler[h] EXCEPT !.at = "deal_publish", !.game = NoGame]
<1>1. r.at = "deal_publish" /\ r.obj = handler[h].obj
  BY DEF SerialInv, Inv, HandlersOK, HandlerState
<1>2. handler'[h] = r
  BY Suspended DEF DealSave, SerialInv, Inv
<1> HIDE DEF r
<1>3. /\ row.status = "pending_entropy" /\ handler[h].game = engine[Current]
      /\ handler[h].obj = Current /\ Current > 0 /\ row.state = NoGame
      /\ ~row.settled
  BY DEF DealSave, SerialInv, HandlerFollows, RowFollows, Holding, Inv, HandlersOK,
         HandlerOK
<1>4. /\ row'.state = engine[Current] /\ row'.status = "live" /\ ~row'.settled
      /\ UNCHANGED <<engine, shown>> /\ Current' = Current
  BY <1>3 DEF DealSave, SerialInv, Inv, RowOK, Current
<1>5. ~further(engine[Current], shown) /\ ~further(engine[Current], engine[Current])
  BY <1>3, RowFacts, FurtherOrder DEF SerialInv, RowFollows
<1>6. HandlerFollows(h)'
  BY <1>1, <1>2, <1>3, <1>4 DEF HandlerFollows, Holding
<1>7. RowFollows'
  BY <1>4, <1>5 DEF RowFollows, further
<1> QED BY <1>6, <1>7

\* What is sent is what the row holds.
LEMMA ShownFollows ==
    ASSUME Inv, RowFollows, Current > 0, row.state = engine[Current],
           publishSnapshots(engine[Current]), UNCHANGED <<row, engine>>
    PROVE  RowFollows'
<1> DEFINE g == engine[Current]
<1>1. ~further(row.state, shown')
  <2>1. ~further(g, shown) /\ ~further(g, [hand |-> g.hand, seq |-> g.seq])
    BY RowFacts DEF RowFollows, further
  <2> QED BY <2>1 DEF publishSnapshots
<1> QED BY <1>1 DEF RowFollows, further, Current

LEMMA SerialDealPublish ==
    ASSUME NEW h \in Handlers, SerialInv(h), DealPublish(h)
    PROVE  RowFollows' /\ HandlerFollows(h)'
<1>1. handler[h].obj = Current /\ Current > 0 /\ row.state = engine[Current]
  BY DEF DealPublish, SerialInv, HandlerFollows, Holding, Inv, HandlersOK, HandlerOK
<1>2. RowFollows'
  BY <1>1, ShownFollows DEF DealPublish, SerialInv, tables
<1>3. HandlerFollows(h)'
  BY Suspended, IdleFollows DEF DealPublish, SerialInv, Inv
<1> QED BY <1>2, <1>3

LEMMA SerialActionArrives ==
    ASSUME NEW h \in Handlers, SerialInv(h), ActionArrives(h)
    PROVE  RowFollows' /\ HandlerFollows(h)'
<1> DEFINE g == engine[Current]
           r == [Idle EXCEPT !.at = "row", !.obj = Current, !.seat = g.toAct,
                             !.hand = g.hand, !.seq = g.seq]
<1>1. r.at = "row" /\ r.obj = Current
  BY IdleState DEF HandlerState
<1>2. handler'[h] = r
  BY Suspended DEF ActionArrives, SerialInv, Inv
<1> HIDE DEF r
<1>3. HandlerFollows(h)'
  BY <1>1, <1>2 DEF HandlerFollows, Holding, ActionArrives, Current
<1> QED BY <1>3, SameRow DEF ActionArrives, SerialInv, tables

LEMMA SerialActionDue ==
    ASSUME NEW h \in Handlers, SerialInv(h), ActionDue(h)
    PROVE  RowFollows' /\ HandlerFollows(h)'
<1> DEFINE r == [Idle EXCEPT !.at = "seq", !.void = TRUE]
<1>1. r.at = "seq"
  BY IdleState DEF HandlerState
<1>2. handler'[h] = r
  BY Suspended DEF ActionDue, SerialInv, Inv
<1> HIDE DEF r
<1>3. HandlerFollows(h)'
  BY <1>1, <1>2 DEF HandlerFollows, Holding
<1> QED BY <1>3, SameRow DEF ActionDue, SerialInv, tables

LEMMA SerialTimeoutStarts ==
    ASSUME NEW h \in Handlers, SerialInv(h), TimeoutStarts(h)
    PROVE  RowFollows' /\ HandlerFollows(h)'
<1> DEFINE r == [handler[h] EXCEPT !.at = "row", !.obj = Current, !.seq = action.seq]
<1>1. r.at = "row" /\ r.obj = Current
  BY DEF SerialInv, Inv, HandlersOK, HandlerState
<1>2. handler'[h] = r
  BY Suspended DEF TimeoutStarts, SerialInv, Inv
<1> HIDE DEF r
<1>3. HandlerFollows(h)'
  BY <1>1, <1>2 DEF HandlerFollows, Holding, TimeoutStarts, Current
<1> QED BY <1>3, SameRow DEF TimeoutStarts, SerialInv, tables

LEMMA SerialMatchRead ==
    ASSUME NEW h \in Handlers, SerialInv(h), MatchRead(h)
    PROVE  RowFollows' /\ HandlerFollows(h)'
<1> DEFINE live == row.status = "live"
           r == [handler[h] EXCEPT !.at = "act", !.live = live]
<1>1. handler'[h] = r
  BY Suspended DEF MatchRead, SerialInv, Inv
<1> HIDE DEF live
<1>2. r.at = "act" /\ r.obj = handler[h].obj
  BY DEF SerialInv, Inv, HandlersOK, HandlerState
<1> HIDE DEF r
<1>3. handler[h].obj = Current
  BY DEF MatchRead, SerialInv, HandlerFollows
<1>4. HandlerFollows(h)'
  BY <1>1, <1>2, <1>3 DEF HandlerFollows, Holding, MatchRead, Current
<1> QED BY <1>4, SameRow DEF MatchRead, SerialInv, tables

\* apply, by a seat or by its clock.
LEMMA SerialPlays ==
    ASSUME NEW h \in Handlers, SerialInv(h), handler[h].at = "act",
           handler[h].obj > 0, engine[handler[h].obj].toAct # Nobody, plays(h),
           UNCHANGED <<row, shown>>
    PROVE  RowFollows' /\ HandlerFollows(h)'
<1>1. handler[h].obj = Current /\ Current > 0
  BY DEF SerialInv, HandlerFollows
<1>2. engine[Current] \in Game /\ WellFormed(engine[Current])
  BY <1>1, CurrentFacts DEF SerialInv, Inv
<1>3. Playing
  BY <1>1, <1>2 DEF Playing, WellFormed
<1>4. PICK g \in Played(engine[Current]) :
        /\ engine' = [engine EXCEPT ![Current] = g]
        /\ suspend(h, [Idle EXCEPT
              !.at = IF g.over /\ g.verdict = Undecided THEN "next_hand"
                     ELSE "save",
              !.void = handler[h].void, !.obj = Current, !.game = g])
  BY <1>1 DEF plays
<1>5. g \in Game /\ further(engine[Current], g)
  BY <1>1, <1>2, PlayedAreGames, PlayedIsFurther
<1>6. RowFollows' /\ ~row.settled /\ Current' = Current /\ engine'[Current] = g
  BY <1>3, <1>4, <1>5, PlayFollows DEF SerialInv
<1> DEFINE next == IF g.over /\ g.verdict = Undecided THEN "next_hand" ELSE "save"
           r == [Idle EXCEPT !.at = next, !.void = handler[h].void,
                             !.obj = Current, !.game = g]
<1>7. handler'[h] = r
  BY <1>4, Suspended DEF SerialInv, Inv
<1>8. next \in {"next_hand", "save"}
  OBVIOUS
<1> HIDE DEF next
<1>9. r.at = next /\ r.obj = Current /\ r.game = g
  BY IdleState DEF HandlerState
<1> HIDE DEF r
<1>10. HandlerFollows(h)'
  BY <1>6, <1>7, <1>8, <1>9 DEF HandlerFollows, Holding
<1> QED BY <1>6, <1>10

LEMMA SerialSubmitAction ==
    ASSUME NEW h \in Handlers, SerialInv(h), SubmitAction(h)
    PROVE  RowFollows' /\ HandlerFollows(h)'
<1>1. CASE actionAccepted(h)
  <2>1. handler[h].obj > 0 /\ handler[h].seat \in Seats
    BY DEF SubmitAction, SerialInv, Inv, HandlersOK, HandlerOK
  <2>2. plays(h) /\ engine[handler[h].obj].toAct # Nobody
    BY <1>1, <2>1, SeatFacts DEF SubmitAction, actionAccepted
  <2> QED BY <2>1, <2>2, SerialPlays DEF SubmitAction, tables
<1>2. CASE ~actionAccepted(h)
  BY <1>2, Suspended, IdleFollows, SameRow DEF SubmitAction, SerialInv, Inv, tables
<1> QED BY <1>1, <1>2

LEMMA SerialTimeoutSeat ==
    ASSUME NEW h \in Handlers, SerialInv(h), TimeoutSeat(h)
    PROVE  RowFollows' /\ HandlerFollows(h)'
<1>1. CASE timeoutStands(h)
  BY <1>1, SerialPlays DEF TimeoutSeat, timeoutStands, tables
<1>2. CASE ~timeoutStands(h)
  BY <1>2, Suspended, IdleFollows, SameRow DEF TimeoutSeat, SerialInv, Inv, tables
<1> QED BY <1>1, <1>2

LEMMA SerialDealNextHand ==
    ASSUME NEW h \in Handlers, SerialInv(h), DealNextHand(h)
    PROVE  RowFollows' /\ HandlerFollows(h)'
<1>1. handler[h].obj = Current /\ Current > 0 /\ engine[Current] \in Game
  BY CurrentFacts DEF DealNextHand, SerialInv, HandlerFollows, Holding, Inv,
                      HandlersOK, HandlerOK
<1>2. CASE mayDeal(engine[Current])
  <2>1. PICK g \in NextHands(engine[Current]) :
          /\ engine' = [engine EXCEPT ![Current] = g]
          /\ suspend(h, [handler[h] EXCEPT !.at = "save", !.game = g])
    BY <1>1, <1>2 DEF DealNextHand
  <2>2. Playing
    BY <1>1, <1>2 DEF mayDeal, Playing
  <2>3. g \in Game /\ further(engine[Current], g)
    BY <1>1, NextHandsAreGames, NextHandIsFurther
  <2>4. RowFollows' /\ ~row.settled /\ Current' = Current /\ engine'[Current] = g
    BY <2>1, <2>2, <2>3, PlayFollows DEF SerialInv, DealNextHand, tables
  <2> DEFINE r == [handler[h] EXCEPT !.at = "save", !.game = g]
  <2>5. handler'[h] = r
    BY <2>1, Suspended DEF SerialInv, Inv
  <2>6. r.at = "save" /\ r.obj = Current /\ r.game = g
    BY <1>1 DEF SerialInv, Inv, HandlersOK, HandlerState
  <2> HIDE DEF r
  <2>7. HandlerFollows(h)'
    BY <2>4, <2>5, <2>6 DEF HandlerFollows, Holding, DealNextHand, tables
  <2> QED BY <2>4, <2>7
<1>3. CASE ~mayDeal(engine[Current])
  BY <1>1, <1>3, ThrowFollows DEF DealNextHand, SerialInv, tables
<1> QED BY <1>2, <1>3

LEMMA SerialSaveState ==
    ASSUME NEW h \in Handlers, SerialInv(h), SaveState(h)
    PROVE  RowFollows' /\ HandlerFollows(h)'
<1> DEFINE g == handler[h].game
           r == [handler[h] EXCEPT !.at = "events", !.game = NoGame]
<1>1. r.at = "events" /\ r.obj = handler[h].obj
  BY DEF SerialInv, Inv, HandlersOK, HandlerState
<1>2. handler'[h] = r
  BY Suspended DEF SaveState, SerialInv, Inv
<1> HIDE DEF r
<1>3. /\ g = engine[Current] /\ handler[h].obj = Current /\ Current > 0
      /\ ~row.settled
  BY DEF SaveState, SerialInv, HandlerFollows, Holding, Inv, HandlersOK, HandlerOK
<1>4. /\ row'.state = engine[Current] /\ row'.status # "pending_entropy"
      /\ ~row'.settled /\ UNCHANGED <<engine, shown>> /\ Current' = Current
  BY <1>3 DEF SaveState, SerialInv, Inv, RowOK, Current
<1>5. ~further(engine[Current], shown) /\ ~further(engine[Current], engine[Current])
  BY <1>3, RowFacts, FurtherOrder DEF SerialInv, RowFollows
<1>6. HandlerFollows(h)'
  BY <1>1, <1>2, <1>3, <1>4 DEF HandlerFollows, Holding
<1>7. RowFollows'
  BY <1>4, <1>5 DEF RowFollows, further
<1> QED BY <1>6, <1>7

LEMMA SerialListEvents ==
    ASSUME NEW h \in Handlers, SerialInv(h), ListEvents(h)
    PROVE  RowFollows' /\ HandlerFollows(h)'
<1> DEFINE next == IF handler[h].at = "events" THEN "append" ELSE "end_append"
           r == [handler[h] EXCEPT !.at = next, !.latest = TRUE]
<1>1. /\ next \in {"append", "end_append"}
      /\ next = "append" => handler[h].at = "events"
  OBVIOUS
<1>2. handler'[h] = r
  <2>1. suspend(h, r)
    BY DEF ListEvents, SerialInv, Inv, HandlersOK, HandlerState
  <2> QED BY <2>1, Suspended DEF SerialInv, Inv
<1> HIDE DEF next
<1>3. r.at = next /\ r.obj = handler[h].obj
  BY DEF SerialInv, Inv, HandlersOK, HandlerState
<1> HIDE DEF r
<1>4. HandlerFollows(h)'
  BY <1>1, <1>2, <1>3 DEF HandlerFollows, Holding, ListEvents, SerialInv, tables,
                          Current
<1> QED BY <1>4, SameRow DEF ListEvents, SerialInv, tables

LEMMA SerialAppendEvent ==
    ASSUME NEW h \in Handlers, SerialInv(h), AppendEvent(h)
    PROVE  RowFollows' /\ HandlerFollows(h)'
<1>1. CASE handler[h].latest
  <2> DEFINE r == [handler[h] EXCEPT !.at = "publish", !.latest = FALSE]
  <2>1. /\ handler'[h] = IF handler[h].at = "end_append" THEN Idle ELSE r
        /\ UNCHANGED <<row, engine, shown>>
    BY <1>1 DEF AppendEvent, tables
  <2>2. r.at = "publish" /\ r.obj = handler[h].obj
    BY DEF SerialInv, Inv, HandlersOK, HandlerState
  <2> HIDE DEF r
  <2>3. CASE handler[h].at = "end_append"
    BY <2>1, <2>3, IdleFollows, SameRow DEF SerialInv
  <2>4. CASE handler[h].at # "end_append"
    <3>1. handler[h].at = "append" /\ handler'[h] = r
      BY <2>1, <2>4 DEF AppendEvent
    <3>2. HandlerFollows(h)'
      BY <2>1, <2>2, <3>1 DEF HandlerFollows, Holding, SerialInv, Current
    <3> QED BY <2>1, <3>2, SameRow DEF SerialInv
  <2> QED BY <2>3, <2>4
<1>2. CASE ~handler[h].latest
  BY <1>2, ThrowFollows DEF AppendEvent, SerialInv, tables
<1> QED BY <1>1, <1>2

\* finish carries a verdict of the newest engine.
LEMMA FinishFollows ==
    ASSUME HandlersOK, NEW h \in Handlers, NEW g, NEW void,
           finish(h, Current, g, void), Current' = Current
    PROVE  HandlerFollows(h)'
<1> DEFINE r == [Idle EXCEPT !.at = "settle", !.obj = Current, !.void = void,
                             !.verdict = g.verdict]
<1>1. handler'[h] = r
  BY Suspended DEF finish
<1>2. r.at = "settle" /\ r.obj = Current
  BY IdleState DEF HandlerState
<1> HIDE DEF r
<1> QED BY <1>1, <1>2 DEF HandlerFollows, Holding

LEMMA SerialPublish ==
    ASSUME NEW h \in Handlers, SerialInv(h), Publish(h)
    PROVE  RowFollows' /\ HandlerFollows(h)'
<1>1. handler[h].obj = Current /\ Current > 0 /\ row.state = engine[Current]
  BY DEF Publish, SerialInv, HandlerFollows, Holding, Inv, HandlersOK, HandlerOK
<1>2. RowFollows' /\ Current' = Current
  BY <1>1, ShownFollows DEF Publish, SerialInv, tables, Current
<1>3. CASE engine[Current].verdict # Undecided
  <2>1. finish(h, Current, engine[Current], handler[h].void)
    BY <1>1, <1>3 DEF Publish
  <2> QED BY <1>2, <2>1, FinishFollows DEF SerialInv, Inv
<1>4. CASE engine[Current].verdict = Undecided
  BY <1>1, <1>2, <1>4, Suspended, IdleFollows DEF Publish, SerialInv, Inv
<1> QED BY <1>2, <1>3, <1>4

LEMMA SerialSettle ==
    ASSUME NEW h \in Handlers, SerialInv(h), Settle(h)
    PROVE  RowFollows' /\ HandlerFollows(h)'
<1> DEFINE r == [Idle EXCEPT !.at = "end_events", !.void = handler[h].void]
           v == handler[h].verdict
<1>1. handler'[h] = r
  BY Suspended DEF Settle, SerialInv, Inv
<1>2. r.at = "end_events"
  BY IdleState DEF HandlerState
<1> HIDE DEF r
<1>3. HandlerFollows(h)'
  BY <1>1, <1>2 DEF HandlerFollows, Holding
<1>4. v = engine[Current].verdict
  BY DEF Settle, SerialInv, HandlerFollows, Holding, Inv, HandlersOK, HandlerOK
<1>5. CASE maySettle(row)
  <2>1. /\ row'.status = "terminal" /\ row'.winner = v /\ row'.state = row.state
        /\ UNCHANGED <<engine, shown>>
    BY <1>5 DEF Settle, SerialInv, Inv, RowOK
  <2> QED BY <1>3, <1>4, <2>1 DEF RowFollows, SerialInv, further, Current
<1>6. CASE ~maySettle(row)
  BY <1>3, <1>6, SameRow DEF Settle, SerialInv, tables
<1> QED BY <1>5, <1>6

LEMMA SerialSocketCloses ==
    ASSUME NEW h \in Handlers, SerialInv(h), NEW s \in Seats, SocketCloses(h, s)
    PROVE  RowFollows' /\ HandlerFollows(h)'
<1> DEFINE r == [Idle EXCEPT !.at = "abort", !.void = TRUE, !.seat = s]
<1>1. handler'[h] = r
  BY Suspended DEF SocketCloses, SerialInv, Inv
<1>2. r.at = "abort"
  BY IdleState DEF HandlerState
<1> HIDE DEF r
<1>3. HandlerFollows(h)'
  BY <1>1, <1>2 DEF HandlerFollows, Holding
<1> QED BY <1>3, SameRow DEF SocketCloses, SerialInv, tables

\* A disconnect ends the match in the newest engine.
LEMMA ForfeitFollows ==
    ASSUME Inv, RowFollows, NEW h \in Handlers, Playing, NEW v \in Verdicts,
           NEW g, g = Closed(engine[Current], v),
           engine' = [engine EXCEPT ![Current] = g], finish(h, Current, g, TRUE),
           UNCHANGED <<row, shown>>
    PROVE  RowFollows' /\ HandlerFollows(h)'
<1>1. engine[Current] \in Game
  BY CurrentFacts DEF Inv, Playing
<1>2. g \in Game /\ g.hand = engine[Current].hand /\ g.seq = engine[Current].seq
  BY <1>1, ClosedIsGame, ClosedIsLevel
<1>3. RowFollows' /\ Current' = Current
  BY <1>2, PlayFollows
<1> QED BY <1>3, FinishFollows DEF Inv

LEMMA SerialHandleDisconnect ==
    ASSUME NEW h \in Handlers, SerialInv(h), HandleDisconnect(h)
    PROVE  RowFollows' /\ HandlerFollows(h)'
<1> DEFINE s == handler[h].seat
           v == IF offline(Other(s)) THEN Nobody ELSE Other(s)
           g == Closed(engine[Current], v)
<1>1. s \in Seats /\ UNCHANGED <<row, shown>>
  BY DEF HandleDisconnect, SerialInv, Inv, HandlersOK, HandlerOK, tables
<1>2. CASE Playing /\ forLong(s)
  <2>1. v \in Verdicts
    BY <1>1, SeatFacts
  <2>2. engine' = [engine EXCEPT ![Current] = g] /\ finish(h, Current, g, TRUE)
    BY <1>2 DEF HandleDisconnect
  <2> HIDE DEF v
  <2> QED BY <1>1, <1>2, <2>1, <2>2, ForfeitFollows DEF SerialInv
<1>3. CASE ~(Playing /\ forLong(s))
  <2>1. suspend(h, Idle) /\ UNCHANGED engine
    BY <1>3 DEF HandleDisconnect, clocks
  <2> QED BY <1>1, <2>1, Suspended, IdleFollows, SameRow DEF SerialInv, Inv
<1> QED BY <1>2, <1>3

LEMMA SerialEvaluateDisconnect ==
    ASSUME NEW h \in Handlers, SerialInv(h), EvaluateDisconnect(h)
    PROVE  RowFollows' /\ HandlerFollows(h)'
<1>1. UNCHANGED <<row, shown>>
  BY DEF EvaluateDisconnect, tables
<1>2. CASE Playing /\ graceVerdicts # {}
  <2>1. PICK v \in graceVerdicts :
          LET g == Closed(engine[Current], v) IN
          /\ engine' = [engine EXCEPT ![Current] = g]
          /\ finish(h, Current, g, TRUE)
    BY <1>2 DEF EvaluateDisconnect
  <2>2. v \in Verdicts
    BY SeatFacts DEF graceVerdicts
  <2> QED BY <1>1, <1>2, <2>1, <2>2, ForfeitFollows DEF SerialInv
<1>3. CASE ~(Playing /\ graceVerdicts # {})
  <2>1. UNCHANGED <<engine, handler>>
    BY <1>3 DEF EvaluateDisconnect
  <2>2. HandlerFollows(h)'
    BY <1>1, <2>1 DEF HandlerFollows, SerialInv, Current
  <2> QED BY <1>1, <2>1, <2>2, SameRow DEF SerialInv
<1> QED BY <1>2, <1>3

LEMMA SerialQuiet ==
    ASSUME NEW h \in Handlers, SerialInv(h), UNCHANGED <<row, engine, shown, handler>>
    PROVE  RowFollows' /\ HandlerFollows(h)'
<1>1. HandlerFollows(h)'
  BY DEF HandlerFollows, SerialInv, Current
<1> QED BY <1>1, SameRow DEF SerialInv

LEMMA SerialInit ==
    ASSUME NEW h \in Handlers, Init
    PROVE  SerialInv(h)
<1>1. Inv
  BY InitInv
<1>2. Current = 0 /\ handler[h] = Idle
  BY DEF Init, Current
<1>3. HandlerFollows(h)
  BY <1>2, IdleState DEF HandlerFollows, Holding
<1>4. RowFollows
  BY <1>2 DEF Init, RowFollows, further, NoGame
<1> QED BY <1>1, <1>3, <1>4 DEF SerialInv

LEMMA SerialStep ==
    ASSUME NEW h, Handlers = {h}, SerialInv(h), [Next]_vars
    PROVE  SerialInv(h)'
<1>1. Inv'
  BY NextInv DEF SerialInv
<1>2. h \in Handlers
  OBVIOUS
<1>3. CASE HandlerStep(h)
  BY <1>2, <1>3, SerialEntropySave, SerialDealFirst, SerialDealSave,
     SerialDealPublish, SerialTimeoutStarts, SerialMatchRead, SerialSubmitAction,
     SerialTimeoutSeat, SerialDealNextHand, SerialSaveState, SerialListEvents,
     SerialAppendEvent, SerialPublish, SerialSettle, SerialHandleDisconnect, <1>1
     DEF HandlerStep, SerialInv
<1>4. CASE \/ ActionArrives(h) \/ ActionDue(h) \/ EvaluateDisconnect(h)
           \/ \E s \in Seats : EntropyArrives(h, s) \/ SocketCloses(h, s)
  BY <1>1, <1>2, <1>4, SerialActionArrives, SerialActionDue,
     SerialEvaluateDisconnect, SerialEntropyArrives, SerialSocketCloses
     DEF SerialInv
<1>5. CASE StoreFails(h)
  BY <1>1, <1>2, <1>5, ThrowFollows DEF SerialInv, StoreFails, tables
<1>6. CASE Crash
  BY <1>1, <1>2, <1>6, RestartFollows DEF SerialInv, Crash, tables
<1>7. CASE UNCHANGED <<row, engine, shown, handler>>
  BY <1>1, <1>2, <1>7, SerialQuiet DEF SerialInv
<1>8. ASSUME \/ \E s \in Seats : Returns(s) \/ FallsSilent(s) \/ GraceEnds(s)
             \/ UNCHANGED vars
      PROVE  UNCHANGED <<row, engine, shown, handler>>
  BY <1>8 DEF Returns, FallsSilent, GraceEnds, vars, tables
<1> QED BY <1>3, <1>4, <1>5, <1>6, <1>7, <1>8 DEF Next

\* One handler at a time, through crashes, restarts and queries that fail: the
\* row is never behind what was sent, and nothing plays on or is judged anew
\* once the match is settled (arena.ts persistAndPublish, restoreLive).
THEOREM TablesKeepUp ==
    ASSUME NEW h, Handlers = {h}
    PROVE  Spec => []TablesFollowPlay
<1>1. Init => SerialInv(h)
  BY SerialInit
<1>2. SerialInv(h) /\ [Next]_vars => SerialInv(h)'
  BY SerialStep
<1>3. SerialInv(h) => TablesFollowPlay
  BY DEF SerialInv, RowFollows, TablesFollowPlay, ShownIsSaved, SettledAsPlayed
<1> QED BY <1>1, <1>2, <1>3, PTL DEF Spec
------------------------------------------------------------------------------
(***************************************************************************)
(* The timer of the decision that waits.  While a handler that took it     *)
(* out of Redis is suspended, it still knows which decision it was; a      *)
(* query that fails would lose it, so the theorem assumes none does.       *)
(***************************************************************************)

PlayIsLive(h) ==
    LET r == handler[h] IN
    /\ Playing /\ r.at # "deal_save" => row.status = "live"
    /\ r.at \in {"settle", "end_events", "end_append"} => ~Playing
    /\ r.at = "next_hand" => engine[Current].over
    /\ r.at = "append" => r.latest
    /\ r.at = "act" /\ Playing => r.live

Waits == Playing /\ engine[Current].toAct # Nobody

\* The awaits of a handler that has not touched the timer.
Untimed(r) ==
    \/ r.at \in {"idle", "entropy_save", "entropy_check", "abort"}
    \/ r.at \in {"row", "act"} /\ ~r.void

TimerFollows(h) ==
    LET r == handler[h] IN
    Waits =>
        /\ Untimed(r) => action = scheduled(engine[Current])
        /\ r.at = "seq" => action.seq = engine[Current].seq
        /\ r.at \in {"row", "act"} /\ r.void => r.seq = engine[Current].seq

TimedInv(h) == SerialInv(h) /\ PlayIsLive(h) /\ TimerFollows(h)

\* A handler that ends leaves the timer to the decision that waits.
LEMMA IdleTimed ==
    ASSUME NEW h \in Handlers, handler'[h] = Idle,
           Playing' => row'.status = "live",
           Waits' => (action = scheduled(engine[Current]))'
    PROVE  PlayIsLive(h)' /\ TimerFollows(h)'
BY IdleState DEF PlayIsLive, TimerFollows

LEMMA SamePlay ==
    ASSUME UNCHANGED engine
    PROVE  /\ Playing' = Playing /\ Waits' = Waits /\ Current' = Current
           /\ engine'[Current'] = engine[Current]
           /\ scheduled(engine[Current])' = scheduled(engine[Current])
BY DEF Playing, Waits, Current, scheduled

LEMMA ScheduledSeq ==
    ASSUME NEW g
    PROVE  scheduled(g).seq = g.seq
BY DEF scheduled

LEMMA PlayingIsUndecided ==
    ASSUME Inv, Waits
    PROVE  ~engine[Current].over
BY CurrentFacts DEF Inv, Waits, Playing, WellFormed

\* The process comes back to a match that is played, with its timer.
LEMMA RestartTimed ==
    ASSUME NEW h \in Handlers, Inv, RowFollows, Restart, UNCHANGED row
    PROVE  PlayIsLive(h)' /\ TimerFollows(h)'
<1>1. handler'[h] = Idle
  BY DEF Restart
<1>2. CASE restores(row)
  <2>1. Current' = 1 /\ engine'[1] = row.state
    BY <1>2 DEF Restart, Current
  <2>2. row.status = "live"
    BY <1>2 DEF RowFollows, restores, Inv, RowOK
  <2>3. Waits' => (action = scheduled(engine[Current]))'
    BY <1>2, <2>1 DEF Restart, Waits, scheduled
  <2> QED BY <1>1, <2>2, <2>3, IdleTimed
<1>3. CASE ~restores(row)
  <2>1. ~Playing' /\ ~Waits'
    BY <1>3 DEF Restart, Playing, Current, Waits
  <2> QED BY <1>1, <2>1, IdleTimed
<1> QED BY <1>2, <1>3

LEMMA TimedEntropyArrives ==
    ASSUME NEW h \in Handlers, TimedInv(h), NEW s \in Seats, EntropyArrives(h, s)
    PROVE  PlayIsLive(h)' /\ TimerFollows(h)'
<1> DEFINE r == [Idle EXCEPT !.at = "entropy_save", !.seat = s]
<1>1. r.at = "entropy_save" /\ Untimed(handler[h]) /\ handler[h].at = "idle"
  BY IdleState DEF HandlerState, Untimed, EntropyArrives
<1>2. handler'[h] = r
  BY Suspended DEF EntropyArrives, TimedInv, SerialInv, Inv
<1> HIDE DEF r
<1> QED BY <1>1, <1>2, SamePlay
        DEF EntropyArrives, TimedInv, PlayIsLive, TimerFollows, tables, clocks

LEMMA TimedEntropySave ==
    ASSUME NEW h \in Handlers, TimedInv(h), EntropySave(h)
    PROVE  PlayIsLive(h)' /\ TimerFollows(h)'
<1> DEFINE r == [Idle EXCEPT !.at = "entropy_check"]
<1>1. r.at = "entropy_check" /\ Untimed(handler[h])
  BY IdleState DEF HandlerState, Untimed, EntropySave
<1>2. handler'[h] = r
  BY Suspended DEF EntropySave, TimedInv, SerialInv, Inv
<1> HIDE DEF r
<1>3. row'.status = row.status
  BY DEF EntropySave, TimedInv, SerialInv, Inv, RowOK
<1> QED BY <1>1, <1>2, <1>3, SamePlay
        DEF EntropySave, TimedInv, PlayIsLive, TimerFollows, clocks

LEMMA TimedDealFirst ==
    ASSUME NEW h \in Handlers, TimedInv(h), DealFirst(h)
    PROVE  PlayIsLive(h)' /\ TimerFollows(h)'
<1>1. CASE row.entropy = Seats
  <2> DEFINE o == Current + 1
             r == [Idle EXCEPT !.at = "deal_save", !.obj = o, !.game = FirstHand]
  <2>1. handler'[h] = r
    BY <1>1, Suspended DEF DealFirst, TimedInv, SerialInv, Inv
  <2>2. r.at = "deal_save"
    BY IdleState DEF HandlerState
  <2> HIDE DEF r
  <2> QED BY <2>1, <2>2 DEF PlayIsLive, TimerFollows, Untimed
<1>2. CASE row.entropy # Seats
  <2>1. handler'[h] = Idle /\ Untimed(handler[h]) /\ handler[h].at # "deal_save"
    BY <1>2, Suspended DEF DealFirst, TimedInv, SerialInv, Inv, Untimed
  <2> QED BY <1>2, <2>1, SamePlay, IdleTimed
          DEF DealFirst, TimedInv, PlayIsLive, TimerFollows, tables, clocks
<1> QED BY <1>1, <1>2

LEMMA TimedDealSave ==
    ASSUME NEW h \in Handlers, TimedInv(h), DealSave(h)
    PROVE  PlayIsLive(h)' /\ TimerFollows(h)'
<1> DEFINE r == [handler[h] EXCEPT !.at = "deal_publish", !.game = NoGame]
<1>1. r.at = "deal_publish"
  BY DEF TimedInv, SerialInv, Inv, HandlersOK, HandlerState
<1>2. handler'[h] = r
  BY Suspended DEF DealSave, TimedInv, SerialInv, Inv
<1> HIDE DEF r
<1>3. row'.status = "live"
  BY DEF DealSave, TimedInv, SerialInv, Inv, RowOK
<1> QED BY <1>1, <1>2, <1>3 DEF PlayIsLive, TimerFollows, Untimed

LEMMA TimedDealPublish ==
    ASSUME NEW h \in Handlers, TimedInv(h), DealPublish(h)
    PROVE  PlayIsLive(h)' /\ TimerFollows(h)'
<1>1. handler'[h] = Idle
  BY Suspended DEF DealPublish, TimedInv, SerialInv, Inv
<1>2. handler[h].obj = Current
  BY DEF DealPublish, TimedInv, SerialInv, HandlerFollows, Holding
<1>3. Waits' => (action = scheduled(engine[Current]))'
  BY <1>2, SamePlay DEF DealPublish, Waits
<1>4. Playing' => row'.status = "live"
  BY SamePlay DEF DealPublish, TimedInv, PlayIsLive, tables
<1> QED BY <1>1, <1>3, <1>4, IdleTimed

LEMMA TimedActionArrives ==
    ASSUME NEW h \in Handlers, TimedInv(h), ActionArrives(h)
    PROVE  PlayIsLive(h)' /\ TimerFollows(h)'
<1> DEFINE g == engine[Current]
           r == [Idle EXCEPT !.at = "row", !.obj = Current, !.seat = g.toAct,
                             !.hand = g.hand, !.seq = g.seq]
<1>1. r.at = "row" /\ ~r.void
  BY IdleState DEF HandlerState
<1>2. handler[h].at = "idle" /\ Untimed(handler[h])
  BY IdleState DEF Untimed, ActionArrives
<1>3. handler'[h] = r
  BY Suspended DEF ActionArrives, TimedInv, SerialInv, Inv
<1> HIDE DEF r
<1> QED BY <1>1, <1>2, <1>3, SamePlay
        DEF ActionArrives, TimedInv, PlayIsLive, TimerFollows, tables, clocks

LEMMA TimedActionDue ==
    ASSUME NEW h \in Handlers, TimedInv(h), ActionDue(h)
    PROVE  PlayIsLive(h)' /\ TimerFollows(h)'
<1> DEFINE r == [Idle EXCEPT !.at = "seq", !.void = TRUE]
<1>1. r.at = "seq"
  BY IdleState DEF HandlerState
<1>2. handler[h].at = "idle" /\ Untimed(handler[h])
  BY IdleState DEF Untimed, ActionDue
<1>3. handler'[h] = r
  BY Suspended DEF ActionDue, TimedInv, SerialInv, Inv
<1> HIDE DEF r
<1>4. action'.seq = action.seq
  BY DEF ActionDue, TimedInv, SerialInv, Inv, ClocksOK
<1>5. Waits => action.seq = engine[Current].seq
  BY <1>2, ScheduledSeq DEF TimedInv, TimerFollows
<1>6. PlayIsLive(h)'
  BY <1>1, <1>2, <1>3, SamePlay DEF ActionDue, TimedInv, PlayIsLive, tables
<1>7. TimerFollows(h)'
  BY <1>1, <1>3, <1>4, <1>5, SamePlay DEF ActionDue, TimerFollows, Untimed
<1> QED BY <1>6, <1>7

LEMMA TimedTimeoutStarts ==
    ASSUME NEW h \in Handlers, TimedInv(h), TimeoutStarts(h)
    PROVE  PlayIsLive(h)' /\ TimerFollows(h)'
<1> DEFINE r == [handler[h] EXCEPT !.at = "row", !.obj = Current, !.seq = action.seq]
<1>1. handler[h].void
  BY DEF TimeoutStarts, TimedInv, SerialInv, Inv, HandlersOK, HandlerOK
<1>2. r.at = "row" /\ r.seq = action.seq /\ r.void
  BY <1>1 DEF TimedInv, SerialInv, Inv, HandlersOK, HandlerState
<1>3. handler'[h] = r
  BY Suspended DEF TimeoutStarts, TimedInv, SerialInv, Inv
<1> HIDE DEF r
<1>4. PlayIsLive(h)'
  BY <1>2, <1>3, SamePlay DEF TimeoutStarts, TimedInv, PlayIsLive, tables
<1>5. TimerFollows(h)'
  BY <1>2, <1>3, SamePlay DEF TimeoutStarts, TimedInv, TimerFollows, Untimed
<1> QED BY <1>4, <1>5

LEMMA TimedMatchRead ==
    ASSUME NEW h \in Handlers, TimedInv(h), MatchRead(h)
    PROVE  PlayIsLive(h)' /\ TimerFollows(h)'
<1> DEFINE live == row.status = "live"
           r == [handler[h] EXCEPT !.at = "act", !.live = live]
<1>1. handler'[h] = r
  BY Suspended DEF MatchRead, TimedInv, SerialInv, Inv
<1>2. Playing => live
  BY DEF MatchRead, TimedInv, PlayIsLive
<1> HIDE DEF live
<1>3. r.at = "act" /\ r.live = live /\ r.void = handler[h].void
      /\ r.seq = handler[h].seq
  BY DEF TimedInv, SerialInv, Inv, HandlersOK, HandlerState
<1> HIDE DEF r
<1>4. PlayIsLive(h)'
  BY <1>1, <1>2, <1>3, SamePlay DEF MatchRead, TimedInv, PlayIsLive, tables
<1>5. TimerFollows(h)'
  BY <1>1, <1>3, SamePlay
     DEF MatchRead, TimedInv, TimerFollows, Untimed, clocks
<1> QED BY <1>4, <1>5

\* A handler that plays on rearms the timer only when it publishes.
LEMMA TimedPlays ==
    ASSUME NEW h \in Handlers, TimedInv(h), handler[h].at = "act",
           handler[h].obj > 0, engine[handler[h].obj].toAct # Nobody, plays(h),
           UNCHANGED row
    PROVE  PlayIsLive(h)' /\ TimerFollows(h)'
<1>1. handler[h].obj = Current /\ Current \in 1..Len(engine)
      /\ engine[Current] \in Game /\ WellFormed(engine[Current])
  BY CurrentFacts DEF TimedInv, SerialInv, HandlerFollows, Inv
<1>2. row.status = "live"
  BY <1>1 DEF Playing, WellFormed, TimedInv, PlayIsLive
<1>3. PICK g \in Played(engine[Current]) :
        /\ engine' = [engine EXCEPT ![Current] = g]
        /\ suspend(h, [Idle EXCEPT
              !.at = IF g.over /\ g.verdict = Undecided THEN "next_hand"
                     ELSE "save",
              !.void = handler[h].void, !.obj = Current, !.game = g])
  BY <1>1 DEF plays
<1>4. Current' = Current /\ engine'[Current'] = g
  BY <1>1, <1>3 DEF TimedInv, SerialInv, Inv, HandlersOK, EngineOK, Current
<1> DEFINE next == IF g.over /\ g.verdict = Undecided THEN "next_hand" ELSE "save"
           r == [Idle EXCEPT !.at = next, !.void = handler[h].void,
                             !.obj = Current, !.game = g]
<1>5. handler'[h] = r
  BY <1>3, Suspended DEF TimedInv, SerialInv, Inv
<1>6. next \in {"next_hand", "save"} /\ (next = "next_hand" => g.over)
  OBVIOUS
<1> HIDE DEF next
<1>7. r.at = next
  BY IdleState DEF HandlerState
<1> HIDE DEF r
<1> QED BY <1>2, <1>4, <1>5, <1>6, <1>7 DEF PlayIsLive, TimerFollows, Untimed

LEMMA TimedSubmitAction ==
    ASSUME NEW h \in Handlers, TimedInv(h), SubmitAction(h)
    PROVE  PlayIsLive(h)' /\ TimerFollows(h)'
<1>1. CASE actionAccepted(h)
  <2>1. handler[h].obj > 0 /\ handler[h].seat \in Seats
    BY DEF SubmitAction, TimedInv, SerialInv, Inv, HandlersOK, HandlerOK
  <2>2. plays(h) /\ engine[handler[h].obj].toAct # Nobody
    BY <1>1, <2>1, SeatFacts DEF SubmitAction, actionAccepted
  <2> QED BY <2>1, <2>2, TimedPlays DEF SubmitAction, tables
<1>2. CASE ~actionAccepted(h)
  <2>1. handler'[h] = Idle /\ Untimed(handler[h]) /\ handler[h].at # "deal_save"
    BY <1>2, Suspended DEF SubmitAction, TimedInv, SerialInv, Inv, Untimed
  <2> QED BY <1>2, <2>1, SamePlay, IdleTimed
          DEF SubmitAction, TimedInv, PlayIsLive, TimerFollows, tables, clocks
<1> QED BY <1>1, <1>2

\* A clock that rings for the decision that waits is never turned down.
LEMMA TimedTimeoutSeat ==
    ASSUME NEW h \in Handlers, TimedInv(h), TimeoutSeat(h)
    PROVE  PlayIsLive(h)' /\ TimerFollows(h)'
<1>1. CASE timeoutStands(h)
  BY <1>1, TimedPlays DEF TimeoutSeat, timeoutStands, tables
<1>2. CASE ~timeoutStands(h)
  <2>1. handler'[h] = Idle /\ UNCHANGED <<row, engine>>
    BY <1>2, Suspended DEF TimeoutSeat, TimedInv, SerialInv, Inv, tables
  <2>2. handler[h].obj = Current /\ handler[h].at = "act" /\ handler[h].void
    BY DEF TimeoutSeat, TimedInv, SerialInv, HandlerFollows
  <2>3. ~Waits
    BY <1>2, <2>2 DEF timeoutStands, Waits, Playing, TimedInv, PlayIsLive,
                      TimerFollows
  <2>4. Playing => row.status = "live"
    BY <2>2 DEF TimedInv, PlayIsLive
  <2> QED BY <2>1, <2>3, <2>4, SamePlay, IdleTimed
<1> QED BY <1>1, <1>2

LEMMA TimedDealNextHand ==
    ASSUME NEW h \in Handlers, TimedInv(h), DealNextHand(h)
    PROVE  PlayIsLive(h)' /\ TimerFollows(h)'
<1>1. handler[h].obj = Current /\ Current \in 1..Len(engine)
      /\ engine[Current] \in Game /\ engine[Current].over
  BY CurrentFacts DEF DealNextHand, TimedInv, SerialInv, HandlerFollows, Holding,
                      Inv, HandlersOK, HandlerOK, PlayIsLive
<1>2. CASE mayDeal(engine[Current])
  <2>1. PICK g \in NextHands(engine[Current]) :
          /\ engine' = [engine EXCEPT ![Current] = g]
          /\ suspend(h, [handler[h] EXCEPT !.at = "save", !.game = g])
    BY <1>1, <1>2 DEF DealNextHand
  <2>2. row.status = "live" /\ UNCHANGED row
    <3>1. Playing
      BY <1>1, <1>2 DEF mayDeal, Playing
    <3>2. handler[h].at = "next_hand"
      BY DEF DealNextHand
    <3>3. row.status = "live"
      BY <3>1, <3>2 DEF TimedInv, PlayIsLive
    <3>4. UNCHANGED row
      BY DEF DealNextHand, tables
    <3> QED BY <3>3, <3>4
  <2> DEFINE r == [handler[h] EXCEPT !.at = "save", !.game = g]
  <2>3. handler'[h] = r
    BY <2>1, Suspended DEF TimedInv, SerialInv, Inv
  <2>4. r.at = "save"
    BY DEF TimedInv, SerialInv, Inv, HandlersOK, HandlerState
  <2> HIDE DEF r
  <2> QED BY <2>2, <2>3, <2>4 DEF PlayIsLive, TimerFollows, Untimed
<1>3. CASE ~mayDeal(engine[Current])
  <2>1. ~Playing
    BY <1>1, <1>3 DEF mayDeal, Playing
  <2>2. Throw(h) /\ UNCHANGED row
    BY <1>1, <1>3 DEF DealNextHand, tables
  <2>3. CASE handler[h].void
    BY <2>2, <2>3, RestartTimed DEF Throw, TimedInv, SerialInv
  <2>4. CASE ~handler[h].void
    <3>1. handler'[h] = Idle /\ UNCHANGED engine
      BY <2>2, <2>4, Suspended DEF Throw, TimedInv, SerialInv, Inv
    <3> QED BY <2>1, <3>1, SamePlay, IdleTimed DEF Waits
  <2> QED BY <2>3, <2>4
<1> QED BY <1>2, <1>3

LEMMA TimedSaveState ==
    ASSUME NEW h \in Handlers, TimedInv(h), SaveState(h)
    PROVE  PlayIsLive(h)' /\ TimerFollows(h)'
<1> DEFINE r == [handler[h] EXCEPT !.at = "events", !.game = NoGame]
<1>1. r.at = "events"
  BY DEF TimedInv, SerialInv, Inv, HandlersOK, HandlerState
<1>2. handler'[h] = r
  BY Suspended DEF SaveState, TimedInv, SerialInv, Inv
<1> HIDE DEF r
<1>3. handler[h].game = engine[Current]
  BY DEF SaveState, TimedInv, SerialInv, HandlerFollows
<1>4. Playing => row'.status = "live"
  BY <1>3 DEF SaveState, Playing, TimedInv, SerialInv, Inv, RowOK
<1> QED BY <1>1, <1>2, <1>4, SamePlay DEF SaveState, PlayIsLive, TimerFollows, Untimed

LEMMA TimedListEvents ==
    ASSUME NEW h \in Handlers, TimedInv(h), ListEvents(h)
    PROVE  PlayIsLive(h)' /\ TimerFollows(h)'
<1> DEFINE next == IF handler[h].at = "events" THEN "append" ELSE "end_append"
           r == [handler[h] EXCEPT !.at = next, !.latest = TRUE]
<1>1. /\ next \in {"append", "end_append"}
      /\ next = "end_append" => handler[h].at = "end_events"
  BY DEF ListEvents
<1>2. handler'[h] = r
  <2>1. suspend(h, r)
    BY DEF ListEvents, TimedInv, SerialInv, Inv, HandlersOK, HandlerState
  <2> QED BY <2>1, Suspended DEF TimedInv, SerialInv, Inv
<1> HIDE DEF next
<1>3. r.at = next /\ r.latest
  BY DEF TimedInv, SerialInv, Inv, HandlersOK, HandlerState
<1> HIDE DEF r
<1>4. Playing => row.status = "live"
  BY DEF ListEvents, TimedInv, PlayIsLive
<1>5. next = "end_append" => ~Playing
  BY <1>1 DEF TimedInv, PlayIsLive
<1> QED BY <1>1, <1>2, <1>3, <1>4, <1>5, SamePlay
        DEF ListEvents, PlayIsLive, TimerFollows, Untimed, tables

LEMMA TimedAppendEvent ==
    ASSUME NEW h \in Handlers, TimedInv(h), AppendEvent(h)
    PROVE  PlayIsLive(h)' /\ TimerFollows(h)'
<1>0. Playing => row.status = "live"
  BY DEF AppendEvent, TimedInv, PlayIsLive
<1>1. CASE handler[h].at = "append"
  <2> DEFINE r == [handler[h] EXCEPT !.at = "publish", !.latest = FALSE]
  <2>1. handler[h].latest
    BY <1>1 DEF TimedInv, PlayIsLive
  <2>2. handler'[h] = r /\ UNCHANGED <<row, engine>>
    BY <1>1, <2>1 DEF AppendEvent, tables
  <2>3. r.at = "publish"
    BY DEF TimedInv, SerialInv, Inv, HandlersOK, HandlerState
  <2> HIDE DEF r
  <2> QED BY <1>0, <2>2, <2>3, SamePlay DEF PlayIsLive, TimerFollows, Untimed
<1>2. CASE handler[h].at = "end_append"
  <2>1. ~Playing
    BY <1>2 DEF TimedInv, PlayIsLive
  <2>2. CASE handler[h].latest
    <3>1. handler'[h] = Idle /\ UNCHANGED engine
      BY <1>2, <2>2 DEF AppendEvent
    <3> QED BY <2>1, <3>1, SamePlay, IdleTimed DEF Waits
  <2>3. CASE ~handler[h].latest /\ handler[h].void
    BY <2>3, RestartTimed DEF AppendEvent, Throw, TimedInv, SerialInv, tables
  <2>4. CASE ~handler[h].latest /\ ~handler[h].void
    <3>1. handler'[h] = Idle /\ UNCHANGED engine
      BY <2>4, Suspended DEF AppendEvent, Throw, TimedInv, SerialInv, Inv
    <3> QED BY <2>1, <3>1, SamePlay, IdleTimed DEF Waits
  <2> QED BY <2>2, <2>3, <2>4
<1> QED BY <1>1, <1>2 DEF AppendEvent

LEMMA FinishTimed ==
    ASSUME HandlersOK, NEW h \in Handlers, NEW o, NEW g, NEW void,
           finish(h, o, g, void), ~Playing'
    PROVE  PlayIsLive(h)' /\ TimerFollows(h)'
<1> DEFINE r == [Idle EXCEPT !.at = "settle", !.obj = o, !.void = void,
                             !.verdict = g.verdict]
<1>1. handler'[h] = r
  BY Suspended DEF finish
<1>2. r.at = "settle"
  BY IdleState DEF HandlerState
<1> HIDE DEF r
<1> QED BY <1>1, <1>2 DEF PlayIsLive, TimerFollows, Waits

LEMMA TimedPublish ==
    ASSUME NEW h \in Handlers, TimedInv(h), Publish(h)
    PROVE  PlayIsLive(h)' /\ TimerFollows(h)'
<1>1. handler[h].obj = Current /\ UNCHANGED <<row, engine>>
  BY DEF Publish, TimedInv, SerialInv, HandlerFollows, Holding, tables
<1>2. CASE engine[Current].verdict # Undecided
  <2>1. finish(h, Current, engine[Current], handler[h].void)
    BY <1>1, <1>2 DEF Publish
  <2>2. ~Playing'
    BY <1>1, <1>2, SamePlay DEF Playing
  <2> QED BY <2>1, <2>2, FinishTimed DEF TimedInv, SerialInv, Inv
<1>3. CASE engine[Current].verdict = Undecided
  <2>1. handler'[h] = Idle /\ rearms(engine[Current])
    BY <1>1, <1>3, Suspended DEF Publish, TimedInv, SerialInv, Inv
  <2>2. Waits => action' = scheduled(engine[Current])
    BY <2>1 DEF rearms, Waits
  <2>3. Playing => row.status = "live"
    BY DEF Publish, TimedInv, PlayIsLive
  <2> QED BY <1>1, <2>1, <2>2, <2>3, SamePlay, IdleTimed
<1> QED BY <1>2, <1>3

LEMMA TimedSettle ==
    ASSUME NEW h \in Handlers, TimedInv(h), Settle(h)
    PROVE  PlayIsLive(h)' /\ TimerFollows(h)'
<1> DEFINE r == [Idle EXCEPT !.at = "end_events", !.void = handler[h].void]
<1>1. handler'[h] = r
  BY Suspended DEF Settle, TimedInv, SerialInv, Inv
<1>2. r.at = "end_events"
  BY IdleState DEF HandlerState
<1> HIDE DEF r
<1>3. ~Playing /\ UNCHANGED engine
  BY DEF Settle, TimedInv, PlayIsLive
<1> QED BY <1>1, <1>2, <1>3, SamePlay DEF PlayIsLive, TimerFollows, Waits

LEMMA TimedSocketCloses ==
    ASSUME NEW h \in Handlers, TimedInv(h), NEW s \in Seats, SocketCloses(h, s)
    PROVE  PlayIsLive(h)' /\ TimerFollows(h)'
<1> DEFINE r == [Idle EXCEPT !.at = "abort", !.void = TRUE, !.seat = s]
<1>1. r.at = "abort" /\ handler[h].at = "idle" /\ Untimed(handler[h])
  BY IdleState DEF HandlerState, Untimed, SocketCloses
<1>2. handler'[h] = r
  BY Suspended DEF SocketCloses, TimedInv, SerialInv, Inv
<1> HIDE DEF r
<1> QED BY <1>1, <1>2, SamePlay
        DEF SocketCloses, TimedInv, PlayIsLive, TimerFollows, tables, clocks

\* A match that a disconnect ends waits for nobody.
LEMMA ForfeitTimed ==
    ASSUME Inv, NEW h \in Handlers, Playing, NEW v \in Seats \cup {Nobody},
           NEW g, g = Closed(engine[Current], v),
           engine' = [engine EXCEPT ![Current] = g], finish(h, Current, g, TRUE)
    PROVE  PlayIsLive(h)' /\ TimerFollows(h)'
<1>1. Current \in 1..Len(engine) /\ engine[Current] \in Game
  BY CurrentFacts DEF Inv, Playing
<1>2. v \in Verdicts /\ v # Undecided
  BY SeatFacts DEF Verdicts
<1>3. g.verdict # Undecided
  BY <1>1, <1>2, ClosedIsGame
<1>4. Current' = Current /\ engine'[Current] = g
  BY <1>1 DEF Inv, HandlersOK, EngineOK, Current
<1>5. ~Playing'
  BY <1>3, <1>4 DEF Playing
<1> QED BY <1>5, FinishTimed DEF Inv

LEMMA TimedHandleDisconnect ==
    ASSUME NEW h \in Handlers, TimedInv(h), HandleDisconnect(h)
    PROVE  PlayIsLive(h)' /\ TimerFollows(h)'
<1> DEFINE s == handler[h].seat
           v == IF offline(Other(s)) THEN Nobody ELSE Other(s)
           g == Closed(engine[Current], v)
<1>1. s \in Seats /\ UNCHANGED row
  BY DEF HandleDisconnect, TimedInv, SerialInv, Inv, HandlersOK, HandlerOK, tables
<1>2. CASE Playing /\ forLong(s)
  <2>1. v \in Seats \cup {Nobody}
    BY <1>1, SeatFacts
  <2>2. engine' = [engine EXCEPT ![Current] = g] /\ finish(h, Current, g, TRUE)
    BY <1>2 DEF HandleDisconnect
  <2> HIDE DEF v
  <2> QED BY <1>2, <2>1, <2>2, ForfeitTimed DEF TimedInv, SerialInv
<1>3. CASE ~(Playing /\ forLong(s))
  <2>1. suspend(h, Idle) /\ UNCHANGED <<engine, action>>
    BY <1>3 DEF HandleDisconnect, clocks
  <2>2. handler'[h] = Idle /\ Untimed(handler[h]) /\ handler[h].at # "deal_save"
    BY <2>1, Suspended DEF HandleDisconnect, TimedInv, SerialInv, Inv, Untimed
  <2> QED BY <1>1, <2>1, <2>2, SamePlay, IdleTimed
          DEF TimedInv, PlayIsLive, TimerFollows
<1> QED BY <1>2, <1>3

LEMMA TimedEvaluateDisconnect ==
    ASSUME NEW h \in Handlers, TimedInv(h), EvaluateDisconnect(h)
    PROVE  PlayIsLive(h)' /\ TimerFollows(h)'
<1>1. CASE Playing /\ graceVerdicts # {}
  <2>1. PICK v \in graceVerdicts :
          LET g == Closed(engine[Current], v) IN
          /\ engine' = [engine EXCEPT ![Current] = g]
          /\ finish(h, Current, g, TRUE)
    BY <1>1 DEF EvaluateDisconnect
  <2>2. v \in Seats \cup {Nobody}
    BY SeatFacts DEF graceVerdicts
  <2> QED BY <1>1, <2>1, <2>2, ForfeitTimed DEF TimedInv, SerialInv
<1>2. CASE ~(Playing /\ graceVerdicts # {})
  <2>1. UNCHANGED <<row, engine, action, handler>>
    BY <1>2 DEF EvaluateDisconnect, tables
  <2> QED BY <2>1, SamePlay DEF TimedInv, PlayIsLive, TimerFollows
<1> QED BY <1>1, <1>2

LEMMA TimedStep ==
    ASSUME NEW h, Handlers = {h}, "store" \notin Faults, TimedInv(h), [Next]_vars
    PROVE  TimedInv(h)'
<1>1. SerialInv(h)'
  BY SerialStep DEF TimedInv
<1>2. h \in Handlers
  OBVIOUS
<1>3. CASE HandlerStep(h)
  BY <1>1, <1>2, <1>3, TimedEntropySave, TimedDealFirst, TimedDealSave,
     TimedDealPublish, TimedTimeoutStarts, TimedMatchRead, TimedSubmitAction,
     TimedTimeoutSeat, TimedDealNextHand, TimedSaveState, TimedListEvents,
     TimedAppendEvent, TimedPublish, TimedSettle, TimedHandleDisconnect
     DEF HandlerStep, TimedInv
<1>4. CASE \/ ActionArrives(h) \/ ActionDue(h) \/ EvaluateDisconnect(h)
           \/ \E s \in Seats : EntropyArrives(h, s) \/ SocketCloses(h, s)
  BY <1>1, <1>2, <1>4, TimedActionArrives, TimedActionDue,
     TimedEvaluateDisconnect, TimedEntropyArrives, TimedSocketCloses
     DEF TimedInv
<1>5. ~StoreFails(h)
  BY DEF StoreFails
<1>6. CASE Crash
  BY <1>1, <1>2, <1>6, RestartTimed DEF TimedInv, SerialInv, Crash, tables
<1>7. CASE UNCHANGED <<row, engine, action, handler>>
  BY <1>1, <1>2, <1>7, SamePlay DEF TimedInv, PlayIsLive, TimerFollows
<1>8. ASSUME \/ \E s \in Seats : Returns(s) \/ FallsSilent(s) \/ GraceEnds(s)
             \/ UNCHANGED vars
      PROVE  UNCHANGED <<row, engine, action, handler>>
  BY <1>8 DEF Returns, FallsSilent, GraceEnds, vars, tables, clocks
<1> QED BY <1>3, <1>4, <1>5, <1>6, <1>7, <1>8 DEF Next

\* One handler at a time and no query that fails: the decision that waits has
\* its timer whenever the server is at rest, through crashes and restarts
\* (arena.ts scheduleAction, timeoutSeat, restoreLive).
THEOREM DecisionsStayTimed ==
    ASSUME NEW h, Handlers = {h}, "store" \notin Faults
    PROVE  Spec => []DecisionsAreTimed
<1>1. Init => TimedInv(h)
  <2> SUFFICES ASSUME Init PROVE TimedInv(h)
    OBVIOUS
  <2>1. SerialInv(h)
    BY SerialInit
  <2>2. ~Playing /\ handler[h] = Idle
    BY DEF Init, Playing, Current
  <2> QED BY <2>1, <2>2, IdleState DEF TimedInv, PlayIsLive, TimerFollows, Waits
<1>2. TimedInv(h) /\ [Next]_vars => TimedInv(h)'
  BY TimedStep
<1>3. TimedInv(h) => DecisionsAreTimed
  <2> SUFFICES ASSUME TimedInv(h), Quiet, Waits
               PROVE  action = scheduled(engine[Current])
    BY DEF DecisionsAreTimed, Waits
  <2>1. handler[h] = Idle
    BY DEF Quiet
  <2> QED BY <2>1, IdleState DEF TimedInv, TimerFollows, Untimed
<1> QED BY <1>1, <1>2, <1>3, PTL DEF Spec
=============================================================================
