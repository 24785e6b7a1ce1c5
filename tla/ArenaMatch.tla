------------------------------ MODULE ArenaMatch ------------------------------
(***************************************************************************)
(* One match of the Arena server, from the row openMatch inserted to its   *)
(* settlement: the handlers of ArenaService that deal, play, time out,     *)
(* forfeit and settle it (server/src/arena.ts, settlement.ts), the match   *)
(* row and stakes PostgresStore keeps (postgres.ts), the due times kept in *)
(* Redis (RedisClocks), presence, and restoreLive after a restart.         *)
(*                                                                         *)
(* A handler is an async function, a member of Handlers, suspended at one  *)
(* of the awaits named by `at`; an action runs it from one await to the    *)
(* next, and one query or transaction is atomic.  A frame handler that     *)
(* throws answers with an error; timers and socket closes start theirs     *)
(* with `void`, so one that throws takes the process down.                 *)
(*                                                                         *)
(* The poker engine is reduced to what the server reads of it: the hand,   *)
(* the action number (0 again in every hand), who is to act, whether the   *)
(* hand is over, the verdict.  PokerEngine models the rest.                *)
(*                                                                         *)
(* An operator X_y is X with one plausible mistake, y; no action uses it.  *)
(***************************************************************************)
EXTENDS Integers, Sequences

CONSTANTS
    Handlers,      \* handlers that may be suspended at the same time
    Faults,        \* what may fail: "crash", "store" (a query that throws)
    MaxHands,      \* bound of the model: the last hand has a winner
    MaxActions,    \* bound of the model: actions in a hand
    MaxEntropies,  \* bound of the model: match.entropy frames
    MaxFaults,     \* bound of the model
    Leavers        \* bound of the model: seats whose connection may fail

ASSUME FaultsAssumption == Faults \subseteq {"crash", "store"}
ASSUME HandsAssumption == MaxHands \in Nat \ {0}
ASSUME ActionsAssumption == MaxActions \in Nat \ {0}
ASSUME LimitsAssumption == MaxEntropies \in Nat /\ MaxFaults \in Nat

Seats == {"A", "B"}
Nobody == "nobody"
Undecided == "undecided"
Verdicts == Seats \cup {Nobody, Undecided}

Other(s) == IF s = "A" THEN "B" ELSE "A"

VARIABLES
    row,        \* the row of table matches
    stakes,     \* table stakes: the status of each seat's stake
    grants,     \* table grants: how many rows on each seat's stake
    engine,     \* the engines made for the match; `engines` holds the last
    action,     \* RedisClocks: the action timer of the match
    grace,      \* RedisClocks: the disconnect timer of the match
    presence,   \* presence of each seat's device
    handler,    \* the handlers and what they hold
    entropies,  \* match.entropy frames so far
    faults,     \* faults so far
    shown       \* history: the furthest play the players were sent

tables == <<row, stakes, grants>>
clocks == <<action, grace>>
bounds == <<entropies, faults>>
vars == <<tables, engine, clocks, presence, handler, bounds, shown>>

Game == [hand : Nat, seq : Nat, over : BOOLEAN,
         toAct : Seats \cup {Nobody}, verdict : Verdicts]

NoGame == [hand |-> 0, seq |-> 0, over |-> TRUE,
           toAct |-> Nobody, verdict |-> Undecided]

At == {"idle", "entropy_save", "entropy_check", "deal_save", "deal_publish",
       "seq", "row", "act", "next_hand", "save", "events", "append", "publish",
       "abort", "settle", "end_events", "end_append"}

\* `game` is the copy a save writes, `latest` whether no event was appended
\* since the handler listed them, `void` whether a throw ends the process.
Idle == [at |-> "idle", void |-> FALSE, seat |-> Nobody, obj |-> 0,
         game |-> NoGame, hand |-> 0, seq |-> 0, live |-> FALSE,
         latest |-> FALSE, verdict |-> Undecided]

Disarmed == [armed |-> FALSE, hand |-> 0, seq |-> -1]
NoGrace == [armed |-> FALSE, seat |-> Nobody]

Init ==
    /\ row = [status |-> "pending_entropy", entropy |-> {}, state |-> NoGame,
              settled |-> FALSE, winner |-> Nobody]
    /\ stakes = [s \in Seats |-> "locked"]
    /\ grants = [s \in Seats |-> 0]
    /\ engine = <<>>
    /\ action = Disarmed
    /\ grace = NoGrace
    /\ presence = [s \in Seats |-> "online"]
    /\ handler = [h \in Handlers |-> Idle]
    /\ entropies = 0
    /\ faults = 0
    /\ shown = [hand |-> 0, seq |-> 0]

------------------------------------------------------------------------------
(* The engine, as the server sees it.                                      *)

\* create and startHand: the button is A's and acts first.
FirstHand == [hand |-> 1, seq |-> 0, over |-> FALSE,
              toAct |-> "A", verdict |-> Undecided]

\* startHand: the button may have gone all-in on its blind.
NextHands(g) ==
    {[hand |-> g.hand + 1, seq |-> 0, over |-> FALSE,
      toAct |-> s, verdict |-> Undecided] : s \in Seats}

\* apply: play goes on, or the hand is over, or the match is.
Played(g) ==
    LET n == g.seq + 1
        goesOn == {[g EXCEPT !.seq = n, !.toAct = s] : s \in Seats}
        handOver == [g EXCEPT !.seq = n, !.over = TRUE, !.toAct = Nobody]
        matchOver == {[handOver EXCEPT !.verdict = s] : s \in Seats}
    IN  matchOver \cup (IF n < MaxActions THEN goesOn ELSE {})
                  \cup (IF g.hand < MaxHands THEN {handOver} ELSE {})

\* forfeit and doubleDisconnect.
Closed_keepsActor(g, v) == [g EXCEPT !.over = TRUE, !.verdict = v]

Closed(g, v) == [g EXCEPT !.over = TRUE, !.toAct = Nobody, !.verdict = v]

------------------------------------------------------------------------------
(* Handlers and timers.                                                    *)

Current == Len(engine)

Playing == Current > 0 /\ engine[Current].verdict = Undecided

suspend(h, next) == handler' = [handler EXCEPT ![h] = next]

scheduled(g) == [armed |-> TRUE, hand |-> g.hand, seq |-> g.seq]

\* restoreLive: the matches it lists, those of them that were dealt.
restores_terminalToo(r) == r.state # NoGame

restores(r) == r.status # "terminal" /\ r.state # NoGame

\* The process starts again on the tables and the due times.
Restart ==
    /\ engine' = IF restores(row) THEN <<row.state>> ELSE <<>>
    /\ action' = IF restores(row) /\ row.state.toAct # Nobody
                 THEN scheduled(row.state) ELSE action
    /\ presence' = [s \in Seats |-> "unknown"]
    /\ handler' = [h \in Handlers |-> Idle]
    /\ UNCHANGED grace

\* Presence: "silent" and "lapsed" have a socket, "away" and "gone" have none;
\* "lapsed" and "gone" are longer than the 90 s of grace.
hasSocket(s) == presence[s] \in {"online", "silent", "lapsed"}
offline(s) == presence[s] \in {"silent", "lapsed", "away", "gone"}
forLong(s) == presence[s] \in {"lapsed", "gone"}

Throw(h) ==
    IF handler[h].void
      THEN Restart
      ELSE suspend(h, Idle) /\ UNCHANGED <<engine, clocks, presence>>

\* finish, up to its first await; the verdict is read once.
finish(h, o, g, void) ==
    /\ action' = Disarmed
    /\ grace' = NoGrace
    /\ suspend(h, [Idle EXCEPT !.at = "settle", !.obj = o, !.void = void,
                               !.verdict = g.verdict])

------------------------------------------------------------------------------
(* match.entropy: submitEntropy, dealFirst.                                *)

EntropyArrives(h, s) ==
    /\ handler[h] = Idle
    /\ entropies < MaxEntropies
    /\ presence[s] = "online"
    /\ row.status = "pending_entropy"
    /\ entropies' = entropies + 1
    /\ suspend(h, [Idle EXCEPT !.at = "entropy_save", !.seat = s])
    /\ UNCHANGED <<tables, engine, clocks, presence, faults, shown>>

EntropySave(h) ==
    /\ handler[h].at = "entropy_save"
    /\ row' = [row EXCEPT !.entropy = @ \cup {handler[h].seat}]
    /\ suspend(h, [Idle EXCEPT !.at = "entropy_check"])
    /\ UNCHANGED <<stakes, grants, engine, clocks, presence, bounds, shown>>

\* The handler that finds both entropies deals; so does any other that does.
DealFirst(h) ==
    /\ handler[h].at = "entropy_check"
    /\ IF row.entropy = Seats
         THEN /\ engine' = Append(engine, FirstHand)
              /\ suspend(h, [Idle EXCEPT !.at = "deal_save",
                                         !.obj = Current + 1,
                                         !.game = FirstHand])
         ELSE suspend(h, Idle) /\ UNCHANGED engine
    /\ UNCHANGED <<tables, clocks, presence, bounds, shown>>

DealSave(h) ==
    /\ handler[h].at = "deal_save"
    /\ row' = [row EXCEPT !.status = "live", !.state = handler[h].game]
    /\ suspend(h, [handler[h] EXCEPT !.at = "deal_publish", !.game = NoGame])
    /\ UNCHANGED <<stakes, grants, engine, clocks, presence, bounds, shown>>

------------------------------------------------------------------------------
(* match.action and the action timer: submitAction, timeoutSeat.           *)

\* A client answers the newest request it can have seen; an older answer is
\* refused (STALE_ACTION) and changes nothing.
ActionArrives(h) ==
    /\ handler[h] = Idle
    /\ Playing
    /\ engine[Current].toAct # Nobody
    /\ presence[engine[Current].toAct] = "online"
    /\ suspend(h, [Idle EXCEPT !.at = "row", !.obj = Current,
                               !.seat = engine[Current].toAct,
                               !.hand = engine[Current].hand,
                               !.seq = engine[Current].seq])
    /\ UNCHANGED <<tables, engine, clocks, presence, bounds, shown>>

\* RedisClocks.due: the member is removed, then its action number is asked
\* for.  A decision may have used up its time at any moment.
ActionDue(h) ==
    /\ handler[h] = Idle
    /\ action.armed
    /\ action' = [action EXCEPT !.armed = FALSE]
    /\ suspend(h, [Idle EXCEPT !.at = "seq", !.void = TRUE])
    /\ UNCHANGED <<tables, engine, grace, presence, bounds, shown>>

TimeoutStarts(h) ==
    /\ handler[h].at = "seq"
    /\ suspend(h, [handler[h] EXCEPT !.at = "row", !.obj = Current,
                                     !.seq = action.seq])
    /\ UNCHANGED <<tables, engine, clocks, presence, bounds, shown>>

MatchRead(h) ==
    /\ handler[h].at = "row"
    /\ suspend(h, [handler[h] EXCEPT !.at = "act",
                                     !.live = row.status = "live"])
    /\ UNCHANGED <<tables, engine, clocks, presence, bounds, shown>>

\* apply, and what persistAndPublish does before its first await.
plays(h) ==
    LET o == handler[h].obj IN
    \E g \in Played(engine[o]) :
       /\ engine' = [engine EXCEPT ![o] = g]
       /\ suspend(h, [Idle EXCEPT
             !.at = IF g.over /\ g.verdict = Undecided THEN "next_hand"
                    ELSE "save",
             !.void = handler[h].void, !.obj = o, !.game = g])

actionAccepted(h) ==
    LET g == engine[handler[h].obj] IN
    /\ handler[h].live
    /\ g.hand = handler[h].hand
    /\ g.seq = handler[h].seq
    /\ g.toAct = handler[h].seat

SubmitAction(h) ==
    /\ handler[h].at = "act"
    /\ ~handler[h].void
    /\ IF actionAccepted(h) THEN plays(h) ELSE suspend(h, Idle) /\ UNCHANGED engine
    /\ UNCHANGED <<tables, clocks, presence, bounds, shown>>

timeoutStands_offByOne(h) ==
    /\ handler[h].obj > 0
    /\ handler[h].live
    /\ engine[handler[h].obj].toAct # Nobody
    /\ engine[handler[h].obj].seq = handler[h].seq + 1

timeoutStands(h) ==
    /\ handler[h].obj > 0
    /\ handler[h].live
    /\ engine[handler[h].obj].toAct # Nobody
    /\ engine[handler[h].obj].seq = handler[h].seq

TimeoutSeat(h) ==
    /\ handler[h].at = "act"
    /\ handler[h].void
    /\ IF timeoutStands(h) THEN plays(h) ELSE suspend(h, Idle) /\ UNCHANGED engine
    /\ UNCHANGED <<tables, clocks, presence, bounds, shown>>

------------------------------------------------------------------------------
(* persistAndPublish.                                                      *)

\* The next hand is dealt after an await; startHand refuses a match that a
\* disconnect has ended meanwhile.
mayDeal_ignoresEnd(g) == g.over

mayDeal(g) == g.over /\ g.verdict = Undecided

DealNextHand(h) ==
    LET o == handler[h].obj IN
    /\ handler[h].at = "next_hand"
    /\ IF mayDeal(engine[o])
         THEN /\ \E g \in NextHands(engine[o]) :
                    /\ engine' = [engine EXCEPT ![o] = g]
                    /\ suspend(h, [handler[h] EXCEPT !.at = "save", !.game = g])
              /\ UNCHANGED <<clocks, presence>>
         ELSE Throw(h)
    /\ UNCHANGED <<tables, bounds, shown>>

\* saveMatchState keeps `settled` and the winner of the row it locks.
SaveState_savesStatusOnly(h) ==
    LET g == handler[h].game IN
    /\ handler[h].at = "save"
    /\ row' = [row EXCEPT
                 !.status = IF g.verdict = Undecided THEN "live" ELSE "terminal"]
    /\ suspend(h, [handler[h] EXCEPT !.at = "events", !.game = NoGame])
    /\ UNCHANGED <<stakes, grants, engine, clocks, presence, bounds, shown>>

SaveState(h) ==
    LET g == handler[h].game IN
    /\ handler[h].at = "save"
    /\ row' = [row EXCEPT
                 !.state = g,
                 !.status = IF g.verdict = Undecided THEN "live" ELSE "terminal"]
    /\ suspend(h, [handler[h] EXCEPT !.at = "events", !.game = NoGame])
    /\ UNCHANGED <<stakes, grants, engine, clocks, presence, bounds, shown>>

\* recordEvent: the number of the event is the number of events listed,
ListEvents(h) ==
    /\ handler[h].at \in {"events", "end_events"}
    /\ suspend(h, [handler[h] EXCEPT
          !.at = IF @ = "events" THEN "append" ELSE "end_append",
          !.latest = TRUE])
    /\ UNCHANGED <<tables, engine, clocks, presence, bounds, shown>>

\* and the key of table match_events refuses a number already taken.  The
\* last event of a match is followed by the broadcast of match.settled.
AppendEvent(h) ==
    /\ handler[h].at \in {"append", "end_append"}
    /\ IF handler[h].latest
         THEN /\ handler' = [k \in Handlers |->
                    IF k # h THEN [handler[k] EXCEPT !.latest = FALSE]
                    ELSE IF handler[h].at = "end_append" THEN Idle
                    ELSE [handler[h] EXCEPT !.at = "publish", !.latest = FALSE]]
              /\ UNCHANGED <<engine, clocks, presence>>
         ELSE Throw(h)
    /\ UNCHANGED <<tables, bounds, shown>>

further(p, g) == p.hand < g.hand \/ (p.hand = g.hand /\ p.seq < g.seq)

publishSnapshots(g) ==
    shown' = IF further(shown, g) THEN [hand |-> g.hand, seq |-> g.seq] ELSE shown

\* The timer of the decision the engine now waits for replaces the last.
rearms_onlyOnNewNumber(g) ==
    /\ action' = IF g.toAct = Nobody THEN Disarmed
                 ELSE IF g.seq = action.seq THEN action
                 ELSE scheduled(g)
    /\ UNCHANGED grace

rearms(g) ==
    /\ action' = IF g.toAct # Nobody THEN scheduled(g) ELSE Disarmed
    /\ UNCHANGED grace

Publish(h) ==
    LET o == handler[h].obj
        g == engine[o]
    IN
    /\ handler[h].at = "publish"
    /\ publishSnapshots(g)
    /\ IF g.verdict # Undecided
         THEN finish(h, o, g, handler[h].void)
         ELSE rearms(g) /\ suspend(h, Idle)
    /\ UNCHANGED <<tables, engine, presence, bounds>>

\* dealFirst publishes too, and leaves a match that is over to others.
DealPublish(h) ==
    LET g == engine[handler[h].obj] IN
    /\ handler[h].at = "deal_publish"
    /\ publishSnapshots(g)
    /\ action' = IF g.toAct # Nobody THEN scheduled(g) ELSE action
    /\ suspend(h, Idle)
    /\ UNCHANGED <<tables, engine, grace, presence, bounds>>

------------------------------------------------------------------------------
(* Settlement: settleMatch, settleInTransaction.                           *)

maySettle_ignoresSettled(r) == TRUE

maySettle(r) == ~r.settled

stakesFor(v) ==
    [s \in Seats |-> IF v = Nobody THEN "released"
                     ELSE IF s = v THEN "unlocked" ELSE "converted"]

grantsFor(v) == [s \in Seats |-> IF v \in {s, Nobody} THEN 0 ELSE 1]

Settle(h) ==
    LET v == handler[h].verdict IN
    /\ handler[h].at = "settle"
    /\ IF maySettle(row)
         THEN /\ row' = [row EXCEPT !.settled = TRUE, !.status = "terminal",
                                    !.winner = v]
              /\ stakes' = stakesFor(v)
              /\ grants' = [s \in Seats |-> grants[s] + grantsFor(v)[s]]
         ELSE UNCHANGED tables
    /\ suspend(h, [Idle EXCEPT !.at = "end_events", !.void = handler[h].void])
    /\ UNCHANGED <<engine, clocks, presence, bounds, shown>>

------------------------------------------------------------------------------
(* Presence: handleDisconnect, evaluateDisconnect.                         *)

\* A socket closes; the device may have another.
SocketCloses(h, s) ==
    /\ handler[h] = Idle
    /\ s \in Leavers
    /\ hasSocket(s)
    /\ \E p \in {presence[s], "away"} : presence' = [presence EXCEPT ![s] = p]
    /\ suspend(h, [Idle EXCEPT !.at = "abort", !.void = TRUE, !.seat = s])
    /\ UNCHANGED <<tables, engine, clocks, bounds, shown>>

\* After abortWinnerRelays.
HandleDisconnect(h) ==
    LET s == handler[h].seat
        v == IF offline(Other(s)) THEN Nobody ELSE Other(s)
        g == Closed(engine[Current], v)
    IN
    /\ handler[h].at = "abort"
    /\ CASE Playing /\ forLong(s) ->
              /\ engine' = [engine EXCEPT ![Current] = g]
              /\ finish(h, Current, g, TRUE)
         [] Playing /\ offline(s) /\ ~forLong(s) ->
              /\ grace' = [armed |-> TRUE, seat |-> s]
              /\ suspend(h, Idle)
              /\ UNCHANGED <<engine, action>>
         [] OTHER -> suspend(h, Idle) /\ UNCHANGED <<engine, clocks>>
    /\ UNCHANGED <<tables, presence, bounds, shown>>

graceVerdicts ==
    IF \A s \in Seats : offline(s) THEN {Nobody}
    ELSE {Other(s) : s \in {t \in Seats : forLong(t)}}

\* The disconnect timer is set to the end of the grace of grace.seat, unless
\* that seat comes back.
EvaluateDisconnect(h) ==
    /\ handler[h] = Idle
    /\ grace.armed
    /\ grace.seat # Nobody => presence[grace.seat] \notin {"silent", "away"}
    /\ IF Playing /\ graceVerdicts # {}
         THEN \E v \in graceVerdicts :
                 LET g == Closed(engine[Current], v) IN
                 /\ engine' = [engine EXCEPT ![Current] = g]
                 /\ finish(h, Current, g, TRUE)
         ELSE /\ grace' = NoGrace
              /\ UNCHANGED <<engine, action, handler>>
    /\ UNCHANGED <<tables, presence, bounds, shown>>

\* attach, or a frame after a silence; hydrate sends frames and ticks grants,
\* and changes nothing here.
Returns(s) ==
    /\ presence[s] # "online"
    /\ presence' = [presence EXCEPT ![s] = "online"]
    /\ grace' = IF grace.seat = s THEN [grace EXCEPT !.seat = Nobody] ELSE grace
    /\ UNCHANGED <<tables, engine, action, handler, bounds, shown>>

\* 45 s without a frame on an open socket.
FallsSilent(s) ==
    /\ s \in Leavers
    /\ presence[s] = "online"
    /\ presence' = [presence EXCEPT ![s] = "silent"]
    /\ UNCHANGED <<tables, engine, clocks, handler, bounds, shown>>

\* 90 s offline: no handler is suspended that long.
GraceEnds(s) ==
    /\ presence[s] \in {"silent", "away"}
    /\ \A h \in Handlers : handler[h] = Idle
    /\ presence' = [presence EXCEPT
                      ![s] = IF @ = "silent" THEN "lapsed" ELSE "gone"]
    /\ UNCHANGED <<tables, engine, clocks, handler, bounds, shown>>

------------------------------------------------------------------------------
(* Faults.                                                                 *)

Crash ==
    /\ "crash" \in Faults
    /\ faults < MaxFaults
    /\ faults' = faults + 1
    /\ Restart
    /\ UNCHANGED <<tables, entropies, shown>>

\* A query fails; the transaction, if any, is rolled back.
StoreFails(h) ==
    /\ "store" \in Faults
    /\ faults < MaxFaults
    /\ handler[h].at \notin {"idle", "seq", "act", "publish", "deal_publish"}
    /\ faults' = faults + 1
    /\ Throw(h)
    /\ UNCHANGED <<tables, entropies, shown>>

HandlerStep(h) ==
    \/ EntropySave(h) \/ DealFirst(h) \/ DealSave(h) \/ DealPublish(h)
    \/ TimeoutStarts(h) \/ MatchRead(h) \/ SubmitAction(h) \/ TimeoutSeat(h)
    \/ DealNextHand(h) \/ SaveState(h) \/ ListEvents(h) \/ AppendEvent(h)
    \/ Publish(h) \/ Settle(h) \/ HandleDisconnect(h)

Next ==
    \/ \E h \in Handlers :
          \/ HandlerStep(h)
          \/ ActionArrives(h) \/ ActionDue(h) \/ EvaluateDisconnect(h)
          \/ StoreFails(h)
          \/ \E s \in Seats : EntropyArrives(h, s) \/ SocketCloses(h, s)
    \/ \E s \in Seats : Returns(s) \/ FallsSilent(s) \/ GraceEnds(s)
    \/ Crash

Spec == Init /\ [][Next]_vars

\* Timers fire and suspended handlers go on; nobody has to play.
Fairness ==
    /\ \A h \in Handlers : WF_vars(HandlerStep(h))
    /\ SF_vars(\E h \in Handlers : ActionDue(h))

FairSpec == Spec /\ Fairness

------------------------------------------------------------------------------
(* Properties.                                                             *)

HandlerState == [at : At, void : BOOLEAN, seat : Seats \cup {Nobody},
                 obj : Nat, game : Game, hand : Nat, seq : Int, live : BOOLEAN, latest : BOOLEAN,
                 verdict : Verdicts]

\* The engine waits for a seat unless the hand is over, and for none once the
\* match is.
WellFormed(g) ==
    /\ g.over <=> g.toAct = Nobody
    /\ g.verdict # Undecided => g.over

\* Every table, timer and suspended handler is well formed, and what any of
\* them says of the game: a handler holds an engine that was made, and
\* copies of it that could be played on.
TypeOK ==
    /\ row \in [status : {"pending_entropy", "live", "terminal"},
                entropy : SUBSET Seats, state : Game, settled : BOOLEAN,
                winner : Seats \cup {Nobody}]
    /\ stakes \in [Seats -> {"locked", "unlocked", "converted", "released"}]
    /\ grants \in [Seats -> Nat]
    /\ engine \in Seq(Game)
    /\ action \in [armed : BOOLEAN, hand : Nat, seq : Int]
    /\ grace \in [armed : BOOLEAN, seat : Seats \cup {Nobody}]
    /\ presence \in [Seats -> {"unknown", "online", "silent", "lapsed",
                              "away", "gone"}]
    /\ handler \in [Handlers -> HandlerState]
    /\ \A h \in Handlers : /\ handler[h].obj \in 0..Current
                           /\ WellFormed(handler[h].game)
    /\ \A o \in 1..Current : WellFormed(engine[o])
    /\ WellFormed(row.state)
    /\ entropies \in Nat
    /\ faults \in Nat
    /\ shown \in [hand : Nat, seq : Nat]

Escrow == INSTANCE MatchEscrow WITH
    verdict <- IF row.settled THEN row.winner ELSE Undecided

\* However handlers overlap, crash or fail, the tables implement the escrow:
\* one settlement, stakes and grants that follow its verdict, and nothing
\* after it changes them, its winner or the fact of it (settleInTransaction
\* under the row's lock, saveMatchState beside it).
RefinesEscrow == Escrow!EscrowSpec

\* However handlers overlap, the verdict on its way to the tables is still
\* the engine's: no action, deal or forfeit that was under way when a match
\* ended changes it (assertLive in engine.ts, finish in arena.ts).
SettlesTheVerdict ==
    \A h \in Handlers :
        handler[h].at = "settle" =>
            /\ handler[h].verdict # Undecided
            /\ handler[h].verdict = engine[handler[h].obj].verdict

Quiet == \A h \in Handlers : handler[h] = Idle

\* One handler at a time: a crash never takes back play the players were
\* sent; the row a restart restores is at least as far (persistAndPublish
\* saves before it publishes, restoreLive).
ShownIsSaved == ~further(row.state, shown)

\* One handler at a time: a settled match is not played on; the engine left
\* in memory, if any, ended with the winner in the tables.
SettledAsPlayed ==
    row.settled /\ Current > 0 => engine[Current].verdict = row.winner

\* One handler at a time, the tables are never behind what the players saw,
\* and an engine left in memory ended with the winner in the tables, also
\* after a restart (persistAndPublish, settleMatch, restoreLive in arena.ts).
TablesFollowPlay == ShownIsSaved /\ SettledAsPlayed

\* One handler at a time: whenever the server is at rest and waits for a
\* seat, the timer of exactly that decision is set, also after a restart, a
\* new hand or a refused frame (scheduleAction in persistAndPublish, dealFirst
\* and restoreLive).
DecisionsAreTimed ==
    Quiet /\ Playing /\ engine[Current].toAct # Nobody =>
        action = scheduled(engine[Current])

\* One handler at a time: a match that was dealt comes to a verdict in the
\* tables although nobody ever answers (timeoutSeat, autoFault).
EveryMatchEnds == row.state # NoGame ~> row.status = "terminal"

\* README.md:11, "the loser then relays a fixed-spec model grant": a match
\* with a verdict gets settled.  Refuted by a crash between the save of the
\* last action and the settlement: restoreLive lists no terminal match.
VerdictIsSettled == Quiet /\ row.status = "terminal" => row.settled
=============================================================================
