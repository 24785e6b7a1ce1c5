----------------------------- MODULE RedisClocks ------------------------------
(***************************************************************************)
(* The timers of one match as RedisClocks keeps them                       *)
(* (server/src/redis-runtime.ts), and the handlers of ArenaService that    *)
(* set, cancel and answer them (arena.ts).                                 *)
(*                                                                         *)
(* A timer is a member of a sorted set in Redis, scored with the time it   *)
(* is due; the number of the decision it was set for is in a hash beside   *)
(* it.  due() lists the members that are due, then removes each and fires  *)
(* it if it was the one to remove it: up to five commands, each awaited,   *)
(* between which handlers set and cancel the same timers, and other runs   *)
(* of due() do the same.  due() is started every 200 ms and by every local *)
(* setTimeout; the model starts it at any time, so the local timers, which *)
(* do nothing else, are not kept.  One process sends its commands on one   *)
(* connection: they take effect in the order they are issued, so a command *)
(* is executed by the action that issues it, and its reply waits in `poll` *)
(* until due() goes on.                                                    *)
(*                                                                         *)
(* Time is not counted: a timer is set, and Ripen makes it due.  The       *)
(* engine is reduced to the number of the decision it waits for.           *)
(*                                                                         *)
(* An operator X_y is X with one plausible mistake, y; no action uses it.  *)
(***************************************************************************)
EXTENDS Naturals, FiniteSets

CONSTANTS
    Polls,        \* runs of due() that may overlap
    Handlers,     \* handlers that may be suspended at the same time
    MaxHands,     \* bound of the model: the last hand ends the match
    MaxActions,   \* bound of the model: the last action ends its hand
    MaxDrops,     \* bound of the model: disconnects, and queries that fail
    MaxCrashes    \* bound of the model: crashes

ClocksAssumption ==
    /\ {MaxHands, MaxActions} \subseteq Nat \ {0}
    /\ {MaxDrops, MaxCrashes} \subseteq Nat

VARIABLES
    engine,       \* the PokerEngine in memory
    saved,        \* the state column of the row in matches
    serving,      \* "down", "starting" (polls, engine not restored), "serving"
    handler,      \* timeoutSeat, persistAndPublish: where they are suspended
    action,       \* ACTION_Z: "none", "set" or "due"
    actionSeq,    \* ACTION_SEQ: the field of the match, NoSeq if it has none
    disconnect,   \* DISC_Z: "none", "set" or "due"
    poll,         \* the runs of due(), each with its last reply
    ripe,         \* history: the time for the decision that waits is over
    owed,         \* history: a disconnect was timed and not looked at since
    lost,         \* history: a save failed and no timer was set since
    drops, failures, crashes

redis == <<action, actionSeq, disconnect>>
server == <<engine, saved, serving, handler>>
history == <<ripe, owed, lost>>
bounds == <<drops, failures, crashes>>
vars == <<server, redis, poll, history, bounds>>

NoSeq == MaxActions + 1
Seqs == 0..MaxActions

\* `play`: "waits" for a decision, "between" two hands (toAct is null), the
\* match is "over", or there is "none" in memory.
Games == [play : {"waits", "between", "over", "none"}, hand : 1..MaxHands, seq : Seqs]
FirstDecision == [play |-> "waits", hand |-> 1, seq |-> 0]
NoGame == [play |-> "none", hand |-> 1, seq |-> 0]

Idle == [at |-> "idle", seq |-> 0, game |-> NoGame]
HandlerStates == [at : {"idle", "row", "next_hand", "save", "publish", "settle"},
                  seq : Seqs \cup {NoSeq}, game : Games]

\* due(): the reply it waits for, and what that reply will say.
NotPolling == [at |-> "idle", found |-> FALSE, seq |-> NoSeq]
PollStates == [at : {"idle", "actions", "removed", "seq", "disconnects", "checked"},
               found : BOOLEAN, seq : Seqs \cup {NoSeq}]

TypeOK ==
    /\ engine \in Games
    /\ saved \in Games
    /\ serving \in {"down", "starting", "serving"}
    /\ handler \in [Handlers -> HandlerStates]
    /\ action \in {"none", "set", "due"}
    /\ actionSeq \in Seqs \cup {NoSeq}
    /\ disconnect \in {"none", "set", "due"}
    /\ poll \in [Polls -> PollStates]
    /\ ripe \in BOOLEAN
    /\ {owed, lost} \subseteq BOOLEAN
    /\ {drops, failures, crashes} \subseteq Nat

Init ==
    /\ engine = FirstDecision
    /\ saved = FirstDecision
    /\ serving = "serving"
    /\ handler = [h \in Handlers |-> Idle]
    /\ action = "set"
    /\ actionSeq = 0
    /\ disconnect = "none"
    /\ poll = [p \in Polls |-> NotPolling]
    /\ ripe = FALSE
    /\ owed = FALSE
    /\ lost = FALSE
    /\ drops = 0
    /\ failures = 0
    /\ crashes = 0

-----------------------------------------------------------------------------
(* The commands of ClockBoard.                                             *)

scheduleAction_keepsOld(seq) ==
    /\ action' = IF action = "none" THEN "set" ELSE action
    /\ actionSeq' = IF action = "none" THEN seq ELSE actionSeq
    /\ ripe' = FALSE
    /\ lost' = FALSE
    /\ UNCHANGED <<disconnect, owed>>

scheduleAction(seq) ==
    /\ action' = "set"
    /\ actionSeq' = seq
    /\ ripe' = FALSE
    /\ lost' = FALSE
    /\ UNCHANGED <<disconnect, owed>>

scheduleDisconnect ==
    /\ disconnect' = "set"
    /\ owed' = TRUE
    /\ UNCHANGED <<action, actionSeq, ripe, lost>>

cancelAction_dropsBoth ==
    /\ action' = "none"
    /\ actionSeq' = NoSeq
    /\ disconnect' = "none"
    /\ lost' = FALSE
    /\ UNCHANGED <<ripe, owed>>

cancelAction ==
    /\ action' = "none"
    /\ actionSeq' = NoSeq
    /\ lost' = FALSE
    /\ UNCHANGED <<disconnect, ripe, owed>>

cancelMatch_keepsDisconnect ==
    /\ action' = "none"
    /\ actionSeq' = NoSeq
    /\ owed' = FALSE
    /\ lost' = FALSE
    /\ UNCHANGED <<disconnect, ripe>>

cancelMatch ==
    /\ action' = "none"
    /\ actionSeq' = NoSeq
    /\ disconnect' = "none"
    /\ owed' = FALSE
    /\ lost' = FALSE
    /\ UNCHANGED ripe

-----------------------------------------------------------------------------
(* What the arena does with the match: timeoutSeat, submitAction,          *)
(* persistAndPublish, handleDisconnect.  ArenaMatch models them in full.   *)

suspend(h, next) == handler' = [handler EXCEPT ![h] = next]

After_noLastHand(g) ==
    {[g EXCEPT !.play = "over"], [g EXCEPT !.play = "between"]}
    \cup (IF g.seq < MaxActions THEN {[g EXCEPT !.seq = @ + 1]} ELSE {})

\* The engine after an action: the next decision, the end of the hand, or of
\* the match.
After(g) ==
    {[g EXCEPT !.play = "over"]}
    \cup (IF g.seq < MaxActions THEN {[g EXCEPT !.seq = @ + 1]} ELSE {})
    \cup (IF g.hand < MaxHands THEN {[g EXCEPT !.play = "between"]} ELSE {})

apply(h) ==
    \E g \in After(engine) :
        /\ engine' = g
        /\ suspend(h, [Idle EXCEPT
              !.at = IF g.play = "between" THEN "next_hand" ELSE "save",
              !.game = IF g.play = "between" THEN NoGame ELSE g])

\* A player acts.
SubmitAction(h) ==
    /\ handler[h] = Idle
    /\ engine.play = "waits"
    /\ apply(h)
    /\ UNCHANGED <<saved, serving, redis, poll, history, bounds>>

\* timeoutSeat, once the row is read: the engine waits, and for a decision of
\* this number.
TimeoutSeat(h) ==
    /\ handler[h].at = "row"
    /\ IF engine.play = "waits" /\ engine.seq = handler[h].seq
         THEN apply(h)
         ELSE suspend(h, Idle) /\ UNCHANGED engine
    /\ UNCHANGED <<saved, serving, redis, poll, history, bounds>>

\* The next hand is dealt after an await; its numbers start at 0 again.
DealNextHand(h) ==
    LET g == [play |-> "waits", hand |-> engine.hand + 1, seq |-> 0] IN
    /\ handler[h].at = "next_hand"
    /\ IF engine.play = "between"
         THEN engine' = g /\ suspend(h, [Idle EXCEPT !.at = "save", !.game = g])
         ELSE suspend(h, Idle) /\ UNCHANGED engine
    /\ UNCHANGED <<saved, serving, redis, poll, history, bounds>>

Save(h) ==
    /\ handler[h].at = "save"
    /\ saved' = handler[h].game
    /\ suspend(h, [Idle EXCEPT !.at = "publish"])
    /\ UNCHANGED <<engine, serving, redis, poll, history, bounds>>

\* A query fails: the handler ends where it is, the engine keeps the action.
SaveFails(h) ==
    /\ failures < MaxDrops
    /\ handler[h].at = "save"
    /\ failures' = failures + 1
    /\ lost' = TRUE
    /\ suspend(h, Idle)
    /\ UNCHANGED <<engine, saved, serving, redis, poll, ripe, owed, drops, crashes>>

\* The decision the engine waits for now is timed, whoever made the last one.
Publish(h) ==
    /\ handler[h].at = "publish"
    /\ CASE engine.play = "over" -> cancelMatch
         [] engine.play = "waits" -> scheduleAction(engine.seq)
         [] OTHER -> cancelAction
    /\ suspend(h, Idle)
    /\ UNCHANGED <<engine, saved, serving, poll, bounds>>

\* A socket closes in the middle of the match.
HandleDisconnect ==
    /\ drops < MaxDrops
    /\ engine.play \in {"waits", "between"}
    /\ drops' = drops + 1
    /\ scheduleDisconnect
    /\ UNCHANGED <<server, poll, failures, crashes>>

\* settleMatch, for a match a disconnect ended.
Settle(h) ==
    /\ handler[h].at = "settle"
    /\ saved' = [saved EXCEPT !.play = "over"]
    /\ suspend(h, Idle)
    /\ UNCHANGED <<engine, serving, redis, poll, history, bounds>>

-----------------------------------------------------------------------------
(* due(), from one reply to the next.                                      *)

Ripen ==
    /\ action = "set"
    /\ action' = "due"
    /\ ripe' = TRUE
    /\ UNCHANGED <<server, actionSeq, disconnect, poll, owed, lost, bounds>>

RipenDisconnect ==
    /\ disconnect = "set"
    /\ disconnect' = "due"
    /\ UNCHANGED <<server, action, actionSeq, poll, history, bounds>>

awaits(p, at, found) ==
    poll' = [poll EXCEPT ![p] = [NotPolling EXCEPT !.at = at, !.found = found]]

rangeDisconnects(p) == awaits(p, "disconnects", disconnect = "due")

StartDue(p) ==
    /\ serving # "down"
    /\ poll[p] = NotPolling
    /\ awaits(p, "actions", action = "due")
    /\ UNCHANGED <<server, redis, history, bounds>>

\* zrem removes the member whatever its score is by now.
PopAction(p) ==
    /\ poll[p].at = "actions"
    /\ IF poll[p].found
         THEN awaits(p, "removed", action # "none") /\ action' = "none"
         ELSE rangeDisconnects(p) /\ UNCHANGED action
    /\ UNCHANGED <<server, actionSeq, disconnect, history, bounds>>

\* The number is read after the member is removed, not before.
ReadSeq(p) ==
    /\ poll[p].at = "removed"
    /\ IF poll[p].found
         THEN poll' = [poll EXCEPT ![p] =
                         [NotPolling EXCEPT !.at = "seq", !.seq = actionSeq]]
         ELSE rangeDisconnects(p)
    /\ UNCHANGED <<server, redis, history, bounds>>

\* onActionTimeout: timeoutSeat takes the engine at once and awaits the row.
FireAction(p) ==
    /\ poll[p].at = "seq"
    /\ IF engine.play = "none"
         THEN UNCHANGED handler
         ELSE \E h \in Handlers :
                /\ handler[h] = Idle
                /\ suspend(h, [Idle EXCEPT !.at = "row", !.seq = poll[p].seq])
    /\ rangeDisconnects(p)
    /\ UNCHANGED <<engine, saved, serving, redis, history, bounds>>

PopDisconnect(p) ==
    /\ poll[p].at = "disconnects"
    /\ IF poll[p].found
         THEN awaits(p, "checked", disconnect # "none") /\ disconnect' = "none"
         ELSE awaits(p, "idle", FALSE) /\ UNCHANGED disconnect
    /\ UNCHANGED <<server, action, actionSeq, history, bounds>>

\* onDisconnectCheck: evaluateDisconnect finds a seat that was away for too
\* long and ends the match, or finds none.
CheckDisconnect(p) ==
    /\ poll[p].at = "checked"
    /\ awaits(p, "idle", FALSE)
    /\ IF ~poll[p].found \/ engine.play \notin {"waits", "between"}
         THEN /\ owed' = (owed /\ ~poll[p].found)
              /\ UNCHANGED <<server, redis, ripe, lost>>
         ELSE \/ /\ owed' = FALSE
                 /\ UNCHANGED <<server, redis, ripe, lost>>
              \/ \E h \in Handlers :
                   /\ handler[h] = Idle
                   /\ engine' = [engine EXCEPT !.play = "over"]
                   /\ suspend(h, [Idle EXCEPT !.at = "settle"])
                   /\ cancelMatch
                   /\ UNCHANGED <<saved, serving>>
    /\ UNCHANGED bounds

-----------------------------------------------------------------------------
(* Crash and restart (main.ts).  Redis keeps the timers; with the presence *)
(* of both players, in memory, goes what a disconnect check would read.    *)

Crash ==
    /\ crashes < MaxCrashes
    /\ serving # "down"
    /\ crashes' = crashes + 1
    /\ serving' = "down"
    /\ engine' = NoGame
    /\ handler' = [h \in Handlers |-> Idle]
    /\ poll' = [p \in Polls |-> NotPolling]
    /\ owed' = FALSE
    /\ UNCHANGED <<saved, redis, ripe, lost, drops, failures>>

\* The poller starts with RedisClocks, before the matches are read.
Restart ==
    /\ serving = "down"
    /\ serving' = "starting"
    /\ UNCHANGED <<engine, saved, handler, redis, poll, history, bounds>>

restoreLive_untimed ==
    /\ serving = "starting"
    /\ serving' = "serving"
    /\ engine' = IF saved.play = "waits" THEN saved ELSE NoGame
    /\ UNCHANGED <<saved, handler, redis, poll, history, bounds>>

restoreLive ==
    /\ serving = "starting"
    /\ serving' = "serving"
    /\ IF saved.play = "waits"
         THEN engine' = saved /\ scheduleAction(saved.seq)
         ELSE UNCHANGED <<engine, redis, history>>
    /\ UNCHANGED <<saved, handler, poll, bounds>>

-----------------------------------------------------------------------------
HandlerStep(h) ==
    SubmitAction(h) \/ TimeoutSeat(h) \/ DealNextHand(h) \/ Save(h)
    \/ SaveFails(h) \/ Publish(h) \/ Settle(h)

DueStep(p) ==
    PopAction(p) \/ ReadSeq(p) \/ FireAction(p) \/ PopDisconnect(p)
    \/ CheckDisconnect(p)

Next ==
    \/ \E h \in Handlers : HandlerStep(h)
    \/ \E p \in Polls : StartDue(p) \/ DueStep(p)
    \/ HandleDisconnect
    \/ Ripen \/ RipenDisconnect
    \/ Crash \/ Restart \/ restoreLive

\* What a handler does without its player.
Answered(h) == TimeoutSeat(h) \/ DealNextHand(h) \/ Save(h) \/ Publish(h) \/ Settle(h)

PollStep(p) == StartDue(p) \/ DueStep(p)

ComesBack == Restart \/ restoreLive

\* Queries and Redis answer, time passes, the interval of the poller comes
\* round, a process that ended is started again.  No player has to act.
Fairness ==
    /\ \A h \in Handlers : WF_vars(Answered(h))
    /\ \A p \in Polls : WF_vars(PollStep(p))
    /\ WF_vars(Ripen)
    /\ WF_vars(ComesBack)

Spec == Init /\ [][Next]_vars

FairSpec == Spec /\ Fairness

-----------------------------------------------------------------------------
(* Properties.                                                             *)

busy(h) == handler[h].at \in {"next_hand", "save", "publish"}

\* A timer for the decision the engine waits for: a member of the sorted set
\* with that number in the hash, a due() that has removed the member and has
\* yet to read, or to deliver, that number, or a timeoutSeat it was given to.
Timed ==
    \/ action # "none" /\ actionSeq = engine.seq
    \/ \E p \in Polls :
          \/ poll[p].at = "removed" /\ poll[p].found /\ actionSeq = engine.seq
          \/ poll[p].at = "seq" /\ poll[p].seq = engine.seq
    \/ \E h \in Handlers : handler[h].at = "row" /\ handler[h].seq = engine.seq

\* However the runs of due() and the handlers that set the timer again
\* interleave, a restart included, no decision is left without a timer once
\* the handlers at work on it are done (redis-runtime.ts:178-186, arena.ts:
\* 397, 319).  Only a failed save does that, to the decision that follows it
\* (arena.ts:249-250); the next save that succeeds, or a restart, mends it.
DecisionStaysTimed ==
    (serving = "serving" /\ engine.play = "waits" /\ ~lost)
        => (Timed \/ \E h \in Handlers : busy(h))

\* A disconnect that was timed is looked at: its member is in the sorted set,
\* or was removed by a due() that has yet to call the handler, even when
\* timers of the two seats replace each other (redis-runtime.ts:187-193).
DisconnectStaysTimed ==
    owed => \/ disconnect # "none"
            \/ \E p \in Polls : poll[p].at = "checked" /\ poll[p].found

\* A match that has ended leaves no timer behind once its handlers are done:
\* cancelMatch comes after every timer that was set for it (arena.ts:424).
EndedMatchIsQuiet ==
    (engine.play = "over" /\ ~lost /\ \A h \in Handlers : ~busy(h))
        => (action = "none" /\ disconnect = "none" /\ actionSeq = NoSeq)

\* Players that never act are played for: the match ends, across crashes and
\* any interleaving of the timers, unless a failed save left its decision
\* without a timer for good.
MatchEnds == <>("over" \in {engine.play, saved.play}) \/ <>[]lost

\* A decision is taken from a player only when its time is over.  Refuted:
\* due() removes a member by name, not by score, and reads the number of the
\* decision that replaced the one that was due (redis-runtime.ts:179-185).
FiresOnlyDue ==
    [][\A h \in Handlers :
          (TimeoutSeat(h) /\ engine' # engine) => ripe]_vars

=============================================================================
