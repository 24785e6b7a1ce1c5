---------------------------- MODULE MCMatchClocks ----------------------------
(***************************************************************************)
(* A match with one handler at a time (ArenaMatch), its timers with        *)
(* handlers that overlap (RedisClocks), and who of its players is away     *)
(* (SocketPresence), for TLC.  The three share no state here: a behaviour  *)
(* is one of `part`, and the other components stay as they began.          *)
(***************************************************************************)
EXTENDS ArenaMatch

CONSTANTS
    Polls, ClockHandlers, ClockHands, ClockActions, MaxDrops, MaxCrashes,   \* RedisClocks
    Sockets, Interval, Timeout, Forfeit, Lag,                               \* SocketPresence
    MaxOpens, MaxSilences, MaxRestarts

VARIABLES
    playing, saved, serving, suspended, timer, timerSeq, disconnect, poll,
    ripe, owed, lost, drops, failures, crashes,
    socket, book, leaving, ticking, winning, unheard, opened, silences, restarts,
    part   \* the component that moves

clockVars == <<playing, saved, serving, suspended, timer, timerSeq, disconnect,
               poll, ripe, owed, lost, drops, failures, crashes>>
presenceVars == <<socket, book, leaving, ticking, winning, unheard, opened,
                  silences, restarts>>
allVars == <<vars, clockVars, presenceVars, part>>

Clocks == INSTANCE RedisClocks WITH
    Handlers <- ClockHandlers, MaxHands <- ClockHands, MaxActions <- ClockActions,
    engine <- playing, handler <- suspended, action <- timer, actionSeq <- timerSeq

Presence == INSTANCE SocketPresence WITH
    row <- book, timer <- ticking, verdict <- winning, opens <- opened

ASSUME ClocksConstants == Clocks!ClocksAssumption
ASSUME PresenceConstants == Presence!PresenceAssumption

PartsInit ==
    /\ Init /\ Clocks!Init /\ Presence!Init
    /\ part \in {"match", "clocks", "presence"}

PartsNext ==
    /\ UNCHANGED part
    /\ \/ part = "match" /\ Next /\ UNCHANGED <<clockVars, presenceVars>>
       \/ part = "clocks" /\ Clocks!Next /\ UNCHANGED <<vars, presenceVars>>
       \/ part = "presence" /\ Presence!Next /\ UNCHANGED <<vars, clockVars>>

\* The Fairness of each, where it moves; what ArenaMatch is fair to is not
\* enabled in its initial state.
PartsFairness ==
    /\ Fairness
    /\ WF_clockVars(part = "clocks" /\ Clocks!Ripen)
    /\ WF_clockVars(part = "clocks" /\ Clocks!ComesBack)
    /\ \A p \in Polls : WF_clockVars(part = "clocks" /\ Clocks!PollStep(p))
    /\ \A h \in ClockHandlers : WF_clockVars(part = "clocks" /\ Clocks!Answered(h))
    /\ WF_presenceVars(part = "presence" /\ Presence!Progress)

PartsSpec == PartsInit /\ [][PartsNext]_allVars /\ PartsFairness

------------------------------------------------------------------------------

\* However the polls of Redis, the handlers and a restart interleave, the
\* decision that waits has its timer, a disconnect that was timed is looked
\* at, and a match that has ended leaves no timer (redis-runtime.ts 173-205,
\* arena.ts 397, 424).
TimersFollowMatch ==
    part = "clocks" =>
        /\ Clocks!TypeOK
        /\ Clocks!DecisionStaysTimed
        /\ Clocks!DisconnectStaysTimed
        /\ Clocks!EndedMatchIsQuiet

\* Players that never act are played for until the match ends, whatever the
\* polls, the handlers and a crash do, unless a failed save left the decision
\* without a timer (arena.ts 249, 312-323; redis-runtime.ts 173-186).
SilentMatchEnds == part = "clocks" => Clocks!MatchEnds

\* Opening, dying, leaked and restarted sockets leave the presence book with
\* the sockets the server holds (http.ts 63, 74; redis-runtime.ts 56-79).
CountIsExact == part = "presence" => Presence!TypeOK /\ Presence!CountIsExact

\* Whichever sockets close and when: who loses by the disconnect timer is not
\* there, for as long as the grace short of a heartbeat, and who wins was heard
\* of (arena.ts 274-300, presence.ts 43-48).
VerdictIsDeserved == Presence!VerdictIsDeserved

\* A seat that was seen to leave and stays away does not hold up the match,
\* although the one timer of the match is shared with the other seat and
\* replaced by it (arena.ts 277-278).
ClosedSeatForfeits == Presence!ClosedSeatForfeits
==============================================================================
