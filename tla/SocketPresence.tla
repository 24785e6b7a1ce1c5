---------------------------- MODULE SocketPresence ----------------------------
(***************************************************************************)
(* Who of the two players of a match is away, and for how long: the        *)
(* sockets of the front end (server/src/http.ts), attach, handleDisconnect *)
(* and evaluateDisconnect (arena.ts), the presence book (presence.ts,      *)
(* RedisPresence in redis-runtime.ts) and the disconnect timer.            *)
(*                                                                         *)
(* Time passes in ticks.  Every moment is kept as its age, so a state says *)
(* how long ago, never when; ages stop at Cap, beyond every limit.  What   *)
(* happens between two ticks happens in some order and takes no time, and  *)
(* a timer that is due fires before the next tick: the instant at which a  *)
(* player has been away for exactly the limit is left out.  A poll of the  *)
(* timers that runs early is in RedisClocks, play in ArenaMatch.           *)
(*                                                                         *)
(* An operator X_y is X with one plausible mistake, y; no action uses it.  *)
(***************************************************************************)
EXTENDS Integers, FiniteSets, FiniteSetsExt

CONSTANTS
    Sockets,       \* sockets a device may have at the same time
    Interval,      \* HEARTBEAT_INTERVAL_MS of the plugin, in ticks
    Timeout,       \* HEARTBEAT_TIMEOUT_MS
    Forfeit,       \* DISCONNECT_FORFEIT_MS
    Lag,           \* ticks the query in handleDisconnect may take
    MaxOpens,      \* bound of the model: sockets a device opens
    MaxSilences,   \* bound of the model: sockets that die without a close
    MaxRestarts    \* bound of the model: restarts of the server

PresenceAssumption ==
    /\ IsFiniteSet(Sockets) /\ Sockets # {}
    /\ {Interval, Timeout, Forfeit, Lag} \subseteq Nat
    /\ 0 < Interval /\ Interval < Timeout /\ Timeout < Forfeit
    /\ {MaxOpens, MaxSilences, MaxRestarts} \subseteq Nat

VARIABLES
    socket,     \* the sockets of each device
    row,        \* the presence book
    leaving,    \* handleDisconnect, waiting for abortWinnerRelays
    timer,      \* the disconnect timer of the match: ticks to go, or NoAge
    verdict,    \* Undecided, the device that won, or Nobody (double disconnect)
    unheard,    \* history: age of the last sign of life of each device
    opens, silences, restarts

server == <<row, leaving, timer, verdict>>
bounds == <<opens, silences, restarts>>
vars == <<socket, server, unheard, bounds>>

Devices == {"A", "B"}
Other(d) == IF d = "A" THEN "B" ELSE "A"
Undecided == "undecided"
Nobody == "nobody"

Cap == Forfeit + Lag + 1
Ages == 0..Cap
NoAge == -1

\* A socket is "redeeming" while redeem is awaited, "abandoned" when it closes
\* meanwhile, "attached" while its client lives, "silent" when the client is
\* gone and no close was seen, "leaked" when it was attached after its close.
SocketStates == {"none", "redeeming", "abandoned", "attached", "silent", "leaked"}
Counted == {"attached", "silent", "leaked"}

\* lastBeat and disconnectedAt as ages.
Rows == [sockets : Nat, lastBeat : Ages, disconnectedAt : Ages \cup {NoAge}]
NoRow == [sockets |-> 0, lastBeat |-> Cap, disconnectedAt |-> NoAge]

TypeOK ==
    /\ socket \in [Devices -> [Sockets -> SocketStates]]
    /\ row \in [Devices -> Rows]
    /\ leaving \subseteq [of : Devices, age : 0..Lag]
    /\ timer \in 0..Forfeit \cup {NoAge}
    /\ verdict \in Devices \cup {Undecided, Nobody}
    /\ unheard \in [Devices -> Ages]
    /\ opens \in [Devices -> 0..MaxOpens]
    /\ {silences, restarts} \subseteq Nat

\* The match is dealt to two players that are there.
Init ==
    /\ socket = [d \in Devices |-> [s \in Sockets |->
                    IF s = CHOOSE t \in Sockets : TRUE THEN "attached" ELSE "none"]]
    /\ row = [d \in Devices |->
                [sockets |-> 1, lastBeat |-> 0, disconnectedAt |-> NoAge]]
    /\ leaving = {}
    /\ timer = NoAge
    /\ verdict = Undecided
    /\ unheard = [d \in Devices |-> 0]
    /\ opens = [d \in Devices |-> 0]
    /\ silences = 0
    /\ restarts = 0

has(d, states) == \E s \in Sockets : socket[d][s] \in states

-----------------------------------------------------------------------------
(* The presence book, asked or told `ago` ticks after the time it is given. *)

connect_keepsGone(d) == row' = [row EXCEPT ![d].sockets = @ + 1, ![d].lastBeat = 0]

connect(d) ==
    row' = [row EXCEPT ![d] = [sockets |-> @.sockets + 1, lastBeat |-> 0,
                               disconnectedAt |-> NoAge]]

\* A device without a row is entered as gone since now.
disconnect_always(d) ==
    LET left == Max({0, row[d].sockets - 1}) IN
    row' = [row EXCEPT ![d] =
              [sockets |-> left,
               lastBeat |-> IF row[d] = NoRow THEN 0 ELSE @.lastBeat,
               disconnectedAt |-> 0]]

disconnect(d) ==
    LET left == Max({0, row[d].sockets - 1}) IN
    row' = [row EXCEPT ![d] =
              [sockets |-> left,
               lastBeat |-> IF row[d] = NoRow THEN 0 ELSE @.lastBeat,
               disconnectedAt |-> IF left = 0 /\ @.disconnectedAt = NoAge
                                    THEN 0 ELSE @.disconnectedAt]]

beat(d) ==
    row' = IF row[d] = NoRow THEN row
           ELSE [row EXCEPT ![d].lastBeat = 0,
                            ![d].disconnectedAt = IF row[d].sockets > 0 THEN NoAge ELSE @]

isOnline(d, ago) == row[d].sockets > 0 /\ row[d].lastBeat - ago <= Timeout

\* NoAge is null: online, or never heard of.
offlineSince(d, ago) ==
    IF isOnline(d, ago) \/ row[d] = NoRow THEN NoAge
    ELSE IF row[d].disconnectedAt # NoAge THEN Max({0, row[d].disconnectedAt - ago})
    ELSE Max({0, row[d].lastBeat - ago})

forLong_wrongUnit(off) == off >= 1000 * Forfeit

forLong(off) == off >= Forfeit

-----------------------------------------------------------------------------
(* Sockets (http.ts) and attach.                                           *)

moves(d, s, state) == socket' = [socket EXCEPT ![d][s] = state]

Redeem(d, s) ==
    /\ opens[d] < MaxOpens
    /\ socket[d][s] = "none"
    /\ moves(d, s, "redeeming")
    /\ opens' = [opens EXCEPT ![d] = @ + 1]
    /\ UNCHANGED <<server, unheard, silences, restarts>>

\* The message handler goes on after redeem, whether or not the socket closed
\* meanwhile.
Attach(d, s) ==
    /\ socket[d][s] \in {"redeeming", "abandoned"}
    /\ moves(d, s, IF socket[d][s] = "redeeming" THEN "attached" ELSE "leaked")
    /\ connect(d)
    /\ unheard' = [unheard EXCEPT ![d] = 0]
    /\ UNCHANGED <<leaving, timer, verdict, bounds>>

\* Every accepted frame beats; it may be handled after its socket closed.
Beat(d) ==
    /\ has(d, {"attached"}) \/ unheard[d] = 0
    /\ beat(d)
    /\ unheard' = [unheard EXCEPT ![d] = 0]
    /\ UNCHANGED <<socket, leaving, timer, verdict, bounds>>

\* The close listener: detach is set once the socket was attached.
CloseEarly(d, s) ==
    /\ socket[d][s] = "redeeming"
    /\ moves(d, s, "abandoned")
    /\ UNCHANGED <<server, unheard, bounds>>

Close(d, s) ==
    /\ socket[d][s] \in {"attached", "silent"}
    /\ moves(d, s, "none")
    /\ disconnect(d)
    /\ leaving' = leaving \cup {[of |-> d, age |-> 0]}
    /\ unheard' = IF socket[d][s] = "attached" THEN [unheard EXCEPT ![d] = 0] ELSE unheard
    /\ UNCHANGED <<timer, verdict, bounds>>

\* The client is gone and TCP does not say so.
GoSilent(d, s) ==
    /\ silences < MaxSilences
    /\ socket[d][s] = "attached"
    /\ moves(d, s, "silent")
    /\ silences' = silences + 1
    /\ UNCHANGED <<server, unheard, opens, restarts>>

-----------------------------------------------------------------------------
(* handleDisconnect and evaluateDisconnect.                                *)

\* finish: cancelMatch.
ends(v) == verdict' = v /\ timer' = NoAge

HandleDisconnect_ifOtherThere(l) ==
    LET selfOff == offlineSince(l.of, l.age)
        otherOff == offlineSince(Other(l.of), l.age)
    IN
    /\ l \in leaving
    /\ leaving' = leaving \ {l}
    /\ CASE verdict # Undecided \/ selfOff = NoAge \/ otherOff # NoAge ->
              UNCHANGED <<timer, verdict>>
         [] verdict = Undecided /\ otherOff = NoAge /\ forLong(selfOff) ->
              ends(Other(l.of))
         [] OTHER -> timer' = Forfeit - selfOff /\ UNCHANGED verdict
    /\ UNCHANGED <<socket, row, unheard, bounds>>

\* The two seats as they were `age` ago, when the socket closed.
HandleDisconnect(l) ==
    LET selfOff == offlineSince(l.of, l.age)
        otherOff == offlineSince(Other(l.of), l.age)
    IN
    /\ l \in leaving
    /\ leaving' = leaving \ {l}
    /\ CASE verdict # Undecided \/ selfOff = NoAge -> UNCHANGED <<timer, verdict>>
         [] verdict = Undecided /\ forLong(selfOff) ->
              ends(IF otherOff # NoAge THEN Nobody ELSE Other(l.of))
         [] OTHER -> timer' = Forfeit - selfOff /\ UNCHANGED verdict
    /\ UNCHANGED <<socket, row, unheard, bounds>>

EvaluateDisconnect_forfeitFirst ==
    LET off == [d \in Devices |-> offlineSince(d, 0)] IN
    /\ timer = 0
    /\ IF \E d \in Devices : forLong(off[d])
         THEN ends(CHOOSE d \in Devices : forLong(off[Other(d)]))
       ELSE IF \A d \in Devices : off[d] # NoAge THEN ends(Nobody)
         ELSE timer' = NoAge /\ UNCHANGED verdict
    /\ UNCHANGED <<socket, row, leaving, unheard, bounds>>

\* The timer fires; it is not set again when it finds nobody away for long.
EvaluateDisconnect ==
    LET off == [d \in Devices |-> offlineSince(d, 0)] IN
    /\ timer = 0
    /\ IF \A d \in Devices : off[d] # NoAge THEN ends(Nobody)
       ELSE IF \E d \in Devices : forLong(off[d])
         THEN ends(CHOOSE d \in Devices : forLong(off[Other(d)]))
         ELSE timer' = NoAge /\ UNCHANGED verdict
    /\ UNCHANGED <<socket, row, leaving, unheard, bounds>>

\* Presence is read from memory, which is empty; the timer is in Redis.
Restart ==
    /\ restarts < MaxRestarts
    /\ restarts' = restarts + 1
    /\ socket' = [d \in Devices |-> [s \in Sockets |-> "none"]]
    /\ row' = [d \in Devices |-> NoRow]
    /\ leaving' = {}
    /\ UNCHANGED <<timer, verdict, unheard, opens, silences>>

-----------------------------------------------------------------------------
older(age) == Min({age + 1, Cap})

\* A client that lives has sent its heartbeat, a timer that is due has fired,
\* a query takes no longer than Lag.
Tick ==
    /\ timer # 0
    /\ \A l \in leaving : l.age < Lag
    /\ \A d \in Devices : has(d, {"attached"}) => row[d].lastBeat < Interval
    /\ row' = [d \in Devices |->
                 IF row[d] = NoRow THEN NoRow
                 ELSE [row[d] EXCEPT !.lastBeat = older(@),
                         !.disconnectedAt = IF @ = NoAge THEN @ ELSE older(@)]]
    /\ leaving' = {[l EXCEPT !.age = @ + 1] : l \in leaving}
    /\ timer' = IF timer = NoAge THEN NoAge ELSE timer - 1
    /\ unheard' = [d \in Devices |-> older(unheard[d])]
    /\ UNCHANGED <<socket, verdict, bounds>>

ClientStep(d, s) == Redeem(d, s) \/ CloseEarly(d, s) \/ Close(d, s) \/ GoSilent(d, s)

Next ==
    \/ \E d \in Devices, s \in Sockets : ClientStep(d, s) \/ Attach(d, s)
    \/ \E d \in Devices : Beat(d)
    \/ \E l \in leaving : HandleDisconnect(l)
    \/ EvaluateDisconnect
    \/ Restart
    \/ Tick

\* Whatever moves of itself: time, the heartbeats of clients that live, queries
\* that are answered, due timers.
Progress ==
    \/ Tick
    \/ \E d \in Devices :
          \/ has(d, {"attached"}) /\ row[d].lastBeat >= Interval /\ Beat(d)
          \/ \E s \in Sockets : Attach(d, s)
    \/ \E l \in leaving : HandleDisconnect(l)
    \/ EvaluateDisconnect

\* It goes on.  Time waits for the others, so that is enough for each of them.
\* Nobody has to come back, and no close has to be seen.
Fairness == WF_vars(Progress)

Spec == Init /\ [][Next]_vars

FairSpec == Spec /\ Fairness

-----------------------------------------------------------------------------
(* Properties.                                                             *)

\* The book counts the sockets the server holds, leaked ones included, and
\* dates a device as gone exactly while it counts none (http.ts:63, 74;
\* redis-runtime.ts:56-79).
CountIsExact ==
    \A d \in Devices :
        /\ row[d].sockets = Cardinality({s \in Sockets : socket[d][s] \in Counted})
        /\ (row[d].disconnectedAt # NoAge) => row[d].sockets = 0
        /\ (row[d].sockets = 0 /\ row[d] # NoRow) => row[d].disconnectedAt # NoAge

\* Whichever of its sockets closed and when, a player that is there loses
\* nothing, and one that is alone in being away loses only after the grace,
\* short of one heartbeat at most (arena.ts:274-300).
OnlyTheAbsentLose ==
    [][\A d \in Devices :
          (verdict = Undecided /\ verdict' \in {Nobody, Other(d)})
            => /\ ~has(d, {"attached"})
               /\ verdict' = Other(d) => unheard[d] + Interval >= Forfeit]_vars

\* "89s single disconnect does not forfeit": the grace runs from the moment
\* the player was last there.  Refuted: while another socket of the device is
\* counted, a close is not dated, and the grace runs from the last heartbeat.
GraceIsWhole ==
    [][\A d \in Devices :
          (verdict = Undecided /\ verdict' = Other(d)) => unheard[d] >= Forfeit]_vars

\* A forfeit is won by a player whose heartbeat is recent, unless the server
\* was restarted and has not heard of it since (presence.ts:43-48).
WinnerWasThere ==
    [][\A d \in Devices :
          (verdict = Undecided /\ verdict' = d)
            => unheard[d] <= Timeout + Lag \/ row[d] = NoRow]_vars

\* A verdict of the disconnect timer names a player that was there the winner
\* over one that was not.
VerdictIsDeserved == OnlyTheAbsentLose /\ WinnerWasThere

\* A seat whose last socket was seen to close, and that stays away, does not
\* hold up the match, although the one timer of the match is shared with the
\* other seat and replaced by it (arena.ts:277-278).
ClosedSeatForfeits ==
    \A d \in Devices :
        <>[](row[d].disconnectedAt # NoAge) => <>(verdict # Undecided)

\* "90s does": a player that is never heard of again loses the match, or the
\* match is void.  Refuted: only a close sets the timer, a silence does not.
SilentSeatForfeits ==
    \A d \in Devices :
        <>[](unheard[d] >= Forfeit) => <>(verdict # Undecided)

=============================================================================
