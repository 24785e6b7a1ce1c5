----------------------------- MODULE MessageGate -----------------------------
(***************************************************************************)
(* What stands between a frame and its handler: ArenaService.remember      *)
(* (server/src/arena.ts), awaited first by handle(), on RedisRateLimit     *)
(* (redis-runtime.ts).  A message id of a device is let in once, and at    *)
(* most MaxMessages messages of the device in one second, however many     *)
(* sockets and server instances hand its frames in.                        *)
(*                                                                         *)
(* One device.  remember() awaits three commands, SET NX, INCR and EXPIRE; *)
(* each is an action, so frames overlap between any two of them.  Several  *)
(* frames may carry one message id.  The keys of the device lapse as the   *)
(* code asks Redis to: SEEN after SeenSeconds, RATE of a second 2 seconds  *)
(* after its last EXPIRE.                                                  *)
(*                                                                         *)
(* An operator X_y is X with one plausible mistake, y; no action uses it.  *)
(***************************************************************************)
EXTENDS Integers, FiniteSets

CONSTANTS
    Frames,       \* the frames the device sends, or someone repeats
    MessageIds,
    MaxMessages,  \* MAX_MESSAGES_PER_SECOND
    SeenSeconds,  \* how long a SEEN key lives (EX 120)
    MaxSeconds    \* bound of the model: the seconds that pass

GateAssumption ==
    /\ MaxMessages \in Nat
    /\ SeenSeconds \in Nat \ {0}
    /\ MaxSeconds \in Nat

VARIABLES
    now,    \* the second the clocks of instances and Redis show
    seen,   \* the SEEN key of each message: the second it lapses, or Gone
    rate,   \* the RATE key of each second: its count, and when it lapses
    frame   \* the remember() of each frame

vars == <<now, seen, rate, frame>>

Seconds == 0..MaxSeconds
Gone == -1
Never == -1
NoRate == [count |-> 0, lapses |-> Never]

(* "at" is what remember() waits for, or how it ended.  since is the second *)
(* of its SET, window the second it is counted in.                          *)
NotSent == [at |-> "not sent"]
Counted == {"incr", "expire", "handled", "RATE_LIMIT"}
FrameStates ==
    {NotSent}
    \cup [at : {"set", "REPLAY"}, message : MessageIds]
    \cup [at : {"clock"}, message : MessageIds, since : Seconds]
    \cup [at : Counted, message : MessageIds, since : Seconds, window : Seconds,
          count : Nat]

\* No key is there after it lapsed, and a frame is counted in a second that
\* had come when its message was found new.
TypeOK ==
    /\ now \in Seconds
    /\ seen \in [MessageIds -> {Gone} \cup now + 1..now + SeenSeconds]
    /\ rate \in [Seconds -> [count : Nat, lapses : Nat \cup {Never}]]
    /\ \A w \in Seconds : rate[w].lapses \in Nat => now < rate[w].lapses
    /\ frame \in [Frames -> FrameStates]
    /\ \A f \in Frames : frame[f].at \in Counted
                           => /\ frame[f].since <= frame[f].window
                              /\ frame[f].window <= now

Init ==
    /\ now = 0
    /\ seen = [m \in MessageIds |-> Gone]
    /\ rate = [w \in Seconds |-> NoRate]
    /\ frame = [f \in Frames |-> NotSent]

goto(f, next) == frame' = [frame EXCEPT ![f] = next]

(* handle() is entered.                                                     *)
Receive(f, m) ==
    /\ frame[f] = NotSent
    /\ goto(f, [at |-> "set", message |-> m])
    /\ UNCHANGED <<now, seen, rate>>

isNew_untilNextSecond(m) == seen[m] # now + SeenSeconds

(* NX: the key must not be there.                                           *)
isNew(m) == seen[m] = Gone

SetSeen(f) ==
    LET m == frame[f].message IN
    /\ frame[f].at = "set"
    /\ isNew(m)
    /\ seen' = [seen EXCEPT ![m] = now + SeenSeconds]
    /\ goto(f, [at |-> "clock", message |-> m, since |-> now])
    /\ UNCHANGED <<now, rate>>

RefuseReplay(f) ==
    /\ frame[f].at = "set"
    /\ ~ isNew(frame[f].message)
    /\ goto(f, [frame[f] EXCEPT !.at = "REPLAY"])
    /\ UNCHANGED <<now, seen, rate>>

ChooseWindow_roundsUp(f) ==
    /\ frame[f].at = "clock"
    /\ goto(f, [at |-> "incr", message |-> frame[f].message,
                since |-> frame[f].since, window |-> now + 1, count |-> 0])
    /\ UNCHANGED <<now, seen, rate>>

(* The clock is read when the reply is there.                               *)
ChooseWindow(f) ==
    /\ frame[f].at = "clock"
    /\ goto(f, [at |-> "incr", message |-> frame[f].message,
                since |-> frame[f].since, window |-> now, count |-> 0])
    /\ UNCHANGED <<now, seen, rate>>

Incr(f) ==
    LET w == frame[f].window
        n == rate[w].count + 1
    IN
    /\ frame[f].at = "incr"
    /\ rate' = [rate EXCEPT ![w].count = n]
    /\ goto(f, [frame[f] EXCEPT !.at = "expire", !.count = n])
    /\ UNCHANGED <<now, seen>>

over_atLimit(n) == n >= MaxMessages

over(n) == n > MaxMessages

lapsesAt_nextSecond(t) == t + 1

lapsesAt(t) == t + 2

(* EXPIRE of a key that lapsed does nothing.                                *)
Expire(f) ==
    LET w == frame[f].window IN
    /\ frame[f].at = "expire"
    /\ rate' = IF rate[w].count > 0 THEN [rate EXCEPT ![w].lapses = lapsesAt(now)]
                                    ELSE rate
    /\ goto(f, [frame[f] EXCEPT
                  !.at = IF over(frame[f].count) THEN "RATE_LIMIT" ELSE "handled"])
    /\ UNCHANGED <<now, seen>>

(* A second passes, and the keys whose time is over lapse.  An INCR takes   *)
(* less than a second to reach Redis: one that came after the key of its    *)
(* second lapsed would begin the count again.                               *)
Tick ==
    /\ now < MaxSeconds
    /\ \A f \in Frames : frame[f].at = "incr" => frame[f].window = now
    /\ now' = now + 1
    /\ seen' = [m \in MessageIds |-> IF seen[m] = now' THEN Gone ELSE seen[m]]
    /\ rate' = [w \in Seconds |-> IF rate[w].lapses = now' THEN NoRate ELSE rate[w]]
    /\ UNCHANGED frame

Next ==
    \/ \E f \in Frames :
          \/ \E m \in MessageIds : Receive(f, m)
          \/ SetSeen(f) \/ RefuseReplay(f) \/ ChooseWindow(f)
          \/ Incr(f) \/ Expire(f)
    \/ Tick

Spec == Init /\ [][Next]_vars

------------------------------------------------------------------------------

\* Of two frames with one message id that are both handled, the second came
\* when the SEEN key of the first had lapsed: however two sockets or two
\* instances overlap in remember(), a message acts once (redis-runtime.ts 214).
HandledOnce ==
    \A f, g \in Frames :
        /\ f # g
        /\ frame[f].at = "handled" /\ frame[g].at = "handled"
        /\ frame[f].message = frame[g].message
        => \/ frame[g].since >= frame[f].since + SeenSeconds
           \/ frame[f].since >= frame[g].since + SeenSeconds

countedIn(w, at) == {f \in Frames : frame[f].at \in at /\ frame[f].window = w}

\* No more than MaxMessages frames of the device are handled for one second,
\* also when the key of that second lapses while frames still wait to be
\* counted in it (redis-runtime.ts 216-219).
CapPerSecond ==
    \A w \in Seconds : Cardinality(countedIn(w, {"handled"})) <= MaxMessages

\* A frame is refused for its rate only if MaxMessages others were counted in
\* its second before it: replays are not counted, and the frame that reaches
\* the limit is handled (redis-runtime.ts 215-219).
RefusedAtTheLimit ==
    \A f \in Frames : frame[f].at = "RATE_LIMIT" =>
        Cardinality({g \in countedIn(frame[f].window, Counted) :
                       frame[g].count < frame[f].count /\ frame[g].at # "incr"})
          >= MaxMessages
==============================================================================
