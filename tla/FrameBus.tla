------------------------------ MODULE FrameBus -------------------------------
(***************************************************************************)
(* The frames of server instances that share one Redis: attach, send and   *)
(* deliverLocal of ArenaService (server/src/arena.ts) on RedisBus          *)
(* (redis-runtime.ts).  send() hands a frame to the sockets of the device  *)
(* on its own instance and publishes it; the other instances hand it to    *)
(* theirs, and an instance ignores what it published itself.               *)
(*                                                                         *)
(* outgoing and incoming are the connections of an instance to Redis, pub  *)
(* and sub, each of which keeps its order.  The payload of a frame is left *)
(* out: it is the n-th frame its instance sent.                            *)
(*                                                                         *)
(* An operator X_y is X with one plausible mistake, y; no action uses it.  *)
(***************************************************************************)
EXTENDS Integers, Sequences, SequencesExt

CONSTANTS
    Instances,
    Devices,
    Sockets,
    MaxSends,   \* bound of the model: frames that are sent
    MaxFaults   \* bound of the model: connections to Redis and instances lost

BusAssumption == MaxSends \in Nat /\ MaxFaults \in Nat

VARIABLES
    socket,      \* the sockets: new, closed, or where they are attached
    subscribed,  \* the instances whose SUBSCRIBE Redis has carried out
    outgoing, incoming,
    sent,        \* history: frames each instance sent
    got,         \* history: what each socket was handed
    owed,        \* history: what each socket must be handed
    faults

vars == <<socket, subscribed, outgoing, incoming, sent, got, owed, faults>>
history == <<sent, got, owed>>

SentFrames == [from : Instances, n : Nat \ {0}]
Messages == [instanceId : Instances, device : Devices, frame : SentFrames]

New == [at |-> "new"]
Closed == [at |-> "closed"]
Attached == [at : Instances, device : Devices]

\* What waits in a connection was sent, and not by an instance to itself only.
TypeOK ==
    /\ socket \in [Sockets -> {New, Closed} \cup Attached]
    /\ subscribed \subseteq Instances
    /\ sent \in [Instances -> Nat]
    /\ outgoing \in [Instances -> Seq(Messages)]
    /\ incoming \in [Instances -> Seq(Messages)]
    /\ \A i \in Instances :
          /\ \A k \in DOMAIN outgoing[i] : outgoing[i][k].instanceId = i
          /\ i \notin subscribed => incoming[i] = <<>>
    /\ got \in [Sockets -> Seq(SentFrames)]
    /\ owed \in [Sockets -> SUBSET SentFrames]
    /\ faults \in 0..MaxFaults

Init ==
    /\ socket = [s \in Sockets |-> New]
    /\ subscribed = {}
    /\ outgoing = [i \in Instances |-> <<>>]
    /\ incoming = [i \in Instances |-> <<>>]
    /\ sent = [i \in Instances |-> 0]
    /\ got = [s \in Sockets |-> <<>>]
    /\ owed = [s \in Sockets |-> {}]
    /\ faults = 0

socketsOf(i, d) == {s \in Sockets : socket[s] = [at |-> i, device |-> d]}

(* listen() of RedisBus, at the start of an instance: SUBSCRIBE is not      *)
(* awaited.                                                                 *)
Subscribe(i) ==
    /\ i \notin subscribed
    /\ subscribed' = subscribed \cup {i}
    /\ UNCHANGED <<socket, outgoing, incoming, history, faults>>

Attach(s, i, d) ==
    /\ socket[s] = New
    /\ socket' = [socket EXCEPT ![s] = [at |-> i, device |-> d]]
    /\ UNCHANGED <<subscribed, outgoing, incoming, history, faults>>

Detach(s) ==
    /\ socket[s] \in Attached
    /\ socket' = [socket EXCEPT ![s] = Closed]
    /\ UNCHANGED <<subscribed, outgoing, incoming, history, faults>>

handed_one(i, d, frame) ==
    LET sinks == socketsOf(i, d)
        one   == CHOOSE s \in sinks : TRUE
    IN  [s \in Sockets |-> IF s \in sinks /\ s = one THEN Append(got[s], frame)
                                                   ELSE got[s]]

(* deliverLocal: all sinks of the device.                                   *)
handed(i, d, frame) ==
    [s \in Sockets |-> IF s \in socketsOf(i, d) THEN Append(got[s], frame) ELSE got[s]]

queued(queue, message) == Append(queue, message)

Send(i, d) ==
    LET frame == [from |-> i, n |-> sent[i] + 1] IN
    /\ SumFunction(sent) < MaxSends   \* bound of the model
    /\ sent' = [sent EXCEPT ![i] = @ + 1]
    /\ got' = handed(i, d, frame)
    /\ owed' = [s \in Sockets |-> IF s \in socketsOf(i, d) THEN owed[s] \cup {frame}
                                                          ELSE owed[s]]
    /\ outgoing' = [outgoing EXCEPT ![i] =
                      queued(@, [instanceId |-> i, device |-> d, frame |-> frame])]
    /\ UNCHANGED <<socket, subscribed, incoming, faults>>

receivers_all == Instances

receivers == subscribed

(* Redis carries out the PUBLISH: every subscriber is pushed the message,   *)
(* the one that published it too.                                           *)
Publish(i) ==
    LET message == Head(outgoing[i])
        others  == subscribed \ {i}
    IN
    /\ outgoing[i] # <<>>
    /\ outgoing' = [outgoing EXCEPT ![i] = Tail(@)]
    /\ incoming' = [j \in Instances |->
                      IF j \in receivers THEN queued(incoming[j], message)
                                          ELSE incoming[j]]
    /\ owed' = [s \in Sockets |->
                  IF \E j \in others : s \in socketsOf(j, message.device)
                    THEN owed[s] \cup {message.frame} ELSE owed[s]]
    /\ UNCHANGED <<socket, subscribed, sent, got, faults>>

ignored_nothing(i, message) == FALSE

ignored(i, message) == message.instanceId = i

Receive(i) ==
    LET message == Head(incoming[i]) IN
    /\ incoming[i] # <<>>
    /\ incoming' = [incoming EXCEPT ![i] = Tail(@)]
    /\ got' = IF ignored(i, message) THEN got
              ELSE handed(i, message.device, message.frame)
    /\ UNCHANGED <<socket, subscribed, outgoing, sent, owed, faults>>

(* The connection sub breaks: what Redis pushed on it is gone, and ioredis  *)
(* subscribes again.                                                        *)
SubscriberLost(i) ==
    /\ i \in subscribed
    /\ faults < MaxFaults
    /\ faults' = faults + 1
    /\ subscribed' = subscribed \ {i}
    /\ incoming' = [incoming EXCEPT ![i] = <<>>]
    /\ owed' = [s \in Sockets |->
                  IF socket[s] \in Attached /\ socket[s].at = i
                    THEN owed[s] \cap ToSet(got[s]) ELSE owed[s]]
    /\ UNCHANGED <<socket, outgoing, sent, got>>

(* An instance stops and another starts in its place.                       *)
Restart(i) ==
    /\ faults < MaxFaults
    /\ faults' = faults + 1
    /\ socket' = [s \in Sockets |-> IF socket[s] \in Attached /\ socket[s].at = i
                                      THEN Closed ELSE socket[s]]
    /\ subscribed' = subscribed \ {i}
    /\ outgoing' = [outgoing EXCEPT ![i] = <<>>]
    /\ incoming' = [incoming EXCEPT ![i] = <<>>]
    /\ UNCHANGED history

Next ==
    \/ \E i \in Instances :
          \/ Subscribe(i)
          \/ \E d \in Devices : Send(i, d) \/ \E s \in Sockets : Attach(s, i, d)
          \/ Publish(i) \/ Receive(i)
          \/ SubscriberLost(i) \/ Restart(i)
    \/ \E s \in Sockets : Detach(s)

Spec == Init /\ [][Next]_vars

------------------------------------------------------------------------------

\* A socket is handed the frames of each instance once and in the order they
\* were sent: what comes back from Redis is not handed out again, and no frame
\* overtakes another (arena.ts 100-108, redis-runtime.ts 237-247).
OnceAndInOrder ==
    \A s \in Sockets : \A j, k \in DOMAIN got[s] :
        j < k /\ got[s][j].from = got[s][k].from => got[s][j].n < got[s][k].n

onItsWay(s) ==
    LET i == socket[s].at IN
    {incoming[i][k].frame : k \in {k \in DOMAIN incoming[i] :
        /\ incoming[i][k].instanceId # i
        /\ incoming[i][k].device = socket[s].device}}

\* A frame sent to a device reaches each of its sockets, on the instance that
\* sent it and on every other that was subscribed when Redis had it: none is
\* swallowed on the way (arena.ts 100-108, redis-runtime.ts 240-241).
ReachesEverySocket ==
    \A s \in Sockets : socket[s] \in Attached
        => owed[s] \subseteq ToSet(got[s]) \cup onItsWay(s)
==============================================================================
