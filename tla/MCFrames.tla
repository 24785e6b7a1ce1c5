------------------------------- MODULE MCFrames -------------------------------
(***************************************************************************)
(* Where frames of many sockets meet, for TLC: the log of a match that     *)
(* their handlers write (EventChain), the gate and the bus Redis is for    *)
(* them (MessageGate, FrameBus).  They share no state: a behaviour is one  *)
(* of `part`, and the other components stay as they began.                 *)
(***************************************************************************)
EXTENDS EventChain, TLC

CONSTANTS
    Frames, MessageIds, MaxMessages, SeenSeconds, MaxSeconds,   \* MessageGate
    Instances, Devices, Sockets, MaxSends, MaxFaults            \* FrameBus

VARIABLES
    now, seen, rate, frame,
    socket, subscribed, outgoing, incoming, sent, got, owed, faults,
    part   \* the component that moves

gateVars == <<now, seen, rate, frame>>
busVars == <<socket, subscribed, outgoing, incoming, sent, got, owed, faults>>
allVars == <<vars, gateVars, busVars, part>>

Gate == INSTANCE MessageGate
Bus == INSTANCE FrameBus

ASSUME GateConstants == Gate!GateAssumption
ASSUME BusConstants == Bus!BusAssumption

PartsInit ==
    /\ Init /\ Gate!Init /\ Bus!Init
    /\ part \in {"chain", "gate", "bus"}

PartsNext ==
    /\ UNCHANGED part
    /\ \/ part = "chain" /\ Next /\ UNCHANGED <<gateVars, busVars>>
       \/ part = "gate" /\ Gate!Next /\ UNCHANGED <<vars, busVars>>
       \/ part = "bus" /\ Bus!Next /\ UNCHANGED <<vars, gateVars>>

PartsSpec == PartsInit /\ [][PartsNext]_allVars

Symmetry ==
    Permutations(Instances) \cup Permutations(Devices) \cup Permutations(Sockets)

------------------------------------------------------------------------------

\* However remember() of two sockets or two instances overlaps, a message id
\* acts once while its key lives, a second lets MaxMessages frames through, and
\* no frame is refused before that (redis-runtime.ts 213-220).
GateCounts ==
    /\ Gate!TypeOK
    /\ Gate!HandledOnce
    /\ Gate!CapPerSecond
    /\ Gate!RefusedAtTheLimit

\* Each socket of a device is handed the frames of an instance once, in order,
\* and none it must get is swallowed between the local sockets, Redis and the
\* other instances (arena.ts 100-108, redis-runtime.ts 237-247).
FramesReachTheirSockets ==
    /\ Bus!TypeOK
    /\ Bus!OnceAndInOrder
    /\ Bus!ReachesEverySocket
==============================================================================
