------------------------------ MODULE MCDevices ------------------------------
(***************************************************************************)
(* Devices on their way to a match, for TLC: how they are let in           *)
(* (DeviceAuth), and how two of them meet in a room (ArenaRoom).  The two  *)
(* share no state here: a behaviour is one of `part`, and the other        *)
(* component stays as it began.                                            *)
(***************************************************************************)
EXTENDS DeviceAuth

CONSTANTS
    Handlers, Host, Guests, Models, HostModel, None,   \* of ArenaRoom
    FaultKinds, MaxFrames, MaxRoomFaults

VARIABLES
    room, matches, handler, confirmed, frames, roomFaults,
    part   \* the component that moves

roomVars == <<room, matches, handler, confirmed, frames, roomFaults>>
allVars == <<vars, roomVars, part>>

Meeting == INSTANCE ArenaRoom WITH
    Faults <- FaultKinds, MaxFaults <- MaxRoomFaults, faults <- roomFaults

ASSUME RoomConstants == Meeting!RoomAssumption

PartsInit ==
    /\ Init /\ Meeting!Init
    /\ part \in {"auth", "room"}

PartsNext ==
    /\ UNCHANGED part
    /\ \/ part = "auth" /\ Next /\ UNCHANGED roomVars
       \/ part = "room" /\ Meeting!Next /\ UNCHANGED vars

\* The Fairness of each, where it moves; what ArenaRoom is fair to is not
\* enabled in its initial state.
PartsSpec ==
    /\ PartsInit /\ [][PartsNext]_allVars
    /\ Meeting!Fairness
    /\ \A p \in Plugins : WF_vars(part = "auth" /\ Progress(p))

------------------------------------------------------------------------------

\* However joins, accepts and leaves overlap, and wherever a crash or a failed
\* query stops one, a match the room names or its players were sent has one
\* stake of each of its two sides and no other (openMatch and joinRoom in
\* arena.ts).
NamedMatchIsBacked == Meeting!TypeOK /\ Meeting!NamedMatchIsBacked

\* A room both sides accepted gets its match, whoever accepts last and whatever
\* else is under way, unless a fault stops openMatch half-way (acceptRoom).
AcceptedRoomOpens == Meeting!AcceptedRoomOpens
==============================================================================
