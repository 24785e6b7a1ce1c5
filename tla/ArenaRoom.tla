------------------------------- MODULE ArenaRoom -------------------------------
(***************************************************************************)
(* One friend room of the Arena server, from the row createRoom inserted   *)
(* to the match its players are sent: joinRoom, acceptRoom, leaveRoom and  *)
(* openMatch of ArenaService (server/src/arena.ts) on the rows of rooms,   *)
(* matches and stakes that PostgresStore keeps (postgres.ts).              *)
(*                                                                         *)
(* As in ArenaMatch, a handler is a member of Handlers suspended at an     *)
(* await; an action runs it to the next.  A frame the server refuses       *)
(* changes nothing and is no action.  ArenaMatch starts where OpenEvent    *)
(* ends.  The terms of a stake are literals of its schema, so all stakes   *)
(* the parser lets through agree on them; the model staked may differ.     *)
(*                                                                         *)
(* An operator X_y is X with one plausible mistake, y; no action uses it.  *)
(***************************************************************************)
EXTENDS Integers, Sequences

CONSTANTS
    Handlers,   \* handlers that may be suspended at the same time
    Host,       \* the device that created the room
    Guests,     \* the devices that know the room code
    Models,     \* the models a device may stake
    HostModel,  \* the one the host did
    None,
    Faults,     \* what may fail: "crash", "store" (a query that throws)
    MaxFrames,  \* bound of the model
    MaxFaults   \* bound of the model

RoomAssumption ==
    /\ Host \notin Guests
    /\ HostModel \in Models
    /\ None \notin Guests \cup {Host} \cup Models
    /\ MaxFrames \in Nat /\ MaxFaults \in Nat

VARIABLES
    room,       \* the row of table rooms
    matches,    \* the rows of table matches, with their stakes
    handler,    \* the handlers and what they hold
    confirmed,  \* history: the devices that confirmed the stake
    frames,     \* frames handled so far
    faults      \* faults so far

vars == <<room, matches, handler, confirmed, frames, faults>>

Devices == Guests \cup {Host}
Stake == [owner : Devices, model : Models]
NoStake == [owner |-> None, model |-> None]

\* `match` is the index of a match, 0 for null.
Room == [guest : Guests \cup {None}, guestStake : Stake \cup {NoStake},
         hostAccepted : BOOLEAN, guestAccepted : BOOLEAN,
         match : Nat, status : {"open", "matched", "closed"}]

Match == [a : Devices, b : Devices, stakes : SUBSET Stake, proposed : BOOLEAN]

hostStake == [owner |-> Host, model |-> HostModel]

NewRoom == [guest |-> None, guestStake |-> NoStake, hostAccepted |-> FALSE,
            guestAccepted |-> FALSE, match |-> 0, status |-> "open"]

At == {"idle", "join", "accept", "leave", "put_match", "host_stake",
       "guest_stake", "name_match", "open_event"}

\* What a handler holds: the device and model of its frame; in openMatch the
\* room as updateRoom returned it and the match it inserted.
HandlerState == [at : At, device : Devices \cup {None}, model : Models \cup {None},
                 room : Room, match : Nat]

Idle == [at |-> "idle", device |-> None, model |-> None, room |-> NewRoom,
         match |-> 0]

\* createRoom.
Init ==
    /\ room = NewRoom
    /\ matches = <<>>
    /\ handler = [h \in Handlers |-> Idle]
    /\ confirmed = {}
    /\ frames = 0
    /\ faults = 0

suspend(h, next) == handler' = [handler EXCEPT ![h] = next]

Receives(h) ==
    /\ handler[h] = Idle
    /\ frames < MaxFrames
    /\ frames' = frames + 1

------------------------------------------------------------------------------
(* room.join                                                               *)

mayJoin(d) == room.status = "open" /\ d # Host

JoinRoom(h, d, x) ==
    /\ Receives(h)
    /\ mayJoin(d)
    /\ suspend(h, [Idle EXCEPT !.at = "join", !.device = d, !.model = x])
    /\ UNCHANGED <<room, matches, confirmed, faults>>

\* The update does not look at the row again: whoever joins last is the guest.
JoinUpdate_keepsStake(h) ==
    LET d == handler[h].device IN
    /\ handler[h].at = "join"
    /\ room' = [room EXCEPT !.guest = d,
                            !.guestStake = IF @ = NoStake
                                             THEN [owner |-> d, model |-> handler[h].model]
                                             ELSE @]
    /\ suspend(h, Idle)
    /\ UNCHANGED <<matches, confirmed, frames, faults>>

JoinUpdate(h) ==
    LET d == handler[h].device IN
    /\ handler[h].at = "join"
    /\ room' = [room EXCEPT !.guest = d,
                            !.guestStake = [owner |-> d, model |-> handler[h].model]]
    /\ suspend(h, Idle)
    /\ UNCHANGED <<matches, confirmed, frames, faults>>

------------------------------------------------------------------------------
(* room.accept                                                             *)

\* Neither the status nor the model of the stake sent along is looked at.
mayAccept(d) == room.guest # None /\ d \in {Host, room.guest}

AcceptRoom(h, d) ==
    /\ Receives(h)
    /\ mayAccept(d)
    /\ suspend(h, [Idle EXCEPT !.at = "accept", !.device = d])
    /\ UNCHANGED <<room, matches, confirmed, faults>>

\* The handler that finds both flags set, and no match, opens one.
opens_onlyForHost(h, next) ==
    handler[h].device = Host /\ next.hostAccepted /\ next.guestAccepted /\ next.match = 0

opens(h, next) == next.hostAccepted /\ next.guestAccepted /\ next.match = 0

AcceptUpdate(h) ==
    LET d == handler[h].device
        next == IF d = Host THEN [room EXCEPT !.hostAccepted = TRUE]
                ELSE [room EXCEPT !.guestAccepted = TRUE]
    IN
    /\ handler[h].at = "accept"
    /\ room' = next
    /\ confirmed' = confirmed \cup {d}
    /\ suspend(h, IF opens(h, next)
                    THEN [Idle EXCEPT !.at = "put_match", !.room = next]
                    ELSE Idle)
    /\ UNCHANGED <<matches, frames, faults>>

------------------------------------------------------------------------------
(* openMatch                                                               *)

PutMatch(h) ==
    /\ handler[h].at = "put_match"
    /\ matches' = Append(matches, [a |-> Host, b |-> handler[h].room.guest,
                                   stakes |-> {}, proposed |-> FALSE])
    /\ suspend(h, [handler[h] EXCEPT !.at = "host_stake", !.match = Len(matches) + 1])
    /\ UNCHANGED <<room, confirmed, frames, faults>>

putStake(h, stake, next) ==
    /\ matches' = [matches EXCEPT ![handler[h].match].stakes = @ \cup {stake}]
    /\ suspend(h, [handler[h] EXCEPT !.at = next])
    /\ UNCHANGED <<room, confirmed, frames, faults>>

PutHostStake(h) ==
    /\ handler[h].at = "host_stake"
    /\ putStake(h, hostStake, "guest_stake")

PutGuestStake_ofTheRow(h) ==
    /\ handler[h].at = "guest_stake"
    /\ putStake(h, room.guestStake, "name_match")

PutGuestStake(h) ==
    /\ handler[h].at = "guest_stake"
    /\ putStake(h, handler[h].room.guestStake, "name_match")

\* The room gets the match; of two, the last.
NameMatch(h) ==
    /\ handler[h].at = "name_match"
    /\ room' = [room EXCEPT !.match = handler[h].match, !.status = "matched"]
    /\ suspend(h, [handler[h] EXCEPT !.at = "open_event"])
    /\ UNCHANGED <<matches, confirmed, frames, faults>>

\* recordEvent and match.proposal; nothing else has recorded an event yet.
OpenEvent(h) ==
    /\ handler[h].at = "open_event"
    /\ matches' = [matches EXCEPT ![handler[h].match].proposed = TRUE]
    /\ suspend(h, Idle)
    /\ UNCHANGED <<room, confirmed, frames, faults>>

------------------------------------------------------------------------------
(* room.leave                                                              *)

LeaveRoom(h, d) ==
    /\ Receives(h)
    /\ room.match = 0
    /\ d \in {Host, room.guest}
    /\ suspend(h, [Idle EXCEPT !.at = "leave", !.device = d])
    /\ UNCHANGED <<room, matches, confirmed, faults>>

LeaveUpdate(h) ==
    /\ handler[h].at = "leave"
    /\ room' = [room EXCEPT !.status = "closed"]
    /\ suspend(h, Idle)
    /\ UNCHANGED <<matches, confirmed, frames, faults>>

------------------------------------------------------------------------------
(* Faults: restoreLive does not look at rooms.                             *)

Crash ==
    /\ "crash" \in Faults
    /\ faults < MaxFaults
    /\ faults' = faults + 1
    /\ handler' = [h \in Handlers |-> Idle]
    /\ UNCHANGED <<room, matches, confirmed, frames>>

\* A query fails, and the player is answered with an error.
StoreFails(h) ==
    /\ "store" \in Faults
    /\ faults < MaxFaults
    /\ handler[h].at # "idle"
    /\ faults' = faults + 1
    /\ suspend(h, Idle)
    /\ UNCHANGED <<room, matches, confirmed, frames>>

HandlerStep(h) ==
    \/ JoinUpdate(h) \/ AcceptUpdate(h) \/ LeaveUpdate(h)
    \/ PutMatch(h) \/ PutHostStake(h) \/ PutGuestStake(h)
    \/ NameMatch(h) \/ OpenEvent(h)

Next ==
    \/ \E h \in Handlers :
          \/ HandlerStep(h)
          \/ StoreFails(h)
          \/ \E d \in Devices :
                \/ LeaveRoom(h, d) \/ AcceptRoom(h, d)
                \/ \E x \in Models : JoinRoom(h, d, x)
    \/ Crash

Spec == Init /\ [][Next]_vars

\* A suspended handler goes on; nobody has to send a frame.
Fairness == \A h \in Handlers : WF_vars(HandlerStep(h))

FairSpec == Spec /\ Fairness

------------------------------------------------------------------------------
(* Properties.                                                             *)

\* Every row and every suspended handler is well formed; the guest's stake, in
\* the row and in the copy openMatch works on, is the guest's own.
TypeOK ==
    /\ room \in Room
    /\ matches \in Seq(Match)
    /\ handler \in [Handlers -> HandlerState]
    /\ room.guestStake.owner = room.guest
    /\ \A h \in Handlers :
          /\ handler[h].room.guestStake.owner = handler[h].room.guest
          /\ handler[h].match \in 0..Len(matches)
    /\ confirmed \in SUBSET Devices
    /\ frames \in Nat
    /\ faults \in Nat

Backed(m) ==
    /\ m.a = Host
    /\ m.b \in Guests
    /\ \E x \in Models : m.stakes = {hostStake, [owner |-> m.b, model |-> x]}

\* However joins, accepts and leaves overlap, and wherever a crash or a failed
\* query stops one: a match the room names, or its players were sent, has
\* one stake of each of its two sides and no other (openMatch inserts the
\* stakes before it names the match; joinRoom writes guest and stake
\* together).
NamedMatchIsBacked ==
    /\ room.match # 0 => room.match \in 1..Len(matches) /\ Backed(matches[room.match])
    /\ \A i \in 1..Len(matches) : matches[i].proposed => Backed(matches[i])

\* A room both sides accepted gets its match, whoever accepts last and
\* whatever else is under way, unless a fault stops openMatch half-way
\* (acceptRoom).
AcceptedRoomOpens ==
    room.hostAccepted /\ room.guestAccepted ~> room.match # 0 \/ faults > 0

\* TWO_PERSON.md:26, "Both confirm the ... stake": the players of a match
\* confirmed it.  Refuted: a guest accepts, another joins in its place, the
\* flag stays, and the host's accept opens a match with the other.
BothConfirmed ==
    \A i \in 1..Len(matches) :
        matches[i].proposed => {matches[i].a, matches[i].b} \subseteq confirmed
=============================================================================
