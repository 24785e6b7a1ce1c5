---------------------------- MODULE MCGrantCalls -----------------------------
(***************************************************************************)
(* The calls of a grant, for TLC: at the server (GrantRelay), at the       *)
(* plugin of its owner (OwnerStream), and their frames on the way from     *)
(* plugin to plugin (RelayStream).  They share no state here: a behaviour  *)
(* is one of `part`, and the other components stay as they began.          *)
(***************************************************************************)
EXTENDS GrantRelay, Sequences, TLC, FiniteSetsExt

CONSTANTS
    OwnCalls, CallsOfGrant, OwnChunks, OwnFaults,           \* of OwnerStream
    Calls, Unheld, OpenStreams, Overtaking, Chunks, Drops   \* of RelayStream

VARIABLES
    account, call, generator, signal, answer, read, left, faults,
    at, held, got, cancelled, stopped, waiter, backlog, fulfil, chunksSent, aborted,
    ownerWaiter, ownerBacklog, reserved, finished, charged, slot, up, down,
    online, hungUp, closed, endedBy, came, serial,
    part   \* the component that moves

ownerVars == <<account, call, generator, signal, answer, read, left, faults>>
streamVars == <<at, held, got, cancelled, stopped, waiter, backlog, fulfil,
                chunksSent, aborted, ownerWaiter, ownerBacklog, reserved,
                finished, charged, slot, up, down, online, hungUp, closed, endedBy,
                came, serial>>
allVars == <<vars, ownerVars, streamVars, part>>

Owner == INSTANCE OwnerStream WITH
    Calls <- OwnCalls, MaxCalls <- CallsOfGrant, MaxChunks <- OwnChunks, MaxFaults <- OwnFaults,
    grant <- account, inference <- call, stream <- generator

Stream == INSTANCE RelayStream WITH
    NoCall <- Unheld, MaxOpen <- OpenStreams, Window <- Overtaking, MaxChunks <- Chunks,
    MaxDrops <- Drops,
    frame <- held, sent <- chunksSent, drops <- closed

ASSUME OwnerConstants == Owner!CallsAssumption
ASSUME StreamConstants == Stream!StreamAssumption

\* What does not move has one initial state.
PartsInit ==
    /\ Init /\ Owner!Init /\ Stream!Init
    /\ part \in {"relay", "owner", "streams", "sockets"}
    /\ part = "relay" \/ ownerOnline

PartsNext ==
    /\ UNCHANGED part
    /\ \/ part = "relay" /\ Next /\ UNCHANGED <<ownerVars, streamVars>>
       \/ part = "owner" /\ Owner!Next /\ UNCHANGED <<vars, streamVars>>
       \/ part \in {"streams", "sockets"} /\ Stream!Next /\ UNCHANGED <<vars, ownerVars>>

PartsSpec == PartsInit /\ [][PartsNext]_allVars

\* Bounds of the run on the streams.  Chunks of all calls: ...
FewChunks(n) == MapThenSumSet(LAMBDA c : chunksSent[c], Calls) <= n

\* ... with two streams at once and frames that overtake one another, ...
NoSocketCloses == FewChunks(3)' /\ UNCHANGED closed

\* ... or with sockets that close, under one stream at a time and one abort: two
\* chunks are enough for a gap in an answer, or for a chunk of one call to meet
\* the other.
OneInTurn ==
    /\ FewChunks(2)' /\ Cardinality(cancelled') <= 1
    /\ Stream!streams = {} \/ \A c \in Calls : at[c] = "new" => at'[c] = "new"
    /\ closed' = closed =>
          \A d \in DOMAIN up : Len(up'[d]) < Len(up[d]) => up'[d] = Tail(up[d])

BoundedNext ==
    /\ PartsNext
    /\ part = "streams" => NoSocketCloses
    /\ part = "sockets" => OneInTurn

BoundedSpec == PartsInit /\ [][BoundedNext]_allVars

Symmetry == Permutations(Calls)

------------------------------------------------------------------------------

\* However hosts abort and leave and the model or the ledger fail, a call of
\* the owner holds the slot alone, no longer than its stream, and what the
\* ledger records of it is how it went (relay.ts 48-65, grant-relay.ts
\* 153-187).
CallsAreRecorded ==
    part = "owner" =>
        /\ Owner!TypeOK
        /\ Owner!ChargedAndAlone
        /\ Owner!SlotEndsWithStream
        /\ Owner!RecordTellsTheEnd

\* Whatever the network and the server do to the frames, a plugin gives a host
\* the chunks of its call in the order in which they came: waiters and backlog
\* keep it (connection.ts 122-139, 344-352, 377-401).  As long as no stream was
\* opened beside another and none waited in vain for 60 s, it passes over none
\* that came, whatever other calls left in the backlog, and a stream that
\* returned at its own relay.terminal gave its host all that came before it.
ChunksInOrder ==
    part \in {"streams", "sockets"} =>
        /\ Stream!TypeOK
        /\ Stream!InOrderOfArrival
        /\ Stream!NonePassedOver
        /\ Stream!WholeAnswer
==============================================================================
