----------------------------- MODULE EventChain -----------------------------
(***************************************************************************)
(* The event log of one match: recordEvent of server/src/arena.ts, the     *)
(* hash chain of crypto/src/hash-chain.ts and the table match_events.      *)
(*                                                                         *)
(* An event's hash covers its payload and the hash before it.  The hash of *)
(* the last event is kept in memory (eventHash), the number of the next is *)
(* counted in the table, and both are used after a query: handlers of the  *)
(* same match (a player's action, a timeout, a forfeit) overlap there, a   *)
(* query fails, an answer is lost, the server restarts.                    *)
(*                                                                         *)
(* A hash stands for what it commits to, the sequence of payloads back to  *)
(* the genesis hash: equal hashes are equal histories (SHA-256).           *)
(***************************************************************************)
EXTENDS Naturals, Sequences, FiniteSets

CONSTANTS
    Handlers,   \* the handlers that may be recording an event at a time
    Payloads,   \* what an event says
    MaxEvents   \* bound of the model: no event is begun when the log has as many

ASSUME EventsAssumption == MaxEvents \in Nat

VARIABLES
    events,     \* match_events of the match: seq -> [hash, payload]
    eventHash,  \* the entry of the match in ArenaService.eventHash
    record      \* the recordEvent() each handler is in

vars == <<events, eventHash, record>>

Hashes == Seq(Payloads)
Rows == [hash : Hashes, payload : Payloads]

(* "at" is the query the handler waits for. *)
Idle == [at |-> "none"]
Records ==
    {Idle}
    \cup [at : {"list"}, hash : Hashes, payload : Payloads]
    \cup [at : {"append", "answer"}, hash : Hashes, payload : Payloads, seq : Nat]

genesisHash == <<>>
nextEventHash(prev, payload) == Append(prev, payload)

(* verifyEventChain *)
hashBefore(n) == IF n = 0 THEN genesisHash ELSE events[n - 1].hash
linked(n) == events[n].hash = nextEventHash(hashBefore(n), events[n].payload)

count == Cardinality(DOMAIN events)

TypeOK ==
    /\ DOMAIN events \subseteq Nat /\ IsFiniteSet(DOMAIN events)
    /\ \A n \in DOMAIN events : events[n] \in Rows
    /\ eventHash \in Hashes
    /\ record \in [Handlers -> Records]

(* openMatch sets the genesis hash before its own first event. *)
Init ==
    /\ events = [n \in {} |-> Idle]
    /\ eventHash = genesisHash
    /\ record = [h \in Handlers |-> Idle]

-----------------------------------------------------------------------------

HashEvent_setsEarly(h, p) ==
    /\ record[h].at = "none" /\ count < MaxEvents
    /\ record' = [record EXCEPT ![h] = [at |-> "list", hash |-> nextEventHash(eventHash, p), payload |-> p]]
    /\ eventHash' = nextEventHash(eventHash, p)
    /\ UNCHANGED events

(* recordEvent up to its first await: the hash is made from memory ... *)
HashEvent(h, p) ==
    /\ record[h].at = "none" /\ count < MaxEvents
    /\ record' = [record EXCEPT ![h] = [at |-> "list", hash |-> nextEventHash(eventHash, p), payload |-> p]]
    /\ UNCHANGED <<events, eventHash>>

nextSeq_ofLast == count - 1
nextSeq_oneBased == count + 1
nextSeq == count

(* ... the number from the table ... *)
ListEvents(h) ==
    /\ record[h].at = "list"
    /\ record' = [record EXCEPT ![h] = [at |-> "append", hash |-> @.hash, payload |-> @.payload, seq |-> nextSeq]]
    /\ UNCHANGED <<events, eventHash>>

(* ... INSERT INTO match_events: the primary key refuses a number that is taken ... *)
free_upsert(n) == TRUE
free(n) == n \notin DOMAIN events

AppendEvent(h) ==
    /\ record[h].at = "append"
    /\ IF free(record[h].seq)
       THEN /\ events' = [n \in DOMAIN events \cup {record[h].seq} |->
                            IF n = record[h].seq THEN [hash |-> record[h].hash, payload |-> record[h].payload]
                            ELSE events[n]]
            /\ record' = [record EXCEPT ![h].at = "answer"]
       ELSE /\ record' = [record EXCEPT ![h] = Idle]
            /\ UNCHANGED events
    /\ UNCHANGED eventHash

(* ... and memory follows when the answer is there. *)
Recorded(h) ==
    /\ record[h].at = "answer"
    /\ eventHash' = record[h].hash
    /\ record' = [record EXCEPT ![h] = Idle]
    /\ UNCHANGED events

(* A query fails, or its answer is lost: recordEvent throws. *)
QueryFails(h) ==
    /\ record[h].at # "none"
    /\ record' = [record EXCEPT ![h] = Idle]
    /\ UNCHANGED <<events, eventHash>>

(* The server restarts: no entry in eventHash, which reads as the genesis hash. *)
Restart ==
    /\ eventHash' = genesisHash
    /\ record' = [h \in Handlers |-> Idle]
    /\ UNCHANGED events

Next ==
    \/ \E h \in Handlers :
          \/ \E p \in Payloads : HashEvent(h, p)
          \/ ListEvents(h) \/ AppendEvent(h) \/ Recorded(h) \/ QueryFails(h)
    \/ Restart

Spec == Init /\ [][Next]_vars

-----------------------------------------------------------------------------
(* Properties. *)

(* The log has no holes: events are numbered from 0, although the number is *)
(* counted in one query and used in another, by handlers that overlap.      *)
NoHoles == DOMAIN events = 0 .. (count - 1)

(* What was recorded stays as it was: the log only grows, by one event,     *)
(* whatever handlers, failures and restarts do to each other.               *)
AppendOnly ==
    [][\/ events' = events
       \/ /\ DOMAIN events' = DOMAIN events \cup {count}
          /\ \A n \in DOMAIN events : events'[n] = events[n]]_vars

(* An event is chained to the genesis hash or to an event of the log that   *)
(* is before it: never to one that was lost with its query, never to one    *)
(* that lost its number to another.                                         *)
LinksAreStored ==
    \A n \in DOMAIN events :
        \E prev \in {genesisHash} \cup {events[m].hash : m \in 0 .. (n - 1)} :
            events[n].hash = nextEventHash(prev, events[n].payload)

(* The log of a match verifies (verifyEventChain).  After a restart, or     *)
(* when two handlers hash before either records, the next event is not      *)
(* chained to the last one.                                                 *)
ChainVerifies == \A n \in DOMAIN events : linked(n)

=============================================================================
