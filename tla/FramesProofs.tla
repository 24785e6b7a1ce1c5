---------------------------- MODULE FramesProofs ----------------------------
(***************************************************************************)
(* Proofs about the log of a match (EventChain), for any number of         *)
(* handlers, payloads and events, and about the gate and the bus of frames *)
(* (MessageGate, FrameBus), as they are put together in MCFrames: for any  *)
(* number of frames, messages, instances, devices, sockets and faults.     *)
(*                                                                         *)
(* The log.  A handler has counted as many events as there are, or fewer;  *)
(* memory and every hash on its way to the log were chained to an event    *)
(* that the log had.                                                       *)
(*                                                                         *)
(* The gate.  The invariant gives each counted frame its rank in its       *)
(* second.  Ranks of a second are distinct and have no gap, and INCR gives *)
(* the next one because the RATE key of a second outlives every INCR of    *)
(* it; so MaxMessages bounds the frames handled, and a refused frame had   *)
(* MaxMessages before it.  Two frames of one message are SeenSeconds apart *)
(* because the SEEN key of the earlier one was still there until then.     *)
(*                                                                         *)
(* The bus.  The invariant follows a frame on its way: what an instance    *)
(* has yet to publish is after what Redis has of it, and that after what   *)
(* any socket elsewhere was handed of it.                                  *)
(***************************************************************************)
EXTENDS MCFrames, FiniteSetTheorems, SequenceTheorems, TLAPS

-----------------------------------------------------------------------------
(* The log.                                                                 *)

(* The hashes the next event may be chained to. *)
Stored == {genesisHash} \cup {events[m].hash : m \in DOMAIN events}

(* The number a handler has counted is taken or the next one. *)
CountedOnce == \A h \in Handlers : record[h].at = "append" => record[h].seq =< count

(* Memory and every hash being recorded are anchored in the log. *)
Anchored ==
    /\ eventHash \in Stored
    /\ \A h \in Handlers : record[h].at # "none" =>
          \E prev \in Stored : record[h].hash = nextEventHash(prev, record[h].payload)
    /\ \A h \in Handlers : record[h].at = "answer" => record[h].hash \in Stored

LogInv == TypeOK /\ NoHoles /\ CountedOnce /\ LinksAreStored /\ Anchored

(* The number of events of a log that has no holes. *)
LEMMA CountOfInterval ==
    ASSUME NEW D, IsFiniteSet(D), D = 0 .. (Cardinality(D) - 1)
    PROVE  Cardinality(D) \in Nat /\ Cardinality(D) \notin D
<1>1. Cardinality(D) \in Nat
  BY FS_CardinalityType
<1> QED
  BY <1>1

(* One more event at the end is one more in the count. *)
LEMMA NextInterval ==
    ASSUME NEW D, IsFiniteSet(D), D = 0 .. (Cardinality(D) - 1)
    PROVE  /\ IsFiniteSet(D \cup {Cardinality(D)})
           /\ Cardinality(D \cup {Cardinality(D)}) = Cardinality(D) + 1
           /\ D \cup {Cardinality(D)} = 0 .. (Cardinality(D \cup {Cardinality(D)}) - 1)
<1>1. Cardinality(D) \in Nat /\ Cardinality(D) \notin D
  BY CountOfInterval
<1>2. IsFiniteSet(D \cup {Cardinality(D)}) /\ Cardinality(D \cup {Cardinality(D)}) = Cardinality(D) + 1
  BY <1>1, FS_AddElement
<1>3. D \cup {Cardinality(D)} = 0 .. Cardinality(D)
  BY <1>1
<1>4. (Cardinality(D) + 1) - 1 = Cardinality(D)
  BY <1>1
<1>5. D \cup {Cardinality(D)} = 0 .. (Cardinality(D \cup {Cardinality(D)}) - 1)
  BY <1>2, <1>3, <1>4, Zenon
<1> QED
  BY <1>2, <1>5

LEMMA HashType ==
    ASSUME NEW prev \in Hashes, NEW p \in Payloads
    PROVE  nextEventHash(prev, p) \in Hashes
  BY DEF nextEventHash, Hashes

LEMMA LogBegins == Init => LogInv
<1> SUFFICES ASSUME Init PROVE LogInv
  OBVIOUS
<1>1. DOMAIN events = {}
  BY DEF Init
<1>2. IsFiniteSet({}) /\ Cardinality({}) = 0
  BY FS_EmptySet
<1>3. TypeOK
  <2>1. eventHash \in Hashes
    BY DEF Init, genesisHash, Hashes
  <2> QED
    BY <1>1, <1>2, <2>1 DEF Init, TypeOK, Records, Idle
<1>4. NoHoles
  BY <1>1, <1>2 DEF NoHoles, count
<1>5. CountedOnce /\ LinksAreStored /\ Anchored
  BY <1>1 DEF Init, Idle, CountedOnce, LinksAreStored, Anchored, Stored
<1> QED
  BY <1>3, <1>4, <1>5 DEF LogInv

(* A step that leaves the log as it is keeps what is said of the log alone. *)
LEMMA SameLog ==
    ASSUME LogInv, UNCHANGED events
    PROVE  NoHoles' /\ LinksAreStored' /\ Stored' = Stored /\ count' = count
  BY DEF LogInv, NoHoles, LinksAreStored, Stored, count, genesisHash, nextEventHash

LEMMA HashStep ==
    ASSUME LogInv, NEW h \in Handlers, NEW p \in Payloads, HashEvent(h, p)
    PROVE  LogInv'
<1> DEFINE new == [at |-> "list", hash |-> nextEventHash(eventHash, p), payload |-> p]
<1> USE DEF LogInv
<1>1. record' = [record EXCEPT ![h] = new] /\ UNCHANGED <<events, eventHash>>
  BY DEF HashEvent
<1>2. new \in Records
  BY HashType DEF TypeOK, Records
<1>3. NoHoles' /\ LinksAreStored' /\ Stored' = Stored /\ count' = count
  BY <1>1, SameLog
<1>4. TypeOK'
  BY <1>1, <1>2 DEF TypeOK
<1>5. CountedOnce'
  BY <1>1, <1>3 DEF CountedOnce, TypeOK
<1>6. Anchored'
  <2>1. eventHash' \in Stored'
    BY <1>1, <1>3 DEF Anchored
  <2>2. ASSUME NEW g \in Handlers, record'[g].at # "none"
        PROVE  \E prev \in Stored' : record'[g].hash = nextEventHash(prev, record'[g].payload)
    <3>1. CASE g = h
      <4>1. record'[g] = new
        BY <1>1, <3>1 DEF TypeOK
      <4> QED
        BY <4>1, <1>3 DEF Anchored
    <3>2. CASE g # h
      <4>1. record'[g] = record[g]
        BY <1>1, <3>2 DEF TypeOK
      <4> QED
        BY <4>1, <1>3, <2>2 DEF Anchored
    <3> QED
      BY <3>1, <3>2
  <2>3. ASSUME NEW g \in Handlers, record'[g].at = "answer"
        PROVE  record'[g].hash \in Stored'
    <3>1. g # h /\ record'[g] = record[g]
      BY <1>1, <2>3 DEF TypeOK
    <3> QED
      BY <3>1, <1>3, <2>3 DEF Anchored
  <2> QED
    BY <2>1, <2>2, <2>3 DEF Anchored, nextEventHash
<1> QED
  BY <1>3, <1>4, <1>5, <1>6

(* What a record is, by the query it waits for. *)
LEMMA RecordFields ==
    ASSUME TypeOK, NEW h \in Handlers, record[h].at # "none"
    PROVE  /\ record[h].hash \in Hashes
           /\ record[h].payload \in Payloads
           /\ record[h].at \in {"append", "answer"} => record[h].seq \in Nat
           /\ record[h].at \in {"list", "append", "answer"}
  BY DEF TypeOK, Records, Idle

LEMMA ListStep ==
    ASSUME LogInv, NEW h \in Handlers, ListEvents(h)
    PROVE  LogInv'
<1> DEFINE new == [at |-> "append", hash |-> record[h].hash, payload |-> record[h].payload, seq |-> count]
<1> USE DEF LogInv
<1>1. record' = [record EXCEPT ![h] = new] /\ UNCHANGED <<events, eventHash>> /\ record[h].at = "list"
  BY DEF ListEvents, nextSeq
<1>2. count \in Nat
  BY FS_CardinalityType DEF TypeOK, count
<1>3. new \in Records
  BY <1>1, <1>2, RecordFields DEF Records
<1>4. NoHoles' /\ LinksAreStored' /\ Stored' = Stored /\ count' = count
  BY <1>1, SameLog
<1>5. TypeOK'
  BY <1>1, <1>3 DEF TypeOK
<1>6. \A g \in Handlers : record'[g] = IF g = h THEN new ELSE record[g]
  BY <1>1 DEF TypeOK
<1>7. CountedOnce'
  BY <1>2, <1>4, <1>6 DEF CountedOnce
<1>8. Anchored'
  BY <1>1, <1>4, <1>6 DEF Anchored, nextEventHash
<1> QED
  BY <1>4, <1>5, <1>7, <1>8

(* An event that is recorded gets the next number. *)
LEMMA AppendedIsNext ==
    ASSUME LogInv, NEW h \in Handlers, AppendEvent(h), free(record[h].seq)
    PROVE  /\ record[h].seq = count /\ count \in Nat
           /\ DOMAIN events' = DOMAIN events \cup {count}
           /\ events'[count] = [hash |-> record[h].hash, payload |-> record[h].payload]
           /\ \A n \in DOMAIN events : events'[n] = events[n]
           /\ IsFiniteSet(DOMAIN events') /\ count' = count + 1
           /\ DOMAIN events' = 0 .. (count' - 1)
<1> USE DEF LogInv
<1>1. count \in Nat /\ count \notin DOMAIN events
  BY CountOfInterval DEF TypeOK, NoHoles, count
<1>2. record[h].seq \in Nat /\ record[h].seq =< count
  BY RecordFields DEF AppendEvent, CountedOnce
<1>3. record[h].seq = count
  BY <1>1, <1>2 DEF free, NoHoles
<1>4. /\ DOMAIN events' = DOMAIN events \cup {count}
      /\ events'[count] = [hash |-> record[h].hash, payload |-> record[h].payload]
      /\ \A n \in DOMAIN events : events'[n] = events[n]
  BY <1>1, <1>3 DEF AppendEvent
<1>5. IsFiniteSet(DOMAIN events') /\ count' = count + 1 /\ DOMAIN events' = 0 .. (count' - 1)
  BY <1>4, NextInterval DEF TypeOK, NoHoles, count
<1> QED
  BY <1>1, <1>3, <1>4, <1>5

LEMMA AppendStep ==
    ASSUME LogInv, NEW h \in Handlers, AppendEvent(h)
    PROVE  LogInv'
<1> USE DEF LogInv
<1>1. CASE free(record[h].seq)
  <2> DEFINE row == [hash |-> record[h].hash, payload |-> record[h].payload]
  <2>1. /\ record[h].seq = count /\ count \in Nat
        /\ DOMAIN events' = DOMAIN events \cup {count}
        /\ events'[count] = row
        /\ \A n \in DOMAIN events : events'[n] = events[n]
        /\ IsFiniteSet(DOMAIN events') /\ count' = count + 1
        /\ DOMAIN events' = 0 .. (count' - 1)
    BY <1>1, AppendedIsNext
  <2>2. record[h].at = "append" /\ eventHash' = eventHash
        /\ record' = [record EXCEPT ![h].at = "answer"]
    BY <1>1 DEF AppendEvent
  <2>3. row \in Rows
    BY <2>2, RecordFields DEF Rows
  <2>4. record'[h] = [record[h] EXCEPT !.at = "answer"] /\ \A g \in Handlers \ {h} : record'[g] = record[g]
    BY <2>2 DEF TypeOK
  <2>5. record[h] \in [at : {"append", "answer"}, hash : Hashes, payload : Payloads, seq : Nat]
    BY <2>2 DEF TypeOK, Records, Idle
  <2>6. record'[h].at = "answer" /\ record'[h].hash = record[h].hash /\ record'[h].payload = record[h].payload
        /\ record'[h] \in Records
    BY <2>4, <2>5 DEF Records
  <2>7. TypeOK'
    <3>1. record' \in [Handlers -> Records]
      BY <2>2, <2>6 DEF TypeOK
    <3> QED
      BY <2>1, <2>2, <2>3, <3>1 DEF TypeOK
  <2>8. NoHoles'
    BY <2>1 DEF NoHoles
  <2>9. CountedOnce'
    <3> SUFFICES ASSUME NEW g \in Handlers, record'[g].at = "append"
                 PROVE  record'[g].seq =< count'
      BY DEF CountedOnce
    <3>1. g # h /\ record'[g] = record[g]
      BY <2>4, <2>6
    <3>2. record[g].seq \in Nat /\ record[g].seq =< count
      BY <3>1, RecordFields DEF CountedOnce
    <3> QED
      BY <2>1, <3>1, <3>2
  <2>10. Stored' = Stored \cup {record[h].hash}
    <3>1. \A n \in DOMAIN events' : events'[n].hash = IF n = count THEN record[h].hash ELSE events[n].hash
      BY <2>1
    <3>2. count \notin DOMAIN events
      BY <2>1 DEF NoHoles
    <3> QED
      BY <2>1, <3>1, <3>2 DEF Stored, genesisHash
  <2>11. LinksAreStored'
    <3> SUFFICES ASSUME NEW n \in DOMAIN events'
                 PROVE  \E prev \in {genesisHash} \cup {events'[m].hash : m \in 0 .. (n - 1)} :
                            events'[n].hash = nextEventHash(prev, events'[n].payload)
      BY DEF LinksAreStored, genesisHash, nextEventHash
    <3>1. CASE n = count
      <4>1. PICK prev \in Stored : record[h].hash = nextEventHash(prev, record[h].payload)
        BY <2>2 DEF Anchored
      <4>2. prev \in {genesisHash} \cup {events'[m].hash : m \in 0 .. (count - 1)}
        BY <4>1, <2>1 DEF Stored, NoHoles
      <4> QED
        BY <3>1, <4>1, <4>2, <2>1
    <3>2. CASE n \in DOMAIN events
      <4>1. PICK prev \in {genesisHash} \cup {events[m].hash : m \in 0 .. (n - 1)} :
                    events[n].hash = nextEventHash(prev, events[n].payload)
        BY <3>2 DEF LinksAreStored
      <4>2. \A m \in 0 .. (n - 1) : events'[m] = events[m]
        BY <3>2, <2>1 DEF NoHoles
      <4> QED
        BY <3>2, <4>1, <4>2, <2>1
    <3> QED
      BY <3>1, <3>2, <2>1
  <2>12. Anchored'
    <3>1. eventHash' \in Stored'
      BY <2>2, <2>10 DEF Anchored
    <3>2. ASSUME NEW g \in Handlers, record'[g].at # "none"
          PROVE  \E prev \in Stored' : record'[g].hash = nextEventHash(prev, record'[g].payload)
      <4>1. record[g].at # "none" /\ record'[g].hash = record[g].hash /\ record'[g].payload = record[g].payload
        BY <2>2, <2>4, <2>6, <3>2
      <4> QED
        BY <4>1, <2>10 DEF Anchored
    <3>3. ASSUME NEW g \in Handlers, record'[g].at = "answer"
          PROVE  record'[g].hash \in Stored'
      BY <2>4, <2>6, <2>10, <3>3 DEF Anchored
    <3> QED
      BY <3>1, <3>2, <3>3 DEF Anchored, nextEventHash
  <2> QED
    BY <2>7, <2>8, <2>9, <2>11, <2>12
<1>2. CASE ~free(record[h].seq)
  <2>1. record' = [record EXCEPT ![h] = Idle] /\ UNCHANGED <<events, eventHash>>
    BY <1>2 DEF AppendEvent
  <2>2. NoHoles' /\ LinksAreStored' /\ Stored' = Stored /\ count' = count
    BY <2>1, SameLog
  <2>3. \A g \in Handlers : record'[g] = IF g = h THEN Idle ELSE record[g]
    BY <2>1 DEF TypeOK
  <2>4. TypeOK'
    BY <2>1 DEF TypeOK, Records
  <2>5. CountedOnce' /\ Anchored'
    BY <2>1, <2>2, <2>3 DEF CountedOnce, Anchored, Idle, nextEventHash
  <2> QED
    BY <2>2, <2>4, <2>5
<1> QED
  BY <1>1, <1>2

LEMMA RecordedStep ==
    ASSUME LogInv, NEW h \in Handlers, Recorded(h)
    PROVE  LogInv'
<1> USE DEF LogInv
<1>1. /\ record' = [record EXCEPT ![h] = Idle] /\ UNCHANGED events
      /\ eventHash' = record[h].hash /\ record[h].at = "answer"
  BY DEF Recorded
<1>2. NoHoles' /\ LinksAreStored' /\ Stored' = Stored /\ count' = count
  BY <1>1, SameLog
<1>3. \A g \in Handlers : record'[g] = IF g = h THEN Idle ELSE record[g]
  BY <1>1 DEF TypeOK
<1>4. TypeOK'
  BY <1>1, RecordFields DEF TypeOK, Records
<1>5. CountedOnce' /\ Anchored'
  BY <1>1, <1>2, <1>3 DEF CountedOnce, Anchored, Idle, nextEventHash
<1> QED
  BY <1>2, <1>4, <1>5

LEMMA FailStep ==
    ASSUME LogInv, NEW h \in Handlers, QueryFails(h)
    PROVE  LogInv'
<1> USE DEF LogInv
<1>1. record' = [record EXCEPT ![h] = Idle] /\ UNCHANGED <<events, eventHash>>
  BY DEF QueryFails
<1>2. NoHoles' /\ LinksAreStored' /\ Stored' = Stored /\ count' = count
  BY <1>1, SameLog
<1>3. \A g \in Handlers : record'[g] = IF g = h THEN Idle ELSE record[g]
  BY <1>1 DEF TypeOK
<1>4. TypeOK'
  BY <1>1 DEF TypeOK, Records
<1>5. CountedOnce' /\ Anchored'
  BY <1>1, <1>2, <1>3 DEF CountedOnce, Anchored, Idle, nextEventHash
<1> QED
  BY <1>2, <1>4, <1>5

LEMMA RestartStep ==
    ASSUME LogInv, Restart
    PROVE  LogInv'
<1> USE DEF LogInv
<1>1. record' = [h \in Handlers |-> Idle] /\ UNCHANGED events /\ eventHash' = genesisHash
  BY DEF Restart
<1>2. NoHoles' /\ LinksAreStored' /\ Stored' = Stored /\ count' = count
  BY <1>1, SameLog
<1>3. TypeOK'
  BY <1>1 DEF TypeOK, Records, genesisHash, Hashes
<1>4. CountedOnce' /\ Anchored'
  BY <1>1, <1>2 DEF CountedOnce, Anchored, Idle, Stored
<1> QED
  BY <1>2, <1>3, <1>4

LEMMA StutterStep ==
    ASSUME LogInv, UNCHANGED vars
    PROVE  LogInv'
<1>1. NoHoles' /\ LinksAreStored' /\ Stored' = Stored /\ count' = count
  BY SameLog DEF vars
<1>2. TypeOK' /\ CountedOnce' /\ Anchored'
  BY <1>1 DEF vars, LogInv, TypeOK, CountedOnce, Anchored, nextEventHash
<1> QED
  BY <1>1, <1>2 DEF LogInv

LEMMA LogStep == LogInv /\ [Next]_vars => LogInv'
<1> SUFFICES ASSUME LogInv, [Next]_vars PROVE LogInv'
  OBVIOUS
<1>1. ASSUME NEW h \in Handlers, NEW p \in Payloads, HashEvent(h, p) PROVE LogInv'
  BY <1>1, HashStep
<1>2. ASSUME NEW h \in Handlers, ListEvents(h) PROVE LogInv'
  BY <1>2, ListStep
<1>3. ASSUME NEW h \in Handlers, AppendEvent(h) PROVE LogInv'
  BY <1>3, AppendStep
<1>4. ASSUME NEW h \in Handlers, Recorded(h) PROVE LogInv'
  BY <1>4, RecordedStep
<1>5. ASSUME NEW h \in Handlers, QueryFails(h) PROVE LogInv'
  BY <1>5, FailStep
<1>6. CASE Restart
  BY <1>6, RestartStep
<1>7. CASE UNCHANGED vars
  BY <1>7, StutterStep
<1> QED
  BY <1>1, <1>2, <1>3, <1>4, <1>5, <1>6, <1>7 DEF Next

(* The inductive invariant holds of every behaviour. *)
THEOREM LogInvariant == Spec => []LogInv
  BY LogBegins, LogStep, PTL DEF Spec

(* Every state of the log, its memory and its handlers is well formed. *)
THEOREM LogTypeCorrect == Spec => []TypeOK
<1>1. LogInv => TypeOK
  BY DEF LogInv
<1> QED
  BY <1>1, LogInvariant, PTL

(* The log has no holes, however many handlers count at once (recordEvent). *)
THEOREM LogHasNoHoles == Spec => []NoHoles
<1>1. LogInv => NoHoles
  BY DEF LogInv
<1> QED
  BY <1>1, LogInvariant, PTL

(* No event is chained to one that is not in the log before it. *)
THEOREM LogLinksAreStored == Spec => []LinksAreStored
<1>1. LogInv => LinksAreStored
  BY DEF LogInv
<1> QED
  BY <1>1, LogInvariant, PTL

(* No step of the program changes or removes an event. *)
LEMMA StepAppends ==
    ASSUME LogInv, [Next]_vars
    PROVE  \/ events' = events
           \/ /\ DOMAIN events' = DOMAIN events \cup {count}
              /\ \A n \in DOMAIN events : events'[n] = events[n]
<1>1. ASSUME NEW h \in Handlers, AppendEvent(h), free(record[h].seq)
      PROVE  /\ DOMAIN events' = DOMAIN events \cup {count}
             /\ \A n \in DOMAIN events : events'[n] = events[n]
  BY <1>1, AppendedIsNext
<1>2. ASSUME NEW h \in Handlers, AppendEvent(h), ~free(record[h].seq) PROVE events' = events
  BY <1>2 DEF AppendEvent
<1>3. ASSUME NEW h \in Handlers,
             (\E p \in Payloads : HashEvent(h, p)) \/ ListEvents(h) \/ Recorded(h) \/ QueryFails(h)
      PROVE  events' = events
  BY <1>3 DEF HashEvent, ListEvents, Recorded, QueryFails
<1>4. Restart \/ UNCHANGED vars => events' = events
  BY DEF Restart, vars
<1> QED
  BY <1>1, <1>2, <1>3, <1>4 DEF Next

(* The log only grows, event by event (match_events, PRIMARY KEY (match_id, seq)). *)
THEOREM LogAppendOnly == Spec => AppendOnly
<1>1. LogInv /\ [Next]_vars =>
        [\/ events' = events
         \/ /\ DOMAIN events' = DOMAIN events \cup {count}
            /\ \A n \in DOMAIN events : events'[n] = events[n]]_vars
  BY StepAppends
<1> QED
  BY <1>1, LogInvariant, PTL DEF Spec, AppendOnly

-----------------------------------------------------------------------------
(* The gate.                                                                *)

(* A frame whose window is chosen; one that was found new; one that INCR    *)
(* has counted.                                                             *)
CountedFrames ==
    [at : Gate!Counted, message : MessageIds, since : Gate!Seconds,
     window : Gate!Seconds, count : Nat]

passed(f) == frame[f].at \in {"clock"} \cup Gate!Counted
ranked(f) == frame[f].at \in Gate!Counted \ {"incr"}
taken(w, n) == \E g \in Frames : ranked(g) /\ frame[g].window = w /\ frame[g].count = n

(* The SEEN key of a frame that was let in lives for SeenSeconds ...        *)
SeenHeld ==
    \A f \in Frames : passed(f) =>
        /\ frame[f].since <= now
        /\ now < frame[f].since + SeenSeconds
             => seen[frame[f].message] >= frame[f].since + SeenSeconds

(* ... so that another with its message is let in after that.               *)
MessagesApart ==
    \A f, g \in Frames :
        f # g /\ passed(f) /\ passed(g) /\ frame[f].message = frame[g].message
        => \/ frame[g].since >= frame[f].since + SeenSeconds
           \/ frame[f].since >= frame[g].since + SeenSeconds

SeenInv == SeenHeld /\ MessagesApart

(* A frame is counted in its second or the next one ...                     *)
IncrInTime == \A f \in Frames : frame[f].at = "incr" => now <= frame[f].window + 1

(* ... and the key of a second does not lapse before.                       *)
KeysOutliveSecond ==
    \A w \in Gate!Seconds : rate[w].lapses \in Nat => rate[w].lapses > w + 1

(* Until then the count of the key is the last rank given in its second.    *)
CountIsLastRank ==
    \A w \in Gate!Seconds : now <= w + 1 =>
        /\ \A n \in 1..rate[w].count : taken(w, n)
        /\ \A f \in Frames : ranked(f) /\ frame[f].window = w
                               => frame[f].count <= rate[w].count

(* A rank means that all before it were given, each to one frame.           *)
RanksHaveNoGaps ==
    \A f \in Frames : ranked(f) =>
        /\ frame[f].count >= 1
        /\ \A n \in 1..frame[f].count : taken(frame[f].window, n)

RanksDiffer ==
    \A f, g \in Frames :
        f # g /\ ranked(f) /\ ranked(g) /\ frame[f].window = frame[g].window
        => frame[f].count # frame[g].count

(* The rank decides.                                                        *)
LimitDecides ==
    \A f \in Frames :
        /\ frame[f].at = "handled" => frame[f].count <= MaxMessages
        /\ frame[f].at = "RATE_LIMIT" => frame[f].count > MaxMessages

RateInv ==
    /\ IncrInTime /\ KeysOutliveSecond
    /\ CountIsLastRank /\ RanksHaveNoGaps /\ RanksDiffer /\ LimitDecides

GateInv == Gate!TypeOK /\ SeenInv /\ RateInv

(* Whatever its frame is at, the record has the fields that belong to it.   *)
LEMMA NotSentYet == Gate!NotSent.at = "not sent"
  BY DEF Gate!NotSent

LEMMA FrameKinds ==
    ASSUME NEW x \in Gate!FrameStates
    PROVE  /\ x.at = "set" => x \in [at : {"set", "REPLAY"}, message : MessageIds]
           /\ x.at = "clock" => x \in [at : {"clock"}, message : MessageIds,
                                       since : Gate!Seconds]
           /\ x.at \in Gate!Counted => x \in CountedFrames
<1>1. CASE x = Gate!NotSent
  BY <1>1 DEF Gate!NotSent, Gate!Counted
<1>2. CASE x \in [at : {"set", "REPLAY"}, message : MessageIds]
  BY <1>2 DEF Gate!Counted
<1>3. CASE x \in [at : {"clock"}, message : MessageIds, since : Gate!Seconds]
  <2>1. x.at = "clock"
    BY <1>3
  <2> QED
    BY <1>3, <2>1 DEF Gate!Counted
<1>4. CASE x \in CountedFrames
  <2>1. x.at \in Gate!Counted
    BY <1>4 DEF CountedFrames
  <2> QED
    BY <1>4, <2>1 DEF Gate!Counted
<1> QED
  BY <1>1, <1>2, <1>3, <1>4, Zenon DEF Gate!FrameStates, CountedFrames

LEMMA GateBegins ==
    ASSUME Gate!Init
    PROVE  GateInv
<1>1. \A f \in Frames : frame[f] = Gate!NotSent /\ frame[f].at = "not sent"
  BY DEF Gate!Init, Gate!NotSent
<1>2. Gate!TypeOK
  <2>1. now \in Gate!Seconds
    BY GateConstants DEF Gate!Init, Gate!Seconds, Gate!GateAssumption
  <2>2. seen \in [MessageIds -> {Gate!Gone} \cup now + 1..now + SeenSeconds]
    BY DEF Gate!Init
  <2>3. /\ rate \in [Gate!Seconds -> [count : Nat, lapses : Nat \cup {Gate!Never}]]
        /\ \A w \in Gate!Seconds : rate[w].lapses \in Nat => now < rate[w].lapses
    BY DEF Gate!Init, Gate!NoRate, Gate!Never
  <2>4. frame \in [Frames -> Gate!FrameStates]
    BY DEF Gate!Init, Gate!FrameStates
  <2> QED
    BY <1>1, <2>1, <2>2, <2>3, <2>4 DEF Gate!TypeOK, Gate!Counted
<1>3. SeenInv
  BY <1>1 DEF SeenInv, SeenHeld, MessagesApart, passed, Gate!Counted
<1>4. \A f \in Frames : ~ ranked(f)
  BY <1>1 DEF ranked, Gate!Counted
<1>5. \A w \in Gate!Seconds : rate[w].count = 0 /\ rate[w].lapses \notin Nat
  BY DEF Gate!Init, Gate!NoRate, Gate!Never
<1>6. IncrInTime /\ KeysOutliveSecond /\ LimitDecides
  BY <1>1, <1>5 DEF IncrInTime, KeysOutliveSecond, LimitDecides
<1>7. CountIsLastRank /\ RanksHaveNoGaps /\ RanksDiffer
  BY <1>4, <1>5 DEF CountIsLastRank, RanksHaveNoGaps, RanksDiffer
<1> QED
  BY <1>2, <1>3, <1>6, <1>7 DEF GateInv, RateInv

(* A step that lets no message in and leaves the SEEN keys alone.           *)
LEMMA SeenStays ==
    ASSUME SeenInv, now' = now, seen' = seen,
           \A g \in Frames : passed(g)' => /\ passed(g)
                                           /\ frame'[g].message = frame[g].message
                                           /\ frame'[g].since = frame[g].since
    PROVE  SeenInv'
  BY DEF SeenInv, SeenHeld, MessagesApart

(* A step that gives no rank and leaves the RATE keys alone.                *)
LEMMA RateStays ==
    ASSUME RateInv, now' = now, rate' = rate, IncrInTime',
           \A g \in Frames : /\ ranked(g)' <=> ranked(g)
                             /\ ranked(g) => frame'[g] = frame[g]
    PROVE  RateInv'
<1>1. \A w, n : taken(w, n)' <=> taken(w, n)
  BY DEF taken
<1>2. \A g \in Frames : frame'[g].at \in {"handled", "RATE_LIMIT"} => frame'[g] = frame[g]
  BY DEF ranked, Gate!Counted
<1>3. KeysOutliveSecond' /\ CountIsLastRank' /\ RanksHaveNoGaps' /\ RanksDiffer' /\ LimitDecides'
  BY <1>1, <1>2 DEF RateInv, KeysOutliveSecond, CountIsLastRank, RanksHaveNoGaps, RanksDiffer,
     LimitDecides
<1> QED
  BY <1>3 DEF RateInv

(* The state of a frame after a step, and that no other frame moves.        *)
LEMMA FrameMoves ==
    ASSUME Gate!TypeOK, NEW f \in Frames, NEW x \in Gate!FrameStates, Gate!goto(f, x)
    PROVE  /\ frame' \in [Frames -> Gate!FrameStates]
           /\ frame'[f] = x
           /\ \A g \in Frames : g # f => frame'[g] = frame[g]
  BY DEF Gate!TypeOK, Gate!goto

LEMMA ReceiveKeeps ==
    ASSUME GateInv, NEW f \in Frames, NEW m \in MessageIds, Gate!Receive(f, m)
    PROVE  GateInv'
<1> DEFINE x == [at |-> "set", message |-> m]
<1>1. x \in Gate!FrameStates
  BY DEF Gate!FrameStates
<1>2. Gate!goto(f, x) /\ frame[f].at = "not sent" /\ UNCHANGED <<now, seen, rate>>
  <2>1. frame[f] = Gate!NotSent
    BY DEF Gate!Receive
  <2>2. frame[f].at = "not sent"
    BY <2>1, NotSentYet
  <2> QED
    BY <2>2 DEF Gate!Receive
<1>3. x.at = "set"
  OBVIOUS
<1> HIDE DEF x
<1>4. /\ frame' \in [Frames -> Gate!FrameStates] /\ frame'[f] = x
      /\ \A g \in Frames : g # f => frame'[g] = frame[g]
  BY <1>1, <1>2, FrameMoves DEF GateInv
<1>5. Gate!TypeOK'
  BY <1>2, <1>3, <1>4 DEF GateInv, Gate!TypeOK, Gate!Counted
<1>6. SeenInv'
  BY <1>2, <1>3, <1>4, SeenStays DEF GateInv, passed, Gate!Counted
<1>7. IncrInTime'
  BY <1>2, <1>3, <1>4 DEF GateInv, RateInv, IncrInTime
<1>8. RateInv'
  BY <1>2, <1>3, <1>4, <1>7, RateStays DEF GateInv, ranked, Gate!Counted
<1> QED
  BY <1>5, <1>6, <1>8 DEF GateInv

LEMMA RefuseReplayKeeps ==
    ASSUME GateInv, NEW f \in Frames, Gate!RefuseReplay(f)
    PROVE  GateInv'
<1> DEFINE x == [frame[f] EXCEPT !.at = "REPLAY"]
<1>1. x \in Gate!FrameStates /\ x.at = "REPLAY"
  <2>1. frame[f] \in [at : {"set", "REPLAY"}, message : MessageIds]
    BY FrameKinds DEF GateInv, Gate!TypeOK, Gate!RefuseReplay
  <2>2. x \in [at : {"set", "REPLAY"}, message : MessageIds] /\ x.at = "REPLAY"
    BY <2>1
  <2> QED
    BY <2>2 DEF Gate!FrameStates
<1>2. Gate!goto(f, x) /\ frame[f].at = "set" /\ UNCHANGED <<now, seen, rate>>
  BY DEF Gate!RefuseReplay
<1> HIDE DEF x
<1>4. /\ frame' \in [Frames -> Gate!FrameStates] /\ frame'[f] = x
      /\ \A g \in Frames : g # f => frame'[g] = frame[g]
  BY <1>1, <1>2, FrameMoves DEF GateInv
<1>5. Gate!TypeOK'
  BY <1>1, <1>2, <1>4 DEF GateInv, Gate!TypeOK, Gate!Counted
<1>6. SeenInv'
  BY <1>1, <1>2, <1>4, SeenStays DEF GateInv, passed, Gate!Counted
<1>7. IncrInTime'
  BY <1>1, <1>2, <1>4 DEF GateInv, RateInv, IncrInTime
<1>8. RateInv'
  BY <1>1, <1>2, <1>4, <1>7, RateStays DEF GateInv, ranked, Gate!Counted
<1> QED
  BY <1>5, <1>6, <1>8 DEF GateInv

LEMMA ChooseWindowKeeps ==
    ASSUME GateInv, NEW f \in Frames, Gate!ChooseWindow(f)
    PROVE  GateInv'
<1> DEFINE x == [at |-> "incr", message |-> frame[f].message,
                 since |-> frame[f].since, window |-> now, count |-> 0]
<1>1. /\ x \in Gate!FrameStates
      /\ x.at = "incr" /\ x.window = now
      /\ x.message = frame[f].message /\ x.since = frame[f].since
  <2>1. frame[f] \in [at : {"clock"}, message : MessageIds, since : Gate!Seconds]
    BY FrameKinds DEF GateInv, Gate!TypeOK, Gate!ChooseWindow
  <2>2. x \in CountedFrames
    BY <2>1 DEF GateInv, Gate!TypeOK, CountedFrames, Gate!Counted
  <2> QED
    BY <2>2 DEF Gate!FrameStates, CountedFrames
<1>2. Gate!goto(f, x) /\ frame[f].at = "clock" /\ UNCHANGED <<now, seen, rate>>
  BY DEF Gate!ChooseWindow
<1>3. now \in Nat /\ frame[f].since <= now
  BY <1>2, GateConstants DEF GateInv, Gate!TypeOK, SeenInv, SeenHeld, passed, Gate!Seconds,
     Gate!GateAssumption
<1> HIDE DEF x
<1>4. /\ frame' \in [Frames -> Gate!FrameStates] /\ frame'[f] = x
      /\ \A g \in Frames : g # f => frame'[g] = frame[g]
  BY <1>1, <1>2, FrameMoves DEF GateInv
<1>5. Gate!TypeOK'
  BY <1>1, <1>2, <1>3, <1>4 DEF GateInv, Gate!TypeOK
<1>6. SeenInv'
  BY <1>1, <1>2, <1>4, SeenStays DEF GateInv, passed, Gate!Counted
<1>7. IncrInTime'
  BY <1>1, <1>2, <1>3, <1>4 DEF GateInv, RateInv, IncrInTime
<1>8. RateInv'
  BY <1>1, <1>2, <1>4, <1>7, RateStays DEF GateInv, ranked, Gate!Counted
<1> QED
  BY <1>5, <1>6, <1>8 DEF GateInv

(* SET NX lets a message in when the SEEN key of every frame that had it    *)
(* lapsed: those are SeenSeconds old.                                       *)
LEMMA SetSeenKeeps ==
    ASSUME GateInv, NEW f \in Frames, Gate!SetSeen(f)
    PROVE  GateInv'
<1> DEFINE m == frame[f].message
           x == [at |-> "clock", message |-> m, since |-> now]
<1>1. m \in MessageIds /\ now \in Nat /\ now \in Gate!Seconds /\ SeenSeconds \in Nat \ {0}
  <2>1. frame[f] \in [at : {"set", "REPLAY"}, message : MessageIds]
    BY FrameKinds DEF GateInv, Gate!TypeOK, Gate!SetSeen
  <2> QED
    BY <2>1, GateConstants DEF GateInv, Gate!TypeOK, Gate!Seconds, Gate!GateAssumption
<1>2. /\ x \in Gate!FrameStates
      /\ x.at = "clock" /\ x.message = m /\ x.since = now
  BY <1>1 DEF Gate!FrameStates
<1>3. /\ Gate!goto(f, x) /\ frame[f].at = "set" /\ UNCHANGED <<now, rate>>
      /\ seen[m] = Gate!Gone
      /\ seen' = [seen EXCEPT ![m] = now + SeenSeconds]
  BY DEF Gate!SetSeen, Gate!isNew
<1> HIDE DEF x, m
<1>4. /\ frame' \in [Frames -> Gate!FrameStates] /\ frame'[f] = x
      /\ \A g \in Frames : g # f => frame'[g] = frame[g]
  BY <1>2, <1>3, FrameMoves DEF GateInv
<1>5. Gate!TypeOK'
  <2>1. seen' \in [MessageIds -> {Gate!Gone} \cup now + 1..now + SeenSeconds]
    BY <1>1, <1>3 DEF GateInv, Gate!TypeOK
  <2> QED
    BY <1>2, <1>3, <1>4, <2>1 DEF GateInv, Gate!TypeOK, Gate!Counted
<1>6. \A g \in Frames : passed(g) /\ frame[g].message = m
                          => g # f /\ now >= frame[g].since + SeenSeconds
  <2> SUFFICES ASSUME NEW g \in Frames, passed(g), frame[g].message = m
               PROVE  g # f /\ now >= frame[g].since + SeenSeconds
    OBVIOUS
  <2>1. g # f
    BY <1>3 DEF passed, Gate!Counted
  <2>2. frame[g].since \in Nat
    BY FrameKinds, GateConstants DEF GateInv, Gate!TypeOK, passed, CountedFrames, Gate!Seconds,
       Gate!GateAssumption
  <2>3. ~ now < frame[g].since + SeenSeconds
    BY <1>1, <1>3, <2>2 DEF GateInv, SeenInv, SeenHeld, Gate!Gone
  <2> QED
    BY <1>1, <2>1, <2>2, <2>3
<1>7. \A g \in Frames : g # f => (passed(g)' <=> passed(g))
  BY <1>4 DEF passed
<1>8. SeenHeld'
  <2> SUFFICES ASSUME NEW g \in Frames, passed(g)'
               PROVE  /\ frame'[g].since <= now'
                      /\ now' < frame'[g].since + SeenSeconds
                           => seen'[frame'[g].message] >= frame'[g].since + SeenSeconds
    BY DEF SeenHeld
  <2>1. CASE g = f
    BY <1>1, <1>2, <1>3, <1>4, <2>1 DEF GateInv, Gate!TypeOK
  <2>2. CASE g # f
    <3>1. passed(g) /\ frame'[g] = frame[g]
      BY <1>4, <1>7, <2>2
    <3>2. frame[g].message \in MessageIds
      BY <3>1, FrameKinds DEF GateInv, Gate!TypeOK, passed, CountedFrames
    <3>0. frame[g].since <= now /\ frame[g].since \in Nat
      BY <3>1, FrameKinds, GateConstants DEF GateInv, Gate!TypeOK, passed, CountedFrames,
         Gate!Seconds, Gate!GateAssumption, SeenInv, SeenHeld
    <3>3. CASE frame[g].message = m
      <4>1. now >= frame[g].since + SeenSeconds
        BY <1>6, <3>1, <3>3
      <4> QED
        BY <1>1, <1>3, <3>0, <3>1, <4>1
    <3>4. CASE frame[g].message # m
      BY <1>1, <1>3, <3>1, <3>2, <3>4 DEF GateInv, SeenInv, SeenHeld, Gate!TypeOK
    <3> QED
      BY <3>3, <3>4
  <2> QED
    BY <2>1, <2>2
<1>9. MessagesApart'
  BY <1>2, <1>3, <1>4, <1>6, <1>7 DEF GateInv, SeenInv, MessagesApart
<1>10. IncrInTime'
  BY <1>2, <1>3, <1>4 DEF GateInv, RateInv, IncrInTime
<1>11. RateInv'
  BY <1>2, <1>3, <1>4, <1>10, RateStays DEF GateInv, ranked, Gate!Counted
<1> QED
  BY <1>5, <1>8, <1>9, <1>11 DEF GateInv, SeenInv

(* INCR gives the next rank of its second, while the key of that second     *)
(* lives.                                                                   *)
LEMMA IncrKeeps ==
    ASSUME GateInv, NEW f \in Frames, Gate!Incr(f)
    PROVE  GateInv'
<1>1. frame[f] \in CountedFrames /\ frame[f].at = "incr"
  BY FrameKinds DEF GateInv, Gate!TypeOK, Gate!Incr, Gate!Counted
<1>0. PICK w \in Gate!Seconds : w = frame[f].window
  BY <1>1 DEF CountedFrames
<1>01. rate[w].count \in Nat
  <2>1. rate[w] \in [count : Nat, lapses : Nat \cup {Gate!Never}]
    BY DEF GateInv, Gate!TypeOK
  <2> QED
    BY <2>1
<1>02. PICK n \in Nat : n = rate[w].count + 1
  BY <1>01
<1> DEFINE x == [frame[f] EXCEPT !.at = "expire", !.count = n]
<1>2. w \in Nat /\ now \in Nat /\ now <= w + 1
  BY <1>0, <1>1, GateConstants DEF GateInv, Gate!TypeOK, RateInv, IncrInTime,
     Gate!Seconds, Gate!GateAssumption
<1>3. /\ x \in CountedFrames /\ x.at = "expire" /\ x.count = n /\ x.window = w
      /\ x.message = frame[f].message /\ x.since = frame[f].since
  BY <1>0, <1>1 DEF CountedFrames, Gate!Counted
<1>4. x \in Gate!FrameStates
  BY <1>3 DEF CountedFrames, Gate!FrameStates
<1>5. /\ Gate!goto(f, x) /\ UNCHANGED <<now, seen>>
      /\ rate' = [rate EXCEPT ![w].count = n]
  BY <1>0, <1>02 DEF Gate!Incr
<1>6. /\ rate' \in [Gate!Seconds -> [count : Nat, lapses : Nat \cup {Gate!Never}]]
      /\ rate'[w].count = n
      /\ \A u \in Gate!Seconds : /\ rate'[u].lapses = rate[u].lapses
                                 /\ u # w => rate'[u].count = rate[u].count
  BY <1>5 DEF GateInv, Gate!TypeOK
<1> HIDE DEF x
<1>7. /\ frame' \in [Frames -> Gate!FrameStates] /\ frame'[f] = x
      /\ \A g \in Frames : g # f => frame'[g] = frame[g]
  BY <1>4, <1>5, FrameMoves DEF GateInv
<1>8. Gate!TypeOK'
  <2>1. rate' \in [Gate!Seconds -> [count : Nat, lapses : Nat \cup {Gate!Never}]]
    BY <1>6
  <2>2. \A u \in Gate!Seconds : rate'[u].lapses \in Nat => now' < rate'[u].lapses
    BY <1>5, <1>6 DEF GateInv, Gate!TypeOK
  <2>3. \A g \in Frames : frame'[g].at \in Gate!Counted
                           => /\ frame'[g].since <= frame'[g].window
                              /\ frame'[g].window <= now'
    BY <1>0, <1>1, <1>3, <1>5, <1>7 DEF GateInv, Gate!TypeOK, Gate!Counted
  <2> QED
    BY <1>5, <1>7, <2>1, <2>2, <2>3 DEF GateInv, Gate!TypeOK
<1>9. SeenInv'
  BY <1>1, <1>3, <1>5, <1>7, SeenStays DEF GateInv, passed, Gate!Counted
<1>10. /\ ~ ranked(f) /\ ranked(f)'
       /\ \A g \in Frames : g # f => (ranked(g)' <=> ranked(g))
  BY <1>1, <1>3, <1>7 DEF ranked, Gate!Counted
<1>11. \A u, k : taken(u, k)' <=> (taken(u, k) \/ (u = w /\ k = n))
  <2> TAKE u, k
  <2>1. ASSUME taken(u, k) PROVE taken(u, k)'
    BY <1>7, <1>10, <2>1 DEF taken
  <2>2. ASSUME u = w, k = n PROVE taken(u, k)'
    BY <1>3, <1>7, <1>10, <2>2 DEF taken
  <2>3. ASSUME taken(u, k)' PROVE taken(u, k) \/ (u = w /\ k = n)
    BY <1>3, <1>7, <1>10, <2>3 DEF taken
  <2> QED
    BY <2>1, <2>2, <2>3
<1>12. \A k \in 1..rate[w].count : taken(w, k)
  BY <1>2 DEF GateInv, RateInv, CountIsLastRank
<1>13. \A g \in Frames : ranked(g) /\ frame[g].window = w => frame[g].count < n
  <2> SUFFICES ASSUME NEW g \in Frames, ranked(g), frame[g].window = w
               PROVE  frame[g].count < n
    OBVIOUS
  <2>1. frame[g].count \in Nat
    BY FrameKinds DEF GateInv, Gate!TypeOK, ranked, CountedFrames
  <2>2. frame[g].count <= rate[w].count
    BY <1>2 DEF GateInv, RateInv, CountIsLastRank
  <2> QED
    BY <1>01, <1>02, <2>1, <2>2
<1>14. IncrInTime'
  BY <1>3, <1>5, <1>7 DEF GateInv, RateInv, IncrInTime
<1>15. KeysOutliveSecond'
  BY <1>6 DEF GateInv, RateInv, KeysOutliveSecond
<1>16. \A k \in 1..n : taken(w, k)'
  BY <1>01, <1>02, <1>11, <1>12
<1>17. CountIsLastRank'
  <2> SUFFICES ASSUME NEW u \in Gate!Seconds, now' <= u + 1
               PROVE  /\ \A k \in 1..rate'[u].count : taken(u, k)'
                      /\ \A g \in Frames : ranked(g)' /\ frame'[g].window = u
                                             => frame'[g].count <= rate'[u].count
    BY DEF CountIsLastRank
  <2>1. CASE u = w
    <3>1. ASSUME NEW g \in Frames, ranked(g)', frame'[g].window = w
          PROVE  frame'[g].count <= n
      <4>1. CASE g = f
        BY <1>2, <1>3, <1>7, <4>1
      <4>2. CASE g # f
        <5>1. frame[g].count \in Nat
          BY <1>10, <3>1, <4>2, FrameKinds DEF GateInv, Gate!TypeOK, ranked, CountedFrames
        <5> QED
          BY <1>2, <1>7, <1>10, <1>13, <3>1, <4>2, <5>1
      <4> QED
        BY <4>1, <4>2
    <3> QED
      BY <1>6, <1>16, <2>1, <3>1
  <2>2. CASE u # w
    BY <1>3, <1>5, <1>6, <1>7, <1>10, <1>11, <2>2 DEF GateInv, RateInv, CountIsLastRank
  <2> QED
    BY <2>1, <2>2
<1>18. RanksHaveNoGaps'
  <2> SUFFICES ASSUME NEW g \in Frames, ranked(g)'
               PROVE  (/\ frame[g].count >= 1
                       /\ \A k \in 1..frame[g].count : taken(frame[g].window, k))'
    BY DEF RanksHaveNoGaps
  <2>1. CASE g = f
    BY <1>01, <1>02, <1>3, <1>7, <1>16, <2>1 DEF taken
  <2>2. CASE g # f
    BY <1>7, <1>10, <1>11, <2>2 DEF GateInv, RateInv, RanksHaveNoGaps, taken
  <2> QED
    BY <2>1, <2>2
<1>19. RanksDiffer'
  <2> SUFFICES ASSUME NEW g \in Frames, NEW h \in Frames, g # h, ranked(g)', ranked(h)',
                      frame'[g].window = frame'[h].window
               PROVE  frame'[g].count # frame'[h].count
    BY DEF RanksDiffer
  <2>1. ASSUME NEW k \in Frames, k # f, ranked(k)', frame'[k].window = w
        PROVE  frame'[k].count # n
    <3>1. ranked(k) /\ frame'[k] = frame[k]
      BY <1>7, <1>10, <2>1
    <3>2. frame[k].count \in Nat
      BY <3>1, FrameKinds DEF GateInv, Gate!TypeOK, ranked, CountedFrames
    <3> QED
      BY <1>2, <1>13, <2>1, <3>1, <3>2
  <2>2. CASE g = f
    BY <1>3, <1>7, <2>1, <2>2
  <2>3. CASE h = f
    BY <1>3, <1>7, <2>1, <2>3
  <2>4. CASE g # f /\ h # f
    BY <1>7, <1>10, <2>4 DEF GateInv, RateInv, RanksDiffer
  <2> QED
    BY <2>2, <2>3, <2>4
<1>20. LimitDecides'
  BY <1>3, <1>7 DEF GateInv, RateInv, LimitDecides
<1> QED
  BY <1>8, <1>9, <1>14, <1>15, <1>17, <1>18, <1>19, <1>20 DEF GateInv, RateInv

LEMMA ExpireKeeps ==
    ASSUME GateInv, NEW f \in Frames, Gate!Expire(f)
    PROVE  GateInv'
<1>1. frame[f] \in CountedFrames /\ frame[f].at = "expire"
  BY FrameKinds DEF GateInv, Gate!TypeOK, Gate!Expire, Gate!Counted
<1>2. PICK w \in Gate!Seconds : w = frame[f].window
  BY <1>1 DEF CountedFrames
<1> DEFINE x == [frame[f] EXCEPT
                   !.at = IF Gate!over(frame[f].count) THEN "RATE_LIMIT" ELSE "handled"]
<1>3. now \in Nat /\ w <= now /\ w \in Nat
  BY <1>1, <1>2, GateConstants DEF GateInv, Gate!TypeOK, Gate!Counted, Gate!Seconds,
     Gate!GateAssumption
<1>4. /\ x \in CountedFrames
      /\ x.at = IF Gate!over(frame[f].count) THEN "RATE_LIMIT" ELSE "handled"
      /\ x.count = frame[f].count /\ x.window = frame[f].window
      /\ x.message = frame[f].message /\ x.since = frame[f].since
  BY <1>1 DEF CountedFrames, Gate!Counted
<1>5. x \in Gate!FrameStates
  BY <1>4 DEF CountedFrames, Gate!FrameStates
<1>6. /\ Gate!goto(f, x) /\ UNCHANGED <<now, seen>>
      /\ rate' = IF rate[w].count > 0 THEN [rate EXCEPT ![w].lapses = now + 2] ELSE rate
  BY <1>2 DEF Gate!Expire, Gate!lapsesAt
<1> HIDE DEF x
<1>7. /\ rate' \in [Gate!Seconds -> [count : Nat, lapses : Nat \cup {Gate!Never}]]
      /\ \A u \in Gate!Seconds : /\ rate'[u].count = rate[u].count
                                 /\ rate'[u].lapses \in {rate[u].lapses, now + 2}
                                 /\ u # w => rate'[u].lapses = rate[u].lapses
  <2>1. CASE rate[w].count > 0
    BY <1>3, <1>6, <2>1 DEF GateInv, Gate!TypeOK
  <2>2. CASE ~ rate[w].count > 0
    BY <1>6, <2>2 DEF GateInv, Gate!TypeOK
  <2> QED
    BY <2>1, <2>2
<1>8. /\ frame' \in [Frames -> Gate!FrameStates] /\ frame'[f] = x
      /\ \A g \in Frames : g # f => frame'[g] = frame[g]
  BY <1>5, <1>6, FrameMoves DEF GateInv
<1>9. Gate!TypeOK'
  <2>1. \A u \in Gate!Seconds : rate'[u].lapses \in Nat => now' < rate'[u].lapses
    BY <1>3, <1>6, <1>7 DEF GateInv, Gate!TypeOK
  <2>2. \A g \in Frames : frame'[g].at \in Gate!Counted
                           => /\ frame'[g].since <= frame'[g].window
                              /\ frame'[g].window <= now'
    BY <1>1, <1>4, <1>6, <1>8 DEF GateInv, Gate!TypeOK, Gate!Counted
  <2> QED
    BY <1>6, <1>7, <1>8, <2>1, <2>2 DEF GateInv, Gate!TypeOK
<1>10. SeenInv'
  BY <1>1, <1>4, <1>6, <1>8, SeenStays DEF GateInv, passed, Gate!Counted
<1>11. /\ ranked(f)
       /\ \A g \in Frames : /\ ranked(g)' <=> ranked(g)
                            /\ frame'[g].count = frame[g].count
                            /\ frame'[g].window = frame[g].window
  BY <1>1, <1>4, <1>8 DEF ranked, Gate!Counted
<1>12. \A u, n : taken(u, n)' <=> taken(u, n)
  BY <1>11 DEF taken
<1>13. IncrInTime'
  BY <1>4, <1>6, <1>8 DEF GateInv, RateInv, IncrInTime
<1>14. KeysOutliveSecond'
  BY <1>3, <1>7 DEF GateInv, RateInv, KeysOutliveSecond
<1>15. CountIsLastRank'
  BY <1>6, <1>7, <1>11, <1>12 DEF GateInv, RateInv, CountIsLastRank
<1>16. RanksHaveNoGaps' /\ RanksDiffer'
  BY <1>11, <1>12 DEF GateInv, RateInv, RanksHaveNoGaps, RanksDiffer
<1>17. LimitDecides'
  <2>1. /\ x.at = "handled" => ~ x.count > MaxMessages
        /\ x.at = "RATE_LIMIT" => x.count > MaxMessages
    BY <1>4 DEF Gate!over
  <2>2. x.count \in Nat /\ MaxMessages \in Nat
    BY <1>4, GateConstants DEF CountedFrames, Gate!GateAssumption
  <2> QED
    BY <1>8, <2>1, <2>2 DEF GateInv, RateInv, LimitDecides
<1> QED
  BY <1>9, <1>10, <1>13, <1>14, <1>15, <1>16, <1>17 DEF GateInv, RateInv

(* A key lapses no earlier than its frames are forgotten, a SEEN key with   *)
(* its SeenSeconds, a RATE key when no INCR of its second is under way.     *)
LEMMA TickKeeps ==
    ASSUME GateInv, Gate!Tick
    PROVE  GateInv'
<1>1. /\ now \in Nat /\ now \in Gate!Seconds /\ now' = now + 1 /\ now' \in Gate!Seconds
      /\ SeenSeconds \in Nat \ {0}
  BY GateConstants DEF GateInv, Gate!TypeOK, Gate!Tick, Gate!Seconds, Gate!GateAssumption
<1>2. frame' = frame /\ \A f \in Frames : frame[f].at = "incr" => frame[f].window = now
  BY DEF Gate!Tick
<1>3. /\ seen' \in [MessageIds -> {Gate!Gone} \cup now' + 1..now' + SeenSeconds]
      /\ \A m \in MessageIds : seen'[m] = IF seen[m] = now' THEN Gate!Gone ELSE seen[m]
  BY <1>1 DEF GateInv, Gate!TypeOK, Gate!Tick, Gate!Gone
<1>4. /\ rate' \in [Gate!Seconds -> [count : Nat, lapses : Nat \cup {Gate!Never}]]
      /\ \A w \in Gate!Seconds :
            rate'[w] = IF rate[w].lapses = now' THEN Gate!NoRate ELSE rate[w]
  BY <1>1 DEF GateInv, Gate!TypeOK, Gate!Tick, Gate!NoRate
<1>5. Gate!NoRate.lapses \notin Nat
  BY DEF Gate!NoRate, Gate!Never
<1>6. Gate!TypeOK'
  <2>1. \A w \in Gate!Seconds : rate'[w].lapses \in Nat => now' < rate'[w].lapses
    BY <1>1, <1>4, <1>5 DEF GateInv, Gate!TypeOK
  <2>2. \A f \in Frames : frame'[f].at \in Gate!Counted
                           => /\ frame'[f].since <= frame'[f].window
                              /\ frame'[f].window <= now'
    <3> SUFFICES ASSUME NEW f \in Frames, frame[f].at \in Gate!Counted
                 PROVE  frame[f].since <= frame[f].window /\ frame[f].window <= now'
      BY <1>2
    <3>1. frame[f].window \in Nat
      BY FrameKinds, GateConstants DEF GateInv, Gate!TypeOK, CountedFrames, Gate!Seconds,
         Gate!GateAssumption
    <3> QED
      BY <1>1, <3>1 DEF GateInv, Gate!TypeOK
  <2> QED
    BY <1>1, <1>2, <1>3, <1>4, <2>1, <2>2 DEF GateInv, Gate!TypeOK
<1>7. SeenHeld'
  <2> SUFFICES ASSUME NEW f \in Frames, passed(f)
               PROVE  /\ frame[f].since <= now'
                      /\ now' < frame[f].since + SeenSeconds
                           => seen'[frame[f].message] >= frame[f].since + SeenSeconds
    BY <1>2 DEF SeenHeld, passed
  <2>1. frame[f].since \in Nat /\ frame[f].message \in MessageIds
    BY FrameKinds, GateConstants DEF GateInv, Gate!TypeOK, passed, CountedFrames,
       Gate!Seconds, Gate!GateAssumption
  <2>2. frame[f].since <= now
    BY DEF GateInv, SeenInv, SeenHeld
  <2>3. ASSUME now' < frame[f].since + SeenSeconds
        PROVE  seen'[frame[f].message] >= frame[f].since + SeenSeconds
    <3>1. seen[frame[f].message] >= frame[f].since + SeenSeconds
      BY <1>1, <2>1, <2>3 DEF GateInv, SeenInv, SeenHeld
    <3> QED
      BY <1>1, <1>3, <2>1, <2>3, <3>1
  <2> QED
    BY <1>1, <2>1, <2>2, <2>3
<1>8. MessagesApart'
  BY <1>2 DEF GateInv, SeenInv, MessagesApart, passed
<1>9. \A u, n : taken(u, n)' <=> taken(u, n)
  BY <1>2 DEF taken, ranked
<1>10. IncrInTime'
  BY <1>1, <1>2 DEF IncrInTime
<1>11. KeysOutliveSecond'
  BY <1>4, <1>5 DEF GateInv, RateInv, KeysOutliveSecond
<1>12. CountIsLastRank'
  <2> SUFFICES ASSUME NEW w \in Gate!Seconds, now' <= w + 1
               PROVE  /\ \A n \in 1..rate'[w].count : taken(w, n)'
                      /\ \A f \in Frames : ranked(f)' /\ frame'[f].window = w
                                             => frame'[f].count <= rate'[w].count
    BY DEF CountIsLastRank
  <2>1. w \in Nat
    BY GateConstants DEF Gate!Seconds, Gate!GateAssumption
  <2>2. rate'[w] = rate[w] /\ now <= w + 1
    BY <1>1, <1>4, <2>1 DEF GateInv, RateInv, KeysOutliveSecond
  <2> QED
    BY <1>2, <1>9, <2>2 DEF GateInv, RateInv, CountIsLastRank, ranked
<1>13. RanksHaveNoGaps' /\ RanksDiffer' /\ LimitDecides'
  BY <1>2, <1>9 DEF GateInv, RateInv, RanksHaveNoGaps, RanksDiffer, LimitDecides, ranked
<1> QED
  BY <1>6, <1>7, <1>8, <1>10, <1>11, <1>12, <1>13 DEF GateInv, SeenInv, RateInv

LEMMA SameCardinality == \A S : Gate!Cardinality(S) = Cardinality(S)
  BY DEF Gate!Cardinality, Cardinality

(* What the invariant says of the frames that were handled and refused.     *)
LEMMA GateFollows ==
    ASSUME GateInv
    PROVE  GateCounts
<1>1. Gate!HandledOnce
  BY DEF GateInv, SeenInv, MessagesApart, passed, Gate!HandledOnce, Gate!Counted
<1>2. Gate!CapPerSecond
  <2> SUFFICES ASSUME NEW w \in Gate!Seconds
               PROVE  Cardinality(Gate!countedIn(w, {"handled"})) <= MaxMessages
    BY SameCardinality, Zenon DEF Gate!CapPerSecond
  <2> DEFINE S == Gate!countedIn(w, {"handled"})
             rank == [f \in S |-> frame[f].count]
  <2>1. \A f \in S : f \in Frames /\ ranked(f) /\ frame[f].window = w /\ frame[f].at = "handled"
    BY DEF Gate!countedIn, ranked, Gate!Counted
  <2>2. \A f \in S : frame[f].count \in 1..MaxMessages
    BY <2>1, FrameKinds DEF GateInv, Gate!TypeOK, RateInv, RanksHaveNoGaps, LimitDecides, ranked,
       CountedFrames
  <2>3. \A f, g \in S : f # g => frame[f].count # frame[g].count
    BY <2>1 DEF GateInv, RateInv, RanksDiffer
  <2>4. rank \in Injection(S, 1..MaxMessages)
    BY <2>2, <2>3 DEF Injection, IsInjective
  <2>5. IsFiniteSet(1..MaxMessages) /\ Cardinality(1..MaxMessages) = MaxMessages
    BY FS_Interval, GateConstants DEF Gate!GateAssumption
  <2> HIDE DEF rank, S
  <2>6. Cardinality(S) <= Cardinality(1..MaxMessages)
    BY <2>4, <2>5, FS_Injection
  <2> QED
    BY <2>5, <2>6 DEF S
<1>3. Gate!RefusedAtTheLimit
  <2> SUFFICES ASSUME NEW f \in Frames, frame[f].at = "RATE_LIMIT"
               PROVE  Cardinality({g \in Gate!countedIn(frame[f].window, Gate!Counted) :
                         frame[g].count < frame[f].count /\ frame[g].at # "incr"}) >= MaxMessages
    BY SameCardinality, Zenon DEF Gate!RefusedAtTheLimit
  <2> DEFINE S == {g \in Gate!countedIn(frame[f].window, Gate!Counted) :
                     frame[g].count < frame[f].count /\ frame[g].at # "incr"}
             rank == [g \in S |-> frame[g].count]
             last == frame[f].count - 1
  <2>1. ranked(f) /\ frame[f].count \in Nat /\ frame[f].count > MaxMessages /\ MaxMessages \in Nat
    BY FrameKinds, GateConstants DEF GateInv, Gate!TypeOK, RateInv, LimitDecides, ranked,
       Gate!Counted, CountedFrames, Gate!GateAssumption
  <2>2. \A g \in S : /\ g \in Frames /\ ranked(g) /\ frame[g].window = frame[f].window
                     /\ frame[g].count < frame[f].count
    BY DEF Gate!countedIn, ranked
  <2>3. \A g \in S : frame[g].count \in 1..last
    BY <2>1, <2>2, FrameKinds DEF GateInv, Gate!TypeOK, RateInv, RanksHaveNoGaps, ranked,
       CountedFrames
  <2>4. \A g, h \in S : g # h => frame[g].count # frame[h].count
    BY <2>2 DEF GateInv, RateInv, RanksDiffer
  <2>5. \A n \in 1..last : \E g \in S : frame[g].count = n
    <3> SUFFICES ASSUME NEW n \in 1..last PROVE \E g \in S : frame[g].count = n
      OBVIOUS
    <3>1. n \in 1..frame[f].count /\ n < frame[f].count
      BY <2>1
    <3>2. taken(frame[f].window, n)
      BY <2>1, <3>1 DEF GateInv, RateInv, RanksHaveNoGaps
    <3>3. PICK g \in Frames : ranked(g) /\ frame[g].window = frame[f].window /\ frame[g].count = n
      BY <3>2 DEF taken
    <3>4. g \in S
      BY <3>1, <3>3 DEF Gate!countedIn, ranked
    <3> QED
      BY <3>3, <3>4
  <2> HIDE DEF S
  <2>6. rank \in Injection(S, 1..last) /\ rank \in Surjection(S, 1..last)
    BY <2>3, <2>4, <2>5 DEF Injection, IsInjective, Surjection
  <2>0. last \in Nat
    BY <2>1
  <2> HIDE DEF rank, last
  <2>7. IsFiniteSet(1..last) /\ Cardinality(1..last) = last
    BY <2>0, FS_Interval
  <2>8. Cardinality(S) = last
    BY <2>6, <2>7, FS_Injection
  <2> QED
    BY <2>1, <2>8 DEF S, last
<1> QED
  BY <1>1, <1>2, <1>3 DEF GateInv, GateCounts

-----------------------------------------------------------------------------
(* The bus.                                                                 *)

(* What is in a queue, and what is before what.                             *)
elements(q) == {q[k] : k \in DOMAIN q}
earlier(q, a, b) == \E k, l \in DOMAIN q : k < l /\ q[k] = a /\ q[l] = b

(* What an instance has yet to publish, what was pushed to it, what a       *)
(* socket was handed.                                                       *)
attached(s) == socket[s] \in Bus!Attached
leaving(i) == elements(outgoing[i])
waiting(i) == elements(incoming[i])
handedTo(s) == elements(got[s])

(* A message names the instance that sent its frame ...                     *)
NamesItsSender ==
    \A i \in Instances : \A m \in leaving(i) \cup waiting(i) : m.frame.from = m.instanceId

(* ... and no frame is ahead of it.                                         *)
SentBefore ==
    /\ \A i \in Instances : \A m \in leaving(i) \cup waiting(i) :
          m.frame.n <= sent[m.instanceId]
    /\ \A s \in Sockets : \A f \in handedTo(s) : f.n <= sent[f.from]

(* Each connection keeps the order of a sender, and what a sender has yet   *)
(* to publish is behind what was pushed.                                    *)
ConnectionsKeepOrder ==
    \A i \in Instances :
        /\ \A a, b : earlier(outgoing[i], a, b) => a.frame.n < b.frame.n
        /\ \A a, b : earlier(incoming[i], a, b) /\ a.instanceId = b.instanceId
                       => a.frame.n < b.frame.n
        /\ \A a \in waiting(i) : \A b \in leaving(a.instanceId) : a.frame.n < b.frame.n

(* What a socket was handed of another instance is before what is to come.  *)
HandedBeforeTheRest ==
    \A s \in Sockets : attached(s) => \A f \in handedTo(s) :
        f.from # socket[s].at =>
            /\ \A m \in waiting(socket[s].at) : m.instanceId = f.from => f.n < m.frame.n
            /\ \A m \in leaving(f.from) : f.n < m.frame.n

HandedInOrder ==
    \A s \in Sockets : \A a, b : earlier(got[s], a, b) /\ a.from = b.from => a.n < b.n

NewHasNothing ==
    \A s \in Sockets : socket[s] = Bus!New => got[s] = <<>> /\ owed[s] = {}

onTheWay(s, f) ==
    \E m \in waiting(socket[s].at) :
        m.instanceId # socket[s].at /\ m.device = socket[s].device /\ m.frame = f

(* What a socket is owed it was handed, or it is pushed to its instance.    *)
OwedComes ==
    \A s \in Sockets : attached(s) => \A f \in owed[s] : f \in handedTo(s) \/ onTheWay(s, f)

BusInv ==
    /\ Bus!TypeOK /\ NamesItsSender /\ SentBefore /\ ConnectionsKeepOrder
    /\ HandedBeforeTheRest /\ HandedInOrder /\ NewHasNothing /\ OwedComes

LEMMA ElementsOfEmpty == elements(<<>>) = {} /\ \A a, b : ~ earlier(<<>>, a, b)
  BY DEF elements, earlier

LEMMA ElementsAreOf ==
    ASSUME NEW S, NEW q \in Seq(S)
    PROVE  /\ elements(q) \subseteq S
           /\ \A a, b : earlier(q, a, b) => a \in elements(q) /\ b \in elements(q)
  BY LenProperties DEF elements, earlier

LEMMA ElementsOfAppend ==
    ASSUME NEW S, NEW q \in Seq(S), NEW x \in S
    PROVE  /\ Append(q, x) \in Seq(S)
           /\ elements(Append(q, x)) = elements(q) \cup {x}
           /\ \A a, b : earlier(Append(q, x), a, b)
                          => earlier(q, a, b) \/ (a \in elements(q) /\ b = x)
<1> DEFINE r == Append(q, x)
<1>1. /\ r \in Seq(S) /\ Len(q) \in Nat
      /\ DOMAIN q = 1..Len(q) /\ DOMAIN r = 1..Len(q) + 1
      /\ \A k \in 1..Len(q) : r[k] = q[k]
      /\ r[Len(q) + 1] = x
  BY LenProperties
<1> HIDE DEF r
<1>2. elements(r) = elements(q) \cup {x}
  BY <1>1 DEF elements
<1>3. \A a, b : earlier(r, a, b) => earlier(q, a, b) \/ (a \in elements(q) /\ b = x)
  <2> SUFFICES ASSUME NEW k \in DOMAIN r, NEW l \in DOMAIN r, k < l
               PROVE  earlier(q, r[k], r[l]) \/ (r[k] \in elements(q) /\ r[l] = x)
    BY DEF earlier
  <2>1. k \in 1..Len(q)
    BY <1>1
  <2>2. CASE l = Len(q) + 1
    BY <1>1, <2>1, <2>2 DEF elements
  <2>3. CASE l \in 1..Len(q)
    BY <1>1, <2>1, <2>3 DEF earlier
  <2> QED
    BY <1>1, <2>2, <2>3
<1> QED
  BY <1>1, <1>2, <1>3 DEF r

LEMMA ElementsOfTail ==
    ASSUME NEW S, NEW q \in Seq(S), q # <<>>
    PROVE  /\ Head(q) \in S /\ Tail(q) \in Seq(S)
           /\ elements(q) = {Head(q)} \cup elements(Tail(q))
           /\ \A a, b : earlier(Tail(q), a, b) => earlier(q, a, b)
           /\ \A b \in elements(Tail(q)) : earlier(q, Head(q), b)
<1> DEFINE r == Tail(q)
<1>1. /\ Head(q) \in S /\ r \in Seq(S) /\ Len(q) \in Nat \ {0} /\ Head(q) = q[1]
      /\ DOMAIN q = 1..Len(q) /\ DOMAIN r = 1..Len(q) - 1
      /\ \A k \in 1..Len(q) - 1 : r[k] = q[k + 1]
  BY LenProperties, HeadTailProperties, EmptySeq
<1> HIDE DEF r
<1>2. \A k \in DOMAIN r : k + 1 \in DOMAIN q /\ r[k] = q[k + 1] /\ 1 < k + 1
  BY <1>1
<1>3. \A k \in DOMAIN q : k = 1 \/ (k - 1 \in DOMAIN r /\ q[k] = r[k - 1])
  BY <1>1
<1>4. elements(q) = {Head(q)} \cup elements(r)
  BY <1>1, <1>2, <1>3 DEF elements
<1>5. \A a, b : earlier(r, a, b) => earlier(q, a, b)
  BY <1>1, <1>2 DEF earlier
<1>6. \A b \in elements(r) : earlier(q, Head(q), b)
  BY <1>1, <1>2 DEF elements, earlier
<1> QED
  BY <1>1, <1>4, <1>5, <1>6 DEF r

(* A socket is attached, new or closed, and only one of these.              *)
LEMMA AttachedOnly ==
    /\ Bus!New \notin Bus!Attached /\ Bus!Closed \notin Bus!Attached /\ Bus!New # Bus!Closed
    /\ \A x \in Bus!Attached : /\ x.at \in Instances /\ x.device \in Devices
                               /\ x = [at |-> x.at, device |-> x.device]
  BY DEF Bus!New, Bus!Closed, Bus!Attached

LEMMA FieldsOfMessage ==
    ASSUME NEW m \in Bus!Messages
    PROVE  /\ m.instanceId \in Instances /\ m.device \in Devices /\ m.frame \in Bus!SentFrames
           /\ m.frame.n \in Nat \ {0} /\ m.frame.from \in Instances
<1>1. m.instanceId \in Instances /\ m.device \in Devices /\ m.frame \in Bus!SentFrames
  BY DEF Bus!Messages
<1> QED
  BY <1>1 DEF Bus!SentFrames

LEMMA BusBegins ==
    ASSUME Bus!Init
    PROVE  BusInv
<1>1. \A i \in Instances : outgoing[i] = <<>> /\ incoming[i] = <<>>
  BY DEF Bus!Init
<1>2. \A s \in Sockets : got[s] = <<>> /\ owed[s] = {}
  BY DEF Bus!Init
<1>3. \A s \in Sockets : ~ attached(s)
  BY AttachedOnly DEF Bus!Init, attached
<1>4. \A i \in Instances : leaving(i) = {} /\ waiting(i) = {}
  BY <1>1, ElementsOfEmpty DEF leaving, waiting
<1>5. Bus!TypeOK
  <2>1. <<>> \in Seq(Bus!Messages) /\ <<>> \in Seq(Bus!SentFrames) /\ DOMAIN <<>> = {}
    OBVIOUS
  <2>2. /\ socket \in [Sockets -> {Bus!New, Bus!Closed} \cup Bus!Attached]
        /\ subscribed \subseteq Instances
    BY DEF Bus!Init
  <2>3. sent \in [Instances -> Nat] /\ owed \in [Sockets -> SUBSET Bus!SentFrames]
    BY DEF Bus!Init
  <2>4. /\ outgoing \in [Instances -> Seq(Bus!Messages)]
        /\ incoming \in [Instances -> Seq(Bus!Messages)]
        /\ got \in [Sockets -> Seq(Bus!SentFrames)]
    BY <2>1 DEF Bus!Init
  <2>5. faults \in 0..MaxFaults
    BY BusConstants DEF Bus!Init, Bus!BusAssumption
  <2>6. \A i \in Instances : /\ \A k \in DOMAIN outgoing[i] : outgoing[i][k].instanceId = i
                             /\ i \notin subscribed => incoming[i] = <<>>
    BY <1>1, <2>1
  <2> QED
    BY <2>2, <2>3, <2>4, <2>5, <2>6 DEF Bus!TypeOK
<1>6. NamesItsSender /\ SentBefore /\ ConnectionsKeepOrder /\ HandedInOrder
  BY <1>1, <1>2, <1>4, ElementsOfEmpty
  DEF NamesItsSender, SentBefore, ConnectionsKeepOrder, HandedInOrder, handedTo
<1>7. HandedBeforeTheRest /\ NewHasNothing /\ OwedComes
  BY <1>2, <1>3 DEF HandedBeforeTheRest, NewHasNothing, OwedComes
<1> QED
  BY <1>5, <1>6, <1>7 DEF BusInv

(* A step that leaves the connections and the sockets' history alone.       *)
LEMMA ConnectionsStay ==
    ASSUME BusInv, UNCHANGED <<outgoing, incoming, sent, got, owed>>
    PROVE  NamesItsSender' /\ SentBefore' /\ ConnectionsKeepOrder' /\ HandedInOrder'
  BY DEF BusInv, NamesItsSender, SentBefore, ConnectionsKeepOrder, HandedInOrder,
     leaving, waiting, handedTo

LEMMA SubscribeKeeps ==
    ASSUME BusInv, NEW i \in Instances, Bus!Subscribe(i)
    PROVE  BusInv'
<1>1. /\ UNCHANGED <<socket, outgoing, incoming, sent, got, owed, faults>>
      /\ subscribed' = subscribed \cup {i}
  BY DEF Bus!Subscribe, Bus!history
<1>2. Bus!TypeOK'
  BY <1>1 DEF BusInv, Bus!TypeOK
<1>3. NamesItsSender' /\ SentBefore' /\ ConnectionsKeepOrder' /\ HandedInOrder'
  BY <1>1, ConnectionsStay
<1>4. HandedBeforeTheRest' /\ NewHasNothing' /\ OwedComes'
  BY <1>1 DEF BusInv, HandedBeforeTheRest, NewHasNothing, OwedComes, leaving, waiting, handedTo,
     attached, onTheWay
<1> QED
  BY <1>2, <1>3, <1>4 DEF BusInv

(* A socket that is attached now has been handed nothing, and is owed       *)
(* nothing of what was sent before.                                         *)
LEMMA AttachKeeps ==
    ASSUME BusInv, NEW s \in Sockets, NEW i \in Instances, NEW d \in Devices, Bus!Attach(s, i, d)
    PROVE  BusInv'
<1>1. /\ UNCHANGED <<subscribed, outgoing, incoming, sent, got, owed, faults>>
      /\ socket[s] = Bus!New
      /\ socket' = [socket EXCEPT ![s] = [at |-> i, device |-> d]]
  BY DEF Bus!Attach, Bus!history
<1>2. got[s] = <<>> /\ owed[s] = {}
  BY <1>1 DEF BusInv, NewHasNothing
<1>3. [at |-> i, device |-> d] \in Bus!Attached
  BY DEF Bus!Attached
<1>4. /\ socket' \in [Sockets -> {Bus!New, Bus!Closed} \cup Bus!Attached]
      /\ \A t \in Sockets : t # s => socket'[t] = socket[t]
      /\ socket'[s] \in Bus!Attached
  BY <1>1, <1>3 DEF BusInv, Bus!TypeOK
<1>5. Bus!TypeOK'
  BY <1>1, <1>4 DEF BusInv, Bus!TypeOK
<1>6. NamesItsSender' /\ SentBefore' /\ ConnectionsKeepOrder' /\ HandedInOrder'
  BY <1>1, ConnectionsStay
<1>7. handedTo(s)' = {}
  BY <1>1, <1>2, ElementsOfEmpty DEF handedTo
<1>8. NewHasNothing'
  BY <1>1, <1>2, <1>4 DEF BusInv, NewHasNothing
<1>9. HandedBeforeTheRest'
  BY <1>1, <1>4, <1>7 DEF BusInv, HandedBeforeTheRest, leaving, waiting, handedTo, attached
<1>10. OwedComes'
  BY <1>1, <1>2, <1>4 DEF BusInv, OwedComes, onTheWay, waiting, handedTo, attached
<1> QED
  BY <1>5, <1>6, <1>8, <1>9, <1>10 DEF BusInv

LEMMA DetachKeeps ==
    ASSUME BusInv, NEW s \in Sockets, Bus!Detach(s)
    PROVE  BusInv'
<1>1. /\ UNCHANGED <<subscribed, outgoing, incoming, sent, got, owed, faults>>
      /\ socket' = [socket EXCEPT ![s] = Bus!Closed]
  BY DEF Bus!Detach, Bus!history
<1>2. /\ socket' \in [Sockets -> {Bus!New, Bus!Closed} \cup Bus!Attached]
      /\ \A t \in Sockets : t # s => socket'[t] = socket[t]
      /\ socket'[s] = Bus!Closed
  BY <1>1 DEF BusInv, Bus!TypeOK
<1>3. Bus!TypeOK'
  BY <1>1, <1>2 DEF BusInv, Bus!TypeOK
<1>4. NamesItsSender' /\ SentBefore' /\ ConnectionsKeepOrder' /\ HandedInOrder'
  BY <1>1, ConnectionsStay
<1>5. NewHasNothing'
  BY <1>1, <1>2, AttachedOnly DEF BusInv, NewHasNothing
<1>6. HandedBeforeTheRest'
  BY <1>1, <1>2, AttachedOnly DEF BusInv, HandedBeforeTheRest, leaving, waiting, handedTo, attached
<1>7. OwedComes'
  BY <1>1, <1>2, AttachedOnly DEF BusInv, OwedComes, onTheWay, waiting, handedTo, attached
<1> QED
  BY <1>3, <1>4, <1>5, <1>6, <1>7 DEF BusInv

(* deliverLocal: the sockets of the device on that instance are handed the  *)
(* frame, no other.                                                         *)
LEMMA HandedByInstance ==
    ASSUME Bus!TypeOK, NEW i \in Instances, NEW d \in Devices, NEW f \in Bus!SentFrames,
           got' = Bus!handed(i, d, f)
    PROVE  /\ got' \in [Sockets -> Seq(Bus!SentFrames)]
           /\ \A s \in Sockets :
                 IF s \in Bus!socketsOf(i, d)
                 THEN /\ attached(s) /\ socket[s].at = i /\ socket[s].device = d
                      /\ handedTo(s)' = handedTo(s) \cup {f}
                      /\ \A a, b : earlier(got'[s], a, b)
                                     => earlier(got[s], a, b) \/ (a \in handedTo(s) /\ b = f)
                 ELSE got'[s] = got[s] /\ handedTo(s)' = handedTo(s)
           /\ \A s \in Sockets : attached(s) /\ socket[s].at = i /\ socket[s].device = d
                                   => s \in Bus!socketsOf(i, d)
<1>1. \A s \in Sockets : got'[s] = IF s \in Bus!socketsOf(i, d) THEN Append(got[s], f) ELSE got[s]
  BY DEF Bus!handed
<1>2. \A s \in Sockets : /\ got[s] \in Seq(Bus!SentFrames)
                         /\ Append(got[s], f) \in Seq(Bus!SentFrames)
                         /\ elements(Append(got[s], f)) = elements(got[s]) \cup {f}
                         /\ \A a, b : earlier(Append(got[s], f), a, b)
                                => earlier(got[s], a, b) \/ (a \in elements(got[s]) /\ b = f)
  <2> TAKE s \in Sockets
  <2>1. got[s] \in Seq(Bus!SentFrames)
    BY DEF Bus!TypeOK
  <2> QED
    BY <2>1, ElementsOfAppend
<1>3. got' \in [Sockets -> Seq(Bus!SentFrames)]
  BY <1>2 DEF Bus!handed
<1>4. \A s \in Bus!socketsOf(i, d) : socket[s] = [at |-> i, device |-> d]
  BY DEF Bus!socketsOf
<1>5. [at |-> i, device |-> d] \in Bus!Attached
  BY DEF Bus!Attached
<1>6. \A s \in Bus!socketsOf(i, d) : attached(s) /\ socket[s].at = i /\ socket[s].device = d
  BY <1>4, <1>5 DEF attached
<1>7. \A s \in Sockets : attached(s) /\ socket[s].at = i /\ socket[s].device = d
                           => s \in Bus!socketsOf(i, d)
  BY AttachedOnly DEF attached, Bus!socketsOf
<1>8. ASSUME NEW s \in Sockets
      PROVE  IF s \in Bus!socketsOf(i, d)
             THEN /\ attached(s) /\ socket[s].at = i /\ socket[s].device = d
                  /\ handedTo(s)' = handedTo(s) \cup {f}
                  /\ \A a, b : earlier(got'[s], a, b)
                                 => earlier(got[s], a, b) \/ (a \in handedTo(s) /\ b = f)
             ELSE got'[s] = got[s] /\ handedTo(s)' = handedTo(s)
  <2>1. CASE s \in Bus!socketsOf(i, d)
    <3>1. got'[s] = Append(got[s], f)
      BY <1>1, <2>1
    <3>2. attached(s) /\ socket[s].at = i /\ socket[s].device = d
      BY <1>6, <2>1
    <3>3. handedTo(s)' = handedTo(s) \cup {f}
      BY <1>2, <3>1 DEF handedTo
    <3>4. \A a, b : earlier(got'[s], a, b)
                      => earlier(got[s], a, b) \/ (a \in handedTo(s) /\ b = f)
      BY <1>2, <3>1 DEF handedTo
    <3> QED
      BY <2>1, <3>2, <3>3, <3>4
  <2>2. CASE s \notin Bus!socketsOf(i, d)
    BY <1>1, <2>2 DEF handedTo
  <2> QED
    BY <2>1, <2>2
<1> QED
  BY <1>3, <1>7, <1>8

(* send(): the next frame of its instance is after all it sent before.      *)
LEMMA SendKeeps ==
    ASSUME BusInv, NEW i \in Instances, NEW d \in Devices, Bus!Send(i, d)
    PROVE  BusInv'
<1> DEFINE S == Bus!socketsOf(i, d)
<1>1. PICK n \in Nat : n = sent[i] + 1
  BY DEF BusInv, Bus!TypeOK
<1>2. PICK f \in Bus!SentFrames : f = [from |-> i, n |-> n] /\ f.from = i /\ f.n = n
  <2>1. sent[i] \in Nat
    BY DEF BusInv, Bus!TypeOK
  <2>2. n \in Nat \ {0}
    BY <1>1, <2>1
  <2>3. [from |-> i, n |-> n] \in Bus!SentFrames
    BY <2>2 DEF Bus!SentFrames
  <2> QED
    BY <2>3
<1>3. PICK m \in Bus!Messages : /\ m = [instanceId |-> i, device |-> d, frame |-> f]
                                /\ m.instanceId = i /\ m.device = d /\ m.frame = f
  <2>1. [instanceId |-> i, device |-> d, frame |-> f] \in Bus!Messages
    BY DEF Bus!Messages
  <2> QED
    BY <2>1
<1>4. /\ UNCHANGED <<socket, subscribed, incoming, faults>>
      /\ sent' = [sent EXCEPT ![i] = n]
      /\ got' = Bus!handed(i, d, f)
      /\ owed' = [s \in Sockets |-> IF s \in S THEN owed[s] \cup {f} ELSE owed[s]]
      /\ outgoing' = [outgoing EXCEPT ![i] = Append(outgoing[i], m)]
  BY <1>1, <1>2, <1>3 DEF Bus!Send, Bus!queued
<1>5. /\ got' \in [Sockets -> Seq(Bus!SentFrames)]
      /\ \A s \in Sockets :
            IF s \in S
            THEN /\ attached(s) /\ socket[s].at = i /\ socket[s].device = d
                 /\ handedTo(s)' = handedTo(s) \cup {f}
                 /\ \A a, b : earlier(got'[s], a, b)
                                => earlier(got[s], a, b) \/ (a \in handedTo(s) /\ b = f)
            ELSE got'[s] = got[s] /\ handedTo(s)' = handedTo(s)
  BY <1>4, HandedByInstance DEF BusInv
<1>6. /\ outgoing[i] \in Seq(Bus!Messages) /\ outgoing'[i] = Append(outgoing[i], m)
      /\ \A j \in Instances : j # i => outgoing'[j] = outgoing[j]
  BY <1>4 DEF BusInv, Bus!TypeOK
<1>7. /\ Append(outgoing[i], m) \in Seq(Bus!Messages)
      /\ leaving(i)' = leaving(i) \cup {m}
      /\ \A a, b : earlier(outgoing'[i], a, b)
                     => earlier(outgoing[i], a, b) \/ (a \in leaving(i) /\ b = m)
  BY <1>6, ElementsOfAppend DEF leaving
<1>8. /\ \A j \in Instances : j # i => leaving(j)' = leaving(j)
      /\ \A j \in Instances : waiting(j)' = waiting(j) /\ incoming'[j] = incoming[j]
  BY <1>4, <1>6 DEF leaving, waiting
<1>9. /\ sent'[i] = n /\ sent[i] \in Nat /\ sent[i] < n
      /\ \A j \in Instances : /\ j # i => sent'[j] = sent[j]
                              /\ sent[j] \in Nat /\ sent[j] <= sent'[j]
  BY <1>1, <1>4 DEF BusInv, Bus!TypeOK
<1>10. \A j \in Instances : leaving(j) \subseteq Bus!Messages /\ waiting(j) \subseteq Bus!Messages
  BY ElementsAreOf DEF BusInv, Bus!TypeOK, leaving, waiting
<1>11. \A s \in Sockets : \A g \in handedTo(s) : g.from \in Instances /\ g.n \in Nat
  <2>1. \A s \in Sockets : handedTo(s) \subseteq Bus!SentFrames
    BY ElementsAreOf DEF BusInv, Bus!TypeOK, handedTo
  <2> QED
    BY <2>1 DEF Bus!SentFrames
<1>12. /\ \A j \in Instances : \A a \in leaving(j) : a.instanceId = j
       /\ \A j \in Instances : \A a \in leaving(j) \cup waiting(j) :
             a.instanceId \in Instances /\ a.frame.n \in Nat /\ a.frame.n <= sent[a.instanceId]
  BY <1>10, FieldsOfMessage DEF BusInv, Bus!TypeOK, SentBefore, leaving, elements
<1> HIDE DEF S
<1>13. Bus!TypeOK'
  <2>1. sent' \in [Instances -> Nat]
    BY <1>4 DEF BusInv, Bus!TypeOK
  <2>2. outgoing' \in [Instances -> Seq(Bus!Messages)]
    BY <1>4, <1>7 DEF BusInv, Bus!TypeOK
  <2>3. owed' \in [Sockets -> SUBSET Bus!SentFrames]
    BY <1>4 DEF BusInv, Bus!TypeOK
  <2>4. \A j \in Instances : \A k \in DOMAIN outgoing'[j] : outgoing'[j][k].instanceId = j
    <3>1. \A j \in Instances : \A a \in leaving(j)' : a.instanceId = j
      BY <1>3, <1>7, <1>8, <1>12
    <3> QED
      BY <3>1 DEF leaving, elements
  <2> QED
    BY <1>4, <1>5, <2>1, <2>2, <2>3, <2>4 DEF BusInv, Bus!TypeOK
<1>14. NamesItsSender'
  BY <1>2, <1>3, <1>7, <1>8 DEF BusInv, NamesItsSender
<1>15. SentBefore'
  <2>1. \A j \in Instances : \A a \in leaving(j)' \cup waiting(j)' :
           a.frame.n <= sent'[a.instanceId]
    BY <1>2, <1>3, <1>7, <1>8, <1>9, <1>12
  <2>2. \A s \in Sockets : \A g \in handedTo(s)' : g.n <= sent'[g.from]
    BY <1>2, <1>5, <1>9, <1>11 DEF BusInv, SentBefore
  <2> QED
    BY <2>1, <2>2 DEF SentBefore
<1>16. ConnectionsKeepOrder'
  <2> SUFFICES ASSUME NEW j \in Instances
               PROVE  /\ \A a, b : earlier(outgoing'[j], a, b) => a.frame.n < b.frame.n
                      /\ \A a, b : earlier(incoming'[j], a, b) /\ a.instanceId = b.instanceId
                                     => a.frame.n < b.frame.n
                      /\ \A a \in waiting(j)' : \A b \in (leaving(a.instanceId))' :
                            a.frame.n < b.frame.n
    BY DEF ConnectionsKeepOrder
  <2>1. \A a, b : earlier(outgoing'[j], a, b) => a.frame.n < b.frame.n
    <3>1. CASE j # i
      BY <1>6, <3>1 DEF BusInv, ConnectionsKeepOrder
    <3>2. \A a \in leaving(i) : a.frame.n < m.frame.n
      BY <1>2, <1>3, <1>9, <1>12
    <3>3. \A a, b : earlier(outgoing[i], a, b) => a.frame.n < b.frame.n
      BY DEF BusInv, ConnectionsKeepOrder
    <3>4. CASE j = i
      BY <1>7, <3>2, <3>3, <3>4
    <3> QED
      BY <3>1, <3>4
  <2>2. \A a, b : earlier(incoming'[j], a, b) /\ a.instanceId = b.instanceId
                    => a.frame.n < b.frame.n
    BY <1>8 DEF BusInv, ConnectionsKeepOrder
  <2>3. \A a \in waiting(j) : \A k \in Instances : \A b \in leaving(k)' :
           k = a.instanceId => a.frame.n < b.frame.n
    BY <1>2, <1>3, <1>7, <1>8, <1>9, <1>12 DEF BusInv, ConnectionsKeepOrder
  <2>4. \A a \in waiting(j) : \A b \in (leaving(a.instanceId))' : a.frame.n < b.frame.n
    BY <1>12, <2>3
  <2> QED
    BY <1>8, <2>1, <2>2, <2>4
<1>17. HandedBeforeTheRest'
  <2> SUFFICES ASSUME NEW s \in Sockets, attached(s), NEW g \in handedTo(s)',
                      g.from # socket[s].at
               PROVE  /\ \A a \in waiting(socket[s].at) : a.instanceId = g.from => g.n < a.frame.n
                      /\ \A a \in (leaving(g.from))' : g.n < a.frame.n
    <3>2. \A t \in Sockets : attached(t) => socket[t].at \in Instances
      BY AttachedOnly DEF attached
    <3> QED
      BY <1>4, <1>8, <3>2 DEF HandedBeforeTheRest, attached, waiting
  <2>1. g \in handedTo(s)
    BY <1>2, <1>5
  <2>2. g.from \in Instances /\ g.n \in Nat /\ g.n <= sent[g.from]
    BY <1>11, <2>1 DEF BusInv, SentBefore
  <2>3. \A a \in leaving(g.from) : g.n < a.frame.n
    BY <2>1 DEF BusInv, HandedBeforeTheRest
  <2>4. \A k \in Instances : \A a \in leaving(k)' : k = g.from => g.n < a.frame.n
    BY <1>2, <1>3, <1>7, <1>8, <1>9, <2>2, <2>3
  <2> QED
    BY <2>1, <2>2, <2>4 DEF BusInv, HandedBeforeTheRest
<1>18. HandedInOrder'
  <2> SUFFICES ASSUME NEW s \in Sockets, NEW a, NEW b, earlier(got'[s], a, b), a.from = b.from
               PROVE  a.n < b.n
    BY DEF HandedInOrder
  <2>1. CASE earlier(got[s], a, b)
    BY <2>1 DEF BusInv, HandedInOrder
  <2>2. CASE a \in handedTo(s) /\ b = f
    BY <1>2, <1>9, <1>11, <2>2 DEF BusInv, SentBefore
  <2> QED
    BY <1>5, <2>1, <2>2
<1>19. NewHasNothing'
  BY <1>4, <1>5, AttachedOnly DEF BusInv, NewHasNothing, attached
<1>20. OwedComes'
  <2>1. \A s \in Sockets : attached(s) => socket[s].at \in Instances
    BY AttachedOnly DEF attached
  <2>2. \A s \in Sockets : \A g : attached(s) => (onTheWay(s, g)' <=> onTheWay(s, g))
    BY <1>4, <1>8, <2>1 DEF onTheWay
  <2> QED
    BY <1>4, <1>5, <2>2 DEF BusInv, OwedComes, attached
<1> QED
  BY <1>13, <1>14, <1>15, <1>16, <1>17, <1>18, <1>19, <1>20 DEF BusInv

(* What the invariant says of the messages in the connections.              *)
LEMMA MessagesOfConnections ==
    ASSUME BusInv
    PROVE  /\ \A j \in Instances : \A m \in leaving(j) : m \in Bus!Messages /\ m.instanceId = j
           /\ \A j \in Instances : \A m \in waiting(j) : m \in Bus!Messages
           /\ \A j \in Instances : \A m \in leaving(j) \cup waiting(j) :
                 /\ m.instanceId \in Instances /\ m.frame.from = m.instanceId
                 /\ m.frame \in Bus!SentFrames /\ m.frame.n \in Nat
                 /\ m.frame.n <= sent[m.instanceId]
           /\ \A s \in Sockets : handedTo(s) \subseteq Bus!SentFrames
           /\ \A s \in Sockets : \A f \in handedTo(s) : f.from \in Instances /\ f.n \in Nat
           /\ \A s \in Sockets : attached(s) => socket[s].at \in Instances
<1>1. \A j \in Instances : leaving(j) \subseteq Bus!Messages /\ waiting(j) \subseteq Bus!Messages
  BY ElementsAreOf DEF BusInv, Bus!TypeOK, leaving, waiting
<1>2. \A j \in Instances : \A m \in leaving(j) : m.instanceId = j
  BY DEF BusInv, Bus!TypeOK, leaving, elements
<1>3. \A s \in Sockets : handedTo(s) \subseteq Bus!SentFrames
  BY ElementsAreOf DEF BusInv, Bus!TypeOK, handedTo
<1>4. \A s \in Sockets : \A f \in handedTo(s) : f.from \in Instances /\ f.n \in Nat
  BY <1>3 DEF Bus!SentFrames
<1>5. \A s \in Sockets : attached(s) => socket[s].at \in Instances
  BY AttachedOnly DEF attached
<1> QED
  BY <1>1, <1>2, <1>3, <1>4, <1>5, FieldsOfMessage DEF BusInv, NamesItsSender, SentBefore

(* Redis has the first message of a connection, and pushes it behind what   *)
(* each subscriber waits for.                                               *)
LEMMA PublishKeeps ==
    ASSUME BusInv, NEW i \in Instances, Bus!Publish(i)
    PROVE  BusInv'
<1>1. outgoing[i] \in Seq(Bus!Messages) /\ outgoing[i] # <<>>
  BY DEF BusInv, Bus!TypeOK, Bus!Publish
<1>2. PICK m \in Bus!Messages : m = Head(outgoing[i])
  BY <1>1, ElementsOfTail
<1>3. /\ UNCHANGED <<socket, subscribed, sent, got, faults>>
      /\ outgoing' = [outgoing EXCEPT ![i] = Tail(outgoing[i])]
      /\ incoming' = [j \in Instances |-> IF j \in subscribed THEN Append(incoming[j], m)
                                                              ELSE incoming[j]]
      /\ owed' = [s \in Sockets |->
                    IF \E j \in subscribed \ {i} : s \in Bus!socketsOf(j, m.device)
                      THEN owed[s] \cup {m.frame} ELSE owed[s]]
  BY <1>2 DEF Bus!Publish, Bus!queued, Bus!receivers
<1>4. /\ \A j \in Instances : outgoing'[j] = IF j = i THEN Tail(outgoing[i]) ELSE outgoing[j]
      /\ \A j \in Instances : incoming'[j] = IF j \in subscribed THEN Append(incoming[j], m)
                                                                 ELSE incoming[j]
      /\ \A j \in Instances : incoming[j] \in Seq(Bus!Messages)
  BY <1>3 DEF BusInv, Bus!TypeOK
<1>5. /\ Tail(outgoing[i]) \in Seq(Bus!Messages)
      /\ m \in leaving(i) /\ leaving(i)' \subseteq leaving(i)
      /\ \A a, b : earlier(outgoing'[i], a, b) => earlier(outgoing[i], a, b)
      /\ \A b \in leaving(i)' : earlier(outgoing[i], m, b)
  BY <1>1, <1>2, <1>4, ElementsOfTail DEF leaving
<1>6. \A j \in Instances : /\ leaving(j)' \subseteq leaving(j)
                           /\ \A a, b : earlier(outgoing'[j], a, b) => earlier(outgoing[j], a, b)
  BY <1>4, <1>5 DEF leaving
<1>7. \A j \in Instances :
         /\ waiting(j) \subseteq waiting(j)'
         /\ waiting(j)' \subseteq waiting(j) \cup {m}
         /\ j \in subscribed => m \in waiting(j)'
         /\ \A a, b : earlier(incoming'[j], a, b)
                        => earlier(incoming[j], a, b) \/ (a \in waiting(j) /\ b = m)
  <2> TAKE j \in Instances
  <2>1. CASE j \in subscribed
    <3>1. incoming'[j] = Append(incoming[j], m) /\ incoming[j] \in Seq(Bus!Messages)
      BY <1>4, <2>1
    <3>2. /\ waiting(j)' = waiting(j) \cup {m}
          /\ \A a, b : earlier(incoming'[j], a, b)
                         => earlier(incoming[j], a, b) \/ (a \in waiting(j) /\ b = m)
      BY <3>1, ElementsOfAppend DEF waiting
    <3> QED
      BY <3>2
  <2>2. CASE j \notin subscribed
    BY <1>4, <2>2 DEF waiting
  <2> QED
    BY <2>1, <2>2
<1>8. m.instanceId = i /\ m.frame.from = i /\ m.frame.n \in Nat /\ m.frame.n <= sent[i]
      /\ m.frame \in Bus!SentFrames
  BY <1>5, MessagesOfConnections
<1>9. Bus!TypeOK'
  <2>1. outgoing' \in [Instances -> Seq(Bus!Messages)]
    BY <1>3, <1>5 DEF BusInv, Bus!TypeOK
  <2>2. incoming' \in [Instances -> Seq(Bus!Messages)]
    <3>1. \A j \in Instances : Append(incoming[j], m) \in Seq(Bus!Messages)
      BY <1>4, ElementsOfAppend
    <3> QED
      BY <1>3, <1>4, <3>1
  <2>3. owed' \in [Sockets -> SUBSET Bus!SentFrames]
    BY <1>3, <1>8 DEF BusInv, Bus!TypeOK
  <2>4. \A j \in Instances : \A k \in DOMAIN outgoing'[j] : outgoing'[j][k].instanceId = j
    <3>1. \A j \in Instances : \A a \in leaving(j)' : a.instanceId = j
      BY <1>6, MessagesOfConnections
    <3> QED
      BY <3>1 DEF leaving, elements
  <2>5. \A j \in Instances : j \notin subscribed' => incoming'[j] = <<>>
    BY <1>3, <1>4 DEF BusInv, Bus!TypeOK
  <2> QED
    BY <1>3, <2>1, <2>2, <2>3, <2>4, <2>5 DEF BusInv, Bus!TypeOK
<1>10. NamesItsSender'
  BY <1>6, <1>7, <1>8 DEF BusInv, NamesItsSender
<1>11. SentBefore'
  BY <1>3, <1>6, <1>7, <1>8 DEF BusInv, SentBefore, handedTo
<1>12. ConnectionsKeepOrder'
  <2> SUFFICES ASSUME NEW j \in Instances
               PROVE  /\ \A a, b : earlier(outgoing'[j], a, b) => a.frame.n < b.frame.n
                      /\ \A a, b : earlier(incoming'[j], a, b) /\ a.instanceId = b.instanceId
                                     => a.frame.n < b.frame.n
                      /\ \A a \in waiting(j)' : \A b \in (leaving(a.instanceId))' :
                            a.frame.n < b.frame.n
    BY DEF ConnectionsKeepOrder
  <2>1. \A a, b : earlier(outgoing'[j], a, b) => a.frame.n < b.frame.n
    BY <1>6 DEF BusInv, ConnectionsKeepOrder
  <2>2. \A a \in waiting(j) : a.instanceId = i => a.frame.n < m.frame.n
    BY <1>5 DEF BusInv, ConnectionsKeepOrder
  <2>3. \A a, b : earlier(incoming'[j], a, b) /\ a.instanceId = b.instanceId
                    => a.frame.n < b.frame.n
    BY <1>7, <1>8, <2>2 DEF BusInv, ConnectionsKeepOrder
  <2>4. \A a \in waiting(j) : \A b \in (leaving(a.instanceId))' : a.frame.n < b.frame.n
    <3> SUFFICES ASSUME NEW a \in waiting(j), NEW b \in (leaving(a.instanceId))'
                 PROVE  a.frame.n < b.frame.n
      OBVIOUS
    <3>1. PICK k \in Instances : k = a.instanceId
      BY MessagesOfConnections
    <3>2. b \in leaving(k)
      BY <1>6, <3>1
    <3> QED
      BY <3>1, <3>2 DEF BusInv, ConnectionsKeepOrder
  <2>5. \A b \in leaving(i)' : m.frame.n < b.frame.n
    BY <1>5 DEF BusInv, ConnectionsKeepOrder
  <2>6. \A b \in (leaving(m.instanceId))' : m.frame.n < b.frame.n
    BY <1>8, <2>5
  <2> QED
    BY <1>7, <2>1, <2>3, <2>4, <2>6
<1>13. HandedBeforeTheRest'
  <2> SUFFICES ASSUME NEW s \in Sockets, attached(s), NEW g \in handedTo(s),
                      g.from # socket[s].at
               PROVE  /\ \A a \in (waiting(socket[s].at))' :
                            a.instanceId = g.from => g.n < a.frame.n
                      /\ \A a \in (leaving(g.from))' : g.n < a.frame.n
    BY <1>3 DEF HandedBeforeTheRest, attached, handedTo
  <2>1. PICK j \in Instances : j = socket[s].at
    BY MessagesOfConnections
  <2>2. PICK k \in Instances : k = g.from
    BY MessagesOfConnections
  <2>3. /\ \A a \in waiting(j) : a.instanceId = k => g.n < a.frame.n
        /\ \A a \in leaving(k) : g.n < a.frame.n
    BY <2>1, <2>2 DEF BusInv, HandedBeforeTheRest
  <2>4. k = i => g.n < m.frame.n
    BY <1>5, <2>3
  <2>5. \A a \in waiting(j)' : a.instanceId = k => g.n < a.frame.n
    BY <1>7, <1>8, <2>3, <2>4
  <2>6. \A a \in leaving(k)' : g.n < a.frame.n
    BY <1>6, <2>3
  <2>7. j = (socket[s].at)'
    BY <1>3, <2>1
  <2> QED
    BY <2>2, <2>5, <2>6, <2>7
<1>14. HandedInOrder'
  BY <1>3 DEF BusInv, HandedInOrder
<1>15. NewHasNothing'
  <2>1. \A s \in Sockets : socket[s] = Bus!New =>
           \A j \in Instances : s \notin Bus!socketsOf(j, m.device)
    <3>1. \A j \in Instances : [at |-> j, device |-> m.device] \in Bus!Attached
      BY FieldsOfMessage DEF Bus!Attached
    <3> QED
      BY <3>1, AttachedOnly DEF Bus!socketsOf
  <2>2. subscribed \subseteq Instances
    BY DEF BusInv, Bus!TypeOK
  <2> QED
    BY <1>3, <2>1, <2>2 DEF BusInv, NewHasNothing
<1>16. OwedComes'
  <2> SUFFICES ASSUME NEW s \in Sockets, attached(s), NEW g \in owed'[s], g \notin handedTo(s)
               PROVE  onTheWay(s, g)'
    BY <1>3 DEF OwedComes, attached, handedTo
  <2>1. PICK j \in Instances : j = socket[s].at
    BY MessagesOfConnections
  <2>2. CASE g \in owed[s]
    <3>1. PICK a \in waiting(j) : a.instanceId # j /\ a.device = socket[s].device /\ a.frame = g
      BY <2>1, <2>2 DEF BusInv, OwedComes, onTheWay
    <3>2. a \in waiting(j)'
      BY <1>7, <3>1
    <3>3. (waiting(socket[s].at))' = waiting(j)' /\ socket'[s] = socket[s]
      BY <1>3, <2>1
    <3> QED
      BY <2>1, <3>1, <3>2, <3>3 DEF onTheWay
  <2>3. CASE g \notin owed[s]
    <3>1. g = m.frame /\ \E k \in subscribed \ {i} : s \in Bus!socketsOf(k, m.device)
      BY <1>3, <2>3
    <3>2. j \in subscribed \ {i} /\ socket[s].device = m.device
      BY <2>1, <3>1 DEF Bus!socketsOf
    <3>3. m \in waiting(j)'
      BY <1>7, <3>2
    <3>4. (waiting(socket[s].at))' = waiting(j)' /\ socket'[s] = socket[s]
      BY <1>3, <2>1
    <3> QED
      BY <1>8, <2>1, <3>1, <3>2, <3>3, <3>4 DEF onTheWay
  <2> QED
    BY <2>2, <2>3
<1> QED
  BY <1>9, <1>10, <1>11, <1>12, <1>13, <1>14, <1>15, <1>16 DEF BusInv

(* An instance has the first message pushed to it: its sockets were handed  *)
(* nothing of that sender that is later, and what it sent itself is ignored.*)
LEMMA ReceiveFrameKeeps ==
    ASSUME BusInv, NEW i \in Instances, Bus!Receive(i)
    PROVE  BusInv'
<1>1. incoming[i] \in Seq(Bus!Messages) /\ incoming[i] # <<>>
  BY DEF BusInv, Bus!TypeOK, Bus!Receive
<1>2. PICK m \in Bus!Messages : m = Head(incoming[i])
  BY <1>1, ElementsOfTail
<1>3. /\ UNCHANGED <<socket, subscribed, outgoing, sent, owed, faults>>
      /\ incoming' = [incoming EXCEPT ![i] = Tail(incoming[i])]
      /\ got' = IF m.instanceId = i THEN got ELSE Bus!handed(i, m.device, m.frame)
  BY <1>2 DEF Bus!Receive, Bus!ignored
<1>4. \A j \in Instances : incoming'[j] = IF j = i THEN Tail(incoming[i]) ELSE incoming[j]
  BY <1>3 DEF BusInv, Bus!TypeOK
<1>5. /\ Tail(incoming[i]) \in Seq(Bus!Messages)
      /\ waiting(i) = {m} \cup waiting(i)'
      /\ \A a, b : earlier(incoming'[i], a, b) => earlier(incoming[i], a, b)
      /\ \A b \in waiting(i)' : earlier(incoming[i], m, b)
  BY <1>1, <1>2, <1>4, ElementsOfTail DEF waiting
<1>6. \A j \in Instances : /\ j # i => waiting(j)' = waiting(j)
                           /\ waiting(j)' \subseteq waiting(j)
                           /\ \A a, b : earlier(incoming'[j], a, b) => earlier(incoming[j], a, b)
                           /\ leaving(j)' = leaving(j)
  BY <1>3, <1>4, <1>5 DEF waiting, leaving
<1>7. PICK k \in Instances : k = m.instanceId /\ m.frame.from = k
  BY <1>5, MessagesOfConnections
<1>8. m.frame \in Bus!SentFrames /\ m.frame.n \in Nat /\ m.frame.n <= sent[k]
  BY <1>5, <1>7, MessagesOfConnections
<1>9. /\ \A b \in waiting(i)' : b.instanceId = k => m.frame.n < b.frame.n
      /\ \A b \in leaving(k) : m.frame.n < b.frame.n
  BY <1>5, <1>7 DEF BusInv, ConnectionsKeepOrder
<1> DEFINE to(s) == k # i /\ attached(s) /\ socket[s].at = i /\ socket[s].device = m.device
<1>10. /\ got' \in [Sockets -> Seq(Bus!SentFrames)]
       /\ \A s \in Sockets :
             IF to(s)
             THEN /\ handedTo(s)' = handedTo(s) \cup {m.frame}
                  /\ \A a, b : earlier(got'[s], a, b)
                        => earlier(got[s], a, b) \/ (a \in handedTo(s) /\ b = m.frame)
             ELSE got'[s] = got[s] /\ handedTo(s)' = handedTo(s)
  <2>1. CASE k = i
    BY <1>3, <1>7, <2>1 DEF BusInv, Bus!TypeOK, handedTo
  <2>2. CASE k # i
    <3>1. got' = Bus!handed(i, m.device, m.frame) /\ m.device \in Devices
      BY <1>3, <1>7, <2>2, FieldsOfMessage
    <3>2. /\ got' \in [Sockets -> Seq(Bus!SentFrames)]
          /\ \A s \in Sockets :
                IF s \in Bus!socketsOf(i, m.device)
                THEN /\ attached(s) /\ socket[s].at = i /\ socket[s].device = m.device
                     /\ handedTo(s)' = handedTo(s) \cup {m.frame}
                     /\ \A a, b : earlier(got'[s], a, b)
                           => earlier(got[s], a, b) \/ (a \in handedTo(s) /\ b = m.frame)
                ELSE got'[s] = got[s] /\ handedTo(s)' = handedTo(s)
          /\ \A s \in Sockets : attached(s) /\ socket[s].at = i /\ socket[s].device = m.device
                                  => s \in Bus!socketsOf(i, m.device)
      BY <1>8, <3>1, HandedByInstance DEF BusInv
    <3> QED
      BY <2>2, <3>2
  <2> QED
    BY <2>1, <2>2
<1> HIDE DEF to
<1>11. Bus!TypeOK'
  <2>1. incoming' \in [Instances -> Seq(Bus!Messages)]
    BY <1>3, <1>5 DEF BusInv, Bus!TypeOK
  <2>2. \A j \in Instances : j \notin subscribed' => incoming'[j] = <<>>
    <3>1. i \in subscribed
      BY <1>1 DEF BusInv, Bus!TypeOK
    <3> QED
      BY <1>3, <1>4, <3>1 DEF BusInv, Bus!TypeOK
  <2> QED
    BY <1>3, <1>10, <2>1, <2>2 DEF BusInv, Bus!TypeOK
<1>12. NamesItsSender'
  BY <1>6 DEF BusInv, NamesItsSender
<1>13. SentBefore'
  BY <1>3, <1>6, <1>7, <1>8, <1>10 DEF BusInv, SentBefore
<1>14. ConnectionsKeepOrder'
  BY <1>3, <1>6 DEF BusInv, ConnectionsKeepOrder, leaving
<1>15. HandedBeforeTheRest'
  <2> SUFFICES ASSUME NEW s \in Sockets, attached(s), NEW g \in handedTo(s)',
                      g.from # socket[s].at
               PROVE  /\ \A a \in (waiting(socket[s].at))' :
                            a.instanceId = g.from => g.n < a.frame.n
                      /\ \A a \in (leaving(g.from))' : g.n < a.frame.n
    BY <1>3 DEF HandedBeforeTheRest, attached
  <2>1. PICK j \in Instances : j = socket[s].at /\ j = (socket[s].at)'
    BY <1>3, MessagesOfConnections
  <2>2. CASE g \in handedTo(s)
    <3>1. PICK l \in Instances : l = g.from
      BY <2>2, MessagesOfConnections
    <3>2. /\ \A a \in waiting(j) : a.instanceId = l => g.n < a.frame.n
          /\ \A a \in leaving(l) : g.n < a.frame.n
      BY <2>1, <2>2, <3>1 DEF BusInv, HandedBeforeTheRest
    <3>3. \A a \in waiting(j)' : a.instanceId = l => g.n < a.frame.n
      BY <1>6, <3>2
    <3>4. \A a \in leaving(l)' : g.n < a.frame.n
      BY <1>6, <3>2
    <3> QED
      BY <2>1, <3>1, <3>3, <3>4
  <2>3. CASE g \notin handedTo(s)
    <3>1. g = m.frame /\ j = i
      BY <1>10, <2>1, <2>3 DEF to
    <3>2. \A a \in leaving(k)' : g.n < a.frame.n
      BY <1>6, <1>9, <3>1
    <3> QED
      BY <1>7, <1>9, <2>1, <3>1, <3>2
  <2> QED
    BY <2>2, <2>3
<1>16. HandedInOrder'
  <2> SUFFICES ASSUME NEW s \in Sockets, NEW a, NEW b, earlier(got'[s], a, b), a.from = b.from
               PROVE  a.n < b.n
    BY DEF HandedInOrder
  <2>1. CASE earlier(got[s], a, b)
    BY <2>1 DEF BusInv, HandedInOrder
  <2>2. CASE to(s) /\ a \in handedTo(s) /\ b = m.frame
    <3>1. a.from = k /\ socket[s].at = i /\ k # i /\ attached(s)
      BY <1>7, <2>2 DEF to
    <3>2. m \in waiting(i) /\ m.instanceId = k
      BY <1>5, <1>7
    <3> QED
      BY <2>2, <3>1, <3>2 DEF BusInv, HandedBeforeTheRest
  <2> QED
    BY <1>10, <2>1, <2>2
<1>17. NewHasNothing'
  BY <1>3, <1>10, AttachedOnly DEF BusInv, NewHasNothing, to, attached
<1>18. OwedComes'
  <2> SUFFICES ASSUME NEW s \in Sockets, attached(s), NEW g \in owed[s], g \notin handedTo(s)'
               PROVE  onTheWay(s, g)'
    BY <1>3 DEF OwedComes, attached
  <2>1. PICK j \in Instances : j = socket[s].at /\ j = (socket[s].at)'
    BY <1>3, MessagesOfConnections
  <2>2. g \notin handedTo(s)
    BY <1>10
  <2>3. PICK a \in waiting(j) : a.instanceId # j /\ a.device = socket[s].device /\ a.frame = g
    BY <2>1, <2>2 DEF BusInv, OwedComes, onTheWay
  <2>4. a \in waiting(j)'
    <3>1. CASE j = i /\ a = m
      BY <1>7, <1>10, <2>1, <2>3, <3>1 DEF to
    <3> QED
      BY <1>5, <1>6, <3>1
  <2>5. (waiting(socket[s].at))' = waiting(j)' /\ socket'[s] = socket[s]
    BY <1>3, <2>1
  <2> QED
    BY <2>1, <2>3, <2>4, <2>5 DEF onTheWay
<1> QED
  BY <1>11, <1>12, <1>13, <1>14, <1>15, <1>16, <1>17, <1>18 DEF BusInv

(* What Redis had pushed to an instance is lost, and owed no more.          *)
LEMMA SubscriberLostKeeps ==
    ASSUME BusInv, NEW i \in Instances, Bus!SubscriberLost(i)
    PROVE  BusInv'
<1>1. /\ UNCHANGED <<socket, outgoing, sent, got>>
      /\ faults < MaxFaults /\ faults' = faults + 1
      /\ subscribed' = subscribed \ {i}
      /\ incoming' = [incoming EXCEPT ![i] = <<>>]
      /\ owed' = [s \in Sockets |-> IF attached(s) /\ socket[s].at = i
                                      THEN owed[s] \cap handedTo(s) ELSE owed[s]]
  BY DEF Bus!SubscriberLost, Bus!ToSet, attached, handedTo, elements
<1>2. \A j \in Instances : incoming'[j] = IF j = i THEN <<>> ELSE incoming[j]
  BY <1>1 DEF BusInv, Bus!TypeOK
<1>3. \A j \in Instances : /\ j # i => waiting(j)' = waiting(j)
                           /\ waiting(j)' \subseteq waiting(j)
                           /\ \A a, b : earlier(incoming'[j], a, b) => earlier(incoming[j], a, b)
                           /\ leaving(j)' = leaving(j)
  BY <1>1, <1>2, ElementsOfEmpty DEF waiting, leaving
<1>4. Bus!TypeOK'
  <2>1. <<>> \in Seq(Bus!Messages)
    OBVIOUS
  <2>2. incoming' \in [Instances -> Seq(Bus!Messages)]
    BY <1>1, <2>1 DEF BusInv, Bus!TypeOK
  <2>3. owed' \in [Sockets -> SUBSET Bus!SentFrames]
    BY <1>1 DEF BusInv, Bus!TypeOK
  <2>4. subscribed' \subseteq Instances /\ faults' \in 0..MaxFaults
    BY <1>1, BusConstants DEF BusInv, Bus!TypeOK, Bus!BusAssumption
  <2>5. \A j \in Instances : j \notin subscribed' => incoming'[j] = <<>>
    BY <1>1, <1>2 DEF BusInv, Bus!TypeOK
  <2> QED
    BY <1>1, <2>2, <2>3, <2>4, <2>5 DEF BusInv, Bus!TypeOK
<1>5. NamesItsSender' /\ SentBefore' /\ HandedInOrder'
  BY <1>1, <1>3 DEF BusInv, NamesItsSender, SentBefore, HandedInOrder, handedTo
<1>6. ConnectionsKeepOrder'
  BY <1>1, <1>3 DEF BusInv, ConnectionsKeepOrder, leaving
<1>7. HandedBeforeTheRest'
  <2> SUFFICES ASSUME NEW s \in Sockets, attached(s), NEW g \in handedTo(s),
                      g.from # socket[s].at
               PROVE  /\ \A a \in (waiting(socket[s].at))' :
                            a.instanceId = g.from => g.n < a.frame.n
                      /\ \A a \in leaving(g.from) : g.n < a.frame.n
    BY <1>1 DEF HandedBeforeTheRest, attached, handedTo, leaving
  <2>1. (waiting(socket[s].at))' \subseteq waiting(socket[s].at)
    BY <1>1, <1>3, MessagesOfConnections
  <2> QED
    BY <2>1 DEF BusInv, HandedBeforeTheRest
<1>8. NewHasNothing'
  BY <1>1 DEF BusInv, NewHasNothing
<1>9. OwedComes'
  <2> SUFFICES ASSUME NEW s \in Sockets, attached(s), NEW g \in owed'[s], g \notin handedTo(s)
               PROVE  onTheWay(s, g)'
    BY <1>1 DEF OwedComes, attached, handedTo
  <2>1. socket[s].at # i /\ g \in owed[s]
    BY <1>1
  <2>2. (waiting(socket[s].at))' = waiting(socket[s].at)
    BY <1>1, <1>3, <2>1, MessagesOfConnections
  <2> QED
    BY <1>1, <2>1, <2>2 DEF BusInv, OwedComes, onTheWay
<1> QED
  BY <1>4, <1>5, <1>6, <1>7, <1>8, <1>9 DEF BusInv

(* An instance stops: its sockets close, what it had not published is lost. *)
LEMMA RestartKeeps ==
    ASSUME BusInv, NEW i \in Instances, Bus!Restart(i)
    PROVE  BusInv'
<1>1. /\ UNCHANGED <<sent, got, owed>>
      /\ faults < MaxFaults /\ faults' = faults + 1
      /\ subscribed' = subscribed \ {i}
      /\ socket' = [s \in Sockets |-> IF attached(s) /\ socket[s].at = i THEN Bus!Closed
                                                                        ELSE socket[s]]
      /\ outgoing' = [outgoing EXCEPT ![i] = <<>>]
      /\ incoming' = [incoming EXCEPT ![i] = <<>>]
  BY DEF Bus!Restart, Bus!history, attached
<1>2. \A j \in Instances : /\ incoming'[j] = IF j = i THEN <<>> ELSE incoming[j]
                           /\ outgoing'[j] = IF j = i THEN <<>> ELSE outgoing[j]
  BY <1>1 DEF BusInv, Bus!TypeOK
<1>3. \A j \in Instances : /\ j # i => waiting(j)' = waiting(j)
                           /\ waiting(j)' \subseteq waiting(j) /\ leaving(j)' \subseteq leaving(j)
                           /\ \A a, b : earlier(incoming'[j], a, b) => earlier(incoming[j], a, b)
                           /\ \A a, b : earlier(outgoing'[j], a, b) => earlier(outgoing[j], a, b)
  BY <1>2, ElementsOfEmpty DEF waiting, leaving
<1>4. \A s \in Sockets : attached(s)' => attached(s) /\ socket'[s] = socket[s] /\ socket[s].at # i
  BY <1>1, AttachedOnly DEF attached
<1>5. Bus!TypeOK'
  <2>1. <<>> \in Seq(Bus!Messages) /\ DOMAIN <<>> = {}
    OBVIOUS
  <2>2. /\ incoming' \in [Instances -> Seq(Bus!Messages)]
        /\ outgoing' \in [Instances -> Seq(Bus!Messages)]
    BY <1>1, <2>1 DEF BusInv, Bus!TypeOK
  <2>3. socket' \in [Sockets -> {Bus!New, Bus!Closed} \cup Bus!Attached]
    BY <1>1 DEF BusInv, Bus!TypeOK
  <2>4. subscribed' \subseteq Instances /\ faults' \in 0..MaxFaults
    BY <1>1, BusConstants DEF BusInv, Bus!TypeOK, Bus!BusAssumption
  <2>5. \A j \in Instances : j \notin subscribed' => incoming'[j] = <<>>
    BY <1>1, <1>2 DEF BusInv, Bus!TypeOK
  <2>6. \A j \in Instances : \A k \in DOMAIN outgoing'[j] : outgoing'[j][k].instanceId = j
    BY <1>2, <2>1 DEF BusInv, Bus!TypeOK
  <2> QED
    BY <1>1, <2>2, <2>3, <2>4, <2>5, <2>6 DEF BusInv, Bus!TypeOK
<1>6. NamesItsSender' /\ SentBefore' /\ HandedInOrder'
  BY <1>1, <1>3 DEF BusInv, NamesItsSender, SentBefore, HandedInOrder, handedTo
<1>7. ConnectionsKeepOrder'
  <2> SUFFICES ASSUME NEW j \in Instances
               PROVE  /\ \A a, b : earlier(outgoing'[j], a, b) => a.frame.n < b.frame.n
                      /\ \A a, b : earlier(incoming'[j], a, b) /\ a.instanceId = b.instanceId
                                     => a.frame.n < b.frame.n
                      /\ \A a \in waiting(j)' : \A b \in (leaving(a.instanceId))' :
                            a.frame.n < b.frame.n
    BY DEF ConnectionsKeepOrder
  <2>1. \A a \in waiting(j)' : \A b \in (leaving(a.instanceId))' : a.frame.n < b.frame.n
    <3> SUFFICES ASSUME NEW a \in waiting(j), NEW b \in (leaving(a.instanceId))'
                 PROVE  a.frame.n < b.frame.n
      BY <1>3
    <3>1. PICK k \in Instances : k = a.instanceId
      BY MessagesOfConnections
    <3>2. b \in leaving(k)
      BY <1>3, <3>1
    <3> QED
      BY <3>1, <3>2 DEF BusInv, ConnectionsKeepOrder
  <2> QED
    BY <1>3, <2>1 DEF BusInv, ConnectionsKeepOrder
<1>8. HandedBeforeTheRest'
  <2> SUFFICES ASSUME NEW s \in Sockets, attached(s), socket'[s] = socket[s],
                      NEW g \in handedTo(s), g.from # socket[s].at
               PROVE  /\ \A a \in (waiting(socket[s].at))' :
                            a.instanceId = g.from => g.n < a.frame.n
                      /\ \A a \in (leaving(g.from))' : g.n < a.frame.n
    BY <1>1, <1>4 DEF HandedBeforeTheRest, handedTo
  <2>1. (waiting(socket[s].at))' \subseteq waiting(socket[s].at)
    BY <1>3, MessagesOfConnections
  <2>2. PICK l \in Instances : l = g.from
    BY MessagesOfConnections
  <2>3. leaving(l)' \subseteq leaving(l)
    BY <1>3
  <2>4. \A a \in leaving(l)' : g.n < a.frame.n
    BY <2>2, <2>3 DEF BusInv, HandedBeforeTheRest
  <2>5. \A a \in (waiting(socket[s].at))' : a.instanceId = g.from => g.n < a.frame.n
    BY <2>1 DEF BusInv, HandedBeforeTheRest
  <2> QED
    BY <2>2, <2>4, <2>5
<1>9. NewHasNothing'
  BY <1>1, AttachedOnly DEF BusInv, NewHasNothing
<1>10. OwedComes'
  <2> SUFFICES ASSUME NEW s \in Sockets, attached(s), socket'[s] = socket[s],
                      socket[s].at # i, NEW g \in owed[s], g \notin handedTo(s)
               PROVE  onTheWay(s, g)'
    BY <1>1, <1>4 DEF OwedComes, handedTo
  <2>1. (waiting(socket[s].at))' = waiting(socket[s].at)
    BY <1>3, MessagesOfConnections
  <2> QED
    BY <2>1 DEF BusInv, OwedComes, onTheWay
<1> QED
  BY <1>5, <1>6, <1>7, <1>8, <1>9, <1>10 DEF BusInv

LEMMA BusFollows ==
    ASSUME BusInv
    PROVE  FramesReachTheirSockets
<1>1. Bus!OnceAndInOrder
  BY DEF BusInv, HandedInOrder, earlier, Bus!OnceAndInOrder
<1>2. Bus!ReachesEverySocket
  <2> SUFFICES ASSUME NEW s \in Sockets, attached(s), NEW f \in owed[s]
               PROVE  f \in Bus!ToSet(got[s]) \cup Bus!onItsWay(s)
    BY DEF Bus!ReachesEverySocket, attached
  <2>1. CASE f \in handedTo(s)
    BY <2>1 DEF Bus!ToSet, handedTo, elements
  <2>2. CASE onTheWay(s, f)
    BY <2>2 DEF onTheWay, Bus!onItsWay, waiting, elements
  <2> QED
    BY <2>1, <2>2 DEF BusInv, OwedComes
<1> QED
  BY <1>1, <1>2 DEF BusInv, FramesReachTheirSockets

-----------------------------------------------------------------------------
(* Where the log, the gate and the bus each move on their own.              *)

LEMMA GateStays ==
    ASSUME GateInv, UNCHANGED gateVars
    PROVE  GateInv'
<1>1. now' = now /\ seen' = seen /\ rate' = rate /\ frame' = frame
  BY DEF gateVars
<1>2. Gate!TypeOK'
  BY <1>1 DEF GateInv, Gate!TypeOK
<1>3. SeenInv'
  BY <1>1, SeenStays DEF GateInv, passed
<1>4. IncrInTime'
  BY <1>1 DEF GateInv, RateInv, IncrInTime
<1>5. RateInv'
  BY <1>1, <1>4, RateStays DEF GateInv, ranked
<1> QED
  BY <1>2, <1>3, <1>5 DEF GateInv

LEMMA BusStays ==
    ASSUME BusInv, UNCHANGED busVars
    PROVE  BusInv'
<1>1. UNCHANGED <<socket, subscribed, outgoing, incoming, sent, got, owed, faults>>
  BY DEF busVars
<1>2. Bus!TypeOK'
  BY <1>1 DEF BusInv, Bus!TypeOK
<1>3. NamesItsSender' /\ SentBefore' /\ ConnectionsKeepOrder' /\ HandedInOrder'
  BY <1>1, ConnectionsStay
<1>4. HandedBeforeTheRest' /\ NewHasNothing' /\ OwedComes'
  BY <1>1 DEF BusInv, HandedBeforeTheRest, NewHasNothing, OwedComes, leaving, waiting, handedTo,
     attached, onTheWay
<1> QED
  BY <1>2, <1>3, <1>4 DEF BusInv

LEMMA GateStepKeeps ==
    ASSUME GateInv, Gate!Next
    PROVE  GateInv'
  BY ReceiveKeeps, SetSeenKeeps, RefuseReplayKeeps, ChooseWindowKeeps, IncrKeeps, ExpireKeeps,
     TickKeeps DEF Gate!Next

LEMMA BusStepKeeps ==
    ASSUME BusInv, Bus!Next
    PROVE  BusInv'
  BY SubscribeKeeps, AttachKeeps, DetachKeeps, SendKeeps, PublishKeeps, ReceiveFrameKeeps,
     SubscriberLostKeeps, RestartKeeps DEF Bus!Next

LEMMA PartsInvariant == PartsSpec => [](GateInv /\ BusInv)
<1>1. PartsInit => GateInv /\ BusInv
  BY GateBegins, BusBegins DEF PartsInit
<1>2. GateInv /\ BusInv /\ [PartsNext]_allVars => (GateInv /\ BusInv)'
  <2> SUFFICES ASSUME GateInv, BusInv, [PartsNext]_allVars
               PROVE  GateInv' /\ BusInv'
    OBVIOUS
  <2>1. CASE Gate!Next /\ UNCHANGED busVars
    BY <2>1, GateStepKeeps, BusStays
  <2>2. CASE Bus!Next /\ UNCHANGED gateVars
    BY <2>2, BusStepKeeps, GateStays
  <2>3. CASE UNCHANGED <<gateVars, busVars>>
    BY <2>3, GateStays, BusStays
  <2> QED
    BY <2>1, <2>2, <2>3 DEF PartsNext, allVars
<1> QED
  BY <1>1, <1>2, PTL DEF PartsSpec

(* However remember() of any number of sockets and instances overlaps, a    *)
(* message id of a device acts once while its key lives, a second lets      *)
(* MaxMessages frames through whenever its key lapses, and no frame is      *)
(* refused before that (redis-runtime.ts 213-220).                          *)
THEOREM GateKeepsCount == PartsSpec => []GateCounts
  BY PartsInvariant, GateFollows, PTL

(* However many instances share one Redis, and whichever of them restarts   *)
(* or loses its connection, each socket of a device is handed the frames of *)
(* an instance once and in order, and none that Redis had for it is         *)
(* swallowed on the way (arena.ts 100-108, redis-runtime.ts 237-247).       *)
THEOREM FramesArrive == PartsSpec => []FramesReachTheirSockets
  BY PartsInvariant, BusFollows, PTL
=============================================================================
