---------------------------- MODULE ClocksProofs ----------------------------
(***************************************************************************)
(* Proofs about the timers of a match and the presence of its players      *)
(* (RedisClocks, SocketPresence), as they are put together in              *)
(* MCMatchClocks: for any number of sockets, handlers and overlapping runs *)
(* of due(), any limits and any bounds.                                    *)
(*                                                                         *)
(* Presence.  The invariant ties the book to the model's own record of the *)
(* last sign of life of a device: its last beat is as old, or older by a   *)
(* heartbeat at most, and it was not dated as gone before that.  A device  *)
(* that is there has beaten within a heartbeat, so it is online to every   *)
(* query, the delayed ones included.                                       *)
(*                                                                         *)
(* The timers.  A decision is timed by Redis, by a run of due() that has   *)
(* taken it from there, by the handler that run called, or will be by the  *)
(* handler that made the action before it.  That stays so because at most  *)
(* one handler deals, and while it does nobody acts; a match that is over  *)
(* stays quiet because nobody times it any more.                           *)
(***************************************************************************)
EXTENDS MCMatchClocks, FiniteSetTheorems, TLAPS

-----------------------------------------------------------------------------
(* Presence.                                                                *)

held(d) == {s \in Sockets : socket[d][s] \in Presence!Counted}
there(d) == Presence!has(d, {"attached"})

(* What a row of the book says of a player that was last heard of `age` ago. *)
saysOf(r, age) ==
    /\ r # Presence!NoRow => age <= r.lastBeat /\ r.lastBeat <= age + Interval
    /\ r.disconnectedAt # Presence!NoAge => r.disconnectedAt <= age

HeardOf ==
    \A d \in Presence!Devices :
        /\ saysOf(book[d], unheard[d])
        /\ there(d) => book[d].lastBeat <= Interval

PresenceInv == Presence!TypeOK /\ Presence!CountIsExact /\ HeardOf

LEMMA PresenceNumbers ==
    /\ IsFiniteSet(Sockets) /\ Sockets # {}
    /\ Interval \in Nat /\ Timeout \in Nat /\ Forfeit \in Nat /\ Lag \in Nat
    /\ 0 < Interval /\ Interval < Timeout /\ Timeout < Forfeit
    /\ MaxOpens \in Nat /\ MaxSilences \in Nat /\ MaxRestarts \in Nat
    /\ Presence!Cap = Forfeit + Lag + 1 /\ Presence!NoAge = -1
<1>1. /\ Presence!IsFiniteSet(Sockets) /\ Sockets # {}
      /\ Interval \in Nat /\ Timeout \in Nat /\ Forfeit \in Nat /\ Lag \in Nat
      /\ 0 < Interval /\ Interval < Timeout /\ Timeout < Forfeit
      /\ MaxOpens \in Nat /\ MaxSilences \in Nat /\ MaxRestarts \in Nat
  BY PresenceConstants DEF Presence!PresenceAssumption
<1>2. IsFiniteSet(Sockets)
  BY <1>1 DEF IsFiniteSet, Presence!IsFiniteSet
<1> QED
  BY <1>1, <1>2 DEF Presence!Cap, Presence!NoAge

LEMMA CountsAlike == \A S : Presence!Cardinality(S) = Cardinality(S)
  BY DEF Presence!Cardinality, Cardinality

LEMMA LargerOfTwo == \A n \in Int : Presence!Max({0, n}) = IF n > 0 THEN n ELSE 0
<1> SUFFICES ASSUME NEW n \in Int
             PROVE  Presence!Max({0, n}) = IF n > 0 THEN n ELSE 0
  OBVIOUS
<1> DEFINE m == IF n > 0 THEN n ELSE 0
<1>1. m \in {0, n} /\ \A y \in {0, n} : m >= y
  OBVIOUS
<1>2. \A x \in {0, n} : (\A y \in {0, n} : x >= y) => x = m
  OBVIOUS
<1> QED
  BY <1>1, <1>2 DEF Presence!Max

LEMMA OneTickOlder ==
    \A n \in Nat : Presence!older(n) = IF n < Presence!Cap THEN n + 1 ELSE Presence!Cap
<1> SUFFICES ASSUME NEW n \in Nat
             PROVE  Presence!older(n) = IF n < Presence!Cap THEN n + 1 ELSE Presence!Cap
  OBVIOUS
<1> DEFINE c == Presence!Cap
           m == IF n < c THEN n + 1 ELSE c
<1>1. c \in Nat
  BY PresenceNumbers
<1> HIDE DEF c
<1>2. m \in {n + 1, c} /\ \A y \in {n + 1, c} : m <= y
  BY <1>1
<1>3. \A x \in {n + 1, c} : (\A y \in {n + 1, c} : x <= y) => x = m
  BY <1>1
<1>4. Presence!Min({n + 1, c}) = m
  BY <1>2, <1>3 DEF Presence!Min
<1> QED
  BY <1>4 DEF Presence!older, c

(* What a device has in the state.                                          *)
LEMMA PresenceFields ==
    ASSUME PresenceInv, NEW d \in Presence!Devices
    PROVE  /\ book[d] \in Presence!Rows
           /\ book[d].sockets \in Nat /\ book[d].lastBeat \in 0..Presence!Cap
           /\ book[d].disconnectedAt \in 0..Presence!Cap \cup {-1}
           /\ unheard[d] \in 0..Presence!Cap
           /\ book[d].sockets = Cardinality(held(d)) /\ IsFiniteSet(held(d))
           /\ book[d].disconnectedAt # -1 => book[d].sockets = 0
           /\ book[d].sockets = 0 /\ book[d] # Presence!NoRow => book[d].disconnectedAt # -1
<1>1. book[d] \in Presence!Rows /\ unheard[d] \in 0..Presence!Cap
  BY DEF PresenceInv, Presence!TypeOK, Presence!Ages
<1>2. /\ book[d].sockets \in Nat /\ book[d].lastBeat \in 0..Presence!Cap
      /\ book[d].disconnectedAt \in 0..Presence!Cap \cup {-1}
  BY <1>1, PresenceNumbers DEF Presence!Rows, Presence!Ages
<1>3. book[d].sockets = Presence!Cardinality(held(d))
  BY DEF PresenceInv, Presence!CountIsExact, held
<1>4. IsFiniteSet(held(d))
  BY PresenceNumbers, FS_Subset DEF held
<1>5. /\ book[d].disconnectedAt # -1 => book[d].sockets = 0
      /\ book[d].sockets = 0 /\ book[d] # Presence!NoRow => book[d].disconnectedAt # -1
  BY PresenceNumbers DEF PresenceInv, Presence!CountIsExact
<1> QED
  BY <1>1, <1>2, <1>3, <1>4, <1>5, CountsAlike

(* A socket that is counted makes the book count one at least.              *)
LEMMA CountedIsKnown ==
    ASSUME PresenceInv, NEW d \in Presence!Devices, NEW s \in held(d)
    PROVE  /\ book[d].sockets > 0 /\ book[d] # Presence!NoRow
           /\ book[d].disconnectedAt = -1
<1>1. Cardinality(held(d)) # 0 /\ Cardinality(held(d)) \in Nat
  BY PresenceFields, FS_EmptySet, FS_CardinalityType
<1>2. book[d].sockets > 0
  BY <1>1, PresenceFields
<1> QED
  BY <1>2, PresenceFields DEF Presence!NoRow

(* A player that is there is online, whenever it was asked: the disconnect  *)
(* timer takes nothing from it.  One that is away was last heard of as long *)
(* ago as the book says, or a heartbeat less.                               *)
LEMMA AwayIsNotThere ==
    ASSUME PresenceInv, NEW d \in Presence!Devices, NEW ago \in 0..Lag
    PROVE  /\ Presence!offlineSince(d, ago) \in Nat \cup {-1}
           /\ Presence!offlineSince(d, ago) = -1
                => book[d] = Presence!NoRow \/ unheard[d] <= Timeout + Lag
           /\ Presence!offlineSince(d, ago) # -1
                => /\ ~ there(d)
                   /\ Presence!offlineSince(d, ago) <= unheard[d] + Interval
<1> DEFINE off == Presence!offlineSince(d, ago)
           gone == book[d].disconnectedAt
           beat == book[d].lastBeat
<1>1. /\ gone \in 0..Presence!Cap \cup {-1} /\ beat \in 0..Presence!Cap
      /\ unheard[d] \in 0..Presence!Cap /\ book[d].sockets \in Nat
  BY PresenceFields
<1>2. /\ book[d] # Presence!NoRow => unheard[d] <= beat /\ beat <= unheard[d] + Interval
      /\ gone # -1 => gone <= unheard[d]
      /\ there(d) => beat <= Interval
  BY PresenceNumbers DEF PresenceInv, HeardOf, saysOf
<1>3. there(d) => book[d].sockets > 0 /\ book[d] # Presence!NoRow
  <2> SUFFICES ASSUME there(d) PROVE book[d].sockets > 0 /\ book[d] # Presence!NoRow
    OBVIOUS
  <2>1. PICK s \in Sockets : socket[d][s] = "attached"
    BY DEF there, Presence!has
  <2>2. s \in held(d)
    BY <2>1 DEF held, Presence!Counted
  <2> QED
    BY <2>2, CountedIsKnown
<1>4. /\ Presence!Max({0, gone - ago}) = IF gone - ago > 0 THEN gone - ago ELSE 0
      /\ Presence!Max({0, beat - ago}) = IF beat - ago > 0 THEN beat - ago ELSE 0
  BY <1>1, PresenceNumbers, LargerOfTwo
<1>5. Presence!isOnline(d, ago) <=> book[d].sockets > 0 /\ beat - ago <= Timeout
  BY DEF Presence!isOnline
<1>6. off = IF Presence!isOnline(d, ago) \/ book[d] = Presence!NoRow THEN -1
            ELSE IF gone # -1 THEN Presence!Max({0, gone - ago})
            ELSE Presence!Max({0, beat - ago})
  BY PresenceNumbers DEF Presence!offlineSince
<1> HIDE DEF off, gone, beat
<1>7. off \in Nat \cup {-1}
  BY <1>1, <1>4, <1>6, PresenceNumbers
<1>8. off = -1 => book[d] = Presence!NoRow \/ unheard[d] <= Timeout + Lag
  <2> SUFFICES ASSUME off = -1, book[d] # Presence!NoRow PROVE unheard[d] <= Timeout + Lag
    OBVIOUS
  <2>1. beat - ago <= Timeout
    BY <1>1, <1>4, <1>5, <1>6, PresenceNumbers
  <2> QED
    BY <1>1, <1>2, <2>1, PresenceNumbers
<1>9. off # -1 => off <= unheard[d] + Interval
  BY <1>1, <1>2, <1>4, <1>6, PresenceNumbers
<1>10. off # -1 => ~ there(d)
  BY <1>1, <1>2, <1>3, <1>5, <1>6, PresenceNumbers
<1> QED
  BY <1>7, <1>8, <1>9, <1>10 DEF off

(* The invariant, device by device.                                         *)
rowOK(d) ==
    /\ book[d].sockets = Cardinality(held(d))
    /\ book[d].disconnectedAt # -1 => book[d].sockets = 0
    /\ book[d].sockets = 0 /\ book[d] # Presence!NoRow => book[d].disconnectedAt # -1
    /\ saysOf(book[d], unheard[d])
    /\ there(d) => book[d].lastBeat <= Interval

LEMMA RowByRow ==
    ASSUME Presence!TypeOK', \A d \in Presence!Devices : rowOK(d)'
    PROVE  PresenceInv'
<1>1. Presence!CountIsExact'
  BY CountsAlike, PresenceNumbers DEF rowOK, Presence!CountIsExact, held
<1>2. HeardOf'
  BY DEF rowOK, HeardOf
<1> QED
  BY <1>1, <1>2 DEF PresenceInv

LEMMA RowsAreOK ==
    ASSUME PresenceInv, NEW d \in Presence!Devices
    PROVE  rowOK(d)
<1>1. saysOf(book[d], unheard[d]) /\ (there(d) => book[d].lastBeat <= Interval)
  BY DEF PresenceInv, HeardOf
<1> QED
  BY <1>1, PresenceFields DEF rowOK

LEMMA RowStays ==
    ASSUME PresenceInv, NEW d \in Presence!Devices,
           book'[d] = book[d], unheard'[d] = unheard[d],
           held(d)' = held(d), there(d)' => there(d)
    PROVE  rowOK(d)'
  BY RowsAreOK DEF rowOK, saysOf

LEMMA TypesOfPresence ==
    ASSUME PresenceInv
    PROVE  /\ socket \in [Presence!Devices -> [Sockets -> Presence!SocketStates]]
           /\ book \in [Presence!Devices -> Presence!Rows]
           /\ leaving \subseteq [of : Presence!Devices, age : 0..Lag]
           /\ ticking \in 0..Forfeit \cup {-1}
           /\ winning \in Presence!Devices \cup {Presence!Undecided, Presence!Nobody}
           /\ unheard \in [Presence!Devices -> Presence!Ages]
           /\ opened \in [Presence!Devices -> 0..MaxOpens]
           /\ silences \in Nat /\ restarts \in Nat
  BY PresenceNumbers DEF PresenceInv, Presence!TypeOK

(* One socket moves.                                                        *)
LEMMA SocketMoves ==
    ASSUME PresenceInv, NEW d \in Presence!Devices, NEW s \in Sockets,
           NEW state \in Presence!SocketStates, Presence!moves(d, s, state)
    PROVE  /\ socket' \in [Presence!Devices -> [Sockets -> Presence!SocketStates]]
           /\ held(d)' = IF state \in Presence!Counted THEN held(d) \cup {s} ELSE held(d) \ {s}
           /\ there(d)' => state = "attached" \/ there(d)
           /\ \A e \in Presence!Devices \ {d} : held(e)' = held(e) /\ there(e)' = there(e)
<1>1. /\ socket' = [socket EXCEPT ![d] = [socket[d] EXCEPT ![s] = state]]
      /\ socket[d] \in [Sockets -> Presence!SocketStates]
  BY TypesOfPresence DEF Presence!moves
<1>2. /\ socket'[d] = [socket[d] EXCEPT ![s] = state]
      /\ \A e \in Presence!Devices \ {d} : socket'[e] = socket[e]
  BY <1>1, TypesOfPresence
<1>3. socket' \in [Presence!Devices -> [Sockets -> Presence!SocketStates]]
  BY <1>1, TypesOfPresence
<1>4. socket'[d][s] = state /\ \A t \in Sockets \ {s} : socket'[d][t] = socket[d][t]
  BY <1>1, <1>2
<1>5. held(d)' = IF state \in Presence!Counted THEN held(d) \cup {s} ELSE held(d) \ {s}
  BY <1>4 DEF held
<1>6. there(d)' => state = "attached" \/ there(d)
  BY <1>4 DEF there, Presence!has
<1>7. \A e \in Presence!Devices \ {d} : held(e)' = held(e) /\ there(e)' = there(e)
  BY <1>2 DEF held, there, Presence!has
<1> QED
  BY <1>3, <1>5, <1>6, <1>7

LEMMA PresenceBegins == ASSUME Presence!Init PROVE PresenceInv
<1> DEFINE first == CHOOSE t \in Sockets : TRUE
<1>1. first \in Sockets
  BY PresenceNumbers
<1>2. /\ socket = [d \in Presence!Devices |-> [s \in Sockets |->
                       IF s = first THEN "attached" ELSE "none"]]
      /\ book = [d \in Presence!Devices |->
                    [sockets |-> 1, lastBeat |-> 0, disconnectedAt |-> -1]]
      /\ unheard = [d \in Presence!Devices |-> 0]
      /\ opened = [d \in Presence!Devices |-> 0]
      /\ leaving = {} /\ ticking = -1 /\ winning = Presence!Undecided
      /\ silences = 0 /\ restarts = 0
  BY PresenceNumbers DEF Presence!Init
<1> HIDE DEF first
<1>3. Presence!TypeOK
  <2>1. socket \in [Presence!Devices -> [Sockets -> Presence!SocketStates]]
    BY <1>2 DEF Presence!SocketStates
  <2>2. 0 \in Presence!Ages /\ -1 \in Presence!Ages \cup {Presence!NoAge}
    BY PresenceNumbers DEF Presence!Ages
  <2>3. book \in [Presence!Devices -> Presence!Rows]
    BY <1>2, <2>2 DEF Presence!Rows
  <2>4. unheard \in [Presence!Devices -> Presence!Ages]
    BY <1>2, <2>2
  <2>5. opened \in [Presence!Devices -> 0..MaxOpens]
    BY <1>2, PresenceNumbers
  <2> QED
    BY <1>2, <2>1, <2>3, <2>4, <2>5, PresenceNumbers DEF Presence!TypeOK
<1>4. ASSUME NEW d \in Presence!Devices PROVE
        /\ book[d] = [sockets |-> 1, lastBeat |-> 0, disconnectedAt |-> -1]
        /\ unheard[d] = 0 /\ held(d) = {first}
  <2>1. book[d] = [sockets |-> 1, lastBeat |-> 0, disconnectedAt |-> -1] /\ unheard[d] = 0
    BY <1>2
  <2>2. \A s \in Sockets : socket[d][s] = IF s = first THEN "attached" ELSE "none"
    BY <1>2
  <2>3. held(d) = {first}
    BY <1>1, <2>2 DEF held, Presence!Counted
  <2> QED
    BY <2>1, <2>3
<1>5. Presence!CountIsExact
  <2>1. Presence!Cardinality({first}) = 1
    BY CountsAlike, FS_Singleton
  <2>2. ASSUME NEW d \in Presence!Devices PROVE
          /\ book[d].sockets
               = Presence!Cardinality({s \in Sockets : socket[d][s] \in Presence!Counted})
          /\ book[d].disconnectedAt = -1 /\ book[d].sockets # 0
    <3>1. held(d) = {s \in Sockets : socket[d][s] \in Presence!Counted}
      BY DEF held
    <3>2. Presence!Cardinality(held(d)) = 1
      BY <1>4, <2>1
    <3> QED
      BY <1>4, <3>1, <3>2
  <2> QED
    BY <2>2, PresenceNumbers DEF Presence!CountIsExact
<1>6. HeardOf
  BY <1>4, PresenceNumbers DEF HeardOf, saysOf
<1> QED
  BY <1>3, <1>5, <1>6 DEF PresenceInv

(* A socket that moves without being counted or dropped.                    *)
LEMMA QuietMove ==
    ASSUME PresenceInv, NEW d \in Presence!Devices, NEW s \in Sockets,
           NEW state \in Presence!SocketStates \ {"attached"}, Presence!moves(d, s, state),
           s \in held(d) <=> state \in Presence!Counted,
           UNCHANGED <<book, leaving, ticking, winning, unheard>>,
           opened' \in [Presence!Devices -> 0..MaxOpens], silences' \in Nat, restarts' \in Nat
    PROVE  PresenceInv'
<1>1. /\ socket' \in [Presence!Devices -> [Sockets -> Presence!SocketStates]]
      /\ \A e \in Presence!Devices : held(e)' = held(e) /\ (there(e)' => there(e))
  <2>1. /\ socket' \in [Presence!Devices -> [Sockets -> Presence!SocketStates]]
        /\ held(d)' = IF state \in Presence!Counted THEN held(d) \cup {s} ELSE held(d) \ {s}
        /\ there(d)' => there(d)
        /\ \A e \in Presence!Devices \ {d} : held(e)' = held(e) /\ there(e)' = there(e)
    BY SocketMoves
  <2>2. held(d)' = held(d)
    BY <2>1
  <2> QED
    BY <2>1, <2>2
<1>2. Presence!TypeOK'
  BY <1>1, TypesOfPresence, PresenceNumbers DEF Presence!TypeOK
<1>3. \A e \in Presence!Devices : rowOK(e)'
  BY <1>1, RowStays
<1> QED
  BY <1>2, <1>3, RowByRow

LEMMA RedeemKeeps ==
    ASSUME PresenceInv, NEW d \in Presence!Devices, NEW s \in Sockets, Presence!Redeem(d, s)
    PROVE  PresenceInv'
<1>1. /\ Presence!moves(d, s, "redeeming") /\ socket[d][s] = "none" /\ opened[d] < MaxOpens
      /\ opened' = [opened EXCEPT ![d] = @ + 1]
      /\ UNCHANGED <<book, leaving, ticking, winning, unheard, silences, restarts>>
  BY DEF Presence!Redeem, Presence!server
<1>2. opened' \in [Presence!Devices -> 0..MaxOpens] /\ silences' \in Nat /\ restarts' \in Nat
  BY <1>1, TypesOfPresence, PresenceNumbers
<1>3. "redeeming" \in Presence!SocketStates \ {"attached"} /\ "redeeming" \notin Presence!Counted
      /\ s \notin held(d)
  BY <1>1 DEF Presence!SocketStates, Presence!Counted, held
<1> QED
  BY <1>1, <1>2, <1>3, QuietMove

LEMMA CloseEarlyKeeps ==
    ASSUME PresenceInv, NEW d \in Presence!Devices, NEW s \in Sockets, Presence!CloseEarly(d, s)
    PROVE  PresenceInv'
<1>1. /\ Presence!moves(d, s, "abandoned") /\ socket[d][s] = "redeeming"
      /\ UNCHANGED <<book, leaving, ticking, winning, unheard, opened, silences, restarts>>
  BY DEF Presence!CloseEarly, Presence!server, Presence!bounds
<1>2. opened' \in [Presence!Devices -> 0..MaxOpens] /\ silences' \in Nat /\ restarts' \in Nat
  BY <1>1, TypesOfPresence
<1>3. "abandoned" \in Presence!SocketStates \ {"attached"} /\ "abandoned" \notin Presence!Counted
      /\ s \notin held(d)
  BY <1>1 DEF Presence!SocketStates, Presence!Counted, held
<1> QED
  BY <1>1, <1>2, <1>3, QuietMove

LEMMA GoSilentKeeps ==
    ASSUME PresenceInv, NEW d \in Presence!Devices, NEW s \in Sockets, Presence!GoSilent(d, s)
    PROVE  PresenceInv'
<1>1. /\ Presence!moves(d, s, "silent") /\ socket[d][s] = "attached"
      /\ silences' = silences + 1
      /\ UNCHANGED <<book, leaving, ticking, winning, unheard, opened, restarts>>
  BY DEF Presence!GoSilent, Presence!server
<1>2. opened' \in [Presence!Devices -> 0..MaxOpens] /\ silences' \in Nat /\ restarts' \in Nat
  BY <1>1, TypesOfPresence
<1>3. "silent" \in Presence!SocketStates \ {"attached"} /\ "silent" \in Presence!Counted
      /\ s \in held(d)
  BY <1>1 DEF Presence!SocketStates, Presence!Counted, held
<1> QED
  BY <1>1, <1>2, <1>3, QuietMove

(* One entry of the book changes.                                           *)
LEMMA EntryChanges ==
    ASSUME PresenceInv, NEW d \in Presence!Devices, NEW r \in Presence!Rows,
           book' = [book EXCEPT ![d] = r]
    PROVE  /\ book' \in [Presence!Devices -> Presence!Rows] /\ book'[d] = r
           /\ \A e \in Presence!Devices \ {d} : book'[e] = book[e]
  BY TypesOfPresence

LEMMA HeardChanges ==
    ASSUME PresenceInv, NEW d \in Presence!Devices, unheard' = [unheard EXCEPT ![d] = 0]
    PROVE  /\ unheard' \in [Presence!Devices -> Presence!Ages] /\ unheard'[d] = 0
           /\ \A e \in Presence!Devices \ {d} : unheard'[e] = unheard[e]
  BY TypesOfPresence, PresenceNumbers DEF Presence!Ages

(* A row, as a record of its three parts.                                   *)
LEMMA RowOfParts ==
    ASSUME NEW n \in Nat, NEW b \in 0..Presence!Cap, NEW g \in 0..Presence!Cap \cup {-1}
    PROVE  [sockets |-> n, lastBeat |-> b, disconnectedAt |-> g] \in Presence!Rows
  BY PresenceNumbers DEF Presence!Rows, Presence!Ages

LEMMA EntryBeats ==
    ASSUME PresenceInv, NEW d \in Presence!Devices,
           NEW g \in Presence!Ages \cup {Presence!NoAge},
           book' = [book EXCEPT ![d].lastBeat = 0, ![d].disconnectedAt = g]
    PROVE  /\ book' \in [Presence!Devices -> Presence!Rows]
           /\ book'[d].sockets = book[d].sockets
           /\ book'[d].lastBeat = 0 /\ book'[d].disconnectedAt = g
           /\ \A e \in Presence!Devices \ {d} : book'[e] = book[e]
<1>1. 0 \in Presence!Ages
  BY PresenceNumbers DEF Presence!Ages
<1> QED
  BY <1>1, TypesOfPresence DEF Presence!Rows

LEMMA AttachKeeps ==
    ASSUME PresenceInv, NEW d \in Presence!Devices, NEW s \in Sockets, Presence!Attach(d, s)
    PROVE  PresenceInv'
<1> DEFINE state == IF socket[d][s] = "redeeming" THEN "attached" ELSE "leaked"
           n == book[d].sockets
           r == [sockets |-> n + 1, lastBeat |-> 0, disconnectedAt |-> -1]
<1>1. /\ Presence!moves(d, s, state) /\ socket[d][s] \in {"redeeming", "abandoned"}
      /\ book' = [book EXCEPT ![d] = r]
      /\ unheard' = [unheard EXCEPT ![d] = 0]
      /\ UNCHANGED <<leaving, ticking, winning, opened, silences, restarts>>
  BY PresenceNumbers DEF Presence!Attach, Presence!connect, Presence!bounds
<1>2. /\ state \in Presence!SocketStates /\ state \in Presence!Counted /\ s \notin held(d)
  BY <1>1 DEF Presence!SocketStates, Presence!Counted, held
<1>3. n \in Nat /\ n = Cardinality(held(d)) /\ IsFiniteSet(held(d))
  BY PresenceFields
<1>4. r \in Presence!Rows
  BY <1>3, PresenceNumbers, RowOfParts
<1> HIDE DEF state, n
<1>5. /\ socket' \in [Presence!Devices -> [Sockets -> Presence!SocketStates]]
      /\ held(d)' = held(d) \cup {s}
      /\ \A e \in Presence!Devices \ {d} : held(e)' = held(e) /\ there(e)' = there(e)
  BY <1>1, <1>2, SocketMoves
<1>6. /\ book' \in [Presence!Devices -> Presence!Rows] /\ book'[d] = r
      /\ \A e \in Presence!Devices \ {d} : book'[e] = book[e]
  BY <1>1, <1>4, EntryChanges
<1>7. /\ unheard' \in [Presence!Devices -> Presence!Ages] /\ unheard'[d] = 0
      /\ \A e \in Presence!Devices \ {d} : unheard'[e] = unheard[e]
  BY <1>1, HeardChanges
<1>8. Presence!TypeOK'
  BY <1>1, <1>5, <1>6, <1>7, TypesOfPresence, PresenceNumbers DEF Presence!TypeOK
<1>9. rowOK(d)'
  <2>1. Cardinality(held(d)') = n + 1
    BY <1>2, <1>3, <1>5, FS_AddElement
  <2>2. book'[d].sockets = n + 1 /\ book'[d].lastBeat = 0 /\ book'[d].disconnectedAt = -1
    BY <1>6
  <2> QED
    BY <1>3, <1>7, <2>1, <2>2, PresenceNumbers DEF rowOK, saysOf
<1>10. \A e \in Presence!Devices \ {d} : rowOK(e)'
  BY <1>5, <1>6, <1>7, RowStays
<1> QED
  BY <1>8, <1>9, <1>10, RowByRow

LEMMA BeatKeeps ==
    ASSUME PresenceInv, NEW d \in Presence!Devices, Presence!Beat(d)
    PROVE  PresenceInv'
<1> DEFINE n == book[d].sockets
           gone == book[d].disconnectedAt
<1>1. /\ there(d) \/ unheard[d] = 0
      /\ Presence!beat(d)
      /\ unheard' = [unheard EXCEPT ![d] = 0]
      /\ UNCHANGED <<socket, leaving, ticking, winning, opened, silences, restarts>>
  BY DEF Presence!Beat, Presence!bounds, there
<1>2. /\ unheard' \in [Presence!Devices -> Presence!Ages] /\ unheard'[d] = 0
      /\ \A e \in Presence!Devices \ {d} : unheard'[e] = unheard[e]
  BY <1>1, HeardChanges
<1>3. \A e \in Presence!Devices : held(e)' = held(e) /\ there(e)' = there(e)
  BY <1>1 DEF held, there, Presence!has
<1>4. rowOK(d) /\ n \in Nat /\ gone \in 0..Presence!Cap \cup {-1}
  BY RowsAreOK, PresenceFields
<1>5. CASE book[d] = Presence!NoRow
  <2>1. book' = book
    BY <1>1, <1>5 DEF Presence!beat
  <2>2. Presence!TypeOK'
    BY <1>1, <1>2, <2>1, TypesOfPresence, PresenceNumbers DEF Presence!TypeOK
  <2>3. rowOK(d)'
    <3>1. book'[d].disconnectedAt = -1 /\ book'[d] = Presence!NoRow
      BY <1>5, <2>1, PresenceNumbers DEF Presence!NoRow
    <3>2. saysOf(book[d], unheard[d])'
      BY <3>1, PresenceNumbers DEF saysOf, Presence!NoRow
    <3> QED
      BY <1>3, <1>4, <2>1, <3>2 DEF rowOK
  <2>4. \A e \in Presence!Devices \ {d} : rowOK(e)'
    BY <1>2, <1>3, <2>1, RowStays
  <2> QED
    BY <2>2, <2>3, <2>4, RowByRow
<1>6. CASE book[d] # Presence!NoRow
  <2>1. PICK g \in Presence!Ages \cup {Presence!NoAge} : g = IF n > 0 THEN -1 ELSE gone
    BY <1>4, PresenceNumbers DEF Presence!Ages
  <2>2. book' = [book EXCEPT ![d].lastBeat = 0, ![d].disconnectedAt = g]
    BY <1>1, <1>6, <2>1, PresenceNumbers DEF Presence!beat
  <2>3. /\ book' \in [Presence!Devices -> Presence!Rows]
        /\ book'[d].sockets = n /\ book'[d].lastBeat = 0 /\ book'[d].disconnectedAt = g
        /\ \A e \in Presence!Devices \ {d} : book'[e] = book[e]
    BY <2>2, EntryBeats
  <2>4. Presence!TypeOK'
    BY <1>1, <1>2, <2>3, TypesOfPresence, PresenceNumbers DEF Presence!TypeOK
  <2>5. rowOK(d)'
    <3>2. n = 0 => gone # -1
      BY <1>4, <1>6 DEF rowOK
    <3>3. n = 0 => unheard[d] = 0 /\ gone <= 0
      <4>1. n = 0 => ~ there(d)
        <5> SUFFICES ASSUME n = 0, there(d) PROVE FALSE
          OBVIOUS
        <5>1. PICK s \in Sockets : socket[d][s] = "attached"
          BY DEF there, Presence!has
        <5>2. s \in held(d)
          BY <5>1 DEF held, Presence!Counted
        <5> QED
          BY <5>2, CountedIsKnown, <1>4
      <4> QED
        BY <1>1, <1>4, <3>2, <4>1, PresenceNumbers DEF rowOK, saysOf
    <3>4. saysOf(book[d], unheard[d])'
      BY <1>2, <1>4, <2>1, <2>3, <3>3, PresenceNumbers DEF saysOf
    <3> QED
      BY <1>3, <1>4, <2>1, <2>3, <3>2, <3>4, PresenceNumbers DEF rowOK
  <2>6. \A e \in Presence!Devices \ {d} : rowOK(e)'
    BY <1>2, <1>3, <2>3, RowStays
  <2> QED
    BY <2>4, <2>5, <2>6, RowByRow
<1> QED
  BY <1>5, <1>6

LEMMA CloseKeeps ==
    ASSUME PresenceInv, NEW d \in Presence!Devices, NEW s \in Sockets, Presence!Close(d, s)
    PROVE  PresenceInv'
<1> DEFINE n == book[d].sockets
           r == [sockets |-> n - 1, lastBeat |-> book[d].lastBeat,
                 disconnectedAt |-> IF n - 1 = 0 THEN 0 ELSE -1]
<1>1. /\ Presence!moves(d, s, "none") /\ socket[d][s] \in {"attached", "silent"}
      /\ Presence!disconnect(d)
      /\ leaving' = leaving \cup {[of |-> d, age |-> 0]}
      /\ unheard' = IF socket[d][s] = "attached" THEN [unheard EXCEPT ![d] = 0] ELSE unheard
      /\ UNCHANGED <<ticking, winning, opened, silences, restarts>>
  BY DEF Presence!Close, Presence!bounds
<1>2. "none" \in Presence!SocketStates /\ "none" \notin Presence!Counted /\ s \in held(d)
  BY <1>1 DEF Presence!SocketStates, Presence!Counted, held
<1>3. /\ n \in Nat /\ n > 0 /\ n = Cardinality(held(d)) /\ IsFiniteSet(held(d))
      /\ book[d] # Presence!NoRow /\ book[d].disconnectedAt = -1
      /\ book[d].lastBeat \in 0..Presence!Cap /\ unheard[d] \in 0..Presence!Cap
  BY <1>2, PresenceFields, CountedIsKnown
<1>4. book' = [book EXCEPT ![d] = r]
  <2>1. Presence!Max({0, n - 1}) = n - 1
    <3>1. PICK m \in Nat : m = n - 1
      BY <1>3
    <3>2. m \in Int /\ (m > 0 \/ m = 0)
      OBVIOUS
    <3> QED
      BY <3>1, <3>2, LargerOfTwo
  <2> QED
    BY <1>1, <1>3, <2>1, PresenceNumbers DEF Presence!disconnect
<1>5. r \in Presence!Rows
  BY <1>3, PresenceNumbers, RowOfParts
<1> HIDE DEF n
<1>6. /\ socket' \in [Presence!Devices -> [Sockets -> Presence!SocketStates]]
      /\ held(d)' = held(d) \ {s} /\ (there(d)' => there(d))
      /\ \A e \in Presence!Devices \ {d} : held(e)' = held(e) /\ there(e)' = there(e)
  BY <1>1, <1>2, SocketMoves
<1>7. /\ book' \in [Presence!Devices -> Presence!Rows] /\ book'[d] = r
      /\ \A e \in Presence!Devices \ {d} : book'[e] = book[e]
  BY <1>4, <1>5, EntryChanges
<1>8. /\ unheard' \in [Presence!Devices -> Presence!Ages]
      /\ unheard'[d] = unheard[d] \/ (unheard'[d] = 0 /\ there(d))
      /\ \A e \in Presence!Devices \ {d} : unheard'[e] = unheard[e]
  <2>1. CASE socket[d][s] = "attached"
    <3>1. there(d)
      BY <2>1 DEF there, Presence!has
    <3> QED
      BY <1>1, <2>1, <3>1, HeardChanges
  <2>2. CASE socket[d][s] # "attached"
    BY <1>1, <2>2, TypesOfPresence
  <2> QED
    BY <2>1, <2>2
<1>9. Presence!TypeOK'
  <2>1. leaving' \subseteq [of : Presence!Devices, age : 0..Lag]
    BY <1>1, TypesOfPresence, PresenceNumbers
  <2> QED
    BY <1>1, <1>6, <1>7, <1>8, <2>1, TypesOfPresence, PresenceNumbers DEF Presence!TypeOK
<1>10. rowOK(d)'
  <2>1. Cardinality(held(d)') = n - 1
    BY <1>2, <1>3, <1>6, FS_RemoveElement
  <2>2. /\ book'[d].sockets = n - 1 /\ book'[d].lastBeat = book[d].lastBeat
        /\ book'[d].disconnectedAt = IF n - 1 = 0 THEN 0 ELSE -1
    BY <1>7
  <2>3. /\ unheard[d] <= book[d].lastBeat /\ book[d].lastBeat <= unheard[d] + Interval
        /\ there(d) => book[d].lastBeat <= Interval
    BY <1>3, RowsAreOK DEF rowOK, saysOf
  <2>4. saysOf(book[d], unheard[d])'
    BY <1>3, <1>8, <2>2, <2>3, PresenceNumbers DEF saysOf
  <2> QED
    BY <1>3, <1>6, <2>1, <2>2, <2>3, <2>4, PresenceNumbers DEF rowOK
<1>11. \A e \in Presence!Devices \ {d} : rowOK(e)'
  BY <1>6, <1>7, <1>8, RowStays
<1> QED
  BY <1>9, <1>10, <1>11, RowByRow

(* What the step that decides has to show: who loses is not there, and was  *)
(* not for as long as the grace short of a heartbeat; who wins was heard of *)
(* in time.                                                                 *)
Deserved ==
    \A d \in Presence!Devices :
        /\ winning' \in {Presence!Nobody, Presence!Other(d)} => ~ there(d)
        /\ winning' = Presence!Other(d) => unheard[d] + Interval >= Forfeit
        /\ winning' = d => unheard[d] <= Timeout + Lag \/ book[d] = Presence!NoRow

decided ==
    /\ winning' \in Presence!Devices \cup {Presence!Nobody}
    /\ ticking' = -1
    /\ Deserved

LEMMA TwoDevices ==
    /\ Presence!Devices = {"A", "B"}
    /\ Presence!Other("A") = "B" /\ Presence!Other("B") = "A"
    /\ Presence!Nobody \notin Presence!Devices /\ Presence!Undecided \notin Presence!Devices
    /\ Presence!Nobody # Presence!Undecided
    /\ \A d \in Presence!Devices :
          /\ Presence!Other(d) \in Presence!Devices \ {d}
          /\ Presence!Other(Presence!Other(d)) = d
  BY DEF Presence!Devices, Presence!Other, Presence!Nobody, Presence!Undecided

(* Both are away.                                                           *)
LEMMA VoidIsDeserved ==
    ASSUME PresenceInv, NEW ago \in 0..Lag,
           \A d \in Presence!Devices : Presence!offlineSince(d, ago) # -1,
           Presence!ends(Presence!Nobody)
    PROVE  decided
<1>1. winning' = Presence!Nobody /\ ticking' = -1
  BY PresenceNumbers DEF Presence!ends
<1>2. \A d \in Presence!Devices : ~ there(d)
  BY AwayIsNotThere
<1> QED
  BY <1>1, <1>2, TwoDevices DEF decided, Deserved

(* One is away for long, the other is not.                                  *)
LEMMA ForfeitIsDeserved ==
    ASSUME PresenceInv, NEW ago \in 0..Lag, NEW d \in Presence!Devices,
           Presence!forLong(Presence!offlineSince(d, ago)),
           Presence!offlineSince(Presence!Other(d), ago) = -1,
           Presence!ends(Presence!Other(d))
    PROVE  decided
<1> DEFINE off == Presence!offlineSince(d, ago)
           e == Presence!Other(d)
<1>1. winning' = e /\ ticking' = -1
  BY PresenceNumbers DEF Presence!ends
<1>2. e \in Presence!Devices \ {d} /\ Presence!Other(e) = d
      /\ Presence!Devices = {d, e}
  BY TwoDevices
<1>3. off \in Nat \cup {-1} /\ off >= Forfeit
  BY AwayIsNotThere DEF Presence!forLong
<1>4. off # -1
  BY <1>3, PresenceNumbers
<1>5. ~ there(d) /\ unheard[d] \in Nat /\ off <= unheard[d] + Interval
  BY <1>4, AwayIsNotThere, PresenceFields
<1>6. unheard[d] + Interval >= Forfeit
  BY <1>3, <1>4, <1>5, PresenceNumbers
<1>7. unheard[e] <= Timeout + Lag \/ book[e] = Presence!NoRow
  BY <1>2, AwayIsNotThere
<1> HIDE DEF off, e
<1>8. e # Presence!Nobody /\ e \in Presence!Devices
  BY <1>2, TwoDevices
<1>9. Deserved
  <2>1. SUFFICES ASSUME NEW c \in Presence!Devices
                 PROVE  /\ winning' \in {Presence!Nobody, Presence!Other(c)} => ~ there(c)
                        /\ winning' = Presence!Other(c) => unheard[c] + Interval >= Forfeit
                        /\ winning' = c
                             => unheard[c] <= Timeout + Lag \/ book[c] = Presence!NoRow
    BY DEF Deserved
  <2>2. CASE c = d
    BY <1>1, <1>2, <1>5, <1>6, <1>8, <2>2
  <2>3. CASE c = e
    BY <1>1, <1>2, <1>7, <1>8, <2>3
  <2> QED
    BY <1>2, <2>2, <2>3
<1> QED
  BY <1>1, <1>8, <1>9 DEF decided

LEMMA HandleDisconnectDecides ==
    ASSUME PresenceInv, NEW l \in leaving, Presence!HandleDisconnect(l)
    PROVE  /\ leaving' = leaving \ {l}
           /\ UNCHANGED <<socket, book, unheard, opened, silences, restarts>>
           /\ \/ UNCHANGED <<ticking, winning>>
              \/ winning' = winning /\ ticking' \in 0..Forfeit
              \/ decided
<1> DEFINE d == l.of
           self == Presence!offlineSince(l.of, l.age)
           other == Presence!offlineSince(Presence!Other(l.of), l.age)
<1>1. d \in Presence!Devices /\ l.age \in 0..Lag
      /\ Presence!Other(d) \in Presence!Devices
      /\ Presence!Devices = {d, Presence!Other(d)}
  BY TypesOfPresence, TwoDevices
<1>2. /\ leaving' = leaving \ {l}
      /\ UNCHANGED <<socket, book, unheard, opened, silences, restarts>>
  BY DEF Presence!HandleDisconnect, Presence!bounds
<1>3. CASE winning # Presence!Undecided \/ self = -1
  <2>1. UNCHANGED <<ticking, winning>>
    BY <1>3, PresenceNumbers DEF Presence!HandleDisconnect, Presence!forLong
  <2> QED
    BY <1>2, <2>1
<1>4. CASE winning = Presence!Undecided /\ self # -1 /\ Presence!forLong(self)
  <2>1. Presence!ends(IF other # -1 THEN Presence!Nobody ELSE Presence!Other(d))
    BY <1>4, PresenceNumbers DEF Presence!HandleDisconnect
  <2>2. CASE other # -1
    <3>1. \A e \in Presence!Devices : Presence!offlineSince(e, l.age) # -1
      BY <1>1, <1>4, <2>2
    <3>2. Presence!ends(Presence!Nobody)
      BY <2>1, <2>2
    <3> QED
      BY <1>1, <1>2, <3>1, <3>2, VoidIsDeserved
  <2>3. CASE other = -1
    <3>1. Presence!ends(Presence!Other(d))
      BY <2>1, <2>3
    <3> QED
      BY <1>1, <1>2, <1>4, <2>3, <3>1, ForfeitIsDeserved
  <2> QED
    BY <2>2, <2>3
<1>5. CASE winning = Presence!Undecided /\ self # -1 /\ ~ Presence!forLong(self)
  <2>1. ticking' = Forfeit - self /\ winning' = winning
    BY <1>5, PresenceNumbers DEF Presence!HandleDisconnect
  <2>2. self \in Nat /\ self < Forfeit
    <3>1. self \in Nat \cup {-1}
      BY <1>1, AwayIsNotThere
    <3> QED
      BY <1>5, <3>1, PresenceNumbers DEF Presence!forLong
  <2>3. Forfeit - self \in 0..Forfeit
    BY <2>2, PresenceNumbers
  <2> QED
    BY <1>2, <2>1, <2>3
<1> QED
  BY <1>3, <1>4, <1>5

LEMMA EvaluateDisconnectDecides ==
    ASSUME PresenceInv, Presence!EvaluateDisconnect
    PROVE  /\ UNCHANGED <<socket, book, leaving, unheard, opened, silences, restarts>>
           /\ \/ winning' = winning /\ ticking' = -1
              \/ decided
<1> DEFINE off == [d \in Presence!Devices |-> Presence!offlineSince(d, 0)]
<1>1. UNCHANGED <<socket, book, leaving, unheard, opened, silences, restarts>>
  BY DEF Presence!EvaluateDisconnect, Presence!bounds
<1>2. 0 \in 0..Lag
  BY PresenceNumbers
<1>3. \A d \in Presence!Devices : off[d] = Presence!offlineSince(d, 0)
  OBVIOUS
<1>4. IF \A d \in Presence!Devices : off[d] # -1 THEN Presence!ends(Presence!Nobody)
      ELSE IF \E d \in Presence!Devices : Presence!forLong(off[d])
        THEN Presence!ends(CHOOSE d \in Presence!Devices :
                              Presence!forLong(off[Presence!Other(d)]))
        ELSE ticking' = Presence!NoAge /\ UNCHANGED winning
  BY PresenceNumbers DEF Presence!EvaluateDisconnect
<1> HIDE DEF off
<1>5. CASE \A d \in Presence!Devices : off[d] # -1
  BY <1>1, <1>2, <1>3, <1>4, <1>5, VoidIsDeserved
<1>6. CASE /\ \E d \in Presence!Devices : off[d] = -1
           /\ \E d \in Presence!Devices : Presence!forLong(off[d])
  <2> DEFINE e == CHOOSE d \in Presence!Devices : Presence!forLong(off[Presence!Other(d)])
  <2>1. \E d \in Presence!Devices : Presence!forLong(off[Presence!Other(d)])
    BY <1>6, TwoDevices
  <2>2. e \in Presence!Devices /\ Presence!forLong(off[Presence!Other(e)])
    BY <2>1
  <2>3. Presence!ends(e)
    BY <1>4, <1>6
  <2> HIDE DEF e
  <2>4. PICK d \in Presence!Devices : d = Presence!Other(e) /\ Presence!Other(d) = e
    BY <2>2, TwoDevices
  <2>5. off[d] # -1
    BY <2>2, <2>4, PresenceNumbers DEF Presence!forLong
  <2>6. Presence!Devices = {d, e}
    BY <2>2, <2>4, TwoDevices
  <2>7. off[e] = -1
    BY <1>6, <2>5, <2>6
  <2>8. /\ Presence!forLong(Presence!offlineSince(d, 0))
        /\ Presence!offlineSince(Presence!Other(d), 0) = -1
        /\ Presence!ends(Presence!Other(d))
    BY <1>3, <2>2, <2>3, <2>4, <2>7
  <2> QED
    BY <1>1, <1>2, <2>8, ForfeitIsDeserved
<1>7. CASE /\ \E d \in Presence!Devices : off[d] = -1
           /\ ~ \E d \in Presence!Devices : Presence!forLong(off[d])
  BY <1>1, <1>4, <1>7, PresenceNumbers
<1> QED
  BY <1>5, <1>6, <1>7

(* A step that moves no socket, and nothing in the book.                    *)
LEMMA BookStays ==
    ASSUME PresenceInv, UNCHANGED <<socket, book, unheard, opened, silences, restarts>>,
           leaving' \subseteq leaving,
           winning' \in Presence!Devices \cup {Presence!Undecided, Presence!Nobody},
           ticking' \in 0..Forfeit \cup {-1}
    PROVE  PresenceInv'
<1>1. Presence!TypeOK'
  BY TypesOfPresence, PresenceNumbers DEF Presence!TypeOK
<1>2. \A e \in Presence!Devices : held(e)' = held(e) /\ there(e)' = there(e)
  BY DEF held, there, Presence!has
<1>3. \A e \in Presence!Devices : rowOK(e)'
  BY <1>2, RowStays
<1> QED
  BY <1>1, <1>3, RowByRow

LEMMA HandleDisconnectKeeps ==
    ASSUME PresenceInv, NEW l \in leaving, Presence!HandleDisconnect(l)
    PROVE  PresenceInv'
<1>1. /\ leaving' \subseteq leaving
      /\ UNCHANGED <<socket, book, unheard, opened, silences, restarts>>
  BY HandleDisconnectDecides
<1>2. /\ winning' \in Presence!Devices \cup {Presence!Undecided, Presence!Nobody}
      /\ ticking' \in 0..Forfeit \cup {-1}
  BY HandleDisconnectDecides, TypesOfPresence DEF decided
<1> QED
  BY <1>1, <1>2, BookStays

LEMMA EvaluateDisconnectKeeps ==
    ASSUME PresenceInv, Presence!EvaluateDisconnect
    PROVE  PresenceInv'
<1>1. /\ leaving' \subseteq leaving
      /\ UNCHANGED <<socket, book, unheard, opened, silences, restarts>>
  BY EvaluateDisconnectDecides
<1>2. /\ winning' \in Presence!Devices \cup {Presence!Undecided, Presence!Nobody}
      /\ ticking' \in 0..Forfeit \cup {-1}
  BY EvaluateDisconnectDecides, TypesOfPresence DEF decided
<1> QED
  BY <1>1, <1>2, BookStays

LEMMA PresenceRestartKeeps ==
    ASSUME PresenceInv, Presence!Restart
    PROVE  PresenceInv'
<1>1. /\ socket' = [d \in Presence!Devices |-> [s \in Sockets |-> "none"]]
      /\ book' = [d \in Presence!Devices |-> Presence!NoRow]
      /\ leaving' = {} /\ restarts' = restarts + 1
      /\ UNCHANGED <<ticking, winning, unheard, opened, silences>>
  BY DEF Presence!Restart
<1>2. Presence!NoRow \in Presence!Rows /\ "none" \in Presence!SocketStates
  BY PresenceNumbers, RowOfParts DEF Presence!NoRow, Presence!SocketStates
<1>3. Presence!TypeOK'
  <2>1. socket' \in [Presence!Devices -> [Sockets -> Presence!SocketStates]]
    BY <1>1, <1>2
  <2>2. book' \in [Presence!Devices -> Presence!Rows]
    BY <1>1, <1>2
  <2> QED
    BY <1>1, <2>1, <2>2, TypesOfPresence, PresenceNumbers DEF Presence!TypeOK
<1>4. ASSUME NEW d \in Presence!Devices PROVE rowOK(d)'
  <2>1. \A s \in Sockets : socket'[d][s] = "none"
    BY <1>1
  <2>2. held(d)' = {} /\ ~ there(d)'
    BY <2>1 DEF held, there, Presence!has, Presence!Counted
  <2>3. book'[d] = Presence!NoRow /\ Cardinality({}) = 0
    BY <1>1, FS_EmptySet
  <2>4. Presence!NoRow.sockets = 0 /\ Presence!NoRow.disconnectedAt = -1
    BY PresenceNumbers DEF Presence!NoRow
  <2> QED
    BY <2>2, <2>3, <2>4, PresenceNumbers DEF rowOK, saysOf
<1> QED
  BY <1>3, <1>4, RowByRow

(* A row ages, every part of it up to Cap.                                  *)
aged(n) == IF n < Presence!Cap THEN n + 1 ELSE Presence!Cap

LEMMA RowAges ==
    ASSUME NEW x \in Presence!Rows, NEW y,
           y = [x EXCEPT !.lastBeat = Presence!older(@),
                         !.disconnectedAt = IF @ = Presence!NoAge THEN @ ELSE Presence!older(@)]
    PROVE  /\ y \in Presence!Rows /\ y.sockets = x.sockets /\ y.lastBeat = aged(x.lastBeat)
           /\ y.disconnectedAt = IF x.disconnectedAt = -1 THEN -1 ELSE aged(x.disconnectedAt)
<1>1. PICK b, g : /\ b = Presence!older(x.lastBeat)
                  /\ g = IF x.disconnectedAt = Presence!NoAge THEN x.disconnectedAt
                         ELSE Presence!older(x.disconnectedAt)
  OBVIOUS
<1>2. /\ x.sockets \in Nat /\ x.lastBeat \in 0..Presence!Cap
      /\ x.disconnectedAt \in 0..Presence!Cap \cup {-1} /\ Presence!Cap \in Nat
  BY PresenceNumbers DEF Presence!Rows, Presence!Ages
<1>3. b = aged(x.lastBeat) /\ b \in 0..Presence!Cap
  BY <1>1, <1>2, OneTickOlder DEF aged
<1>4. /\ g = IF x.disconnectedAt = -1 THEN -1 ELSE aged(x.disconnectedAt)
      /\ g \in 0..Presence!Cap \cup {-1}
  BY <1>1, <1>2, OneTickOlder, PresenceNumbers DEF aged
<1>5. y = [x EXCEPT !.lastBeat = b, !.disconnectedAt = g]
  BY <1>1
<1>6. b \in Presence!Ages /\ g \in Presence!Ages \cup {Presence!NoAge}
  BY <1>3, <1>4, PresenceNumbers DEF Presence!Ages
<1>7. y \in Presence!Rows /\ y.sockets = x.sockets /\ y.lastBeat = b /\ y.disconnectedAt = g
  BY <1>5, <1>6 DEF Presence!Rows
<1> QED
  BY <1>3, <1>4, <1>7

LEMMA TickKeeps ==
    ASSUME PresenceInv, Presence!Tick
    PROVE  PresenceInv'
<1>1. /\ ticking # 0
      /\ \A l \in leaving : l.age < Lag
      /\ \A d \in Presence!Devices : there(d) => book[d].lastBeat < Interval
      /\ leaving' = {[l EXCEPT !.age = @ + 1] : l \in leaving}
      /\ ticking' = IF ticking = -1 THEN -1 ELSE ticking - 1
      /\ unheard' = [d \in Presence!Devices |-> Presence!older(unheard[d])]
      /\ UNCHANGED <<socket, winning, opened, silences, restarts>>
  BY PresenceNumbers DEF Presence!Tick, Presence!bounds, there
<1>2. book' = [d \in Presence!Devices |->
                 IF book[d] = Presence!NoRow THEN Presence!NoRow
                 ELSE [book[d] EXCEPT !.lastBeat = Presence!older(@),
                          !.disconnectedAt = IF @ = Presence!NoAge THEN @
                                             ELSE Presence!older(@)]]
  BY DEF Presence!Tick
<1>3. ASSUME NEW d \in Presence!Devices PROVE
        /\ book'[d] \in Presence!Rows
        /\ book[d] = Presence!NoRow => book'[d] = Presence!NoRow
        /\ book[d] # Presence!NoRow =>
             /\ book'[d].sockets = book[d].sockets
             /\ book'[d].lastBeat = aged(book[d].lastBeat)
             /\ book'[d].disconnectedAt = IF book[d].disconnectedAt = -1 THEN -1
                                          ELSE aged(book[d].disconnectedAt)
  <2>1. book[d] \in Presence!Rows
    BY PresenceFields
  <2>2. CASE book[d] = Presence!NoRow
    BY <1>2, <2>1, <2>2
  <2>3. CASE book[d] # Presence!NoRow
    <3>1. book'[d] = [book[d] EXCEPT !.lastBeat = Presence!older(@),
                        !.disconnectedAt = IF @ = Presence!NoAge THEN @
                                           ELSE Presence!older(@)]
      BY <1>2, <2>3
    <3> QED
      BY <2>1, <2>3, <3>1, RowAges
  <2> QED
    BY <2>2, <2>3
<1>4. ASSUME NEW d \in Presence!Devices PROVE
        unheard'[d] = aged(unheard[d]) /\ unheard'[d] \in Presence!Ages
  <2>1. unheard'[d] = Presence!older(unheard[d]) /\ unheard[d] \in 0..Presence!Cap
    BY <1>1, PresenceFields
  <2> QED
    BY <2>1, OneTickOlder, PresenceNumbers DEF aged, Presence!Ages
<1>5. Presence!TypeOK'
  <2>1. leaving' \subseteq [of : Presence!Devices, age : 0..Lag]
    <3>1. ASSUME NEW l \in leaving
          PROVE  [l EXCEPT !.age = @ + 1] \in [of : Presence!Devices, age : 0..Lag]
      BY <1>1, TypesOfPresence, PresenceNumbers
    <3> QED
      BY <1>1, <3>1
  <2>2. ticking' \in 0..Forfeit \cup {-1}
    <3>1. ticking # 0 /\ ticking' = IF ticking = -1 THEN -1 ELSE ticking - 1
      BY <1>1
    <3>2. ticking \in 0..Forfeit \cup {-1} /\ Forfeit \in Nat
      BY TypesOfPresence, PresenceNumbers
    <3> QED
      BY <3>1, <3>2
  <2>3. book' \in [Presence!Devices -> Presence!Rows]
    BY <1>2, <1>3
  <2>4. unheard' \in [Presence!Devices -> Presence!Ages]
    BY <1>1, <1>4
  <2> QED
    BY <1>1, <2>1, <2>2, <2>3, <2>4, TypesOfPresence, PresenceNumbers DEF Presence!TypeOK
<1>6. ASSUME NEW d \in Presence!Devices PROVE rowOK(d)'
  <2>1. held(d)' = held(d) /\ there(d)' = there(d)
    BY <1>1 DEF held, there, Presence!has
  <2>2. rowOK(d) /\ unheard[d] \in 0..Presence!Cap
    BY RowsAreOK, PresenceFields
  <2>3. CASE book[d] = Presence!NoRow
    <3>1. book'[d] = book[d] /\ book[d].disconnectedAt = -1
      BY <1>3, <2>3, PresenceNumbers DEF Presence!NoRow
    <3>2. saysOf(book[d], unheard[d])'
      BY <2>3, <3>1, PresenceNumbers DEF saysOf
    <3> QED
      BY <2>1, <2>2, <3>1, <3>2 DEF rowOK
  <2>4. CASE book[d] # Presence!NoRow
    <3> DEFINE n == book[d].sockets
               b == book[d].lastBeat
               g == book[d].disconnectedAt
    <3>1. /\ book'[d].sockets = n /\ book'[d].lastBeat = aged(b)
          /\ book'[d].disconnectedAt = IF g = -1 THEN -1 ELSE aged(g)
      BY <1>3, <2>4
    <3>2. /\ n \in Nat /\ b \in 0..Presence!Cap /\ g \in 0..Presence!Cap \cup {-1}
      BY PresenceFields
    <3>3. /\ n = Cardinality(held(d)) /\ (g # -1 => n = 0) /\ (n = 0 => g # -1)
          /\ unheard[d] <= b /\ b <= unheard[d] + Interval /\ (g # -1 => g <= unheard[d])
      BY <2>2, <2>4, PresenceNumbers DEF rowOK, saysOf
    <3> HIDE DEF n, b, g
    <3>4. unheard'[d] = aged(unheard[d])
      BY <1>4
    <3>5. /\ aged(unheard[d]) <= aged(b) /\ aged(b) <= aged(unheard[d]) + Interval
          /\ g # -1 => aged(g) <= aged(unheard[d]) /\ aged(g) # -1
      BY <2>2, <3>2, <3>3, PresenceNumbers DEF aged
    <3>6. saysOf(book[d], unheard[d])'
      BY <3>1, <3>4, <3>5, PresenceNumbers DEF saysOf
    <3>7. there(d) => aged(b) <= Interval
      BY <1>1, <3>2, PresenceNumbers DEF aged, b
    <3> QED
      BY <2>1, <3>1, <3>3, <3>5, <3>6, <3>7 DEF rowOK
  <2> QED
    BY <2>3, <2>4
<1> QED
  BY <1>5, <1>6, RowByRow

LEMMA PresenceStays ==
    ASSUME PresenceInv, UNCHANGED presenceVars
    PROVE  PresenceInv'
<1>1. /\ UNCHANGED <<socket, book, unheard, opened, silences, restarts>>
      /\ leaving' = leaving /\ winning' = winning /\ ticking' = ticking
  BY DEF presenceVars
<1>2. /\ winning' \in Presence!Devices \cup {Presence!Undecided, Presence!Nobody}
      /\ ticking' \in 0..Forfeit \cup {-1}
  BY <1>1, TypesOfPresence
<1> QED
  BY <1>1, <1>2, BookStays

LEMMA PresenceStepKeeps ==
    ASSUME PresenceInv, Presence!Next
    PROVE  PresenceInv'
<1>1. ASSUME NEW d \in Presence!Devices, NEW s \in Sockets, Presence!ClientStep(d, s)
      PROVE  PresenceInv'
  BY <1>1, RedeemKeeps, CloseEarlyKeeps, CloseKeeps, GoSilentKeeps DEF Presence!ClientStep
<1> QED
  BY <1>1, AttachKeeps, BeatKeeps, HandleDisconnectKeeps, EvaluateDisconnectKeeps,
     PresenceRestartKeeps, TickKeeps DEF Presence!Next

(* Only the two handlers of a disconnect decide.                            *)
LEMMA PresenceStepDecides ==
    ASSUME PresenceInv, Presence!Next
    PROVE  winning' = winning \/ Deserved
<1>1. ASSUME NEW d \in Presence!Devices, NEW s \in Sockets, Presence!ClientStep(d, s)
      PROVE  winning' = winning
  BY <1>1 DEF Presence!ClientStep, Presence!Redeem, Presence!CloseEarly, Presence!Close,
     Presence!GoSilent, Presence!server
<1>2. ASSUME NEW d \in Presence!Devices,
             Presence!Beat(d) \/ \E s \in Sockets : Presence!Attach(d, s)
      PROVE  winning' = winning
  BY <1>2 DEF Presence!Beat, Presence!Attach
<1>3. Presence!Restart \/ Presence!Tick => winning' = winning
  BY DEF Presence!Restart, Presence!Tick
<1> QED
  BY <1>1, <1>2, <1>3, HandleDisconnectDecides, EvaluateDisconnectDecides
     DEF Presence!Next, decided

-----------------------------------------------------------------------------
(* The timers.                                                              *)

(* The last hand is not followed by another.                                *)
BetweenHands == playing.play = "between" => playing.hand < ClockHands

(* Of the handlers one at most deals, and until it has, no player acts.     *)
OneDealer ==
    \A h \in ClockHandlers : suspended[h].at = "next_hand" =>
        /\ playing.play \in {"between", "over"}
        /\ \A g \in ClockHandlers : suspended[g].at = "next_hand" => g = h

NothingUntilServing ==
    serving # "serving" =>
        /\ playing.play = "none"
        /\ \A h \in ClockHandlers : suspended[h].at = "idle"

HandsInv == BetweenHands /\ OneDealer /\ NothingUntilServing

(* Whoever ended the match has cancelled its timers, or is going to.        *)
quiet == timer = "none" /\ disconnect = "none" /\ timerSeq = Clocks!NoSeq
saving(h) == suspended[h].at \in {"save", "publish"}

OverIsQuiet ==
    playing.play = "over" /\ ~ lost => quiet \/ \E h \in ClockHandlers : saving(h)

TimersInv == Clocks!DecisionStaysTimed /\ Clocks!DisconnectStaysTimed /\ OverIsQuiet

ClocksInv == Clocks!TypeOK /\ HandsInv /\ TimersInv

LEMMA ClocksNumbers ==
    /\ ClockHands \in Nat /\ ClockHands > 0 /\ ClockActions \in Nat /\ ClockActions > 0
    /\ MaxDrops \in Nat /\ MaxCrashes \in Nat
    /\ Clocks!NoSeq = ClockActions + 1 /\ Clocks!Seqs = 0..ClockActions
    /\ Clocks!NoSeq \notin Clocks!Seqs
  BY ClocksConstants DEF Clocks!ClocksAssumption, Clocks!NoSeq, Clocks!Seqs

LEMMA FirstStates ==
    /\ Clocks!NoGame \in Clocks!Games /\ Clocks!NoGame.play = "none"
    /\ Clocks!FirstDecision \in Clocks!Games /\ Clocks!FirstDecision.play = "waits"
    /\ Clocks!FirstDecision.seq = 0
    /\ Clocks!Idle \in Clocks!HandlerStates /\ Clocks!Idle.at = "idle"
    /\ Clocks!NotPolling \in Clocks!PollStates /\ Clocks!NotPolling.at = "idle"
    /\ Clocks!NotPolling.found = FALSE
<1>1. /\ Clocks!NoGame \in Clocks!Games /\ Clocks!NoGame.play = "none"
      /\ Clocks!FirstDecision \in Clocks!Games /\ Clocks!FirstDecision.play = "waits"
      /\ Clocks!FirstDecision.seq = 0
  BY ClocksNumbers DEF Clocks!NoGame, Clocks!FirstDecision, Clocks!Games
<1>2. Clocks!Idle \in Clocks!HandlerStates /\ Clocks!Idle.at = "idle"
  BY <1>1, ClocksNumbers DEF Clocks!Idle, Clocks!HandlerStates
<1>3. /\ Clocks!NotPolling \in Clocks!PollStates /\ Clocks!NotPolling.at = "idle"
      /\ Clocks!NotPolling.found = FALSE
  BY ClocksNumbers DEF Clocks!NotPolling, Clocks!PollStates
<1> QED
  BY <1>1, <1>2, <1>3

(* What the variables are.                                                  *)
LEMMA TypesOfClocks ==
    ASSUME ClocksInv
    PROVE  /\ playing \in Clocks!Games /\ saved \in Clocks!Games
           /\ serving \in {"down", "starting", "serving"}
           /\ suspended \in [ClockHandlers -> Clocks!HandlerStates]
           /\ timer \in {"none", "set", "due"} /\ timerSeq \in Clocks!Seqs \cup {Clocks!NoSeq}
           /\ disconnect \in {"none", "set", "due"}
           /\ poll \in [Polls -> Clocks!PollStates]
           /\ ripe \in BOOLEAN /\ owed \in BOOLEAN /\ lost \in BOOLEAN
           /\ drops \in Nat /\ failures \in Nat /\ crashes \in Nat
  BY DEF ClocksInv, Clocks!TypeOK

LEMMA PartsOfHandlers ==
    /\ \A x \in Clocks!HandlerStates :
          /\ x.at \in {"idle", "row", "next_hand", "save", "publish", "settle"}
          /\ x.seq \in Clocks!Seqs \cup {Clocks!NoSeq} /\ x.game \in Clocks!Games
    /\ \A x \in Clocks!PollStates :
          /\ x.at \in {"idle", "actions", "removed", "seq", "disconnects", "checked"}
          /\ x.found \in BOOLEAN /\ x.seq \in Clocks!Seqs \cup {Clocks!NoSeq}
    /\ \A x \in Clocks!Games :
          /\ x.play \in {"waits", "between", "over", "none"}
          /\ x.hand \in 1..ClockHands /\ x.seq \in Clocks!Seqs
  BY DEF Clocks!HandlerStates, Clocks!PollStates, Clocks!Games

(* A handler is suspended, a run of due() awaits.                           *)
LEMMA SuspendedAt ==
    ASSUME NEW a \in {"idle", "row", "next_hand", "save", "publish", "settle"}
    PROVE  /\ [Clocks!Idle EXCEPT !.at = a] \in Clocks!HandlerStates
           /\ [Clocks!Idle EXCEPT !.at = a].at = a
  BY FirstStates DEF Clocks!HandlerStates

LEMMA SuspendedToSave ==
    ASSUME NEW a \in {"next_hand", "save"}, NEW g \in Clocks!Games
    PROVE  /\ [Clocks!Idle EXCEPT !.at = a, !.game = g] \in Clocks!HandlerStates
           /\ [Clocks!Idle EXCEPT !.at = a, !.game = g].at = a
  BY FirstStates DEF Clocks!HandlerStates

LEMMA SuspendedWithRow ==
    ASSUME NEW n \in Clocks!Seqs \cup {Clocks!NoSeq}
    PROVE  /\ [Clocks!Idle EXCEPT !.at = "row", !.seq = n] \in Clocks!HandlerStates
           /\ [Clocks!Idle EXCEPT !.at = "row", !.seq = n].at = "row"
           /\ [Clocks!Idle EXCEPT !.at = "row", !.seq = n].seq = n
  BY FirstStates DEF Clocks!HandlerStates

LEMMA AwaitsAt ==
    ASSUME NEW a \in {"idle", "actions", "removed", "disconnects", "checked"},
           NEW f \in BOOLEAN
    PROVE  /\ [Clocks!NotPolling EXCEPT !.at = a, !.found = f] \in Clocks!PollStates
           /\ [Clocks!NotPolling EXCEPT !.at = a, !.found = f].at = a
           /\ [Clocks!NotPolling EXCEPT !.at = a, !.found = f].found = f
  BY FirstStates DEF Clocks!PollStates

LEMMA AwaitsSeq ==
    ASSUME NEW n \in Clocks!Seqs \cup {Clocks!NoSeq}
    PROVE  /\ [Clocks!NotPolling EXCEPT !.at = "seq", !.seq = n] \in Clocks!PollStates
           /\ [Clocks!NotPolling EXCEPT !.at = "seq", !.seq = n].at = "seq"
           /\ [Clocks!NotPolling EXCEPT !.at = "seq", !.seq = n].seq = n
  BY FirstStates DEF Clocks!PollStates

LEMMA HandlerMoves ==
    ASSUME ClocksInv, NEW h \in ClockHandlers, NEW x \in Clocks!HandlerStates,
           Clocks!suspend(h, x)
    PROVE  /\ suspended' \in [ClockHandlers -> Clocks!HandlerStates] /\ suspended'[h] = x
           /\ \A g \in ClockHandlers \ {h} : suspended'[g] = suspended[g]
  BY TypesOfClocks DEF Clocks!suspend

LEMMA PollMoves ==
    ASSUME ClocksInv, NEW p \in Polls, NEW x \in Clocks!PollStates,
           poll' = [poll EXCEPT ![p] = x]
    PROVE  /\ poll' \in [Polls -> Clocks!PollStates] /\ poll'[p] = x
           /\ \A q \in Polls \ {p} : poll'[q] = poll[q]
  BY TypesOfClocks

(* What waits for the decision, whatever a step does to it.                 *)
timedBy(n) ==
    \/ timer # "none" /\ timerSeq = n
    \/ \E p \in Polls : poll[p].at = "removed" /\ poll[p].found /\ timerSeq = n
    \/ \E p \in Polls : poll[p].at = "seq" /\ poll[p].seq = n
    \/ \E h \in ClockHandlers : suspended[h].at = "row" /\ suspended[h].seq = n
active(h) == suspended[h].at \in {"next_hand", "save", "publish"}
looking(p) == poll[p].at = "checked" /\ poll[p].found

LEMMA TimersUnfold ==
    TimersInv <=>
        /\ serving = "serving" /\ playing.play = "waits" /\ ~ lost
             => timedBy(playing.seq) \/ \E h \in ClockHandlers : active(h)
        /\ owed => disconnect # "none" \/ \E p \in Polls : looking(p)
        /\ OverIsQuiet
  BY DEF TimersInv, Clocks!DecisionStaysTimed, Clocks!DisconnectStaysTimed, Clocks!Timed,
     Clocks!busy, timedBy, active, looking

LEMMA TimersFold ==
    ASSUME serving' = "serving" /\ playing'.play = "waits" /\ ~ lost'
             => timedBy(playing.seq)' \/ \E h \in ClockHandlers : active(h)',
           owed' => disconnect' # "none" \/ \E p \in Polls : looking(p)',
           OverIsQuiet'
    PROVE  TimersInv'
  BY DEF TimersInv, Clocks!DecisionStaysTimed, Clocks!DisconnectStaysTimed, Clocks!Timed,
     Clocks!busy, timedBy, active, looking

LEMMA ClocksBegin == ASSUME Clocks!Init PROVE ClocksInv
<1>1. Clocks!TypeOK
  <2>1. /\ suspended \in [ClockHandlers -> Clocks!HandlerStates]
        /\ poll \in [Polls -> Clocks!PollStates]
    BY FirstStates DEF Clocks!Init
  <2>2. 0 \in Clocks!Seqs
    BY ClocksNumbers
  <2>3. /\ playing \in Clocks!Games /\ saved \in Clocks!Games
        /\ serving \in {"down", "starting", "serving"} /\ timer \in {"none", "set", "due"}
        /\ timerSeq \in Clocks!Seqs \cup {Clocks!NoSeq} /\ disconnect \in {"none", "set", "due"}
    BY <2>2, FirstStates DEF Clocks!Init
  <2>4. ripe \in BOOLEAN /\ {owed, lost} \subseteq BOOLEAN
    BY Zenon DEF Clocks!Init
  <2>5. {drops, failures, crashes} \subseteq Nat
    BY DEF Clocks!Init
  <2> QED
    BY <2>1, <2>3, <2>4, <2>5 DEF Clocks!TypeOK
<1>2. \A h \in ClockHandlers : suspended[h] = Clocks!Idle
  BY DEF Clocks!Init
<1>3. HandsInv
  BY <1>2, FirstStates DEF Clocks!Init, HandsInv, BetweenHands, OneDealer, NothingUntilServing
<1>4. TimersInv
  BY FirstStates, TimersUnfold DEF Clocks!Init, timedBy, OverIsQuiet
<1> QED
  BY <1>1, <1>3, <1>4 DEF ClocksInv

(* The match is served while the engine has it.                             *)
LEMMA ServedWhilePlayed ==
    ASSUME ClocksInv, playing.play # "none"
    PROVE  serving = "serving"
  BY DEF ClocksInv, HandsInv, NothingUntilServing

LEMMA ServedWhileHandled ==
    ASSUME ClocksInv, NEW h \in ClockHandlers, suspended[h].at # "idle"
    PROVE  serving = "serving"
  BY DEF ClocksInv, HandsInv, NothingUntilServing

LEMMA AfterAction ==
    ASSUME ClocksInv, NEW g \in Clocks!After(playing)
    PROVE  /\ g \in Clocks!Games /\ g.play \in {"over", "between", playing.play}
           /\ g.play = "between" => g.hand < ClockHands \/ playing.play = "between"
<1>1. /\ playing \in Clocks!Games /\ playing.seq \in 0..ClockActions /\ ClockActions \in Nat
      /\ Clocks!Seqs = 0..ClockActions
  BY TypesOfClocks, PartsOfHandlers, ClocksNumbers
<1>2. CASE g = [playing EXCEPT !.play = "over"]
  BY <1>1, <1>2 DEF Clocks!Games
<1>3. CASE playing.seq < ClockActions /\ g = [playing EXCEPT !.seq = @ + 1]
  <2>1. PICK n \in Clocks!Seqs : n = playing.seq + 1
    BY <1>1, <1>3
  <2>2. g = [playing EXCEPT !.seq = n]
    BY <1>3, <2>1
  <2>3. g \in Clocks!Games /\ g.play = playing.play /\ g.hand = playing.hand
    BY <1>1, <2>2 DEF Clocks!Games
  <2>4. playing.play = "between" => g.hand < ClockHands
    BY <2>3 DEF ClocksInv, HandsInv, BetweenHands
  <2> QED
    BY <2>3, <2>4
<1>4. CASE playing.hand < ClockHands /\ g = [playing EXCEPT !.play = "between"]
  BY <1>1, <1>4 DEF Clocks!Games
<1> QED
  BY <1>2, <1>3, <1>4 DEF Clocks!After

(* The action is applied: the handler deals next, or saves.                 *)
LEMMA ApplyKeeps ==
    ASSUME ClocksInv, NEW h \in ClockHandlers, playing.play = "waits", Clocks!apply(h),
           UNCHANGED <<saved, serving, timer, timerSeq, disconnect, poll,
                       ripe, owed, lost, drops, failures, crashes>>
    PROVE  ClocksInv'
<1>1. PICK g \in Clocks!After(playing) :
        /\ playing' = g
        /\ Clocks!suspend(h, [Clocks!Idle EXCEPT
              !.at = IF g.play = "between" THEN "next_hand" ELSE "save",
              !.game = IF g.play = "between" THEN Clocks!NoGame ELSE g])
  BY DEF Clocks!apply
<1>2. /\ g \in Clocks!Games /\ g.play \in {"over", "between", "waits"}
      /\ g.play = "between" => g.hand < ClockHands
  BY AfterAction
<1>3. PICK x \in Clocks!HandlerStates :
        /\ Clocks!suspend(h, x)
        /\ x.at = IF g.play = "between" THEN "next_hand" ELSE "save"
  <2>1. PICK a \in {"next_hand", "save"} : a = IF g.play = "between" THEN "next_hand" ELSE "save"
    OBVIOUS
  <2>2. PICK b \in Clocks!Games : b = IF g.play = "between" THEN Clocks!NoGame ELSE g
    BY <1>2, FirstStates
  <2>3. Clocks!suspend(h, [Clocks!Idle EXCEPT !.at = a, !.game = b])
    BY <1>1, <2>1, <2>2
  <2>4. /\ [Clocks!Idle EXCEPT !.at = a, !.game = b] \in Clocks!HandlerStates
        /\ [Clocks!Idle EXCEPT !.at = a, !.game = b].at = a
    BY SuspendedToSave
  <2> QED
    BY <2>1, <2>3, <2>4
<1>4. /\ suspended' \in [ClockHandlers -> Clocks!HandlerStates] /\ suspended'[h] = x
      /\ \A e \in ClockHandlers \ {h} : suspended'[e] = suspended[e]
  BY <1>3, HandlerMoves
<1>5. \A e \in ClockHandlers : suspended[e].at # "next_hand"
  BY DEF ClocksInv, HandsInv, OneDealer
<1>6. Clocks!TypeOK'
  BY <1>1, <1>2, <1>4, TypesOfClocks DEF Clocks!TypeOK
<1>7. HandsInv'
  <2>1. serving' = "serving"
    BY ServedWhilePlayed
  <2>2. \A e \in ClockHandlers :
          suspended'[e].at = "next_hand" => e = h /\ playing'.play = "between"
    BY <1>1, <1>3, <1>4, <1>5
  <2> QED
    BY <1>1, <1>2, <2>1, <2>2 DEF HandsInv, BetweenHands, OneDealer, NothingUntilServing
<1>8. TimersInv'
  <2>1. active(h)' /\ (playing'.play = "over" => saving(h)')
    BY <1>1, <1>3, <1>4 DEF active, saving
  <2>2. owed' => disconnect' # "none" \/ \E p \in Polls : looking(p)'
    BY TimersUnfold DEF ClocksInv, looking
  <2> QED
    BY <2>1, <2>2, TimersFold DEF OverIsQuiet
<1> QED
  BY <1>6, <1>7, <1>8 DEF ClocksInv

(* A step that leaves the engine, and who serves it, as they are, and moves *)
(* no handler to or from the deal.                                          *)
LEMMA HandsStay ==
    ASSUME ClocksInv, playing' = playing, serving' = serving,
           \A h \in ClockHandlers :
              /\ suspended'[h].at = "next_hand" => suspended[h].at = "next_hand"
              /\ serving = "serving" \/ suspended'[h].at = suspended[h].at
    PROVE  HandsInv'
  BY DEF ClocksInv, HandsInv, BetweenHands, OneDealer, NothingUntilServing

(* The types, when a handler has moved.                                     *)
LEMMA TypesOfHandlerStep ==
    ASSUME ClocksInv, suspended' \in [ClockHandlers -> Clocks!HandlerStates],
           playing' \in Clocks!Games, saved' \in Clocks!Games,
           UNCHANGED <<serving, timer, timerSeq, disconnect, poll,
                       ripe, owed, lost, drops, failures, crashes>>
    PROVE  Clocks!TypeOK'
  BY TypesOfClocks DEF Clocks!TypeOK

(* A handler ends that has nothing to do for the decision that waits.       *)
LEMMA IdleAgainKeeps ==
    ASSUME ClocksInv, NEW h \in ClockHandlers, Clocks!suspend(h, Clocks!Idle),
           \/ suspended[h].at = "row"
                /\ ~ (playing.play = "waits" /\ playing.seq = suspended[h].seq)
           \/ suspended[h].at = "next_hand" /\ playing.play # "between",
           UNCHANGED <<playing, saved, serving, timer, timerSeq, disconnect, poll,
                       ripe, owed, lost, drops, failures, crashes>>
    PROVE  ClocksInv'
<1>1. /\ suspended' \in [ClockHandlers -> Clocks!HandlerStates]
      /\ suspended'[h] = Clocks!Idle /\ suspended'[h].at = "idle"
      /\ \A e \in ClockHandlers \ {h} : suspended'[e] = suspended[e]
  BY HandlerMoves, FirstStates
<1>2. serving = "serving" /\ (suspended[h].at = "next_hand" => playing.play = "over")
  BY ServedWhileHandled DEF ClocksInv, HandsInv, OneDealer
<1>3. Clocks!TypeOK'
  BY <1>1, TypesOfClocks, TypesOfHandlerStep
<1>4. HandsInv'
  BY <1>1, <1>2, HandsStay
<1>5. TimersInv'
  <2>1. playing.play = "waits" => (timedBy(playing.seq) <=> timedBy(playing.seq)')
    BY <1>1, <1>2 DEF timedBy
  <2>2. \A e \in ClockHandlers : e # h => (active(e) <=> active(e)') /\ (saving(e) <=> saving(e)')
    BY <1>1 DEF active, saving
  <2>3. /\ playing.play = "waits" => ~ active(h)
        /\ ~ saving(h)
    BY <1>2 DEF active, saving
  <2>4. TimersInv
    BY DEF ClocksInv
  <2>5. serving' = "serving" /\ playing'.play = "waits" /\ ~ lost'
          => timedBy(playing.seq)' \/ \E e \in ClockHandlers : active(e)'
    BY <2>1, <2>2, <2>3, <2>4, TimersUnfold
  <2>6. owed' => disconnect' # "none" \/ \E p \in Polls : looking(p)'
    BY <2>4, TimersUnfold DEF looking
  <2>7. OverIsQuiet'
    BY <2>2, <2>3, <2>4 DEF TimersInv, OverIsQuiet, quiet
  <2> QED
    BY <2>5, <2>6, <2>7, TimersFold
<1> QED
  BY <1>3, <1>4, <1>5 DEF ClocksInv

LEMMA SubmitActionKeeps ==
    ASSUME ClocksInv, NEW h \in ClockHandlers, Clocks!SubmitAction(h)
    PROVE  ClocksInv'
  BY ApplyKeeps DEF Clocks!SubmitAction, Clocks!redis, Clocks!history, Clocks!bounds

LEMMA TimeoutSeatKeeps ==
    ASSUME ClocksInv, NEW h \in ClockHandlers, Clocks!TimeoutSeat(h)
    PROVE  ClocksInv'
<1>1. /\ suspended[h].at = "row"
      /\ UNCHANGED <<saved, serving, timer, timerSeq, disconnect, poll,
                     ripe, owed, lost, drops, failures, crashes>>
  BY DEF Clocks!TimeoutSeat, Clocks!redis, Clocks!history, Clocks!bounds
<1>2. CASE playing.play = "waits" /\ playing.seq = suspended[h].seq
  BY <1>1, <1>2, ApplyKeeps DEF Clocks!TimeoutSeat
<1>3. CASE ~ (playing.play = "waits" /\ playing.seq = suspended[h].seq)
  BY <1>1, <1>3, IdleAgainKeeps DEF Clocks!TimeoutSeat
<1> QED
  BY <1>2, <1>3

LEMMA DealNextHandKeeps ==
    ASSUME ClocksInv, NEW h \in ClockHandlers, Clocks!DealNextHand(h)
    PROVE  ClocksInv'
<1>1. /\ suspended[h].at = "next_hand"
      /\ UNCHANGED <<saved, serving, timer, timerSeq, disconnect, poll,
                     ripe, owed, lost, drops, failures, crashes>>
  BY DEF Clocks!DealNextHand, Clocks!redis, Clocks!history, Clocks!bounds
<1>2. CASE playing.play = "between"
  <2>1. PICK g : /\ g = [play |-> "waits", hand |-> playing.hand + 1, seq |-> 0]
                 /\ playing' = g
                 /\ Clocks!suspend(h, [Clocks!Idle EXCEPT !.at = "save", !.game = g])
    BY <1>2 DEF Clocks!DealNextHand
  <2>2. playing.hand < ClockHands /\ playing.hand \in 1..ClockHands
    BY <1>2, TypesOfClocks, PartsOfHandlers DEF ClocksInv, HandsInv, BetweenHands
  <2>3. g \in Clocks!Games /\ g.play = "waits"
    <3>1. playing.hand + 1 \in 1..ClockHands /\ 0 \in Clocks!Seqs
      BY <2>2, ClocksNumbers
    <3> QED
      BY <2>1, <3>1 DEF Clocks!Games
  <2>4. PICK x \in Clocks!HandlerStates : Clocks!suspend(h, x) /\ x.at = "save"
    BY <2>1, <2>3, SuspendedToSave
  <2>5. /\ suspended' \in [ClockHandlers -> Clocks!HandlerStates] /\ suspended'[h] = x
        /\ \A e \in ClockHandlers \ {h} : suspended'[e] = suspended[e]
    BY <2>4, HandlerMoves
  <2>6. Clocks!TypeOK'
    BY <1>1, <2>1, <2>3, <2>5, TypesOfClocks, TypesOfHandlerStep
  <2>7. HandsInv'
    <3>1. serving' = "serving"
      BY <1>1, ServedWhileHandled
    <3>2. \A e \in ClockHandlers : suspended'[e].at # "next_hand"
      BY <1>1, <2>4, <2>5 DEF ClocksInv, HandsInv, OneDealer
    <3> QED
      BY <2>1, <2>3, <3>1, <3>2 DEF HandsInv, BetweenHands, OneDealer, NothingUntilServing
  <2>8. TimersInv'
    <3>1. active(h)' /\ playing'.play # "over"
      BY <2>1, <2>3, <2>4, <2>5 DEF active
    <3>2. owed' => disconnect' # "none" \/ \E p \in Polls : looking(p)'
      BY <1>1, TimersUnfold DEF ClocksInv, looking
    <3> QED
      BY <3>1, <3>2, TimersFold DEF OverIsQuiet
  <2> QED
    BY <2>6, <2>7, <2>8 DEF ClocksInv
<1>3. CASE playing.play # "between"
  BY <1>1, <1>3, IdleAgainKeeps DEF Clocks!DealNextHand
<1> QED
  BY <1>2, <1>3

LEMMA SaveKeeps ==
    ASSUME ClocksInv, NEW h \in ClockHandlers, Clocks!Save(h)
    PROVE  ClocksInv'
<1>1. /\ suspended[h].at = "save" /\ saved' = suspended[h].game
      /\ Clocks!suspend(h, [Clocks!Idle EXCEPT !.at = "publish"])
      /\ UNCHANGED <<playing, serving, timer, timerSeq, disconnect, poll,
                     ripe, owed, lost, drops, failures, crashes>>
  BY DEF Clocks!Save, Clocks!redis, Clocks!history, Clocks!bounds
<1>2. PICK x \in Clocks!HandlerStates : Clocks!suspend(h, x) /\ x.at = "publish"
  BY <1>1, SuspendedAt
<1>3. /\ suspended' \in [ClockHandlers -> Clocks!HandlerStates] /\ suspended'[h] = x
      /\ \A e \in ClockHandlers \ {h} : suspended'[e] = suspended[e]
  BY <1>2, HandlerMoves
<1>4. Clocks!TypeOK'
  BY <1>1, <1>3, TypesOfClocks, PartsOfHandlers, TypesOfHandlerStep
<1>5. HandsInv'
  BY <1>1, <1>2, <1>3, ServedWhileHandled, HandsStay
<1>6. TimersInv'
  <2>1. active(h)' /\ saving(h)'
    BY <1>2, <1>3 DEF active, saving
  <2>2. owed' => disconnect' # "none" \/ \E p \in Polls : looking(p)'
    BY <1>1, TimersUnfold DEF ClocksInv, looking
  <2> QED
    BY <2>1, <2>2, TimersFold DEF OverIsQuiet
<1> QED
  BY <1>4, <1>5, <1>6 DEF ClocksInv

LEMMA SaveFailsKeeps ==
    ASSUME ClocksInv, NEW h \in ClockHandlers, Clocks!SaveFails(h)
    PROVE  ClocksInv'
<1>1. /\ suspended[h].at = "save" /\ failures' = failures + 1 /\ lost' = TRUE
      /\ Clocks!suspend(h, Clocks!Idle)
      /\ UNCHANGED <<playing, saved, serving, timer, timerSeq, disconnect, poll,
                     ripe, owed, drops, crashes>>
  BY DEF Clocks!SaveFails, Clocks!redis
<1>2. /\ suspended' \in [ClockHandlers -> Clocks!HandlerStates]
      /\ suspended'[h].at = "idle"
      /\ \A e \in ClockHandlers \ {h} : suspended'[e] = suspended[e]
  BY <1>1, HandlerMoves, FirstStates
<1>3. Clocks!TypeOK'
  BY <1>1, <1>2, TypesOfClocks DEF Clocks!TypeOK
<1>4. HandsInv'
  BY <1>1, <1>2, ServedWhileHandled, HandsStay
<1>5. TimersInv'
  <2>1. owed' => disconnect' # "none" \/ \E p \in Polls : looking(p)'
    BY <1>1, TimersUnfold DEF ClocksInv, looking
  <2> QED
    BY <1>1, <2>1, TimersFold DEF OverIsQuiet
<1> QED
  BY <1>3, <1>4, <1>5 DEF ClocksInv

LEMMA PublishKeeps ==
    ASSUME ClocksInv, NEW h \in ClockHandlers, Clocks!Publish(h)
    PROVE  ClocksInv'
<1>1. /\ suspended[h].at = "publish" /\ Clocks!suspend(h, Clocks!Idle)
      /\ UNCHANGED <<playing, saved, serving, poll, drops, failures, crashes>>
  BY DEF Clocks!Publish, Clocks!bounds
<1>2. /\ playing.play = "over" => Clocks!cancelMatch
      /\ playing.play = "waits" => Clocks!scheduleAction(playing.seq)
      /\ playing.play \notin {"over", "waits"} => Clocks!cancelAction
  BY DEF Clocks!Publish
<1>3. /\ suspended' \in [ClockHandlers -> Clocks!HandlerStates]
      /\ suspended'[h].at = "idle"
      /\ \A e \in ClockHandlers \ {h} : suspended'[e] = suspended[e]
  BY <1>1, HandlerMoves, FirstStates
<1>4. HandsInv'
  BY <1>1, <1>3, ServedWhileHandled, HandsStay
<1>5. /\ owed => disconnect # "none" \/ \E p \in Polls : looking(p)
      /\ \A p \in Polls : looking(p)' <=> looking(p)
  BY <1>1, TimersUnfold DEF ClocksInv, looking
<1>6. CASE playing.play = "over"
  <2>1. /\ timer' = "none" /\ timerSeq' = Clocks!NoSeq /\ disconnect' = "none"
        /\ owed' = FALSE /\ lost' = FALSE /\ ripe' = ripe
    BY <1>2, <1>6 DEF Clocks!cancelMatch
  <2>2. Clocks!TypeOK'
    BY <1>1, <1>3, <2>1, TypesOfClocks DEF Clocks!TypeOK
  <2>3. TimersInv'
    BY <1>1, <1>6, <2>1, TimersFold DEF OverIsQuiet, quiet
  <2> QED
    BY <1>4, <2>2, <2>3 DEF ClocksInv
<1>7. CASE playing.play = "waits"
  <2>1. /\ timer' = "set" /\ timerSeq' = playing.seq /\ ripe' = FALSE /\ lost' = FALSE
        /\ UNCHANGED <<disconnect, owed>>
    BY <1>2, <1>7 DEF Clocks!scheduleAction
  <2>2. timerSeq' \in Clocks!Seqs
    BY <2>1, TypesOfClocks, PartsOfHandlers
  <2>3. Clocks!TypeOK'
    BY <1>1, <1>3, <2>1, <2>2, TypesOfClocks DEF Clocks!TypeOK
  <2>4. TimersInv'
    <3>1. timedBy(playing.seq)'
      BY <1>1, <2>1 DEF timedBy
    <3> QED
      BY <1>1, <1>5, <1>7, <2>1, <3>1, TimersFold DEF OverIsQuiet
  <2> QED
    BY <1>4, <2>3, <2>4 DEF ClocksInv
<1>8. CASE playing.play \notin {"over", "waits"}
  <2>1. /\ timer' = "none" /\ timerSeq' = Clocks!NoSeq /\ lost' = FALSE
        /\ UNCHANGED <<disconnect, ripe, owed>>
    BY <1>2, <1>8 DEF Clocks!cancelAction
  <2>2. Clocks!TypeOK'
    BY <1>1, <1>3, <2>1, TypesOfClocks DEF Clocks!TypeOK
  <2>3. TimersInv'
    BY <1>1, <1>5, <1>8, <2>1, TimersFold DEF OverIsQuiet
  <2> QED
    BY <1>4, <2>2, <2>3 DEF ClocksInv
<1> QED
  BY <1>6, <1>7, <1>8

LEMMA ClocksHandleDisconnectKeeps ==
    ASSUME ClocksInv, Clocks!HandleDisconnect
    PROVE  ClocksInv'
<1>1. /\ playing.play \in {"waits", "between"} /\ drops' = drops + 1
      /\ disconnect' = "set" /\ owed' = TRUE
      /\ UNCHANGED <<playing, saved, serving, suspended, timer, timerSeq, poll,
                     ripe, lost, failures, crashes>>
  BY DEF Clocks!HandleDisconnect, Clocks!scheduleDisconnect, Clocks!server
<1>2. Clocks!TypeOK'
  BY <1>1, TypesOfClocks DEF Clocks!TypeOK
<1>3. HandsInv'
  BY <1>1, HandsStay
<1>4. TimersInv'
  <2>1. /\ timedBy(playing.seq)' <=> timedBy(playing.seq)
        /\ \A h \in ClockHandlers : active(h)' <=> active(h)
    BY <1>1 DEF timedBy, active
  <2> QED
    BY <1>1, <2>1, TimersUnfold, TimersFold DEF ClocksInv, OverIsQuiet
<1> QED
  BY <1>2, <1>3, <1>4 DEF ClocksInv

LEMMA SettleKeeps ==
    ASSUME ClocksInv, NEW h \in ClockHandlers, Clocks!Settle(h)
    PROVE  ClocksInv'
<1>1. /\ suspended[h].at = "settle" /\ Clocks!suspend(h, Clocks!Idle)
      /\ saved' = [saved EXCEPT !.play = "over"]
      /\ UNCHANGED <<playing, serving, timer, timerSeq, disconnect, poll,
                     ripe, owed, lost, drops, failures, crashes>>
  BY DEF Clocks!Settle, Clocks!redis, Clocks!history, Clocks!bounds
<1>2. /\ suspended' \in [ClockHandlers -> Clocks!HandlerStates]
      /\ suspended'[h].at = "idle"
      /\ \A e \in ClockHandlers \ {h} : suspended'[e] = suspended[e]
  BY <1>1, HandlerMoves, FirstStates
<1>3. saved' \in Clocks!Games
  BY <1>1, TypesOfClocks DEF Clocks!Games
<1>4. Clocks!TypeOK'
  BY <1>1, <1>2, <1>3, TypesOfClocks, TypesOfHandlerStep
<1>5. HandsInv'
  BY <1>1, <1>2, ServedWhileHandled, HandsStay
<1>6. TimersInv'
  <2>1. /\ timedBy(playing.seq)' <=> timedBy(playing.seq)
        /\ \A e \in ClockHandlers : (active(e)' <=> active(e)) /\ (saving(e)' <=> saving(e))
        /\ \A p \in Polls : looking(p)' <=> looking(p)
    BY <1>1, <1>2 DEF timedBy, active, saving, looking
  <2> QED
    BY <1>1, <2>1, TimersUnfold, TimersFold DEF ClocksInv, OverIsQuiet, quiet
<1> QED
  BY <1>4, <1>5, <1>6 DEF ClocksInv

LEMMA RipenKeeps ==
    ASSUME ClocksInv, Clocks!Ripen \/ Clocks!RipenDisconnect
    PROVE  ClocksInv'
<1>1. /\ \/ timer = "set" /\ timer' = "due" /\ disconnect' = disconnect /\ ripe' = TRUE
         \/ disconnect = "set" /\ disconnect' = "due" /\ timer' = timer /\ ripe' = ripe
      /\ UNCHANGED <<playing, saved, serving, suspended, timerSeq, poll,
                     owed, lost, drops, failures, crashes>>
  BY DEF Clocks!Ripen, Clocks!RipenDisconnect, Clocks!server, Clocks!history, Clocks!bounds
<1>2. Clocks!TypeOK'
  BY <1>1, TypesOfClocks DEF Clocks!TypeOK
<1>3. HandsInv'
  BY <1>1, HandsStay
<1>4. TimersInv'
  <2>1. /\ timedBy(playing.seq)' <=> timedBy(playing.seq)
        /\ \A h \in ClockHandlers : (active(h)' <=> active(h)) /\ (saving(h)' <=> saving(h))
        /\ \A p \in Polls : looking(p)' <=> looking(p)
    BY <1>1 DEF timedBy, active, saving, looking
  <2>2. quiet => ~ (Clocks!Ripen \/ Clocks!RipenDisconnect)
    BY DEF quiet, Clocks!Ripen, Clocks!RipenDisconnect
  <2> QED
    BY <1>1, <2>1, <2>2, TimersUnfold, TimersFold DEF ClocksInv, OverIsQuiet
<1> QED
  BY <1>2, <1>3, <1>4 DEF ClocksInv

(* A run of due() goes on to its next reply.                                *)
LEMMA AwaitsMoves ==
    ASSUME ClocksInv, NEW p \in Polls,
           NEW a \in {"idle", "actions", "removed", "disconnects", "checked"},
           NEW f \in BOOLEAN, Clocks!awaits(p, a, f)
    PROVE  /\ poll' \in [Polls -> Clocks!PollStates]
           /\ poll'[p].at = a /\ poll'[p].found = f
           /\ \A q \in Polls \ {p} : poll'[q] = poll[q]
<1>1. PICK x \in Clocks!PollStates :
        poll' = [poll EXCEPT ![p] = x] /\ x.at = a /\ x.found = f
  <2>1. PICK x : x = [Clocks!NotPolling EXCEPT !.at = a, !.found = f]
    OBVIOUS
  <2>2. x \in Clocks!PollStates /\ x.at = a /\ x.found = f
    BY <2>1, AwaitsAt
  <2>3. poll' = [poll EXCEPT ![p] = x]
    BY <2>1 DEF Clocks!awaits
  <2> QED
    BY <2>2, <2>3
<1> QED
  BY <1>1, PollMoves

LEMMA RangeMoves ==
    ASSUME ClocksInv, NEW p \in Polls, Clocks!rangeDisconnects(p)
    PROVE  /\ poll' \in [Polls -> Clocks!PollStates] /\ poll'[p].at = "disconnects"
           /\ \A q \in Polls \ {p} : poll'[q] = poll[q]
<1>1. PICK f \in BOOLEAN : f = (disconnect = "due")
  OBVIOUS
<1>2. Clocks!awaits(p, "disconnects", f)
  BY <1>1 DEF Clocks!rangeDisconnects
<1> QED
  BY <1>2, AwaitsMoves

(* A step of due() that leaves the arena as it is.                          *)
LEMMA DueKeeps ==
    ASSUME ClocksInv, UNCHANGED <<playing, saved, serving, suspended, timerSeq,
                                  ripe, owed, lost, drops, failures, crashes>>,
           poll' \in [Polls -> Clocks!PollStates],
           timer' \in {timer, "none"}, disconnect' \in {disconnect, "none"},
           timedBy(playing.seq) => timedBy(playing.seq)',
           disconnect # "none" \/ (\E p \in Polls : looking(p))
             => disconnect' # "none" \/ \E p \in Polls : looking(p)'
    PROVE  ClocksInv'
<1>1. Clocks!TypeOK'
  BY TypesOfClocks DEF Clocks!TypeOK
<1>2. HandsInv'
  BY HandsStay
<1>3. TimersInv'
  <2>1. \A h \in ClockHandlers : (active(h)' <=> active(h)) /\ (saving(h)' <=> saving(h))
    BY DEF active, saving
  <2> QED
    BY <2>1, TimersUnfold, TimersFold DEF ClocksInv, OverIsQuiet, quiet
<1> QED
  BY <1>1, <1>2, <1>3 DEF ClocksInv

LEMMA StartDueKeeps ==
    ASSUME ClocksInv, NEW p \in Polls, Clocks!StartDue(p)
    PROVE  ClocksInv'
<1>1. /\ poll[p].at = "idle"
      /\ Clocks!awaits(p, "actions", timer = "due")
      /\ UNCHANGED <<playing, saved, serving, suspended, timer, timerSeq, disconnect,
                     ripe, owed, lost, drops, failures, crashes>>
  BY FirstStates DEF Clocks!StartDue, Clocks!server, Clocks!redis, Clocks!history, Clocks!bounds
<1>2. PICK f \in BOOLEAN : f = (timer = "due")
  OBVIOUS
<1>3. /\ poll' \in [Polls -> Clocks!PollStates] /\ poll'[p].at = "actions"
      /\ \A q \in Polls \ {p} : poll'[q] = poll[q]
  BY <1>1, <1>2, AwaitsMoves
<1>4. timedBy(playing.seq) => timedBy(playing.seq)'
  BY <1>1, <1>3 DEF timedBy
<1>5. \A q \in Polls : looking(q) => looking(q)'
  BY <1>1, <1>3 DEF looking
<1> QED
  BY <1>1, <1>3, <1>4, <1>5, DueKeeps

LEMMA PopActionKeeps ==
    ASSUME ClocksInv, NEW p \in Polls, Clocks!PopAction(p)
    PROVE  ClocksInv'
<1>1. /\ poll[p].at = "actions"
      /\ UNCHANGED <<playing, saved, serving, suspended, timerSeq, disconnect,
                     ripe, owed, lost, drops, failures, crashes>>
  BY DEF Clocks!PopAction, Clocks!server, Clocks!history, Clocks!bounds
<1>2. CASE poll[p].found
  <2>1. Clocks!awaits(p, "removed", timer # "none") /\ timer' = "none"
    BY <1>2 DEF Clocks!PopAction
  <2>2. PICK f \in BOOLEAN : f = (timer # "none")
    OBVIOUS
  <2>3. /\ poll' \in [Polls -> Clocks!PollStates]
        /\ poll'[p].at = "removed" /\ poll'[p].found = f
        /\ \A q \in Polls \ {p} : poll'[q] = poll[q]
    BY <2>1, <2>2, AwaitsMoves
  <2>4. timedBy(playing.seq) => timedBy(playing.seq)'
    BY <1>1, <2>2, <2>3 DEF timedBy
  <2>5. \A q \in Polls : looking(q) => looking(q)'
    BY <1>1, <2>3 DEF looking
  <2> QED
    BY <1>1, <2>1, <2>3, <2>4, <2>5, DueKeeps
<1>3. CASE ~ poll[p].found
  <2>1. Clocks!rangeDisconnects(p) /\ timer' = timer
    BY <1>3 DEF Clocks!PopAction
  <2>2. /\ poll' \in [Polls -> Clocks!PollStates] /\ poll'[p].at = "disconnects"
        /\ \A q \in Polls \ {p} : poll'[q] = poll[q]
    BY <2>1, RangeMoves
  <2>3. timedBy(playing.seq) => timedBy(playing.seq)'
    BY <1>1, <2>1, <2>2 DEF timedBy
  <2>4. \A q \in Polls : looking(q) => looking(q)'
    BY <1>1, <2>2 DEF looking
  <2> QED
    BY <1>1, <2>1, <2>2, <2>3, <2>4, DueKeeps
<1> QED
  BY <1>2, <1>3

LEMMA ReadSeqKeeps ==
    ASSUME ClocksInv, NEW p \in Polls, Clocks!ReadSeq(p)
    PROVE  ClocksInv'
<1>1. /\ poll[p].at = "removed"
      /\ UNCHANGED <<playing, saved, serving, suspended, timer, timerSeq, disconnect,
                     ripe, owed, lost, drops, failures, crashes>>
  BY DEF Clocks!ReadSeq, Clocks!server, Clocks!redis, Clocks!history, Clocks!bounds
<1>2. CASE poll[p].found
  <2>1. poll' = [poll EXCEPT ![p] = [Clocks!NotPolling EXCEPT !.at = "seq", !.seq = timerSeq]]
    BY <1>2 DEF Clocks!ReadSeq
  <2>2. timerSeq \in Clocks!Seqs \cup {Clocks!NoSeq}
    BY TypesOfClocks
  <2>3. PICK x \in Clocks!PollStates :
          poll' = [poll EXCEPT ![p] = x] /\ x.at = "seq" /\ x.seq = timerSeq
    BY <2>1, <2>2, AwaitsSeq
  <2>4. /\ poll' \in [Polls -> Clocks!PollStates]
        /\ poll'[p].at = "seq" /\ poll'[p].seq = timerSeq
        /\ \A q \in Polls \ {p} : poll'[q] = poll[q]
    BY <2>3, PollMoves
  <2>5. timedBy(playing.seq) => timedBy(playing.seq)'
    BY <1>1, <2>4 DEF timedBy
  <2>6. \A q \in Polls : looking(q) => looking(q)'
    BY <1>1, <2>4 DEF looking
  <2> QED
    BY <1>1, <2>4, <2>5, <2>6, DueKeeps
<1>3. CASE ~ poll[p].found
  <2>1. /\ poll' \in [Polls -> Clocks!PollStates] /\ poll'[p].at = "disconnects"
        /\ \A q \in Polls \ {p} : poll'[q] = poll[q]
    BY <1>3, RangeMoves DEF Clocks!ReadSeq
  <2>2. timedBy(playing.seq) => timedBy(playing.seq)'
    BY <1>1, <1>3, <2>1 DEF timedBy
  <2>3. \A q \in Polls : looking(q) => looking(q)'
    BY <1>1, <2>1 DEF looking
  <2> QED
    BY <1>1, <2>1, <2>2, <2>3, DueKeeps
<1> QED
  BY <1>2, <1>3

LEMMA PopDisconnectKeeps ==
    ASSUME ClocksInv, NEW p \in Polls, Clocks!PopDisconnect(p)
    PROVE  ClocksInv'
<1>1. /\ poll[p].at = "disconnects"
      /\ UNCHANGED <<playing, saved, serving, suspended, timer, timerSeq,
                     ripe, owed, lost, drops, failures, crashes>>
  BY DEF Clocks!PopDisconnect, Clocks!server, Clocks!history, Clocks!bounds
<1>2. CASE poll[p].found
  <2>1. Clocks!awaits(p, "checked", disconnect # "none") /\ disconnect' = "none"
    BY <1>2 DEF Clocks!PopDisconnect
  <2>2. PICK f \in BOOLEAN : f = (disconnect # "none")
    OBVIOUS
  <2>3. /\ poll' \in [Polls -> Clocks!PollStates]
        /\ poll'[p].at = "checked" /\ poll'[p].found = f
        /\ \A q \in Polls \ {p} : poll'[q] = poll[q]
    BY <2>1, <2>2, AwaitsMoves
  <2>4. timedBy(playing.seq) => timedBy(playing.seq)'
    BY <1>1, <2>3 DEF timedBy
  <2>5. \A q \in Polls : looking(q) => q # p /\ looking(q)'
    BY <1>1, <2>3 DEF looking
  <2>6. disconnect # "none" => looking(p)'
    BY <2>2, <2>3 DEF looking
  <2> QED
    BY <1>1, <2>1, <2>3, <2>4, <2>5, <2>6, DueKeeps
<1>3. CASE ~ poll[p].found
  <2>1. Clocks!awaits(p, "idle", FALSE) /\ disconnect' = disconnect
    BY <1>3 DEF Clocks!PopDisconnect
  <2>2. /\ poll' \in [Polls -> Clocks!PollStates] /\ poll'[p].at = "idle"
        /\ \A q \in Polls \ {p} : poll'[q] = poll[q]
    BY <2>1, AwaitsMoves
  <2>3. timedBy(playing.seq) => timedBy(playing.seq)'
    BY <1>1, <2>2 DEF timedBy
  <2>4. \A q \in Polls : looking(q) => looking(q)'
    BY <1>1, <2>2 DEF looking
  <2> QED
    BY <1>1, <2>1, <2>2, <2>3, <2>4, DueKeeps
<1> QED
  BY <1>2, <1>3

(* The number of the decision is handed to a handler that awaits the row.   *)
LEMMA FireActionKeeps ==
    ASSUME ClocksInv, NEW p \in Polls, Clocks!FireAction(p)
    PROVE  ClocksInv'
<1>1. /\ poll[p].at = "seq" /\ Clocks!rangeDisconnects(p)
      /\ UNCHANGED <<playing, saved, serving, timer, timerSeq, disconnect,
                     ripe, owed, lost, drops, failures, crashes>>
  BY DEF Clocks!FireAction, Clocks!redis, Clocks!history, Clocks!bounds
<1>2. /\ poll' \in [Polls -> Clocks!PollStates] /\ poll'[p].at = "disconnects"
      /\ \A q \in Polls \ {p} : poll'[q] = poll[q]
  BY <1>1, RangeMoves
<1>3. \A q \in Polls : looking(q) => looking(q)'
  BY <1>1, <1>2 DEF looking
<1>4. TimersInv
  BY DEF ClocksInv
<1>5. CASE playing.play = "none"
  <2>1. suspended' = suspended
    BY <1>5 DEF Clocks!FireAction
  <2>2. Clocks!TypeOK'
    BY <1>1, <1>2, <2>1, TypesOfClocks DEF Clocks!TypeOK
  <2>3. HandsInv'
    BY <1>1, <2>1, HandsStay
  <2>4. TimersInv'
    BY <1>1, <1>3, <1>4, <1>5, TimersUnfold, TimersFold DEF OverIsQuiet
  <2> QED
    BY <2>2, <2>3, <2>4 DEF ClocksInv
<1>6. CASE playing.play # "none"
  <2>1. PICK h \in ClockHandlers :
          /\ suspended[h] = Clocks!Idle
          /\ Clocks!suspend(h, [Clocks!Idle EXCEPT !.at = "row", !.seq = poll[p].seq])
    BY <1>6 DEF Clocks!FireAction
  <2>2. PICK n \in Clocks!Seqs \cup {Clocks!NoSeq} : n = poll[p].seq
    BY TypesOfClocks, PartsOfHandlers
  <2>3. PICK x \in Clocks!HandlerStates : Clocks!suspend(h, x) /\ x.at = "row" /\ x.seq = n
    <3>1. PICK x : x = [Clocks!Idle EXCEPT !.at = "row", !.seq = n]
      OBVIOUS
    <3>2. x \in Clocks!HandlerStates /\ x.at = "row" /\ x.seq = n
      BY <3>1, SuspendedWithRow
    <3>3. Clocks!suspend(h, x)
      BY <2>1, <2>2, <3>1
    <3> QED
      BY <3>2, <3>3
  <2>4. /\ suspended' \in [ClockHandlers -> Clocks!HandlerStates]
        /\ suspended'[h].at = "row" /\ suspended'[h].seq = poll[p].seq
        /\ suspended[h].at = "idle"
        /\ \A e \in ClockHandlers \ {h} : suspended'[e] = suspended[e]
    BY <2>1, <2>2, <2>3, HandlerMoves, FirstStates
  <2>5. Clocks!TypeOK'
    BY <1>1, <1>2, <2>4, TypesOfClocks DEF Clocks!TypeOK
  <2>6. HandsInv'
    BY <1>1, <1>6, <2>4, ServedWhilePlayed, HandsStay
  <2>7. TimersInv'
    <3>1. timedBy(playing.seq) => timedBy(playing.seq)'
      BY <1>1, <1>2, <2>4 DEF timedBy
    <3>2. \A e \in ClockHandlers : (active(e)' <=> active(e)) /\ (saving(e)' <=> saving(e))
      BY <2>4 DEF active, saving
    <3> QED
      BY <1>1, <1>3, <1>4, <3>1, <3>2, TimersUnfold, TimersFold DEF OverIsQuiet, quiet
  <2> QED
    BY <2>5, <2>6, <2>7 DEF ClocksInv
<1> QED
  BY <1>5, <1>6

LEMMA CheckDisconnectKeeps ==
    ASSUME ClocksInv, NEW p \in Polls, Clocks!CheckDisconnect(p)
    PROVE  ClocksInv'
<1>1. /\ poll[p].at = "checked" /\ Clocks!awaits(p, "idle", FALSE)
      /\ UNCHANGED <<drops, failures, crashes>>
  BY DEF Clocks!CheckDisconnect, Clocks!bounds
<1>2. /\ poll' \in [Polls -> Clocks!PollStates] /\ poll'[p].at = "idle"
      /\ \A q \in Polls \ {p} : poll'[q] = poll[q]
  BY <1>1, AwaitsMoves
<1>3. TimersInv
  BY DEF ClocksInv
<1>4. timedBy(playing.seq) /\ UNCHANGED <<playing, suspended, timer, timerSeq>>
        => timedBy(playing.seq)'
  BY <1>1, <1>2 DEF timedBy
<1>5. \/ /\ UNCHANGED <<playing, saved, serving, suspended, timer, timerSeq, disconnect,
                        ripe, lost>>
         /\ owed' \in BOOLEAN /\ (owed' => owed /\ ~ poll[p].found)
      \/ \E h \in ClockHandlers :
           /\ suspended[h] = Clocks!Idle /\ playing.play \in {"waits", "between"}
           /\ playing' = [playing EXCEPT !.play = "over"]
           /\ Clocks!suspend(h, [Clocks!Idle EXCEPT !.at = "settle"])
           /\ Clocks!cancelMatch
           /\ UNCHANGED <<saved, serving>>
  BY DEF Clocks!CheckDisconnect, Clocks!server, Clocks!redis
<1>6. CASE /\ UNCHANGED <<playing, saved, serving, suspended, timer, timerSeq, disconnect,
                          ripe, lost>>
           /\ owed' \in BOOLEAN /\ (owed' => owed /\ ~ poll[p].found)
  <2>1. Clocks!TypeOK'
    BY <1>1, <1>2, <1>6, TypesOfClocks DEF Clocks!TypeOK
  <2>2. HandsInv'
    BY <1>6, HandsStay
  <2>3. TimersInv'
    <3>1. \A h \in ClockHandlers : (active(h)' <=> active(h)) /\ (saving(h)' <=> saving(h))
      BY <1>6 DEF active, saving
    <3>2. ~ poll[p].found => \A q \in Polls : looking(q) => looking(q)'
      BY <1>2 DEF looking
    <3>3. owed' => disconnect' # "none" \/ \E q \in Polls : looking(q)'
      BY <1>3, <1>6, <3>2, TimersUnfold
    <3> QED
      BY <1>3, <1>4, <1>6, <3>1, <3>3, TimersUnfold, TimersFold DEF OverIsQuiet, quiet
  <2> QED
    BY <2>1, <2>2, <2>3 DEF ClocksInv
<1>7. ASSUME NEW h \in ClockHandlers,
             suspended[h] = Clocks!Idle, playing.play \in {"waits", "between"},
             playing' = [playing EXCEPT !.play = "over"],
             Clocks!suspend(h, [Clocks!Idle EXCEPT !.at = "settle"]),
             Clocks!cancelMatch, UNCHANGED <<saved, serving>>
      PROVE  ClocksInv'
  <2>1. PICK x \in Clocks!HandlerStates : Clocks!suspend(h, x) /\ x.at = "settle"
    BY <1>7, SuspendedAt
  <2>2. /\ suspended' \in [ClockHandlers -> Clocks!HandlerStates]
        /\ suspended'[h].at = "settle"
        /\ \A e \in ClockHandlers \ {h} : suspended'[e] = suspended[e]
    BY <2>1, HandlerMoves
  <2>3. playing' \in Clocks!Games /\ playing'.play = "over"
    BY <1>7, TypesOfClocks DEF Clocks!Games
  <2>4. /\ timer' = "none" /\ timerSeq' = Clocks!NoSeq /\ disconnect' = "none"
        /\ owed' = FALSE /\ lost' = FALSE /\ ripe' = ripe
    BY <1>7 DEF Clocks!cancelMatch
  <2>5. Clocks!TypeOK'
    BY <1>1, <1>2, <1>7, <2>2, <2>3, <2>4, TypesOfClocks DEF Clocks!TypeOK
  <2>6. HandsInv'
    <3>1. serving' = "serving"
      BY <1>7, ServedWhilePlayed
    <3>2. \A e \in ClockHandlers :
            suspended'[e].at = "next_hand" => suspended[e].at = "next_hand"
      BY <2>2
    <3> QED
      BY <2>3, <3>1, <3>2
         DEF ClocksInv, HandsInv, BetweenHands, OneDealer, NothingUntilServing
  <2>7. TimersInv'
    BY <2>3, <2>4, TimersFold DEF OverIsQuiet, quiet
  <2> QED
    BY <2>5, <2>6, <2>7 DEF ClocksInv
<1> QED
  BY <1>5, <1>6, <1>7

LEMMA CrashKeeps ==
    ASSUME ClocksInv, Clocks!Crash
    PROVE  ClocksInv'
<1>1. /\ crashes' = crashes + 1 /\ serving' = "down" /\ playing' = Clocks!NoGame
      /\ suspended' = [h \in ClockHandlers |-> Clocks!Idle]
      /\ poll' = [p \in Polls |-> Clocks!NotPolling]
      /\ owed' = FALSE
      /\ UNCHANGED <<saved, timer, timerSeq, disconnect, ripe, lost, drops, failures>>
  BY DEF Clocks!Crash, Clocks!redis
<1>2. /\ suspended' \in [ClockHandlers -> Clocks!HandlerStates]
      /\ poll' \in [Polls -> Clocks!PollStates]
      /\ \A h \in ClockHandlers : suspended'[h].at = "idle"
      /\ playing' \in Clocks!Games /\ playing'.play = "none"
  BY <1>1, FirstStates
<1>3. Clocks!TypeOK'
  <2>1. crashes' \in Nat
    BY <1>1, TypesOfClocks
  <2>2. UNCHANGED <<saved, timer, timerSeq, disconnect, ripe, lost, drops, failures>>
        /\ serving' = "down"
    BY <1>1
  <2>3. owed' \in BOOLEAN
    BY <1>1, Zenon
  <2> QED
    BY <1>2, <2>1, <2>2, <2>3, TypesOfClocks DEF Clocks!TypeOK
<1>4. HandsInv'
  BY <1>2 DEF HandsInv, BetweenHands, OneDealer, NothingUntilServing
<1>5. TimersInv'
  BY <1>1, <1>2, TimersFold DEF OverIsQuiet
<1> QED
  BY <1>3, <1>4, <1>5 DEF ClocksInv

LEMMA ComesBackKeeps ==
    ASSUME ClocksInv, Clocks!ComesBack
    PROVE  ClocksInv'
<1>1. CASE Clocks!Restart
  <2>1. /\ serving = "down" /\ serving' = "starting"
        /\ UNCHANGED <<playing, saved, suspended, timer, timerSeq, disconnect, poll,
                       ripe, owed, lost, drops, failures, crashes>>
    BY <1>1 DEF Clocks!Restart, Clocks!redis, Clocks!history, Clocks!bounds
  <2>2. Clocks!TypeOK'
    BY <2>1, TypesOfClocks DEF Clocks!TypeOK
  <2>3. HandsInv'
    BY <2>1 DEF ClocksInv, HandsInv, BetweenHands, OneDealer, NothingUntilServing
  <2>4. TimersInv'
    <3>1. /\ owed' => disconnect' # "none" \/ \E p \in Polls : looking(p)'
          /\ playing'.play # "over"
      BY <2>1, TimersUnfold DEF ClocksInv, looking, HandsInv, NothingUntilServing
    <3> QED
      BY <2>1, <3>1, TimersFold DEF OverIsQuiet
  <2> QED
    BY <2>2, <2>3, <2>4 DEF ClocksInv
<1>2. CASE Clocks!restoreLive
  <2>1. /\ serving = "starting" /\ serving' = "serving"
        /\ UNCHANGED <<saved, suspended, poll, drops, failures, crashes>>
    BY <1>2 DEF Clocks!restoreLive, Clocks!bounds
  <2>2. playing.play = "none" /\ \A h \in ClockHandlers : suspended[h].at = "idle"
    BY <2>1 DEF ClocksInv, HandsInv, NothingUntilServing
  <2>3. owed => disconnect # "none" \/ \E p \in Polls : looking(p)'
    BY <2>1, TimersUnfold DEF ClocksInv, looking
  <2>4. CASE saved.play = "waits"
    <3>1. /\ playing' = saved /\ timer' = "set" /\ timerSeq' = saved.seq
          /\ ripe' = FALSE /\ lost' = FALSE /\ UNCHANGED <<disconnect, owed>>
      BY <1>2, <2>4 DEF Clocks!restoreLive, Clocks!scheduleAction
    <3>2. saved \in Clocks!Games /\ saved.seq \in Clocks!Seqs
      BY TypesOfClocks, PartsOfHandlers
    <3>3. Clocks!TypeOK'
      BY <2>1, <3>1, <3>2, TypesOfClocks DEF Clocks!TypeOK
    <3>4. HandsInv'
      BY <2>1, <2>2, <2>4, <3>1 DEF HandsInv, BetweenHands, OneDealer, NothingUntilServing
    <3>5. TimersInv'
      <4>1. timedBy(playing.seq)'
        BY <3>1 DEF timedBy
      <4> QED
        BY <2>3, <2>4, <3>1, <4>1, TimersFold DEF OverIsQuiet
    <3> QED
      BY <3>3, <3>4, <3>5 DEF ClocksInv
  <2>5. CASE saved.play # "waits"
    <3>1. UNCHANGED <<playing, timer, timerSeq, disconnect, ripe, owed, lost>>
      BY <1>2, <2>5 DEF Clocks!restoreLive, Clocks!redis, Clocks!history
    <3>2. Clocks!TypeOK'
      BY <2>1, <3>1, TypesOfClocks DEF Clocks!TypeOK
    <3>3. HandsInv'
      BY <2>1, <2>2, <3>1 DEF HandsInv, BetweenHands, OneDealer, NothingUntilServing
    <3>4. TimersInv'
      BY <2>2, <2>3, <3>1, TimersFold DEF OverIsQuiet
    <3> QED
      BY <3>2, <3>3, <3>4 DEF ClocksInv
  <2> QED
    BY <2>4, <2>5
<1> QED
  BY <1>1, <1>2 DEF Clocks!ComesBack

LEMMA ClocksStay ==
    ASSUME ClocksInv, UNCHANGED clockVars
    PROVE  ClocksInv'
<1>1. UNCHANGED <<playing, saved, serving, suspended, timer, timerSeq, disconnect, poll,
                  ripe, owed, lost, drops, failures, crashes>>
  BY DEF clockVars
<1>2. /\ timedBy(playing.seq) => timedBy(playing.seq)'
      /\ \A p \in Polls : looking(p) => looking(p)'
  BY <1>1 DEF timedBy, looking
<1> QED
  BY <1>1, <1>2, TypesOfClocks, DueKeeps

LEMMA ClocksStepKeeps ==
    ASSUME ClocksInv, Clocks!Next
    PROVE  ClocksInv'
<1>1. ASSUME NEW h \in ClockHandlers, Clocks!HandlerStep(h) PROVE ClocksInv'
  BY <1>1, SubmitActionKeeps, TimeoutSeatKeeps, DealNextHandKeeps, SaveKeeps, SaveFailsKeeps,
     PublishKeeps, SettleKeeps DEF Clocks!HandlerStep
<1>2. ASSUME NEW p \in Polls, Clocks!StartDue(p) \/ Clocks!DueStep(p) PROVE ClocksInv'
  BY <1>2, StartDueKeeps, PopActionKeeps, ReadSeqKeeps, FireActionKeeps, PopDisconnectKeeps,
     CheckDisconnectKeeps DEF Clocks!DueStep
<1>3. Clocks!Restart \/ Clocks!restoreLive => ClocksInv'
  BY ComesBackKeeps DEF Clocks!ComesBack
<1> QED
  BY <1>1, <1>2, <1>3, ClocksHandleDisconnectKeeps, RipenKeeps, CrashKeeps DEF Clocks!Next

-----------------------------------------------------------------------------
(* The two, beside a match.                                                 *)

LEMMA PartsStep ==
    ASSUME ClocksInv, PresenceInv, [PartsNext]_allVars
    PROVE  ClocksInv' /\ PresenceInv'
<1>1. \/ UNCHANGED <<clockVars, presenceVars>>
      \/ Clocks!Next /\ UNCHANGED presenceVars
      \/ Presence!Next /\ UNCHANGED clockVars
  BY DEF PartsNext, allVars
<1> QED
  BY <1>1, ClocksStay, PresenceStays, ClocksStepKeeps, PresenceStepKeeps

LEMMA PartsInvariant == PartsSpec => [](ClocksInv /\ PresenceInv)
<1>1. PartsInit => ClocksInv /\ PresenceInv
  BY ClocksBegin, PresenceBegins DEF PartsInit
<1>2. ClocksInv /\ PresenceInv /\ [PartsNext]_allVars => (ClocksInv /\ PresenceInv)'
  BY PartsStep
<1>3. PartsSpec => PartsInit /\ [][PartsNext]_allVars
  BY PTL DEF PartsSpec
<1> QED
  BY <1>1, <1>2, <1>3, PTL

(* However many runs of due() and handlers interleave, and however often    *)
(* the server restarts, the decision that waits has its timer, a disconnect *)
(* that was timed is looked at, and a match that has ended leaves no timer  *)
(* (redis-runtime.ts 173-205, arena.ts 397, 424).                           *)
THEOREM TimersKeepUp == PartsSpec => []TimersFollowMatch
<1>1. ClocksInv => TimersFollowMatch
  <2> SUFFICES ASSUME ClocksInv PROVE TimersFollowMatch
    OBVIOUS
  <2>1. Clocks!EndedMatchIsQuiet
    <3>1. OverIsQuiet
      BY DEF ClocksInv, TimersInv
    <3> QED
      BY <3>1 DEF OverIsQuiet, Clocks!EndedMatchIsQuiet, Clocks!busy, quiet, saving
  <2> QED
    BY <2>1 DEF ClocksInv, TimersInv, TimersFollowMatch
<1> QED
  BY <1>1, PartsInvariant, PTL

(* However sockets open, die, leak and are lost with the server, the book   *)
(* of presence counts the ones the server holds, and dates a player as gone *)
(* exactly while it counts none (http.ts 63, 74; redis-runtime.ts 56-79).   *)
THEOREM CountStaysExact == PartsSpec => []CountIsExact
<1>1. PresenceInv => CountIsExact
  BY DEF PresenceInv, CountIsExact
<1> QED
  BY <1>1, PartsInvariant, PTL

(* Whatever the limits: no player that is there loses by the disconnect     *)
(* timer, the one that loses to the other was not heard of for as long as   *)
(* the grace short of one heartbeat, and the one that wins was heard of     *)
(* within the timeout of heartbeats, unless the server was restarted and    *)
(* has not heard of it since (arena.ts 274-300, presence.ts 43-48).         *)
THEOREM VerdictsAreDeserved == PartsSpec => VerdictIsDeserved
<1>1. PresenceInv /\ [PartsNext]_allVars =>
        [\A d \in Presence!Devices :
            (winning = Presence!Undecided /\ winning' \in {Presence!Nobody, Presence!Other(d)})
              => /\ ~ Presence!has(d, {"attached"})
                 /\ winning' = Presence!Other(d) => unheard[d] + Interval >= Forfeit]_Presence!vars
  <2> SUFFICES ASSUME PresenceInv, [PartsNext]_allVars, NEW d \in Presence!Devices,
                      winning = Presence!Undecided,
                      winning' \in {Presence!Nobody, Presence!Other(d)}
               PROVE  /\ ~ Presence!has(d, {"attached"})
                      /\ winning' = Presence!Other(d) => unheard[d] + Interval >= Forfeit
    OBVIOUS
  <2>1. winning' # winning
    BY TwoDevices
  <2>2. Presence!Next
    BY <2>1 DEF PartsNext, allVars, presenceVars
  <2>3. Deserved
    BY <2>1, <2>2, PresenceStepDecides
  <2> QED
    BY <2>3 DEF Deserved, there
<1>2. PresenceInv /\ [PartsNext]_allVars =>
        [\A d \in Presence!Devices :
            (winning = Presence!Undecided /\ winning' = d)
              => unheard[d] <= Timeout + Lag \/ book[d] = Presence!NoRow]_Presence!vars
  <2> SUFFICES ASSUME PresenceInv, [PartsNext]_allVars, NEW d \in Presence!Devices,
                      winning = Presence!Undecided, winning' = d
               PROVE  unheard[d] <= Timeout + Lag \/ book[d] = Presence!NoRow
    OBVIOUS
  <2>1. winning' # winning
    BY TwoDevices
  <2>2. Presence!Next
    BY <2>1 DEF PartsNext, allVars, presenceVars
  <2>3. Deserved
    BY <2>1, <2>2, PresenceStepDecides
  <2> QED
    BY <2>3 DEF Deserved
<1>3. PartsSpec => [][PartsNext]_allVars
  BY PTL DEF PartsSpec
<1> QED
  BY <1>1, <1>2, <1>3, PartsInvariant, PTL
     DEF VerdictIsDeserved, Presence!VerdictIsDeserved, Presence!OnlyTheAbsentLose,
         Presence!WinnerWasThere
=============================================================================
