------------------------- MODULE AgentDecisionsProofs -------------------------
(***************************************************************************)
(* Proofs about AgentDecisions for any number of local matches, rooms,     *)
(* requests and decisions: what the runner keeps stays consistent, and a   *)
(* decision is the answer to its own prompt unless its agent was late.     *)
(*                                                                         *)
(* The queue lets one decision take its turn at a time, so an agent that   *)
(* was never late owes nothing when a turn begins, and what it owes or has *)
(* said during the turn is of that turn (Apart).                           *)
(***************************************************************************)
EXTENDS AgentDecisions, SequenceTheorems, TLAPS

Said == [of : Prompts, kind : Texts]

AgentState == [up : {"none", "up", "stopping", "gone"}, owed : Seq(Prompts),
               texts : Seq(Said), late : BOOLEAN]

Answer == [kind : Texts \cup {"none", "rejected", "fault"}, own : BOOLEAN, late : BOOLEAN]

CallState == [state : {"none", "queued", "first", "repair", "back"},
              handle : Handles \cup {NoHandle}, no : 0 .. MaxAsks,
              expired : BOOLEAN, got : Answer]

Places == {"idle", "freeA", "makeA", "freeB", "makeB", "playing", "asking",
           "free", "make", "closing", "over"}

Turning(c) == call[c].state \in {"first", "repair"}
Waiting(c) == call[c].state \in {"queued", "first", "repair"}

AgentsOK == agents \in [Handles -> AgentState]

LiveOK ==
    /\ live \in [Keys -> Handles \cup {NoHandle}]
    /\ \A k \in Keys : live[k] # NoHandle => live[k][2] = k /\ agents[live[k]].up = "up"

\* Where the owner of a contestant stands once it was created.
Made == [A |-> {"freeB", "makeB", "playing", "asking", "closing", "over"},
         B |-> {"playing", "asking", "closing", "over"},
         online |-> {"over"}]

MadeOK == \A h \in Handles : agents[h].up # "none" => pc[h[1]] \in Made[h[2]]

ClosingOK ==
    /\ closing \in [Owners -> SUBSET Handles]
    /\ \A p \in Owners : \A h \in closing[p] : agents[h].up \in {"stopping", "gone"}

OwnersOK ==
    /\ pc \in [Owners -> Places]
    /\ signal \subseteq Locals
    /\ bound \in BOOLEAN

TailOK ==
    /\ tail \in Seq(Callers) /\ IsInjective(tail)
    /\ \A c \in Callers : Waiting(c) <=> c \in ToSet(tail)
    /\ \A c \in Callers : Turning(c) => c = Head(tail)

CallsOK ==
    /\ call \in [Callers -> CallState]
    /\ \A c \in Callers : Waiting(c) => call[c].handle \in Handles
    /\ \A c \in Callers : ~Waiting(c) => call[c].handle = NoHandle
    /\ \A c \in Callers : call[c].state # "back" => call[c].got.kind = "none"
    /\ \A q \in Requests : call[q].state = "none" => call[q].no = 0

PlaysOK == \A m \in Locals : call[m].state # "none" => pc[m] = "asking"

Ours(h, c) ==
    /\ \A i \in 1 .. Len(agents[h].owed) : agents[h].owed[i] = promptOf(c)
    /\ \A i \in 1 .. Len(agents[h].texts) : agents[h].texts[i].of = promptOf(c)

\* An agent that was never late works on the prompts of the running turn only.
Apart ==
    \A h \in Handles : ~agents[h].late =>
        /\ \A c \in Callers : Turning(c) /\ call[c].handle = h => Ours(h, c)
        /\ ~beingRead(h) => agents[h].owed = <<>>

Inv ==
    /\ AgentsOK /\ LiveOK /\ MadeOK /\ ClosingOK /\ OwnersOK
    /\ TailOK /\ CallsOK /\ PlaysOK /\ Apart
    /\ PromptAnswerIsOwn

-----------------------------------------------------------------------------
(* The queue. *)

LEMMA QueueGrows ==
    ASSUME NEW S, NEW s \in Seq(S), IsInjective(s), NEW c \in S, c \notin ToSet(s)
    PROVE  /\ Append(s, c) \in Seq(S) /\ IsInjective(Append(s, c))
           /\ ToSet(Append(s, c)) = ToSet(s) \cup {c}
           /\ Head(Append(s, c)) = IF s = <<>> THEN c ELSE Head(s)
<1> DEFINE t == Append(s, c)
<1>1. /\ t \in Seq(S) /\ Len(t) = Len(s) + 1 /\ DOMAIN t = 1 .. Len(t)
      /\ DOMAIN s = 1 .. Len(s) /\ Len(s) \in Nat
      /\ \A i \in 1 .. Len(s) : t[i] = s[i]
      /\ t[Len(s) + 1] = c
  OBVIOUS
<1>2. Head(t) = IF s = <<>> THEN c ELSE Head(s)
  BY <1>1
<1> HIDE DEF t
<1>3. IsInjective(t)
  <2> SUFFICES ASSUME NEW i \in 1 .. Len(t), NEW j \in 1 .. Len(t), t[i] = t[j]
               PROVE  i = j
    BY <1>1 DEF IsInjective
  <2>1. \A k \in 1 .. Len(s) : t[k] # c
    BY <1>1 DEF ToSet
  <2> QED BY <1>1, <2>1 DEF IsInjective
<1>4. ToSet(t) = ToSet(s) \cup {c}
  <2>1. ToSet(t) \subseteq ToSet(s) \cup {c}
    BY <1>1 DEF ToSet
  <2>2. ToSet(s) \subseteq ToSet(t)
    <3> SUFFICES ASSUME NEW i \in 1 .. Len(s) PROVE s[i] \in ToSet(t)
      BY <1>1 DEF ToSet
    <3>1. i \in DOMAIN t /\ t[i] = s[i]
      BY <1>1
    <3> QED BY <3>1 DEF ToSet
  <2>3. c \in ToSet(t)
    <3>1. Len(s) + 1 \in DOMAIN t /\ t[Len(s) + 1] = c
      BY <1>1
    <3> QED BY <3>1 DEF ToSet
  <2> QED BY <2>1, <2>2, <2>3
<1> QED BY <1>1, <1>2, <1>3, <1>4 DEF t

LEMMA QueueMoves ==
    ASSUME NEW S, NEW s \in Seq(S), IsInjective(s), s # <<>>
    PROVE  /\ Tail(s) \in Seq(S) /\ IsInjective(Tail(s))
           /\ ToSet(Tail(s)) = ToSet(s) \ {Head(s)}
           /\ Head(s) \in ToSet(s)
<1>1. Len(s) > 0 /\ Head(s) = s[1]
  OBVIOUS
<1>2. /\ Tail(s) \in Seq(S) /\ Len(Tail(s)) = Len(s) - 1
      /\ \A i \in 1 .. Len(Tail(s)) : Tail(s)[i] = s[i + 1]
  BY <1>1
<1>3. \A i, j \in 1 .. Len(s) : s[i] = s[j] => i = j
  BY DEF IsInjective
<1>4. IsInjective(Tail(s))
  BY <1>2, <1>3 DEF IsInjective
<1>5. ToSet(Tail(s)) = ToSet(s) \ {Head(s)}
  <2>1. ASSUME NEW x \in ToSet(Tail(s)) PROVE x \in ToSet(s) \ {Head(s)}
    BY <1>1, <1>2, <1>3 DEF ToSet
  <2>2. ASSUME NEW x \in ToSet(s), x # Head(s) PROVE x \in ToSet(Tail(s))
    <3>1. PICK i \in 1 .. Len(s) : x = s[i]
      BY DEF ToSet
    <3>2. i - 1 \in 1 .. Len(Tail(s)) /\ x = Tail(s)[i - 1]
      BY <1>1, <1>2, <2>2, <3>1
    <3>3. DOMAIN Tail(s) = 1 .. Len(Tail(s))
      BY <1>2
    <3> QED BY <3>2, <3>3 DEF ToSet
  <2> QED BY <2>1, <2>2
<1>6. Head(s) \in ToSet(s)
  <2>1. 1 \in DOMAIN s
    BY <1>1
  <2> QED BY <1>1, <2>1 DEF ToSet
<1> QED BY <1>2, <1>4, <1>5, <1>6

-----------------------------------------------------------------------------
(* Contestants: dispose and create. *)

LEMMA AgentFields ==
    ASSUME NEW U, NEW O, NEW T, NEW L,
           NEW a \in [up : U, owed : O, texts : T, late : L], NEW u \in U, NEW o \in O
    PROVE  /\ [a EXCEPT !.up = u, !.owed = o] \in [up : U, owed : O, texts : T, late : L]
           /\ [a EXCEPT !.up = u, !.owed = o].up = u
           /\ [a EXCEPT !.up = u, !.owed = o].owed = o
           /\ [a EXCEPT !.up = u, !.owed = o].texts = a.texts
           /\ [a EXCEPT !.up = u, !.owed = o].late = a.late
OBVIOUS

LEMMA CancelledFacts ==
    ASSUME NEW a \in AgentState
    PROVE  /\ cancelled(a) \in AgentState
           /\ cancelled(a).up = "stopping" /\ cancelled(a).owed = <<>>
           /\ cancelled(a).texts = a.texts /\ cancelled(a).late = a.late
<1>1. <<>> \in Seq(Prompts)
  OBVIOUS
<1> QED BY <1>1, AgentFields DEF AgentState, cancelled

\* What the host's steps leave of an agent's work.
HostStep ==
    /\ agents' \in [Handles -> AgentState]
    /\ \A h \in Handles : /\ agents'[h].late = agents[h].late
                          /\ agents'[h].texts = agents[h].texts
                          /\ agents'[h].owed \in {agents[h].owed, <<>>}

LEMMA HostKeepsApart ==
    ASSUME Inv, HostStep,
           \A c \in Callers : /\ (call'[c].state \in {"first", "repair"}) <=> Turning(c)
                              /\ Turning(c) => call'[c] = call[c]
    PROVE  Apart'
<1> SUFFICES ASSUME NEW h \in Handles, ~agents'[h].late
             PROVE  /\ \A c \in Callers : (Turning(c) /\ call[c].handle = h => Ours(h, c))'
                    /\ (~beingRead(h) => agents[h].owed = <<>>)'
  BY DEF Apart
<1>1. /\ ~agents[h].late /\ agents'[h].texts = agents[h].texts
      /\ agents'[h].owed = agents[h].owed \/ agents'[h].owed = <<>>
  BY DEF HostStep
<1>2. \A c \in Callers : Turning(c) /\ call[c].handle = h => Ours(h, c)
  BY <1>1 DEF Inv, Apart
<1>3. ~beingRead(h) => agents[h].owed = <<>>
  BY <1>1 DEF Inv, Apart
<1>4. ASSUME NEW c \in Callers, (Turning(c) /\ call[c].handle = h)'
      PROVE  Ours(h, c)'
  <2>1. Turning(c) /\ call'[c] = call[c]
    BY <1>4 DEF Turning
  <2>2. Ours(h, c)
    BY <1>2, <1>4, <2>1
  <2>3. agents'[h].owed = <<>> => \A i \in 1 .. Len(agents'[h].owed) : FALSE
    OBVIOUS
  <2> QED BY <1>1, <2>1, <2>2, <2>3 DEF Ours, promptOf
<1>5. beingRead(h)' <=> beingRead(h)
  BY DEF beingRead, Turning
<1> QED BY <1>1, <1>3, <1>4, <1>5

LEMMA CallsAlone ==
    ASSUME Inv, UNCHANGED <<tail, call>>
    PROVE  TailOK' /\ CallsOK' /\ PromptAnswerIsOwn'
BY DEF Inv, TailOK, CallsOK, PromptAnswerIsOwn, Waiting, Turning, decided

LEMMA DisposeFacts ==
    ASSUME Inv, NEW p \in Owners, NEW keys \in SUBSET Keys, dispose(p, keys)
    PROVE  /\ HostStep /\ LiveOK' /\ ClosingOK'
           /\ \A h \in Handles : agents'[h].up # "none" <=> agents[h].up # "none"
<1>1. handlesOf(keys) \subseteq Handles
      /\ \A h \in handlesOf(keys) : agents[h].up = "up"
  BY DEF Inv, LiveOK, handlesOf
<1>2. \A h \in Handles : agents'[h] = IF h \in handlesOf(keys)
                                       THEN cancelled(agents[h]) ELSE agents[h]
  BY DEF dispose
<1>3. \A h \in Handles : agents[h] \in AgentState
  BY DEF Inv, AgentsOK
<1>4. HostStep
  <2>1. agents' = [h \in Handles |-> IF h \in handlesOf(keys)
                                     THEN cancelled(agents[h]) ELSE agents[h]]
    BY DEF dispose
  <2>2. \A h \in Handles : agents'[h] \in AgentState
    BY <1>2, <1>3, CancelledFacts
  <2>3. agents' \in [Handles -> AgentState]
    BY <2>1, <2>2
  <2> QED BY <1>2, <1>3, <2>3, CancelledFacts DEF HostStep
<1>5. \A h \in Handles : agents'[h].up = IF h \in handlesOf(keys)
                                         THEN "stopping" ELSE agents[h].up
  BY <1>2, <1>3, CancelledFacts
<1>6. LiveOK'
  <2>1. live' = [k \in Keys |-> IF k \in keys THEN NoHandle ELSE live[k]]
    BY DEF dispose
  <2>2. ASSUME NEW k \in Keys, live'[k] # NoHandle
        PROVE  live'[k][2] = k /\ agents'[live'[k]].up = "up"
    <3>1. k \notin keys /\ live'[k] = live[k]
      BY <2>1, <2>2
    <3>2. live[k] \in Handles /\ live[k][2] = k /\ agents[live[k]].up = "up"
      BY <2>2, <3>1 DEF Inv, LiveOK
    <3>3. live[k] \notin handlesOf(keys)
      BY <3>1, <3>2 DEF handlesOf, Inv, LiveOK
    <3> QED BY <1>5, <3>1, <3>2, <3>3
  <2>3. live' \in [Keys -> Handles \cup {NoHandle}]
    BY <2>1 DEF Inv, LiveOK
  <2> QED BY <2>2, <2>3 DEF LiveOK
<1>7. ClosingOK'
  <2>1. closing' = [closing EXCEPT ![p] = handlesOf(keys)]
    BY DEF dispose
  <2> QED BY <1>1, <1>5, <2>1 DEF Inv, ClosingOK
<1> QED BY <1>1, <1>4, <1>5, <1>6, <1>7

-----------------------------------------------------------------------------
(* One lemma for each step of the host and of a local match. *)

LEMMA HandleKinds ==
    ASSUME NEW h \in Handles
    PROVE  /\ \/ h[1] \in Locals /\ h[2] \in {"A", "B"} /\ h[1] \notin Rooms
              \/ h[1] \in Rooms /\ h[2] = "online" /\ h[1] \notin Locals
           /\ h[1] \in Owners /\ h[1] # "user" /\ h = <<h[1], h[2]>>
           /\ Made["A"] = {"freeB", "makeB", "playing", "asking", "closing", "over"}
           /\ Made["B"] = {"playing", "asking", "closing", "over"}
           /\ Made["online"] = {"over"}
BY NamesAssumption DEF Handles, Owners, Seats, Made

LEMMA MadeKept ==
    ASSUME Inv, NEW p \in Owners, NEW x, pc' = [pc EXCEPT ![p] = x],
           \A h \in Handles : agents'[h].up # "none" => agents[h].up # "none",
           \A h \in Handles : h[1] = p /\ pc[p] \in Made[h[2]] => x \in Made[h[2]]
    PROVE  MadeOK'
<1> SUFFICES ASSUME NEW h \in Handles, agents'[h].up # "none"
             PROVE  pc'[h[1]] \in Made[h[2]]
  BY DEF MadeOK
<1>1. pc[h[1]] \in Made[h[2]] /\ h[1] \in Owners
  BY HandleKinds DEF Inv, MadeOK
<1> QED BY <1>1 DEF Inv, OwnersOK

LEMMA HostInv ==
    ASSUME Inv, HostStep, LiveOK', MadeOK', ClosingOK', UNCHANGED <<tail, call>>,
           NEW p \in Owners, NEW x \in Places, pc' = [pc EXCEPT ![p] = x],
           p \in Locals /\ x # "asking" => call[p].state = "none",
           signal' \subseteq Locals, bound' \in BOOLEAN
    PROVE  Inv'
<1>1. OwnersOK'
  BY DEF Inv, OwnersOK
<1>2. PlaysOK'
  <2> SUFFICES ASSUME NEW m \in Locals, call[m].state # "none" PROVE pc'[m] = "asking"
    BY DEF PlaysOK
  <2>1. pc[m] = "asking" /\ m \in Owners
    BY DEF Inv, PlaysOK, Owners
  <2> QED BY <2>1 DEF Inv, OwnersOK
<1>3. AgentsOK'
  BY DEF AgentsOK, HostStep
<1>4. Apart'
  BY HostKeepsApart DEF Turning
<1> QED BY <1>1, <1>2, <1>3, <1>4, CallsAlone DEF Inv

\* Only a match that waits for a decision has a call in the runner.
LEMMA CallOf ==
    ASSUME Inv, NEW m \in Locals, pc[m] # "asking"
    PROVE  call[m].state = "none" /\ m \in Owners /\ m # "user"
BY NamesAssumption DEF Inv, PlaysOK, Owners

LEMMA StepStartLocal ==
    ASSUME Inv, NEW m \in Locals, StartLocal(m)
    PROVE  Inv'
<1>1. /\ pc[m] = "idle" /\ dispose(m, {"A"}) /\ pc' = [pc EXCEPT ![m] = "freeA"]
      /\ signal' \subseteq Locals /\ UNCHANGED <<tail, call, bound>>
  BY DEF StartLocal
<1>2. call[m].state = "none" /\ m \in Owners
  BY <1>1, CallOf
<1>3. {"A"} \in SUBSET Keys
  BY DEF Keys
<1>4. /\ HostStep /\ LiveOK' /\ ClosingOK'
      /\ \A h \in Handles : agents'[h].up # "none" => agents[h].up # "none"
  BY <1>1, <1>2, <1>3, DisposeFacts
<1>5. MadeOK'
  <2>1. \A h \in Handles : ~(h[1] = m /\ pc[m] \in Made[h[2]])
    BY <1>1, HandleKinds
  <2> QED BY <1>1, <1>2, <1>4, <2>1, MadeKept
<1>6. "freeA" \in Places /\ bound' \in BOOLEAN
  BY <1>1 DEF Places, Inv, OwnersOK
<1> QED BY <1>1, <1>2, <1>4, <1>5, <1>6, HostInv

LEMMA StepCancelLocal ==
    ASSUME Inv, CancelLocal
    PROVE  Inv'
<1>1. /\ pc["user"] = "idle" /\ dispose("user", Keys)
      /\ pc' = [pc EXCEPT !["user"] = "closing"]
      /\ signal' \subseteq Locals /\ UNCHANGED <<tail, call, bound>>
  BY DEF CancelLocal
<1>2. "user" \in Owners /\ "user" \notin Locals
  BY NamesAssumption DEF Owners
<1>3. /\ HostStep /\ LiveOK' /\ ClosingOK'
      /\ \A h \in Handles : agents'[h].up # "none" => agents[h].up # "none"
  BY <1>1, <1>2, DisposeFacts
<1>4. MadeOK'
  BY <1>1, <1>2, <1>3, MadeKept, HandleKinds
<1>5. "closing" \in Places /\ bound' \in BOOLEAN
  BY <1>1 DEF Places, Inv, OwnersOK
<1> QED BY <1>1, <1>2, <1>3, <1>4, <1>5, HostInv

LEMMA StepOpenRoom ==
    ASSUME Inv, NEW r \in Rooms, OpenRoom(r)
    PROVE  Inv'
<1>1. /\ pc[r] = "idle" /\ dispose(r, {"online"}) /\ pc' = [pc EXCEPT ![r] = "free"]
      /\ UNCHANGED <<tail, call, signal, bound>>
  BY DEF OpenRoom
<1>2. r \in Owners /\ r \notin Locals /\ {"online"} \in SUBSET Keys
  BY NamesAssumption DEF Owners, Keys
<1>3. /\ HostStep /\ LiveOK' /\ ClosingOK'
      /\ \A h \in Handles : agents'[h].up # "none" => agents[h].up # "none"
  BY <1>1, <1>2, DisposeFacts
<1>4. MadeOK'
  <2>1. \A h \in Handles : ~(h[1] = r /\ pc[r] \in Made[h[2]])
    BY <1>1, HandleKinds
  <2> QED BY <1>1, <1>2, <1>3, <2>1, MadeKept
<1>5. "free" \in Places /\ bound' \in BOOLEAN /\ signal' \subseteq Locals
  BY <1>1 DEF Places, Inv, OwnersOK
<1> QED BY <1>1, <1>2, <1>3, <1>4, <1>5, HostInv

\* whenIdle has come: the contestants that were told to stop are gone.
LEMMA GoneFields ==
    ASSUME NEW a \in AgentState
    PROVE  LET b == [a EXCEPT !.up = "gone", !.owed = <<>>]
           IN  /\ b \in AgentState /\ b.up = "gone" /\ b.owed = <<>>
               /\ b.texts = a.texts /\ b.late = a.late
<1>1. <<>> \in Seq(Prompts)
  OBVIOUS
<1> QED BY <1>1, AgentFields DEF AgentState

LEMMA StepDisposeEnds ==
    ASSUME Inv, NEW p \in Owners, DisposeEnds(p)
    PROVE  Inv'
<1> DEFINE gone(h) == [agents[h] EXCEPT !.up = "gone", !.owed = <<>>]
           x == IF p = "user" THEN "idle" ELSE afterDispose[pc[p]]
<1>1. /\ pc[p] \in {"freeA", "freeB", "free", "closing"}
      /\ agents' = [h \in Handles |-> IF h \in closing[p] THEN gone(h) ELSE agents[h]]
      /\ closing' = [closing EXCEPT ![p] = {}]
      /\ pc' = [pc EXCEPT ![p] = x]
      /\ UNCHANGED <<live, tail, call, signal, bound>>
  BY DEF DisposeEnds, afterDispose
<1>2. \A h \in Handles : /\ gone(h) \in AgentState /\ gone(h).up = "gone"
                         /\ gone(h).owed = <<>> /\ gone(h).texts = agents[h].texts
                         /\ gone(h).late = agents[h].late
  BY GoneFields DEF Inv, AgentsOK
<1>3. \A h \in Handles : agents'[h] = IF h \in closing[p] THEN gone(h) ELSE agents[h]
  BY <1>1
<1> HIDE DEF gone
<1>4. HostStep
  <2>1. \A h \in Handles : (IF h \in closing[p] THEN gone(h) ELSE agents[h]) \in AgentState
    BY <1>2 DEF Inv, AgentsOK
  <2>2. agents' \in [Handles -> AgentState]
    BY <1>1, <2>1
  <2> QED BY <1>2, <1>3, <2>2 DEF HostStep
<1>5. \A h \in closing[p] : agents[h].up \in {"stopping", "gone"} /\ h \in Handles
  BY DEF Inv, ClosingOK
<1>6. \A h \in Handles : agents'[h].up = IF h \in closing[p] THEN "gone" ELSE agents[h].up
  BY <1>2, <1>3
<1>7. LiveOK'
  <2>1. \A k \in Keys : live[k] # NoHandle =>
          live[k] \in Handles /\ live[k] \notin closing[p]
    BY <1>5 DEF Inv, LiveOK
  <2> QED BY <1>1, <1>6, <2>1 DEF Inv, LiveOK
<1>8. ClosingOK'
  BY <1>1, <1>6 DEF Inv, ClosingOK
<1>9. /\ x \in Places /\ x # "asking"
      /\ \A h \in Handles : h[1] = p /\ pc[p] \in Made[h[2]] => x \in Made[h[2]]
  <2>1. afterDispose["freeA"] = "makeA" /\ afterDispose["freeB"] = "makeB"
        /\ afterDispose["free"] = "make" /\ afterDispose["closing"] = "over"
    BY DEF afterDispose
  <2>2. x \in {"idle", "makeA", "makeB", "make", "over"}
    BY <1>1, <2>1
  <2>3. ASSUME NEW h \in Handles, h[1] = p, pc[p] \in Made[h[2]] PROVE x \in Made[h[2]]
    <3>1. x = afterDispose[pc[p]]
      BY <2>3, HandleKinds
    <3> QED BY <1>1, <2>1, <2>3, <3>1, HandleKinds
  <2> QED BY <2>2, <2>3 DEF Places
<1> HIDE DEF x
<1>10. MadeOK'
  BY <1>1, <1>5, <1>6, <1>9, MadeKept
<1>11. p \in Locals => call[p].state = "none"
  BY <1>1, CallOf
<1>12. signal' \subseteq Locals /\ bound' \in BOOLEAN
  BY <1>1 DEF Inv, OwnersOK
<1> QED BY <1>1, <1>4, <1>7, <1>8, <1>9, <1>10, <1>11, <1>12, HostInv

\* A contestant is created once; nothing of it was known before.
LEMMA CreatedFacts ==
    ASSUME Inv, NEW p, NEW k, <<p, k>> \in Handles, agents[<<p, k>>].up = "none"
    PROVE  LET as == created(p, k)
           IN  /\ as \in [Handles -> AgentState]
               /\ \A h \in Handles : /\ as[h].up = IF h = <<p, k>> THEN "up" ELSE agents[h].up
                                     /\ as[h].owed = agents[h].owed
                                     /\ as[h].texts = agents[h].texts
                                     /\ as[h].late = agents[h].late
<1> DEFINE a == agents[<<p, k>>]
           b == [a EXCEPT !.up = "up"]
<1>1. a \in AgentState /\ agents \in [Handles -> AgentState]
  BY DEF Inv, AgentsOK
<1>2. b \in AgentState /\ b.up = "up" /\ b.owed = a.owed /\ b.texts = a.texts /\ b.late = a.late
  <2>1. \A U, O, T, L : \A r \in [up : U, owed : O, texts : T, late : L] : \A u \in U :
          LET s == [r EXCEPT !.up = u]
          IN  /\ s \in [up : U, owed : O, texts : T, late : L]
              /\ s.up = u /\ s.owed = r.owed /\ s.texts = r.texts /\ s.late = r.late
    OBVIOUS
  <2> HIDE DEF a
  <2> QED BY <1>1, <2>1 DEF AgentState
<1>3. created(p, k) = [agents EXCEPT ![<<p, k>>] = b]
  BY DEF created
<1> HIDE DEF b
<1>4. \A h \in Handles : created(p, k)[h] = IF h = <<p, k>> THEN b ELSE agents[h]
  BY <1>1, <1>3
<1>5. created(p, k) \in [Handles -> AgentState]
  BY <1>1, <1>2, <1>3
<1> QED BY <1>2, <1>4, <1>5

LEMMA StepCreateA ==
    ASSUME Inv, NEW m \in Locals, CreateA(m)
    PROVE  Inv'
<1> DEFINE as == created(m, "A")
           bs == handlesOf({"B"})
<1>1. /\ pc[m] = "makeA"
      /\ live' = [live EXCEPT !["A"] = <<m, "A">>, !["B"] = NoHandle]
      /\ agents' = [h \in Handles |-> IF h \in bs THEN cancelled(as[h]) ELSE as[h]]
      /\ closing' = [closing EXCEPT ![m] = bs]
      /\ pc' = [pc EXCEPT ![m] = "freeB"]
      /\ UNCHANGED <<tail, call, signal, bound>>
  BY DEF CreateA
<1>2. m \in Owners /\ call[m].state = "none" /\ <<m, "A">> \in Handles
  BY <1>1, CallOf DEF Handles, Seats
<1>3. \A h \in Handles : h[1] = m => agents[h].up = "none"
  <2>1. \A h \in Handles : h[1] = m => pc[h[1]] \notin Made[h[2]]
    BY <1>1, HandleKinds
  <2>2. \A h \in Handles : agents[h].up # "none" => pc[h[1]] \in Made[h[2]]
    BY DEF Inv, MadeOK
  <2> QED BY <2>1, <2>2
<1>4. /\ as \in [Handles -> AgentState]
      /\ \A h \in Handles : /\ as[h].up = IF h = <<m, "A">> THEN "up" ELSE agents[h].up
                            /\ as[h].owed = agents[h].owed
                            /\ as[h].texts = agents[h].texts
                            /\ as[h].late = agents[h].late
  <2>1. agents[<<m, "A">>].up = "none"
    BY <1>2, <1>3
  <2> QED BY <1>2, <2>1, CreatedFacts
<1> HIDE DEF as
<1>5. \A h \in bs : h \in Handles /\ h[2] = "B" /\ agents[h].up = "up"
  BY DEF handlesOf, Inv, LiveOK, Keys
<1> HIDE DEF bs
<1>6. \A h \in Handles :
         /\ agents'[h] \in AgentState
         /\ agents'[h].up = IF h \in bs THEN "stopping" ELSE as[h].up
         /\ agents'[h].owed \in {agents[h].owed, <<>>}
         /\ agents'[h].texts = agents[h].texts
         /\ agents'[h].late = agents[h].late
  <2> SUFFICES ASSUME NEW h \in Handles
               PROVE  /\ agents'[h] \in AgentState
                      /\ agents'[h].up = IF h \in bs THEN "stopping" ELSE as[h].up
                      /\ agents'[h].owed \in {agents[h].owed, <<>>}
                      /\ agents'[h].texts = agents[h].texts
                      /\ agents'[h].late = agents[h].late
    OBVIOUS
  <2>1. as[h] \in AgentState
    BY <1>4
  <2>2. agents'[h] = IF h \in bs THEN cancelled(as[h]) ELSE as[h]
    BY <1>1
  <2>3. /\ cancelled(as[h]) \in AgentState
        /\ cancelled(as[h]).up = "stopping" /\ cancelled(as[h]).owed = <<>>
        /\ cancelled(as[h]).texts = as[h].texts /\ cancelled(as[h]).late = as[h].late
    BY <2>1, CancelledFacts
  <2>4. CASE h \in bs
    BY <1>4, <2>2, <2>3, <2>4
  <2>5. CASE h \notin bs
    BY <1>4, <2>1, <2>2, <2>5
  <2> QED BY <2>4, <2>5
<1>7. HostStep
  <2>1. agents' \in [Handles -> AgentState]
    BY <1>1, <1>6
  <2> QED BY <1>6, <2>1 DEF HostStep
<1>8. <<m, "A">> \notin bs
  BY <1>5
<1>9. LiveOK'
  <2>1. live' \in [Keys -> Handles \cup {NoHandle}]
    BY <1>1, <1>2 DEF Inv, LiveOK
  <2>2. ASSUME NEW k \in Keys, live'[k] # NoHandle
        PROVE  live'[k][2] = k /\ agents'[live'[k]].up = "up"
    <3>1. CASE k = "A"
      <4>1. live'[k] = <<m, "A">>
        BY <1>1, <3>1 DEF Inv, LiveOK, Keys
      <4>2. agents'[<<m, "A">>].up = "up"
        BY <1>2, <1>4, <1>6, <1>8
      <4> QED BY <3>1, <4>1, <4>2
    <3>2. CASE k = "online"
      <4>1. live'[k] = live[k]
        BY <1>1, <3>2 DEF Inv, LiveOK, Keys
      <4>2. live[k] \in Handles /\ live[k][2] = k /\ agents[live[k]].up = "up"
        BY <2>2, <4>1 DEF Inv, LiveOK
      <4>3. live[k] \notin bs /\ live[k] # <<m, "A">>
        BY <1>5, <3>2, <4>2
      <4> QED BY <1>4, <1>6, <4>1, <4>2, <4>3
    <3>3. k # "B"
      BY <1>1, <2>2 DEF Inv, LiveOK, Keys
    <3> QED BY <3>1, <3>2, <3>3 DEF Keys
  <2> QED BY <2>1, <2>2 DEF LiveOK
<1>10. ClosingOK'
  <2>1. \A q \in Owners : \A h \in closing[q] :
           h \in Handles /\ agents[h].up \in {"stopping", "gone"}
    BY DEF Inv, ClosingOK
  <2>2. \A q \in Owners : \A h \in closing[q] : agents'[h].up \in {"stopping", "gone"}
    BY <1>2, <1>3, <1>4, <1>6, <2>1
  <2>3. \A h \in bs : h \in Handles /\ agents'[h].up = "stopping"
    BY <1>5, <1>6
  <2> QED BY <1>1, <2>2, <2>3 DEF Inv, ClosingOK
<1>11. MadeOK'
  <2> SUFFICES ASSUME NEW h \in Handles, agents'[h].up # "none"
               PROVE  pc'[h[1]] \in Made[h[2]]
    BY DEF MadeOK
  <2>1. CASE h = <<m, "A">>
    <3>1. pc'[m] = "freeB"
      BY <1>1, <1>2 DEF Inv, OwnersOK
    <3> QED BY <2>1, <3>1, HandleKinds
  <2>2. CASE h # <<m, "A">>
    <3>1. agents[h].up # "none"
      BY <1>4, <1>5, <1>6, <2>2
    <3>2. h[1] # m /\ pc[h[1]] \in Made[h[2]] /\ h[1] \in Owners
      BY <1>3, <3>1, HandleKinds DEF Inv, MadeOK
    <3> QED BY <1>1, <3>2 DEF Inv, OwnersOK
  <2> QED BY <2>1, <2>2
<1>12. "freeB" \in Places /\ signal' \subseteq Locals /\ bound' \in BOOLEAN
  BY <1>1 DEF Places, Inv, OwnersOK
<1> QED BY <1>1, <1>2, <1>7, <1>9, <1>10, <1>11, <1>12, HostInv

\* What CreateB and BindRoom have in common.
Creates(p, k, x) ==
    /\ <<p, k>> \in Handles /\ agents[<<p, k>>].up = "none"
    /\ live' = [live EXCEPT ![k] = <<p, k>>]
    /\ agents' = created(p, k)
    /\ pc' = [pc EXCEPT ![p] = x]
    /\ \A h \in Handles : h[1] = p /\ (h[2] = k \/ pc[p] \in Made[h[2]]) => x \in Made[h[2]]
    /\ bound' \in BOOLEAN
    /\ UNCHANGED <<tail, call, closing, signal>>

LEMMA CreateInv ==
    ASSUME Inv, NEW p \in Owners, NEW k \in Keys, NEW x \in Places, x # "asking",
           p \in Locals => call[p].state = "none", Creates(p, k, x)
    PROVE  Inv'
<1> USE DEF Creates
<1>1. /\ agents' \in [Handles -> AgentState]
      /\ \A h \in Handles : /\ agents'[h].up = IF h = <<p, k>> THEN "up" ELSE agents[h].up
                            /\ agents'[h].owed = agents[h].owed
                            /\ agents'[h].texts = agents[h].texts
                            /\ agents'[h].late = agents[h].late
  BY CreatedFacts
<1>2. HostStep
  BY <1>1 DEF HostStep
<1>3. LiveOK'
  <2>1. live' \in [Keys -> Handles \cup {NoHandle}]
    BY DEF Inv, LiveOK
  <2>2. ASSUME NEW j \in Keys, live'[j] # NoHandle
        PROVE  live'[j][2] = j /\ agents'[live'[j]].up = "up"
    <3>1. CASE j = k
      <4>1. live'[j] = <<p, k>>
        BY <3>1 DEF Inv, LiveOK
      <4> QED BY <1>1, <3>1, <4>1
    <3>2. CASE j # k
      <4>1. live'[j] = live[j]
        BY <3>2 DEF Inv, LiveOK
      <4>2. live[j] \in Handles /\ live[j][2] = j /\ agents[live[j]].up = "up"
        BY <2>2, <4>1 DEF Inv, LiveOK
      <4> QED BY <1>1, <4>1, <4>2
    <3> QED BY <3>1, <3>2
  <2> QED BY <2>1, <2>2 DEF LiveOK
<1>4. ClosingOK'
  <2>1. \A q \in Owners : \A h \in closing[q] :
           h \in Handles /\ agents[h].up \in {"stopping", "gone"}
    BY DEF Inv, ClosingOK
  <2> QED BY <1>1, <2>1 DEF Inv, ClosingOK
<1>5. MadeOK'
  <2> SUFFICES ASSUME NEW h \in Handles, agents'[h].up # "none"
               PROVE  pc'[h[1]] \in Made[h[2]]
    BY DEF MadeOK
  <2>1. h[1] \in Owners /\ h = <<h[1], h[2]>>
    BY HandleKinds
  <2>2. pc'[h[1]] = IF h[1] = p THEN x ELSE pc[h[1]]
    BY <2>1 DEF Inv, OwnersOK
  <2>3. h # <<p, k>> => pc[h[1]] \in Made[h[2]]
    BY <1>1 DEF Inv, MadeOK
  <2> QED BY <2>1, <2>2, <2>3
<1>6. signal' \subseteq Locals
  BY DEF Inv, OwnersOK
<1> QED BY <1>2, <1>3, <1>4, <1>5, <1>6, HostInv

LEMMA StepCreateB ==
    ASSUME Inv, NEW m \in Locals, CreateB(m)
    PROVE  Inv'
<1>1. /\ pc[m] = "makeB" /\ live' = [live EXCEPT !["B"] = <<m, "B">>]
      /\ agents' = created(m, "B") /\ pc' = [pc EXCEPT ![m] = "playing"]
      /\ UNCHANGED <<tail, call, closing, signal, bound>>
  BY DEF CreateB
<1>2. /\ m \in Owners /\ call[m].state = "none" /\ <<m, "B">> \in Handles
      /\ "B" \in Keys /\ "playing" \in Places
  BY <1>1, CallOf DEF Handles, Seats, Keys, Places
<1>3. agents[<<m, "B">>].up = "none"
  <2>1. "makeB" \notin Made["B"]
    BY DEF Made
  <2> QED BY <1>1, <1>2, <2>1 DEF Inv, MadeOK
<1>4. \A h \in Handles : h[1] = m => "playing" \in Made[h[2]]
  BY HandleKinds
<1>5. bound' \in BOOLEAN /\ UNCHANGED <<tail, call, closing, signal>>
  BY <1>1 DEF Inv, OwnersOK
<1>6. Creates(m, "B", "playing")
  BY <1>1, <1>2, <1>3, <1>4, <1>5 DEF Creates
<1> QED BY <1>2, <1>6, CreateInv

LEMMA StepBindRoom ==
    ASSUME Inv, NEW r \in Rooms, BindRoom(r)
    PROVE  Inv'
<1>1. /\ pc[r] = "make" /\ live' = [live EXCEPT !["online"] = <<r, "online">>]
      /\ agents' = created(r, "online") /\ pc' = [pc EXCEPT ![r] = "over"]
      /\ UNCHANGED <<tail, call, closing, signal>> /\ bound' = TRUE
  BY DEF BindRoom
<1>2. /\ r \in Owners /\ r \notin Locals /\ <<r, "online">> \in Handles
      /\ "online" \in Keys /\ "over" \in Places
  BY NamesAssumption DEF Owners, Handles, Keys, Places
<1>3. agents[<<r, "online">>].up = "none"
  <2>1. "make" \notin Made["online"]
    BY DEF Made
  <2> QED BY <1>1, <1>2, <2>1 DEF Inv, MadeOK
<1>4. \A h \in Handles : h[1] = r => "over" \in Made[h[2]]
  BY HandleKinds
<1>5. Creates(r, "online", "over")
  BY <1>1, <1>2, <1>3, <1>4 DEF Creates
<1> QED BY <1>2, <1>5, CreateInv

-----------------------------------------------------------------------------
(* A decision is asked for, and what came back is taken. *)

LEMMA StillIsHost ==
    ASSUME Inv, UNCHANGED agents
    PROVE  HostStep
BY DEF Inv, AgentsOK, HostStep

LEMMA NoCallFacts ==
    ASSUME NEW n \in 0 .. MaxAsks
    PROVE  LET r == [NoCall EXCEPT !.no = n]
           IN  r \in CallState /\ r.state = "none" /\ r.handle = NoHandle /\ r.no = n
               /\ r.got = NotYet
BY DEF NoCall, NotYet, CallState, Answer

LEMMA CallsKept ==
    ASSUME Inv, NEW c \in Callers, NEW r \in CallState, call' = [call EXCEPT ![c] = r],
           r.state \in {"queued", "first", "repair"} => r.handle \in Handles,
           r.state \notin {"queued", "first", "repair"} => r.handle = NoHandle,
           r.state # "back" => r.got.kind = "none",
           c \in Requests /\ r.state = "none" => r.no = 0
    PROVE  CallsOK'
<1>1. call' \in [Callers -> CallState] /\ \A d \in Callers : call'[d] = IF d = c THEN r ELSE call[d]
  BY DEF Inv, CallsOK
<1>2. \A d \in Callers : Waiting(d)' => call'[d].handle \in Handles
  BY <1>1 DEF Inv, CallsOK, Waiting
<1>3. \A d \in Callers : ~Waiting(d)' => call'[d].handle = NoHandle
  BY <1>1 DEF Inv, CallsOK, Waiting
<1>4. \A d \in Callers : call'[d].state # "back" => call'[d].got.kind = "none"
  BY <1>1 DEF Inv, CallsOK
<1>5. \A q \in Requests : call'[q].state = "none" => call'[q].no = 0
  BY <1>1 DEF Inv, CallsOK, Callers
<1> QED BY <1>1, <1>2, <1>3, <1>4, <1>5 DEF CallsOK

LEMMA DecideFacts ==
    ASSUME Inv, NEW c \in Callers, NEW k \in Keys, decide(c, k), UNCHANGED agents,
           call[c].state = "none", call[c].no < MaxAsks
    PROVE  /\ TailOK' /\ CallsOK' /\ Apart' /\ PromptAnswerIsOwn'
           /\ \A d \in Callers : d # c => call'[d] = call[d]
<1>0. MaxAsks \in Nat /\ call[c] \in CallState /\ call[c].no \in 0 .. MaxAsks
  BY AsksAssumption DEF Inv, CallsOK, CallState
<1>1. ~Waiting(c) /\ c \notin ToSet(tail) /\ tail \in Seq(Callers) /\ IsInjective(tail)
  BY DEF Waiting, Inv, TailOK
<1>2. CASE live[k] = NoHandle
  <2> DEFINE r == [call[c] EXCEPT !.state = "back",
                                  !.got = [kind |-> "rejected", own |-> TRUE, late |-> FALSE]]
  <2>1. call' = [call EXCEPT ![c] = r] /\ UNCHANGED tail
    BY <1>2 DEF decide
  <2>2. /\ r \in CallState /\ r.state = "back" /\ r.handle = call[c].handle
        /\ r.got = [kind |-> "rejected", own |-> TRUE, late |-> FALSE]
    BY <1>0 DEF CallState, Answer
  <2> HIDE DEF r
  <2>3. call' \in [Callers -> CallState] /\ call'[c] = r
        /\ \A d \in Callers : d # c => call'[d] = call[d]
    BY <2>1, <2>2 DEF Inv, CallsOK
  <2>4. \A d \in Callers : Waiting(d)' <=> Waiting(d)
    BY <1>1, <2>2, <2>3 DEF Waiting
  <2>5. \A d \in Callers : (call'[d].state \in {"first", "repair"} <=> Turning(d))
                           /\ (Turning(d) => call'[d] = call[d])
    BY <2>2, <2>3 DEF Turning
  <2>6. TailOK'
    BY <2>1, <2>4, <2>5 DEF Inv, TailOK, Turning
  <2>7. CallsOK'
    <3>1. call[c].handle = NoHandle
      BY <1>1 DEF Inv, CallsOK
    <3> QED BY <2>1, <2>2, <3>1, CallsKept
  <2>8. Apart'
    BY <2>5, StillIsHost, HostKeepsApart
  <2>9. PromptAnswerIsOwn'
    BY <2>2, <2>3 DEF Inv, PromptAnswerIsOwn, decided
  <2> QED BY <2>3, <2>6, <2>7, <2>8, <2>9
<1>3. CASE live[k] # NoHandle
  <2> DEFINE r == [state |-> "queued", handle |-> live[k], no |-> call[c].no + 1,
                   expired |-> FALSE, got |-> NotYet]
  <2>1. call' = [call EXCEPT ![c] = r] /\ tail' = Append(tail, c)
    BY <1>3 DEF decide
  <2>2. /\ r \in CallState /\ r.state = "queued" /\ r.handle \in Handles
        /\ r.got.kind = "none"
    <3>1. live[k] \in Handles
      BY <1>3 DEF Inv, LiveOK
    <3>2. call[c].no + 1 \in 0 .. MaxAsks
      BY <1>0
    <3> QED BY <3>1, <3>2 DEF CallState, Answer, NotYet
  <2> HIDE DEF r
  <2>3. call' \in [Callers -> CallState] /\ call'[c] = r
        /\ \A d \in Callers : d # c => call'[d] = call[d]
    BY <2>1, <2>2 DEF Inv, CallsOK
  <2>4. Waiting(c)' /\ \A d \in Callers : d # c => (Waiting(d)' <=> Waiting(d))
    BY <2>2, <2>3 DEF Waiting
  <2>5. \A d \in Callers : (call'[d].state \in {"first", "repair"} <=> Turning(d))
                           /\ (Turning(d) => call'[d] = call[d])
    BY <2>2, <2>3 DEF Turning
  <2>6. TailOK'
    <3>1. /\ tail' \in Seq(Callers) /\ IsInjective(tail') /\ ToSet(tail') = ToSet(tail) \cup {c}
          /\ Head(tail') = IF tail = <<>> THEN c ELSE Head(tail)
      BY <1>1, <2>1, QueueGrows
    <3>2. \A d \in Callers : Turning(d) => tail # <<>>
      BY DEF Inv, TailOK, Turning, Waiting, ToSet
    <3> QED BY <1>1, <2>4, <2>5, <3>1, <3>2 DEF Inv, TailOK, Turning
  <2>7. CallsOK'
    BY <2>1, <2>2, CallsKept
  <2>8. Apart'
    BY <2>5, StillIsHost, HostKeepsApart
  <2>9. PromptAnswerIsOwn'
    BY <2>2, <2>3 DEF Inv, PromptAnswerIsOwn, decided
  <2> QED BY <2>3, <2>6, <2>7, <2>8, <2>9
<1> QED BY <1>2, <1>3

\* A caller takes what came back; it was not in the queue.
LEMMA TakenFacts ==
    ASSUME Inv, NEW m \in Locals, HostStep, UNCHANGED tail, ~Waiting(m),
           call' = [call EXCEPT ![m] = [NoCall EXCEPT !.no = call[m].no]]
    PROVE  /\ TailOK' /\ CallsOK' /\ Apart' /\ PromptAnswerIsOwn'
           /\ call'[m].state = "none"
           /\ \A d \in Callers : d # m => call'[d] = call[d]
<1>0. m \in Callers /\ m \notin Requests
  BY NamesAssumption DEF Callers
<1> DEFINE r == [NoCall EXCEPT !.no = call[m].no]
<1>1. call[m].no \in 0 .. MaxAsks
  BY <1>0 DEF Inv, CallsOK, CallState
<1>2. r \in CallState /\ r.state = "none" /\ r.handle = NoHandle /\ r.got.kind = "none"
  BY <1>1, NoCallFacts DEF NotYet
<1> HIDE DEF r
<1>3. call' \in [Callers -> CallState] /\ call'[m] = r
      /\ \A d \in Callers : d # m => call'[d] = call[d]
  BY <1>0, <1>2 DEF Inv, CallsOK, r
<1>4. \A d \in Callers : Waiting(d)' <=> Waiting(d)
  BY <1>2, <1>3 DEF Waiting
<1>5. \A d \in Callers : (call'[d].state \in {"first", "repair"} <=> Turning(d))
                         /\ (Turning(d) => call'[d] = call[d])
  BY <1>2, <1>3 DEF Turning, Waiting
<1>6. TailOK'
  BY <1>4, <1>5 DEF Inv, TailOK, Turning
<1>7. CallsOK'
  <2>1. call' = [call EXCEPT ![m] = r]
    BY DEF r
  <2> QED BY <1>0, <1>2, <2>1, CallsKept
<1>8. Apart'
  BY <1>5, HostKeepsApart
<1>9. PromptAnswerIsOwn'
  BY <1>2, <1>3 DEF Inv, PromptAnswerIsOwn, decided
<1> QED BY <1>2, <1>3, <1>6, <1>7, <1>8, <1>9

LEMMA AgentsStill ==
    ASSUME Inv, UNCHANGED <<live, agents, closing>>
    PROVE  AgentsOK' /\ LiveOK' /\ ClosingOK'
BY DEF Inv, AgentsOK, LiveOK, ClosingOK

LEMMA StepAsk ==
    ASSUME Inv, NEW m \in Locals, Ask(m)
    PROVE  Inv'
<1>1. /\ pc[m] = "playing" /\ call[m].no < MaxAsks /\ pc' = [pc EXCEPT ![m] = "asking"]
      /\ UNCHANGED <<live, agents, closing, signal, bound>>
  BY DEF Ask
<1>2. PICK s \in Seats : decide(m, s)
  BY DEF Ask
<1>3. m \in Callers /\ m \in Owners /\ s \in Keys /\ call[m].state = "none"
  BY <1>1, CallOf DEF Callers, Seats, Keys
<1>4. /\ TailOK' /\ CallsOK' /\ Apart' /\ PromptAnswerIsOwn'
      /\ \A d \in Callers : d # m => call'[d] = call[d]
  BY <1>1, <1>2, <1>3, DecideFacts
<1>5. PlaysOK'
  BY <1>1, <1>3, <1>4 DEF Inv, PlaysOK, OwnersOK, Callers, Owners
<1>6. OwnersOK'
  BY <1>1 DEF Inv, OwnersOK, Places
<1>7. MadeOK'
  <2>1. \A h \in Handles : pc[m] \in Made[h[2]] => "asking" \in Made[h[2]]
    BY <1>1, HandleKinds
  <2> QED BY <1>1, <1>3, <2>1, MadeKept
<1> QED BY <1>1, <1>4, <1>5, <1>6, <1>7, AgentsStill DEF Inv

LEMMA StepPlayAction ==
    ASSUME Inv, NEW q \in Requests, PlayAction(q)
    PROVE  Inv'
<1>1. /\ call[q].state = "none" /\ decide(q, "online")
      /\ UNCHANGED <<live, agents, pc, closing, signal, bound>>
  BY DEF PlayAction
<1>2. q \in Callers /\ q \notin Locals /\ "online" \in Keys /\ call[q].no < MaxAsks
  BY <1>1, NamesAssumption, AsksAssumption DEF Callers, Keys, Inv, CallsOK
<1>3. /\ TailOK' /\ CallsOK' /\ Apart' /\ PromptAnswerIsOwn'
      /\ \A d \in Callers : d # q => call'[d] = call[d]
  BY <1>1, <1>2, DecideFacts
<1>4. PlaysOK' /\ OwnersOK' /\ MadeOK'
  BY <1>1, <1>2, <1>3 DEF Inv, PlaysOK, OwnersOK, MadeOK, Callers
<1> QED BY <1>1, <1>3, <1>4, AgentsStill DEF Inv

LEMMA StepApply ==
    ASSUME Inv, NEW m \in Locals, Apply(m)
    PROVE  Inv'
<1>1. /\ pc[m] = "asking" /\ call[m].state = "back" /\ pc' = [pc EXCEPT ![m] = "playing"]
      /\ call' = [call EXCEPT ![m] = [NoCall EXCEPT !.no = call[m].no]]
      /\ UNCHANGED <<live, agents, tail, closing, signal, bound>>
  BY DEF Apply
<1>2. m \in Owners /\ ~Waiting(m)
  BY <1>1 DEF Owners, Waiting
<1>3. /\ TailOK' /\ CallsOK' /\ Apart' /\ PromptAnswerIsOwn' /\ call'[m].state = "none"
      /\ \A d \in Callers : d # m => call'[d] = call[d]
  BY <1>1, <1>2, StillIsHost, TakenFacts
<1>4. PlaysOK'
  BY <1>1, <1>2, <1>3 DEF Inv, PlaysOK, OwnersOK, Callers, Owners
<1>5. OwnersOK'
  BY <1>1 DEF Inv, OwnersOK, Places
<1>6. MadeOK'
  <2>1. \A h \in Handles : pc[m] \in Made[h[2]] => "playing" \in Made[h[2]]
    BY <1>1, HandleKinds
  <2> QED BY <1>1, <1>2, <2>1, MadeKept
<1> QED BY <1>1, <1>3, <1>4, <1>5, <1>6, AgentsStill DEF Inv

LEMMA StepEndLocal ==
    ASSUME Inv, NEW m \in Locals, EndLocal(m)
    PROVE  Inv'
<1>1. /\ finished(m) /\ dispose(m, Keys) /\ pc' = [pc EXCEPT ![m] = "closing"]
      /\ call' = [call EXCEPT ![m] = [NoCall EXCEPT !.no = call[m].no]]
      /\ UNCHANGED <<tail, signal, bound>>
  BY DEF EndLocal
<1>2. m \in Owners /\ pc[m] \in {"playing", "asking"}
  BY <1>1 DEF Owners, finished
<1>3. ~Waiting(m)
  <2>1. pc[m] = "playing" => call[m].state = "none"
    BY CallOf
  <2> QED BY <1>1, <2>1 DEF finished, Waiting
<1>4. /\ HostStep /\ LiveOK' /\ ClosingOK'
      /\ \A h \in Handles : agents'[h].up # "none" => agents[h].up # "none"
  BY <1>1, <1>2, DisposeFacts
<1>5. /\ TailOK' /\ CallsOK' /\ Apart' /\ PromptAnswerIsOwn' /\ call'[m].state = "none"
      /\ \A d \in Callers : d # m => call'[d] = call[d]
  BY <1>1, <1>3, <1>4, TakenFacts
<1>6. PlaysOK'
  BY <1>1, <1>2, <1>5 DEF Inv, PlaysOK, OwnersOK, Callers, Owners
<1>7. OwnersOK'
  BY <1>1 DEF Inv, OwnersOK, Places
<1>8. MadeOK'
  <2>1. \A h \in Handles : h[1] = m /\ pc[m] \in Made[h[2]] => "closing" \in Made[h[2]]
    BY <1>2, HandleKinds
  <2> QED BY <1>1, <1>2, <1>4, <2>1, MadeKept
<1>9. AgentsOK'
  BY <1>4 DEF AgentsOK, HostStep
<1> QED BY <1>4, <1>5, <1>6, <1>7, <1>8, <1>9 DEF Inv

-----------------------------------------------------------------------------
(* Turns. *)

\* A decision's steps leave the life of the contestants alone.
Works ==
    /\ agents' \in [Handles -> AgentState]
    /\ \A h \in Handles : agents'[h].up = agents[h].up

LEMMA WorkKeeps ==
    ASSUME Inv, Works, UNCHANGED <<live, pc, closing, signal, bound>>
    PROVE  AgentsOK' /\ LiveOK' /\ ClosingOK' /\ MadeOK' /\ OwnersOK'
<1>1. AgentsOK' /\ LiveOK' /\ OwnersOK'
  BY DEF Inv, Works, AgentsOK, LiveOK, OwnersOK
<1>2. ClosingOK'
  BY DEF Inv, Works, ClosingOK
<1>3. MadeOK'
  BY DEF Inv, Works, MadeOK
<1> QED BY <1>1, <1>2, <1>3

\* The decision whose turn it is: it waits, first of all.
HasTurn(c) == Waiting(c) /\ tail # <<>> /\ c = Head(tail)

LEMMA OneTurn ==
    ASSUME Inv, NEW c \in Callers, HasTurn(c)
    PROVE  /\ \A d \in Callers : Turning(d) => d = c
           /\ call[c].handle \in Handles
           /\ \A h \in Handles : h # call[c].handle => ~beingRead(h)
           /\ ~Turning(c) => \A h \in Handles : ~beingRead(h)
<1>1. \A d \in Callers : Turning(d) => d = c
  BY DEF Inv, TailOK, HasTurn
<1>2. call[c].handle \in Handles
  BY DEF Inv, CallsOK, HasTurn
<1> QED BY <1>1, <1>2 DEF beingRead, Turning

\* What follows a step for the agents no turn is about.
LEMMA OthersApart ==
    ASSUME Inv, NEW c \in Callers, HasTurn(c), NEW h \in Handles, h # call[c].handle,
           ~agents[h].late
    PROVE  agents[h].owed = <<>>
BY OneTurn DEF Inv, Apart

LEMMA SettleFacts ==
    ASSUME Inv, NEW c \in Callers, HasTurn(c),
           NEW kind \in Texts \cup {"none", "rejected", "fault"}, NEW own \in BOOLEAN,
           settle(c, kind, own), Works,
           \A h \in Handles : h # call[c].handle => agents'[h] = agents[h],
           ~agents'[call[c].handle].late => agents'[call[c].handle].owed = <<>>,
           kind \in {"fit", "over"} => own \/ agents[call[c].handle].late
    PROVE  /\ TailOK' /\ CallsOK' /\ Apart' /\ PromptAnswerIsOwn'
           /\ \A d \in Callers : call'[d].state # "none" => call[d].state # "none"
<1> DEFINE H == call[c].handle
           got == [kind |-> kind, own |-> own, late |-> agents[H].late]
           r == [NoCall EXCEPT !.state = "back", !.no = call[c].no, !.got = got]
<1>1. call' = [call EXCEPT ![c] = r] /\ tail' = Tail(tail)
  BY DEF settle
<1>2. /\ H \in Handles /\ \A d \in Callers : Turning(d) => d = c
  BY OneTurn
<1>3. got \in Answer
  BY <1>2 DEF Inv, AgentsOK, AgentState, Answer
<1>4. call[c].no \in 0 .. MaxAsks
  BY DEF Inv, CallsOK, CallState
<1> HIDE DEF H
<1>5. got.kind = kind /\ got.own = own /\ got.late = agents[H].late
  OBVIOUS
<1> HIDE DEF got
<1>6. r \in CallState /\ r.state = "back" /\ r.handle = NoHandle /\ r.got = got
  BY <1>3, <1>4 DEF NoCall, CallState
<1> HIDE DEF r
<1>7. /\ call' \in [Callers -> CallState] /\ call'[c] = r
      /\ \A d \in Callers : d # c => call'[d] = call[d]
  BY <1>1, <1>6 DEF Inv, CallsOK
<1>8. TailOK'
  <2>1. /\ tail \in Seq(Callers) /\ IsInjective(tail) /\ tail # <<>> /\ c = Head(tail)
    BY DEF Inv, TailOK, HasTurn
  <2>2. /\ tail' \in Seq(Callers) /\ IsInjective(tail')
        /\ ToSet(tail') = ToSet(tail) \ {c}
    BY <1>1, <2>1, QueueMoves
  <2>3. \A d \in Callers : ~Turning(d)'
    BY <1>2, <1>6, <1>7 DEF Turning
  <2>4. ~Waiting(c)' /\ \A d \in Callers : d # c => (Waiting(d)' <=> Waiting(d))
    BY <1>6, <1>7 DEF Waiting
  <2> QED BY <2>2, <2>3, <2>4 DEF Inv, TailOK
<1>9. CallsOK'
  BY <1>1, <1>6, CallsKept
<1>10. Apart'
  <2> SUFFICES ASSUME NEW h \in Handles, ~agents'[h].late
               PROVE  /\ \A d \in Callers : (Turning(d) /\ call[d].handle = h => Ours(h, d))'
                      /\ (~beingRead(h) => agents[h].owed = <<>>)'
    BY DEF Apart
  <2>1. \A d \in Callers : ~Turning(d)'
    BY <1>2, <1>6, <1>7 DEF Turning
  <2>2. agents'[h].owed = <<>>
    BY OthersApart DEF H
  <2> QED BY <2>1, <2>2
<1>11. PromptAnswerIsOwn'
  <2>1. \A d \in Callers : decided(d)' => call'[d].got.own \/ call'[d].got.late
    BY <1>5, <1>6, <1>7 DEF Inv, PromptAnswerIsOwn, decided, H
  <2> QED BY <2>1 DEF PromptAnswerIsOwn
<1>12. \A d \in Callers : call'[d].state # "none" => call[d].state # "none"
  BY <1>7 DEF HasTurn, Waiting
<1> QED BY <1>8, <1>9, <1>10, <1>11, <1>12

\* The agent's record when turn has sent a prompt.
prompting(a, o, l) == [a EXCEPT !.texts = <<>>, !.owed = o, !.late = l]

LEMMA PromptFields ==
    ASSUME NEW a \in AgentState, NEW l \in BOOLEAN, NEW o \in Seq(Prompts)
    PROVE  /\ prompting(a, o, l) \in AgentState /\ prompting(a, o, l).up = a.up
           /\ prompting(a, o, l).late = l /\ prompting(a, o, l).texts = <<>>
           /\ prompting(a, o, l).owed = o
<1>1. ASSUME NEW U, NEW O, NEW T, NEW L, NEW s \in [up : U, owed : O, texts : T, late : L],
             NEW x \in O, NEW y \in T, NEW z \in L
      PROVE  /\ [s EXCEPT !.texts = y, !.owed = x, !.late = z] \in
                  [up : U, owed : O, texts : T, late : L]
             /\ [s EXCEPT !.texts = y, !.owed = x, !.late = z].up = s.up
             /\ [s EXCEPT !.texts = y, !.owed = x, !.late = z].late = z
             /\ [s EXCEPT !.texts = y, !.owed = x, !.late = z].texts = y
             /\ [s EXCEPT !.texts = y, !.owed = x, !.late = z].owed = x
  OBVIOUS
<1>2. <<>> \in Seq(Said)
  OBVIOUS
<1> QED BY <1>1, <1>2 DEF AgentState, prompting

\* A turn begins in time only for an agent that owes nothing: what it then owes
\* is the prompt of this turn.
LEMMA TurnFacts ==
    ASSUME Inv, NEW c \in Callers, HasTurn(c), NEW which \in {"first", "repair"},
           NEW expired \in BOOLEAN, NEW as \in [Handles -> AgentState],
           \A h \in Handles : /\ as[h].up = agents[h].up
                              /\ h # call[c].handle => as[h] = agents[h],
           ~as[call[c].handle].late => /\ agents[call[c].handle].owed = <<>>
                                       /\ as[call[c].handle].owed = <<>>,
           promptOf(c) \in Prompts, turn(c, which, expired, as)
    PROVE  /\ Works /\ TailOK' /\ CallsOK' /\ Apart' /\ PromptAnswerIsOwn'
           /\ \A d \in Callers : call'[d].state # "none" => call[d].state # "none"
<1> DEFINE H == call[c].handle
<1>1. /\ H \in Handles /\ \A d \in Callers : Turning(d) => d = c
  BY OneTurn
<1>2. agents[H] \in AgentState /\ as[H] \in AgentState /\ agents \in [Handles -> AgentState]
  BY <1>1 DEF Inv, AgentsOK
<1>3. CASE agents[H].up = "gone" /\ settle(c, "rejected", TRUE) /\ agents' = as
  <2>1. Works
    BY <1>3 DEF Works
  <2>2. \A h \in Handles : h # H => agents'[h] = agents[h]
    BY <1>3
  <2>3. ~agents'[H].late => agents'[H].owed = <<>>
    BY <1>3
  <2> QED BY <1>3, <2>1, <2>2, <2>3, SettleFacts
<1>4. CASE /\ agents' = [as EXCEPT ![H] = prompted(c)[H], ![H].late = as[H].late]
           /\ call' = [call EXCEPT ![c].state = which, ![c].expired = expired]
           /\ UNCHANGED tail
  <2> DEFINE o == IF agents[H].up = "gone" THEN agents[H].owed
                  ELSE Append(agents[H].owed, promptOf(c))
             l == as[H].late
             b == prompting(agents[H], o, l)
             r == [call[c] EXCEPT !.state = which, !.expired = expired]
  <2>1. l \in BOOLEAN
    BY <1>2 DEF AgentState
  <2>2. prompted(c)[H] = [agents[H] EXCEPT !.texts = <<>>, !.owed = o]
    BY <1>1, <1>2 DEF prompted, AgentState
  <2>3. agents' = [as EXCEPT ![H] = b]
    BY <1>1, <1>4, <2>2 DEF prompting
  <2>4. b \in AgentState /\ b.up = agents[H].up /\ b.late = l /\ b.texts = <<>> /\ b.owed = o
    <3>1. o \in Seq(Prompts)
      BY <1>2 DEF AgentState
    <3> HIDE DEF o, l, H
    <3> QED BY <1>2, <2>1, <3>1, PromptFields
  <2> HIDE DEF b
  <2>5. Works
    BY <1>1, <2>3, <2>4 DEF Works
  <2>6. agents'[H] = b /\ \A h \in Handles : h # H => agents'[h] = agents[h]
    BY <1>1, <2>3
  <2>7. /\ r \in CallState /\ r.state = which /\ r.handle = H /\ r.no = call[c].no
        /\ r.got = call[c].got
    BY DEF Inv, CallsOK, CallState
  <2>8. call' = [call EXCEPT ![c] = r]
    BY <1>4 DEF Inv, CallsOK, CallState
  <2> HIDE DEF r
  <2>9. /\ call' \in [Callers -> CallState] /\ call'[c] = r
        /\ \A d \in Callers : d # c => call'[d] = call[d]
    BY <2>7, <2>8 DEF Inv, CallsOK
  <2>10. call[c].got.kind = "none"
    BY DEF HasTurn, Waiting, Inv, CallsOK
  <2>11. TailOK'
    <3>1. \A d \in Callers : Turning(d)' => d = c
      BY <1>1, <2>9 DEF Turning
    <3>2. \A d \in Callers : Waiting(d)' <=> Waiting(d)
      BY <2>7, <2>9 DEF Waiting, HasTurn
    <3> QED BY <1>4, <3>1, <3>2 DEF Inv, TailOK, HasTurn
  <2>12. CallsOK'
    <3>1. r.state \in {"first", "repair"} /\ r.handle \in Handles /\ r.got.kind = "none"
      BY <1>1, <2>7, <2>10
    <3> QED BY <2>7, <2>8, <3>1, CallsKept
  <2>13. Apart'
    <3> SUFFICES ASSUME NEW h \in Handles, ~agents'[h].late
                 PROVE  /\ \A d \in Callers : (Turning(d) /\ call[d].handle = h => Ours(h, d))'
                        /\ (~beingRead(h) => agents[h].owed = <<>>)'
      BY DEF Apart
    <3>1. \A d \in Callers : Turning(d)' => d = c
      BY <1>1, <2>9 DEF Turning
    <3>2. Turning(c)' /\ call'[c].handle = H /\ promptOf(c)' = promptOf(c)
      BY <2>7, <2>9 DEF Turning, promptOf
    <3>3. CASE h # H
      <4>1. agents'[h].owed = <<>>
        BY <2>6, <3>3, OthersApart
      <4> QED BY <3>1, <3>2, <3>3, <4>1
    <3>4. CASE h = H
      <4>1. agents'[h].texts = <<>> /\ agents'[h].owed = o /\ agents[H].owed = <<>>
        BY <2>4, <2>6, <3>4
      <4>2. o = <<>> \/ o = <<promptOf(c)>>
        BY <4>1
      <4> HIDE DEF o
      <4>3. Ours(h, c)'
        BY <3>2, <4>1, <4>2 DEF Ours
      <4>4. beingRead(h)'
        BY <3>2, <3>4 DEF beingRead, Turning
      <4> QED BY <3>1, <4>3, <4>4
    <3> QED BY <3>3, <3>4
  <2>14. PromptAnswerIsOwn'
    BY <2>7, <2>9, <2>10 DEF Inv, PromptAnswerIsOwn, decided
  <2>15. \A d \in Callers : call'[d].state # "none" => call[d].state # "none"
    BY <2>9 DEF HasTurn, Waiting
  <2> QED BY <2>5, <2>11, <2>12, <2>13, <2>14, <2>15
<1> QED BY <1>3, <1>4 DEF turn

-----------------------------------------------------------------------------
(* The steps of a decision and of its agent. *)

LEMMA WorkInv ==
    ASSUME Inv, Works, TailOK', CallsOK', Apart', PromptAnswerIsOwn',
           UNCHANGED <<live, pc, closing, signal, bound>>,
           \A d \in Callers : call'[d].state # "none" => call[d].state # "none"
    PROVE  Inv'
<1>1. PlaysOK'
  BY DEF Inv, PlaysOK, Callers
<1> QED BY <1>1, WorkKeeps DEF Inv

LEMMA PromptOfCall ==
    ASSUME Inv, NEW c \in Callers
    PROVE  promptOf(c) \in Prompts
BY DEF Inv, CallsOK, CallState, promptOf, Prompts

LEMMA TurningHasTurn ==
    ASSUME Inv, NEW c \in Callers, Turning(c)
    PROVE  HasTurn(c)
<1>1. Waiting(c) /\ c \in ToSet(tail) /\ c = Head(tail)
  BY DEF Inv, TailOK, Turning, Waiting
<1>2. tail # <<>>
  BY <1>1 DEF ToSet
<1> QED BY <1>1, <1>2 DEF HasTurn

LEMMA StepBegin ==
    ASSUME Inv, NEW c \in Callers, Begin(c)
    PROVE  Inv'
<1> DEFINE H == call[c].handle
<1>1. /\ call[c].state = "queued" /\ tail # <<>> /\ c = Head(tail)
      /\ turn(c, "first", FALSE, agents) /\ UNCHANGED <<live, pc, closing, signal, bound>>
  BY DEF Begin, mayRun
<1>2. HasTurn(c) /\ ~Turning(c)
  BY <1>1 DEF HasTurn, Waiting, Turning
<1>3. H \in Handles /\ ~beingRead(H)
  BY <1>2, OneTurn
<1>4. ~agents[H].late => agents[H].owed = <<>>
  BY <1>3 DEF Inv, Apart
<1>5. agents \in [Handles -> AgentState]
  BY DEF Inv, AgentsOK
<1>6. /\ Works /\ TailOK' /\ CallsOK' /\ Apart' /\ PromptAnswerIsOwn'
      /\ \A d \in Callers : call'[d].state # "none" => call[d].state # "none"
  BY <1>1, <1>2, <1>4, <1>5, PromptOfCall, TurnFacts
<1> QED BY <1>1, <1>6, WorkInv

LEMMA UnreadFacts ==
    ASSUME NEW c \in Callers, call[c].handle \in Handles, NEW as \in [Handles -> AgentState]
    PROVE  /\ unread(c, as) \in [Handles -> AgentState]
           /\ \A h \in Handles : h # call[c].handle => unread(c, as)[h] = as[h]
           /\ \A h \in Handles : /\ unread(c, as)[h].up = as[h].up
                                 /\ unread(c, as)[h].owed = as[h].owed
                                 /\ unread(c, as)[h].late = as[h].late
<1> DEFINE H == call[c].handle
           b == [as[H] EXCEPT !.texts = <<>>]
<1>1. ASSUME NEW U, NEW O, NEW T, NEW L, NEW s \in [up : U, owed : O, texts : T, late : L],
             NEW y \in T
      PROVE  /\ [s EXCEPT !.texts = y] \in [up : U, owed : O, texts : T, late : L]
             /\ [s EXCEPT !.texts = y].up = s.up
             /\ [s EXCEPT !.texts = y].owed = s.owed
             /\ [s EXCEPT !.texts = y].late = s.late
  OBVIOUS
<1>2. as[H] \in AgentState /\ <<>> \in Seq(Said)
  <2>1. <<>> \in Seq(Said)
    OBVIOUS
  <2>2. as[H] \in AgentState
    OBVIOUS
  <2> QED BY <2>1, <2>2
<1>3. b \in AgentState /\ b.up = as[H].up /\ b.owed = as[H].owed /\ b.late = as[H].late
  BY <1>1, <1>2 DEF AgentState
<1>4. unread(c, as) = [as EXCEPT ![H] = b]
  BY DEF unread
<1> HIDE DEF b
<1> QED BY <1>3, <1>4

LEMMA LateFacts ==
    ASSUME Inv, NEW h \in Handles
    PROVE  /\ late(h) \in [Handles -> AgentState]
           /\ \A g \in Handles : g # h => late(h)[g] = agents[g]
           /\ late(h)[h].late
           /\ \A g \in Handles : /\ late(h)[g].up = agents[g].up
                                 /\ late(h)[g].owed = agents[g].owed
<1> DEFINE b == [agents[h] EXCEPT !.late = TRUE]
<1>1. ASSUME NEW U, NEW O, NEW T, NEW L, NEW s \in [up : U, owed : O, texts : T, late : L],
             NEW y \in L
      PROVE  /\ [s EXCEPT !.late = y] \in [up : U, owed : O, texts : T, late : L]
             /\ [s EXCEPT !.late = y].up = s.up
             /\ [s EXCEPT !.late = y].owed = s.owed
             /\ [s EXCEPT !.late = y].late = y
  OBVIOUS
<1>2. agents[h] \in AgentState /\ TRUE \in BOOLEAN /\ agents \in [Handles -> AgentState]
  BY DEF Inv, AgentsOK
<1>3. b \in AgentState /\ b.up = agents[h].up /\ b.owed = agents[h].owed /\ b.late
  BY <1>1, <1>2 DEF AgentState
<1>4. late(h) = [agents EXCEPT ![h] = b]
  BY DEF late
<1> HIDE DEF b
<1> QED BY <1>2, <1>3, <1>4

\* What an agent in time has said since the prompt answers this prompt.
LEMMA DecisionsFacts ==
    ASSUME Inv, NEW c \in Callers, Turning(c), NEW d \in decisionsIn(c)
    PROVE  /\ d.kind \in Texts /\ d.own \in BOOLEAN
           /\ d.own \/ agents[call[c].handle].late
<1> DEFINE H == call[c].handle
           json == agents[H].texts
<1>1. H \in Handles /\ json \in Seq(Said)
  BY TurningHasTurn, OneTurn DEF Inv, AgentsOK, AgentState
<1>2. CASE d = [kind |-> "illegal", own |-> TRUE]
  BY <1>2 DEF Texts
<1>3. CASE /\ Len(json) = 1 /\ json[1].of = promptOf(c)
           /\ d = [kind |-> json[1].kind, own |-> TRUE]
  <2>1. json[1] \in Said
    <3> HIDE DEF json
    <3>1. 1 \in 1 .. Len(json)
      BY <1>3
    <3> QED BY <1>1, <3>1, ElementOfSeq
  <2> QED BY <1>3, <2>1 DEF Said
<1>4. CASE /\ Len(json) = 1 /\ json[1].of # promptOf(c)
           /\ d \in {[kind |-> k, own |-> FALSE] : k \in {"illegal", "fit", "over"}}
  <2>1. agents[H].late
    <3>1. ~agents[H].late => Ours(H, c)
      BY <1>1 DEF Inv, Apart
    <3> QED BY <1>4, <3>1 DEF Ours
  <2>2. PICK k \in {"illegal", "fit", "over"} : d = [kind |-> k, own |-> FALSE]
    BY <1>4
  <2>3. d.kind \in Texts /\ d.own \in BOOLEAN
    BY <2>2 DEF Texts
  <2> QED BY <2>1, <2>3
<1> QED BY <1>2, <1>3, <1>4 DEF decisionsIn

LEMMA StepTurnEnds ==
    ASSUME Inv, NEW c \in Callers, TurnEnds(c)
    PROVE  Inv'
<1> DEFINE H == call[c].handle
           calls == \A d \in Callers : call'[d].state # "none" => call[d].state # "none"
<1>1. /\ Turning(c) /\ agents[H].owed = <<>>
      /\ UNCHANGED <<live, pc, closing, signal, bound>>
  BY DEF TurnEnds, Turning
<1>2. HasTurn(c) /\ H \in Handles
  BY <1>1, TurningHasTurn, OneTurn
<1>3. agents \in [Handles -> AgentState]
  BY DEF Inv, AgentsOK
<1>4. /\ unread(c, agents) \in [Handles -> AgentState]
      /\ \A h \in Handles : h # H => unread(c, agents)[h] = agents[h]
      /\ \A h \in Handles : /\ unread(c, agents)[h].up = agents[h].up
                            /\ unread(c, agents)[h].owed = agents[h].owed
  BY <1>2, <1>3, UnreadFacts
<1>5. PICK d \in decisionsIn(c) :
        \/ /\ d.kind # "illegal"
           /\ settle(c, d.kind, d.own)
           /\ agents' = unread(c, agents)
        \/ /\ d.kind = "illegal" /\ call[c].state = "first"
           /\ turn(c, "repair", call[c].expired, agents)
        \/ /\ d.kind = "illegal" /\ call[c].state = "repair"
           /\ settle(c, "fault", TRUE)
           /\ agents' = unread(c, agents)
  BY DEF TurnEnds
<1>6. d.kind \in Texts /\ d.own \in BOOLEAN /\ (d.own \/ agents[H].late)
  BY <1>1, DecisionsFacts
<1>7. ASSUME agents' = unread(c, agents)
      PROVE  /\ Works /\ \A h \in Handles : h # H => agents'[h] = agents[h]
             /\ ~agents'[H].late => agents'[H].owed = <<>>
  BY <1>1, <1>2, <1>4, <1>7 DEF Works
<1>8. Works /\ TailOK' /\ CallsOK' /\ Apart' /\ PromptAnswerIsOwn' /\ calls
  <2>1. CASE settle(c, d.kind, d.own) /\ agents' = unread(c, agents)
    <3> DEFINE k == d.kind
               own == d.own
    <3>1. /\ k \in Texts \cup {"none", "rejected", "fault"} /\ own \in BOOLEAN
          /\ settle(c, k, own) /\ (k \in {"fit", "over"} => own \/ agents[H].late)
      BY <1>6, <2>1
    <3> HIDE DEF k, own
    <3> QED BY <1>2, <1>7, <2>1, <3>1, SettleFacts
  <2>2. CASE turn(c, "repair", call[c].expired, agents)
    <3>1. call[c].expired \in BOOLEAN
      BY DEF Inv, CallsOK, CallState
    <3> QED BY <1>1, <1>2, <1>3, <2>2, <3>1, PromptOfCall, TurnFacts
  <2>3. CASE settle(c, "fault", TRUE) /\ agents' = unread(c, agents)
    BY <1>2, <1>7, <2>3, SettleFacts
  <2> QED BY <1>5, <2>1, <2>2, <2>3
<1> QED BY <1>1, <1>8, WorkInv

LEMMA StepTimesOut ==
    ASSUME Inv, NEW c \in Callers, TimesOut(c)
    PROVE  Inv'
<1> DEFINE H == call[c].handle
           calls == \A d \in Callers : call'[d].state # "none" => call[d].state # "none"
<1>1. /\ Turning(c) /\ UNCHANGED <<live, pc, closing, signal, bound>>
      /\ \/ turn(c, "repair", TRUE, late(H))
         \/ settle(c, "fault", TRUE) /\ agents' = unread(c, late(H))
  BY DEF TimesOut, mayTimeOut, Turning
<1>2. HasTurn(c) /\ H \in Handles
  BY <1>1, TurningHasTurn, OneTurn
<1>3. /\ late(H) \in [Handles -> AgentState] /\ late(H)[H].late
      /\ \A h \in Handles : h # H => late(H)[h] = agents[h]
      /\ \A h \in Handles : late(H)[h].up = agents[h].up
  BY <1>2, LateFacts
<1>4. Works /\ TailOK' /\ CallsOK' /\ Apart' /\ PromptAnswerIsOwn' /\ calls
  <2>1. CASE turn(c, "repair", TRUE, late(H))
    BY <1>2, <1>3, <2>1, PromptOfCall, TurnFacts
  <2>2. CASE settle(c, "fault", TRUE) /\ agents' = unread(c, late(H))
    <3>1. /\ agents' \in [Handles -> AgentState] /\ agents'[H].late
          /\ \A h \in Handles : h # H => agents'[h] = agents[h]
          /\ \A h \in Handles : agents'[h].up = agents[h].up
      BY <1>2, <1>3, <2>2, UnreadFacts
    <3>2. Works
      BY <3>1 DEF Works
    <3> QED BY <1>2, <2>2, <3>1, <3>2, SettleFacts
  <2> QED BY <1>1, <2>1, <2>2
<1> QED BY <1>1, <1>4, WorkInv

\* The agent's record when it has finished its oldest prompt.
spoken(a, o, t) == [a EXCEPT !.owed = o, !.texts = t]

LEMMA SpokenFields ==
    ASSUME NEW a \in AgentState, NEW o \in Seq(Prompts),
           NEW t \in Seq(Said)
    PROVE  /\ spoken(a, o, t) \in AgentState /\ spoken(a, o, t).up = a.up
           /\ spoken(a, o, t).late = a.late /\ spoken(a, o, t).owed = o
           /\ spoken(a, o, t).texts = t
<1>1. ASSUME NEW U, NEW O, NEW T, NEW L, NEW s \in [up : U, owed : O, texts : T, late : L],
             NEW x \in O, NEW y \in T
      PROVE  /\ [s EXCEPT !.owed = x, !.texts = y] \in
                  [up : U, owed : O, texts : T, late : L]
             /\ [s EXCEPT !.owed = x, !.texts = y].up = s.up
             /\ [s EXCEPT !.owed = x, !.texts = y].late = s.late
             /\ [s EXCEPT !.owed = x, !.texts = y].owed = x
             /\ [s EXCEPT !.owed = x, !.texts = y].texts = y
  OBVIOUS
<1> QED BY <1>1 DEF AgentState, spoken

LEMMA StepSpeak ==
    ASSUME Inv, NEW h \in Handles, Speak(h)
    PROVE  Inv'
<1>1. PICK k \in Texts :
        agents' = [agents EXCEPT
          ![h].owed = Tail(@),
          ![h].texts = IF k = "prose" \/ Len(@) = 2 \/ ~beingRead(h) THEN @
                       ELSE Append(@, [of |-> Head(agents[h].owed), kind |-> k])]
  BY DEF Speak
<1>2. agents[h].owed # <<>> /\ UNCHANGED <<live, tail, call, pc, closing, signal, bound>>
  BY DEF Speak
<1> DEFINE o == Tail(agents[h].owed)
           said == [of |-> Head(agents[h].owed), kind |-> k]
           t == IF k = "prose" \/ Len(agents[h].texts) = 2 \/ ~beingRead(h)
                THEN agents[h].texts ELSE Append(agents[h].texts, said)
           b == spoken(agents[h], o, t)
<1>3. /\ agents[h] \in AgentState /\ agents \in [Handles -> AgentState]
      /\ agents[h].owed \in Seq(Prompts)
      /\ agents[h].texts \in Seq(Said)
  BY DEF Inv, AgentsOK, AgentState
<1>4. agents' = [agents EXCEPT ![h] = b]
  BY <1>1, <1>3 DEF AgentState, spoken
<1>5. o \in Seq(Prompts) /\ Head(agents[h].owed) \in Prompts
  BY <1>2, <1>3
<1>6. t \in Seq(Said)
  <2>1. said \in Said
    BY <1>5 DEF Said
  <2> HIDE DEF said
  <2> QED BY <1>3, <2>1
<1> HIDE DEF o, t
<1>7. b \in AgentState /\ b.up = agents[h].up /\ b.late = agents[h].late
      /\ b.owed = o /\ b.texts = t
  BY <1>3, <1>5, <1>6, SpokenFields
<1> HIDE DEF b
<1>8. agents'[h] = b /\ \A g \in Handles : g # h => agents'[g] = agents[g]
  BY <1>3, <1>4
<1>9. Works
  BY <1>3, <1>4, <1>7, <1>8 DEF Works
<1>10. Apart'
  <2> SUFFICES ASSUME NEW g \in Handles, ~agents'[g].late
               PROVE  /\ \A c \in Callers : (Turning(c) /\ call[c].handle = g => Ours(g, c))'
                      /\ (~beingRead(g) => agents[g].owed = <<>>)'
    BY DEF Apart
  <2>1. ~agents[g].late
    BY <1>7, <1>8
  <2>2. /\ \A c \in Callers : Turning(c) /\ call[c].handle = g => Ours(g, c)
        /\ ~beingRead(g) => agents[g].owed = <<>>
    BY <2>1 DEF Inv, Apart
  <2>3. beingRead(g)' <=> beingRead(g)
    BY <1>2 DEF beingRead
  <2>4. CASE g # h
    BY <1>2, <1>8, <2>2, <2>3, <2>4 DEF Turning, Ours, promptOf
  <2>5. CASE g = h
    <3>1. beingRead(h)
      BY <1>2, <2>2, <2>5
    <3>2. ASSUME NEW c \in Callers, Turning(c), call[c].handle = h PROVE Ours(h, c)'
      <4>1. Ours(h, c)
        BY <2>2, <2>5, <3>2
      <4>2. Head(agents[h].owed) = promptOf(c)
        BY <1>2, <1>3, <4>1 DEF Ours
      <4>3. \A i \in 1 .. Len(o) : o[i] = promptOf(c)
        BY <1>2, <1>3, <4>1 DEF Ours, o
      <4>4. \A i \in 1 .. Len(t) : t[i].of = promptOf(c)
        <5>1. said.of = promptOf(c)
          BY <4>2
        <5> HIDE DEF said
        <5> QED BY <1>3, <4>1, <5>1 DEF Ours, t
      <4>5. promptOf(c)' = promptOf(c)
        BY <1>2 DEF promptOf
      <4> QED BY <1>7, <1>8, <4>3, <4>4, <4>5 DEF Ours
    <3> QED BY <1>2, <2>3, <2>5, <3>1, <3>2 DEF Turning
  <2> QED BY <2>4, <2>5
<1>11. TailOK' /\ CallsOK' /\ PromptAnswerIsOwn'
  BY <1>2, CallsAlone
<1> QED BY <1>2, <1>9, <1>10, <1>11, WorkInv

-----------------------------------------------------------------------------

LEMMA InitInv ==
    ASSUME Init
    PROVE  Inv
<1> USE DEF Init
<1>1. NoAgent \in AgentState /\ NoAgent.up = "none" /\ NoAgent.owed = <<>>
  <2>1. <<>> \in Seq(Prompts)
    OBVIOUS
  <2>2. <<>> \in Seq(Said)
    OBVIOUS
  <2> QED BY <2>1, <2>2 DEF NoAgent, AgentState
<1>2. NoCall \in CallState /\ NoCall.state = "none" /\ NoCall.handle = NoHandle
      /\ NoCall.got.kind = "none" /\ NoCall.no = 0
  BY AsksAssumption DEF NoCall, NotYet, CallState, Answer
<1>3. AgentsOK /\ LiveOK /\ MadeOK /\ ClosingOK
  BY <1>1 DEF AgentsOK, LiveOK, MadeOK, ClosingOK
<1>4. OwnersOK
  BY DEF OwnersOK, Places
<1>5. TailOK
  BY <1>2 DEF TailOK, IsInjective, ToSet, Waiting, Turning
<1>6. CallsOK /\ PlaysOK
  BY <1>2 DEF CallsOK, PlaysOK, Waiting, Callers
<1>7. Apart
  BY <1>1, <1>2 DEF Apart, Turning
<1>8. PromptAnswerIsOwn
  BY <1>2 DEF PromptAnswerIsOwn, decided
<1> QED BY <1>3, <1>4, <1>5, <1>6, <1>7, <1>8 DEF Inv

LEMMA NextInv ==
    ASSUME Inv, [Next]_vars
    PROVE  Inv'
<1>1. ASSUME NEW p \in Owners, DisposeEnds(p) PROVE Inv'
  BY <1>1, StepDisposeEnds
<1>2. ASSUME NEW m \in Locals,
             StartLocal(m) \/ CreateA(m) \/ CreateB(m) \/ Ask(m) \/ Apply(m) \/ EndLocal(m)
      PROVE  Inv'
  BY <1>2, StepStartLocal, StepCreateA, StepCreateB, StepAsk, StepApply, StepEndLocal
<1>3. ASSUME NEW r \in Rooms, OpenRoom(r) \/ BindRoom(r) PROVE Inv'
  BY <1>3, StepOpenRoom, StepBindRoom
<1>4. CASE CancelLocal
  BY <1>4, StepCancelLocal
<1>5. ASSUME NEW c \in Callers, Begin(c) \/ TurnEnds(c) \/ TimesOut(c) PROVE Inv'
  BY <1>5, StepBegin, StepTurnEnds, StepTimesOut
<1>6. ASSUME NEW h \in Handles, Speak(h) PROVE Inv'
  BY <1>6, StepSpeak
<1>7. ASSUME NEW q \in Requests, PlayAction(q) PROVE Inv'
  BY <1>7, StepPlayAction
<1>8. CASE UNCHANGED vars
  <2>1. UNCHANGED <<live, agents, tail, call, pc, closing, signal, bound>>
    BY <1>8 DEF vars
  <2>2. Works
    BY <2>1 DEF Inv, AgentsOK, Works
  <2>3. Apart'
    BY <2>1, StillIsHost, HostKeepsApart DEF Turning
  <2> QED BY <2>1, <2>2, <2>3, CallsAlone, WorkInv
<1> QED BY <1>1, <1>2, <1>3, <1>4, <1>5, <1>6, <1>7, <1>8 DEF Next

\* What the runner keeps of its contestants and decisions in every reachable
\* state, for any number of matches, rooms and requests.
THEOREM RunnerInvariant == Spec => []Inv
BY InitInv, NextInv, PTL DEF Spec

\* However decisions queue, agents linger and contestants are disposed of: the
\* runner stays consistent, and a decision answers its own prompt unless its
\* agent was late before.
THEOREM PromptsStayApart == Spec => []PromptsKeepApart
<1>1. Inv => TypeOK
  BY DEF Inv, AgentsOK, LiveOK, ClosingOK, OwnersOK, TailOK, CallsOK, CallState,
         AgentState, Said, Places, Waiting, Turning, TypeOK
<1>2. Inv => PromptsKeepApart
  BY <1>1 DEF Inv, PromptsKeepApart
<1> QED BY <1>2, RunnerInvariant, PTL
===============================================================================
