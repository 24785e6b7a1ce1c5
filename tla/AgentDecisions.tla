--------------------------- MODULE AgentDecisions ---------------------------
(***************************************************************************)
(* How a plugin gets decisions out of its agents: ArenaAgentRunner         *)
(* (plugin/src/host/agent-runner.ts) with the two that ask it, the local   *)
(* match (local-match.ts, startLocal and cancelLocal of runtime.ts) and    *)
(* the online match (playAction of connection.ts).                         *)
(*                                                                         *)
(* One runner serves them all.  It keeps the live contestant of each key   *)
(* and a promise, tail, on which decisions queue: one decision has its     *)
(* turn at a time, whoever asked.  A decision is a prompt and, when the    *)
(* text that came back is no legal decision, a second prompt within the    *)
(* same 60 seconds; after that it is a check or a fold by fault.           *)
(*                                                                         *)
(* The agents are the host's (external): an agent takes its prompts in     *)
(* order, may take for ever over one, and is idle when it owes nothing.    *)
(* cancel ends what it is doing; a prompt to a disposed agent throws or    *)
(* is lost.  A text is what the runner tells apart: no JSON, a decision    *)
(* assertLegal refuses, a legal one, or a raise above maxRaiseTo, which    *)
(* assertLegal lets pass and the engine refuses.  Of the texts a turn has  *)
(* to read, the model keeps the JSON, and no more than two of it: two are  *)
(* as unreadable as three.                                                 *)
(***************************************************************************)
EXTENDS Naturals, Sequences, SequencesExt

CONSTANTS
    Locals,     \* the local matches the user starts
    Rooms,      \* the rooms the user creates or joins
    Requests,   \* the match.action_request frames of the server
    MaxAsks,    \* bound of the model: decisions of one local match
    NoHandle

ASSUME AsksAssumption == MaxAsks \in Nat \ {0}

Keys == {"A", "B", "online"}
Seats == {"A", "B"}

(* A contestant is known by who created it and under which key. *)
Handles == (Locals \X Seats) \cup (Rooms \X {"online"})
Callers == Locals \cup Requests
Owners == Locals \cup Rooms \cup {"user"}

ASSUME NamesAssumption ==
    /\ Locals \cap Rooms = {} /\ Locals \cap Requests = {}
    /\ "user" \notin Locals \cup Rooms
    /\ NoHandle \notin Handles

Texts == {"prose", "illegal", "fit", "over"}
Prompts == Callers \X (0 .. MaxAsks)

VARIABLES
    live,       \* runner.live
    agents,     \* the agents of the host, with what the running turn has to read
    tail,       \* runner.tail: the decisions queued, the running one first
    call,       \* the decision each caller waits for
    pc,         \* where each local match, createRoom or cancelLocal stands
    closing,    \* the handles a dispose() is waiting for
    signal,     \* the local matches whose AbortController has aborted
    bound       \* connection.runner is set

vars == <<live, agents, tail, call, pc, closing, signal, bound>>

NoAgent == [up |-> "none", owed |-> <<>>, texts |-> <<>>, late |-> FALSE]
NotYet == [kind |-> "none", own |-> TRUE, late |-> FALSE]
NoCall == [state |-> "none", handle |-> NoHandle, no |-> 0, expired |-> FALSE, got |-> NotYet]

TypeOK ==
    /\ live \in [Keys -> Handles \cup {NoHandle}]
    /\ \A k \in Keys : live[k] # NoHandle => live[k][2] = k /\ agents[live[k]].up = "up"
    /\ agents \in [Handles -> [up : {"none", "up", "stopping", "gone"}, owed : Seq(Prompts),
                               texts : Seq([of : Prompts, kind : Texts]), late : BOOLEAN]]
    /\ tail \in Seq(Callers) /\ IsInjective(tail)
    /\ \A c \in Callers :
          /\ call[c].state \in {"none", "queued", "first", "repair", "back"}
          /\ call[c].state \in {"queued", "first", "repair"} <=> c \in ToSet(tail)
          /\ call[c].state \in {"first", "repair"} => c = Head(tail)
          /\ call[c].state # "none" => call[c].handle \in Handles \cup {NoHandle}
    /\ pc \in [Owners -> {"idle", "freeA", "makeA", "freeB", "makeB", "playing", "asking",
                          "free", "make", "closing", "over"}]
    /\ closing \in [Owners -> SUBSET Handles]
    /\ signal \subseteq Locals
    /\ bound \in BOOLEAN

Init ==
    /\ live = [k \in Keys |-> NoHandle]
    /\ agents = [h \in Handles |-> NoAgent]
    /\ tail = <<>>
    /\ call = [c \in Callers |-> NoCall]
    /\ pc = [p \in Owners |-> "idle"]
    /\ closing = [p \in Owners |-> {}]
    /\ signal = {}
    /\ bound = FALSE

-----------------------------------------------------------------------------
(* dispose and createContestant. *)

cancelled_not(a) == a
cancelled(a) == [a EXCEPT !.up = "stopping", !.owed = <<>>]

handlesOf_all(keys) == {live[k] : k \in Keys} \ {NoHandle}
handlesOf(keys) == {live[k] : k \in keys} \ {NoHandle}

(* dispose(keys) up to its first await: the keys are free, the agents told to stop. *)
dispose(p, keys) ==
    /\ live' = [k \in Keys |-> IF k \in keys THEN NoHandle ELSE live[k]]
    /\ agents' = [h \in Handles |-> IF h \in handlesOf(keys) THEN cancelled(agents[h]) ELSE agents[h]]
    /\ closing' = [closing EXCEPT ![p] = handlesOf(keys)]

(* where the owner of a dispose goes on *)
afterDispose == [freeA |-> "makeA", freeB |-> "makeB", free |-> "make", closing |-> "over"]

(* ... and after whenIdle: dispose() of the host. *)
DisposeEnds(p) ==
    /\ pc[p] \in DOMAIN afterDispose
    /\ \A h \in closing[p] : agents[h].up = "stopping" \/ agents[h].owed = <<>>
    /\ agents' = [h \in Handles |->
                    IF h \in closing[p] THEN [agents[h] EXCEPT !.up = "gone", !.owed = <<>>] ELSE agents[h]]
    /\ closing' = [closing EXCEPT ![p] = {}]
    /\ pc' = [pc EXCEPT ![p] = IF p = "user" THEN "idle" ELSE afterDispose[pc[p]]]
    /\ UNCHANGED <<live, tail, call, signal, bound>>

(* agents.create has answered: the handle goes into live, whoever is there by now. *)
created(p, k) == [agents EXCEPT ![<<p, k>>].up = "up"]

CreateA(m) ==
    /\ pc[m] = "makeA"
    /\ live' = [live EXCEPT !["A"] = <<m, "A">>, !["B"] = NoHandle]
    /\ agents' = [h \in Handles |-> IF h \in handlesOf({"B"}) THEN cancelled(created(m, "A")[h])
                                    ELSE created(m, "A")[h]]
    /\ closing' = [closing EXCEPT ![m] = handlesOf({"B"})]
    /\ pc' = [pc EXCEPT ![m] = "freeB"]
    /\ UNCHANGED <<tail, call, signal, bound>>

CreateB(m) ==
    /\ pc[m] = "makeB"
    /\ live' = [live EXCEPT !["B"] = <<m, "B">>]
    /\ agents' = created(m, "B")
    /\ pc' = [pc EXCEPT ![m] = "playing"]
    /\ UNCHANGED <<tail, call, closing, signal, bound>>

(* createRoom and joinRoom give the online match a new contestant ... *)
OpenRoom(r) ==
    /\ pc[r] = "idle"
    /\ dispose(r, {"online"})
    /\ pc' = [pc EXCEPT ![r] = "free"]
    /\ UNCHANGED <<tail, call, signal, bound>>

(* ... which bindContestant names. *)
BindRoom(r) ==
    /\ pc[r] = "make"
    /\ live' = [live EXCEPT !["online"] = <<r, "online">>]
    /\ agents' = created(r, "online")
    /\ bound' = TRUE
    /\ pc' = [pc EXCEPT ![r] = "over"]
    /\ UNCHANGED <<tail, call, closing, signal>>

-----------------------------------------------------------------------------
(* decide: a decision in the queue, and its two turns. *)

mayRun_any(c) == c \in ToSet(tail)
mayRun(c) == tail # <<>> /\ c = Head(tail)

promptOf(c) == <<c, call[c].no>>

(* decide() of caller c on key k: no contestant, no decision *)
decide(c, k) ==
    IF live[k] = NoHandle
    THEN /\ call' = [call EXCEPT ![c] = [@ EXCEPT !.state = "back",
                                                  !.got = [kind |-> "rejected", own |-> TRUE, late |-> FALSE]]]
         /\ UNCHANGED tail
    ELSE /\ call' = [call EXCEPT ![c] = [state |-> "queued", handle |-> live[k], no |-> @.no + 1,
                                         expired |-> FALSE, got |-> NotYet]]
         /\ tail' = Append(tail, c)

(* The decision is settled, and the next in the queue may start. *)
settle(c, kind, own) ==
    /\ call' = [call EXCEPT ![c] = [NoCall EXCEPT
                    !.state = "back", !.no = call[c].no,
                    !.got = [kind |-> kind, own |-> own, late |-> agents[call[c].handle].late]]]
    /\ tail' = Tail(tail)

(* No turn reads these texts any more. *)
unread(c, as) == [as EXCEPT ![call[c].handle].texts = <<>>]

(* The head of turn(): lastSeq, then the followup; texts before it are never read again. *)
prompted(c) ==
    [agents EXCEPT ![call[c].handle].texts = <<>>,
                   ![call[c].handle].owed = IF agents[call[c].handle].up = "gone" THEN @
                                            ELSE Append(@, promptOf(c))]

(* turn() begins; the followup is outside its try *)
turn(c, which, expired, as) ==
    \/ /\ agents' = [as EXCEPT ![call[c].handle] = prompted(c)[call[c].handle],
                               ![call[c].handle].late = as[call[c].handle].late]
       /\ call' = [call EXCEPT ![c].state = which, ![c].expired = expired]
       /\ UNCHANGED tail
    \/ /\ agents[call[c].handle].up = "gone"
       /\ settle(c, "rejected", TRUE)
       /\ agents' = as

Begin(c) ==
    /\ call[c].state = "queued"
    /\ mayRun(c)
    /\ turn(c, "first", FALSE, agents)
    /\ UNCHANGED <<live, pc, closing, signal, bound>>

(* What extractDecision and assertLegal make of the texts since the prompt: *)
(* the braces of two answers are no JSON, and the answer to another prompt  *)
(* is a decision like any other.                                            *)
decisionsIn(c) ==
    LET json == agents[call[c].handle].texts
    IN  IF Len(json) # 1 THEN {[kind |-> "illegal", own |-> TRUE]}
        ELSE IF json[1].of = promptOf(c) THEN {[kind |-> json[1].kind, own |-> TRUE]}
        ELSE {[kind |-> k, own |-> FALSE] : k \in {"illegal", "fit", "over"}}

(* The agent is idle in time: its decision, a second turn, or a fault. *)
TurnEnds(c) ==
    /\ call[c].state \in {"first", "repair"}
    /\ agents[call[c].handle].owed = <<>>
    /\ \E d \in decisionsIn(c) :
          \/ /\ d.kind # "illegal"
             /\ settle(c, d.kind, d.own)
             /\ agents' = unread(c, agents)
          \/ /\ d.kind = "illegal" /\ call[c].state = "first"
             /\ turn(c, "repair", call[c].expired, agents)
          \/ /\ d.kind = "illegal" /\ call[c].state = "repair"
             /\ settle(c, "fault", TRUE)
             /\ agents' = unread(c, agents)
    /\ UNCHANGED <<live, pc, closing, signal, bound>>

(* The 60 seconds of the decision are over, the agent still at work.  The  *)
(* second prompt is sent even so, with no time left for it.                *)
late(h) == [agents EXCEPT ![h].late = TRUE]

mayTimeOut_once(c) == call[c].state = "first"
mayTimeOut(c) == call[c].state \in {"first", "repair"}

TimesOut(c) ==
    /\ mayTimeOut(c)
    /\ agents[call[c].handle].owed # <<>>
    /\ \/ /\ call[c].state = "first"
          /\ turn(c, "repair", TRUE, late(call[c].handle))
       \/ /\ call[c].state = "repair"
          /\ settle(c, "fault", TRUE)
          /\ agents' = unread(c, late(call[c].handle))
    /\ UNCHANGED <<live, pc, closing, signal, bound>>

(* The agent has finished its oldest prompt.  A repair with no time left   *)
(* is over before any text of it.                                          *)
beingRead(h) == \E c \in Callers : call[c].state \in {"first", "repair"} /\ call[c].handle = h

Speak(h) ==
    /\ agents[h].owed # <<>>
    /\ \E k \in Texts :
          agents' = [agents EXCEPT ![h].owed = Tail(@),
                                   ![h].texts = IF k = "prose" \/ Len(@) = 2 \/ ~beingRead(h) THEN @
                                                ELSE Append(@, [of |-> Head(agents[h].owed), kind |-> k])]
    /\ ~\E c \in Callers : call[c].state = "repair" /\ call[c].expired /\ call[c].handle = h
    /\ UNCHANGED <<live, tail, call, pc, closing, signal, bound>>

-----------------------------------------------------------------------------
(* The local match. *)

(* startLocal: the match before is aborted, its seats are cleared. *)
StartLocal(m) ==
    /\ pc[m] = "idle"
    /\ signal' = {n \in Locals : pc[n] # "idle"}
    /\ dispose(m, {"A"})
    /\ pc' = [pc EXCEPT ![m] = "freeA"]
    /\ UNCHANGED <<tail, call, bound>>

(* cancelLocal *)
CancelLocal ==
    /\ pc["user"] = "idle"
    /\ signal' = {n \in Locals : pc[n] # "idle"}
    /\ dispose("user", Keys)
    /\ pc' = [pc EXCEPT !["user"] = "closing"]
    /\ UNCHANGED <<tail, call, bound>>

(* The loop of runLocalMatch: the seat to act is asked for a decision ... *)
Ask(m) ==
    /\ pc[m] = "playing" /\ m \notin signal
    /\ call[m].no < MaxAsks
    /\ \E s \in Seats : decide(m, s)
    /\ pc' = [pc EXCEPT ![m] = "asking"]
    /\ UNCHANGED <<live, agents, closing, signal, bound>>

(* ... which the engine takes; a raise beyond the stack throws ... *)
Apply(m) ==
    /\ pc[m] = "asking" /\ call[m].state = "back"
    /\ call[m].got.kind \in {"fit", "fault"}
    /\ pc' = [pc EXCEPT ![m] = "playing"]
    /\ call' = [call EXCEPT ![m] = [NoCall EXCEPT !.no = call[m].no]]
    /\ UNCHANGED <<live, agents, tail, closing, signal, bound>>

(* ... and at the end, by abort, verdict or throw, every contestant goes.  *)
finished(m) ==
    \/ pc[m] = "playing"
    \/ pc[m] = "asking" /\ call[m].state = "back" /\ call[m].got.kind \in {"over", "rejected"}

EndLocal(m) ==
    /\ finished(m)
    /\ dispose(m, Keys)
    /\ pc' = [pc EXCEPT ![m] = "closing"]
    /\ call' = [call EXCEPT ![m] = [NoCall EXCEPT !.no = call[m].no]]
    /\ UNCHANGED <<tail, signal, bound>>

-----------------------------------------------------------------------------
(* match.action_request: playAction sends what decide returns, and a fold when it throws. *)
PlayAction(q) ==
    /\ bound
    /\ call[q].state = "none"
    /\ decide(q, "online")
    /\ UNCHANGED <<live, agents, pc, closing, signal, bound>>

Next ==
    \/ \E p \in Owners : DisposeEnds(p)
    \/ \E m \in Locals : StartLocal(m) \/ CreateA(m) \/ CreateB(m) \/ Ask(m) \/ Apply(m) \/ EndLocal(m)
    \/ \E r \in Rooms : OpenRoom(r) \/ BindRoom(r)
    \/ CancelLocal
    \/ \E c \in Callers : Begin(c) \/ TurnEnds(c) \/ TimesOut(c)
    \/ \E h \in Handles : Speak(h)
    \/ \E q \in Requests : PlayAction(q)

Spec == Init /\ [][Next]_vars

(* The runner's own steps and its timers run.  Of the host, which is not    *)
(* part of the repository, it is assumed that agents.create answers and     *)
(* that, after cancel, whenIdle and dispose of a handle come back, for      *)
(* which the runner has no timer (agent-runner.ts 109-111).  Nothing makes  *)
(* an agent answer a prompt, nor a user act.                                *)
Fairness ==
    /\ \A p \in Owners : WF_vars(DisposeEnds(p))
    /\ \A m \in Locals : WF_vars(CreateA(m) \/ CreateB(m) \/ Apply(m) \/ EndLocal(m))
    /\ \A r \in Rooms : WF_vars(BindRoom(r))
    /\ \A c \in Callers : WF_vars(Begin(c)) /\ WF_vars(TurnEnds(c) \/ TimesOut(c))

FairSpec == Spec /\ Fairness

-----------------------------------------------------------------------------
(* Properties. *)

decided(c) == call[c].got.kind \in {"fit", "over"}

(* A decision is the agent's answer to the prompt of that decision, as long *)
(* as the agent has kept to its time: the queue keeps the prompts of two    *)
(* matches, and of two requests of one match, out of each other's texts     *)
(* (serialize, lastSeq and collectText).                                    *)
PromptAnswerIsOwn == \A c \in Callers : decided(c) => call[c].got.own \/ call[c].got.late

(* Decisions queue, agents answer in time, late or never, and handles are   *)
(* disposed of under way: what the runner keeps of them stays consistent,   *)
(* and a decision is the answer to its own prompt unless the agent was late *)
(* before (agent-runner.ts 77-133, 136-154).                                *)
PromptsKeepApart == TypeOK /\ PromptAnswerIsOwn

(* The same of every agent: a decision is made on the cards it was asked    *)
(* about.  An answer to a prompt that timed out falls into the interval of  *)
(* the next decision and is taken for its own.                              *)
AnswerIsOwn == \A c \in Callers : decided(c) => call[c].got.own

(* Whatever the runner accepts as a legal decision, the engine accepts: an  *)
(* illegal output is repaired or folded.  assertLegal has no upper bound.   *)
AcceptedIsLegal == \A c \in Callers : call[c].got.kind # "over"

(* A local match leaves the contestant of the online match alone. *)
LocalLeavesOnline ==
    [][\A m \in Locals : pc'[m] # pc[m] => live'["online"] = live["online"]]_vars

(* Every decision asked for comes back, although agents may hang in any     *)
(* prompt, decisions of another match wait in the same queue, and           *)
(* contestants are disposed under a running turn.                           *)
DecisionsReturn ==
    \A c \in Callers : (call[c].state = "queued") ~> (call[c].state \in {"back", "none"})

(* An aborted local match, in whatever await the abort finds it, ends, if   *)
(* the host comes back from every dispose it is asked for.                  *)
AbortedEnds == \A m \in Locals : (m \in signal) ~> (pc[m] = "over")

=============================================================================
