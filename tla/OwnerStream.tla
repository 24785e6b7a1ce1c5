----------------------------- MODULE OwnerStream -----------------------------
(***************************************************************************)
(* The calls of a grant whose owner runs in the same process: the          *)
(* generator streamGrantThroughOwner (plugin/src/host/grant-relay.ts), as  *)
(* streamGrant of the runtime drives it (runtime.ts), on a ledger that is  *)
(* the RelayController of the server (server/src/relay.ts).                *)
(*                                                                         *)
(* A generator runs from one await or yield to the next, which is an       *)
(* action; in between other calls run, the host aborts its signal or the   *)
(* ledger fails.  A host that stops reading closes the generator, as       *)
(* `for await` does.  A call of the ledger is atomic here: how its queries *)
(* interleave is GrantRelay's subject.  A refusal before reserve (limits,  *)
(* an inactive grant in the snapshot) changes nothing and is no action.    *)
(*                                                                         *)
(* An operator X_y is X with one plausible mistake, y; no action uses it.  *)
(***************************************************************************)
EXTENDS Integers, FiniteSets

CONSTANTS
    Calls,      \* inferences, each a run of the generator
    MaxCalls,   \* callsRemaining of a new grant
    MaxChunks,  \* bound of the model: chunks of an answer
    MaxFaults   \* bound of the model: calls of the ledger that throw

CallsAssumption ==
    /\ MaxCalls \in Nat \ {0}
    /\ MaxChunks \in Nat /\ MaxFaults \in Nat

VARIABLES
    grant,      \* its row
    inference,  \* the row of each call
    stream,     \* the generator of each call, and what it will record
    signal,     \* the calls whose host has aborted
    answer,     \* the owner's model: chunks it gave, and whether it ended
    read,       \* history: chunks the host has read
    left,       \* history: the hosts that stopped reading
    faults

vars == <<grant, inference, stream, signal, answer, read, left, faults>>
world == <<signal, answer, read, left>>

NoRow == [status |-> "none", deducted |-> FALSE, finished |-> FALSE]
TerminalStatus == {"completed", "cancelled", "provider_error", "aborted"}
Inference == [status : {"none", "reserved", "preflight", "started"} \cup TerminalStatus,
              deducted : BOOLEAN, finished : BOOLEAN]

(* "at" is the await or yield the generator is suspended at, terminal the   *)
(* variable of that name.                                                   *)
Awaits == {"not open", "reserve", "preflight", "start", "provider", "yield",
           "terminal", "ended"}
Stream == [at : Awaits, terminal : TerminalStatus]

\* The counters of the grant stay in their range, and agree with its status.
TypeOK ==
    /\ grant \in [calls : 0..MaxCalls, active : 0..1, status : {"active", "exhausted"}]
    /\ grant.status = "exhausted" <=> grant.calls = 0
    /\ inference \in [Calls -> Inference]
    /\ stream \in [Calls -> Stream]
    /\ signal \subseteq Calls
    /\ answer \in [Calls -> [chunks : 0..MaxChunks, end : {"open", "stop", "error"}]]
    /\ read \in [Calls -> Nat]
    /\ \A c \in Calls : read[c] <= answer[c].chunks
    /\ left \subseteq Calls
    /\ faults \in 0..MaxFaults

Init ==
    /\ grant = [calls |-> MaxCalls, active |-> 0, status |-> "active"]
    /\ inference = [c \in Calls |-> NoRow]
    /\ stream = [c \in Calls |-> [at |-> "not open", terminal |-> "completed"]]
    /\ signal = {}
    /\ answer = [c \in Calls |-> [chunks |-> 0, end |-> "open"]]
    /\ read = [c \in Calls |-> 0]
    /\ left = {}
    /\ faults = 0

goto(c, at) == stream' = [stream EXCEPT ![c].at = at]
finally(c, status) == stream' = [stream EXCEPT ![c] = [at |-> "terminal", terminal |-> status]]

------------------------------------------------------------------------------
(* The ledger                                                              *)

(* reserve asks the row, not the slot.                                      *)
mayReserve == grant.status = "active" /\ grant.calls > 0

mayStart_notAskedForSlot == grant.calls > 0

mayStart == grant.calls > 0 /\ grant.active = 0

deducted_keepsStatus(g) == [g EXCEPT !.calls = @ - 1, !.active = 1]

deducted(g) ==
    [g EXCEPT !.calls = @ - 1, !.active = 1,
              !.status = IF g.calls = 1 THEN "exhausted" ELSE @]

(* deductIfStarted                                                          *)
startLedger(c) ==
    /\ grant' = deducted(grant)
    /\ inference' = [inference EXCEPT ![c].status = "started", ![c].deducted = TRUE]

terminalLedger(c, status) ==
    /\ inference' = [inference EXCEPT ![c].status = status, ![c].finished = TRUE]
    /\ grant' = IF inference[c].deducted THEN [grant EXCEPT !.active = 0] ELSE grant

------------------------------------------------------------------------------
(* streamGrantThroughOwner                                                 *)

Open(c) ==
    /\ stream[c].at = "not open"
    /\ goto(c, "reserve")
    /\ UNCHANGED <<grant, inference, world, faults>>

(* The owner bound to the runtime may not be the owner of the grant, and    *)
(* the box may not open: the generator throws with the row reserved.        *)
Reserve(c, ownersMatch) ==
    /\ stream[c].at = "reserve"
    /\ mayReserve
    /\ inference' = [inference EXCEPT ![c].status = "reserved"]
    /\ goto(c, IF ownersMatch THEN "preflight" ELSE "ended")
    /\ UNCHANGED <<grant, world, faults>>

Preflight(c) ==
    /\ stream[c].at = "preflight"
    /\ inference' = [inference EXCEPT ![c].status = "preflight"]
    /\ goto(c, "start")
    /\ UNCHANGED <<grant, world, faults>>

(* The first thing done once started is to look at the signal.              *)
Start(c) ==
    /\ stream[c].at = "start"
    /\ mayStart
    /\ startLedger(c)
    /\ IF c \in signal THEN finally(c, "aborted") ELSE goto(c, "provider")
    /\ UNCHANGED <<world, faults>>

(* GRANT_EXHAUSTED or OWNER_OFFLINE, GRANT_EXHAUSTED or CONCURRENCY: thrown *)
(* before the try.                                                          *)
Refused(c) ==
    /\ \/ stream[c].at = "reserve"
       \/ stream[c].at = "start" /\ ~ mayStart
    /\ goto(c, "ended")
    /\ UNCHANGED <<grant, inference, world, faults>>

afterChunk_ignoresSignal(c) == goto(c, "yield")

afterChunk(c) == IF c \in signal THEN finally(c, "cancelled") ELSE goto(c, "yield")

Chunk(c) ==
    /\ stream[c].at = "provider"
    /\ answer[c].end = "open" /\ answer[c].chunks < MaxChunks
    /\ answer' = [answer EXCEPT ![c].chunks = @ + 1]
    /\ afterChunk(c)
    /\ UNCHANGED <<grant, inference, signal, read, left, faults>>

terminalOf_keepsDefault(c, end) == IF c \in signal THEN "aborted" ELSE "completed"

terminalOf(c, end) ==
    CASE end = "stop"  -> IF c \in signal THEN "cancelled" ELSE "completed"
      [] end = "error" -> IF c \in signal THEN "aborted" ELSE "provider_error"

(* The answer ends, or the model throws, of itself or at the signal.        *)
AnswerEnds(c, end) ==
    /\ stream[c].at = "provider"
    /\ answer' = [answer EXCEPT ![c].end = end]
    /\ finally(c, terminalOf(c, end))
    /\ UNCHANGED <<grant, inference, signal, read, left, faults>>

(* The host takes the chunk and asks for the next.                          *)
Read(c) ==
    /\ stream[c].at = "yield"
    /\ read' = [read EXCEPT ![c] = @ + 1]
    /\ goto(c, "provider")
    /\ UNCHANGED <<grant, inference, signal, answer, left, faults>>

closed_withoutFinally(c) == goto(c, "ended")

closed(c) == finally(c, stream[c].terminal)

(* The host takes the chunk and leaves its loop.                            *)
Leave(c) ==
    /\ stream[c].at = "yield"
    /\ read' = [read EXCEPT ![c] = @ + 1]
    /\ left' = left \cup {c}
    /\ closed(c)
    /\ UNCHANGED <<grant, inference, signal, answer, faults>>

Terminal(c) ==
    /\ stream[c].at = "terminal"
    /\ terminalLedger(c, stream[c].terminal)
    /\ goto(c, "ended")
    /\ UNCHANGED <<world, faults>>

Abort(c) ==
    /\ stream[c].at # "ended"
    /\ signal' = signal \cup {c}
    /\ UNCHANGED <<grant, inference, stream, answer, read, left, faults>>

(* A call of the ledger throws before it changed a row.  terminal() is      *)
(* assumed to answer: nothing repeats it, and a slot it did not give back   *)
(* would stay taken.                                                        *)
LedgerFails(c) ==
    /\ stream[c].at \in {"reserve", "preflight", "start"}
    /\ faults < MaxFaults
    /\ faults' = faults + 1
    /\ goto(c, "ended")
    /\ UNCHANGED <<grant, inference, world>>

Runs(c) ==
    \/ Reserve(c, TRUE) \/ Reserve(c, FALSE) \/ Preflight(c) \/ Start(c) \/ Refused(c)
    \/ Chunk(c) \/ AnswerEnds(c, "stop") \/ AnswerEnds(c, "error")
    \/ Read(c) \/ Leave(c) \/ Terminal(c)

Next == \E c \in Calls : Open(c) \/ Runs(c) \/ Abort(c) \/ LedgerFails(c)

Spec == Init /\ [][Next]_vars

(* A generator that was opened is run on: the ledger and the model of the   *)
(* owner answer, and a host reads its stream or closes it.                  *)
Fairness == \A c \in Calls : WF_vars(Runs(c))

FairSpec == Spec /\ Fairness

------------------------------------------------------------------------------

holdsSlot(c) == inference[c].deducted /\ ~ inference[c].finished

\* The slot of the grant is held by the one call that was charged and has not
\* ended, and every call that was charged is missing from the grant: no call of
\* the grant is answered beside another, or for nothing (relay.ts 48-65).
ChargedAndAlone ==
    /\ grant.calls + Cardinality({c \in Calls : inference[c].deducted}) = MaxCalls
    /\ grant.active = Cardinality({c \in Calls : holdsSlot(c)})
    /\ \A c \in Calls : read[c] > 0 => inference[c].deducted

\* However a stream ends - read to its end, aborted, failed by the model or
\* closed by its host - a charged call does not outlive its generator with the
\* slot of the grant (grant-relay.ts 154-187).
SlotEndsWithStream ==
    \A c \in Calls : holdsSlot(c) => stream[c].at \in {"provider", "yield", "terminal"}

\* What the ledger records of a call is how it went: a call is completed only
\* if its host read the whole answer or left of itself, and blamed on its host
\* or on the owner's model only if that is whose doing it was (153-185).
RecordTellsTheEnd ==
    \A c \in Calls :
        /\ inference[c].status = "completed" =>
             \/ c \in left
             \/ answer[c].end = "stop" /\ read[c] = answer[c].chunks
        /\ inference[c].status \in {"cancelled", "aborted"} => c \in signal
        /\ inference[c].status = "provider_error" => answer[c].end = "error"

\* An aborted host is handed nothing more than the chunk it was being handed
\* (155-158, 162-165).
NothingAfterAbort ==
    [][ \A c \in Calls : c \in signal /\ stream[c].at = "provider"
                           => stream'[c].at # "yield" ]_vars

\* A charged call ends, and gives the slot back.
SlotIsGivenBack == \A c \in Calls : holdsSlot(c) ~> ~ holdsSlot(c)
==============================================================================
