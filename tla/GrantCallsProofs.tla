--------------------------- MODULE GrantCallsProofs ---------------------------
(***************************************************************************)
(* Proofs about two sides of the calls of a grant, as MCGrantCalls puts    *)
(* them together.                                                          *)
(*                                                                         *)
(* Where the owner runs in the same process (OwnerStream), for any number  *)
(* of calls, chunks and faults and any budget of the grant: the invariant  *)
(* says of each await of the generator what it knows there.  Before        *)
(* `start` the row is not charged, in the loop it is and the host is       *)
(* behind by at most the chunk it is being handed, and after the loop the  *)
(* status the generator will record is how the call went.  So the calls    *)
(* that hold the slot are those between `start` and `terminal`, and        *)
(* `start` is refused while there is one.                                  *)
(*                                                                         *)
(* Where the owner is another plugin (RelayStream), for any number of      *)
(* calls, streams, chunks, faults and sockets that close, and any          *)
(* overtaking: of each call, the chunks its host was given, the one its    *)
(* stream holds and those in the backlog stand in that order among those   *)
(* that came.  A chunk is on its way once or came once, so none comes      *)
(* twice.  While `serial` one stream is live and it alone waits, so all    *)
(* that came for it is in one of the three places, and what it is handed   *)
(* next is the first of them.                                              *)
(***************************************************************************)
EXTENDS MCGrantCalls, FiniteSetTheorems, SequenceTheorems, TLAPS

Untouched == {"not open", "reserve", "preflight", "start"}

(* What a status says of a call.                                            *)
WentAs(c, status) ==
    /\ status = "completed" =>
         \/ c \in left
         \/ answer[c].end = "stop" /\ read[c] = answer[c].chunks
    /\ status \in {"cancelled", "aborted"} => c \in signal
    /\ status = "provider_error" => answer[c].end = "error"

(* The generator has not come to `start`, ...                               *)
NotCharged(c) ==
    /\ call[c].status \notin Owner!TerminalStatus
    /\ ~ call[c].deducted /\ ~ call[c].finished
    /\ generator[c].terminal = "completed"
    /\ answer[c].chunks = 0 /\ answer[c].end = "open"
    /\ c \notin left

(* ... is in its loop, its host behind by `behind` chunks, ...              *)
InLoop(c, behind) ==
    /\ call[c].status = "started" /\ call[c].deducted /\ ~ call[c].finished
    /\ generator[c].terminal = "completed"
    /\ answer[c].end = "open" /\ answer[c].chunks = read[c] + behind
    /\ c \notin left

(* ... has left it, ...                                                     *)
AfterLoop(c) ==
    /\ call[c].status = "started" /\ call[c].deducted /\ ~ call[c].finished
    /\ WentAs(c, generator[c].terminal)

(* ... or has ended, if it was charged with its row finished.               *)
Recorded(c) ==
    /\ call[c].deducted => call[c].finished
    /\ read[c] > 0 => call[c].deducted
    /\ WentAs(c, call[c].status)

Stage(c) ==
    /\ generator[c].at \in Untouched => NotCharged(c)
    /\ generator[c].at = "provider" => InLoop(c, 0)
    /\ generator[c].at = "yield" => InLoop(c, 1)
    /\ generator[c].at = "terminal" => AfterLoop(c)
    /\ generator[c].at = "ended" => Recorded(c)

Stages == \A c \in OwnCalls : Stage(c)

Deducted == {c \in OwnCalls : call[c].deducted}
Holders == {c \in OwnCalls : Owner!holdsSlot(c)}

Counted ==
    /\ IsFiniteSet(Deducted)
    /\ account.calls + Cardinality(Deducted) = CallsOfGrant
    /\ account.active = Cardinality(Holders)

OwnerInv == Owner!TypeOK /\ Stages /\ Counted

-----------------------------------------------------------------------------

LEMMA SameCardinality == \A S : Owner!Cardinality(S) = Cardinality(S)
  BY DEF Owner!Cardinality, Cardinality

LEMMA FieldsOfRow ==
    /\ Owner!NoRow.status = "none"
    /\ Owner!NoRow.deducted = FALSE
    /\ Owner!NoRow.finished = FALSE
    /\ Owner!NoRow \in Owner!Inference
  BY DEF Owner!NoRow, Owner!Inference

(* What the types say of one call.                                          *)
LEMMA TypesOfCall ==
    ASSUME Owner!TypeOK, NEW c \in OwnCalls
    PROVE  /\ call[c] \in Owner!Inference
           /\ call[c].deducted \in BOOLEAN /\ call[c].finished \in BOOLEAN
           /\ generator[c] \in Owner!Stream
           /\ generator[c].at \in Owner!Awaits
           /\ generator[c].terminal \in Owner!TerminalStatus
           /\ answer[c].chunks \in 0..OwnChunks
           /\ answer[c].end \in {"open", "stop", "error"}
           /\ read[c] \in Nat /\ read[c] <= answer[c].chunks
  BY DEF Owner!TypeOK, Owner!Inference, Owner!Stream

LEMMA OwnerBegins == Owner!Init => OwnerInv
<1> SUFFICES ASSUME Owner!Init PROVE OwnerInv
  OBVIOUS
<1>a. CallsOfGrant \in Nat \ {0} /\ OwnChunks \in Nat /\ OwnFaults \in Nat
  BY OwnerConstants DEF Owner!CallsAssumption
<1>b. account = [calls |-> CallsOfGrant, active |-> 0, status |-> "active"]
  BY DEF Owner!Init
<1>1. Owner!TypeOK
  <2>1. [at |-> "not open", terminal |-> "completed"] \in Owner!Stream
    BY DEF Owner!Stream, Owner!Awaits, Owner!TerminalStatus
  <2>2. account \in [calls : 0..CallsOfGrant, active : 0..1, status : {"active", "exhausted"}]
    BY <1>a, <1>b
  <2>3. account.status # "exhausted" /\ account.calls # 0
    BY <1>a, <1>b
  <2>4. [chunks |-> 0, end |-> "open"] \in [chunks : 0..OwnChunks, end : {"open", "stop", "error"}]
    BY <1>a
  <2>5. \A c \in OwnCalls : read[c] = 0 /\ answer[c].chunks = 0
    BY DEF Owner!Init
  <2>6. /\ call \in [OwnCalls -> Owner!Inference]
        /\ generator \in [OwnCalls -> Owner!Stream]
        /\ answer \in [OwnCalls -> [chunks : 0..OwnChunks, end : {"open", "stop", "error"}]]
    BY <2>1, <2>4, FieldsOfRow DEF Owner!Init
  <2>7. read \in [OwnCalls -> Nat] /\ signal = {} /\ left = {} /\ faults = 0
    BY DEF Owner!Init
  <2> QED
    BY <1>a, <2>2, <2>3, <2>5, <2>6, <2>7 DEF Owner!TypeOK
<1>2. Stages
  BY FieldsOfRow DEF Owner!Init, Stages, Stage, Untouched, NotCharged, Owner!TerminalStatus
<1>3. Deducted = {} /\ Holders = {}
  BY FieldsOfRow DEF Owner!Init, Deducted, Holders, Owner!holdsSlot
<1>4. Counted
  BY <1>a, <1>b, <1>3, FS_EmptySet DEF Counted
<1> QED
  BY <1>1, <1>2, <1>4 DEF OwnerInv

-----------------------------------------------------------------------------
(* What goto and finally do to the generators.                              *)

LEMMA Goto ==
    ASSUME Owner!TypeOK, NEW c \in OwnCalls, NEW to \in Owner!Awaits, Owner!goto(c, to)
    PROVE  /\ generator' \in [OwnCalls -> Owner!Stream]
           /\ generator'[c].at = to /\ generator'[c].terminal = generator[c].terminal
           /\ \A d \in OwnCalls \ {c} : generator'[d] = generator[d]
<1>1. generator \in [OwnCalls -> Owner!Stream]
  BY DEF Owner!TypeOK
<1> QED
  BY <1>1 DEF Owner!goto, Owner!Stream

LEMMA Finally ==
    ASSUME Owner!TypeOK, NEW c \in OwnCalls, NEW status \in Owner!TerminalStatus,
           Owner!finally(c, status)
    PROVE  /\ generator' \in [OwnCalls -> Owner!Stream]
           /\ generator'[c].at = "terminal" /\ generator'[c].terminal = status
           /\ \A d \in OwnCalls \ {c} : generator'[d] = generator[d]
<1>1. generator \in [OwnCalls -> Owner!Stream]
  BY DEF Owner!TypeOK
<1> QED
  BY <1>1 DEF Owner!finally, Owner!Stream, Owner!Awaits

(* Where a generator comes to.                                              *)
LEMMA StageOf ==
    ASSUME NEW c \in OwnCalls
    PROVE  /\ generator'[c].at \in Untouched /\ NotCharged(c)' => Stage(c)'
           /\ generator'[c].at = "provider" /\ InLoop(c, 0)' => Stage(c)'
           /\ generator'[c].at = "yield" /\ InLoop(c, 1)' => Stage(c)'
           /\ generator'[c].at = "terminal" /\ AfterLoop(c)' => Stage(c)'
           /\ generator'[c].at = "ended" /\ Recorded(c)' => Stage(c)'
  BY DEF Stage, Untouched

LEMMA NotChargedIsRecorded ==
    ASSUME OwnerInv, NEW c \in OwnCalls, NotCharged(c)
    PROVE  Recorded(c) /\ read[c] = 0
<1>1. read[c] = 0
  BY TypesOfCall DEF OwnerInv, NotCharged
<1>2. WentAs(c, call[c].status)
  BY DEF NotCharged, WentAs, Owner!TerminalStatus
<1> QED
  BY <1>1, <1>2 DEF Recorded, NotCharged

-----------------------------------------------------------------------------
(* What no action of another call disturbs.                                 *)

LEMMA StageStays ==
    ASSUME NEW c \in OwnCalls, Stage(c),
           generator'[c] = generator[c], call'[c] = call[c], answer'[c] = answer[c],
           read'[c] = read[c], (c \in left)' = (c \in left), c \in signal => c \in signal'
    PROVE  Stage(c)'
  BY DEF Stage, NotCharged, InLoop, AfterLoop, Recorded, WentAs, Untouched,
         Owner!TerminalStatus

LEMMA CountStays ==
    ASSUME Counted, account' = account,
           \A c \in OwnCalls : /\ call'[c].deducted = call[c].deducted
                               /\ call'[c].finished = call[c].finished
    PROVE  Counted'
<1>1. Deducted' = Deducted /\ Holders' = Holders
  BY DEF Deducted, Holders, Owner!holdsSlot
<1> QED
  BY <1>1 DEF Counted

(* The steps of a generator that leave the grant and its row alone.         *)
LEMMA StreamMoves ==
    ASSUME OwnerInv, NEW c \in OwnCalls, UNCHANGED <<account, call>>,
           Owner!TypeOK', Stage(c)',
           \A d \in OwnCalls \ {c} :
               /\ generator'[d] = generator[d] /\ answer'[d] = answer[d]
               /\ read'[d] = read[d] /\ (d \in left)' = (d \in left)
               /\ d \in signal => d \in signal'
    PROVE  OwnerInv'
<1>1. Stages'
  BY StageStays DEF OwnerInv, Stages
<1>2. Counted'
  BY CountStays DEF OwnerInv
<1> QED
  BY <1>1, <1>2 DEF OwnerInv

-----------------------------------------------------------------------------
(* One lemma per action.                                                    *)

LEMMA OpenKeeps ==
    ASSUME OwnerInv, NEW c \in OwnCalls, Owner!Open(c)
    PROVE  OwnerInv'
<1>1. /\ generator[c].at = "not open" /\ Owner!goto(c, "reserve")
      /\ UNCHANGED <<account, call, signal, answer, read, left, faults>>
  BY DEF Owner!Open, Owner!world
<1>2. /\ generator' \in [OwnCalls -> Owner!Stream]
      /\ generator'[c].at = "reserve" /\ generator'[c].terminal = generator[c].terminal
      /\ \A d \in OwnCalls \ {c} : generator'[d] = generator[d]
  BY <1>1, Goto DEF OwnerInv, Owner!Awaits
<1>3. Owner!TypeOK'
  BY <1>1, <1>2 DEF OwnerInv, Owner!TypeOK
<1>4. NotCharged(c)
  BY <1>1 DEF OwnerInv, Stages, Stage, Untouched
<1>5. NotCharged(c)'
  BY <1>1, <1>2, <1>4 DEF NotCharged
<1>6. Stage(c)'
  BY <1>2, <1>5, StageOf DEF Untouched
<1> QED
  BY <1>1, <1>2, <1>3, <1>6, StreamMoves

(* The generator throws before the try.                                     *)
LEMMA ThrowKeeps ==
    ASSUME OwnerInv, NEW c \in OwnCalls, generator[c].at \in Untouched,
           Owner!goto(c, "ended"), faults' \in 0..OwnFaults,
           UNCHANGED <<account, call, signal, answer, read, left>>
    PROVE  OwnerInv'
<1>1. /\ generator' \in [OwnCalls -> Owner!Stream]
      /\ generator'[c].at = "ended"
      /\ \A d \in OwnCalls \ {c} : generator'[d] = generator[d]
  BY Goto DEF OwnerInv, Owner!Awaits
<1>2. Owner!TypeOK'
  BY <1>1 DEF OwnerInv, Owner!TypeOK
<1>3. NotCharged(c)
  BY DEF OwnerInv, Stages, Stage
<1>4. Recorded(c)'
  BY <1>3, NotChargedIsRecorded DEF Recorded, WentAs
<1>5. Stage(c)'
  BY <1>1, <1>4, StageOf
<1> QED
  BY <1>1, <1>2, <1>5, StreamMoves

LEMMA RefusedKeeps ==
    ASSUME OwnerInv, NEW c \in OwnCalls, Owner!Refused(c)
    PROVE  OwnerInv'
<1>1. faults' \in 0..OwnFaults
  BY DEF Owner!Refused, OwnerInv, Owner!TypeOK
<1> QED
  BY <1>1, ThrowKeeps DEF Owner!Refused, Owner!world, Untouched

LEMMA LedgerFailsKeeps ==
    ASSUME OwnerInv, NEW c \in OwnCalls, Owner!LedgerFails(c)
    PROVE  OwnerInv'
<1>1. faults \in 0..OwnFaults /\ faults < OwnFaults /\ faults' = faults + 1
  BY DEF Owner!LedgerFails, OwnerInv, Owner!TypeOK
<1>2. faults' \in 0..OwnFaults
  BY <1>1, OwnerConstants DEF Owner!CallsAssumption
<1> QED
  BY <1>2, ThrowKeeps DEF Owner!LedgerFails, Owner!world, Untouched

LEMMA AbortKeeps ==
    ASSUME OwnerInv, NEW c \in OwnCalls, Owner!Abort(c)
    PROVE  OwnerInv'
<1>1. /\ signal' = signal \cup {c}
      /\ UNCHANGED <<account, call, generator, answer, read, left, faults>>
  BY DEF Owner!Abort
<1>2. Owner!TypeOK'
  BY <1>1 DEF OwnerInv, Owner!TypeOK
<1>3. Stage(c)'
  BY <1>1, StageStays DEF OwnerInv, Stages
<1> QED
  BY <1>1, <1>2, <1>3, StreamMoves

(* What the answer of c may become, and what else then changes.             *)
LEMMA AnswerMoves ==
    ASSUME OwnerInv, NEW c \in OwnCalls, Stage(c)',
           answer' \in [OwnCalls -> [chunks : 0..OwnChunks, end : {"open", "stop", "error"}]],
           read[c] <= answer'[c].chunks,
           generator' \in [OwnCalls -> Owner!Stream],
           \A d \in OwnCalls \ {c} : answer'[d] = answer[d] /\ generator'[d] = generator[d],
           UNCHANGED <<account, call, signal, read, left, faults>>
    PROVE  OwnerInv'
<1>1. \A d \in OwnCalls : read[d] <= answer'[d].chunks
  BY TypesOfCall DEF OwnerInv
<1>2. Owner!TypeOK'
  BY <1>1 DEF OwnerInv, Owner!TypeOK
<1> QED
  BY <1>2, StreamMoves

LEMMA ChunkKeeps ==
    ASSUME OwnerInv, NEW c \in OwnCalls, Owner!Chunk(c)
    PROVE  OwnerInv'
<1>1. /\ generator[c].at = "provider" /\ answer[c].chunks < OwnChunks
      /\ answer' = [answer EXCEPT ![c].chunks = @ + 1]
      /\ Owner!afterChunk(c)
      /\ UNCHANGED <<account, call, signal, read, left, faults>>
  BY DEF Owner!Chunk
<1>2. InLoop(c, 0)
  BY <1>1 DEF OwnerInv, Stages, Stage
<1>3. answer \in [OwnCalls -> [chunks : 0..OwnChunks, end : {"open", "stop", "error"}]]
  BY DEF OwnerInv, Owner!TypeOK
<1>4. /\ answer' \in [OwnCalls -> [chunks : 0..OwnChunks, end : {"open", "stop", "error"}]]
      /\ answer'[c].chunks = answer[c].chunks + 1 /\ answer'[c].end = answer[c].end
      /\ \A d \in OwnCalls \ {c} : answer'[d] = answer[d]
  BY <1>1, <1>3, OwnerConstants DEF Owner!CallsAssumption
<1>5. read[c] <= answer'[c].chunks
  BY <1>4, TypesOfCall DEF OwnerInv
<1>6. CASE c \in signal
  <2>1. /\ generator' \in [OwnCalls -> Owner!Stream]
        /\ generator'[c].at = "terminal" /\ generator'[c].terminal = "cancelled"
        /\ \A d \in OwnCalls \ {c} : generator'[d] = generator[d]
    BY <1>1, <1>6, Finally DEF OwnerInv, Owner!afterChunk, Owner!TerminalStatus
  <2>2. AfterLoop(c)'
    BY <1>1, <1>2, <1>6, <2>1 DEF InLoop, AfterLoop, WentAs
  <2>3. Stage(c)'
    BY <2>1, <2>2, StageOf
  <2> QED
    BY <1>1, <1>4, <1>5, <2>1, <2>3, AnswerMoves
<1>7. CASE c \notin signal
  <2>1. /\ generator' \in [OwnCalls -> Owner!Stream]
        /\ generator'[c].at = "yield" /\ generator'[c].terminal = generator[c].terminal
        /\ \A d \in OwnCalls \ {c} : generator'[d] = generator[d]
    BY <1>1, <1>7, Goto DEF OwnerInv, Owner!afterChunk, Owner!Awaits
  <2>2. InLoop(c, 1)'
    BY <1>1, <1>2, <1>4, <2>1, TypesOfCall DEF OwnerInv, InLoop
  <2>3. Stage(c)'
    BY <2>1, <2>2, StageOf
  <2> QED
    BY <1>1, <1>4, <1>5, <2>1, <2>3, AnswerMoves
<1> QED
  BY <1>6, <1>7

LEMMA AnswerEndsKeeps ==
    ASSUME OwnerInv, NEW c \in OwnCalls, NEW end \in {"stop", "error"}, Owner!AnswerEnds(c, end)
    PROVE  OwnerInv'
<1>1. /\ generator[c].at = "provider"
      /\ answer' = [answer EXCEPT ![c].end = end]
      /\ Owner!finally(c, Owner!terminalOf(c, end))
      /\ UNCHANGED <<account, call, signal, read, left, faults>>
  BY DEF Owner!AnswerEnds
<1>2. InLoop(c, 0)
  BY <1>1 DEF OwnerInv, Stages, Stage
<1>3. answer \in [OwnCalls -> [chunks : 0..OwnChunks, end : {"open", "stop", "error"}]]
  BY DEF OwnerInv, Owner!TypeOK
<1>4. /\ answer' \in [OwnCalls -> [chunks : 0..OwnChunks, end : {"open", "stop", "error"}]]
      /\ answer'[c].chunks = answer[c].chunks /\ answer'[c].end = end
      /\ \A d \in OwnCalls \ {c} : answer'[d] = answer[d]
  BY <1>1, <1>3
<1>5. PICK status \in Owner!TerminalStatus :
        /\ status = Owner!terminalOf(c, end)
        /\ status = "completed" => end = "stop"
        /\ status \in {"cancelled", "aborted"} => c \in signal
        /\ status = "provider_error" => end = "error"
  BY DEF Owner!terminalOf, Owner!TerminalStatus
<1>6. /\ generator' \in [OwnCalls -> Owner!Stream]
      /\ generator'[c].at = "terminal" /\ generator'[c].terminal = status
      /\ \A d \in OwnCalls \ {c} : generator'[d] = generator[d]
  BY <1>1, <1>5, Finally DEF OwnerInv
<1>7. read[c] = answer'[c].chunks
  BY <1>2, <1>4, TypesOfCall DEF OwnerInv, InLoop
<1>8. AfterLoop(c)'
  BY <1>1, <1>2, <1>4, <1>5, <1>6, <1>7 DEF InLoop, AfterLoop, WentAs
<1>9. Stage(c)'
  BY <1>6, <1>8, StageOf
<1> QED
  BY <1>1, <1>4, <1>6, <1>7, <1>9, TypesOfCall, AnswerMoves DEF OwnerInv

(* The host was handed a chunk.                                             *)
LEMMA ReadMoves ==
    ASSUME OwnerInv, NEW c \in OwnCalls, InLoop(c, 1),
           read' = [read EXCEPT ![c] = @ + 1],
           generator' \in [OwnCalls -> Owner!Stream],
           \A d \in OwnCalls \ {c} : generator'[d] = generator[d],
           left' = left \/ left' = left \cup {c}, Stage(c)',
           UNCHANGED <<account, call, signal, answer, faults>>
    PROVE  OwnerInv'
<1>1. read \in [OwnCalls -> Nat]
  BY DEF OwnerInv, Owner!TypeOK
<1>2. /\ read' \in [OwnCalls -> Nat]
      /\ \A d \in OwnCalls \ {c} : read'[d] = read[d]
      /\ read'[c] = read[c] + 1
  BY <1>1
<1>3. \A d \in OwnCalls : read'[d] <= answer[d].chunks
  BY <1>2, TypesOfCall DEF OwnerInv, InLoop
<1>4. Owner!TypeOK'
  BY <1>2, <1>3 DEF OwnerInv, Owner!TypeOK
<1> QED
  BY <1>2, <1>4, StreamMoves

LEMMA ReadKeeps ==
    ASSUME OwnerInv, NEW c \in OwnCalls, Owner!Read(c)
    PROVE  OwnerInv'
<1>1. /\ generator[c].at = "yield"
      /\ read' = [read EXCEPT ![c] = @ + 1]
      /\ Owner!goto(c, "provider")
      /\ UNCHANGED <<account, call, signal, answer, left, faults>>
  BY DEF Owner!Read
<1>2. InLoop(c, 1)
  BY <1>1 DEF OwnerInv, Stages, Stage
<1>3. /\ generator' \in [OwnCalls -> Owner!Stream]
      /\ generator'[c].at = "provider" /\ generator'[c].terminal = generator[c].terminal
      /\ \A d \in OwnCalls \ {c} : generator'[d] = generator[d]
  BY <1>1, Goto DEF OwnerInv, Owner!Awaits
<1>4. read'[c] = read[c] + 1 /\ read[c] \in Nat
  BY <1>1 DEF OwnerInv, Owner!TypeOK
<1>5. InLoop(c, 0)'
  BY <1>1, <1>2, <1>3, <1>4 DEF InLoop
<1>6. Stage(c)'
  BY <1>3, <1>5, StageOf
<1> QED
  BY <1>1, <1>2, <1>3, <1>6, ReadMoves

LEMMA LeaveKeeps ==
    ASSUME OwnerInv, NEW c \in OwnCalls, Owner!Leave(c)
    PROVE  OwnerInv'
<1>1. /\ generator[c].at = "yield"
      /\ read' = [read EXCEPT ![c] = @ + 1]
      /\ left' = left \cup {c}
      /\ Owner!finally(c, generator[c].terminal)
      /\ UNCHANGED <<account, call, signal, answer, faults>>
  BY DEF Owner!Leave, Owner!closed
<1>2. InLoop(c, 1)
  BY <1>1 DEF OwnerInv, Stages, Stage
<1>3. Owner!finally(c, "completed")
  BY <1>1, <1>2 DEF InLoop
<1>4. /\ generator' \in [OwnCalls -> Owner!Stream]
      /\ generator'[c].at = "terminal" /\ generator'[c].terminal = "completed"
      /\ \A d \in OwnCalls \ {c} : generator'[d] = generator[d]
  BY <1>3, Finally DEF OwnerInv, Owner!TerminalStatus
<1>5. AfterLoop(c)'
  BY <1>1, <1>2, <1>4 DEF InLoop, AfterLoop, WentAs
<1>6. Stage(c)'
  BY <1>4, <1>5, StageOf
<1> QED
  BY <1>1, <1>2, <1>4, <1>6, ReadMoves

-----------------------------------------------------------------------------
(* The steps that change the row, or the grant.                             *)

(* A row that is written as reserved or preflight stays free of charge.     *)
LEMMA RowMoves ==
    ASSUME OwnerInv, NEW c \in OwnCalls, NEW status \in {"reserved", "preflight"},
           NEW to \in {"preflight", "start", "ended"},
           generator[c].at \in Untouched,
           call' = [call EXCEPT ![c].status = status],
           Owner!goto(c, to),
           UNCHANGED <<account, signal, answer, read, left, faults>>
    PROVE  OwnerInv'
<1>1. call \in [OwnCalls -> Owner!Inference]
  BY DEF OwnerInv, Owner!TypeOK
<1>2. /\ call'[c].deducted = call[c].deducted /\ call'[c].finished = call[c].finished
      /\ call'[c].status = status
      /\ call' \in [OwnCalls -> Owner!Inference]
      /\ \A d \in OwnCalls \ {c} : call'[d] = call[d]
  BY <1>1 DEF Owner!Inference
<1>3. /\ generator' \in [OwnCalls -> Owner!Stream]
      /\ generator'[c].at = to /\ generator'[c].terminal = generator[c].terminal
      /\ \A d \in OwnCalls \ {c} : generator'[d] = generator[d]
  BY Goto DEF OwnerInv, Owner!Awaits
<1>4. Owner!TypeOK'
  BY <1>2, <1>3 DEF OwnerInv, Owner!TypeOK
<1>5. NotCharged(c)
  BY DEF OwnerInv, Stages, Stage
<1>6. NotCharged(c)'
  BY <1>2, <1>3, <1>5 DEF NotCharged, Owner!TerminalStatus
<1>7. Recorded(c)'
  BY <1>2, <1>5, NotChargedIsRecorded DEF Recorded, WentAs
<1>8. Stage(c)'
  BY <1>3, <1>6, <1>7, StageOf DEF Untouched
<1>9. Stages'
  <2>1. \A d \in OwnCalls \ {c} : Stage(d)'
    BY <1>2, <1>3, StageStays DEF OwnerInv, Stages
  <2> QED
    BY <1>8, <2>1 DEF Stages
<1>10. Counted'
  BY <1>2, CountStays DEF OwnerInv
<1> QED
  BY <1>4, <1>9, <1>10 DEF OwnerInv

LEMMA ReserveKeeps ==
    ASSUME OwnerInv, NEW c \in OwnCalls, NEW match \in BOOLEAN, Owner!Reserve(c, match)
    PROVE  OwnerInv'
  BY RowMoves DEF Owner!Reserve, Owner!world, Untouched

LEMMA PreflightKeeps ==
    ASSUME OwnerInv, NEW c \in OwnCalls, Owner!Preflight(c)
    PROVE  OwnerInv'
  BY RowMoves DEF Owner!Preflight, Owner!world, Untouched

LEMMA HoldersAreCharged == Counted => IsFiniteSet(Holders)
<1>1. Holders \subseteq Deducted
  BY DEF Holders, Deducted, Owner!holdsSlot
<1> QED
  BY <1>1, FS_Subset DEF Counted

(* The grant of a call that starts.                                         *)
LEMMA DeductedOnce ==
    ASSUME OwnerInv, Owner!mayStart, account' = Owner!deducted(account)
    PROVE  /\ account.calls \in 1..CallsOfGrant /\ account.active = 0
           /\ account'.calls = account.calls - 1 /\ account'.active = 1
           /\ account' \in [calls : 0..CallsOfGrant, active : 0..1,
                            status : {"active", "exhausted"}]
           /\ account'.status = "exhausted" <=> account'.calls = 0
<1>1. account \in [calls : 0..CallsOfGrant, active : 0..1, status : {"active", "exhausted"}]
  BY DEF OwnerInv, Owner!TypeOK
<1>2. account.status = "exhausted" <=> account.calls = 0
  BY DEF OwnerInv, Owner!TypeOK
<1>3. account.calls > 0 /\ account.active = 0
  BY DEF Owner!mayStart
<1>4. /\ account.calls \in 1..CallsOfGrant
      /\ account.status = "active" /\ account.calls - 1 \in 0..CallsOfGrant
  BY <1>1, <1>2, <1>3, OwnerConstants DEF Owner!CallsAssumption
<1>5. account' = [calls |-> account.calls - 1, active |-> 1,
                  status |-> IF account.calls = 1 THEN "exhausted" ELSE "active"]
  BY <1>1, <1>4 DEF Owner!deducted
<1>6. /\ account'.calls = account.calls - 1 /\ account'.active = 1
      /\ account'.status = IF account.calls = 1 THEN "exhausted" ELSE "active"
  BY <1>5
<1>7. account' \in [calls : 0..CallsOfGrant, active : 0..1, status : {"active", "exhausted"}]
  BY <1>4, <1>5
<1> QED
  BY <1>3, <1>4, <1>6, <1>7

(* deductIfStarted: nobody holds the slot, and now c does.                  *)
LEMMA StartKeeps ==
    ASSUME OwnerInv, NEW c \in OwnCalls, Owner!Start(c)
    PROVE  OwnerInv'
<1>1. /\ generator[c].at = "start" /\ Owner!mayStart
      /\ account' = Owner!deducted(account)
      /\ call' = [call EXCEPT ![c].status = "started", ![c].deducted = TRUE]
      /\ IF c \in signal THEN Owner!finally(c, "aborted") ELSE Owner!goto(c, "provider")
      /\ UNCHANGED <<signal, answer, read, left, faults>>
  BY DEF Owner!Start, Owner!startLedger, Owner!world
<1>2. NotCharged(c) /\ read[c] = 0
  BY <1>1, NotChargedIsRecorded DEF OwnerInv, Stages, Stage, Untouched
<1>3. call \in [OwnCalls -> Owner!Inference]
  BY DEF OwnerInv, Owner!TypeOK
<1>4. /\ call'[c].status = "started" /\ call'[c].deducted = TRUE
      /\ call'[c].finished = call[c].finished
      /\ call' \in [OwnCalls -> Owner!Inference]
      /\ \A d \in OwnCalls \ {c} : call'[d] = call[d]
  BY <1>1, <1>3 DEF Owner!Inference
<1>5. /\ account.calls \in 1..CallsOfGrant /\ account.active = 0
      /\ account'.calls = account.calls - 1 /\ account'.active = 1
      /\ account' \in [calls : 0..CallsOfGrant, active : 0..1, status : {"active", "exhausted"}]
      /\ account'.status = "exhausted" <=> account'.calls = 0
  BY <1>1, DeductedOnce
<1>6. /\ generator' \in [OwnCalls -> Owner!Stream]
      /\ \A d \in OwnCalls \ {c} : generator'[d] = generator[d]
      /\ Stage(c)'
  <2>1. CASE c \in signal
    <3>1. /\ generator' \in [OwnCalls -> Owner!Stream]
          /\ generator'[c].at = "terminal" /\ generator'[c].terminal = "aborted"
          /\ \A d \in OwnCalls \ {c} : generator'[d] = generator[d]
      BY <1>1, <2>1, Finally DEF OwnerInv, Owner!TerminalStatus
    <3>2. AfterLoop(c)'
      BY <1>1, <1>2, <1>4, <2>1, <3>1 DEF NotCharged, AfterLoop, WentAs
    <3> QED
      BY <3>1, <3>2, StageOf
  <2>2. CASE c \notin signal
    <3>1. /\ generator' \in [OwnCalls -> Owner!Stream]
          /\ generator'[c].at = "provider" /\ generator'[c].terminal = generator[c].terminal
          /\ \A d \in OwnCalls \ {c} : generator'[d] = generator[d]
      BY <1>1, <2>2, Goto DEF OwnerInv, Owner!Awaits
    <3>2. InLoop(c, 0)'
      BY <1>1, <1>2, <1>4, <3>1 DEF InLoop, NotCharged
    <3> QED
      BY <3>1, <3>2, StageOf
  <2> QED
    BY <2>1, <2>2
<1>7. Owner!TypeOK'
  BY <1>1, <1>4, <1>5, <1>6 DEF OwnerInv, Owner!TypeOK
<1>8. Stages'
  <2>1. \A d \in OwnCalls \ {c} : Stage(d)'
    BY <1>1, <1>4, <1>6, StageStays DEF OwnerInv, Stages
  <2> QED
    BY <1>6, <2>1 DEF Stages
<1>9. Counted'
  <2>1. c \notin Deducted /\ Deducted' = Deducted \cup {c}
    BY <1>2, <1>4 DEF Deducted, NotCharged
  <2>2. IsFiniteSet(Deducted') /\ Cardinality(Deducted') = Cardinality(Deducted) + 1
    BY <2>1, FS_AddElement DEF OwnerInv, Counted
  <2>3. IsFiniteSet(Holders)
    BY HoldersAreCharged DEF OwnerInv
  <2>4. Holders = {}
    BY <1>5, <2>3, FS_EmptySet DEF OwnerInv, Counted
  <2>5. Holders' = {c}
    BY <1>2, <1>4, <2>4 DEF Holders, Owner!holdsSlot, NotCharged
  <2>6. Cardinality(Holders') = 1
    BY <2>5, FS_Singleton
  <2>7. Cardinality(Deducted) \in Nat
    BY FS_CardinalityType DEF OwnerInv, Counted
  <2>8. account.calls + Cardinality(Deducted) = CallsOfGrant
    BY DEF OwnerInv, Counted
  <2>9. account'.calls + Cardinality(Deducted') = CallsOfGrant
    BY <1>5, <2>2, <2>7, <2>8, OwnerConstants DEF Owner!CallsAssumption
  <2> QED
    BY <1>5, <2>2, <2>6, <2>9 DEF Counted
<1> QED
  BY <1>7, <1>8, <1>9 DEF OwnerInv

(* terminal(): c held the slot, so nobody does now.                         *)
LEMMA TerminalKeeps ==
    ASSUME OwnerInv, NEW c \in OwnCalls, Owner!Terminal(c)
    PROVE  OwnerInv'
<1>1. /\ generator[c].at = "terminal" /\ Owner!goto(c, "ended")
      /\ call' = [call EXCEPT ![c].status = generator[c].terminal, ![c].finished = TRUE]
      /\ account' = IF call[c].deducted THEN [account EXCEPT !.active = 0] ELSE account
      /\ UNCHANGED <<signal, answer, read, left, faults>>
  BY DEF Owner!Terminal, Owner!terminalLedger, Owner!world
<1>2. AfterLoop(c)
  BY <1>1 DEF OwnerInv, Stages, Stage
<1>3. generator[c].terminal \in Owner!TerminalStatus /\ call \in [OwnCalls -> Owner!Inference]
  BY TypesOfCall DEF OwnerInv, Owner!TypeOK
<1>4. /\ call'[c].status = generator[c].terminal /\ call'[c].deducted = call[c].deducted
      /\ call'[c].finished = TRUE
      /\ call' \in [OwnCalls -> Owner!Inference]
      /\ \A d \in OwnCalls \ {c} : call'[d] = call[d]
  BY <1>1, <1>3 DEF Owner!Inference
<1>5. account \in [calls : 0..CallsOfGrant, active : 0..1, status : {"active", "exhausted"}]
  BY DEF OwnerInv, Owner!TypeOK
<1>6. /\ account'.calls = account.calls /\ account'.active = 0
      /\ account' \in [calls : 0..CallsOfGrant, active : 0..1, status : {"active", "exhausted"}]
      /\ account'.status = account.status
  BY <1>1, <1>2, <1>5 DEF AfterLoop
<1>7. /\ generator' \in [OwnCalls -> Owner!Stream]
      /\ generator'[c].at = "ended"
      /\ \A d \in OwnCalls \ {c} : generator'[d] = generator[d]
  BY <1>1, Goto DEF OwnerInv, Owner!Awaits
<1>8. Owner!TypeOK'
  BY <1>1, <1>4, <1>6, <1>7 DEF OwnerInv, Owner!TypeOK
<1>9. Stages'
  <2>1. Recorded(c)'
    BY <1>1, <1>2, <1>4 DEF AfterLoop, Recorded, WentAs
  <2>2. Stage(c)'
    BY <1>7, <2>1, StageOf
  <2>3. \A d \in OwnCalls \ {c} : Stage(d)'
    BY <1>1, <1>4, <1>7, StageStays DEF OwnerInv, Stages
  <2> QED
    BY <2>2, <2>3 DEF Stages
<1>10. Counted'
  <2>1. Deducted' = Deducted
    BY <1>4 DEF Deducted
  <2>2. c \in Holders /\ Holders' = Holders \ {c}
    BY <1>2, <1>4 DEF Holders, Owner!holdsSlot, AfterLoop
  <2>3. IsFiniteSet(Holders)
    BY HoldersAreCharged DEF OwnerInv
  <2>4. Cardinality(Holders') = Cardinality(Holders) - 1
    BY <2>2, <2>3, FS_RemoveElement
  <2>5. Cardinality(Holders) = account.active /\ account.active \in 0..1
    BY <1>5 DEF OwnerInv, Counted
  <2>6. Cardinality(Holders') \in Nat
    BY <2>2, <2>3, FS_Subset, FS_CardinalityType
  <2>7. Cardinality(Holders') = 0
    BY <2>4, <2>5, <2>6
  <2> QED
    BY <1>6, <2>1, <2>7 DEF OwnerInv, Counted
<1> QED
  BY <1>8, <1>9, <1>10 DEF OwnerInv

-----------------------------------------------------------------------------

LEMMA OwnerStepKeeps ==
    ASSUME OwnerInv, Owner!Next
    PROVE  OwnerInv'
  BY OpenKeeps, ReserveKeeps, PreflightKeeps, StartKeeps, RefusedKeeps, ChunkKeeps,
     AnswerEndsKeeps, ReadKeeps, LeaveKeeps, TerminalKeeps, AbortKeeps, LedgerFailsKeeps
     DEF Owner!Next, Owner!Runs

LEMMA OwnerStays ==
    ASSUME OwnerInv, UNCHANGED ownerVars
    PROVE  OwnerInv'
<1>1. UNCHANGED <<account, call, generator, signal, answer, read, left, faults>>
  BY DEF ownerVars
<1>2. Owner!TypeOK'
  BY <1>1 DEF OwnerInv, Owner!TypeOK
<1>3. Stages'
  BY <1>1, StageStays DEF OwnerInv, Stages
<1>4. Counted'
  BY <1>1, CountStays DEF OwnerInv
<1> QED
  BY <1>2, <1>3, <1>4 DEF OwnerInv

LEMMA OwnerInvariant == PartsSpec => []OwnerInv
<1>1. PartsInit => OwnerInv
  BY OwnerBegins DEF PartsInit
<1>2. OwnerInv /\ [PartsNext]_allVars => OwnerInv'
  BY OwnerStepKeeps, OwnerStays DEF PartsNext, allVars
<1> QED
  BY <1>1, <1>2, PTL DEF PartsSpec

LEMMA OwnerFollows == OwnerInv => CallsAreRecorded
<1> SUFFICES ASSUME OwnerInv
             PROVE  Owner!ChargedAndAlone /\ Owner!SlotEndsWithStream /\ Owner!RecordTellsTheEnd
  BY DEF OwnerInv, CallsAreRecorded
<1>1. ASSUME NEW c \in OwnCalls
      PROVE  /\ read[c] > 0 => call[c].deducted
             /\ Owner!holdsSlot(c) => generator[c].at \in {"provider", "yield", "terminal"}
             /\ WentAs(c, call[c].status)
  <2>1. generator[c].at \in Untouched \cup {"provider", "yield", "terminal", "ended"}
    BY TypesOfCall DEF OwnerInv, Owner!Awaits, Untouched
  <2>2. CASE generator[c].at \in Untouched
    BY <2>2, TypesOfCall DEF OwnerInv, Stages, Stage, NotCharged, WentAs, Owner!holdsSlot,
       Owner!TerminalStatus
  <2>3. CASE generator[c].at \in {"provider", "yield", "terminal"}
    BY <2>3 DEF OwnerInv, Stages, Stage, InLoop, AfterLoop, WentAs
  <2>4. CASE generator[c].at = "ended"
    BY <2>4 DEF OwnerInv, Stages, Stage, Recorded, Owner!holdsSlot
  <2> QED
    BY <2>1, <2>2, <2>3, <2>4
<1>2. Owner!ChargedAndAlone
  BY <1>1, SameCardinality DEF Owner!ChargedAndAlone, OwnerInv, Counted, Deducted, Holders
<1> QED
  BY <1>1, <1>2 DEF Owner!SlotEndsWithStream, Owner!RecordTellsTheEnd, WentAs

(* However hosts abort and leave and the model or the ledger fail, a call   *)
(* that the owner's own process answers is charged once, holds the slot     *)
(* alone and no longer than its stream, and the ledger records how it went  *)
(* (relay.ts 48-65, grant-relay.ts 153-187).                                *)
THEOREM CallsStayRecorded == PartsSpec => []CallsAreRecorded
  BY OwnerInvariant, OwnerFollows, PTL
-----------------------------------------------------------------------------
(* The streams between a winner and an owner in another process.            *)
(*                                                                          *)
(* Sequences of frames: one of P is in q; the frames of a type of a call;   *)
(* the numbers of the chunks of c in q, and that any two of them are related*)
(* by R, the earlier to the later.                                          *)

meets(q, P) == \E i \in DOMAIN q : q[i] \in P

Of(t, c) == {f \in Stream!Frame : f.type = t /\ f.call = c}

nums(q, c) == {q[i].seq : i \in {j \in DOMAIN q : q[j] \in Of("chunk", c)}}

ranked(q, c, R) ==
    \A i, j \in DOMAIN q :
        i < j /\ q[i] \in Of("chunk", c) /\ q[j] \in Of("chunk", c) => <<q[i].seq, q[j].seq>> \in R

\* None of them twice.
Unequal == {p \in Nat \X Nat : p[1] # p[2]}
single(q, c) == ranked(q, c, Unequal)

(* r is q, of n frames, and then s, place by place.                         *)
joined(q, s, r, n) ==
    /\ n \in Nat /\ DOMAIN q \subseteq Nat /\ DOMAIN s \subseteq Nat /\ DOMAIN r \subseteq Nat
    /\ \A i \in DOMAIN q : i <= n /\ i \in DOMAIN r /\ r[i] = q[i]
    /\ \A i \in DOMAIN s : 0 < i /\ \E k \in DOMAIN r : k = i + n /\ r[k] = s[i]
    /\ \A k \in DOMAIN r : \/ k \in DOMAIN q
                           \/ \E i \in DOMAIN s : k = i + n /\ r[k] = s[i]

LEMMA JoinPlaces ==
    ASSUME NEW S, NEW q \in Seq(S), NEW s \in Seq(S)
    PROVE  \E n : joined(q, s, q \o s, n)
<1> DEFINE r == q \o s
           n == Len(q)
           m == Len(s)
<1>1. n \in Nat /\ m \in Nat /\ DOMAIN q = 1 .. n /\ DOMAIN s = 1 .. m
  BY LenProperties
<1>2. /\ Len(r) = n + m
      /\ \A i \in 1 .. n + m : r[i] = IF i <= n THEN q[i] ELSE s[i - n]
  BY ConcatProperties
<1>3. r \in Seq(S)
  BY ConcatProperties
<1>4. DOMAIN r = 1 .. n + m
  BY <1>2, <1>3, LenProperties
<1> HIDE DEF r, n, m
<1>5. \A i \in 1 .. n : i <= n /\ i \in 1 .. n + m /\ r[i] = q[i]
  BY <1>1, <1>2
<1>6. ASSUME NEW i \in 1 .. m
      PROVE  0 < i /\ \E k \in 1 .. n + m : k = i + n /\ r[k] = s[i]
  <2>1. i + n \in 1 .. n + m /\ ~ i + n <= n /\ (i + n) - n = i
    BY <1>1
  <2>2. r[i + n] = s[i]
    BY <1>2, <2>1
  <2> QED
    BY <2>1, <2>2
<1>7. ASSUME NEW k \in 1 .. n + m, k \notin 1 .. n
      PROVE  \E i \in 1 .. m : k = i + n /\ r[k] = s[i]
  <2>1. k - n \in 1 .. m /\ ~ k <= n /\ k = (k - n) + n
    BY <1>1, <1>7
  <2>2. r[k] = s[k - n]
    BY <1>2, <2>1
  <2> QED
    BY <2>1, <2>2
<1>8. 1 .. n \subseteq Nat /\ 1 .. m \subseteq Nat /\ 1 .. n + m \subseteq Nat
  BY <1>1
<1> QED
  <2>1. joined(q, s, r, n)
    BY <1>1, <1>4, <1>5, <1>6, <1>7, <1>8 DEF joined
  <2> QED
    BY <2>1 DEF r

LEMMA JoinMeets ==
    ASSUME NEW S, NEW q \in Seq(S), NEW s \in Seq(S), NEW P
    PROVE  meets(q \o s, P) <=> meets(q, P) \/ meets(s, P)
<1> DEFINE r == q \o s
<1>0. PICK n : joined(q, s, r, n)
  BY JoinPlaces
<1> HIDE DEF r
<1> USE DEF joined
<1>1. meets(r, P) <=> meets(q, P) \/ meets(s, P)
  BY <1>0 DEF meets
<1> QED
  BY <1>1 DEF r

LEMMA JoinNums ==
    ASSUME NEW S, NEW q \in Seq(S), NEW s \in Seq(S), NEW c
    PROVE  nums(q \o s, c) = nums(q, c) \cup nums(s, c)
<1> DEFINE r == q \o s
<1>0. PICK n : joined(q, s, r, n)
  BY JoinPlaces
<1> HIDE DEF r
<1> USE DEF joined
<1>1. \A i \in DOMAIN q : q[i] \in Of("chunk", c) => i \in DOMAIN r /\ r[i] = q[i]
  BY <1>0
<1>2. \A i \in DOMAIN s : \E k \in DOMAIN r : r[k] = s[i]
  BY <1>0
<1>3. \A k \in DOMAIN r : (k \in DOMAIN q /\ r[k] = q[k]) \/ \E i \in DOMAIN s : r[k] = s[i]
  BY <1>0
<1>4. nums(r, c) = nums(q, c) \cup nums(s, c)
  BY <1>1, <1>2, <1>3 DEF nums
<1> QED
  BY <1>4 DEF r


LEMMA JoinRanked ==
    ASSUME NEW S, NEW q \in Seq(S), NEW s \in Seq(S), NEW c, NEW R
    PROVE  ranked(q \o s, c, R) <=>
              ranked(q, c, R) /\ ranked(s, c, R) /\ nums(q, c) \X nums(s, c) \subseteq R
<1> DEFINE r == q \o s
<1>0. PICK n : joined(q, s, r, n)
  BY JoinPlaces
<1> HIDE DEF r
<1> USE DEF joined
<1> DEFINE C == Of("chunk", c)
<1>1. ASSUME ranked(r, c, R)
      PROVE  ranked(q, c, R) /\ ranked(s, c, R) /\ nums(q, c) \X nums(s, c) \subseteq R
  <2>1. ranked(q, c, R)
    BY <1>0, <1>1 DEF ranked
  <2>2. ranked(s, c, R)
    <3> SUFFICES ASSUME NEW i \in DOMAIN s, NEW j \in DOMAIN s, i < j, s[i] \in C, s[j] \in C
                 PROVE  <<s[i].seq, s[j].seq>> \in R
      BY DEF ranked
    <3>1. PICK k \in DOMAIN r : k = i + n /\ r[k] = s[i]
      BY <1>0
    <3>2. PICK l \in DOMAIN r : l = j + n /\ r[l] = s[j]
      BY <1>0
    <3>3. k < l
      BY <1>0, <3>1, <3>2
    <3> QED
      BY <1>1, <3>1, <3>2, <3>3 DEF ranked
  <2>3. ASSUME NEW i \in DOMAIN q, q[i] \in C, NEW j \in DOMAIN s, s[j] \in C
        PROVE  <<q[i].seq, s[j].seq>> \in R
    <3>1. PICK l \in DOMAIN r : l = j + n /\ r[l] = s[j]
      BY <1>0
    <3>2. i < l /\ i \in DOMAIN r /\ r[i] = q[i]
      BY <1>0, <3>1
    <3> QED
      BY <1>1, <2>3, <3>1, <3>2 DEF ranked
  <2>4. nums(q, c) \X nums(s, c) \subseteq R
    BY <2>3 DEF nums
  <2> QED
    BY <2>1, <2>2, <2>4
<1>2. ASSUME ranked(q, c, R), ranked(s, c, R), nums(q, c) \X nums(s, c) \subseteq R
      PROVE  ranked(r, c, R)
  <2> SUFFICES ASSUME NEW k \in DOMAIN r, NEW l \in DOMAIN r, k < l, r[k] \in C, r[l] \in C
               PROVE  <<r[k].seq, r[l].seq>> \in R
    BY DEF ranked
  <2>1. CASE k \in DOMAIN q /\ l \in DOMAIN q
    BY <1>0, <1>2, <2>1 DEF ranked
  <2>2. CASE k \in DOMAIN q /\ l \notin DOMAIN q
    <3>1. PICK j \in DOMAIN s : r[l] = s[j]
      BY <1>0, <2>2
    <3>2. q[k].seq \in nums(q, c) /\ s[j].seq \in nums(s, c)
      BY <1>0, <2>2, <3>1 DEF nums
    <3> QED
      BY <1>0, <1>2, <2>2, <3>1, <3>2
  <2>3. CASE k \notin DOMAIN q
    <3>1. PICK i \in DOMAIN s : k = i + n /\ r[k] = s[i]
      BY <1>0, <2>3
    <3>2. l \notin DOMAIN q
      BY <1>0, <3>1
    <3>3. PICK j \in DOMAIN s : l = j + n /\ r[l] = s[j]
      BY <1>0, <3>2
    <3>4. i < j
      BY <1>0, <3>1, <3>3
    <3> QED
      BY <1>2, <3>1, <3>3, <3>4 DEF ranked
  <2> QED
    BY <2>1, <2>2, <2>3
<1> QED
  BY <1>1, <1>2 DEF r

one(f) == <<f>>

LEMMA OneFrame ==
    ASSUME NEW f
    PROVE  /\ \A P : meets(one(f), P) <=> f \in P
           /\ \A c, R : ranked(one(f), c, R)
           /\ \A c : nums(one(f), c) = IF f \in Of("chunk", c) THEN {f.seq} ELSE {}
<1> DEFINE q == one(f)
<1>1. DOMAIN q = {1} /\ q[1] = f
  BY DEF one
<1> HIDE DEF q
<1>2. (\A P : meets(q, P) <=> f \in P) /\ (\A c, R : ranked(q, c, R))
  BY <1>1 DEF meets, ranked
<1>3. \A c : nums(q, c) = IF f \in Of("chunk", c) THEN {f.seq} ELSE {}
  BY <1>1 DEF nums
<1> QED
  BY <1>2, <1>3 DEF q

LEMMA NoFrames ==
    /\ \A P : ~ meets(<<>>, P)
    /\ \A c, R : ranked(<<>>, c, R)
    /\ \A c : nums(<<>>, c) = {}
<1> DEFINE q == <<>>
<1>1. DOMAIN q = {}
  OBVIOUS
<1> HIDE DEF q
<1>2. (\A P : ~ meets(q, P)) /\ (\A c, R : ranked(q, c, R)) /\ (\A c : nums(q, c) = {})
  BY <1>1 DEF meets, ranked, nums
<1> QED
  BY <1>2 DEF q

LEMMA LastFrame ==
    ASSUME NEW S, NEW f \in S, NEW q \in Seq(S)
    PROVE  /\ q \o one(f) \in Seq(S)
           /\ \A P : meets(q \o one(f), P) <=> f \in P \/ meets(q, P)
           /\ \A c : nums(q \o one(f), c) = nums(q, c) \cup nums(one(f), c)
           /\ \A c, R : ranked(q \o one(f), c, R) <=>
                           ranked(q, c, R) /\ nums(q, c) \X nums(one(f), c) \subseteq R
<1> DEFINE o == one(f)
<1>1. o \in Seq(S)
  BY DEF one
<1>2. (\A P : meets(o, P) <=> f \in P) /\ \A c, R : ranked(o, c, R)
  BY OneFrame
<1> HIDE DEF o
<1>3. q \o o \in Seq(S)
  BY <1>1, ConcatProperties
<1>4. \A P : meets(q \o o, P) <=> f \in P \/ meets(q, P)
  BY <1>1, <1>2, JoinMeets
<1>5. \A c : nums(q \o o, c) = nums(q, c) \cup nums(o, c)
  BY <1>1, JoinNums
<1>6. \A c, R : ranked(q \o o, c, R) <=> ranked(q, c, R) /\ nums(q, c) \X nums(o, c) \subseteq R
  BY <1>1, <1>2, JoinRanked
<1> QED
  BY <1>3, <1>4, <1>5, <1>6 DEF o

LEMMA FirstAndRest ==
    ASSUME NEW S, NEW q \in Seq(S), q # <<>>
    PROVE  /\ Head(q) \in S /\ Tail(q) \in Seq(S) /\ <<Head(q)>> \in Seq(S)
           /\ q = <<Head(q)>> \o Tail(q) /\ q = one(Head(q)) \o Tail(q)
           /\ Stream!RemoveAt(q, 1) = Tail(q)
           /\ 1 \in DOMAIN q /\ q[1] = Head(q)
<1>1. /\ Head(q) \in S /\ Tail(q) \in Seq(S) /\ <<Head(q)>> \in Seq(S)
      /\ Len(q) \in Nat \ {0} /\ DOMAIN q = 1 .. Len(q) /\ q[1] = Head(q)
      /\ Len(Tail(q)) = Len(q) - 1 /\ \A i \in 1 .. Len(q) - 1 : Tail(q)[i] = q[i + 1]
      /\ Len(<<Head(q)>>) = 1 /\ <<Head(q)>>[1] = Head(q)
  BY EmptySeq, LenProperties, HeadTailProperties
<1>2. q = <<Head(q)>> \o Tail(q)
  <2> DEFINE r == <<Head(q)>> \o Tail(q)
  <2>1. /\ r \in Seq(S) /\ Len(r) = Len(q)
        /\ \A i \in 1 .. Len(q) : r[i] = IF i <= 1 THEN Head(q) ELSE Tail(q)[i - 1]
    BY <1>1, ConcatProperties
  <2>2. \A i \in 1 .. Len(q) : r[i] = q[i]
    BY <1>1, <2>1
  <2> QED
    BY <2>1, <2>2, SeqEqual
<1>3. Stream!RemoveAt(q, 1) = SubSeq(q, 1, 0) \o SubSeq(q, 2, Len(q))
  BY DEF Stream!RemoveAt
<1>4. SubSeq(q, 1, 0) = <<>>
  BY SubSeqEmpty
<1>5. Tail(q) = SubSeq(q, 2, Len(q))
  BY TailIsSubSeq
<1>6. <<>> \o Tail(q) = Tail(q)
  BY <1>1, ConcatEmptySeq
<1>7. q = one(Head(q)) \o Tail(q)
  BY <1>2 DEF one
<1> QED
  BY <1>1, <1>2, <1>3, <1>4, <1>5, <1>6, <1>7

(* r is what is left of q without one of its frames, f.                     *)
without(q, f, r) ==
    /\ \A P : meets(q, P) <=> f \in P \/ meets(r, P)
    /\ \A c : nums(q, c) = nums(one(f), c) \cup nums(r, c)
    /\ \A c, R : ranked(q, c, R) => ranked(r, c, R)
    /\ \A c : single(q, c) => nums(one(f), c) \cap nums(r, c) = {}

LEMMA FrameTaken ==
    ASSUME NEW S, NEW q \in Seq(S), NEW i \in DOMAIN q
    PROVE  /\ q[i] \in S /\ Stream!RemoveAt(q, i) \in Seq(S)
           /\ without(q, q[i], Stream!RemoveAt(q, i))
<1> DEFINE r == Stream!RemoveAt(q, i)
           n == Len(q)
           a == SubSeq(q, 1, i - 1)
           b == SubSeq(q, i + 1, n)
<1>1. n \in Nat /\ DOMAIN q = 1 .. n /\ i \in 1 .. n /\ \A k \in 1 .. n : q[k] \in S
  BY LenProperties, ElementOfSeq
<1>2. /\ a \in Seq(S) /\ Len(a) = i - 1 /\ \A k \in 1 .. i - 1 : a[k] = q[k]
  <2>1. 1 \in Int /\ i - 1 \in Int /\ \A k \in 1 .. i - 1 : q[k] \in S
    BY <1>1
  <2>2. /\ a \in Seq(S)
        /\ Len(a) = IF 1 <= i - 1 THEN i - 1 - 1 + 1 ELSE 0
        /\ \A k \in 1 .. i - 1 - 1 + 1 : a[k] = q[1 + k - 1]
    BY <2>1, SubSeqProperties
  <2>3. \A k \in 1 .. i - 1 : k \in 1 .. i - 1 - 1 + 1 /\ 1 + k - 1 = k
    BY <1>1
  <2>4. Len(a) = i - 1
    BY <1>1, <2>2
  <2> QED
    BY <2>2, <2>3, <2>4
<1>3. /\ b \in Seq(S) /\ Len(b) = n - i /\ \A k \in 1 .. n - i : b[k] = q[i + k]
  <2>1. i + 1 \in Int /\ n \in Int /\ \A k \in i + 1 .. n : q[k] \in S
    BY <1>1
  <2>2. /\ b \in Seq(S)
        /\ Len(b) = IF i + 1 <= n THEN n - (i + 1) + 1 ELSE 0
        /\ \A k \in 1 .. n - (i + 1) + 1 : b[k] = q[i + 1 + k - 1]
    BY <2>1, SubSeqProperties
  <2>3. \A k \in 1 .. n - i : k \in 1 .. n - (i + 1) + 1 /\ i + 1 + k - 1 = i + k
    BY <1>1
  <2>4. Len(b) = n - i
    BY <1>1, <2>2
  <2> QED
    BY <2>2, <2>3, <2>4
<1>4. r = a \o b
  BY DEF Stream!RemoveAt
<1>5. r \in Seq(S)
  BY <1>2, <1>3, <1>4, ConcatProperties
<1>7. /\ Len(r) = n - 1
      /\ \A k \in 1 .. n - 1 : r[k] = IF k < i THEN q[k] ELSE q[k + 1]
  <2> HIDE DEF r, a, b
  <2>0. /\ Len(a \o b) = Len(a) + Len(b)
        /\ \A k \in 1 .. Len(a) + Len(b) :
              (a \o b)[k] = IF k <= Len(a) THEN a[k] ELSE b[k - Len(a)]
    BY <1>2, <1>3, ConcatProperties
  <2>1. /\ Len(r) = (i - 1) + (n - i)
        /\ \A k \in 1 .. (i - 1) + (n - i) : r[k] = IF k <= i - 1 THEN a[k] ELSE b[k - (i - 1)]
    BY <1>2, <1>3, <1>4, <2>0
  <2>2. Len(r) = n - 1
    BY <1>1, <2>1
  <2> SUFFICES ASSUME NEW k \in 1 .. n - 1 PROVE r[k] = IF k < i THEN q[k] ELSE q[k + 1]
    BY <2>2
  <2>3. CASE k < i
    <3>1. k \in 1 .. i - 1 /\ k <= i - 1 /\ k \in 1 .. (i - 1) + (n - i)
      BY <1>1, <2>3
    <3> QED
      BY <1>2, <2>1, <2>3, <3>1
  <2>4. CASE ~ k < i
    <3>1. k - (i - 1) \in 1 .. n - i /\ ~ k <= i - 1 /\ k \in 1 .. (i - 1) + (n - i)
          /\ i + (k - (i - 1)) = k + 1
      BY <1>1, <2>4
    <3>2. r[k] = b[k - (i - 1)]
      BY <2>1, <3>1
    <3> QED
      BY <1>3, <2>4, <3>1, <3>2
  <2> QED
    BY <2>3, <2>4
<1>8. DOMAIN r = 1 .. n - 1
  BY <1>5, <1>7, LenProperties
<1> HIDE DEF r, n, a, b
\* Where the frames of r stood, and where those of q went.
<1>9. \A k \in DOMAIN r : \E l \in DOMAIN q : l # i /\ r[k] = q[l] /\ l = IF k < i THEN k ELSE k + 1
  <2> SUFFICES ASSUME NEW k \in 1 .. n - 1
               PROVE  \E l \in 1 .. n : l # i /\ r[k] = q[l] /\ l = IF k < i THEN k ELSE k + 1
    BY <1>1, <1>8
  <2>1. (IF k < i THEN k ELSE k + 1) \in 1 .. n /\ (IF k < i THEN k ELSE k + 1) # i
    BY <1>1
  <2> QED
    BY <1>7, <2>1
<1>10. \A l \in DOMAIN q : l # i => \E k \in DOMAIN r : r[k] = q[l]
  <2> SUFFICES ASSUME NEW l \in 1 .. n, l # i PROVE \E k \in 1 .. n - 1 : r[k] = q[l]
    BY <1>1, <1>8
  <2>1. CASE l < i
    <3>1. l \in 1 .. n - 1
      BY <1>1, <2>1
    <3> QED
      BY <1>7, <2>1, <3>1
  <2>2. CASE i < l
    <3>1. l - 1 \in 1 .. n - 1 /\ ~ l - 1 < i /\ (l - 1) + 1 = l
      BY <1>1, <2>2
    <3> QED
      BY <1>7, <3>1
  <2> QED
    BY <1>1, <2>1, <2>2
<1>11. \A P : meets(q, P) <=> q[i] \in P \/ meets(r, P)
  BY <1>9, <1>10 DEF meets
<1>12. ASSUME NEW c PROVE nums(q, c) = nums(one(q[i]), c) \cup nums(r, c)
  <2>1. nums(one(q[i]), c) = IF q[i] \in Of("chunk", c) THEN {q[i].seq} ELSE {}
    BY OneFrame
  <2>2. nums(q, c) \subseteq nums(one(q[i]), c) \cup nums(r, c)
    BY <1>10, <2>1 DEF nums
  <2>3. nums(r, c) \subseteq nums(q, c)
    BY <1>9 DEF nums
  <2>4. nums(one(q[i]), c) \subseteq nums(q, c)
    BY <2>1 DEF nums
  <2> QED
    BY <2>2, <2>3, <2>4
<1>13. ASSUME NEW c, NEW R, ranked(q, c, R) PROVE ranked(r, c, R)
  <2> SUFFICES ASSUME NEW k \in DOMAIN r, NEW l \in DOMAIN r, k < l,
                      r[k] \in Of("chunk", c), r[l] \in Of("chunk", c)
               PROVE  <<r[k].seq, r[l].seq>> \in R
    BY DEF ranked
  <2>1. PICK x \in DOMAIN q : r[k] = q[x] /\ x = IF k < i THEN k ELSE k + 1
    BY <1>9
  <2>2. PICK y \in DOMAIN q : r[l] = q[y] /\ y = IF l < i THEN l ELSE l + 1
    BY <1>9
  <2>3. x < y
    BY <1>1, <1>8, <2>1, <2>2
  <2> QED
    BY <1>13, <2>1, <2>2, <2>3 DEF ranked
<1>14. ASSUME NEW c, single(q, c) PROVE nums(one(q[i]), c) \cap nums(r, c) = {}
  <2>1. nums(one(q[i]), c) = IF q[i] \in Of("chunk", c) THEN {q[i].seq} ELSE {}
    BY OneFrame
  <2> SUFFICES ASSUME q[i] \in Of("chunk", c), NEW k \in DOMAIN r, r[k] \in Of("chunk", c),
                      r[k].seq = q[i].seq
               PROVE  FALSE
    BY <2>1 DEF nums
  <2>2. PICK l \in DOMAIN q : l # i /\ r[k] = q[l]
    BY <1>9
  <2>3. l < i \/ i < l
    BY <1>1, <2>2
  <2>4. <<q[l].seq, q[i].seq>> \in Unequal \/ <<q[i].seq, q[l].seq>> \in Unequal
    BY <1>14, <2>2, <2>3 DEF single, ranked
  <2> QED
    BY <2>2, <2>4 DEF Unequal
<1>15. r \in Seq(S) /\ q[i] \in S
  BY <1>1, <1>5
<1> QED
  BY <1>11, <1>12, <1>13, <1>14, <1>15 DEF r, without

LEMMA HeadTaken ==
    ASSUME NEW S, NEW q \in Seq(S), q # <<>>
    PROVE  without(q, Head(q), Tail(q))
<1>1. 1 \in DOMAIN q /\ q[1] = Head(q) /\ Stream!RemoveAt(q, 1) = Tail(q)
  BY FirstAndRest
<1>2. without(q, q[1], Stream!RemoveAt(q, 1))
  BY <1>1, FrameTaken
<1> QED
  BY <1>1, <1>2

(* What a socket that closes leaves.                                        *)
LEMMA CutOff ==
    ASSUME NEW S, NEW q \in Seq(S), NEW r \in Seq(S), NEW p, p = q \o r
    PROVE  /\ \A P : meets(q, P) => meets(p, P)
           /\ \A c : nums(q, c) \subseteq nums(p, c)
           /\ \A c, R : ranked(p, c, R) => ranked(q, c, R)
<1>1. \A P : meets(q, P) => meets(p, P)
  BY JoinMeets
<1>2. \A c : nums(q, c) \subseteq nums(p, c)
  BY JoinNums
<1>3. \A c, R : ranked(p, c, R) => ranked(q, c, R)
  BY JoinRanked
<1> QED
  BY <1>1, <1>2, <1>3

-----------------------------------------------------------------------------
(* The frames on their way: up to the server, down from it, and kept by the *)
(* winner for want of a waiter (connection.ts 344-352).                     *)

fromWinner == up["winner"]
fromOwner == up["owner"]
toWinner == down["winner"]
toOwner == down["owner"]
kept == backlog["chunk"]

OfType(t) == {f \in Stream!Frame : f.type = t}
FramesOf(c) == {f \in Stream!Frame : f.call = c}

(* Who sends what: the winner a request(i) and the ends it forwards, the owner *)
(* its agreement and its answer, the server what it forwards to each.       *)
Numbered == {f \in Stream!Frame : f.type = "chunk" <=> f.seq > 0}
FromWinner == OfType("reserve") \cup OfType("terminal")
FromOwner == (OfType("preflight_ok") \cup OfType("chunk") \cup OfType("terminal")) \cap Numbered
ToWinner == (OfType("started") \cup OfType("chunk") \cup OfType("terminal")) \cap Numbered
ToOwner == OfType("reserve") \cup OfType("started") \cup OfType("abort")

(* What waitType may have handed the stream of c at each of its awaits.     *)
InHand(c) ==
    CASE at[c] = "start" -> {Stream!NoFrame} \cup OfType("started")
      [] at[c] = "next" -> {Stream!NoFrame} \cup
                           ((OfType("chunk") \cup OfType("terminal")) \cap Numbered)
      [] OTHER -> {Stream!NoFrame}

Queue(t) == OfType(t) \cap Numbered

(* Types of what the winner, the owner, the server and the network hold.    *)
WinnerTyped ==
    /\ at \in [Calls -> Stream!At]
    /\ held \in [Calls -> Stream!Frame \cup {Stream!NoFrame}]
    /\ \A c \in Calls : held[c] \in InHand(c)
    /\ got \in [Calls -> Seq(1 .. Chunks)]
    /\ cancelled \subseteq stopped /\ stopped \subseteq Calls
    /\ waiter \in [Stream!Types -> Calls \cup {Unheld}]
    /\ waiter["chunk"] = waiter["terminal"]
    /\ backlog = [t \in Stream!Types |-> backlog[t]]
    /\ \A t \in Stream!Types : backlog[t] \in Seq(Queue(t))
    /\ endedBy \in [Calls -> Stream!Frame \cup {Stream!NoFrame}]
    /\ came \in [Calls -> Seq(0 .. Chunks)] /\ serial \in BOOLEAN

OwnerTyped ==
    /\ fulfil \in [Calls -> {"none", "start", "rejected", "started", "stream", "ended"}]
    /\ chunksSent \in [Calls -> 0 .. Chunks]
    /\ ownerWaiter \in Calls \cup {Unheld}
    /\ ownerBacklog \in Seq(Calls)

ServerTyped ==
    /\ reserved \subseteq Calls /\ IsFiniteSet(reserved)
    /\ finished \subseteq reserved /\ charged \subseteq reserved
    /\ slot \in {0, 1}

UpTyped ==
    /\ up = [d \in Stream!Devices |-> up[d]]
    /\ fromWinner \in Seq(FromWinner) /\ fromOwner \in Seq(FromOwner)

DownTyped ==
    /\ down = [d \in Stream!Devices |-> down[d]]
    /\ toWinner \in Seq(ToWinner) /\ toOwner \in Seq(ToOwner)

NetTyped ==
    /\ UpTyped /\ DownTyped
    /\ hungUp \in Nat /\ closed \in [Stream!Devices -> Nat]
    /\ online \subseteq Stream!Devices

(* A call the server has no row of is unknown to the owner, and the winner  *)
(* was sent nothing of it.                                                  *)
Unknown(c) ==
    c \notin reserved =>
        /\ fulfil[c] = "none" /\ came[c] = <<>>
        /\ ~ meets(fromOwner, FramesOf(c)) /\ ~ meets(toOwner, Of("reserve", c))
        /\ ~ meets(toWinner, FramesOf(c))

(* The type of the whole, an inductive one.                                 *)
StreamTyped ==
    /\ WinnerTyped /\ OwnerTyped /\ ServerTyped /\ NetTyped
    /\ \A c \in Calls : Unknown(c)

LEMMA StreamNumbers ==
    /\ Unheld \notin Calls
    /\ OpenStreams \in Nat /\ Overtaking \in Nat /\ Chunks \in Nat /\ Drops \in Nat
    /\ 1 .. Chunks \subseteq 0 .. Chunks
  BY StreamConstants DEF Stream!StreamAssumption

LEMMA NoFrameIs ==
    /\ Stream!NoFrame.type = "" /\ Stream!NoFrame.call = Unheld /\ Stream!NoFrame.seq = 0
    /\ Stream!NoFrame \notin Stream!Frame
<1>1. /\ Stream!NoFrame.type = "" /\ Stream!NoFrame.call = Unheld /\ Stream!NoFrame.seq = 0
  BY DEF Stream!NoFrame
<1>2. \A f \in Stream!Frame : f.type # ""
  BY DEF Stream!Frame
<1> QED
  BY <1>1, <1>2

LEMMA FramesMade ==
    ASSUME NEW c \in Calls
    PROVE  /\ \A t \in {"reserve", "preflight_ok", "started", "terminal", "abort"} :
                /\ Stream!plain(t, c) \in Of(t, c)
                /\ Stream!plain(t, c) \in Queue(t)
                /\ Stream!plain(t, c).type = t /\ Stream!plain(t, c).call = c
           /\ \A n \in 1 .. Chunks :
                /\ Stream!chunk(c, n) \in Of("chunk", c)
                /\ Stream!chunk(c, n) \in Queue("chunk")
                /\ Stream!chunk(c, n).type = "chunk" /\ Stream!chunk(c, n).call = c
                /\ Stream!chunk(c, n).seq = n
  BY StreamNumbers DEF Stream!plain, Stream!chunk, Stream!Frame, Of, OfType, Queue, Numbered

(* waitType.                                                                *)

others(c) == \A d \in Calls : d # c => at'[d] = at[d] /\ held'[d] = held[d]

LEMMA WaitStart ==
    ASSUME WinnerTyped, NEW c \in Calls, Stream!waitType(c, "start", {"started"})
    PROVE  /\ at' = [at EXCEPT ![c] = "start"] /\ others(c)
           /\ at'[c] = "start" /\ waiter'["chunk"] = waiter["chunk"]
           /\ waiter'["terminal"] = waiter["terminal"]
           /\ backlog'["chunk"] = backlog["chunk"] /\ backlog'["terminal"] = backlog["terminal"]
           /\ held'[c] \in {Stream!NoFrame} \cup Queue("started")
<1> DEFINE ts == {"started"}
<1>1. /\ DOMAIN at = Calls /\ DOMAIN held = Calls /\ DOMAIN backlog = Stream!Types
      /\ Stream!Types = {"started", "chunk", "terminal"}
  BY DEF WinnerTyped, Stream!Types
<1>2. at' = [at EXCEPT ![c] = "start"]
  BY DEF Stream!waitType
<1>3. CASE Stream!queued(ts) = {}
  <2>1. /\ waiter' = [t \in Stream!Types |-> IF t \in ts THEN c ELSE waiter[t]]
        /\ held' = [held EXCEPT ![c] = Stream!NoFrame] /\ backlog' = backlog
    BY <1>3 DEF Stream!waitType
  <2> QED
    BY <1>1, <1>2, <2>1 DEF others
<1>4. CASE Stream!queued(ts) # {}
  <2>1. Stream!queued(ts) = {"started"} /\ backlog["started"] # <<>>
    BY <1>4 DEF Stream!queued
  <2>2. Stream!firstOf({"started"}) = "started"
    BY DEF Stream!firstOf
  <2>3. /\ held' = [held EXCEPT ![c] = Head(backlog["started"])]
        /\ backlog' = [backlog EXCEPT !["started"] = Tail(@)] /\ waiter' = waiter
    BY <1>4, <2>1, <2>2 DEF Stream!waitType
  <2>4. Head(backlog["started"]) \in Queue("started")
    BY <1>1, <2>1, FirstAndRest DEF WinnerTyped
  <2> QED
    BY <1>1, <1>2, <2>3, <2>4 DEF others
<1> QED
  BY <1>3, <1>4

LEMMA WaitNext ==
    ASSUME WinnerTyped, NEW c \in Calls, Stream!waitType(c, "next", {"chunk", "terminal"})
    PROVE  /\ at' = [at EXCEPT ![c] = "next"] /\ others(c)
           /\ at'[c] = "next" /\ waiter'["started"] = waiter["started"]
           /\ backlog'["started"] = backlog["started"]
           /\ \/ /\ kept = <<>> /\ backlog["terminal"] = <<>>
                 /\ waiter'["chunk"] = c /\ waiter'["terminal"] = c
                 /\ held'[c] = Stream!NoFrame /\ backlog' = backlog
              \/ /\ kept # <<>>
                 /\ held'[c] = Head(kept) /\ kept' = Tail(kept)
                 /\ backlog'["terminal"] = backlog["terminal"] /\ waiter' = waiter
              \/ /\ kept = <<>> /\ backlog["terminal"] # <<>>
                 /\ held'[c] = Head(backlog["terminal"]) /\ kept' = kept
                 /\ backlog'["terminal"] = Tail(backlog["terminal"]) /\ waiter' = waiter
<1> DEFINE ts == {"chunk", "terminal"}
<1>1. /\ DOMAIN at = Calls /\ DOMAIN held = Calls /\ DOMAIN backlog = Stream!Types
      /\ Stream!Types = {"started", "chunk", "terminal"}
  BY DEF WinnerTyped, Stream!Types
<1>2. at' = [at EXCEPT ![c] = "next"]
  BY DEF Stream!waitType
<1>3. CASE Stream!queued(ts) = {}
  <2>1. /\ waiter' = [t \in Stream!Types |-> IF t \in ts THEN c ELSE waiter[t]]
        /\ held' = [held EXCEPT ![c] = Stream!NoFrame] /\ backlog' = backlog
    BY <1>3 DEF Stream!waitType
  <2>2. kept = <<>> /\ backlog["terminal"] = <<>>
    BY <1>3 DEF Stream!queued, kept
  <2> QED
    BY <1>1, <1>2, <2>1, <2>2 DEF others
<1>4. CASE kept # <<>>
  <2>1. "chunk" \in Stream!queued(ts)
    BY <1>4 DEF Stream!queued, kept
  <2>2. Stream!firstOf(Stream!queued(ts)) = "chunk"
    BY <2>1 DEF Stream!firstOf
  <2>3. /\ held' = [held EXCEPT ![c] = Head(backlog["chunk"])]
        /\ backlog' = [backlog EXCEPT !["chunk"] = Tail(@)] /\ waiter' = waiter
    BY <2>1, <2>2 DEF Stream!waitType
  <2> QED
    BY <1>1, <1>2, <1>4, <2>3 DEF others, kept
<1>5. CASE kept = <<>> /\ Stream!queued(ts) # {}
  <2>1. Stream!queued(ts) = {"terminal"} /\ backlog["terminal"] # <<>>
    BY <1>5 DEF Stream!queued, kept
  <2>2. Stream!firstOf({"terminal"}) = "terminal"
    BY DEF Stream!firstOf
  <2>3. /\ held' = [held EXCEPT ![c] = Head(backlog["terminal"])]
        /\ backlog' = [backlog EXCEPT !["terminal"] = Tail(@)] /\ waiter' = waiter
    BY <1>5, <2>1, <2>2 DEF Stream!waitType
  <2> QED
    BY <1>1, <1>2, <1>5, <2>1, <2>3 DEF others, kept
<1> QED
  BY <1>3, <1>4, <1>5

(* Frames that are sent, forwarded and taken.                               *)

LEMMA SayEffect ==
    ASSUME UpTyped, NEW fs, NEW d \in Stream!Devices, Stream!Say(d, fs)
    PROVE  /\ d = "winner" => /\ fromOwner' = fromOwner
                              /\ fromWinner' = IF "winner" \in online THEN fromWinner \o fs
                                                                      ELSE fromWinner
           /\ d = "owner" => /\ fromWinner' = fromWinner
                             /\ fromOwner' = IF "owner" \in online THEN fromOwner \o fs
                                                                   ELSE fromOwner
  BY DEF NetTyped, UpTyped, DownTyped, Stream!Say, Stream!Devices, fromWinner, fromOwner

LEMMA SayTyped ==
    ASSUME UpTyped, NEW fs, NEW d \in Stream!Devices, Stream!Say(d, fs),
           d = "winner" => fs \in Seq(FromWinner), d = "owner" => fs \in Seq(FromOwner)
    PROVE  UpTyped'
<1>1. up' = [e \in Stream!Devices |-> up'[e]]
  BY DEF UpTyped, Stream!Say
<1>2. CASE d = "winner"
  <2>1. fromWinner \o fs \in Seq(FromWinner)
    BY <1>2, ConcatProperties DEF UpTyped
  <2> QED
    BY <1>1, <1>2, <2>1, SayEffect DEF UpTyped
<1>3. CASE d = "owner"
  <2>1. fromOwner \o fs \in Seq(FromOwner)
    BY <1>3, ConcatProperties DEF UpTyped
  <2> QED
    BY <1>1, <1>3, <2>1, SayEffect DEF UpTyped
<1> QED
  BY <1>2, <1>3 DEF Stream!Devices

LEMMA TakeEffect ==
    ASSUME UpTyped, NEW d \in Stream!Devices, NEW i \in DOMAIN up[d], Stream!Taken(d, i)
    PROVE  /\ up' = [e \in Stream!Devices |-> up'[e]]
           /\ d = "winner" => /\ fromOwner' = fromOwner
                              /\ fromWinner' = Stream!RemoveAt(fromWinner, i)
           /\ d = "owner" => /\ fromWinner' = fromWinner
                             /\ fromOwner' = Stream!RemoveAt(fromOwner, i)
  BY DEF UpTyped, Stream!Taken, Stream!Devices, fromWinner, fromOwner

LEMMA ForwardEffect ==
    ASSUME DownTyped, NEW fs, NEW d \in Stream!Devices, down' = Stream!Forward(d, fs)
    PROVE  /\ down' = [e \in Stream!Devices |-> down'[e]]
           /\ d = "winner" => /\ toOwner' = toOwner
                              /\ toWinner' = IF "winner" \in online THEN toWinner \o fs
                                                                    ELSE toWinner
           /\ d = "owner" => /\ toWinner' = toWinner
                             /\ toOwner' = IF "owner" \in online THEN toOwner \o fs
                                                                 ELSE toOwner
  BY DEF NetTyped, UpTyped, DownTyped, Stream!Forward, Stream!Devices, toWinner, toOwner

LEMMA ForwardBothEffect ==
    ASSUME DownTyped, NEW fw, NEW fo,
           down' = [d \in Stream!Devices |->
                       Stream!Forward(d, IF d = "owner" THEN fo ELSE fw)[d]]
    PROVE  /\ down' = [e \in Stream!Devices |-> down'[e]]
           /\ toWinner' = IF "winner" \in online THEN toWinner \o fw ELSE toWinner
           /\ toOwner' = IF "owner" \in online THEN toOwner \o fo ELSE toOwner
<1>1. "winner" \in Stream!Devices /\ "owner" \in Stream!Devices /\ "winner" # "owner"
  BY DEF Stream!Devices
<1>2. /\ down'["winner"] = Stream!Forward("winner", fw)["winner"]
      /\ down'["owner"] = Stream!Forward("owner", fo)["owner"]
  BY <1>1
<1>3. down' = [e \in Stream!Devices |-> down'[e]]
  OBVIOUS
<1> QED
  BY <1>1, <1>2, <1>3 DEF NetTyped, UpTyped, DownTyped, Stream!Forward, toWinner, toOwner

-----------------------------------------------------------------------------
(* Types of the streams.                                                    *)

WinnerMoves(c) ==
    \/ Stream!StreamAsWinner(c) \/ Stream!StreamAborted(c) \/ Stream!Cancel(c)
    \/ Stream!Started(c) \/ Stream!YieldChunk(c) \/ Stream!ForeignChunk(c) \/ Stream!Terminal(c)
    \/ Stream!ReadOn(c) \/ Stream!WinnerTimeout(c)

OwnerMoves(c) ==
    \/ Stream!OwnerRejected(c) \/ Stream!OwnerTimeout(c) \/ Stream!OwnerStarts(c)
    \/ Stream!OwnerChunk(c) \/ Stream!ProviderEnds(c)

LEMMA RemoteMoves ==
    ASSUME Stream!Next
    PROVE  \/ \E c \in Calls : WinnerMoves(c) \/ OwnerMoves(c)
           \/ Stream!WinnerReceives \/ Stream!OwnerReceives
           \/ Stream!ServerStep \/ Stream!SocketStep
  BY DEF Stream!Next, Stream!HostStep, Stream!WinnerResumes, Stream!OwnerResumes, WinnerMoves,
         OwnerMoves

LEMMA WinnerAlone ==
    ASSUME NEW c \in Calls, WinnerMoves(c)
    PROVE  UNCHANGED <<Stream!owner, Stream!server, down, online, hungUp, closed>>
  BY DEF WinnerMoves, Stream!StreamAsWinner, Stream!StreamAborted, Stream!Cancel,
         Stream!Started, Stream!YieldChunk, Stream!ForeignChunk, Stream!Terminal,
         Stream!ReadOn, Stream!WinnerTimeout, Stream!net

LEMMA WinnerKeepsArrivals ==
    ASSUME NEW c \in Calls, WinnerMoves(c)
    PROVE  came' = came
  BY DEF WinnerMoves, Stream!StreamAsWinner, Stream!StreamAborted, Stream!Cancel,
         Stream!Started, Stream!YieldChunk, Stream!ForeignChunk, Stream!Terminal,
         Stream!ReadOn, Stream!WinnerTimeout

LEMMA OwnerAlone ==
    ASSUME NEW c \in Calls, OwnerMoves(c)
    PROVE  UNCHANGED <<Stream!stream, Stream!server, down, online, hungUp, closed>>
  BY DEF OwnerMoves, Stream!OwnerRejected, Stream!OwnerTimeout, Stream!OwnerStarts,
         Stream!OwnerChunk, Stream!ProviderEnds, Stream!OwnerEnds, Stream!net

LEMMA ServerAlone ==
    ASSUME Stream!ServerStep
    PROVE  UNCHANGED <<Stream!stream, Stream!owner, online, closed>>
  BY DEF Stream!ServerStep, Stream!ForwardReserve, Stream!ForwardRelayTerminal,
         Stream!ForwardPreflight, Stream!ForwardRelayChunk, Stream!AbortWinnerRelays,
         Stream!Taken

LEMMA WinnerStays ==
    ASSUME WinnerTyped, UNCHANGED Stream!stream
    PROVE  WinnerTyped'
  BY DEF WinnerTyped, Stream!stream, InHand

LEMMA WinnerInit ==
    ASSUME Stream!Init PROVE WinnerTyped
<1>1. /\ <<>> \in Seq(1 .. Chunks) /\ <<>> \in Seq(0 .. Chunks)
      /\ \A t \in Stream!Types : <<>> \in Seq(Queue(t))
  BY EmptySeq
<1>2. at = [c \in Calls |-> "new"] /\ held = [c \in Calls |-> Stream!NoFrame]
  BY DEF Stream!Init
<1>3. \A c \in Calls : held[c] \in InHand(c)
  BY <1>2 DEF InHand
<1> QED
  BY <1>1, <1>2, <1>3 DEF WinnerTyped, Stream!Init, Stream!At, Stream!Types

(* A frame the winner is handed, by waitType or by a socket.                *)
LEMMA HandsTyped ==
    ASSUME WinnerTyped, NEW c \in Calls, others(c), at' \in [Calls -> Stream!At],
           held' \in [Calls -> Stream!Frame \cup {Stream!NoFrame}], held'[c] \in InHand(c)'
    PROVE  \A d \in Calls : held'[d] \in InHand(d)'
  BY DEF WinnerTyped, others, InHand

LEMMA WaitsTyped ==
    ASSUME WinnerTyped, NEW c \in Calls,
           \/ Stream!waitType(c, "start", {"started"})
           \/ Stream!waitType(c, "next", {"chunk", "terminal"}),
           got' \in [Calls -> Seq(1 .. Chunks)], UNCHANGED <<cancelled, stopped, endedBy>>,
           came' = came, serial' \in BOOLEAN
    PROVE  WinnerTyped'
<1>1. Stream!Types = {"started", "chunk", "terminal"} /\ {"start", "next"} \subseteq Stream!At
  BY DEF Stream!Types, Stream!At
<1>2. \A t \in Stream!Types : backlog[t] # <<>> =>
          Head(backlog[t]) \in Queue(t) /\ Tail(backlog[t]) \in Seq(Queue(t))
  BY FirstAndRest DEF WinnerTyped
<1>3. at' \in [Calls -> Stream!At]
  BY <1>1 DEF WinnerTyped, Stream!waitType
<1>4. \A t \in Stream!Types : Queue(t) \subseteq Stream!Frame
  BY DEF Queue, OfType
<1>5. \E ts \in {{"started"}, {"chunk", "terminal"}} :
          \E s \in {"start", "next"} : Stream!waitType(c, s, ts)
  OBVIOUS
<1>6. PICK ts \in {{"started"}, {"chunk", "terminal"}}, s \in {"start", "next"} :
          Stream!waitType(c, s, ts)
  BY <1>5
<1>7. /\ held' = [held EXCEPT ![c] = held'[c]]
      /\ backlog' = [t \in Stream!Types |-> backlog'[t]]
      /\ waiter' \in [Stream!Types -> Calls \cup {Unheld}]
  <2>1. /\ \E f : held' = [held EXCEPT ![c] = f]
        /\ backlog' = backlog \/ \E t, q : backlog' = [backlog EXCEPT ![t] = q]
        /\ \/ waiter' = waiter
           \/ waiter' = [t \in Stream!Types |-> IF t \in ts THEN c ELSE waiter[t]]
    BY <1>6 DEF Stream!waitType
  <2>2. held' = [held EXCEPT ![c] = held'[c]]
    BY <2>1 DEF WinnerTyped
  <2>3. backlog' = [t \in Stream!Types |-> backlog'[t]]
    BY <2>1 DEF WinnerTyped
  <2>4. waiter' \in [Stream!Types -> Calls \cup {Unheld}]
    BY <2>1 DEF WinnerTyped
  <2> QED
    BY <2>2, <2>3, <2>4
<1>8. CASE Stream!waitType(c, "start", {"started"})
  <2>1. /\ at'[c] = "start" /\ others(c) /\ waiter'["chunk"] = waiter["chunk"]
        /\ waiter'["terminal"] = waiter["terminal"]
        /\ backlog'["chunk"] = backlog["chunk"] /\ backlog'["terminal"] = backlog["terminal"]
        /\ held'[c] \in {Stream!NoFrame} \cup Queue("started")
    BY <1>8, WaitStart
  <2>2. backlog'["started"] \in Seq(Queue("started"))
    <3>1. "chunk" \notin Stream!queued({"started"})
      BY DEF Stream!queued
    <3>2. \/ backlog' = backlog
          \/ /\ backlog["started"] # <<>>
             /\ backlog' = [backlog EXCEPT !["started"] = Tail(@)]
      <4>1. CASE Stream!queued({"started"}) = {}
        BY <1>8, <4>1 DEF Stream!waitType
      <4>2. CASE Stream!queued({"started"}) # {}
        <5>1. Stream!queued({"started"}) = {"started"} /\ backlog["started"] # <<>>
          BY <4>2 DEF Stream!queued
        <5>2. Stream!firstOf({"started"}) = "started"
          BY DEF Stream!firstOf
        <5> QED
          BY <1>8, <5>1, <5>2 DEF Stream!waitType
      <4> QED
        BY <4>1, <4>2
    <3>3. "started" \in DOMAIN backlog
      BY <1>1 DEF WinnerTyped
    <3> QED
      BY <1>1, <1>2, <3>2, <3>3 DEF WinnerTyped
  <2>3. held'[c] \in InHand(c)'
    BY <2>1 DEF InHand, Queue
  <2>4. held' \in [Calls -> Stream!Frame \cup {Stream!NoFrame}]
    BY <1>1, <1>4, <1>7, <2>1 DEF WinnerTyped
  <2>5. \A d \in Calls : held'[d] \in InHand(d)'
    BY <1>3, <2>1, <2>3, <2>4, HandsTyped
  <2> QED
    BY <1>1, <1>3, <1>7, <2>1, <2>2, <2>4, <2>5 DEF WinnerTyped
<1>9. CASE Stream!waitType(c, "next", {"chunk", "terminal"})
  <2>1. /\ at'[c] = "next" /\ others(c) /\ backlog'["started"] = backlog["started"]
        /\ \/ /\ waiter'["chunk"] = c /\ waiter'["terminal"] = c
              /\ held'[c] = Stream!NoFrame /\ backlog' = backlog
           \/ /\ kept # <<>>
              /\ held'[c] = Head(kept) /\ kept' = Tail(kept)
              /\ backlog'["terminal"] = backlog["terminal"] /\ waiter' = waiter
           \/ /\ backlog["terminal"] # <<>>
              /\ held'[c] = Head(backlog["terminal"]) /\ kept' = kept
              /\ backlog'["terminal"] = Tail(backlog["terminal"]) /\ waiter' = waiter
    BY <1>9, WaitNext
  <2>2. /\ held'[c] \in {Stream!NoFrame} \cup Queue("chunk") \cup Queue("terminal")
        /\ \A t \in Stream!Types : backlog'[t] \in Seq(Queue(t))
        /\ waiter'["chunk"] = waiter'["terminal"]
    BY <1>1, <1>2, <2>1 DEF WinnerTyped, kept
  <2>3. held'[c] \in InHand(c)'
    BY <2>1, <2>2 DEF InHand, Queue
  <2>4. held' \in [Calls -> Stream!Frame \cup {Stream!NoFrame}]
    BY <1>1, <1>4, <1>7, <2>2 DEF WinnerTyped
  <2>5. \A d \in Calls : held'[d] \in InHand(d)'
    BY <1>3, <2>1, <2>3, <2>4, HandsTyped
  <2> QED
    BY <1>1, <1>3, <1>7, <2>2, <2>4, <2>5 DEF WinnerTyped
<1> QED
  BY <1>8, <1>9

LEMMA HandsStay ==
    ASSUME WinnerTyped, at' \in [Calls -> Stream!At],
           held' \in [Calls -> Stream!Frame \cup {Stream!NoFrame}],
           \A d \in Calls : \/ at'[d] = at[d] /\ held'[d] = held[d]
                            \/ held'[d] = Stream!NoFrame
    PROVE  \A d \in Calls : held'[d] \in InHand(d)'
  BY DEF WinnerTyped, InHand

(* An action that leaves the backlog, and lets go of frames at most.        *)
LEMMA LetsGoTyped ==
    ASSUME WinnerTyped, at' \in [Calls -> Stream!At],
           held' \in [Calls -> Stream!Frame \cup {Stream!NoFrame}],
           \A d \in Calls : \/ at'[d] = at[d] /\ held'[d] = held[d]
                            \/ held'[d] = Stream!NoFrame,
           got' \in [Calls -> Seq(1 .. Chunks)],
           cancelled' \subseteq stopped' /\ stopped' \subseteq Calls,
           waiter' = waiter \/ waiter' = Stream!NoWaiter, backlog' = backlog,
           endedBy' \in [Calls -> Stream!Frame \cup {Stream!NoFrame}],
           came' = came, serial' \in BOOLEAN
    PROVE  WinnerTyped'
<1>1. \A d \in Calls : held'[d] \in InHand(d)'
  BY HandsStay
<1>2. /\ waiter' \in [Stream!Types -> Calls \cup {Unheld}]
      /\ waiter'["chunk"] = waiter'["terminal"]
  BY DEF WinnerTyped, Stream!NoWaiter, Stream!Types
<1> QED
  BY <1>1, <1>2 DEF WinnerTyped

LEMMA FailsTyped ==
    ASSUME WinnerTyped, Stream!failWaiters
    PROVE  /\ at' \in [Calls -> Stream!At] /\ waiter' = Stream!NoWaiter
           /\ held' = held /\ backlog' = backlog
           /\ \A d \in Calls : IF d \in Stream!pending THEN at'[d] = "returned"
                                                       ELSE at'[d] = at[d]
           /\ \A d \in Calls : \/ at'[d] = at[d] /\ held'[d] = held[d]
                               \/ held'[d] = Stream!NoFrame
  BY DEF WinnerTyped, Stream!failWaiters, Stream!pending, Stream!At

LEMMA ReturnsTyped ==
    ASSUME WinnerTyped, NEW c \in Calls, NEW a \in Stream!At,
           at' = [at EXCEPT ![c] = a], held' = [held EXCEPT ![c] = Stream!NoFrame]
    PROVE  /\ at' \in [Calls -> Stream!At]
           /\ held' \in [Calls -> Stream!Frame \cup {Stream!NoFrame}]
           /\ at'[c] = a /\ held'[c] = Stream!NoFrame /\ others(c)
           /\ \A d \in Calls : \/ at'[d] = at[d] /\ held'[d] = held[d]
                               \/ held'[d] = Stream!NoFrame
  BY DEF WinnerTyped, others

LEMMA WinnerMovesTyped ==
    ASSUME WinnerTyped, NEW c \in Calls, WinnerMoves(c)
    PROVE  WinnerTyped'
<1>0. /\ got \in [Calls -> Seq(1 .. Chunks)] /\ at \in [Calls -> Stream!At]
      /\ held \in [Calls -> Stream!Frame \cup {Stream!NoFrame}]
      /\ cancelled \subseteq stopped /\ stopped \subseteq Calls
      /\ endedBy \in [Calls -> Stream!Frame \cup {Stream!NoFrame}]
      /\ {"returned", "failed", "yield"} \subseteq Stream!At
  BY DEF WinnerTyped, Stream!At
<1>h. came' = came /\ serial' \in BOOLEAN
  BY DEF WinnerMoves, WinnerTyped, Stream!StreamAsWinner, Stream!StreamAborted, Stream!Cancel,
         Stream!Started, Stream!YieldChunk, Stream!ForeignChunk, Stream!Terminal,
         Stream!ReadOn, Stream!WinnerTimeout
<1>1. CASE Stream!StreamAsWinner(c)
  <2>1. Stream!waitType(c, "start", {"started"}) /\ UNCHANGED <<got, cancelled, stopped, endedBy>>
    BY <1>1 DEF Stream!StreamAsWinner
  <2> QED
    BY <1>0, <1>h, <2>1, WaitsTyped
<1>2. CASE Stream!StreamAborted(c)
  <2>1. /\ at' = [d \in Calls |-> IF d \in Stream!pending \cup {c} THEN "returned" ELSE at[d]]
        /\ UNCHANGED <<held, backlog, got, endedBy>> /\ waiter' = Stream!NoWaiter
        /\ cancelled' = cancelled \cup {c} /\ stopped' = stopped \cup {c}
        /\ at[c] = "new"
    BY <1>2 DEF Stream!StreamAborted, Stream!mayStream
  <2>2. held[c] = Stream!NoFrame
    BY <2>1 DEF WinnerTyped, InHand
  <2>3. \A d \in Calls : \/ at'[d] = at[d] /\ held'[d] = held[d]
                         \/ held'[d] = Stream!NoFrame
    BY <2>1, <2>2 DEF Stream!pending
  <2>4. at' \in [Calls -> Stream!At]
    BY <1>0, <2>1
  <2> QED
    BY <1>0, <1>h, <2>1, <2>3, <2>4, LetsGoTyped
<1>3. CASE Stream!Cancel(c)
  <2>1. /\ Stream!failWaiters /\ UNCHANGED <<got, endedBy>>
        /\ cancelled' = cancelled \cup {c} /\ stopped' = stopped \cup {c}
    BY <1>3 DEF Stream!Cancel
  <2> QED
    BY <1>0, <1>h, <2>1, FailsTyped, LetsGoTyped
<1>4. CASE Stream!Started(c) \/ Stream!ReadOn(c)
  <2>1. /\ Stream!returns(c) \/ Stream!waitType(c, "next", {"chunk", "terminal"})
        /\ UNCHANGED <<got, cancelled, stopped, endedBy>>
    BY <1>4 DEF Stream!Started, Stream!ReadOn
  <2>2. CASE Stream!returns(c)
    BY <1>0, <1>h, <2>1, <2>2, ReturnsTyped, LetsGoTyped DEF Stream!returns
  <2> QED
    BY <1>0, <1>h, <2>1, <2>2, WaitsTyped
<1>5. CASE Stream!YieldChunk(c)
  <2>1. held[c].seq \in 1 .. Chunks
    <3>1. held[c].type = "chunk" /\ held[c] \in InHand(c) /\ at[c] = "next"
      BY <1>5 DEF Stream!YieldChunk, WinnerTyped
    <3>2. held[c] \in OfType("chunk") \cap Numbered
      <4>1. held[c] \in {Stream!NoFrame}
                        \cup ((OfType("chunk") \cup OfType("terminal")) \cap Numbered)
        BY <3>1 DEF InHand
      <4>2. held[c] # Stream!NoFrame /\ held[c] \notin OfType("terminal")
        BY <3>1, NoFrameIs DEF OfType
      <4> QED
        BY <4>1, <4>2
    <3>3. held[c].seq \in 0 .. Chunks /\ held[c].seq > 0
      BY <3>1, <3>2 DEF OfType, Numbered, Stream!Frame
    <3> QED
      BY <3>3, StreamNumbers
  <2>2. Append(got[c], held[c].seq) \in Seq(1 .. Chunks)
    BY <1>0, <2>1, AppendProperties
  <2>3. got' \in [Calls -> Seq(1 .. Chunks)]
    BY <1>0, <1>5, <2>2 DEF Stream!YieldChunk
  <2>4. /\ at' = [at EXCEPT ![c] = "yield"] /\ held' = [held EXCEPT ![c] = Stream!NoFrame]
        /\ UNCHANGED <<waiter, backlog, cancelled, stopped, endedBy>>
    BY <1>5 DEF Stream!YieldChunk
  <2> QED
    BY <1>0, <1>h, <2>3, <2>4, ReturnsTyped, LetsGoTyped
<1>6. CASE Stream!ForeignChunk(c)
  <2>1. /\ at' = [at EXCEPT ![c] = "failed"] /\ held' = [held EXCEPT ![c] = Stream!NoFrame]
        /\ UNCHANGED <<got, waiter, backlog, cancelled, stopped, endedBy>>
    BY <1>6 DEF Stream!ForeignChunk
  <2> QED
    BY <1>0, <1>h, <2>1, ReturnsTyped, LetsGoTyped
<1>7. CASE Stream!Terminal(c)
  <2>1. /\ at' = [at EXCEPT ![c] = "returned"] /\ held' = [held EXCEPT ![c] = Stream!NoFrame]
        /\ UNCHANGED <<got, waiter, backlog, cancelled, stopped>>
        /\ endedBy' = [endedBy EXCEPT ![c] = held[c]]
    BY <1>7 DEF Stream!Terminal, Stream!returns
  <2>2. endedBy' \in [Calls -> Stream!Frame \cup {Stream!NoFrame}]
    BY <1>0, <2>1
  <2> QED
    BY <1>0, <1>h, <2>1, <2>2, ReturnsTyped, LetsGoTyped
<1>8. CASE Stream!WinnerTimeout(c)
  <2>1. /\ at' = [at EXCEPT ![c] = "failed"] /\ held[c] = Stream!NoFrame
        /\ UNCHANGED <<held, got, waiter, backlog, cancelled, stopped, endedBy>>
    BY <1>8 DEF Stream!WinnerTimeout, Stream!pending
  <2>2. held' = [held EXCEPT ![c] = Stream!NoFrame]
    BY <1>0, <2>1
  <2> QED
    BY <1>0, <1>h, <2>1, <2>2, ReturnsTyped, LetsGoTyped
<1> QED
  BY <1>1, <1>2, <1>3, <1>4, <1>5, <1>6, <1>7, <1>8 DEF WinnerMoves

LEMMA WinnerDropsTyped ==
    ASSUME WinnerTyped, Stream!WinnerDrops
    PROVE  WinnerTyped'
<1>1. /\ Stream!failWaiters /\ UNCHANGED <<got, cancelled, endedBy, came, serial>>
      /\ stopped' = stopped \cup Stream!streams
  BY DEF Stream!WinnerDrops
<1>2. /\ got \in [Calls -> Seq(1 .. Chunks)] /\ cancelled \subseteq stopped
      /\ held \in [Calls -> Stream!Frame \cup {Stream!NoFrame}] /\ stopped \subseteq Calls
      /\ endedBy \in [Calls -> Stream!Frame \cup {Stream!NoFrame}] /\ serial \in BOOLEAN
  BY DEF WinnerTyped
<1>3. Stream!streams \subseteq Calls
  BY DEF Stream!streams
<1> QED
  BY <1>1, <1>2, <1>3, FailsTyped, LetsGoTyped

(* What a frame does that reaches the winner.                               *)
arrival == Head(toWinner)

LEMMA ReceivesEffect ==
    ASSUME WinnerTyped, NetTyped, Stream!WinnerReceives
    PROVE  /\ toWinner # <<>> /\ toWinner' = Tail(toWinner)
           /\ arrival \in ToWinner /\ arrival \in Queue(arrival.type)
           /\ arrival.type \in Stream!Types
           /\ without(toWinner, arrival, toWinner') /\ toWinner' \in Seq(ToWinner)
           /\ down' = [d \in Stream!Devices |-> down'[d]] /\ toOwner' = toOwner
           /\ UNCHANGED <<at, got, cancelled, stopped, endedBy, serial, Stream!owner, Stream!server,
                          up, online, hungUp, closed>>
           /\ came' = IF arrival.type = "started" THEN came
                      ELSE [came EXCEPT ![arrival.call] = Append(@, arrival.seq)]
           /\ backlog' = [t \in Stream!Types |-> backlog'[t]]
           /\ waiter' \in [Stream!Types -> Calls \cup {Unheld}]
           /\ held' \in [Calls -> Stream!Frame \cup {Stream!NoFrame}]
           /\ \/ /\ waiter[arrival.type] = Unheld
                 /\ waiter' = waiter /\ held' = held
                 /\ backlog'[arrival.type] = backlog[arrival.type] \o one(arrival)
                 /\ \A t \in Stream!Types : t # arrival.type => backlog'[t] = backlog[t]
              \/ /\ waiter[arrival.type] \in Calls
                 /\ backlog' = backlog
                 /\ \A t \in Stream!Types :
                       waiter'[t] = IF t \in Stream!together(arrival.type) THEN Unheld
                                                                           ELSE waiter[t]
                 /\ \A d \in Calls :
                       held'[d] = IF d = waiter[arrival.type] /\ d \in Stream!pending
                                  THEN arrival ELSE held[d]
<1> DEFINE f == arrival
           w == waiter[f.type]
<1>1. /\ toWinner # <<>> /\ toWinner \in Seq(ToWinner) /\ f \in ToWinner
      /\ without(toWinner, f, Tail(toWinner)) /\ Tail(toWinner) \in Seq(ToWinner)
  BY FirstAndRest, HeadTaken
     DEF Stream!WinnerReceives, NetTyped, UpTyped, DownTyped, toWinner, arrival
<1>2. f \in Queue(f.type) /\ f.type \in Stream!Types /\ f \in Stream!Frame
  BY <1>1 DEF ToWinner, Queue, OfType, Stream!Types
<1>3. /\ down' = [down EXCEPT !["winner"] = Tail(@)]
      /\ UNCHANGED <<at, got, cancelled, stopped, endedBy, serial, Stream!owner, Stream!server,
                     up, online, hungUp, closed>>
      /\ came' = IF f.type = "started" THEN came
                  ELSE [came EXCEPT ![f.call] = Append(@, f.seq)]
  BY DEF Stream!WinnerReceives, toWinner, arrival
<1>4. /\ down' = [d \in Stream!Devices |-> down'[d]] /\ toOwner' = toOwner
      /\ toWinner' = Tail(toWinner)
  BY <1>3 DEF NetTyped, UpTyped, DownTyped, toWinner, toOwner, Stream!Devices
<1>5. /\ DOMAIN backlog = Stream!Types /\ w \in Calls \cup {Unheld}
      /\ waiter \in [Stream!Types -> Calls \cup {Unheld}]
      /\ held \in [Calls -> Stream!Frame \cup {Stream!NoFrame}]
      /\ backlog = [t \in Stream!Types |-> backlog[t]]
      /\ backlog[f.type] \in Seq(Queue(f.type))
  BY <1>2 DEF WinnerTyped
<1>6. CASE w = Unheld
  <2>1. /\ backlog' = [backlog EXCEPT ![f.type] = Append(@, f)]
        /\ waiter' = waiter /\ held' = held
    BY <1>6 DEF Stream!WinnerReceives, Stream!pushed, toWinner, arrival
  <2>2. Append(backlog[f.type], f) = backlog[f.type] \o one(f)
    BY <1>2, <1>5, AppendIsConcat DEF one
  <2>3. /\ backlog'[f.type] = backlog[f.type] \o one(f)
        /\ backlog' = [t \in Stream!Types |-> backlog'[t]]
        /\ \A t \in Stream!Types : t # f.type => backlog'[t] = backlog[t]
    BY <1>2, <1>5, <2>1, <2>2
  <2> QED
    BY <1>1, <1>2, <1>3, <1>4, <1>5, <1>6, <2>1, <2>3
<1>7. CASE w # Unheld
  <2>1. /\ waiter' = [t \in Stream!Types |-> IF t \in Stream!together(f.type) THEN Unheld
                                                                             ELSE waiter[t]]
        /\ held' = (IF w \in Stream!pending THEN [held EXCEPT ![w] = f] ELSE held)
        /\ backlog' = backlog
    BY <1>7 DEF Stream!WinnerReceives, toWinner, arrival
  <2>2. w \in Calls
    BY <1>5, <1>7
  <2>3. \A d \in Calls : held'[d] = IF d = w /\ d \in Stream!pending THEN f ELSE held[d]
    BY <1>5, <2>1, <2>2
  <2>4. held' \in [Calls -> Stream!Frame \cup {Stream!NoFrame}]
    BY <1>2, <1>5, <2>1
  <2>5. waiter' \in [Stream!Types -> Calls \cup {Unheld}]
    BY <1>5, <2>1
  <2>6. \A t \in Stream!Types : waiter'[t] = IF t \in Stream!together(f.type) THEN Unheld
                                                                             ELSE waiter[t]
    BY <2>1
  <2> QED
    BY <1>1, <1>2, <1>3, <1>4, <1>5, <2>1, <2>2, <2>3, <2>4, <2>5, <2>6
<1> QED
  BY <1>6, <1>7

-----------------------------------------------------------------------------
(* Who waits: a stream that is handed nothing yet, or one whose timer ended *)
(* it and that left its waiter in the table (connection.ts 377-403).        *)

Waits ==
    /\ waiter["chunk"] # Unheld => kept = <<>> /\ backlog["terminal"] = <<>>
    /\ \A c \in Calls : waiter["chunk"] = c =>
          at[c] \in {"next", "returned", "failed"} /\ held[c] = Stream!NoFrame
    /\ \A c \in Calls : waiter["started"] = c =>
          at[c] \in {"start", "returned", "failed"} /\ held[c] = Stream!NoFrame

LEMMA WaitsInit ==
    ASSUME Stream!Init PROVE Waits
  BY StreamNumbers DEF Stream!Init, Waits, Stream!Types

LEMMA WaitsStay ==
    ASSUME Waits, WinnerTyped, waiter' = waiter \/ waiter' = Stream!NoWaiter, backlog' = backlog,
           \A d \in Calls : \/ at'[d] = at[d] /\ held'[d] = held[d]
                            \/ at'[d] \in {"returned", "failed"} /\ held'[d] = Stream!NoFrame
                            \/ at[d] = "next" /\ held[d] # Stream!NoFrame
    PROVE  Waits'
<1>1. CASE waiter' = waiter
  BY <1>1 DEF Waits, kept
<1>2. CASE waiter' = Stream!NoWaiter
  <2>1. waiter'["chunk"] = Unheld /\ waiter'["started"] = Unheld
    BY <1>2 DEF Stream!NoWaiter, Stream!Types
  <2> QED
    BY <2>1, StreamNumbers DEF Waits
<1> QED
  BY <1>1, <1>2

LEMMA WaitTypeWaits ==
    ASSUME Waits, WinnerTyped, NEW c \in Calls,
           \/ at[c] = "new" /\ Stream!waitType(c, "start", {"started"})
           \/ /\ at[c] = "yield" \/ (at[c] = "start" /\ held[c] # Stream!NoFrame)
              /\ Stream!waitType(c, "next", {"chunk", "terminal"})
    PROVE  Waits'
<1>1. CASE at[c] = "new" /\ Stream!waitType(c, "start", {"started"})
  <2>1. /\ others(c) /\ at'[c] = "start" /\ waiter'["chunk"] = waiter["chunk"]
        /\ backlog'["chunk"] = backlog["chunk"] /\ backlog'["terminal"] = backlog["terminal"]
    BY <1>1, WaitStart
  <2>2. \/ waiter' = waiter
        \/ waiter'["started"] = c /\ held'[c] = Stream!NoFrame
    BY <1>1 DEF Stream!waitType, Stream!Types, WinnerTyped
  <2>3. waiter["chunk"] # c /\ waiter["started"] # c
    BY <1>1 DEF Waits
  <2> QED
    BY <2>1, <2>2, <2>3 DEF Waits, others, kept
<1>2. CASE /\ at[c] = "yield" \/ (at[c] = "start" /\ held[c] # Stream!NoFrame)
           /\ Stream!waitType(c, "next", {"chunk", "terminal"})
  <2>1. waiter["chunk"] # c /\ waiter["started"] # c
    BY <1>2 DEF Waits
  <2>2. /\ others(c) /\ at'[c] = "next" /\ waiter'["started"] = waiter["started"]
        /\ \/ /\ kept = <<>> /\ backlog["terminal"] = <<>> /\ waiter'["chunk"] = c
              /\ held'[c] = Stream!NoFrame /\ backlog' = backlog
           \/ kept # <<>> /\ waiter' = waiter
           \/ backlog["terminal"] # <<>> /\ waiter' = waiter
    BY <1>2, WaitNext
  <2>3. CASE waiter' = waiter /\ (kept # <<>> \/ backlog["terminal"] # <<>>)
    <3>1. waiter["chunk"] = Unheld
      BY <2>3 DEF Waits
    <3> QED
      BY <2>1, <2>2, <2>3, <3>1, StreamNumbers DEF Waits, others
  <2>4. CASE /\ kept = <<>> /\ backlog["terminal"] = <<>> /\ waiter'["chunk"] = c
             /\ held'[c] = Stream!NoFrame /\ backlog' = backlog
    BY <2>1, <2>2, <2>4 DEF Waits, others, kept
  <2> QED
    BY <2>2, <2>3, <2>4
<1> QED
  BY <1>1, <1>2

LEMMA WinnerMovesWaits ==
    ASSUME WinnerTyped, Waits, NEW c \in Calls, WinnerMoves(c)
    PROVE  Waits'
<1>0. /\ at \in [Calls -> Stream!At] /\ \A d \in Calls : held[d] \in InHand(d)
      /\ held \in [Calls -> Stream!Frame \cup {Stream!NoFrame}]
  BY DEF WinnerTyped
<1>1. CASE Stream!StreamAsWinner(c)
  BY <1>1, WaitTypeWaits DEF Stream!StreamAsWinner, Stream!mayStream
<1>2. CASE Stream!StreamAborted(c)
  <2>1. /\ at' = [d \in Calls |-> IF d \in Stream!pending \cup {c} THEN "returned" ELSE at[d]]
        /\ UNCHANGED <<held, backlog>> /\ waiter' = Stream!NoWaiter /\ at[c] = "new"
    BY <1>2 DEF Stream!StreamAborted, Stream!mayStream
  <2>2. held[c] = Stream!NoFrame
    BY <1>0, <2>1 DEF InHand
  <2>3. \A d \in Calls : \/ at'[d] = at[d] /\ held'[d] = held[d]
                         \/ at'[d] = "returned" /\ held'[d] = Stream!NoFrame
    BY <2>1, <2>2 DEF Stream!pending
  <2> QED
    BY <2>1, <2>3, WaitsStay
<1>3. CASE Stream!Cancel(c)
  <2>1. Stream!failWaiters
    BY <1>3 DEF Stream!Cancel
  <2>2. \A d \in Calls : \/ at'[d] = at[d] /\ held'[d] = held[d]
                         \/ at'[d] = "returned" /\ held'[d] = Stream!NoFrame
    BY <1>0, <2>1 DEF Stream!failWaiters, Stream!pending
  <2> QED
    BY <2>1, <2>2, WaitsStay DEF Stream!failWaiters
<1>4. CASE Stream!Started(c) \/ Stream!ReadOn(c)
  <2>1. /\ \/ Stream!returns(c)
           \/ Stream!waitType(c, "next", {"chunk", "terminal"})
        /\ at[c] = "yield" \/ (at[c] = "start" /\ held[c] # Stream!NoFrame)
    BY <1>4 DEF Stream!Started, Stream!ReadOn
  <2>2. CASE Stream!returns(c)
    <3>1. \A d \in Calls : \/ at'[d] = at[d] /\ held'[d] = held[d]
                           \/ at'[d] = "returned" /\ held'[d] = Stream!NoFrame
      BY <1>0, <2>2 DEF Stream!returns
    <3> QED
      BY <2>2, <3>1, WaitsStay DEF Stream!returns
  <2> QED
    BY <2>1, <2>2, WaitTypeWaits
<1>5. CASE Stream!YieldChunk(c)
  <2>1. at[c] = "next" /\ held[c] # Stream!NoFrame
    BY <1>5, NoFrameIs DEF Stream!YieldChunk
  <2>2. \A d \in Calls : \/ at'[d] = at[d] /\ held'[d] = held[d]
                         \/ at[d] = "next" /\ held[d] # Stream!NoFrame
    BY <1>0, <1>5, <2>1 DEF Stream!YieldChunk
  <2> QED
    BY <1>5, <2>2, WaitsStay DEF Stream!YieldChunk
<1>6. CASE Stream!ForeignChunk(c)
  <2>1. \A d \in Calls : \/ at'[d] = at[d] /\ held'[d] = held[d]
                         \/ at'[d] = "failed" /\ held'[d] = Stream!NoFrame
    BY <1>0, <1>6 DEF Stream!ForeignChunk
  <2> QED
    BY <1>6, <2>1, WaitsStay DEF Stream!ForeignChunk
<1>7. CASE Stream!Terminal(c)
  <2>1. \A d \in Calls : \/ at'[d] = at[d] /\ held'[d] = held[d]
                         \/ at'[d] = "returned" /\ held'[d] = Stream!NoFrame
    BY <1>0, <1>7 DEF Stream!Terminal, Stream!returns
  <2> QED
    BY <1>7, <2>1, WaitsStay DEF Stream!Terminal, Stream!returns
<1>8. CASE Stream!WinnerTimeout(c)
  <2>1. \A d \in Calls : \/ at'[d] = at[d] /\ held'[d] = held[d]
                         \/ at'[d] = "failed" /\ held'[d] = Stream!NoFrame
    BY <1>0, <1>8 DEF Stream!WinnerTimeout, Stream!pending
  <2> QED
    BY <1>8, <2>1, WaitsStay DEF Stream!WinnerTimeout
<1> QED
  BY <1>1, <1>2, <1>3, <1>4, <1>5, <1>6, <1>7, <1>8 DEF WinnerMoves

LEMMA WinnerDropsWaits ==
    ASSUME WinnerTyped, Waits, Stream!WinnerDrops
    PROVE  Waits'
<1>1. Stream!failWaiters
  BY DEF Stream!WinnerDrops
<1>2. \A d \in Calls : \/ at'[d] = at[d] /\ held'[d] = held[d]
                       \/ at'[d] = "returned" /\ held'[d] = Stream!NoFrame
  BY <1>1 DEF Stream!failWaiters, Stream!pending, WinnerTyped
<1> QED
  BY <1>1, <1>2, WaitsStay DEF Stream!failWaiters

(* Who is given the frame that arrives is at the wait for one of its type.  *)
LEMMA ReceivesTyped ==
    ASSUME WinnerTyped, NetTyped, Waits, Stream!WinnerReceives
    PROVE  /\ WinnerTyped' /\ Waits'
           /\ \A d \in Calls :
                 \/ held'[d] = held[d]
                 \/ /\ held'[d] = arrival /\ held[d] = Stream!NoFrame
                    /\ waiter[arrival.type] = d /\ backlog' = backlog
                    /\ at[d] = IF arrival.type = "started" THEN "start" ELSE "next"
<1>0. /\ Stream!Types = {"started", "chunk", "terminal"}
      /\ \A t \in Stream!Types : Queue(t) \subseteq Stream!Frame
      /\ \A t \in Stream!Types : backlog[t] \in Seq(Queue(t))
      /\ waiter["chunk"] = waiter["terminal"]
      /\ waiter \in [Stream!Types -> Calls \cup {Unheld}]
      /\ \A d \in Calls : held[d] \in InHand(d)
  BY DEF Stream!Types, Queue, OfType, WinnerTyped
<1>1. /\ arrival \in Queue(arrival.type) /\ arrival.type \in Stream!Types
      /\ UNCHANGED <<at, got, cancelled, stopped, endedBy, serial>>
      /\ came' \in [Calls -> Seq(0 .. Chunks)]
      /\ backlog' = [t \in Stream!Types |-> backlog'[t]]
      /\ waiter' \in [Stream!Types -> Calls \cup {Unheld}]
      /\ held' \in [Calls -> Stream!Frame \cup {Stream!NoFrame}]
  <2>1. arrival.seq \in 0 .. Chunks /\ arrival.call \in Calls
    BY ReceivesEffect DEF Queue, OfType, Stream!Frame
  <2>2. Append(came[arrival.call], arrival.seq) \in Seq(0 .. Chunks)
    BY <2>1, AppendProperties DEF WinnerTyped
  <2>3. came' \in [Calls -> Seq(0 .. Chunks)]
    BY <2>1, <2>2, ReceivesEffect DEF WinnerTyped
  <2> QED
    BY <2>3, ReceivesEffect
<1>2. CASE /\ waiter[arrival.type] = Unheld
           /\ waiter' = waiter /\ held' = held
           /\ backlog'[arrival.type] = backlog[arrival.type] \o one(arrival)
           /\ \A t \in Stream!Types : t # arrival.type => backlog'[t] = backlog[t]
  <2>1. backlog[arrival.type] \o one(arrival) \in Seq(Queue(arrival.type))
    <3>1. one(arrival) \in Seq(Queue(arrival.type))
      BY <1>1 DEF one
    <3> QED
      BY <1>0, <1>1, <3>1, ConcatProperties
  <2>2. \A t \in Stream!Types : backlog'[t] \in Seq(Queue(t))
    BY <1>0, <1>2, <2>1
  <2>3. \A d \in Calls : held'[d] \in InHand(d)'
    BY <1>1, <1>2 DEF WinnerTyped, InHand
  <2>4. WinnerTyped'
    BY <1>1, <1>2, <2>2, <2>3 DEF WinnerTyped
  <2>5. Waits'
    <3>1. CASE arrival.type = "started"
      BY <1>0, <1>1, <1>2, <3>1 DEF Waits, kept
    <3>2. CASE arrival.type # "started"
      <4>1. waiter["chunk"] = Unheld
        BY <1>0, <1>1, <1>2, <3>2
      <4> QED
        BY <1>1, <1>2, <4>1, StreamNumbers DEF Waits
    <3> QED
      BY <3>1, <3>2
  <2> QED
    BY <1>2, <2>4, <2>5
<1>3. CASE /\ waiter[arrival.type] \in Calls
           /\ backlog' = backlog
           /\ \A t \in Stream!Types :
                 waiter'[t] = IF t \in Stream!together(arrival.type) THEN Unheld ELSE waiter[t]
           /\ \A d \in Calls :
                 held'[d] = IF d = waiter[arrival.type] /\ d \in Stream!pending
                            THEN arrival ELSE held[d]
  <2>1. \A d \in Calls :
           \/ held'[d] = held[d]
           \/ /\ held'[d] = arrival /\ held[d] = Stream!NoFrame
              /\ waiter[arrival.type] = d /\ backlog' = backlog
              /\ at[d] = IF arrival.type = "started" THEN "start" ELSE "next"
    <3>1. \A d \in Calls : d \in Stream!pending => at[d] \in {"start", "next"}
                                                   /\ held[d] = Stream!NoFrame
      BY DEF Stream!pending
    <3>2. \A d \in Calls : waiter[arrival.type] = d /\ d \in Stream!pending =>
                              at[d] = IF arrival.type = "started" THEN "start" ELSE "next"
      BY <1>0, <1>1, <3>1 DEF Waits
    <3> QED
      BY <1>3, <3>1, <3>2
  <2>2. \A d \in Calls : held'[d] \in InHand(d)'
    <3> TAKE d \in Calls
    <3>1. CASE held'[d] = held[d]
      BY <1>0, <1>1, <3>1 DEF InHand
    <3>2. CASE held'[d] = arrival /\ arrival.type = "started" /\ at[d] = "start"
      BY <1>1, <3>2 DEF InHand, Queue
    <3>3. CASE held'[d] = arrival /\ arrival.type # "started" /\ at[d] = "next"
      <4>1. arrival \in Queue("chunk") \/ arrival \in Queue("terminal")
        BY <1>0, <1>1, <3>3
      <4> QED
        BY <1>1, <3>3, <4>1 DEF InHand, Queue
    <3> QED
      BY <2>1, <3>1, <3>2, <3>3
  <2>3. waiter'["chunk"] = waiter'["terminal"]
    BY <1>0, <1>1, <1>3 DEF Stream!together
  <2>4. WinnerTyped'
    BY <1>1, <1>3, <2>2, <2>3 DEF WinnerTyped
  <2>5. Waits'
    <3>1. CASE arrival.type = "started"
      <4>1. waiter'["started"] = Unheld /\ waiter'["chunk"] = waiter["chunk"]
        BY <1>0, <1>3, <3>1 DEF Stream!together
      <4>2. \A d \in Calls : at[d] \in {"next", "returned", "failed"} => held'[d] = held[d]
        BY <2>1, <3>1
      <4> QED
        BY <1>1, <1>3, <4>1, <4>2, StreamNumbers DEF Waits, kept
    <3>2. CASE arrival.type # "started"
      <4>1. waiter'["chunk"] = Unheld /\ waiter'["started"] = waiter["started"]
        BY <1>0, <1>1, <1>3, <3>2 DEF Stream!together
      <4>2. \A d \in Calls : at[d] \in {"start", "returned", "failed"} => held'[d] = held[d]
        BY <2>1, <3>2
      <4> QED
        BY <1>1, <1>3, <4>1, <4>2, StreamNumbers DEF Waits, kept
    <3> QED
      BY <3>1, <3>2
  <2> QED
    BY <2>1, <2>4, <2>5
<1> QED
  BY <1>2, <1>3, ReceivesEffect

-----------------------------------------------------------------------------
(* What each action does to the frames on their way.                        *)

LEMMA QuietUp ==
    ASSUME UNCHANGED up
    PROVE  fromWinner' = fromWinner /\ fromOwner' = fromOwner /\ (UpTyped => UpTyped')
  BY DEF fromWinner, fromOwner, UpTyped

LEMMA QuietDown ==
    ASSUME UNCHANGED down
    PROVE  toWinner' = toWinner /\ toOwner' = toOwner /\ (DownTyped => DownTyped')
  BY DEF toWinner, toOwner, DownTyped

LEMMA FramesTyped ==
    ASSUME NEW c \in Calls
    PROVE  /\ one(Stream!plain("reserve", c)) \in Seq(FromWinner)
           /\ one(Stream!plain("terminal", c)) \in Seq(FromWinner)
           /\ <<Stream!plain("reserve", c), Stream!plain("terminal", c)>> \in Seq(FromWinner)
           /\ one(Stream!plain("reserve", c)) \o one(Stream!plain("terminal", c))
                = <<Stream!plain("reserve", c), Stream!plain("terminal", c)>>
           /\ one(Stream!plain("preflight_ok", c)) \in Seq(FromOwner)
           /\ one(Stream!plain("terminal", c)) \in Seq(FromOwner)
           /\ \A n \in 1 .. Chunks : one(Stream!chunk(c, n)) \in Seq(FromOwner)
           /\ one(Stream!plain("started", c)) \in Seq(ToWinner)
           /\ one(Stream!plain("started", c)) \in Seq(ToOwner)
           /\ one(Stream!plain("abort", c)) \in Seq(ToOwner)
<1>1. /\ Stream!plain("reserve", c) \in FromWinner /\ Stream!plain("terminal", c) \in FromWinner
      /\ Stream!plain("preflight_ok", c) \in FromOwner
      /\ Stream!plain("terminal", c) \in FromOwner
      /\ \A n \in 1 .. Chunks : Stream!chunk(c, n) \in FromOwner
      /\ Stream!plain("started", c) \in ToWinner /\ Stream!plain("started", c) \in ToOwner
      /\ Stream!plain("abort", c) \in ToOwner
  BY FramesMade DEF FromWinner, FromOwner, ToWinner, ToOwner, Queue
<1>2. one(Stream!plain("reserve", c)) \o one(Stream!plain("terminal", c))
        = <<Stream!plain("reserve", c), Stream!plain("terminal", c)>>
  <2> DEFINE a == Stream!plain("reserve", c)
             b == Stream!plain("terminal", c)
  <2> HIDE DEF a, b
  <2>1. <<a>> \o <<b>> = <<a, b>>
    <3>1. /\ <<a>> \in Seq({a, b}) /\ <<b>> \in Seq({a, b}) /\ <<a, b>> \in Seq({a, b})
          /\ Len(<<a>>) = 1 /\ Len(<<b>>) = 1 /\ Len(<<a, b>>) = 2
          /\ <<a>>[1] = a /\ <<b>>[1] = b /\ <<a, b>>[1] = a /\ <<a, b>>[2] = b
      OBVIOUS
    <3>2. /\ <<a>> \o <<b>> \in Seq({a, b}) /\ Len(<<a>> \o <<b>>) = 2
          /\ \A i \in 1 .. 2 : (<<a>> \o <<b>>)[i] = IF i <= 1 THEN <<a>>[i] ELSE <<b>>[i - 1]
      BY <3>1, ConcatProperties
    <3>3. \A i \in 1 .. 2 : (<<a>> \o <<b>>)[i] = <<a, b>>[i]
      BY <3>1, <3>2
    <3> QED
      BY <3>1, <3>2, <3>3, SeqEqual
  <2> QED
    BY <2>1 DEF a, b, one
<1>3. /\ one(Stream!plain("reserve", c)) \in Seq(FromWinner)
      /\ one(Stream!plain("terminal", c)) \in Seq(FromWinner)
      /\ <<Stream!plain("reserve", c), Stream!plain("terminal", c)>> \in Seq(FromWinner)
  BY <1>1 DEF one
<1>4. /\ one(Stream!plain("preflight_ok", c)) \in Seq(FromOwner)
      /\ one(Stream!plain("terminal", c)) \in Seq(FromOwner)
      /\ \A n \in 1 .. Chunks : one(Stream!chunk(c, n)) \in Seq(FromOwner)
  BY <1>1 DEF one
<1>5. /\ one(Stream!plain("started", c)) \in Seq(ToWinner)
      /\ one(Stream!plain("started", c)) \in Seq(ToOwner)
      /\ one(Stream!plain("abort", c)) \in Seq(ToOwner)
  BY <1>1 DEF one
<1> QED
  BY <1>2, <1>3, <1>4, <1>5

LEMMA WinnerSays ==
    ASSUME NetTyped, NEW c \in Calls, WinnerMoves(c)
    PROVE  /\ NetTyped' /\ UNCHANGED <<online, hungUp, closed>>
           /\ fromOwner' = fromOwner /\ toWinner' = toWinner /\ toOwner' = toOwner
           /\ \/ fromWinner' = fromWinner
              \/ /\ Stream!StreamAsWinner(c) /\ "winner" \in online
                 /\ fromWinner' = fromWinner \o one(Stream!plain("reserve", c))
              \/ /\ Stream!StreamAborted(c) /\ "winner" \in online
                 /\ fromWinner' = fromWinner \o
                       <<Stream!plain("reserve", c), Stream!plain("terminal", c)>>
              \/ /\ Stream!Cancel(c) /\ "winner" \in online
                 /\ fromWinner' = fromWinner \o one(Stream!plain("terminal", c))
<1>1. /\ UNCHANGED <<down, online, hungUp, closed>>
      /\ toWinner' = toWinner /\ toOwner' = toOwner /\ DownTyped'
  BY WinnerAlone, QuietDown DEF NetTyped
<1>2. UpTyped /\ "winner" \in Stream!Devices /\ "winner" # "owner"
  BY DEF NetTyped, Stream!Devices
<1>3. CASE Stream!StreamAsWinner(c)
  <2>1. Stream!Say("winner", one(Stream!plain("reserve", c))) /\ "winner" \in online
    BY <1>3 DEF Stream!StreamAsWinner, Stream!mayStream, one
  <2>2. UpTyped'
    BY <1>2, <2>1, SayTyped, FramesTyped
  <2> QED
    BY <1>1, <1>2, <1>3, <2>1, <2>2, SayEffect DEF NetTyped
<1>4. CASE Stream!StreamAborted(c)
  <2>1. /\ Stream!Say("winner", <<Stream!plain("reserve", c), Stream!plain("terminal", c)>>)
        /\ "winner" \in online
    BY <1>4 DEF Stream!StreamAborted, Stream!mayStream
  <2>2. UpTyped'
    BY <1>2, <2>1, SayTyped, FramesTyped
  <2> QED
    BY <1>1, <1>2, <1>4, <2>1, <2>2, SayEffect DEF NetTyped
<1>5. CASE Stream!Cancel(c)
  <2>1. Stream!Say("winner", one(Stream!plain("terminal", c)))
    BY <1>5 DEF Stream!Cancel, one
  <2>2. UpTyped'
    BY <1>2, <2>1, SayTyped, FramesTyped
  <2> QED
    BY <1>1, <1>2, <1>5, <2>1, <2>2, SayEffect DEF NetTyped
<1>6. CASE \/ Stream!Started(c) \/ Stream!YieldChunk(c) \/ Stream!ForeignChunk(c)
           \/ Stream!Terminal(c) \/ Stream!ReadOn(c) \/ Stream!WinnerTimeout(c)
  <2>1. UNCHANGED up
    BY <1>6 DEF Stream!Started, Stream!YieldChunk, Stream!ForeignChunk, Stream!Terminal,
       Stream!ReadOn, Stream!WinnerTimeout, Stream!net
  <2> QED
    BY <1>1, <1>2, <2>1, QuietUp DEF NetTyped
<1> QED
  BY <1>3, <1>4, <1>5, <1>6 DEF WinnerMoves

(* The owner: `left` of the stages of fulfillAsOwner for `next`.            *)
moves(c, from, next) == fulfil[c] \in from /\ fulfil' = [fulfil EXCEPT ![c] = next]

LEMMA OwnerSays ==
    ASSUME NetTyped, OwnerTyped, NEW c \in Calls, OwnerMoves(c)
    PROVE  /\ NetTyped' /\ OwnerTyped' /\ UNCHANGED <<online, hungUp, closed>>
           /\ fromWinner' = fromWinner /\ toWinner' = toWinner /\ toOwner' = toOwner
           /\ \/ /\ fromOwner' = fromOwner /\ chunksSent' = chunksSent
                 /\ \/ moves(c, {"start"}, "rejected") /\ Stream!calm
                    \/ moves(c, {"started"}, "stream")
              \/ /\ moves(c, {"rejected", "started", "stream"}, "ended")
                 /\ chunksSent' = chunksSent
                 /\ fromOwner' = IF "owner" \in online
                                 THEN fromOwner \o one(Stream!plain("terminal", c)) ELSE fromOwner
              \/ /\ fulfil[c] = "stream" /\ fulfil' = fulfil
                 /\ chunksSent[c] + 1 \in 1 .. Chunks
                 /\ chunksSent' = [chunksSent EXCEPT ![c] = @ + 1]
                 /\ fromOwner' = IF "owner" \in online
                                 THEN fromOwner \o one(Stream!chunk(c, chunksSent[c] + 1))
                                 ELSE fromOwner
<1>1. /\ UNCHANGED <<down, online, hungUp, closed>>
      /\ toWinner' = toWinner /\ toOwner' = toOwner /\ DownTyped'
  BY OwnerAlone, QuietDown DEF NetTyped
<1>2. UpTyped /\ "owner" \in Stream!Devices /\ "winner" # "owner"
  BY DEF NetTyped, Stream!Devices
<1>3. CASE Stream!OwnerEnds(c) /\ fulfil[c] \in {"rejected", "started", "stream"}
  <2>1. /\ Stream!Say("owner", one(Stream!plain("terminal", c)))
        /\ UNCHANGED <<chunksSent, ownerWaiter, ownerBacklog>>
        /\ fulfil' = [fulfil EXCEPT ![c] = "ended"]
    BY <1>3 DEF Stream!OwnerEnds, one
  <2>2. UpTyped'
    BY <1>2, <2>1, SayTyped, FramesTyped
  <2>3. OwnerTyped'
    BY <2>1 DEF OwnerTyped
  <2> QED
    BY <1>1, <1>2, <1>3, <2>1, <2>2, <2>3, SayEffect DEF NetTyped, moves
<1>4. CASE Stream!OwnerTimeout(c)
  <2>1. /\ fulfil[c] = "start" /\ Stream!calm /\ fulfil' = [fulfil EXCEPT ![c] = "rejected"]
        /\ UNCHANGED <<chunksSent, ownerWaiter, ownerBacklog, up>>
    BY <1>4 DEF Stream!OwnerTimeout, Stream!ownerPending, Stream!net
  <2>2. OwnerTyped'
    BY <2>1 DEF OwnerTyped
  <2> QED
    BY <1>1, <1>2, <2>1, <2>2, QuietUp DEF NetTyped, moves
<1>5. CASE /\ fulfil[c] = "started" /\ fulfil' = [fulfil EXCEPT ![c] = "stream"]
           /\ UNCHANGED <<chunksSent, ownerWaiter, ownerBacklog, up>>
  <2>2. OwnerTyped'
    BY <1>5 DEF OwnerTyped
  <2> QED
    BY <1>1, <1>2, <1>5, <2>2, QuietUp DEF NetTyped, moves
<1>6. CASE Stream!OwnerChunk(c)
  <2>1. /\ Stream!Say("owner", one(Stream!chunk(c, chunksSent[c] + 1)))
        /\ UNCHANGED <<fulfil, ownerWaiter, ownerBacklog>> /\ fulfil[c] = "stream"
        /\ chunksSent[c] < Chunks /\ chunksSent' = [chunksSent EXCEPT ![c] = @ + 1]
    BY <1>6 DEF Stream!OwnerChunk, one
  <2>2. chunksSent[c] + 1 \in 1 .. Chunks
    BY <2>1, StreamNumbers DEF OwnerTyped
  <2>3. UpTyped'
    BY <1>2, <2>1, <2>2, SayTyped, FramesTyped
  <2>4. OwnerTyped'
    BY <2>1, <2>2, StreamNumbers DEF OwnerTyped
  <2> QED
    BY <1>1, <1>2, <2>1, <2>2, <2>3, <2>4, SayEffect DEF NetTyped
<1>7. OwnerMoves(c) =>
         \/ Stream!OwnerEnds(c) /\ fulfil[c] \in {"rejected", "started", "stream"}
         \/ Stream!OwnerTimeout(c)
         \/ /\ fulfil[c] = "started" /\ fulfil' = [fulfil EXCEPT ![c] = "stream"]
            /\ UNCHANGED <<chunksSent, ownerWaiter, ownerBacklog, up>>
         \/ Stream!OwnerChunk(c)
  BY DEF OwnerMoves, Stream!OwnerRejected, Stream!OwnerStarts, Stream!ProviderEnds, Stream!net
<1> QED
  BY <1>3, <1>4, <1>5, <1>6, <1>7

(* The frame the owner handles.                                             *)
order == Head(toOwner)

LEMMA OwnerHears ==
    ASSUME NetTyped, OwnerTyped, Stream!OwnerReceives
    PROVE  /\ NetTyped' /\ OwnerTyped'
           /\ UNCHANGED <<Stream!stream, Stream!server, chunksSent, online, hungUp, closed>>
           /\ fromWinner' = fromWinner /\ toWinner' = toWinner
           /\ order \in ToOwner /\ without(toOwner, order, toOwner') /\ toOwner' \in Seq(ToOwner)
           /\ \/ /\ order.type = "reserve"
                 /\ fulfil' = [fulfil EXCEPT ![order.call] = fulfil'[order.call]]
                 /\ fulfil'[order.call] \in {"start", "started"}
                 /\ fromOwner' = IF "owner" \in online
                                 THEN fromOwner \o one(Stream!plain("preflight_ok", order.call))
                                 ELSE fromOwner
              \/ /\ order.type # "reserve" /\ fromOwner' = fromOwner
                 /\ \A d \in Calls : \/ fulfil'[d] = fulfil[d]
                                     \/ fulfil[d] = "start"
                                        /\ fulfil'[d] \in {"started", "rejected"}
<1>1. /\ toOwner # <<>> /\ toOwner \in Seq(ToOwner) /\ order \in ToOwner
      /\ without(toOwner, order, Tail(toOwner)) /\ Tail(toOwner) \in Seq(ToOwner)
  BY FirstAndRest, HeadTaken DEF Stream!OwnerReceives, NetTyped, DownTyped, toOwner, order
<1>2. /\ down' = [down EXCEPT !["owner"] = Tail(@)]
      /\ UNCHANGED <<Stream!stream, Stream!server, chunksSent, online, hungUp, closed>>
      /\ \/ order.type = "reserve" /\ Stream!fulfillAsOwner(order.call)
         \/ order.type = "started" /\ Stream!ownerStarted(order)
         \/ order.type = "abort" /\ Stream!ownerAbort(order.call)
  BY DEF Stream!OwnerReceives, order, toOwner
<1>3. /\ toOwner' = Tail(toOwner) /\ toWinner' = toWinner /\ DownTyped'
  BY <1>1, <1>2 DEF NetTyped, DownTyped, toWinner, toOwner, Stream!Devices
<1>4. UpTyped /\ "owner" \in Stream!Devices /\ "winner" # "owner"
  BY DEF NetTyped, Stream!Devices
<1>5. order.call \in Calls
  BY <1>1 DEF ToOwner, OfType, Stream!Frame
<1>6. CASE order.type = "reserve" /\ Stream!fulfillAsOwner(order.call)
  <2>1. Stream!Say("owner", one(Stream!plain("preflight_ok", order.call)))
    BY <1>6 DEF Stream!fulfillAsOwner, one
  <2>2. UpTyped'
    BY <1>4, <1>5, <2>1, SayTyped, FramesTyped
  <2>3. /\ fulfil' = [fulfil EXCEPT ![order.call] = fulfil'[order.call]]
        /\ fulfil'[order.call] \in {"start", "started"}
    BY <1>5, <1>6 DEF Stream!fulfillAsOwner, OwnerTyped
  <2>4. ownerBacklog # <<>> => Tail(ownerBacklog) \in Seq(Calls)
    BY DEF OwnerTyped
  <2>5. ownerWaiter' \in Calls \cup {Unheld} /\ ownerBacklog' \in Seq(Calls)
    BY <1>5, <1>6, <2>4 DEF Stream!fulfillAsOwner, OwnerTyped
  <2>6. OwnerTyped'
    BY <1>2, <1>5, <2>3, <2>5 DEF OwnerTyped
  <2> QED
    BY <1>1, <1>2, <1>3, <1>4, <1>6, <2>1, <2>2, <2>3, <2>6, SayEffect DEF NetTyped
<1>7. CASE order.type = "started" /\ Stream!ownerStarted(order)
  <2>1. /\ UNCHANGED up /\ ownerWaiter' = Unheld
        /\ \/ ownerBacklog' = Append(ownerBacklog, order.call) /\ fulfil' = fulfil
           \/ /\ ownerBacklog' = ownerBacklog
              /\ fulfil' = IF ownerWaiter \in Stream!ownerPending
                           THEN [fulfil EXCEPT ![ownerWaiter] = "started"] ELSE fulfil
    BY <1>7 DEF Stream!ownerStarted
  <2>2. ownerBacklog' \in Seq(Calls)
    <3>1. ownerBacklog \in Seq(Calls)
      BY DEF OwnerTyped
    <3>2. Append(ownerBacklog, order.call) \in Seq(Calls)
      BY <1>5, <3>1, AppendProperties
    <3> QED
      BY <2>1, <3>1, <3>2
  <2>3. /\ fulfil' \in [Calls -> {"none", "start", "rejected", "started", "stream", "ended"}]
        /\ \A d \in Calls : \/ fulfil'[d] = fulfil[d]
                            \/ fulfil[d] = "start" /\ fulfil'[d] \in {"started", "rejected"}
    BY <2>1 DEF OwnerTyped, Stream!ownerPending
  <2>4. OwnerTyped'
    BY <1>2, <2>1, <2>2, <2>3 DEF OwnerTyped
  <2> QED
    BY <1>1, <1>2, <1>3, <1>4, <1>7, <2>1, <2>3, <2>4, QuietUp DEF NetTyped
<1>8. CASE order.type = "abort" /\ Stream!ownerAbort(order.call)
  <2>1. /\ UNCHANGED <<up, ownerBacklog>> /\ ownerWaiter' = Unheld
        /\ fulfil' = [d \in Calls |-> IF d \in Stream!ownerPending THEN "rejected"
                                                                    ELSE fulfil[d]]
    BY <1>8 DEF Stream!ownerAbort
  <2>2. /\ fulfil' \in [Calls -> {"none", "start", "rejected", "started", "stream", "ended"}]
        /\ \A d \in Calls : \/ fulfil'[d] = fulfil[d]
                            \/ fulfil[d] = "start" /\ fulfil'[d] \in {"started", "rejected"}
    BY <2>1 DEF OwnerTyped, Stream!ownerPending
  <2>3. OwnerTyped'
    BY <1>2, <2>1, <2>2 DEF OwnerTyped
  <2> QED
    BY <1>1, <1>2, <1>3, <1>4, <1>8, <2>1, <2>2, <2>3, QuietUp DEF NetTyped
<1> QED
  BY <1>2, <1>6, <1>7, <1>8

(* The frames the server handles.                                           *)
request(i) == up["winner"][i]
report(i) == up["owner"][i]

LEMMA RequestTaken ==
    ASSUME UpTyped, NEW i \in DOMAIN up["winner"], Stream!Taken("winner", i)
    PROVE  /\ UpTyped' /\ Stream!idle
           /\ UNCHANGED <<Stream!stream, Stream!owner, online, hungUp, closed>>
           /\ request(i) \in FromWinner /\ request(i).call \in Calls
           /\ without(fromWinner, request(i), fromWinner') /\ fromWinner' \in Seq(FromWinner)
           /\ fromOwner' = fromOwner
<1>1. "winner" \in Stream!Devices
  BY DEF Stream!Devices
<1>2. /\ up' = [e \in Stream!Devices |-> up'[e]]
      /\ fromOwner' = fromOwner /\ fromWinner' = Stream!RemoveAt(fromWinner, i)
  BY <1>1, TakeEffect
<1>3. /\ request(i) \in FromWinner /\ without(fromWinner, request(i), fromWinner')
      /\ fromWinner' \in Seq(FromWinner)
  <2>1. fromWinner \in Seq(FromWinner) /\ i \in DOMAIN fromWinner /\ request(i) = fromWinner[i]
    BY DEF UpTyped, fromWinner, request
  <2> QED
    BY <1>2, <2>1, FrameTaken
<1>4. request(i).call \in Calls
  BY <1>3 DEF FromWinner, OfType, Stream!Frame
<1>5. Stream!idle /\ UNCHANGED <<Stream!stream, Stream!owner, online, hungUp, closed>>
  BY DEF Stream!Taken
<1> QED
  BY <1>2, <1>3, <1>4, <1>5 DEF UpTyped

LEMMA ReportTaken ==
    ASSUME UpTyped, NEW i \in DOMAIN up["owner"], Stream!Taken("owner", i)
    PROVE  /\ UpTyped' /\ Stream!idle
           /\ UNCHANGED <<Stream!stream, Stream!owner, online, hungUp, closed>>
           /\ report(i) \in FromOwner /\ report(i).call \in Calls
           /\ without(fromOwner, report(i), fromOwner') /\ fromOwner' \in Seq(FromOwner)
           /\ fromWinner' = fromWinner
<1>1. "owner" \in Stream!Devices
  BY DEF Stream!Devices
<1>2. /\ up' = [e \in Stream!Devices |-> up'[e]]
      /\ fromWinner' = fromWinner /\ fromOwner' = Stream!RemoveAt(fromOwner, i)
  BY <1>1, TakeEffect
<1>3. /\ report(i) \in FromOwner /\ without(fromOwner, report(i), fromOwner')
      /\ fromOwner' \in Seq(FromOwner)
  <2>1. fromOwner \in Seq(FromOwner) /\ i \in DOMAIN fromOwner /\ report(i) = fromOwner[i]
    BY DEF UpTyped, fromOwner, report
  <2> QED
    BY <1>2, <2>1, FrameTaken
<1>4. report(i).call \in Calls
  BY <1>3 DEF FromOwner, OfType, Stream!Frame
<1>5. Stream!idle /\ UNCHANGED <<Stream!stream, Stream!owner, online, hungUp, closed>>
  BY DEF Stream!Taken
<1> QED
  BY <1>2, <1>3, <1>4, <1>5 DEF UpTyped

LEMMA ForwardTyped ==
    ASSUME DownTyped, NEW fs, NEW d \in Stream!Devices, down' = Stream!Forward(d, fs),
           d = "winner" => fs \in Seq(ToWinner), d = "owner" => fs \in Seq(ToOwner)
    PROVE  DownTyped'
<1>1. CASE d = "winner"
  <2>1. toWinner \o fs \in Seq(ToWinner)
    BY <1>1, ConcatProperties DEF DownTyped
  <2> QED
    BY <1>1, <2>1, ForwardEffect DEF DownTyped
<1>2. CASE d = "owner"
  <2>1. toOwner \o fs \in Seq(ToOwner)
    BY <1>2, ConcatProperties DEF DownTyped
  <2> QED
    BY <1>2, <2>1, ForwardEffect DEF DownTyped
<1> QED
  BY <1>1, <1>2 DEF Stream!Devices

LEMMA ForwardBothTyped ==
    ASSUME DownTyped, NEW fw \in Seq(ToWinner), NEW fo \in Seq(ToOwner),
           down' = [d \in Stream!Devices |->
                       Stream!Forward(d, IF d = "owner" THEN fo ELSE fw)[d]]
    PROVE  DownTyped'
<1>1. toWinner \o fw \in Seq(ToWinner) /\ toOwner \o fo \in Seq(ToOwner)
  BY ConcatProperties DEF DownTyped
<1> QED
  BY <1>1, ForwardBothEffect DEF DownTyped

ServerMoves == UNCHANGED <<Stream!stream, Stream!owner, online, closed>>

LEMMA ReserveForwarded ==
    ASSUME NetTyped, ServerTyped, NEW i \in DOMAIN up["winner"],
           Stream!ForwardReserve(i)
    PROVE  /\ NetTyped' /\ ServerTyped' /\ Stream!idle /\ ServerMoves /\ hungUp' = hungUp
           /\ request(i).type = "reserve" /\ request(i) \in FromWinner /\ request(i).call \in Calls
           /\ without(fromWinner, request(i), fromWinner') /\ fromWinner' \in Seq(FromWinner)
           /\ fromOwner' = fromOwner /\ toWinner' = toWinner
           /\ UNCHANGED <<finished, charged, slot>>
           /\ \/ /\ reserved' = reserved \cup {request(i).call}
                 /\ toOwner' = IF "owner" \in online THEN toOwner \o one(request(i)) ELSE toOwner
              \/ "owner" \notin online /\ reserved' = reserved /\ toOwner' = toOwner
<1>1. /\ Stream!Taken("winner", i) /\ request(i).type = "reserve"
      /\ UNCHANGED <<finished, charged, slot>>
      /\ \/ /\ reserved' = reserved \cup {request(i).call}
            /\ down' = Stream!Forward("owner", one(request(i)))
         \/ "owner" \notin online /\ UNCHANGED <<reserved, down>>
  BY DEF Stream!ForwardReserve, Stream!server, one, request
<1>2. /\ UpTyped' /\ request(i).call \in Calls
      /\ request(i) \in FromWinner
  BY <1>1, RequestTaken DEF NetTyped
<1>3. one(request(i)) \in Seq(ToOwner)
  BY <1>1, <1>2 DEF FromWinner, ToOwner, OfType, one
<1>4. "owner" \in Stream!Devices /\ "owner" # "winner" /\ DownTyped
  BY DEF Stream!Devices, NetTyped
<1>5. /\ DownTyped' /\ toWinner' = toWinner
      /\ \/ /\ reserved' = reserved \cup {request(i).call}
            /\ toOwner' = IF "owner" \in online THEN toOwner \o one(request(i)) ELSE toOwner
         \/ "owner" \notin online /\ reserved' = reserved /\ toOwner' = toOwner
  <2>1. CASE down' = Stream!Forward("owner", one(request(i)))
             /\ reserved' = reserved \cup {request(i).call}
    BY <1>3, <1>4, <2>1, ForwardTyped, ForwardEffect
  <2>2. CASE "owner" \notin online /\ UNCHANGED <<reserved, down>>
    BY <1>4, <2>2, QuietDown
  <2> QED
    BY <1>1, <1>2, <2>1, <2>2
<1>6. ServerTyped'
  <2>1. IsFiniteSet(reserved \cup {request(i).call})
    BY FS_AddElement DEF ServerTyped
  <2> QED
    BY <1>1, <1>2, <1>5, <2>1 DEF ServerTyped
<1> QED
  BY <1>1, <1>2, <1>5, <1>6, RequestTaken DEF NetTyped, ServerMoves

LEMMA PreflightForwarded ==
    ASSUME NetTyped, ServerTyped, \A c \in Calls : Unknown(c),
           NEW i \in DOMAIN up["owner"], Stream!ForwardPreflight(i)
    PROVE  /\ NetTyped' /\ ServerTyped' /\ Stream!idle /\ ServerMoves /\ hungUp' = hungUp
           /\ report(i).type = "preflight_ok" /\ report(i) \in FromOwner /\ report(i).call \in Calls
           /\ without(fromOwner, report(i), fromOwner') /\ fromOwner' \in Seq(FromOwner)
           /\ fromWinner' = fromWinner /\ UNCHANGED <<reserved, finished>>
           /\ \/ /\ slot = 0 /\ slot' = 1
                 /\ toWinner' = IF "winner" \in online
                                THEN toWinner \o one(Stream!plain("started", report(i).call))
                                ELSE toWinner
                 /\ toOwner' = IF "owner" \in online
                               THEN toOwner \o one(Stream!plain("started", report(i).call))
                               ELSE toOwner
              \/ slot # 0 /\ slot' = slot /\ toWinner' = toWinner /\ toOwner' = toOwner
<1>1. /\ Stream!Taken("owner", i) /\ report(i).type = "preflight_ok"
      /\ UNCHANGED <<reserved, finished>>
  BY DEF Stream!ForwardPreflight, Stream!server, report
<1>2. /\ UpTyped' /\ report(i).call \in Calls /\ report(i) \in FromOwner
      /\ without(fromOwner, report(i), fromOwner') /\ fromOwner' \in Seq(FromOwner)
  BY <1>1, ReportTaken DEF NetTyped
<1>3. DownTyped
  BY DEF NetTyped
<1>4. CASE slot = 0
  <2> DEFINE fs == one(Stream!plain("started", report(i).call))
  <2>1. /\ charged' = charged \cup {report(i).call} /\ slot' = 1
        /\ down' = [d \in Stream!Devices |-> Stream!Forward(d, fs)[d]]
    BY <1>2, <1>4 DEF Stream!ForwardPreflight, one, report
  <2>2. down' = [d \in Stream!Devices |-> Stream!Forward(d, IF d = "owner" THEN fs ELSE fs)[d]]
    BY <2>1
  <2>3. fs \in Seq(ToWinner) /\ fs \in Seq(ToOwner)
    BY <1>2, FramesTyped
  <2> HIDE DEF fs
  <2>4. /\ DownTyped'
        /\ toWinner' = IF "winner" \in online THEN toWinner \o fs ELSE toWinner
        /\ toOwner' = IF "owner" \in online THEN toOwner \o fs ELSE toOwner
    BY <1>3, <2>2, <2>3, ForwardBothTyped, ForwardBothEffect
  <2>5. report(i).call \in reserved
    <3>1. report(i) \in FramesOf(report(i).call)
      BY <1>2 DEF FramesOf, FromOwner, OfType
    <3>2. meets(fromOwner, FramesOf(report(i).call))
      <4>1. \A P : meets(fromOwner, P) <=> report(i) \in P \/ meets(fromOwner', P)
        BY <1>2 DEF without
      <4> QED
        BY <3>1, <4>1
    <3> QED
      BY <1>2, <3>2 DEF Unknown
  <2>6. ServerTyped'
    BY <1>1, <2>1, <2>5 DEF ServerTyped
  <2> QED
    BY <1>1, <1>2, <1>4, <2>1, <2>4, <2>6, ReportTaken DEF NetTyped, ServerMoves, fs
<1>5. CASE slot # 0
  <2>1. UNCHANGED <<Stream!server, down>>
    BY <1>5 DEF Stream!ForwardPreflight
  <2> QED
    BY <1>1, <1>2, <1>3, <1>5, <2>1, QuietDown, ReportTaken DEF NetTyped, ServerMoves,
       ServerTyped, Stream!server
<1> QED
  BY <1>4, <1>5

LEMMA ChunkForwarded ==
    ASSUME NetTyped, ServerTyped, NEW i \in DOMAIN up["owner"],
           Stream!ForwardRelayChunk(i)
    PROVE  /\ NetTyped' /\ ServerTyped' /\ Stream!idle /\ ServerMoves /\ hungUp' = hungUp
           /\ report(i).type = "chunk" /\ report(i) \in FromOwner /\ report(i).call \in Calls
           /\ without(fromOwner, report(i), fromOwner') /\ fromOwner' \in Seq(FromOwner)
           /\ fromWinner' = fromWinner /\ toOwner' = toOwner /\ UNCHANGED Stream!server
           /\ toWinner' = IF "winner" \in online THEN toWinner \o one(report(i)) ELSE toWinner
<1>1. /\ Stream!Taken("owner", i) /\ report(i).type = "chunk" /\ UNCHANGED Stream!server
      /\ down' = Stream!Forward("winner", one(report(i)))
  BY DEF Stream!ForwardRelayChunk, one, report
<1>2. /\ UpTyped' /\ report(i).call \in Calls /\ report(i) \in FromOwner
  BY <1>1, ReportTaken DEF NetTyped
<1>3. one(report(i)) \in Seq(ToWinner)
  BY <1>1, <1>2 DEF FromOwner, ToWinner, OfType, one
<1>4. "winner" \in Stream!Devices /\ "owner" # "winner" /\ DownTyped
  BY DEF Stream!Devices, NetTyped
<1>5. /\ DownTyped' /\ toOwner' = toOwner
      /\ toWinner' = IF "winner" \in online THEN toWinner \o one(report(i)) ELSE toWinner
  BY <1>1, <1>2, <1>3, <1>4, ForwardTyped, ForwardEffect
<1>6. ServerTyped'
  BY <1>1 DEF ServerTyped, Stream!server
<1> QED
  BY <1>1, <1>2, <1>5, <1>6, ReportTaken DEF NetTyped, ServerMoves

LEMMA ReleaseTyped ==
    ASSUME slot \in {0, 1}, NEW S
    PROVE  Stream!release(S) \in {0, 1}
  BY DEF Stream!release

(* A relay.terminal of the winner, and one of the owner.                    *)
LEMMA EndForwarded ==
    ASSUME NetTyped, ServerTyped, NEW i \in DOMAIN up["winner"],
           Stream!ForwardRelayTerminal("winner", i)
    PROVE  /\ NetTyped' /\ ServerTyped' /\ Stream!idle /\ ServerMoves /\ hungUp' = hungUp
           /\ request(i).type = "terminal" /\ request(i) \in FromWinner /\ request(i).call \in Calls
           /\ without(fromWinner, request(i), fromWinner') /\ fromWinner' \in Seq(FromWinner)
           /\ fromOwner' = fromOwner /\ toWinner' = toWinner /\ reserved' = reserved
           /\ \/ toOwner' = toOwner
              \/ toOwner' = toOwner \o one(Stream!plain("abort", request(i).call))
<1>1. Stream!Taken("winner", i) /\ request(i).type = "terminal"
  BY DEF Stream!ForwardRelayTerminal, request
<1>2. /\ UpTyped' /\ request(i).call \in Calls
      /\ request(i) \in FromWinner
  BY <1>1, RequestTaken DEF NetTyped
<1>3. "owner" \in Stream!Devices /\ "owner" # "winner" /\ DownTyped
  BY DEF Stream!Devices, NetTyped
<1>4. one(Stream!plain("abort", request(i).call)) \in Seq(ToOwner)
  BY <1>2, FramesTyped
<1>5. CASE request(i).call \in reserved
  <2>1. /\ finished' = finished \cup {request(i).call} /\ slot' = Stream!release({request(i).call})
        /\ down' = Stream!Forward("owner", one(Stream!plain("abort", request(i).call)))
        /\ UNCHANGED <<reserved, charged>>
    BY <1>2, <1>3, <1>5 DEF Stream!ForwardRelayTerminal, one, request
  <2>2. /\ DownTyped' /\ toWinner' = toWinner
        /\ \/ toOwner' = toOwner
           \/ toOwner' = toOwner \o one(Stream!plain("abort", request(i).call))
    BY <1>3, <1>4, <2>1, ForwardTyped, ForwardEffect
  <2>3. ServerTyped'
    BY <1>5, <2>1, ReleaseTyped DEF ServerTyped
  <2> QED
    BY <1>1, <1>2, <2>1, <2>2, <2>3, RequestTaken DEF NetTyped, ServerMoves
<1>6. CASE request(i).call \notin reserved
  <2>1. UNCHANGED <<Stream!server, down>>
    BY <1>2, <1>6 DEF Stream!ForwardRelayTerminal, request
  <2> QED
    BY <1>1, <1>2, <1>3, <2>1, QuietDown, RequestTaken DEF NetTyped, ServerMoves,
       ServerTyped, Stream!server
<1> QED
  BY <1>5, <1>6

LEMMA AnswerForwarded ==
    ASSUME NetTyped, ServerTyped, \A c \in Calls : Unknown(c),
           NEW i \in DOMAIN up["owner"], Stream!ForwardRelayTerminal("owner", i)
    PROVE  /\ NetTyped' /\ ServerTyped' /\ Stream!idle /\ ServerMoves /\ hungUp' = hungUp
           /\ report(i).type = "terminal" /\ report(i) \in FromOwner /\ report(i).call \in Calls
           /\ without(fromOwner, report(i), fromOwner') /\ fromOwner' \in Seq(FromOwner)
           /\ fromWinner' = fromWinner /\ toOwner' = toOwner /\ reserved' = reserved
           /\ toWinner' = IF "winner" \in online THEN toWinner \o one(report(i)) ELSE toWinner
<1>1. Stream!Taken("owner", i) /\ report(i).type = "terminal"
  BY DEF Stream!ForwardRelayTerminal, report
<1>2. /\ UpTyped' /\ report(i).call \in Calls /\ report(i) \in FromOwner
      /\ without(fromOwner, report(i), fromOwner') /\ fromOwner' \in Seq(FromOwner)
  BY <1>1, ReportTaken DEF NetTyped
<1>3. one(report(i)) \in Seq(ToWinner)
  BY <1>1, <1>2 DEF FromOwner, ToWinner, OfType, one
<1>4. "winner" \in Stream!Devices /\ "owner" # "winner" /\ DownTyped
  BY DEF Stream!Devices, NetTyped
<1>5. report(i).call \in reserved
  <2>1. report(i) \in FramesOf(report(i).call)
    BY <1>2 DEF FramesOf, FromOwner, OfType
  <2>2. meets(fromOwner, FramesOf(report(i).call))
    <3>1. \A P : meets(fromOwner, P) <=> report(i) \in P \/ meets(fromOwner', P)
      BY <1>2 DEF without
    <3> QED
      BY <2>1, <3>1
  <2> QED
    BY <1>2, <2>2 DEF Unknown
<1>6. /\ finished' = finished \cup {report(i).call} /\ slot' = Stream!release({report(i).call})
      /\ down' = Stream!Forward("winner", one(report(i))) /\ UNCHANGED <<reserved, charged>>
  BY <1>2, <1>5 DEF Stream!ForwardRelayTerminal, one, report
<1>7. /\ DownTyped' /\ toOwner' = toOwner
      /\ toWinner' = IF "winner" \in online THEN toWinner \o one(report(i)) ELSE toWinner
  BY <1>3, <1>4, <1>6, ForwardTyped, ForwardEffect
<1>8. ServerTyped'
  BY <1>5, <1>6, ReleaseTyped DEF ServerTyped
<1> QED
  BY <1>1, <1>2, <1>6, <1>7, <1>8, ReportTaken DEF NetTyped, ServerMoves

LEMMA CountsOfStream == \A S : Stream!Cardinality(S) = Cardinality(S)
  BY DEF Stream!Cardinality, Cardinality

LEMMA AbortsForwarded ==
    ASSUME NetTyped, ServerTyped, Stream!AbortWinnerRelays
    PROVE  /\ NetTyped' /\ ServerTyped' /\ Stream!idle /\ ServerMoves
           /\ hungUp > 0 /\ reserved' = reserved
           /\ fromWinner' = fromWinner /\ fromOwner' = fromOwner
           /\ \E fw \in Seq(Queue("terminal")), fo \in Seq(OfType("abort")) :
                 /\ toWinner' = IF "winner" \in online THEN toWinner \o fw ELSE toWinner
                 /\ toOwner' = IF "owner" \in online THEN toOwner \o fo ELSE toOwner
                 /\ \A n \in DOMAIN fw : fw[n].call \in reserved
<1>1. /\ Stream!idle /\ hungUp > 0 /\ hungUp' = hungUp - 1 /\ finished' = finished \cup Stream!open
      /\ slot' = Stream!release(Stream!open)
      /\ UNCHANGED <<reserved, charged, up, online, closed, Stream!stream, Stream!owner>>
  BY DEF Stream!AbortWinnerRelays
<1>2. PICK s \in Stream!SetToSeqs(Stream!open) :
         down' = [d \in Stream!Devices |->
                    Stream!Forward(d, IF d = "owner"
                                      THEN [n \in DOMAIN s |-> Stream!plain("abort", s[n])]
                                      ELSE [n \in DOMAIN s |-> Stream!plain("terminal", s[n])])[d]]
  BY DEF Stream!AbortWinnerRelays
<1> DEFINE fo == [n \in DOMAIN s |-> Stream!plain("abort", s[n])]
           fw == [n \in DOMAIN s |-> Stream!plain("terminal", s[n])]
<1>3. Stream!open \subseteq Calls /\ IsFiniteSet(Stream!open)
  <2>1. Stream!open \subseteq reserved
    BY DEF Stream!open
  <2> QED
    BY <2>1, FS_Subset DEF ServerTyped
<1>4. Stream!Cardinality(Stream!open) \in Nat
  BY <1>3, FS_CardinalityType, CountsOfStream
<1>5. DOMAIN s = 1 .. Stream!Cardinality(Stream!open) /\ \A n \in DOMAIN s : s[n] \in Calls
  <2>1. s \in [1 .. Stream!Cardinality(Stream!open) -> Stream!open]
    BY DEF Stream!SetToSeqs
  <2> QED
    BY <1>3, <2>1
<1>6. \A c \in Calls : /\ Stream!plain("terminal", c) \in Queue("terminal")
                       /\ Stream!plain("abort", c) \in OfType("abort")
  BY FramesMade DEF Queue
<1>7. fw \in Seq(Queue("terminal"))
  BY <1>4, <1>5, <1>6, IsASeq
<1>8. fo \in Seq(OfType("abort"))
  BY <1>4, <1>5, <1>6, IsASeq
<1>9. fw \in Seq(ToWinner) /\ fo \in Seq(ToOwner)
  <2>1. Queue("terminal") \subseteq ToWinner /\ OfType("abort") \subseteq ToOwner
    BY DEF Queue, ToWinner, ToOwner
  <2> QED
    BY <1>7, <1>8, <2>1, SeqMonotonic
<1>10. DownTyped
  BY DEF NetTyped
<1>11. down' = [d \in Stream!Devices |-> Stream!Forward(d, IF d = "owner" THEN fo ELSE fw)[d]]
  BY <1>2
<1>15. \A n \in DOMAIN fw : fw[n].call \in reserved
  <2>1. \A n \in DOMAIN s : s[n] \in Stream!open
    BY DEF Stream!SetToSeqs
  <2>2. \A n \in DOMAIN fw : fw[n].call = s[n]
    BY DEF Stream!plain
  <2> QED
    BY <2>1, <2>2 DEF Stream!open
<1> HIDE DEF fo, fw
<1>12. /\ DownTyped'
       /\ toWinner' = IF "winner" \in online THEN toWinner \o fw ELSE toWinner
       /\ toOwner' = IF "owner" \in online THEN toOwner \o fo ELSE toOwner
  BY <1>9, <1>10, <1>11, ForwardBothTyped, ForwardBothEffect
<1>13. ServerTyped'
  BY <1>1, ReleaseTyped DEF ServerTyped, Stream!open
<1>14. NetTyped'
  BY <1>1, <1>12, QuietUp DEF NetTyped
<1> QED
  BY <1>1, <1>7, <1>8, <1>12, <1>13, <1>14, <1>15, QuietUp DEF ServerMoves

(* The sockets.                                                             *)
LEMMA CutShort ==
    ASSUME NEW S, NEW q \in Seq(S), NEW k \in 0 .. Len(q)
    PROVE  SubSeq(q, 1, k) \in Seq(S) /\ \E r \in Seq(S) : q = SubSeq(q, 1, k) \o r
<1>1. Len(q) \in Nat /\ \A i \in 1 .. Len(q) : q[i] \in S
  BY LenProperties, ElementOfSeq
<1>2. SubSeq(q, 1, k) \in Seq(S)
  <2>1. 1 \in Int /\ k \in Int /\ \A i \in 1 .. k : q[i] \in S
    BY <1>1
  <2> QED
    BY <2>1, SubSeqProperties
<1>3. SubSeq(q, k + 1, Len(q)) \in Seq(S)
  <2>1. k + 1 \in Int /\ Len(q) \in Int /\ \A i \in k + 1 .. Len(q) : q[i] \in S
    BY <1>1
  <2> QED
    BY <2>1, SubSeqProperties
<1>4. SubSeq(q, 1, k) \o SubSeq(q, k + 1, Len(q)) = SubSeq(q, 1, Len(q))
  <2>1. 1 \in 1 .. Len(q) + 1 /\ k \in 1 - 1 .. Len(q) /\ Len(q) \in k .. Len(q)
    BY <1>1
  <2> QED
    BY <2>1, ConcatAdjacentSubSeq
<1>5. SubSeq(q, 1, Len(q)) = q
  BY SubSeqFull
<1> QED
  BY <1>2, <1>3, <1>4, <1>5

LEMMA ClosesEffect ==
    ASSUME NetTyped, NEW d \in Stream!Devices, Stream!Closes(d)
    PROVE  /\ UpTyped' /\ DownTyped' /\ closed' \in [Stream!Devices -> Nat]
           /\ closed' = [closed EXCEPT ![d] = @ + 1]
           /\ Stream!idle /\ d \in online /\ online' = online \ {d}
           /\ d = "winner" =>
                /\ fromOwner' = fromOwner /\ toOwner' = toOwner /\ toWinner' = <<>>
                /\ \E r \in Seq(FromWinner) : fromWinner = fromWinner' \o r
           /\ d = "owner" =>
                /\ fromWinner' = fromWinner /\ toWinner' = toWinner /\ toOwner' = <<>>
                /\ \E r \in Seq(FromOwner) : fromOwner = fromOwner' \o r
<1>1. /\ Stream!idle /\ d \in online /\ online' = online \ {d}
      /\ closed' = [closed EXCEPT ![d] = @ + 1] /\ down' = [down EXCEPT ![d] = <<>>]
  BY DEF Stream!Closes
<1>2. PICK k \in 0 .. Len(up[d]) : up' = [up EXCEPT ![d] = SubSeq(@, 1, k)]
  BY DEF Stream!Closes
<1>3. Stream!Devices = {"winner", "owner"}
  BY DEF Stream!Devices
<1>4. closed' \in [Stream!Devices -> Nat]
  BY <1>1 DEF NetTyped
<1>5. /\ DownTyped'
      /\ d = "winner" => toOwner' = toOwner /\ toWinner' = <<>>
      /\ d = "owner" => toWinner' = toWinner /\ toOwner' = <<>>
  <2>1. <<>> \in Seq(ToWinner) /\ <<>> \in Seq(ToOwner)
    BY EmptySeq
  <2> QED
    BY <1>1, <1>3, <2>1 DEF NetTyped, DownTyped, toWinner, toOwner
<1>6. up' = [e \in Stream!Devices |-> up'[e]]
  BY <1>2 DEF NetTyped, UpTyped
<1>7. CASE d = "winner"
  <2>1. fromWinner \in Seq(FromWinner) /\ k \in 0 .. Len(fromWinner)
    BY <1>7 DEF NetTyped, UpTyped, fromWinner
  <2>2. fromWinner' = SubSeq(fromWinner, 1, k) /\ fromOwner' = fromOwner
    BY <1>2, <1>3, <1>7 DEF NetTyped, UpTyped, fromWinner, fromOwner
  <2>3. /\ fromWinner' \in Seq(FromWinner)
        /\ \E r \in Seq(FromWinner) : fromWinner = fromWinner' \o r
    <3>1. /\ SubSeq(fromWinner, 1, k) \in Seq(FromWinner)
          /\ \E r \in Seq(FromWinner) : fromWinner = SubSeq(fromWinner, 1, k) \o r
      BY <2>1, CutShort
    <3> QED
      BY <2>2, <3>1
  <2>4. UpTyped'
    BY <1>6, <2>2, <2>3 DEF NetTyped, UpTyped
  <2> QED
    BY <1>1, <1>4, <1>5, <1>7, <2>2, <2>3, <2>4
<1>8. CASE d = "owner"
  <2>1. fromOwner \in Seq(FromOwner) /\ k \in 0 .. Len(fromOwner)
    BY <1>8 DEF NetTyped, UpTyped, fromOwner
  <2>2. fromOwner' = SubSeq(fromOwner, 1, k) /\ fromWinner' = fromWinner
    BY <1>2, <1>3, <1>8 DEF NetTyped, UpTyped, fromWinner, fromOwner
  <2>3. /\ fromOwner' \in Seq(FromOwner)
        /\ \E r \in Seq(FromOwner) : fromOwner = fromOwner' \o r
    <3>1. /\ SubSeq(fromOwner, 1, k) \in Seq(FromOwner)
          /\ \E r \in Seq(FromOwner) : fromOwner = SubSeq(fromOwner, 1, k) \o r
      BY <2>1, CutShort
    <3> QED
      BY <2>2, <3>1
  <2>4. UpTyped'
    BY <1>6, <2>2, <2>3 DEF NetTyped, UpTyped
  <2> QED
    BY <1>1, <1>4, <1>5, <1>8, <2>2, <2>3, <2>4
<1> QED
  BY <1>3, <1>7, <1>8

LEMMA WinnerDropsEffect ==
    ASSUME NetTyped, Stream!WinnerDrops
    PROVE  /\ NetTyped' /\ "winner" \in online /\ closed'["winner"] = closed["winner"] + 1
           /\ closed'["owner"] = closed["owner"]
           /\ UNCHANGED <<Stream!owner, Stream!server>> /\ Stream!failWaiters
           /\ UNCHANGED <<got, cancelled, endedBy, came, serial>>
           /\ stopped' = stopped \cup Stream!streams
           /\ fromOwner' = fromOwner /\ toOwner' = toOwner /\ toWinner' = <<>>
           /\ \E r \in Seq(FromWinner) : fromWinner = fromWinner' \o r
           /\ Stream!idle
<1>1. "winner" \in Stream!Devices /\ "owner" \in Stream!Devices /\ "winner" # "owner"
  BY DEF Stream!Devices
<1>2. /\ Stream!Closes("winner") /\ hungUp' = hungUp + 1
      /\ UNCHANGED <<Stream!owner, Stream!server>> /\ Stream!failWaiters
      /\ UNCHANGED <<got, cancelled, endedBy, came, serial>>
      /\ stopped' = stopped \cup Stream!streams
  BY DEF Stream!WinnerDrops
<1>3. /\ UpTyped' /\ DownTyped' /\ closed' \in [Stream!Devices -> Nat]
      /\ closed' = [closed EXCEPT !["winner"] = @ + 1]
      /\ "winner" \in online /\ online' = online \ {"winner"} /\ Stream!idle
      /\ fromOwner' = fromOwner /\ toOwner' = toOwner /\ toWinner' = <<>>
      /\ \E r \in Seq(FromWinner) : fromWinner = fromWinner' \o r
  BY <1>1, <1>2, ClosesEffect
<1>4. hungUp' \in Nat /\ online' \subseteq Stream!Devices
  BY <1>2, <1>3 DEF NetTyped
<1>5. closed'["winner"] = closed["winner"] + 1 /\ closed'["owner"] = closed["owner"]
  BY <1>1, <1>3 DEF NetTyped
<1> QED
  BY <1>2, <1>3, <1>4, <1>5 DEF NetTyped

LEMMA OwnerDropsEffect ==
    ASSUME NetTyped, OwnerTyped, Stream!OwnerDrops
    PROVE  /\ NetTyped' /\ OwnerTyped' /\ closed'["owner"] > 0
           /\ UNCHANGED <<Stream!stream, Stream!server, chunksSent>>
           /\ \A d \in Calls : \/ fulfil'[d] = fulfil[d]
                               \/ fulfil[d] = "start" /\ fulfil'[d] = "rejected"
           /\ fromWinner' = fromWinner /\ toWinner' = toWinner /\ toOwner' = <<>>
           /\ \E r \in Seq(FromOwner) : fromOwner = fromOwner' \o r
<1>1. "winner" \in Stream!Devices /\ "owner" \in Stream!Devices /\ "winner" # "owner"
  BY DEF Stream!Devices
<1>2. /\ Stream!Closes("owner") /\ UNCHANGED <<chunksSent, ownerBacklog, hungUp>>
      /\ UNCHANGED <<Stream!stream, Stream!server>> /\ ownerWaiter' = Unheld
      /\ fulfil' = [c \in Calls |-> IF c \in Stream!ownerPending THEN "rejected" ELSE fulfil[c]]
  BY DEF Stream!OwnerDrops
<1>3. /\ UpTyped' /\ DownTyped' /\ closed' \in [Stream!Devices -> Nat]
      /\ closed' = [closed EXCEPT !["owner"] = @ + 1]
      /\ online' = online \ {"owner"}
      /\ fromWinner' = fromWinner /\ toWinner' = toWinner /\ toOwner' = <<>>
      /\ \E r \in Seq(FromOwner) : fromOwner = fromOwner' \o r
  BY <1>1, <1>2, ClosesEffect
<1>4. NetTyped'
  BY <1>2, <1>3 DEF NetTyped
<1>5. closed'["owner"] > 0
  BY <1>1, <1>3 DEF NetTyped
<1>6. \A d \in Calls : \/ fulfil'[d] = fulfil[d]
                       \/ fulfil[d] = "start" /\ fulfil'[d] = "rejected"
  BY <1>2 DEF Stream!ownerPending
<1>7. OwnerTyped'
  BY <1>2 DEF OwnerTyped
<1> QED
  BY <1>2, <1>3, <1>4, <1>5, <1>6, <1>7

LEMMA ReconnectsEffect ==
    ASSUME NetTyped, NEW d \in Stream!Devices, Stream!Reconnects(d)
    PROVE  /\ NetTyped' /\ d \notin online /\ online' = online \cup {d}
           /\ UNCHANGED <<Stream!stream, Stream!owner, Stream!server, hungUp, closed>>
           /\ fromWinner' = fromWinner /\ fromOwner' = fromOwner
           /\ toWinner' = toWinner /\ toOwner' = toOwner /\ Stream!idle
<1>1. /\ d \notin online /\ online' = online \cup {d} /\ Stream!idle
      /\ UNCHANGED <<Stream!stream, Stream!owner, Stream!server, up, down, hungUp, closed>>
  BY DEF Stream!Reconnects
<1> QED
  BY <1>1, QuietUp, QuietDown DEF NetTyped

LEMMA StreamCases ==
    ASSUME Stream!Next
    PROVE  \/ \E c \in Calls : WinnerMoves(c) \/ OwnerMoves(c)
           \/ Stream!WinnerReceives \/ Stream!OwnerReceives
           \/ \E i \in DOMAIN up["winner"] :
                 Stream!ForwardReserve(i) \/ Stream!ForwardRelayTerminal("winner", i)
           \/ \E i \in DOMAIN up["owner"] :
                 \/ Stream!ForwardPreflight(i) \/ Stream!ForwardRelayChunk(i)
                 \/ Stream!ForwardRelayTerminal("owner", i)
           \/ Stream!AbortWinnerRelays
           \/ Stream!WinnerDrops \/ Stream!OwnerDrops
           \/ \E d \in Stream!Devices : Stream!Reconnects(d)
<1>1. \/ \E c \in Calls : WinnerMoves(c) \/ OwnerMoves(c)
      \/ Stream!WinnerReceives \/ Stream!OwnerReceives
      \/ Stream!ServerStep \/ Stream!SocketStep
  BY RemoteMoves
<1> QED
  BY <1>1 DEF Stream!ServerStep, Stream!SocketStep

LEMMA OwnerMovesUnknown ==
    ASSUME StreamTyped, NEW c \in Calls, OwnerMoves(c)
    PROVE  \A d \in Calls : Unknown(d)'
<1> SUFFICES ASSUME NEW d \in Calls PROVE Unknown(d)'
  OBVIOUS
<1>1. /\ NetTyped /\ OwnerTyped /\ Unknown(d) /\ fromOwner \in Seq(FromOwner)
  BY DEF StreamTyped, NetTyped, UpTyped
<1>2. /\ reserved' = reserved /\ toOwner' = toOwner /\ toWinner' = toWinner /\ came' = came
      /\ \/ fromOwner' = fromOwner
         \/ fromOwner' = fromOwner \o one(Stream!plain("terminal", c))
         \/ /\ chunksSent[c] + 1 \in 1 .. Chunks
            /\ fromOwner' = fromOwner \o one(Stream!chunk(c, chunksSent[c] + 1))
      /\ fulfil[c] # "none"
      /\ fulfil' = fulfil \/ \E s : fulfil' = [fulfil EXCEPT ![c] = s]
  BY <1>1, OwnerSays, OwnerAlone DEF moves, Stream!server, Stream!stream
<1>3. fulfil'[d] = fulfil[d] \/ fulfil[d] # "none"
  BY <1>1, <1>2 DEF OwnerTyped
<1>4. meets(fromOwner', FramesOf(d)) => meets(fromOwner, FramesOf(d)) \/ d = c
  <2>1. ASSUME NEW f \in FromOwner, f.call = c, fromOwner' = fromOwner \o one(f)
        PROVE  meets(fromOwner', FramesOf(d)) => meets(fromOwner, FramesOf(d)) \/ d = c
    <3>1. meets(fromOwner \o one(f), FramesOf(d)) <=>
             f \in FramesOf(d) \/ meets(fromOwner, FramesOf(d))
      BY <1>1, LastFrame
    <3> QED
      BY <2>1, <3>1 DEF FramesOf
  <2>2. /\ Stream!plain("terminal", c) \in FromOwner /\ Stream!plain("terminal", c).call = c
        /\ \A n \in 1 .. Chunks :
              Stream!chunk(c, n) \in FromOwner /\ Stream!chunk(c, n).call = c
    BY FramesMade DEF FromOwner, Queue
  <2> QED
    BY <1>2, <2>1, <2>2
<1> QED
  BY <1>1, <1>2, <1>3, <1>4 DEF Unknown

LEMMA OwnerHearsUnknown ==
    ASSUME StreamTyped, Stream!OwnerReceives
    PROVE  \A d \in Calls : Unknown(d)'
<1> SUFFICES ASSUME NEW d \in Calls PROVE Unknown(d)'
  OBVIOUS
<1>1. /\ NetTyped /\ OwnerTyped /\ Unknown(d) /\ fromOwner \in Seq(FromOwner)
  BY DEF StreamTyped, NetTyped, UpTyped
<1>2. /\ order \in ToOwner /\ without(toOwner, order, toOwner') /\ toOwner' \in Seq(ToOwner)
      /\ UNCHANGED <<Stream!server, came>> /\ toWinner' = toWinner
      /\ \/ /\ order.type = "reserve"
            /\ fulfil' = [fulfil EXCEPT ![order.call] = fulfil'[order.call]]
            /\ fromOwner' = IF "owner" \in online
                            THEN fromOwner \o one(Stream!plain("preflight_ok", order.call))
                            ELSE fromOwner
         \/ /\ order.type # "reserve" /\ fromOwner' = fromOwner
            /\ \A e \in Calls : \/ fulfil'[e] = fulfil[e]
                                \/ fulfil[e] = "start" /\ fulfil'[e] \in {"started", "rejected"}
  BY <1>1, OwnerHears DEF Stream!stream
<1>3. /\ \A P : meets(toOwner, P) <=> order \in P \/ meets(toOwner', P)
      /\ order.call \in Calls
  BY <1>2 DEF without, ToOwner, OfType, Stream!Frame
<1>4. order.type = "reserve" => order \in Of("reserve", order.call)
  BY <1>2 DEF Of, ToOwner, OfType
<1>5. CASE order.type = "reserve"
  <2>1. \A P : meets(toOwner, P) <=> order \in P \/ meets(toOwner', P)
    BY <1>3
  <2>2. order.call = d => d \in reserved
    BY <1>1, <1>4, <1>5, <2>1 DEF Unknown
  <2>3. order.call # d => fulfil'[d] = fulfil[d]
    BY <1>1, <1>2, <1>5 DEF OwnerTyped
  <2>4. meets(fromOwner', FramesOf(d)) => meets(fromOwner, FramesOf(d)) \/ order.call = d
    <3> DEFINE f == Stream!plain("preflight_ok", order.call)
    <3>1. f \in FromOwner /\ f.call = order.call
      BY <1>3, FramesMade DEF FromOwner, Queue
    <3>2. meets(fromOwner \o one(f), FramesOf(d)) <=>
             f \in FramesOf(d) \/ meets(fromOwner, FramesOf(d))
      BY <1>1, <3>1, LastFrame
    <3>3. fromOwner' = fromOwner \/ fromOwner' = fromOwner \o one(f)
      BY <1>2, <1>5
    <3> HIDE DEF f
    <3> QED
      BY <3>1, <3>2, <3>3 DEF FramesOf
  <2> QED
    BY <1>1, <1>2, <2>1, <2>2, <2>3, <2>4 DEF Unknown, Stream!server
<1>6. CASE order.type # "reserve"
  <2>1. meets(toOwner', Of("reserve", d)) => meets(toOwner, Of("reserve", d))
    BY <1>2, <1>3
  <2> QED
    BY <1>1, <1>2, <1>6, <2>1 DEF Unknown, Stream!server
<1> QED
  BY <1>5, <1>6

LEMMA ServerUnknown ==
    ASSUME StreamTyped,
           \/ \E i \in DOMAIN up["winner"] :
                 Stream!ForwardReserve(i) \/ Stream!ForwardRelayTerminal("winner", i)
           \/ \E i \in DOMAIN up["owner"] :
                 \/ Stream!ForwardPreflight(i) \/ Stream!ForwardRelayChunk(i)
                 \/ Stream!ForwardRelayTerminal("owner", i)
           \/ Stream!AbortWinnerRelays
    PROVE  \A d \in Calls : Unknown(d)'
<1> SUFFICES ASSUME NEW d \in Calls PROVE Unknown(d)'
  OBVIOUS
<1>1. /\ NetTyped /\ OwnerTyped /\ ServerTyped /\ Unknown(d)
      /\ fromOwner \in Seq(FromOwner) /\ toOwner \in Seq(ToOwner)
      /\ toWinner \in Seq(ToWinner)
      /\ \A c \in Calls : Unknown(c)
  BY DEF StreamTyped, NetTyped, UpTyped, DownTyped
<1>2. ASSUME NEW q \in Seq(ToOwner), ~ meets(q, Of("reserve", d)) \/ d \in reserved',
             toOwner' = toOwner \o q
      PROVE  meets(toOwner', Of("reserve", d)) => meets(toOwner, Of("reserve", d))
                                                  \/ d \in reserved'
  <2>1. meets(toOwner \o q, Of("reserve", d)) <=>
           meets(toOwner, Of("reserve", d)) \/ meets(q, Of("reserve", d))
    BY <1>1, JoinMeets
  <2> QED
    BY <1>2, <2>1
<1>3. ASSUME NEW f \in ToOwner, f \notin Of("reserve", d) \/ d \in reserved',
             toOwner' = toOwner \o one(f)
      PROVE  meets(toOwner', Of("reserve", d)) => meets(toOwner, Of("reserve", d))
                                                  \/ d \in reserved'
  <2>1. meets(toOwner \o one(f), Of("reserve", d)) <=>
           f \in Of("reserve", d) \/ meets(toOwner, Of("reserve", d))
    BY <1>1, LastFrame
  <2> QED
    BY <1>3, <2>1
<1>w. ASSUME NEW f \in ToWinner, f.call = d => d \in reserved', toWinner' = toWinner \o one(f)
      PROVE  meets(toWinner', FramesOf(d)) => meets(toWinner, FramesOf(d)) \/ d \in reserved'
  <2>1. meets(toWinner \o one(f), FramesOf(d)) <=>
           f \in FramesOf(d) \/ meets(toWinner, FramesOf(d))
    BY <1>1, LastFrame
  <2> QED
    BY <1>w, <2>1 DEF FramesOf
<1>s. ServerMoves => came' = came /\ fulfil' = fulfil
  BY DEF ServerMoves, Stream!stream, Stream!owner
<1>4. ASSUME NEW i \in DOMAIN up["winner"], Stream!ForwardReserve(i)
      PROVE  Unknown(d)'
  <2>1. /\ ServerMoves /\ request(i).type = "reserve" /\ request(i) \in FromWinner
        /\ request(i).call \in Calls /\ fromOwner' = fromOwner /\ toWinner' = toWinner
        /\ \/ /\ reserved' = reserved \cup {request(i).call}
              /\ toOwner' = toOwner \o one(request(i)) \/ toOwner' = toOwner
           \/ reserved' = reserved /\ toOwner' = toOwner
    BY <1>1, <1>4, ReserveForwarded
  <2>2. request(i) \in ToOwner /\ (request(i) \in Of("reserve", d) => request(i).call = d)
    BY <2>1 DEF FromWinner, ToOwner, OfType, Of
  <2>3. meets(toOwner', Of("reserve", d)) => meets(toOwner, Of("reserve", d)) \/ d \in reserved'
    BY <1>3, <2>1, <2>2
  <2> QED
    BY <1>1, <1>s, <2>1, <2>3 DEF Unknown
<1>5. ASSUME NEW i \in DOMAIN up["winner"], Stream!ForwardRelayTerminal("winner", i)
      PROVE  Unknown(d)'
  <2>1. /\ ServerMoves /\ request(i).call \in Calls /\ fromOwner' = fromOwner
        /\ toWinner' = toWinner
        /\ reserved' = reserved
        /\ toOwner' = toOwner \/ toOwner' = toOwner \o one(Stream!plain("abort", request(i).call))
    BY <1>1, <1>5, EndForwarded
  <2>2. /\ Stream!plain("abort", request(i).call) \in ToOwner
        /\ Stream!plain("abort", request(i).call) \notin Of("reserve", d)
    BY <2>1, FramesMade DEF Queue, ToOwner, Of
  <2>3. meets(toOwner', Of("reserve", d)) => meets(toOwner, Of("reserve", d)) \/ d \in reserved'
    BY <1>3, <2>1, <2>2
  <2> QED
    BY <1>1, <1>s, <2>1, <2>3 DEF Unknown
<1>6. ASSUME NEW i \in DOMAIN up["owner"],
             \/ Stream!ForwardPreflight(i) \/ Stream!ForwardRelayChunk(i)
             \/ Stream!ForwardRelayTerminal("owner", i)
      PROVE  Unknown(d)'
  <2>1. /\ ServerMoves /\ report(i) \in FromOwner /\ report(i).call \in Calls
        /\ reserved' = reserved
        /\ without(fromOwner, report(i), fromOwner') /\ fromOwner' \in Seq(FromOwner)
        /\ toOwner' = toOwner \/ toOwner' = toOwner \o one(Stream!plain("started", report(i).call))
        /\ \/ toWinner' = toWinner
           \/ toWinner' = toWinner \o one(Stream!plain("started", report(i).call))
           \/ toWinner' = toWinner \o one(report(i)) /\ report(i) \in ToWinner
    <3>1. CASE Stream!ForwardPreflight(i)
      BY <1>1, <3>1, PreflightForwarded
    <3>2. CASE Stream!ForwardRelayChunk(i)
      BY <1>1, <3>2, ChunkForwarded DEF Stream!server, FromOwner, ToWinner, OfType
    <3>3. CASE Stream!ForwardRelayTerminal("owner", i)
      BY <1>1, <3>3, AnswerForwarded DEF FromOwner, ToWinner, OfType
    <3> QED
      BY <1>6, <3>1, <3>2, <3>3
  <2>2. /\ Stream!plain("started", report(i).call) \in ToOwner
        /\ Stream!plain("started", report(i).call) \notin Of("reserve", d)
    BY <2>1, FramesMade DEF Queue, ToOwner, Of
  <2>3. meets(toOwner', Of("reserve", d)) => meets(toOwner, Of("reserve", d)) \/ d \in reserved'
    BY <1>3, <2>1, <2>2
  <2>4. \A P : meets(fromOwner, P) <=> report(i) \in P \/ meets(fromOwner', P)
    BY <2>1 DEF without
  <2>5. report(i).call \in reserved
    <3>1. report(i) \in FramesOf(report(i).call)
      BY <2>1 DEF FramesOf, FromOwner, OfType
    <3> QED
      BY <1>1, <2>1, <2>4, <3>1 DEF Unknown
  <2>6. /\ Stream!plain("started", report(i).call) \in ToWinner
        /\ Stream!plain("started", report(i).call).call = report(i).call
    BY <2>1, FramesMade DEF Queue, ToWinner
  <2>7. meets(toWinner', FramesOf(d)) => meets(toWinner, FramesOf(d)) \/ d \in reserved'
    BY <1>w, <2>1, <2>5, <2>6
  <2> QED
    BY <1>1, <1>s, <2>1, <2>3, <2>4, <2>7 DEF Unknown
<1>7. ASSUME Stream!AbortWinnerRelays PROVE Unknown(d)'
  <2>1. PICK fw \in Seq(Queue("terminal")), fo \in Seq(OfType("abort")) :
           /\ toWinner' = IF "winner" \in online THEN toWinner \o fw ELSE toWinner
           /\ toOwner' = IF "owner" \in online THEN toOwner \o fo ELSE toOwner
           /\ \A n \in DOMAIN fw : fw[n].call \in reserved
    BY <1>1, <1>7, AbortsForwarded
  <2>2. ServerMoves /\ fromOwner' = fromOwner /\ reserved' = reserved
    BY <1>1, <1>7, AbortsForwarded
  <2>3. fo \in Seq(ToOwner) /\ fw \in Seq(ToWinner)
    <3>1. OfType("abort") \subseteq ToOwner /\ Queue("terminal") \subseteq ToWinner
      BY DEF ToOwner, ToWinner, Queue
    <3> QED
      BY <3>1, SeqMonotonic
  <2>4. ~ meets(fo, Of("reserve", d))
    <3>1. \A n \in DOMAIN fo : fo[n] \in OfType("abort")
      BY ElementOfSeq, LenProperties
    <3> QED
      BY <3>1 DEF meets, OfType, Of
  <2>5. meets(toOwner', Of("reserve", d)) => meets(toOwner, Of("reserve", d)) \/ d \in reserved'
    BY <1>2, <2>1, <2>3, <2>4
  <2>6. meets(fw, FramesOf(d)) => d \in reserved
    BY <2>1 DEF meets, FramesOf
  <2>7. meets(toWinner \o fw, FramesOf(d)) <=>
           meets(toWinner, FramesOf(d)) \/ meets(fw, FramesOf(d))
    BY <1>1, <2>3, JoinMeets
  <2> QED
    BY <1>1, <1>s, <2>1, <2>2, <2>5, <2>6, <2>7 DEF Unknown
<1> QED
  BY <1>4, <1>5, <1>6, <1>7

LEMMA StreamTypedInit ==
    ASSUME Stream!Init PROVE StreamTyped /\ Waits
<1>1. WinnerTyped /\ Waits
  BY WinnerInit, WaitsInit
<1>2. OwnerTyped
  <2>1. <<>> \in Seq(Calls)
    BY EmptySeq
  <2> QED
    BY <2>1, StreamNumbers DEF OwnerTyped, Stream!Init
<1>3. ServerTyped
  BY FS_EmptySet DEF ServerTyped, Stream!Init
<1>4. /\ fromWinner = <<>> /\ fromOwner = <<>> /\ toWinner = <<>> /\ toOwner = <<>>
      /\ up = [d \in Stream!Devices |-> up[d]] /\ down = [d \in Stream!Devices |-> down[d]]
  BY DEF Stream!Init, fromWinner, fromOwner, toWinner, toOwner, Stream!Devices
<1>5. UpTyped /\ DownTyped
  BY <1>4, EmptySeq DEF UpTyped, DownTyped
<1>6. NetTyped
  BY <1>5 DEF NetTyped, Stream!Init
<1>7. \A c \in Calls : Unknown(c)
  BY <1>4, NoFrames DEF Unknown, Stream!Init
<1> QED
  BY <1>1, <1>2, <1>3, <1>6, <1>7 DEF StreamTyped

LEMMA WinnerWaitsStay ==
    ASSUME WinnerTyped, Waits, UNCHANGED Stream!stream
    PROVE  WinnerTyped' /\ Waits'
<1>1. UNCHANGED <<at, held, waiter, backlog>>
  BY DEF Stream!stream
<1> QED
  BY <1>1, WinnerStays DEF Waits, kept

LEMMA StreamTypedNext ==
    ASSUME StreamTyped, Waits, Stream!Next
    PROVE  StreamTyped' /\ Waits'
<1>0. WinnerTyped /\ OwnerTyped /\ ServerTyped /\ NetTyped /\ \A d \in Calls : Unknown(d)
  BY DEF StreamTyped
<1>s. ASSUME UNCHANGED <<Stream!owner>> PROVE OwnerTyped'
  BY <1>0, <1>s DEF OwnerTyped, Stream!owner
<1>t. ASSUME UNCHANGED <<Stream!server>> PROVE ServerTyped'
  BY <1>0, <1>t DEF ServerTyped, Stream!server
<1>u. ASSUME UNCHANGED <<Stream!owner, Stream!server>>, fromOwner' = fromOwner,
             toOwner' = toOwner \/ toOwner' = <<>>, toWinner' = toWinner \/ toWinner' = <<>>,
             came' = came
      PROVE  \A d \in Calls : Unknown(d)'
  BY <1>0, <1>u, NoFrames DEF Unknown, Stream!owner, Stream!server
<1>1. ASSUME NEW c \in Calls, WinnerMoves(c) PROVE StreamTyped' /\ Waits'
  <2>1. WinnerTyped' /\ Waits'
    BY <1>0, <1>1, WinnerMovesTyped, WinnerMovesWaits
  <2>2. UNCHANGED <<Stream!owner, Stream!server, came>>
    BY <1>1, WinnerAlone, WinnerKeepsArrivals
  <2>3. NetTyped' /\ fromOwner' = fromOwner /\ toOwner' = toOwner /\ toWinner' = toWinner
    BY <1>0, <1>1, WinnerSays
  <2> QED
    BY <1>s, <1>t, <1>u, <2>1, <2>2, <2>3 DEF StreamTyped
<1>2. ASSUME NEW c \in Calls, OwnerMoves(c) PROVE StreamTyped' /\ Waits'
  <2>1. UNCHANGED <<Stream!stream, Stream!server>>
    BY <1>2, OwnerAlone
  <2>2. NetTyped' /\ OwnerTyped'
    BY <1>0, <1>2, OwnerSays
  <2>3. WinnerTyped' /\ Waits'
    BY <1>0, <2>1, WinnerWaitsStay
  <2> QED
    BY <1>2, <1>t, <2>1, <2>2, <2>3, OwnerMovesUnknown DEF StreamTyped
<1>3. ASSUME Stream!WinnerReceives PROVE StreamTyped' /\ Waits'
  <2>1. WinnerTyped' /\ Waits'
    BY <1>0, <1>3, ReceivesTyped
  <2>2. /\ UNCHANGED <<Stream!owner, Stream!server, up, online, hungUp, closed>>
        /\ toWinner' \in Seq(ToWinner) /\ toOwner' = toOwner
        /\ down' = [d \in Stream!Devices |-> down'[d]]
    BY <1>0, <1>3, ReceivesEffect
  <2>3. UpTyped' /\ fromOwner' = fromOwner
    BY <1>0, <2>2, QuietUp DEF NetTyped
  <2>4. NetTyped'
    BY <1>0, <2>2, <2>3 DEF NetTyped, DownTyped
  <2>5. ASSUME NEW d \in Calls PROVE Unknown(d)'
    <3>1. \A P : meets(toWinner, P) <=> arrival \in P \/ meets(toWinner', P)
      BY <1>0, <1>3, ReceivesEffect DEF without
    <3>2. arrival \in ToWinner /\ (came'[d] = came[d] \/ arrival.call = d)
      BY <1>0, <1>3, ReceivesEffect DEF WinnerTyped
    <3>3. arrival.call = d => arrival \in FramesOf(d)
      BY <3>2 DEF ToWinner, OfType, FramesOf
    <3>4. fulfil' = fulfil /\ reserved' = reserved
      BY <2>2 DEF Stream!owner, Stream!server
    <3>5. Unknown(d)
      BY <1>0
    <3> QED
      BY <2>2, <2>3, <3>1, <3>2, <3>3, <3>4, <3>5 DEF Unknown
  <2> QED
    BY <1>s, <1>t, <2>1, <2>2, <2>4, <2>5 DEF StreamTyped
<1>4. ASSUME Stream!OwnerReceives PROVE StreamTyped' /\ Waits'
  <2>1. NetTyped' /\ OwnerTyped' /\ UNCHANGED <<Stream!stream, Stream!server>>
    BY <1>0, <1>4, OwnerHears
  <2>2. WinnerTyped' /\ Waits'
    BY <1>0, <2>1, WinnerWaitsStay
  <2> QED
    BY <1>4, <1>t, <2>1, <2>2, OwnerHearsUnknown DEF StreamTyped
<1>5. ASSUME \/ \E i \in DOMAIN up["winner"] :
                   Stream!ForwardReserve(i) \/ Stream!ForwardRelayTerminal("winner", i)
             \/ \E i \in DOMAIN up["owner"] :
                   \/ Stream!ForwardPreflight(i) \/ Stream!ForwardRelayChunk(i)
                   \/ Stream!ForwardRelayTerminal("owner", i)
             \/ Stream!AbortWinnerRelays
      PROVE  StreamTyped' /\ Waits'
  <2>1. NetTyped' /\ ServerTyped' /\ ServerMoves
    BY <1>0, <1>5, ReserveForwarded, EndForwarded, PreflightForwarded, ChunkForwarded,
       AnswerForwarded, AbortsForwarded
  <2>2. WinnerTyped' /\ Waits'
    BY <1>0, <2>1, WinnerWaitsStay DEF ServerMoves
  <2> QED
    BY <1>5, <1>s, <2>1, <2>2, ServerUnknown DEF StreamTyped, ServerMoves
<1>6. ASSUME Stream!WinnerDrops PROVE StreamTyped' /\ Waits'
  <2>1. WinnerTyped' /\ Waits'
    BY <1>0, <1>6, WinnerDropsTyped, WinnerDropsWaits
  <2>2. /\ NetTyped' /\ UNCHANGED <<Stream!owner, Stream!server, came>>
        /\ fromOwner' = fromOwner /\ toOwner' = toOwner /\ toWinner' = <<>>
    BY <1>0, <1>6, WinnerDropsEffect
  <2> QED
    BY <1>s, <1>t, <1>u, <2>1, <2>2 DEF StreamTyped
<1>7. ASSUME Stream!OwnerDrops PROVE StreamTyped' /\ Waits'
  <2>1. /\ NetTyped' /\ OwnerTyped' /\ UNCHANGED <<Stream!stream, Stream!server>>
        /\ \A d \in Calls : \/ fulfil'[d] = fulfil[d]
                            \/ fulfil[d] = "start" /\ fulfil'[d] = "rejected"
        /\ toOwner' = <<>> /\ \E r \in Seq(FromOwner) : fromOwner = fromOwner' \o r
        /\ fromOwner' \in Seq(FromOwner) /\ toWinner' = toWinner
    BY <1>0, <1>7, OwnerDropsEffect DEF NetTyped, UpTyped
  <2>2. WinnerTyped' /\ Waits'
    BY <1>0, <2>1, WinnerWaitsStay
  <2>3. \A P : meets(fromOwner', P) => meets(fromOwner, P)
    <3>1. PICK r \in Seq(FromOwner) : fromOwner = fromOwner' \o r
      BY <2>1
    <3>2. \A P : meets(fromOwner' \o r, P) <=> meets(fromOwner', P) \/ meets(r, P)
      BY <2>1, JoinMeets
    <3> QED
      BY <3>1, <3>2
  <2>4. \A d \in Calls : Unknown(d)'
    BY <1>0, <2>1, <2>3, NoFrames DEF Unknown, Stream!server, Stream!stream
  <2> QED
    BY <1>t, <2>1, <2>2, <2>4 DEF StreamTyped
<1>8. ASSUME NEW d \in Stream!Devices, Stream!Reconnects(d) PROVE StreamTyped' /\ Waits'
  <2>1. /\ NetTyped' /\ UNCHANGED <<Stream!stream, Stream!owner, Stream!server>>
        /\ fromOwner' = fromOwner /\ toOwner' = toOwner /\ toWinner' = toWinner
    BY <1>0, <1>8, ReconnectsEffect
  <2>2. WinnerTyped' /\ Waits'
    BY <1>0, <2>1, WinnerWaitsStay
  <2> QED
    BY <1>s, <1>t, <1>u, <2>1, <2>2 DEF StreamTyped, Stream!stream
<1> QED
  BY <1>1, <1>2, <1>3, <1>4, <1>5, <1>6, <1>7, <1>8, StreamCases

-----------------------------------------------------------------------------
(* What reached the winner of a call, and what became of it.                *)
(*                                                                          *)
(* The values of a sequence, and the pairs of them that stand in it one     *)
(* before the other.                                                        *)

values(s) == {s[k] : k \in DOMAIN s}

pairs(s) ==
    {p \in values(s) \X values(s) : \E k, l \in DOMAIN s : k < l /\ s[k] = p[1] /\ s[l] = p[2]}

LEMMA NoValues == values(<<>>) = {} /\ pairs(<<>>) = {}
<1> DEFINE s == <<>>
<1>1. DOMAIN s = {}
  OBVIOUS
<1> HIDE DEF s
<1>2. values(s) = {} /\ pairs(s) = {}
  BY <1>1 DEF values, pairs
<1> QED
  BY <1>2 DEF s

LEMMA OneMore ==
    ASSUME NEW S, NEW s \in Seq(S), NEW n \in S
    PROVE  /\ values(Append(s, n)) = values(s) \cup {n}
           /\ pairs(Append(s, n)) = pairs(s) \cup (values(s) \X {n})
           /\ DOMAIN s \subseteq Nat /\ DOMAIN s \subseteq DOMAIN Append(s, n)
           /\ \A k \in DOMAIN s : Append(s, n)[k] = s[k]
           /\ \E e \in DOMAIN Append(s, n) :
                 /\ Append(s, n)[e] = n /\ e \notin DOMAIN s
                 /\ \A k \in DOMAIN Append(s, n) : k # e => k \in DOMAIN s /\ k < e
<1> DEFINE r == Append(s, n)
           e == Len(s) + 1
<1>1. /\ Len(s) \in Nat /\ DOMAIN s = 1 .. Len(s) /\ DOMAIN r = 1 .. e
      /\ r[e] = n /\ \A k \in 1 .. Len(s) : r[k] = s[k]
  BY LenProperties, AppendProperties
<1>2. /\ DOMAIN s \subseteq Nat /\ DOMAIN s \subseteq DOMAIN r
      /\ e \in DOMAIN r /\ e \notin DOMAIN s
      /\ \A k \in DOMAIN r : k # e => k \in DOMAIN s /\ k < e
      /\ \A k \in DOMAIN s : r[k] = s[k] /\ k < e /\ ~ e < k
  BY <1>1
<1>3. r[e] = n
  BY <1>1
<1> HIDE DEF r, e
<1>4. values(r) = values(s) \cup {n}
  BY <1>2, <1>3 DEF values
<1>5. pairs(r) \subseteq pairs(s) \cup (values(s) \X {n})
  <2> SUFFICES ASSUME NEW x \in values(r), NEW y \in values(r),
                      NEW k \in DOMAIN r, NEW l \in DOMAIN r, k < l, r[k] = x, r[l] = y
               PROVE  <<x, y>> \in pairs(s) \cup (values(s) \X {n})
    BY DEF pairs
  <2>0. k # e
    BY <1>2
  <2>1. k \in DOMAIN s /\ x = s[k]
    BY <1>2, <2>0
  <2>2. CASE l = e
    BY <1>3, <2>1, <2>2 DEF values
  <2>3. CASE l # e
    BY <1>2, <2>1, <2>3 DEF values, pairs
  <2> QED
    BY <2>2, <2>3
<1>6. pairs(s) \subseteq pairs(r)
  BY <1>2, <1>4 DEF pairs
<1>7. values(s) \X {n} \subseteq pairs(r)
  <2> SUFFICES ASSUME NEW k \in DOMAIN s PROVE <<s[k], n>> \in pairs(r)
    BY DEF values
  <2>1. s[k] \in values(r) /\ n \in values(r)
    BY <1>4 DEF values
  <2> QED
    BY <1>2, <1>3, <2>1 DEF pairs
<1>8. /\ values(r) = values(s) \cup {n} /\ pairs(r) = pairs(s) \cup (values(s) \X {n})
      /\ \E f \in DOMAIN r : /\ r[f] = n /\ f \notin DOMAIN s
                             /\ \A k \in DOMAIN r : k # f => k \in DOMAIN s /\ k < f
  BY <1>2, <1>3, <1>4, <1>5, <1>6, <1>7
<1> QED
  BY <1>2, <1>8 DEF r

(* The chunk of c its stream holds, if any.                                 *)
hand(c) == nums(one(held[c]), c)

live(c) == at[c] \in {"start", "next", "yield"}

(* The host was given what came first, the stream holds the next, and the   *)
(* rest is kept as it came.                                                 *)
Arrived(c) ==
    /\ values(got[c]) \cup hand(c) \cup nums(kept, c) \subseteq values(came[c])
    /\ pairs(got[c]) \subseteq pairs(came[c])
    /\ values(got[c]) \X (hand(c) \cup nums(kept, c)) \subseteq pairs(came[c])
    /\ hand(c) \X nums(kept, c) \subseteq pairs(came[c])
    /\ ranked(kept, c, pairs(came[c]))
    /\ meets(backlog["terminal"], Of("terminal", c)) => 0 \in values(came[c])

(* A chunk is in one place only.                                            *)
Distinct(c) ==
    /\ single(fromOwner, c) /\ single(toWinner, c)
    /\ \A k, l \in DOMAIN came[c] : came[c][k] = came[c][l] /\ came[c][k] # 0 => k = l
    /\ nums(fromOwner, c) \cap nums(toWinner, c) = {}
    /\ nums(fromOwner, c) \cap values(came[c]) = {}
    /\ nums(toWinner, c) \cap values(came[c]) = {}
    /\ nums(fromOwner, c) \cup nums(toWinner, c) \subseteq 1 .. chunksSent[c]
    /\ values(came[c]) \subseteq 0 .. chunksSent[c]

(* A call the server has heard of is not new.                               *)
Asked(c) == c \in reserved \/ meets(fromWinner, Of("reserve", c)) => at[c] # "new"

(* As long as streams are opened one after the other and none times out:    *)
(* one stream is live, it alone waits for an answer, and no chunk of its    *)
(* call is lost.                                                            *)
OneLive == \A c, d \in Calls : live(c) /\ live(d) => c = d
NoStale == \A c \in Calls : waiter["chunk"] = c => at[c] = "next"

Full(c) ==
    live(c) => values(came[c]) \subseteq {0} \cup values(got[c]) \cup hand(c) \cup nums(kept, c)

Passed(c) ==
    \A k, l \in DOMAIN came[c] :
        k < l /\ came[c][k] # 0 /\ came[c][l] \in values(got[c]) => came[c][k] \in values(got[c])

(* Its relay.terminal came, and its host has all that came before.          *)
Closed(c) ==
    \E l \in DOMAIN came[c] :
        /\ came[c][l] = 0
        /\ \A k \in DOMAIN came[c] : k < l /\ came[c][k] # 0 => came[c][k] \in values(got[c])

WholeAtEnd(c) == held[c] \in Of("terminal", c) \/ endedBy[c].call = c => Closed(c)

Serially ==
    serial => /\ OneLive /\ NoStale
              /\ \A c \in Calls : Full(c) /\ Passed(c) /\ WholeAtEnd(c)

StreamSafe ==
    /\ StreamTyped /\ Waits /\ Serially
    /\ \A c \in Calls : Arrived(c) /\ Distinct(c) /\ Asked(c)

LEMMA HandIs ==
    ASSUME NEW c
    PROVE  /\ held[c] \in Of("chunk", c) => hand(c) = {held[c].seq}
           /\ held[c] \notin Of("chunk", c) => hand(c) = {}
           /\ held[c]' = held[c] => hand(c)' = hand(c)
  BY OneFrame DEF hand

LEMMA HeldIs ==
    ASSUME WinnerTyped, NEW c \in Calls
    PROVE  /\ at[c] # "next" => held[c] \notin OfType("chunk") /\ held[c] \notin OfType("terminal")
           /\ held[c] # Stream!NoFrame => at[c] \in {"start", "next"}
           /\ held[c] \in Of("chunk", c) => held[c] \in Numbered /\ held[c].seq \in 1 .. Chunks
<1>1. held[c] \in InHand(c)
  BY DEF WinnerTyped
<1>2. Stream!NoFrame \notin OfType("chunk") /\ Stream!NoFrame \notin OfType("terminal")
  BY NoFrameIs DEF OfType
<1>3. OfType("started") \cap OfType("chunk") = {} /\ OfType("started") \cap OfType("terminal") = {}
  BY DEF OfType
<1>4. at[c] = "next" => held[c] = Stream!NoFrame \/ held[c] \in Numbered
  BY <1>1 DEF InHand
<1>5. at[c] # "next" => held[c] \notin OfType("chunk") /\ held[c] \notin OfType("terminal")
  BY <1>1, <1>2, <1>3 DEF InHand
<1>6. held[c] # Stream!NoFrame => at[c] \in {"start", "next"}
  BY <1>1 DEF InHand
<1>7. held[c] \in Of("chunk", c) => held[c] \in Numbered
  BY <1>2, <1>4, <1>5 DEF Of, OfType
<1>8. \A f \in Numbered : f \in Of("chunk", c) => f.seq \in 1 .. Chunks
  BY StreamNumbers DEF Numbered, Of, Stream!Frame
<1> QED
  BY <1>5, <1>6, <1>7, <1>8

(* The steps of the winner: a stream is opened, ...                         *)
Begins(c) ==
    /\ at[c] = "new" /\ at'[c] = "start" /\ others(c)
    /\ held'[c] \notin OfType("chunk") /\ held'[c] \notin OfType("terminal")
    /\ kept' = kept /\ backlog'["terminal"] = backlog["terminal"]
    /\ waiter'["chunk"] = waiter["chunk"]
    /\ got' = got /\ endedBy' = endedBy /\ serial' = (serial /\ Stream!streams = {})

(* ... turns to its backlog, ...                                            *)
WaitsOn(c) ==
    /\ at[c] \in {"start", "yield"} /\ at'[c] = "next" /\ others(c)
    /\ \/ /\ kept = <<>> /\ backlog["terminal"] = <<>> /\ waiter'["chunk"] = c
          /\ held'[c] = Stream!NoFrame
          /\ kept' = kept /\ backlog'["terminal"] = backlog["terminal"]
       \/ /\ kept # <<>> /\ held'[c] = Head(kept) /\ kept' = Tail(kept)
          /\ backlog'["terminal"] = backlog["terminal"]
          /\ waiter'["chunk"] = waiter["chunk"]
       \/ /\ kept = <<>> /\ backlog["terminal"] # <<>> /\ kept' = kept
          /\ held'[c] = Head(backlog["terminal"])
          /\ backlog'["terminal"] = Tail(backlog["terminal"])
          /\ waiter'["chunk"] = waiter["chunk"]
    /\ UNCHANGED <<got, endedBy, serial>>

(* ... hands over its chunk, ...                                            *)
HandsOver(c) ==
    /\ at[c] = "next" /\ at'[c] = "yield" /\ others(c)
    /\ held[c] \in Of("chunk", c) /\ held'[c] = Stream!NoFrame
    /\ got' = [got EXCEPT ![c] = Append(@, held[c].seq)]
    /\ UNCHANGED <<waiter, backlog, endedBy, serial>>

(* ... or some are over, and what they held is dropped.                     *)
LetsGo ==
    /\ \A d \in Calls : \/ at'[d] = at[d] /\ held'[d] = held[d]
                        \/ at'[d] \in Stream!Over /\ held'[d] = Stream!NoFrame
    /\ \A d \in Calls : waiter'["chunk"] = d =>
          waiter["chunk"] = d /\ (at'[d] = at[d] \/ ~ serial')
    /\ \A d \in Calls : \/ endedBy'[d] = endedBy[d]
                        \/ endedBy'[d] = held[d] /\ held[d] \in OfType("terminal")
    /\ UNCHANGED <<got, backlog>> /\ (serial' => serial)

LEMMA WinnerKinds ==
    ASSUME WinnerTyped, Waits, NEW c \in Calls, WinnerMoves(c)
    PROVE  Begins(c) \/ WaitsOn(c) \/ HandsOver(c) \/ LetsGo
<1>0. /\ at \in [Calls -> Stream!At] /\ held \in [Calls -> Stream!Frame \cup {Stream!NoFrame}]
      /\ endedBy \in [Calls -> Stream!Frame \cup {Stream!NoFrame}] /\ serial \in BOOLEAN
      /\ held[c] \in InHand(c) /\ backlog = [t \in Stream!Types |-> backlog[t]]
  BY DEF WinnerTyped
<1>n. Stream!NoWaiter["chunk"] = Unheld /\ Unheld \notin Calls
  BY StreamNumbers DEF Stream!NoWaiter, Stream!Types
<1>w. waiter["chunk"] = c => at[c] \in {"next", "returned", "failed"} /\ held[c] = Stream!NoFrame
  BY DEF Waits
<1>1. CASE Stream!StreamAsWinner(c)
  <2>1. /\ at[c] = "new" /\ Stream!waitType(c, "start", {"started"})
        /\ UNCHANGED <<got, endedBy>> /\ serial' = (serial /\ Stream!streams = {})
    BY <1>1 DEF Stream!StreamAsWinner, Stream!mayStream
  <2>2. /\ others(c) /\ at'[c] = "start" /\ waiter'["chunk"] = waiter["chunk"]
        /\ backlog'["chunk"] = backlog["chunk"] /\ backlog'["terminal"] = backlog["terminal"]
        /\ held'[c] \in {Stream!NoFrame} \cup Queue("started")
    BY <2>1, WaitStart
  <2>3. held'[c] \notin OfType("chunk") /\ held'[c] \notin OfType("terminal")
    BY <2>2, NoFrameIs DEF Queue, OfType
  <2> QED
    BY <2>1, <2>2, <2>3 DEF Begins, kept
<1>2. CASE Stream!StreamAborted(c)
  <2>1. /\ at' = [d \in Calls |-> IF d \in Stream!pending \cup {c} THEN "returned" ELSE at[d]]
        /\ UNCHANGED <<held, backlog, got, endedBy>> /\ waiter' = Stream!NoWaiter
        /\ at[c] = "new" /\ serial' = (serial /\ Stream!streams = {})
    BY <1>2 DEF Stream!StreamAborted, Stream!mayStream
  <2>2. held[c] = Stream!NoFrame
    BY <1>0, <2>1 DEF InHand
  <2>3. \A d \in Calls : \/ at'[d] = at[d] /\ held'[d] = held[d]
                         \/ at'[d] = "returned" /\ held'[d] = Stream!NoFrame
    BY <2>1, <2>2 DEF Stream!pending
  <2> QED
    BY <1>n, <2>1, <2>3 DEF LetsGo, Stream!Over
<1>3. CASE Stream!Cancel(c)
  <2>1. Stream!failWaiters /\ UNCHANGED <<got, endedBy, serial>>
    BY <1>3 DEF Stream!Cancel
  <2>2. \A d \in Calls : \/ at'[d] = at[d] /\ held'[d] = held[d]
                         \/ at'[d] = "returned" /\ held'[d] = Stream!NoFrame
    BY <1>0, <2>1 DEF Stream!failWaiters, Stream!pending
  <2> QED
    BY <1>n, <2>1, <2>2 DEF LetsGo, Stream!Over, Stream!failWaiters
<1>4. CASE Stream!Started(c) \/ Stream!ReadOn(c)
  <2>1. /\ Stream!returns(c) \/ Stream!waitType(c, "next", {"chunk", "terminal"})
        /\ at[c] = "yield" \/ (at[c] = "start" /\ held[c] # Stream!NoFrame)
        /\ UNCHANGED <<got, endedBy, serial>>
    BY <1>4 DEF Stream!Started, Stream!ReadOn
  <2>2. CASE Stream!returns(c)
    <3>1. \A d \in Calls : \/ at'[d] = at[d] /\ held'[d] = held[d]
                           \/ d = c /\ at'[d] = "returned" /\ held'[d] = Stream!NoFrame
      BY <1>0, <2>2 DEF Stream!returns
    <3>2. UNCHANGED <<waiter, backlog>> /\ waiter["chunk"] # c
      BY <1>w, <2>1, <2>2 DEF Stream!returns
    <3> QED
      BY <2>1, <3>1, <3>2 DEF LetsGo, Stream!Over
  <2>3. CASE Stream!waitType(c, "next", {"chunk", "terminal"})
    BY <2>1, <2>3, WaitNext DEF WaitsOn, kept
  <2> QED
    BY <2>1, <2>2, <2>3
<1>5. CASE Stream!YieldChunk(c)
  <2>1. /\ at[c] = "next" /\ held[c].type = "chunk" /\ held[c].call = c
        /\ at' = [at EXCEPT ![c] = "yield"] /\ held' = [held EXCEPT ![c] = Stream!NoFrame]
        /\ got' = [got EXCEPT ![c] = Append(@, held[c].seq)]
        /\ UNCHANGED <<waiter, backlog, endedBy, serial>>
    BY <1>5 DEF Stream!YieldChunk, Stream!opens
  <2>2. held[c] \in Of("chunk", c)
    BY <1>0, <2>1, NoFrameIs DEF Of
  <2> QED
    BY <1>0, <2>1, <2>2 DEF HandsOver, others
<1>6. CASE Stream!ForeignChunk(c) \/ Stream!Terminal(c)
  <2>1. /\ held[c].type \in {"chunk", "terminal"} /\ UNCHANGED <<got, waiter, backlog, serial>>
        /\ \E a \in Stream!Over : at' = [at EXCEPT ![c] = a]
        /\ held' = [held EXCEPT ![c] = Stream!NoFrame]
        /\ \/ endedBy' = endedBy
           \/ held[c].type = "terminal" /\ endedBy' = [endedBy EXCEPT ![c] = held[c]]
    BY <1>6 DEF Stream!ForeignChunk, Stream!Terminal, Stream!returns, Stream!Over
  <2>2. held[c] \in Stream!Frame
    BY <1>0, <2>1, NoFrameIs
  <2>3. waiter["chunk"] # c
    BY <1>w, <2>1, NoFrameIs
  <2>4. \A d \in Calls : \/ at'[d] = at[d] /\ held'[d] = held[d]
                         \/ d = c /\ at'[d] \in Stream!Over /\ held'[d] = Stream!NoFrame
    BY <1>0, <2>1
  <2>5. \A d \in Calls : \/ endedBy'[d] = endedBy[d]
                         \/ endedBy'[d] = held[d] /\ held[d] \in OfType("terminal")
    BY <1>0, <2>1, <2>2 DEF OfType
  <2> QED
    BY <2>1, <2>3, <2>4, <2>5 DEF LetsGo
<1>7. CASE Stream!WinnerTimeout(c)
  <2>1. /\ at' = [at EXCEPT ![c] = "failed"] /\ held[c] = Stream!NoFrame /\ ~ serial'
        /\ UNCHANGED <<held, got, waiter, backlog, endedBy>>
    BY <1>7 DEF Stream!WinnerTimeout, Stream!pending
  <2>2. \A d \in Calls : \/ at'[d] = at[d] /\ held'[d] = held[d]
                         \/ at'[d] \in Stream!Over /\ held'[d] = Stream!NoFrame
    BY <1>0, <2>1 DEF Stream!Over
  <2> QED
    BY <2>1, <2>2 DEF LetsGo
<1> QED
  BY <1>1, <1>2, <1>3, <1>4, <1>5, <1>6, <1>7 DEF WinnerMoves

LEMMA DropsLetGo ==
    ASSUME WinnerTyped, Stream!WinnerDrops
    PROVE  LetsGo /\ came' = came
<1>1. Stream!failWaiters /\ UNCHANGED <<got, endedBy, came, serial>>
  BY DEF Stream!WinnerDrops
<1>2. \A d \in Calls : \/ at'[d] = at[d] /\ held'[d] = held[d]
                       \/ at'[d] = "returned" /\ held'[d] = Stream!NoFrame
  BY <1>1 DEF Stream!failWaiters, Stream!pending, WinnerTyped
<1>3. Stream!NoWaiter["chunk"] = Unheld /\ Unheld \notin Calls
  BY StreamNumbers DEF Stream!NoWaiter, Stream!Types
<1> QED
  BY <1>1, <1>2, <1>3 DEF LetsGo, Stream!Over, Stream!failWaiters

LEMMA ArrivedStays ==
    ASSUME NEW c \in Calls, Arrived(c), UNCHANGED <<came[c], got[c], kept>>,
           hand(c)' \subseteq hand(c),
           meets(backlog["terminal"], Of("terminal", c))'
             => meets(backlog["terminal"], Of("terminal", c))
    PROVE  Arrived(c)'
  BY DEF Arrived

LEMMA FirstKept ==
    ASSUME WinnerTyped, kept # <<>>
    PROVE  /\ Head(kept) \in Queue("chunk")
           /\ \A d : nums(kept, d) = nums(one(Head(kept)), d) \cup nums(Tail(kept), d)
           /\ \A d, R : ranked(kept, d, R) =>
                 /\ ranked(Tail(kept), d, R)
                 /\ nums(one(Head(kept)), d) \X nums(Tail(kept), d) \subseteq R
<1>1. kept \in Seq(Queue("chunk"))
  BY DEF WinnerTyped, kept, Stream!Types
<1>2. /\ Head(kept) \in Queue("chunk") /\ Tail(kept) \in Seq(Queue("chunk"))
      /\ kept = one(Head(kept)) \o Tail(kept)
  BY <1>1, FirstAndRest
<1> DEFINE o == one(Head(kept))
           t == Tail(kept)
<1>3. o \in Seq(Queue("chunk")) /\ t \in Seq(Queue("chunk"))
  BY <1>2 DEF one
<1> HIDE DEF o, t
<1>4. \A d : nums(o \o t, d) = nums(o, d) \cup nums(t, d)
  BY <1>3, JoinNums
<1>5. \A d, R : ranked(o \o t, d, R) => ranked(t, d, R) /\ nums(o, d) \X nums(t, d) \subseteq R
  BY <1>3, JoinRanked
<1> QED
  BY <1>2, <1>4, <1>5 DEF o, t

LEMMA FirstTerminal ==
    ASSUME WinnerTyped, backlog["terminal"] # <<>>
    PROVE  /\ Head(backlog["terminal"]) \in Queue("terminal")
           /\ \A P : meets(backlog["terminal"], P) <=>
                        Head(backlog["terminal"]) \in P \/ meets(Tail(backlog["terminal"]), P)
<1>1. backlog["terminal"] \in Seq(Queue("terminal"))
  BY DEF WinnerTyped, Stream!Types
<1> QED
  BY <1>1, FirstAndRest, HeadTaken DEF without

(* Of a stream that turns to its backlog: what it holds after.              *)
LEMMA WaitsOnHand ==
    ASSUME WinnerTyped, NEW c \in Calls, WaitsOn(c), NEW d \in Calls
    PROVE  /\ d # c => hand(d)' = hand(d)
           /\ hand(c) = {}
           /\ held'[c] \notin OfType("chunk") => hand(c)' = {}
           /\ held'[c] = Head(kept) => hand(c)' = nums(one(Head(kept)), c)
<1>1. d # c => held'[d] = held[d]
  BY DEF WaitsOn, others
<1>2. held[c] \notin OfType("chunk")
  BY HeldIs DEF WaitsOn
<1>3. Of("chunk", c) \subseteq OfType("chunk")
  BY DEF Of, OfType
<1>4. hand(c)' = nums(one(held'[c]), c)
  BY DEF hand
<1>5. held'[c] \notin OfType("chunk") => hand(c)' = {}
  BY <1>3, <1>4, OneFrame
<1>6. d # c => hand(d)' = hand(d)
  BY <1>1 DEF hand
<1> QED
  BY <1>2, <1>3, <1>4, <1>5, <1>6, HandIs

LEMMA WaitsOnArrived ==
    ASSUME WinnerTyped, NEW c \in Calls, WaitsOn(c), came' = came, NEW d \in Calls, Arrived(d)
    PROVE  Arrived(d)'
<1>0. got' = got
  BY DEF WaitsOn
<1>1. CASE /\ held'[c] = Stream!NoFrame
           /\ kept' = kept /\ backlog'["terminal"] = backlog["terminal"]
  <2>1. held'[c] \notin OfType("chunk")
    BY <1>1, NoFrameIs DEF OfType
  <2>2. hand(d)' \subseteq hand(d)
    BY <2>1, WaitsOnHand
  <2> QED
    BY <1>0, <1>1, <2>2, ArrivedStays
<1>2. CASE /\ kept # <<>> /\ held'[c] = Head(kept) /\ kept' = Tail(kept)
           /\ backlog'["terminal"] = backlog["terminal"]
  <2> DEFINE R == pairs(came[d])
             x == nums(one(Head(kept)), d)
             t == nums(Tail(kept), d)
  <2>1. /\ nums(kept, d) = x \cup t /\ nums(kept', d) = t
        /\ ranked(kept, d, R) => ranked(kept', d, R) /\ x \X t \subseteq R
    BY <1>2, FirstKept
  <2>2. \/ d # c /\ hand(d)' = hand(d)
        \/ d = c /\ hand(d)' = x /\ hand(d) = {}
    BY <1>2, WaitsOnHand
  <2>3. meets(backlog["terminal"], Of("terminal", d))'
             => meets(backlog["terminal"], Of("terminal", d))
    BY <1>2
  <2> HIDE DEF x, t
  <2> QED
    BY <1>0, <2>1, <2>2, <2>3 DEF Arrived
<1>3. CASE /\ backlog["terminal"] # <<>> /\ kept' = kept
           /\ held'[c] = Head(backlog["terminal"])
           /\ backlog'["terminal"] = Tail(backlog["terminal"])
  <2>1. held'[c] \notin OfType("chunk")
    BY <1>3, FirstTerminal DEF Queue, OfType
  <2>2. hand(d)' \subseteq hand(d)
    BY <2>1, WaitsOnHand
  <2>3. meets(backlog["terminal"], Of("terminal", d))'
             => meets(backlog["terminal"], Of("terminal", d))
    BY <1>3, FirstTerminal
  <2> QED
    BY <1>0, <1>3, <2>2, <2>3, ArrivedStays
<1> QED
  BY <1>1, <1>2, <1>3 DEF WaitsOn

(* What a host has after it was handed a chunk.                             *)
LEMMA HandsOverGot ==
    ASSUME WinnerTyped, NEW c \in Calls, HandsOver(c)
    PROVE  /\ hand(c) = {held[c].seq} /\ hand(c)' = {} /\ held[c].seq \in 1 .. Chunks
           /\ values(got'[c]) = values(got[c]) \cup hand(c)
           /\ pairs(got'[c]) = pairs(got[c]) \cup (values(got[c]) \X hand(c))
           /\ \A d \in Calls : d # c => got'[d] = got[d] /\ hand(d)' = hand(d)
<1>1. /\ got[c] \in Seq(1 .. Chunks) /\ DOMAIN got = Calls
      /\ held[c].seq \in 1 .. Chunks
  BY HeldIs DEF WinnerTyped, HandsOver
<1>2. got'[c] = Append(got[c], held[c].seq) /\ \A d \in Calls : d # c => got'[d] = got[d]
  BY <1>1 DEF HandsOver
<1>3. hand(c) = {held[c].seq}
  BY HandIs DEF HandsOver
<1>4. hand(c)' = {}
  <2>1. hand(c)' = nums(one(Stream!NoFrame), c)
    BY DEF hand, HandsOver
  <2> QED
    BY <2>1, OneFrame, NoFrameIs DEF Of
<1>5. \A d \in Calls : d # c => hand(d)' = hand(d)
  BY DEF hand, HandsOver, others
<1>6. /\ values(Append(got[c], held[c].seq)) = values(got[c]) \cup {held[c].seq}
      /\ pairs(Append(got[c], held[c].seq)) = pairs(got[c]) \cup (values(got[c]) \X {held[c].seq})
  <2> DEFINE s == got[c]
             n == held[c].seq
             S == 1 .. Chunks
  <2>1. s \in Seq(S) /\ n \in S
    BY <1>1
  <2> HIDE DEF s, n, S
  <2>2. /\ values(Append(s, n)) = values(s) \cup {n}
        /\ pairs(Append(s, n)) = pairs(s) \cup (values(s) \X {n})
    BY <2>1, OneMore
  <2> QED
    BY <2>2 DEF s, n
<1> QED
  BY <1>1, <1>2, <1>3, <1>4, <1>5, <1>6

LEMMA HandsOverArrived ==
    ASSUME WinnerTyped, NEW c \in Calls, HandsOver(c), came' = came, NEW d \in Calls, Arrived(d)
    PROVE  Arrived(d)'
<1>0. kept' = kept /\ backlog' = backlog
  BY DEF HandsOver, kept
<1>1. CASE d # c
  BY <1>0, <1>1, HandsOverGot, ArrivedStays
<1>2. CASE d = c
  <2>1. /\ values(got'[c]) = values(got[c]) \cup hand(c) /\ hand(c)' = {}
        /\ pairs(got'[c]) = pairs(got[c]) \cup (values(got[c]) \X hand(c))
    BY HandsOverGot
  <2> QED
    BY <1>0, <1>2, <2>1 DEF Arrived
<1> QED
  BY <1>1, <1>2

LEMMA WinnerKeepsArrived ==
    ASSUME WinnerTyped, came' = came, NEW d \in Calls, Arrived(d),
           LetsGo \/ \E c \in Calls : Begins(c) \/ WaitsOn(c) \/ HandsOver(c)
    PROVE  Arrived(d)'
<1>1. ASSUME NEW c \in Calls, Begins(c) PROVE Arrived(d)'
  <2>1. held'[d] = held[d] \/ held'[d] \notin OfType("chunk")
    BY <1>1 DEF Begins, others
  <2>2. hand(d)' = hand(d) \/ hand(d)' = {}
    BY <2>1, OneFrame DEF hand, Of, OfType
  <2> QED
    BY <1>1, <2>2, ArrivedStays DEF Begins
<1>2. ASSUME LetsGo PROVE Arrived(d)'
  <2>1. held'[d] = held[d] \/ held'[d] = Stream!NoFrame
    BY <1>2 DEF LetsGo
  <2>2. hand(d)' = hand(d) \/ hand(d)' = {}
    BY <2>1, OneFrame, NoFrameIs DEF hand, Of
  <2> QED
    BY <1>2, <2>2, ArrivedStays DEF LetsGo, kept
<1> QED
  BY <1>1, <1>2, WaitsOnArrived, HandsOverArrived

(* A frame that reaches the winner, as a chunk of d or its end.             *)
fresh(d) == nums(one(arrival), d)

LEMMA FreshIs ==
    ASSUME NEW d
    PROVE  /\ arrival \in Of("chunk", d) => fresh(d) = {arrival.seq}
           /\ arrival \notin Of("chunk", d) => fresh(d) = {}
  BY OneFrame DEF fresh

LEMMA CameMore ==
    ASSUME WinnerTyped, NetTyped, Stream!WinnerReceives, NEW d \in Calls
    PROVE  \/ /\ came'[d] = came[d] /\ fresh(d) = {} /\ arrival \notin Of("terminal", d)
           \/ /\ arrival \in Of("chunk", d) \cup Of("terminal", d)
              /\ arrival \in Of("chunk", d) =>
                    fresh(d) = {arrival.seq} /\ arrival.seq \in 1 .. Chunks
              /\ arrival \in Of("terminal", d) => fresh(d) = {} /\ arrival.seq = 0
              /\ came[d] \in Seq(0 .. Chunks) /\ arrival.seq \in 0 .. Chunks
              /\ came'[d] = Append(came[d], arrival.seq)
<1>1. /\ arrival \in ToWinner /\ arrival \in Queue(arrival.type) /\ arrival.type \in Stream!Types
      /\ came' = IF arrival.type = "started" THEN came
                 ELSE [came EXCEPT ![arrival.call] = Append(@, arrival.seq)]
  BY ReceivesEffect
<1>2. arrival \in Stream!Frame /\ arrival \in Numbered /\ arrival.seq \in 0 .. Chunks
  BY <1>1 DEF Queue, OfType, Stream!Frame
<1>3. came \in [Calls -> Seq(0 .. Chunks)]
  BY DEF WinnerTyped
<1>4. CASE arrival.type = "started" \/ arrival.call # d
  <2>1. came'[d] = came[d]
    BY <1>1, <1>3, <1>4
  <2>2. arrival \notin Of("chunk", d) /\ arrival \notin Of("terminal", d)
    BY <1>4 DEF Of
  <2> QED
    BY <2>1, <2>2, FreshIs
<1>5. CASE arrival.type # "started" /\ arrival.call = d
  <2>1. came'[d] = Append(came[d], arrival.seq)
    BY <1>1, <1>3, <1>5
  <2>2. CASE arrival.type = "chunk"
    <3>1. arrival \in Of("chunk", d) /\ arrival \notin Of("terminal", d)
      BY <1>2, <1>5, <2>2 DEF Of
    <3>2. arrival.seq \in 1 .. Chunks
      BY <1>2, <2>2, StreamNumbers DEF Numbered
    <3> QED
      BY <1>2, <1>3, <2>1, <3>1, <3>2, FreshIs
  <2>3. CASE arrival.type = "terminal"
    <3>1. arrival \in Of("terminal", d) /\ arrival \notin Of("chunk", d)
      BY <1>2, <1>5, <2>3 DEF Of
    <3>2. arrival.seq = 0
      BY <1>2, <2>3, StreamNumbers DEF Numbered
    <3> QED
      BY <1>2, <1>3, <2>1, <3>1, <3>2, FreshIs
  <2> QED
    BY <1>1, <1>5, <2>2, <2>3 DEF Stream!Types
<1> QED
  BY <1>4, <1>5

LEMMA CameGrows ==
    ASSUME WinnerTyped, NetTyped, Stream!WinnerReceives, NEW d \in Calls
    PROVE  /\ values(came[d]) \cup fresh(d) \subseteq values(came'[d])
           /\ pairs(came[d]) \cup (values(came[d]) \X fresh(d)) \subseteq pairs(came'[d])
           /\ arrival \in Of("terminal", d) => 0 \in values(came'[d])
<1>1. CASE came'[d] = came[d] /\ fresh(d) = {} /\ arrival \notin Of("terminal", d)
  BY <1>1
<1>2. CASE ~ (came'[d] = came[d] /\ fresh(d) = {} /\ arrival \notin Of("terminal", d))
  <2> DEFINE s == came[d]
             n == arrival.seq
             S == 0 .. Chunks
  <2>1. /\ s \in Seq(S) /\ n \in S /\ came'[d] = Append(s, n) /\ fresh(d) \subseteq {n}
        /\ arrival \in Of("terminal", d) => n = 0
    BY <1>2, CameMore
  <2> HIDE DEF s, n, S
  <2>2. /\ values(Append(s, n)) = values(s) \cup {n}
        /\ pairs(Append(s, n)) = pairs(s) \cup (values(s) \X {n})
    BY <2>1, OneMore
  <2>3. /\ values(s) \cup fresh(d) \subseteq values(came'[d])
        /\ pairs(s) \cup (values(s) \X fresh(d)) \subseteq pairs(came'[d])
        /\ arrival \in Of("terminal", d) => 0 \in values(came'[d])
    BY <2>1, <2>2
  <2> QED
    BY <2>3 DEF s
<1> QED
  BY <1>1, <1>2

(* Where it goes: to the backlog, to the stream that waits, or nowhere.     *)
LEMMA ReceivesPlaces ==
    ASSUME WinnerTyped, NetTyped, Waits, Stream!WinnerReceives, NEW d \in Calls
    PROVE  /\ UNCHANGED <<at, got, endedBy, serial>>
           /\ \/ /\ waiter' = waiter /\ held'[d] = held[d] /\ hand(d)' = hand(d)
                 /\ arrival.type # "started" => waiter["chunk"] = Unheld
                 /\ nums(kept', d) = nums(kept, d) \cup fresh(d)
                 /\ \A R : ranked(kept, d, R) /\ nums(kept, d) \X fresh(d) \subseteq R
                              => ranked(kept', d, R)
                 /\ meets(backlog'["terminal"], Of("terminal", d)) =>
                       \/ meets(backlog["terminal"], Of("terminal", d))
                       \/ arrival \in Of("terminal", d)
              \/ /\ backlog' = backlog /\ kept' = kept
                 /\ arrival.type # "started" => waiter["chunk"] \in Calls /\ kept = <<>>
                 /\ waiter'["chunk"] = waiter["chunk"] \/ waiter'["chunk"] = Unheld
                 /\ \/ /\ held'[d] = held[d] /\ hand(d)' = hand(d)
                       /\ arrival.type # "started" =>
                             waiter["chunk"] # d \/ d \notin Stream!pending
                    \/ /\ held[d] = Stream!NoFrame /\ held'[d] = arrival
                       /\ waiter[arrival.type] = d
                       /\ hand(d) = {} /\ hand(d)' = fresh(d)
<1>0. /\ Stream!Types = {"started", "chunk", "terminal"}
      /\ waiter["chunk"] = waiter["terminal"]
      /\ \A t \in Stream!Types : backlog[t] \in Seq(Queue(t))
  BY DEF Stream!Types, WinnerTyped
<1>1. /\ UNCHANGED <<at, got, endedBy, serial>>
      /\ arrival \in Queue(arrival.type) /\ arrival.type \in Stream!Types
  BY ReceivesEffect
<1>2. CASE /\ waiter[arrival.type] = Unheld
           /\ waiter' = waiter /\ held' = held
           /\ backlog'[arrival.type] = backlog[arrival.type] \o one(arrival)
           /\ \A t \in Stream!Types : t # arrival.type => backlog'[t] = backlog[t]
  <2>1. held'[d] = held[d] /\ hand(d)' = hand(d)
    BY <1>2 DEF hand
  <2>2. arrival.type # "started" => waiter["chunk"] = Unheld
    BY <1>0, <1>1, <1>2
  <2>3. CASE arrival.type = "chunk"
    <3>1. kept' = kept \o one(arrival) /\ backlog'["terminal"] = backlog["terminal"]
      BY <1>0, <1>2, <2>3 DEF kept
    <3>2. kept \in Seq(Queue("chunk")) /\ arrival \in Queue("chunk")
      BY <1>0, <1>1, <2>3 DEF kept
    <3>3. /\ nums(kept \o one(arrival), d) = nums(kept, d) \cup nums(one(arrival), d)
          /\ \A R : ranked(kept \o one(arrival), d, R) <=>
                       ranked(kept, d, R) /\ nums(kept, d) \X nums(one(arrival), d) \subseteq R
      BY <3>2, LastFrame
    <3> QED
      BY <1>1, <1>2, <2>1, <2>2, <3>1, <3>3 DEF fresh
  <2>4. CASE arrival.type # "chunk"
    <3>1. kept' = kept
      BY <1>0, <1>2, <2>4 DEF kept
    <3>2. fresh(d) = {}
      BY <2>4, FreshIs DEF Of
    <3>3. meets(backlog'["terminal"], Of("terminal", d)) =>
             meets(backlog["terminal"], Of("terminal", d)) \/ arrival \in Of("terminal", d)
      <4>1. CASE arrival.type = "terminal"
        <5>1. backlog["terminal"] \in Seq(Queue("terminal")) /\ arrival \in Queue("terminal")
          BY <1>0, <1>1, <4>1
        <5>2. meets(backlog["terminal"] \o one(arrival), Of("terminal", d)) <=>
                 arrival \in Of("terminal", d) \/ meets(backlog["terminal"], Of("terminal", d))
          BY <5>1, LastFrame
        <5> QED
          BY <1>2, <4>1, <5>2
      <4>2. CASE arrival.type = "started"
        BY <1>0, <1>2, <4>2
      <4> QED
        BY <1>0, <1>1, <2>4, <4>1, <4>2
    <3> QED
      BY <1>1, <1>2, <2>1, <2>2, <3>1, <3>2, <3>3
  <2> QED
    BY <2>3, <2>4
<1>3. CASE /\ waiter[arrival.type] \in Calls
           /\ backlog' = backlog
           /\ \A t \in Stream!Types :
                 waiter'[t] = IF t \in Stream!together(arrival.type) THEN Unheld ELSE waiter[t]
           /\ \A e \in Calls :
                 held'[e] = IF e = waiter[arrival.type] /\ e \in Stream!pending
                            THEN arrival ELSE held[e]
  <2>1. waiter'["chunk"] = waiter["chunk"] \/ waiter'["chunk"] = Unheld
    BY <1>0, <1>3
  <2>2. arrival.type # "started" => waiter["chunk"] \in Calls /\ kept = <<>>
    BY <1>0, <1>1, <1>3, StreamNumbers DEF Waits
  <2>3. \/ /\ held'[d] = held[d] /\ hand(d)' = hand(d)
           /\ arrival.type # "started" => waiter["chunk"] # d \/ d \notin Stream!pending
        \/ /\ held[d] = Stream!NoFrame /\ held'[d] = arrival /\ waiter[arrival.type] = d
           /\ hand(d) = {} /\ hand(d)' = fresh(d)
    <3>1. CASE d = waiter[arrival.type] /\ d \in Stream!pending
      <4>1. held[d] = Stream!NoFrame /\ held'[d] = arrival
        BY <1>3, <3>1 DEF Stream!pending
      <4> QED
        BY <3>1, <4>1, HandIs, NoFrameIs DEF fresh, hand, Of
    <3>2. CASE ~ (d = waiter[arrival.type] /\ d \in Stream!pending)
      BY <1>0, <1>1, <1>3, <3>2 DEF hand
    <3> QED
      BY <3>1, <3>2
  <2> QED
    BY <1>1, <1>3, <2>1, <2>2, <2>3 DEF kept
<1> QED
  BY <1>2, <1>3, ReceivesEffect

LEMMA ReceivesArrived ==
    ASSUME WinnerTyped, NetTyped, Waits, Stream!WinnerReceives, NEW d \in Calls, Arrived(d)
    PROVE  Arrived(d)'
<1> DEFINE x == fresh(d)
           v == values(came'[d])
           R == pairs(came'[d])
<1>1. /\ values(came[d]) \cup x \subseteq v
      /\ pairs(came[d]) \cup (values(came[d]) \X x) \subseteq R
      /\ arrival \in Of("terminal", d) => 0 \in v
  BY CameGrows
<1>2. ranked(kept, d, R)
  BY <1>1 DEF Arrived, ranked
<1> HIDE DEF x, v, R
<1>3. got' = got
  BY ReceivesPlaces
<1>4. CASE /\ hand(d)' = hand(d) /\ nums(kept', d) = nums(kept, d) \cup fresh(d)
           /\ \A S : ranked(kept, d, S) /\ nums(kept, d) \X fresh(d) \subseteq S
                        => ranked(kept', d, S)
           /\ meets(backlog'["terminal"], Of("terminal", d)) =>
                 \/ meets(backlog["terminal"], Of("terminal", d))
                 \/ arrival \in Of("terminal", d)
  <2>1. nums(kept, d) \X x \subseteq R
    BY <1>1 DEF Arrived
  <2>2. ranked(kept', d, R)
    BY <1>2, <1>4, <2>1 DEF x
  <2>3. /\ values(got[d]) \cup hand(d) \cup nums(kept', d) \subseteq v
        /\ pairs(got[d]) \subseteq R
        /\ values(got[d]) \X (hand(d) \cup nums(kept', d)) \subseteq R
        /\ hand(d) \X nums(kept', d) \subseteq R
        /\ meets(backlog'["terminal"], Of("terminal", d)) => 0 \in v
    BY <1>1, <1>4 DEF Arrived, x
  <2> QED
    BY <1>3, <1>4, <2>2, <2>3 DEF Arrived, v, R
<1>5. CASE backlog' = backlog /\ kept' = kept /\ hand(d)' = hand(d)
  <2>1. /\ values(got[d]) \cup hand(d) \cup nums(kept, d) \subseteq v
        /\ pairs(got[d]) \subseteq R
        /\ values(got[d]) \X (hand(d) \cup nums(kept, d)) \subseteq R
        /\ hand(d) \X nums(kept, d) \subseteq R
        /\ meets(backlog["terminal"], Of("terminal", d)) => 0 \in v
    BY <1>1 DEF Arrived
  <2> QED
    BY <1>2, <1>3, <1>5, <2>1 DEF Arrived, v, R
<1>6. CASE /\ backlog' = backlog /\ kept' = kept /\ hand(d) = {} /\ hand(d)' = fresh(d)
           /\ arrival.type # "started" => kept = <<>>
  <2>1. arrival.type = "started" => x = {}
    BY FreshIs DEF Of, x
  <2>2. x # {} => nums(kept, d) = {}
    BY <1>6, <2>1, NoFrames
  <2>3. /\ values(got[d]) \cup x \cup nums(kept, d) \subseteq v
        /\ pairs(got[d]) \subseteq R
        /\ values(got[d]) \X (x \cup nums(kept, d)) \subseteq R
        /\ x \X nums(kept, d) \subseteq R
        /\ meets(backlog["terminal"], Of("terminal", d)) => 0 \in v
    BY <1>1, <2>2 DEF Arrived
  <2> QED
    BY <1>2, <1>3, <1>6, <2>3 DEF Arrived, v, R, x
<1> QED
  BY <1>4, <1>5, <1>6, ReceivesPlaces

Injective(c) == \A k, l \in DOMAIN came[c] : came[c][k] = came[c][l] /\ came[c][k] # 0 => k = l

LEMMA GotChunks ==
    ASSUME WinnerTyped, NEW c \in Calls
    PROVE  /\ values(got[c]) \subseteq 1 .. Chunks
           /\ DOMAIN got[c] \subseteq Nat /\ DOMAIN came[c] \subseteq Nat
<1> DEFINE s == got[c]
           S == 1 .. Chunks
<1>1. s \in Seq(S) /\ came[c] \in Seq(0 .. Chunks)
  BY DEF WinnerTyped
<1> HIDE DEF s, S
<1>2. DOMAIN s = 1 .. Len(s) /\ Len(s) \in Nat
  BY <1>1, LenProperties
<1>3. \A k \in DOMAIN s : s[k] \in S
  BY <1>1, <1>2, ElementOfSeq
<1>4. DOMAIN came[c] \subseteq Nat
  BY <1>1, LenProperties
<1> QED
  BY <1>2, <1>3, <1>4 DEF s, S, values

LEMMA ClosedStays ==
    ASSUME NEW c, Closed(c), came'[c] = came[c], values(got[c]) \subseteq values(got'[c])
    PROVE  Closed(c)'
  BY DEF Closed

LEMMA BeginsSerially ==
    ASSUME WinnerTyped, Serially, came' = came, NEW c \in Calls, Begins(c), came[c] = <<>>
    PROVE  Serially'
<1> SUFFICES ASSUME serial'
             PROVE  OneLive' /\ NoStale' /\ \A d \in Calls : Full(d)' /\ Passed(d)' /\ WholeAtEnd(d)'
  BY DEF Serially
<1>1. /\ OneLive /\ NoStale /\ \A d \in Calls : Full(d) /\ Passed(d) /\ WholeAtEnd(d)
      /\ Stream!streams = {} /\ got' = got /\ endedBy' = endedBy
  BY DEF Begins, Serially
<1>2. \A d \in Calls : ~ live(d) /\ (live(d)' => d = c)
  BY <1>1 DEF live, Begins, others, Stream!streams
<1>3. NoStale'
  BY <1>1, <1>2 DEF NoStale, live, Begins
<1>4. ASSUME NEW d \in Calls PROVE Full(d)' /\ Passed(d)' /\ WholeAtEnd(d)'
  <2>1. Full(d)'
    BY <1>2, NoValues DEF Full
  <2>2. Passed(d)'
    BY <1>1 DEF Passed
  <2>3. held'[d] \in Of("terminal", d) => held[d] \in Of("terminal", d)
    BY DEF Begins, others, Of, OfType
  <2> QED
    BY <1>1, <2>1, <2>2, <2>3, ClosedStays DEF WholeAtEnd
<1> QED
  BY <1>2, <1>3, <1>4 DEF OneLive

LEMMA LetsGoSerially ==
    ASSUME WinnerTyped, Serially, came' = came, LetsGo
    PROVE  Serially'
<1> SUFFICES ASSUME serial'
             PROVE  OneLive' /\ NoStale' /\ \A d \in Calls : Full(d)' /\ Passed(d)' /\ WholeAtEnd(d)'
  BY DEF Serially
<1>1. /\ OneLive /\ NoStale /\ \A d \in Calls : Full(d) /\ Passed(d) /\ WholeAtEnd(d)
      /\ got' = got /\ kept' = kept
  BY DEF LetsGo, Serially, kept
<1>2. \A d \in Calls : live(d)' => live(d) /\ held'[d] = held[d]
  BY DEF live, LetsGo, Stream!Over
<1>3. NoStale'
  BY <1>1 DEF NoStale, LetsGo
<1>4. ASSUME NEW d \in Calls PROVE Full(d)' /\ Passed(d)' /\ WholeAtEnd(d)'
  <2>1. Full(d)'
    <3>1. live(d)' => hand(d)' = hand(d)
      BY <1>2 DEF hand
    <3> QED
      BY <1>1, <1>2, <3>1 DEF Full
  <2>2. Passed(d)'
    BY <1>1 DEF Passed
  <2>3. held'[d] \in Of("terminal", d) => held[d] \in Of("terminal", d)
    BY NoFrameIs DEF LetsGo, Of
  <2>4. endedBy'[d].call = d => endedBy[d].call = d \/ held[d] \in Of("terminal", d)
    BY DEF LetsGo, Of, OfType
  <2> QED
    BY <1>1, <2>1, <2>2, <2>3, <2>4, ClosedStays DEF WholeAtEnd
<1> QED
  BY <1>1, <1>2, <1>3, <1>4 DEF OneLive

LEMMA WaitsOnSerially ==
    ASSUME WinnerTyped, Serially, came' = came, NEW c \in Calls, WaitsOn(c), Arrived(c)
    PROVE  Serially'
<1> SUFFICES ASSUME serial'
             PROVE  OneLive' /\ NoStale' /\ \A d \in Calls : Full(d)' /\ Passed(d)' /\ WholeAtEnd(d)'
  BY DEF Serially
<1>1. /\ OneLive /\ NoStale /\ \A d \in Calls : Full(d) /\ Passed(d) /\ WholeAtEnd(d)
      /\ got' = got /\ endedBy' = endedBy
  BY DEF WaitsOn, Serially
<1>2. /\ live(c) /\ \A d \in Calls : live(d)' <=> live(d)
  BY DEF live, WaitsOn, others
<1>3. NoStale'
  BY <1>1 DEF NoStale, WaitsOn, others
<1>4. hand(c) = {}
  BY WaitsOnHand
<1>5. CASE /\ held'[c] = Stream!NoFrame /\ kept' = kept
  <2>1. held'[c] \notin OfType("chunk") /\ held'[c] \notin OfType("terminal")
    BY <1>5, NoFrameIs DEF OfType
  <2>2. hand(c)' = {}
    BY <2>1, WaitsOnHand
  <2>3. Full(c)'
    BY <1>1, <1>2, <1>4, <1>5, <2>2 DEF Full
  <2>4. held'[c] \notin Of("terminal", c)
    BY <2>1 DEF Of, OfType
  <2> QED
    <3>1. ASSUME NEW d \in Calls PROVE Full(d)' /\ Passed(d)' /\ WholeAtEnd(d)'
      <4>1. Full(d)'
        BY <1>1, <1>2, <2>3 DEF OneLive, Full
      <4>2. Passed(d)'
        BY <1>1 DEF Passed
      <4>3. held'[d] \in Of("terminal", d) => held[d] \in Of("terminal", d)
        BY <2>4 DEF WaitsOn, others
      <4> QED
        BY <1>1, <4>1, <4>2, <4>3, ClosedStays DEF WholeAtEnd
    <3> QED
      BY <1>1, <1>2, <1>3, <3>1 DEF OneLive
<1>6. CASE kept # <<>> /\ held'[c] = Head(kept) /\ kept' = Tail(kept)
  <2>1. hand(c)' = nums(one(Head(kept)), c)
    BY <1>6, WaitsOnHand
  <2>2. nums(kept, c) = nums(one(Head(kept)), c) \cup nums(kept', c)
    BY <1>6, FirstKept
  <2>3. Full(c)'
    BY <1>1, <1>2, <1>4, <2>1, <2>2 DEF Full
  <2>4. held'[c] \notin Of("terminal", c)
    BY <1>6, FirstKept DEF Of, OfType, Queue
  <2> QED
    <3>1. ASSUME NEW d \in Calls PROVE Full(d)' /\ Passed(d)' /\ WholeAtEnd(d)'
      <4>1. Full(d)'
        BY <1>1, <1>2, <2>3 DEF OneLive, Full
      <4>2. Passed(d)'
        BY <1>1 DEF Passed
      <4>3. held'[d] \in Of("terminal", d) => held[d] \in Of("terminal", d)
        BY <2>4 DEF WaitsOn, others
      <4> QED
        BY <1>1, <4>1, <4>2, <4>3, ClosedStays DEF WholeAtEnd
    <3> QED
      BY <1>1, <1>2, <1>3, <3>1 DEF OneLive
<1>7. CASE /\ kept = <<>> /\ backlog["terminal"] # <<>> /\ kept' = kept
           /\ held'[c] = Head(backlog["terminal"])
  <2>1. hand(c)' = {}
    <3>1. held'[c] \notin OfType("chunk")
      BY <1>7, FirstTerminal DEF OfType, Queue
    <3> QED
      BY <3>1, WaitsOnHand
  <2>2. Full(c)'
    BY <1>1, <1>2, <1>4, <1>7, <2>1 DEF Full
  <2>3. ASSUME held'[c] \in Of("terminal", c) PROVE Closed(c)
    <3>1. meets(backlog["terminal"], Of("terminal", c))
      BY <1>7, <2>3, FirstTerminal
    <3>2. 0 \in values(came[c])
      BY <3>1 DEF Arrived
    <3>3. values(came[c]) \subseteq {0} \cup values(got[c])
      BY <1>1, <1>2, <1>4, <1>7, NoFrames DEF Full
    <3> QED
      BY <3>2, <3>3 DEF Closed, values
  <2> QED
    <3>1. ASSUME NEW d \in Calls PROVE Full(d)' /\ Passed(d)' /\ WholeAtEnd(d)'
      <4>1. Full(d)'
        BY <1>1, <1>2, <2>2 DEF OneLive, Full
      <4>2. Passed(d)'
        BY <1>1 DEF Passed
      <4>3. held'[d] \in Of("terminal", d) => held[d] \in Of("terminal", d) \/ Closed(d)
        BY <2>3 DEF WaitsOn, others
      <4> QED
        BY <1>1, <4>1, <4>2, <4>3, ClosedStays DEF WholeAtEnd
    <3> QED
      BY <1>1, <1>2, <1>3, <3>1 DEF OneLive
<1> QED
  BY <1>5, <1>6, <1>7 DEF WaitsOn

LEMMA HandsOverSerially ==
    ASSUME WinnerTyped, Waits, Serially, came' = came, NEW c \in Calls, HandsOver(c),
           Arrived(c), Injective(c)
    PROVE  Serially'
<1> SUFFICES ASSUME serial'
             PROVE  OneLive' /\ NoStale' /\ \A d \in Calls : Full(d)' /\ Passed(d)' /\ WholeAtEnd(d)'
  BY DEF Serially
<1>1. /\ OneLive /\ NoStale /\ \A d \in Calls : Full(d) /\ Passed(d) /\ WholeAtEnd(d)
      /\ kept' = kept /\ waiter' = waiter /\ endedBy' = endedBy
  BY DEF HandsOver, Serially, kept
<1>2. /\ live(c) /\ \A d \in Calls : live(d)' <=> live(d)
  BY DEF live, HandsOver, others
<1>3. /\ hand(c) = {held[c].seq} /\ hand(c)' = {} /\ held[c].seq \in 1 .. Chunks
      /\ values(got'[c]) = values(got[c]) \cup hand(c)
      /\ \A d \in Calls : d # c => got'[d] = got[d] /\ hand(d)' = hand(d)
  BY HandsOverGot
<1>4. NoStale'
  <2>1. held[c] # Stream!NoFrame
    BY NoFrameIs DEF HandsOver, Of
  <2>2. waiter["chunk"] # c
    BY <2>1 DEF Waits
  <2> QED
    BY <1>1, <2>2 DEF NoStale, HandsOver, others
<1>5. Full(c)'
  BY <1>1, <1>2, <1>3 DEF Full
<1>6. Passed(c)'
  <2> SUFFICES ASSUME NEW k \in DOMAIN came[c], NEW l \in DOMAIN came[c], k < l,
                      came[c][k] # 0, came[c][l] \in values(got'[c]),
                      came[c][k] \notin values(got'[c])
               PROVE  FALSE
    BY DEF Passed
  <2>1. came[c][k] \in values(came[c])
    BY DEF values
  <2>2. came[c][k] \in nums(kept, c)
    BY <1>1, <1>2, <1>3, <2>1 DEF Full
  <2>3. <<came[c][l], came[c][k]>> \in pairs(came[c])
    BY <1>3, <2>2 DEF Arrived
  <2>4. PICK a \in DOMAIN came[c], b \in DOMAIN came[c] :
           a < b /\ came[c][a] = came[c][l] /\ came[c][b] = came[c][k]
    BY <2>3 DEF pairs
  <2>5. came[c][l] # 0
    <3>1. \A x \in values(got[c]) : x # 0
      BY GotChunks
    <3> QED
      BY <1>3, <3>1
  <2>6. a = l /\ b = k
    BY <2>4, <2>5 DEF Injective
  <2>7. k \in Nat /\ l \in Nat
    BY LenProperties DEF WinnerTyped
  <2> QED
    BY <2>4, <2>6, <2>7
<1>7. ASSUME NEW d \in Calls PROVE Full(d)' /\ Passed(d)' /\ WholeAtEnd(d)'
  <2>1. Full(d)'
    BY <1>1, <1>2, <1>5 DEF OneLive, Full
  <2>2. Passed(d)'
    BY <1>1, <1>3, <1>6 DEF Passed
  <2>3. held'[d] \in Of("terminal", d) => held[d] \in Of("terminal", d)
    BY NoFrameIs DEF HandsOver, others, Of
  <2>4. values(got[d]) \subseteq values(got'[d])
    BY <1>3
  <2> QED
    BY <1>1, <2>1, <2>2, <2>3, <2>4, ClosedStays DEF WholeAtEnd
<1> QED
  BY <1>1, <1>2, <1>4, <1>7 DEF OneLive

LEMMA WinnerKeepsSerially ==
    ASSUME WinnerTyped, Waits, Serially, came' = came,
           \A d \in Calls : /\ Arrived(d) /\ Injective(d) /\ (at[d] = "new" => came[d] = <<>>),
           LetsGo \/ \E c \in Calls : Begins(c) \/ WaitsOn(c) \/ HandsOver(c)
    PROVE  Serially'
<1>1. ASSUME NEW c \in Calls, Begins(c) PROVE Serially'
  BY <1>1, BeginsSerially DEF Begins
<1> QED
  BY <1>1, LetsGoSerially, WaitsOnSerially, HandsOverSerially

(* How the row of what came grows.                                          *)
grown(d) ==
    \E e \in DOMAIN came'[d] :
        /\ came'[d][e] = arrival.seq /\ e \notin DOMAIN came[d]
        /\ DOMAIN came[d] \subseteq DOMAIN came'[d] /\ DOMAIN came'[d] \subseteq Nat
        /\ \A k \in DOMAIN came[d] : came'[d][k] = came[d][k]
        /\ \A k \in DOMAIN came'[d] : k # e => k \in DOMAIN came[d] /\ k < e
        /\ values(came'[d]) = values(came[d]) \cup {arrival.seq}

LEMMA CameLast ==
    ASSUME WinnerTyped, NetTyped, Stream!WinnerReceives, NEW d \in Calls
    PROVE  \/ came'[d] = came[d] /\ fresh(d) = {} /\ arrival \notin Of("terminal", d)
           \/ /\ grown(d)
              /\ \/ fresh(d) = {arrival.seq} /\ arrival.seq \in 1 .. Chunks
                    /\ arrival \notin Of("terminal", d)
                 \/ fresh(d) = {} /\ arrival.seq = 0 /\ arrival \in Of("terminal", d)
<1>1. CASE came'[d] = came[d] /\ fresh(d) = {} /\ arrival \notin Of("terminal", d)
  BY <1>1
<1>2. CASE ~ (came'[d] = came[d] /\ fresh(d) = {} /\ arrival \notin Of("terminal", d))
  <2> DEFINE s == came[d]
             n == arrival.seq
             S == 0 .. Chunks
             r == Append(s, n)
  <2>1. /\ arrival \in Of("chunk", d) \cup Of("terminal", d)
        /\ arrival \in Of("chunk", d) => fresh(d) = {n} /\ n \in 1 .. Chunks
        /\ arrival \in Of("terminal", d) => fresh(d) = {} /\ n = 0
        /\ s \in Seq(S) /\ n \in S /\ came'[d] = r
    BY <1>2, CameMore
  <2>2. r \in Seq(S)
    BY <2>1, AppendProperties
  <2>3. DOMAIN r \subseteq Nat
    BY <2>2, LenProperties
  <2>4. /\ values(r) = values(s) \cup {n} /\ DOMAIN s \subseteq DOMAIN r
        /\ \A k \in DOMAIN s : r[k] = s[k]
        /\ \E e \in DOMAIN r : /\ r[e] = n /\ e \notin DOMAIN s
                               /\ \A k \in DOMAIN r : k # e => k \in DOMAIN s /\ k < e
    <3> HIDE DEF s, n, S
    <3> QED
      BY <2>1, OneMore
  <2> HIDE DEF r, s, n
  <2>5. grown(d)
    BY <2>1, <2>3, <2>4 DEF grown, s, n
  <2> QED
    BY <2>1, <2>5 DEF n, Of
<1> QED
  BY <1>1, <1>2

LEMMA ReceivesClosed ==
    ASSUME NEW d \in Calls, Closed(d), got' = got, came'[d] = came[d] \/ grown(d)
    PROVE  Closed(d)'
<1>1. CASE came'[d] = came[d]
  BY <1>1 DEF Closed
<1>2. CASE grown(d)
  <2>1. PICK e \in DOMAIN came'[d] :
           /\ DOMAIN came[d] \subseteq DOMAIN came'[d] /\ DOMAIN came'[d] \subseteq Nat
           /\ \A k \in DOMAIN came[d] : came'[d][k] = came[d][k]
           /\ \A k \in DOMAIN came'[d] : k # e => k \in DOMAIN came[d] /\ k < e
           /\ e \notin DOMAIN came[d]
    BY <1>2 DEF grown
  <2>2. PICK l \in DOMAIN came[d] :
           /\ came[d][l] = 0
           /\ \A k \in DOMAIN came[d] : k < l /\ came[d][k] # 0 => came[d][k] \in values(got[d])
    BY DEF Closed
  <2>3. l < e /\ l \in Nat /\ e \in Nat
    BY <2>1
  <2>4. \A k \in DOMAIN came'[d] : k < l => k \in DOMAIN came[d]
    BY <2>1, <2>3
  <2> QED
    BY <2>1, <2>2, <2>4 DEF Closed
<1> QED
  BY <1>1, <1>2

LEMMA ReceivesPassed ==
    ASSUME WinnerTyped, NEW d \in Calls, Passed(d), got' = got,
           values(got[d]) \subseteq values(came[d]),
           \/ came'[d] = came[d]
           \/ grown(d) /\ arrival.seq \notin values(came[d]) \ {0}
    PROVE  Passed(d)'
<1>1. CASE came'[d] = came[d]
  BY <1>1 DEF Passed
<1>2. CASE grown(d) /\ arrival.seq \notin values(came[d]) \ {0}
  <2>1. PICK e \in DOMAIN came'[d] :
           /\ came'[d][e] = arrival.seq /\ e \notin DOMAIN came[d]
           /\ DOMAIN came'[d] \subseteq Nat
           /\ \A k \in DOMAIN came[d] : came'[d][k] = came[d][k]
           /\ \A k \in DOMAIN came'[d] : k # e => k \in DOMAIN came[d] /\ k < e
    BY <1>2 DEF grown
  <2> SUFFICES ASSUME NEW k \in DOMAIN came'[d], NEW l \in DOMAIN came'[d], k < l,
                      came'[d][k] # 0, came'[d][l] \in values(got[d])
               PROVE  came'[d][k] \in values(got[d])
    BY DEF Passed
  <2>2. arrival.seq \notin values(got[d])
    <3>1. 0 \notin values(got[d])
      BY GotChunks
    <3> QED
      BY <1>2, <3>1
  <2>3. l # e
    BY <2>1, <2>2
  <2>4. k # e
    BY <2>1, <2>3
  <2> QED
    BY <2>1, <2>3, <2>4 DEF Passed
<1> QED
  BY <1>1, <1>2

(* Who waits for a chunk is live, and it alone.                             *)
LEMMA WaitsAlone ==
    ASSUME Waits, OneLive, NoStale, NEW w \in Calls, waiter["chunk"] = w
    PROVE  /\ live(w) /\ w \in Stream!pending
           /\ \A d \in Calls : live(d) => d = w
<1>1. at[w] = "next" /\ held[w] = Stream!NoFrame
  BY DEF NoStale, Waits
<1> QED
  BY <1>1 DEF live, OneLive, Stream!pending

LEMMA ReceivesSerially ==
    ASSUME WinnerTyped, NetTyped, Waits, Stream!WinnerReceives, Serially,
           \A d \in Calls : Arrived(d) /\ fresh(d) \cap values(came[d]) = {}
    PROVE  Serially'
<1> SUFFICES ASSUME serial'
             PROVE  OneLive' /\ NoStale' /\ \A d \in Calls : Full(d)' /\ Passed(d)' /\ WholeAtEnd(d)'
  BY DEF Serially
<1>0. UNCHANGED <<at, got, endedBy, serial>>
  BY ReceivesEffect
<1>1. OneLive /\ NoStale /\ \A d \in Calls : Full(d) /\ Passed(d) /\ WholeAtEnd(d)
  BY <1>0 DEF Serially
<1>2. OneLive' /\ \A d \in Calls : live(d)' <=> live(d)
  BY <1>0, <1>1 DEF OneLive, live
<1>3. NoStale'
  <2> SUFFICES ASSUME NEW d \in Calls, waiter'["chunk"] = d PROVE at'[d] = "next"
    BY DEF NoStale
  <2>1. waiter'["chunk"] = waiter["chunk"]
    BY ReceivesPlaces, StreamNumbers
  <2> QED
    BY <1>0, <1>1, <2>1 DEF NoStale
<1>4. ASSUME NEW d \in Calls PROVE Full(d)' /\ Passed(d)' /\ WholeAtEnd(d)'
  <2>1. /\ \/ came'[d] = came[d]
           \/ /\ grown(d)
              /\ \/ fresh(d) = {arrival.seq} /\ arrival.seq \in 1 .. Chunks
                 \/ fresh(d) = {} /\ arrival.seq = 0
        /\ arrival \in Of("terminal", d) => grown(d) /\ arrival.seq = 0
    BY CameLast
  <2>2. values(came'[d]) \subseteq {0} \cup values(came[d]) \cup fresh(d)
    BY <2>1 DEF grown
  <2>3. Full(d)'
    <3>1. CASE hand(d)' = hand(d) /\ nums(kept', d) = nums(kept, d) \cup fresh(d)
      BY <1>0, <1>1, <1>2, <2>2, <3>1 DEF Full
    <3>2. CASE hand(d) = {} /\ hand(d)' = fresh(d) /\ kept' = kept
      BY <1>0, <1>1, <1>2, <2>2, <3>2 DEF Full
    <3>3. CASE /\ hand(d)' = hand(d) /\ kept' = kept
               /\ arrival.type # "started" =>
                     waiter["chunk"] \in Calls
                     /\ (waiter["chunk"] # d \/ d \notin Stream!pending)
      <4>1. live(d) => fresh(d) = {}
        <5>1. CASE arrival.type = "started"
          BY <5>1, FreshIs DEF Of
        <5>2. CASE arrival.type # "started"
          BY <1>1, <3>3, <5>2, WaitsAlone
        <5> QED
          BY <5>1, <5>2
      <4> QED
        BY <1>0, <1>1, <1>2, <2>2, <3>3, <4>1 DEF Full
    <3> QED
      BY <3>1, <3>2, <3>3, ReceivesPlaces
  <2>4. Passed(d)'
    <3>1. values(got[d]) \subseteq values(came[d])
      BY DEF Arrived
    <3>2. \/ came'[d] = came[d]
          \/ grown(d) /\ arrival.seq \notin values(came[d]) \ {0}
      BY <2>1
    <3> QED
      BY <1>0, <1>1, <3>1, <3>2, ReceivesPassed
  <2>5. Closed(d) => Closed(d)'
    BY <1>0, <2>1, ReceivesClosed
  <2>6. ASSUME held'[d] \in Of("terminal", d), held[d] \notin Of("terminal", d)
        PROVE  Closed(d)'
    <3>1. /\ held'[d] = arrival /\ waiter[arrival.type] = d /\ hand(d) = {}
          /\ arrival.type # "started" => kept = <<>>
      BY <2>6, ReceivesPlaces
    <3>2. arrival \in Of("terminal", d) /\ arrival.type = "terminal"
      BY <2>6, <3>1 DEF Of
    <3>3. kept = <<>> /\ waiter["chunk"] = d
      BY <3>1, <3>2 DEF WinnerTyped
    <3>4. live(d)
      BY <1>1, <3>3, WaitsAlone
    <3>5. values(came[d]) \subseteq {0} \cup values(got[d])
      BY <1>1, <3>1, <3>3, <3>4, NoFrames DEF Full
    <3>6. PICK e \in DOMAIN came'[d] :
             /\ came'[d][e] = 0
             /\ \A k \in DOMAIN came[d] : came'[d][k] = came[d][k]
             /\ \A k \in DOMAIN came'[d] : k # e => k \in DOMAIN came[d] /\ k < e
             /\ DOMAIN came'[d] \subseteq Nat
      BY <2>1, <3>2 DEF grown
    <3>7. \A k \in DOMAIN came'[d] : k < e => came'[d][k] \in values(came[d])
      BY <3>6 DEF values
    <3> QED
      BY <1>0, <3>5, <3>6, <3>7 DEF Closed
  <2> QED
    BY <1>0, <1>1, <2>3, <2>4, <2>5, <2>6 DEF WholeAtEnd
<1> QED
  BY <1>2, <1>3, <1>4

-----------------------------------------------------------------------------
(* No chunk is twice on its way or arrives twice.                           *)

LEMMA NoChunk ==
    ASSUME NEW S, NEW q \in Seq(S), NEW f \in S, f.type # "chunk", NEW d
    PROVE  nums(q \o one(f), d) = nums(q, d) /\ (single(q, d) => single(q \o one(f), d))
<1>1. nums(one(f), d) = {}
  BY OneFrame DEF Of
<1>2. /\ nums(q \o one(f), d) = nums(q, d) \cup nums(one(f), d)
      /\ \A R : ranked(q \o one(f), d, R) <=>
                   ranked(q, d, R) /\ nums(q, d) \X nums(one(f), d) \subseteq R
  BY LastFrame
<1>3. nums(q, d) \X nums(one(f), d) = {}
  BY <1>1
<1> QED
  BY <1>1, <1>2, <1>3 DEF single

LEMMA NoChunks ==
    ASSUME NEW q \in Seq(ToWinner), NEW s \in Seq(Queue("terminal")), NEW d
    PROVE  nums(q \o s, d) = nums(q, d) /\ (single(q, d) => single(q \o s, d))
<1>1. \A i \in DOMAIN s : s[i] \notin Of("chunk", d)
  BY LenProperties, ElementOfSeq DEF Queue, OfType, Of
<1>2. nums(s, d) = {} /\ \A R : ranked(s, d, R)
  BY <1>1 DEF nums, ranked
<1>3. s \in Seq(ToWinner)
  BY DEF ToWinner, Queue
<1>4. nums(q \o s, d) = nums(q, d) \cup nums(s, d)
  BY <1>3, JoinNums
<1>5. \A R : ranked(q \o s, d, R) <=>
                ranked(q, d, R) /\ ranked(s, d, R) /\ nums(q, d) \X nums(s, d) \subseteq R
  BY <1>3, JoinRanked
<1>6. nums(q, d) \X nums(s, d) = {}
  BY <1>2
<1> QED
  BY <1>2, <1>4, <1>5, <1>6 DEF single

LEMMA DistinctStays ==
    ASSUME NEW d \in Calls, Distinct(d), single(fromOwner', d), single(toWinner', d),
           nums(fromOwner', d) \subseteq nums(fromOwner, d),
           nums(toWinner', d) \subseteq nums(toWinner, d),
           came'[d] = came[d], chunksSent'[d] = chunksSent[d]
    PROVE  Distinct(d)'
  BY DEF Distinct

LEMMA OwnerDistinct ==
    ASSUME StreamTyped, NEW c \in Calls, OwnerMoves(c), NEW d \in Calls, Distinct(d)
    PROVE  Distinct(d)'
<1>1. NetTyped /\ OwnerTyped /\ came' = came /\ toWinner' = toWinner
  BY OwnerAlone, QuietDown DEF StreamTyped, Stream!stream
<1>2. single(fromOwner, d) /\ single(toWinner, d) /\ fromOwner \in Seq(FromOwner)
  BY <1>1 DEF Distinct, NetTyped, UpTyped
<1>3. CASE fromOwner' = fromOwner /\ chunksSent' = chunksSent
  BY <1>1, <1>2, <1>3, DistinctStays
<1>4. CASE chunksSent' = chunksSent /\ fromOwner' = fromOwner \o one(Stream!plain("terminal", c))
  <2>1. Stream!plain("terminal", c) \in FromOwner /\ Stream!plain("terminal", c).type # "chunk"
    BY FramesMade DEF FromOwner, Queue
  <2> DEFINE f == Stream!plain("terminal", c)
  <2> HIDE DEF f
  <2>2. nums(fromOwner \o one(f), d) = nums(fromOwner, d) /\ single(fromOwner \o one(f), d)
    BY <1>2, <2>1, NoChunk DEF f
  <2> QED
    BY <1>1, <1>2, <1>4, <2>2, DistinctStays DEF f
<1>5. CASE /\ chunksSent[c] + 1 \in 1 .. Chunks
           /\ chunksSent' = [chunksSent EXCEPT ![c] = @ + 1]
           /\ \/ fromOwner' = fromOwner
              \/ fromOwner' = fromOwner \o one(Stream!chunk(c, chunksSent[c] + 1))
  <2> DEFINE n == chunksSent[c] + 1
             f == Stream!chunk(c, n)
  <2>1. f \in Queue("chunk") /\ f \in Of("chunk", c) /\ f.call = c /\ f.seq = n
    BY <1>5, FramesMade
  <2>2. f \in FromOwner
    BY <2>1 DEF FromOwner, Queue
  <2>3. /\ chunksSent[d] \in Nat /\ chunksSent'[d] \in Nat /\ chunksSent[d] <= chunksSent'[d]
        /\ d = c => n = chunksSent'[d] /\ n = chunksSent[d] + 1
        /\ chunksSent'[d] \in 0 .. Chunks
    BY <1>1, <1>5, StreamNumbers DEF OwnerTyped
  <2> HIDE DEF f, n
  <2>4. nums(one(f), d) = IF d = c THEN {n} ELSE {}
    BY <2>1, OneFrame DEF Of
  <2>5. nums(fromOwner, d) \cup nums(toWinner, d) \cup values(came[d]) \subseteq 0 .. chunksSent[d]
    BY <2>3 DEF Distinct
  <2>6. /\ nums(fromOwner \o one(f), d) = nums(fromOwner, d) \cup nums(one(f), d)
        /\ single(fromOwner \o one(f), d) <=>
              single(fromOwner, d) /\ nums(fromOwner, d) \X nums(one(f), d) \subseteq Unequal
    BY <1>2, <2>2, LastFrame DEF single
  <2>7. nums(fromOwner, d) \X nums(one(f), d) \subseteq Unequal
    <3>1. CASE d = c
      <4>1. \A x \in nums(fromOwner, d) : <<x, n>> \in Unequal
        BY <2>3, <2>5, <3>1 DEF Unequal
      <4> QED
        BY <2>4, <3>1, <4>1
    <3>2. CASE d # c
      BY <2>4, <3>2
    <3> QED
      BY <3>1, <3>2
  <2>8. /\ nums(one(f), d) \cap (nums(toWinner, d) \cup values(came[d])) = {}
        /\ nums(one(f), d) \subseteq 1 .. chunksSent'[d]
    BY <2>3, <2>4, <2>5
  <2>9. 0 .. chunksSent[d] \subseteq 0 .. chunksSent'[d]
        /\ 1 .. chunksSent[d] \subseteq 1 .. chunksSent'[d]
    BY <2>3
  <2>10. CASE fromOwner' = fromOwner
    BY <1>1, <2>9, <2>10 DEF Distinct
  <2>11. CASE fromOwner' = fromOwner \o one(f)
    <3>1. /\ single(fromOwner', d)
          /\ nums(fromOwner', d) = nums(fromOwner, d) \cup nums(one(f), d)
      BY <1>2, <2>6, <2>7, <2>11
    <3> QED
      BY <1>1, <2>8, <2>9, <3>1 DEF Distinct
  <2> QED
    BY <1>5, <2>10, <2>11 DEF f, n
<1> QED
  BY <1>1, <1>3, <1>4, <1>5, OwnerSays

LEMMA OwnerHearsDistinct ==
    ASSUME StreamTyped, Stream!OwnerReceives, NEW d \in Calls, Distinct(d)
    PROVE  Distinct(d)'
<1>1. /\ UNCHANGED <<Stream!stream, chunksSent>> /\ toWinner' = toWinner
      /\ order \in ToOwner
      /\ \/ fromOwner' = fromOwner
         \/ fromOwner' = fromOwner \o one(Stream!plain("preflight_ok", order.call))
  BY OwnerHears DEF StreamTyped
<1>2. came' = came
  BY <1>1 DEF Stream!stream
<1>3. single(fromOwner, d) /\ single(toWinner, d) /\ fromOwner \in Seq(FromOwner)
  BY DEF Distinct, StreamTyped, NetTyped, UpTyped
<1>4. CASE fromOwner' = fromOwner
  BY <1>1, <1>2, <1>3, <1>4, DistinctStays
<1>5. CASE fromOwner' = fromOwner \o one(Stream!plain("preflight_ok", order.call))
  <2> DEFINE f == Stream!plain("preflight_ok", order.call)
  <2>1. order.call \in Calls
    BY <1>1 DEF ToOwner, OfType, Stream!Frame
  <2>2. f \in FromOwner /\ f.type # "chunk"
    BY <2>1, FramesMade DEF FromOwner, Queue
  <2> HIDE DEF f
  <2>3. nums(fromOwner \o one(f), d) = nums(fromOwner, d) /\ single(fromOwner \o one(f), d)
    BY <1>3, <2>2, NoChunk
  <2> QED
    BY <1>1, <1>2, <1>3, <1>5, <2>3, DistinctStays DEF f
<1> QED
  BY <1>1, <1>4, <1>5

LEMMA ServerDistinct ==
    ASSUME StreamTyped, NEW d \in Calls, Distinct(d),
           \/ \E i \in DOMAIN up["winner"] :
                 Stream!ForwardReserve(i) \/ Stream!ForwardRelayTerminal("winner", i)
           \/ \E i \in DOMAIN up["owner"] :
                 \/ Stream!ForwardPreflight(i) \/ Stream!ForwardRelayChunk(i)
                 \/ Stream!ForwardRelayTerminal("owner", i)
           \/ Stream!AbortWinnerRelays
    PROVE  Distinct(d)'
<1>1. /\ NetTyped /\ ServerTyped /\ OwnerTyped /\ (\A c \in Calls : Unknown(c))
      /\ toWinner \in Seq(ToWinner)
  BY DEF StreamTyped, NetTyped, DownTyped
<1>2. single(fromOwner, d) /\ single(toWinner, d)
  BY DEF Distinct
<1>3. ASSUME ServerMoves, fromOwner' = fromOwner, toWinner' = toWinner
      PROVE  Distinct(d)'
  BY <1>2, <1>3, DistinctStays DEF ServerMoves, Stream!stream, Stream!owner
<1>4. ASSUME NEW i \in DOMAIN up["winner"],
             Stream!ForwardReserve(i) \/ Stream!ForwardRelayTerminal("winner", i)
      PROVE  Distinct(d)'
  <2>1. ServerMoves /\ fromOwner' = fromOwner /\ toWinner' = toWinner
    BY <1>1, <1>4, ReserveForwarded, EndForwarded
  <2> QED
    BY <1>3, <2>1
<1>5. ASSUME NEW f \in ToWinner, f.type # "chunk", ServerMoves,
             \E g : without(fromOwner, g, fromOwner'),
             toWinner' = toWinner \/ toWinner' = toWinner \o one(f)
      PROVE  Distinct(d)'
  <2>1. single(fromOwner', d) /\ nums(fromOwner', d) \subseteq nums(fromOwner, d)
    BY <1>2, <1>5 DEF without, single
  <2>2. nums(toWinner', d) = nums(toWinner, d) /\ single(toWinner', d)
    <3> DEFINE q == toWinner
    <3>1. q \in Seq(ToWinner) /\ single(q, d)
      BY <1>1, <1>2
    <3> HIDE DEF q
    <3>2. nums(q \o one(f), d) = nums(q, d) /\ single(q \o one(f), d)
      BY <1>5, <3>1, NoChunk
    <3> QED
      BY <1>2, <1>5, <3>2 DEF q
  <2> QED
    BY <1>5, <2>1, <2>2, DistinctStays DEF ServerMoves, Stream!stream, Stream!owner
<1>6. ASSUME NEW i \in DOMAIN up["owner"], Stream!ForwardPreflight(i)
      PROVE  Distinct(d)'
  <2>1. /\ ServerMoves /\ without(fromOwner, report(i), fromOwner') /\ report(i).call \in Calls
        /\ \/ toWinner' = toWinner
           \/ toWinner' = toWinner \o one(Stream!plain("started", report(i).call))
    BY <1>1, <1>6, PreflightForwarded
  <2>2. /\ Stream!plain("started", report(i).call) \in ToWinner
        /\ Stream!plain("started", report(i).call).type # "chunk"
    BY <2>1, FramesMade DEF ToWinner, Queue
  <2> QED
    BY <1>5, <2>1, <2>2
<1>7. ASSUME NEW i \in DOMAIN up["owner"], Stream!ForwardRelayTerminal("owner", i)
      PROVE  Distinct(d)'
  <2>1. /\ ServerMoves /\ without(fromOwner, report(i), fromOwner') /\ report(i) \in FromOwner
        /\ report(i).type = "terminal"
        /\ toWinner' = toWinner \/ toWinner' = toWinner \o one(report(i))
    BY <1>1, <1>7, AnswerForwarded
  <2>2. report(i) \in ToWinner /\ report(i).type # "chunk"
    BY <2>1 DEF FromOwner, ToWinner, OfType
  <2> QED
    BY <1>5, <2>1, <2>2
<1>8. ASSUME NEW i \in DOMAIN up["owner"], Stream!ForwardRelayChunk(i)
      PROVE  Distinct(d)'
  <2>1. /\ ServerMoves /\ without(fromOwner, report(i), fromOwner') /\ report(i) \in FromOwner
        /\ report(i).type = "chunk"
        /\ toWinner' = toWinner \/ toWinner' = toWinner \o one(report(i))
    BY <1>1, <1>8, ChunkForwarded
  <2>2. report(i) \in ToWinner
    BY <2>1 DEF FromOwner, ToWinner, OfType
  <2> DEFINE f == report(i)
             x == nums(one(f), d)
  <2> HIDE DEF f
  <2>3. /\ single(fromOwner', d) /\ nums(fromOwner, d) = x \cup nums(fromOwner', d)
        /\ x \cap nums(fromOwner', d) = {}
    BY <1>2, <2>1 DEF without, single, f
  <2>4. /\ nums(toWinner \o one(f), d) = nums(toWinner, d) \cup x
        /\ single(toWinner \o one(f), d) <=>
              single(toWinner, d) /\ nums(toWinner, d) \X x \subseteq Unequal
    BY <1>1, <2>2, LastFrame DEF f, single
  <2> HIDE DEF x
  <2>5. chunksSent[d] \in Nat
    BY <1>1, StreamNumbers DEF OwnerTyped
  <2>6. nums(toWinner, d) \X x \subseteq Unequal
    <3>1. nums(toWinner, d) \subseteq Nat /\ x \subseteq Nat /\ nums(toWinner, d) \cap x = {}
      BY <2>3, <2>5 DEF Distinct
    <3>2. \A a \in nums(toWinner, d), b \in x : <<a, b>> \in Unequal
      BY <3>1 DEF Unequal
    <3> QED
      BY <3>2
  <2>7. /\ came'[d] = came[d] /\ chunksSent'[d] = chunksSent[d]
        /\ single(toWinner', d) /\ nums(toWinner', d) \subseteq nums(toWinner, d) \cup x
    BY <1>2, <2>1, <2>4, <2>6 DEF f, ServerMoves, Stream!stream, Stream!owner
  <2> QED
    BY <2>3, <2>7 DEF Distinct
<1>9. ASSUME Stream!AbortWinnerRelays PROVE Distinct(d)'
  <2>1. PICK fw \in Seq(Queue("terminal")) :
           toWinner' = IF "winner" \in online THEN toWinner \o fw ELSE toWinner
    BY <1>1, <1>9, AbortsForwarded
  <2>2. ServerMoves /\ fromOwner' = fromOwner
    BY <1>1, <1>9, AbortsForwarded
  <2>3. nums(toWinner', d) = nums(toWinner, d) /\ single(toWinner', d)
    BY <1>1, <1>2, <2>1, NoChunks
  <2> QED
    BY <1>2, <2>2, <2>3, DistinctStays DEF ServerMoves, Stream!stream, Stream!owner
<1> QED
  BY <1>4, <1>6, <1>7, <1>8, <1>9

LEMMA SocketDistinct ==
    ASSUME StreamTyped, NEW d \in Calls, Distinct(d),
           \/ Stream!WinnerDrops \/ Stream!OwnerDrops
           \/ \E e \in Stream!Devices : Stream!Reconnects(e)
    PROVE  Distinct(d)'
<1>1. NetTyped /\ OwnerTyped /\ single(fromOwner, d) /\ single(toWinner, d)
  BY DEF StreamTyped, Distinct
<1>2. ASSUME Stream!WinnerDrops PROVE Distinct(d)'
  <2>1. UNCHANGED <<Stream!owner, came>> /\ fromOwner' = fromOwner /\ toWinner' = <<>>
    BY <1>1, <1>2, WinnerDropsEffect
  <2>2. single(toWinner', d) /\ nums(toWinner', d) = {}
    BY <2>1, NoFrames DEF single
  <2> QED
    BY <1>1, <2>1, <2>2, DistinctStays DEF Stream!owner
<1>3. ASSUME Stream!OwnerDrops PROVE Distinct(d)'
  <2>1. UNCHANGED <<Stream!stream, chunksSent>> /\ toWinner' = toWinner
    BY <1>1, <1>3, OwnerDropsEffect
  <2>2. fromOwner' \in Seq(FromOwner) /\ \E r \in Seq(FromOwner) : fromOwner = fromOwner' \o r
    BY <1>1, <1>3, OwnerDropsEffect DEF NetTyped, UpTyped
  <2>3. single(fromOwner', d) /\ nums(fromOwner', d) \subseteq nums(fromOwner, d)
    BY <1>1, <2>2, CutOff DEF single
  <2> QED
    BY <1>1, <2>1, <2>3, DistinctStays DEF Stream!stream
<1>4. ASSUME NEW e \in Stream!Devices, Stream!Reconnects(e) PROVE Distinct(d)'
  <2>1. /\ UNCHANGED <<Stream!stream, Stream!owner>>
        /\ fromOwner' = fromOwner /\ toWinner' = toWinner
    BY <1>1, <1>4, ReconnectsEffect
  <2> QED
    BY <1>1, <2>1, DistinctStays DEF Stream!stream, Stream!owner
<1> QED
  BY <1>2, <1>3, <1>4

LEMMA FreshIsNew ==
    ASSUME StreamTyped, Stream!WinnerReceives, NEW d \in Calls, Distinct(d)
    PROVE  /\ single(toWinner', d) /\ nums(toWinner, d) = fresh(d) \cup nums(toWinner', d)
           /\ fresh(d) \cap nums(toWinner', d) = {} /\ fresh(d) \cap nums(fromOwner, d) = {}
           /\ fresh(d) \cap values(came[d]) = {} /\ fresh(d) \subseteq 1 .. chunksSent[d]
<1>1. without(toWinner, arrival, toWinner')
  BY ReceivesEffect DEF StreamTyped
<1>2. /\ single(toWinner', d) /\ nums(toWinner, d) = fresh(d) \cup nums(toWinner', d)
      /\ fresh(d) \cap nums(toWinner', d) = {}
  BY <1>1 DEF without, single, fresh, Distinct
<1> QED
  BY <1>2 DEF Distinct

LEMMA ReceivesDistinct ==
    ASSUME StreamTyped, Stream!WinnerReceives, NEW d \in Calls, Distinct(d)
    PROVE  Distinct(d)'
<1>1. WinnerTyped /\ NetTyped /\ chunksSent[d] \in Nat
  BY StreamNumbers DEF StreamTyped, OwnerTyped
<1>2. fromOwner' = fromOwner /\ chunksSent' = chunksSent
  BY <1>1, ReceivesEffect, QuietUp DEF Stream!owner
<1>3. /\ single(toWinner', d) /\ nums(toWinner, d) = fresh(d) \cup nums(toWinner', d)
      /\ fresh(d) \cap nums(toWinner', d) = {} /\ fresh(d) \cap nums(fromOwner, d) = {}
      /\ fresh(d) \cap values(came[d]) = {} /\ fresh(d) \subseteq 1 .. chunksSent[d]
  BY FreshIsNew
<1>4. CASE came'[d] = came[d]
  BY <1>2, <1>3, <1>4 DEF Distinct
<1>5. CASE /\ grown(d)
           /\ \/ fresh(d) = {arrival.seq} /\ arrival.seq \in 1 .. Chunks
              \/ fresh(d) = {} /\ arrival.seq = 0
  <2>1. PICK e \in DOMAIN came'[d] :
           /\ came'[d][e] = arrival.seq
           /\ \A k \in DOMAIN came[d] : came'[d][k] = came[d][k]
           /\ \A k \in DOMAIN came'[d] : k # e => k \in DOMAIN came[d]
           /\ values(came'[d]) = values(came[d]) \cup {arrival.seq}
    BY <1>5 DEF grown
  <2>2. values(came'[d]) \subseteq values(came[d]) \cup fresh(d) \cup {0}
    BY <1>5, <2>1
  <2>3. \A k, l \in DOMAIN came'[d] :
           came'[d][k] = came'[d][l] /\ came'[d][k] # 0 => k = l
    <3> SUFFICES ASSUME NEW k \in DOMAIN came'[d], NEW l \in DOMAIN came'[d],
                        came'[d][k] = came'[d][l], came'[d][k] # 0, k # l
                 PROVE  FALSE
      OBVIOUS
    <3>1. arrival.seq # 0 => arrival.seq \notin values(came[d])
      BY <1>3, <1>5
    <3>2. k # e /\ l # e
      BY <2>1, <3>1 DEF values
    <3> QED
      BY <2>1, <3>2 DEF Distinct
  <2>4. values(came'[d]) \subseteq 0 .. chunksSent[d]
    BY <1>1, <1>3, <2>2 DEF Distinct
  <2>5. nums(fromOwner, d) \cap {0} = {} /\ nums(toWinner, d) \cap {0} = {}
    BY <1>1 DEF Distinct
  <2> QED
    BY <1>2, <1>3, <2>2, <2>3, <2>4, <2>5 DEF Distinct
<1> QED
  BY <1>1, <1>4, <1>5, CameLast

LEMMA DistinctNext ==
    ASSUME StreamTyped, Stream!Next, NEW d \in Calls, Distinct(d)
    PROVE  Distinct(d)'
<1>1. ASSUME NEW c \in Calls, WinnerMoves(c) PROVE Distinct(d)'
  <2>1. fromOwner' = fromOwner /\ toWinner' = toWinner /\ came' = came /\ UNCHANGED Stream!owner
    BY <1>1, WinnerSays, WinnerAlone, WinnerKeepsArrivals DEF StreamTyped
  <2>2. single(fromOwner, d) /\ single(toWinner, d)
    BY DEF Distinct
  <2> QED
    BY <2>1, <2>2, DistinctStays DEF Stream!owner
<1> QED
  BY <1>1, StreamCases, OwnerDistinct, OwnerHearsDistinct, ServerDistinct, SocketDistinct,
     ReceivesDistinct

LEMMA AskedStays ==
    ASSUME NEW d \in Calls, Asked(d), at[d] # "new" => at'[d] # "new",
           d \in reserved' => d \in reserved \/ meets(fromWinner, Of("reserve", d)),
           meets(fromWinner', Of("reserve", d)) =>
              meets(fromWinner, Of("reserve", d)) \/ at'[d] # "new"
    PROVE  Asked(d)'
  BY DEF Asked

LEMMA NeverNewAgain ==
    ASSUME WinnerTyped, Waits, NEW d \in Calls, at[d] # "new",
           (\E c \in Calls : WinnerMoves(c)) \/ Stream!WinnerDrops
    PROVE  at'[d] # "new"
<1>1. LetsGo => at'[d] # "new"
  BY DEF LetsGo, Stream!Over
<1>2. ASSUME NEW c \in Calls, Begins(c) \/ WaitsOn(c) \/ HandsOver(c) PROVE at'[d] # "new"
  BY <1>2 DEF Begins, WaitsOn, HandsOver, others
<1> QED
  BY <1>1, <1>2, WinnerKinds, DropsLetGo

LEMMA WinnerAsked ==
    ASSUME StreamTyped, Waits, NEW c \in Calls, WinnerMoves(c), NEW d \in Calls, Asked(d)
    PROVE  Asked(d)'
<1>1. WinnerTyped /\ NetTyped /\ reserved' = reserved /\ fromWinner \in Seq(FromWinner)
  BY WinnerAlone DEF StreamTyped, NetTyped, UpTyped, Stream!server
<1>2. at[d] # "new" => at'[d] # "new"
  BY <1>1, NeverNewAgain
<1> DEFINE r == Stream!plain("reserve", c)
           t == Stream!plain("terminal", c)
           P == Of("reserve", d)
<1>3. r \in FromWinner /\ t \in FromWinner /\ (r \in P => d = c) /\ t \notin P
  BY FramesMade DEF FromWinner, Queue, Of
<1>4. <<r, t>> = one(r) \o one(t)
  BY FramesTyped
<1> HIDE DEF r, t, P
<1>5. /\ meets(fromWinner \o one(r), P) => meets(fromWinner, P) \/ d = c
      /\ meets(fromWinner \o one(t), P) => meets(fromWinner, P)
  BY <1>1, <1>3, LastFrame
<1>6. meets(fromWinner \o <<r, t>>, P) => meets(fromWinner, P) \/ d = c
  <2>1. one(r) \in Seq(FromWinner) /\ one(r) \o one(t) \in Seq(FromWinner)
    BY <1>3 DEF one
  <2>2. /\ meets(one(r) \o one(t), P) => t \in P \/ meets(one(r), P)
        /\ meets(one(r), P) => r \in P
    BY <1>3, <2>1, LastFrame, OneFrame
  <2>3. meets(fromWinner \o (one(r) \o one(t)), P) =>
           meets(fromWinner, P) \/ meets(one(r) \o one(t), P)
    BY <1>1, <2>1, JoinMeets
  <2> QED
    BY <1>3, <1>4, <2>2, <2>3
<1>7. Stream!StreamAsWinner(c) => at'[c] # "new"
  BY <1>1 DEF WinnerTyped, Stream!StreamAsWinner, Stream!waitType
<1>8. Stream!StreamAborted(c) => at'[c] # "new"
  BY DEF Stream!StreamAborted
<1>9. meets(fromWinner', P) => meets(fromWinner, P) \/ at'[d] # "new"
  <2>1. \/ fromWinner' = fromWinner
        \/ Stream!StreamAsWinner(c) /\ fromWinner' = fromWinner \o one(r)
        \/ Stream!StreamAborted(c) /\ fromWinner' = fromWinner \o <<r, t>>
        \/ fromWinner' = fromWinner \o one(t)
    BY <1>1, WinnerSays DEF r, t
  <2> QED
    BY <1>5, <1>6, <1>7, <1>8, <2>1
<1> QED
  BY <1>1, <1>2, <1>9, AskedStays DEF P

LEMMA AskedNext ==
    ASSUME StreamTyped, Waits, Stream!Next, NEW d \in Calls, Asked(d)
    PROVE  Asked(d)'
<1>1. /\ WinnerTyped /\ NetTyped /\ ServerTyped /\ OwnerTyped
      /\ \A c \in Calls : Unknown(c)
  BY DEF StreamTyped
<1>2. ASSUME at' = at, reserved' = reserved, fromWinner' = fromWinner PROVE Asked(d)'
  BY <1>2, AskedStays
<1>3. ASSUME NEW c \in Calls, OwnerMoves(c) PROVE Asked(d)'
  <2>1. UNCHANGED <<Stream!stream, Stream!server>> /\ fromWinner' = fromWinner
    BY <1>1, <1>3, OwnerAlone, OwnerSays
  <2> QED
    BY <1>2, <2>1 DEF Stream!stream, Stream!server
<1>4. ASSUME Stream!WinnerReceives PROVE Asked(d)'
  <2>1. UNCHANGED <<at, Stream!server, up>>
    BY <1>1, <1>4, ReceivesEffect
  <2> QED
    BY <1>2, <2>1, QuietUp DEF Stream!server
<1>5. ASSUME Stream!OwnerReceives PROVE Asked(d)'
  <2>1. UNCHANGED <<Stream!stream, Stream!server>> /\ fromWinner' = fromWinner
    BY <1>1, <1>5, OwnerHears
  <2> QED
    BY <1>2, <2>1 DEF Stream!stream, Stream!server
<1>6. ASSUME NEW i \in DOMAIN up["winner"], Stream!ForwardReserve(i) PROVE Asked(d)'
  <2>1. /\ ServerMoves /\ request(i).type = "reserve" /\ request(i) \in FromWinner
        /\ without(fromWinner, request(i), fromWinner')
        /\ reserved' \subseteq reserved \cup {request(i).call}
    BY <1>1, <1>6, ReserveForwarded
  <2>2. meets(fromWinner', Of("reserve", d)) => meets(fromWinner, Of("reserve", d))
    BY <2>1 DEF without
  <2>3. request(i).call = d => request(i) \in Of("reserve", d)
    BY <2>1 DEF FromWinner, OfType, Of
  <2>4. d \in reserved' => d \in reserved \/ meets(fromWinner, Of("reserve", d))
    BY <2>1, <2>3 DEF without
  <2>5. at' = at
    BY <2>1 DEF ServerMoves, Stream!stream
  <2> QED
    BY <2>2, <2>4, <2>5, AskedStays
<1>7. ASSUME NEW i \in DOMAIN up["winner"], Stream!ForwardRelayTerminal("winner", i)
      PROVE  Asked(d)'
  <2>1. ServerMoves /\ without(fromWinner, request(i), fromWinner') /\ reserved' = reserved
    BY <1>1, <1>7, EndForwarded
  <2>2. meets(fromWinner', Of("reserve", d)) => meets(fromWinner, Of("reserve", d))
    BY <2>1 DEF without
  <2> QED
    BY <2>1, <2>2, AskedStays DEF ServerMoves, Stream!stream
<1>8. ASSUME NEW i \in DOMAIN up["owner"],
             \/ Stream!ForwardPreflight(i) \/ Stream!ForwardRelayChunk(i)
             \/ Stream!ForwardRelayTerminal("owner", i)
      PROVE  Asked(d)'
  <2>1. ServerMoves /\ fromWinner' = fromWinner /\ reserved' = reserved
    BY <1>1, <1>8, PreflightForwarded, ChunkForwarded, AnswerForwarded DEF Stream!server
  <2> QED
    BY <1>2, <2>1 DEF ServerMoves, Stream!stream
<1>9. ASSUME Stream!AbortWinnerRelays PROVE Asked(d)'
  <2>1. ServerMoves /\ fromWinner' = fromWinner /\ reserved' = reserved
    BY <1>1, <1>9, AbortsForwarded
  <2> QED
    BY <1>2, <2>1 DEF ServerMoves, Stream!stream
<1>10. ASSUME Stream!WinnerDrops PROVE Asked(d)'
  <2>1. /\ UNCHANGED Stream!server
        /\ \E r \in Seq(FromWinner) : fromWinner = fromWinner' \o r
        /\ fromWinner' \in Seq(FromWinner)
    BY <1>1, <1>10, WinnerDropsEffect DEF NetTyped, UpTyped
  <2>2. meets(fromWinner', Of("reserve", d)) => meets(fromWinner, Of("reserve", d))
    BY <2>1, CutOff
  <2>3. at[d] # "new" => at'[d] # "new"
    BY <1>1, <1>10, NeverNewAgain
  <2> QED
    BY <2>1, <2>2, <2>3, AskedStays DEF Stream!server
<1>11. ASSUME Stream!OwnerDrops PROVE Asked(d)'
  <2>1. UNCHANGED <<Stream!stream, Stream!server>> /\ fromWinner' = fromWinner
    BY <1>1, <1>11, OwnerDropsEffect
  <2> QED
    BY <1>2, <2>1 DEF Stream!stream, Stream!server
<1>12. ASSUME NEW e \in Stream!Devices, Stream!Reconnects(e) PROVE Asked(d)'
  <2>1. UNCHANGED <<Stream!stream, Stream!server>> /\ fromWinner' = fromWinner
    BY <1>1, <1>12, ReconnectsEffect
  <2> QED
    BY <1>2, <2>1 DEF Stream!stream, Stream!server
<1> QED
  BY <1>3, <1>4, <1>5, <1>6, <1>7, <1>8, <1>9, <1>10, <1>11, <1>12, WinnerAsked, StreamCases

-----------------------------------------------------------------------------
(* All of it holds in every state.                                          *)

LEMMA StreamSafeInit ==
    ASSUME Stream!Init PROVE StreamSafe
<1>1. StreamTyped /\ Waits
  BY StreamTypedInit
<1>2. /\ fromWinner = <<>> /\ fromOwner = <<>> /\ toWinner = <<>> /\ kept = <<>>
      /\ backlog["terminal"] = <<>> /\ reserved = {}
  BY DEF Stream!Init, fromWinner, fromOwner, toWinner, kept, Stream!Devices, Stream!Types
<1>3. ASSUME NEW c \in Calls
      PROVE  /\ at[c] = "new" /\ got[c] = <<>> /\ came[c] = <<>> /\ waiter["chunk"] # c
             /\ held[c] = Stream!NoFrame /\ endedBy[c] = Stream!NoFrame
  BY <1>3, StreamNumbers DEF Stream!Init, Stream!Types
<1>4. ASSUME NEW c \in Calls PROVE ~ live(c) /\ hand(c) = {} /\ ~ (held[c] \in Of("terminal", c))
  BY <1>3, HandIs, NoFrameIs DEF live, Of
<1>5. ASSUME NEW c \in Calls
      PROVE  /\ values(got[c]) = {} /\ pairs(got[c]) = {}
             /\ values(came[c]) = {} /\ DOMAIN came[c] = {}
  BY <1>3, NoValues
<1>6. ASSUME NEW c \in Calls PROVE Arrived(c)
  BY <1>2, <1>4, <1>5, NoFrames DEF Arrived
<1>7. ASSUME NEW c \in Calls PROVE Distinct(c) /\ Asked(c)
  BY <1>2, <1>5, NoFrames DEF Distinct, Asked, single
<1>8. Serially
  <2>1. OneLive /\ NoStale
    BY <1>3, <1>4 DEF OneLive, NoStale
  <2>2. ASSUME NEW c \in Calls PROVE Full(c) /\ Passed(c) /\ WholeAtEnd(c)
    <3>1. endedBy[c].call # c
      BY <1>3, NoFrameIs, StreamNumbers
    <3> QED
      BY <1>4, <1>5, <3>1 DEF Full, Passed, WholeAtEnd
  <2> QED
    BY <2>1, <2>2 DEF Serially
<1> QED
  BY <1>1, <1>6, <1>7, <1>8 DEF StreamSafe

(* The winner's state stays, and with it what is said of it alone.          *)
LEMMA QuietStream ==
    ASSUME UNCHANGED Stream!stream, NEW d \in Calls
    PROVE  /\ Arrived(d) => Arrived(d)'
           /\ Serially => Serially'
<1>1. UNCHANGED <<at, held, got, waiter, backlog, endedBy, came, serial>>
  BY DEF Stream!stream
<1>2. kept' = kept /\ \A c \in Calls : hand(c)' = hand(c) /\ (live(c)' <=> live(c))
  BY <1>1 DEF kept, hand, live
<1>3. Arrived(d) => Arrived(d)'
  BY <1>1, <1>2 DEF Arrived
<1>4. \A c \in Calls : /\ Full(c) => Full(c)'
                       /\ Passed(c) => Passed(c)'
                       /\ WholeAtEnd(c) => WholeAtEnd(c)'
  BY <1>1, <1>2 DEF Full, Passed, WholeAtEnd, Closed
<1>5. (OneLive => OneLive') /\ (NoStale => NoStale')
  BY <1>1, <1>2 DEF OneLive, NoStale
<1> QED
  BY <1>1, <1>3, <1>4, <1>5 DEF Serially

LEMMA StreamSafeNext ==
    ASSUME StreamSafe, Stream!Next PROVE StreamSafe'
<1>1. /\ StreamTyped /\ Waits /\ Serially /\ WinnerTyped /\ NetTyped /\ OwnerTyped /\ ServerTyped
      /\ \A d \in Calls : Arrived(d) /\ Distinct(d) /\ Asked(d) /\ Unknown(d)
  BY DEF StreamSafe, StreamTyped
<1>2. StreamTyped' /\ Waits'
  BY <1>1, StreamTypedNext
<1>3. \A d \in Calls : Distinct(d)' /\ Asked(d)'
  BY <1>1, DistinctNext, AskedNext
<1>4. \A d \in Calls : Injective(d) /\ (at[d] = "new" => came[d] = <<>>)
  BY <1>1 DEF Distinct, Injective, Asked, Unknown
<1>5. ASSUME came' = came,
             LetsGo \/ \E c \in Calls : Begins(c) \/ WaitsOn(c) \/ HandsOver(c)
      PROVE  Serially' /\ \A d \in Calls : Arrived(d)'
  BY <1>1, <1>4, <1>5, WinnerKeepsArrived, WinnerKeepsSerially
<1>6. ASSUME Stream!WinnerReceives
      PROVE  Serially' /\ \A d \in Calls : Arrived(d)'
  BY <1>1, <1>6, FreshIsNew, ReceivesArrived, ReceivesSerially
<1>7. ASSUME UNCHANGED Stream!stream
      PROVE  Serially' /\ \A d \in Calls : Arrived(d)'
  <2>1. \A d \in Calls : Arrived(d)'
    BY <1>1, <1>7, QuietStream
  <2>2. Serially'
    <3>1. CASE Calls = {}
      BY <3>1 DEF Serially, OneLive, NoStale
    <3>2. CASE Calls # {}
      BY <1>1, <1>7, <3>2, QuietStream
    <3> QED
      BY <3>1, <3>2
  <2> QED
    BY <2>1, <2>2
<1>8. Serially' /\ \A d \in Calls : Arrived(d)'
  <2>1. ASSUME NEW c \in Calls, WinnerMoves(c)
        PROVE  Serially' /\ \A d \in Calls : Arrived(d)'
    BY <1>1, <1>5, <2>1, WinnerKinds, WinnerKeepsArrivals
  <2>2. CASE Stream!WinnerDrops
    BY <1>1, <1>5, <2>2, DropsLetGo
  <2>3. CASE UNCHANGED Stream!stream
    BY <1>7, <2>3
  <2>4. ASSUME NEW c \in Calls, OwnerMoves(c) PROVE UNCHANGED Stream!stream
    BY <2>4, OwnerAlone
  <2>5. CASE Stream!OwnerReceives
    BY <1>1, <2>3, <2>5, OwnerHears
  <2>6. CASE Stream!ServerStep
    BY <2>3, <2>6, ServerAlone
  <2>7. CASE Stream!OwnerDrops
    BY <1>1, <2>3, <2>7, OwnerDropsEffect
  <2>8. ASSUME NEW e \in Stream!Devices, Stream!Reconnects(e) PROVE UNCHANGED Stream!stream
    BY <1>1, <2>8, ReconnectsEffect
  <2> QED
    BY <1>6, <2>1, <2>2, <2>3, <2>4, <2>5, <2>6, <2>7, <2>8, RemoteMoves DEF Stream!SocketStep
<1> QED
  BY <1>2, <1>3, <1>8 DEF StreamSafe

LEMMA StreamSafeStays ==
    ASSUME StreamSafe, UNCHANGED streamVars
    PROVE  StreamSafe'
<1>1. /\ UNCHANGED <<at, held, got, cancelled, stopped, waiter, backlog, fulfil, chunksSent,
                     ownerWaiter, ownerBacklog, reserved, finished, charged, slot, up, down,
                     online, hungUp, closed, endedBy, came, serial>>
      /\ UNCHANGED Stream!stream
  BY DEF streamVars, Stream!stream
<1>2. /\ fromWinner' = fromWinner /\ fromOwner' = fromOwner /\ toWinner' = toWinner
      /\ toOwner' = toOwner /\ kept' = kept
  BY <1>1 DEF fromWinner, fromOwner, toWinner, toOwner, kept
<1>3. /\ WinnerTyped /\ Waits /\ OwnerTyped /\ ServerTyped /\ NetTyped /\ UpTyped /\ DownTyped
      /\ Serially /\ \A c \in Calls : Arrived(c) /\ Distinct(c) /\ Asked(c) /\ Unknown(c)
  BY DEF StreamSafe, StreamTyped, NetTyped
<1>4. WinnerTyped' /\ Waits' /\ OwnerTyped' /\ ServerTyped' /\ NetTyped'
  BY <1>1, <1>2, <1>3, WinnerWaitsStay, QuietUp, QuietDown DEF OwnerTyped, ServerTyped, NetTyped
<1>5. \A c \in Calls : Unknown(c)' /\ Distinct(c)' /\ Asked(c)'
  BY <1>1, <1>2, <1>3 DEF Unknown, Distinct, Asked
<1>6. \A c \in Calls : Arrived(c)'
  BY <1>1, <1>3, QuietStream
<1>7. Serially'
  <2>1. CASE Calls = {}
    BY <2>1 DEF Serially, OneLive, NoStale
  <2>2. CASE Calls # {}
    BY <1>1, <1>3, <2>2, QuietStream
  <2> QED
    BY <2>1, <2>2
<1> QED
  BY <1>4, <1>5, <1>6, <1>7 DEF StreamSafe, StreamTyped

(* What the run checks follows from it.                                     *)
LEMMA ArrivalOrder ==
    ASSUME StreamSafe
    PROVE  /\ Stream!TypeOK /\ Stream!InOrderOfArrival
           /\ Stream!NonePassedOver /\ Stream!WholeAnswer
<1>1. /\ WinnerTyped /\ OwnerTyped /\ ServerTyped /\ NetTyped /\ Serially
      /\ \A c \in Calls : Arrived(c)
  BY DEF StreamSafe, StreamTyped
<1>2. Stream!TypeOK
  <2>1. ASSUME NEW t \in Stream!Types
        PROVE  backlog[t] \in Seq({f \in Stream!Frame : f.type = t})
    <3>1. Queue(t) \subseteq {f \in Stream!Frame : f.type = t}
      BY DEF Queue, OfType
    <3>2. backlog[t] \in Seq(Queue(t))
      BY <1>1, <2>1 DEF WinnerTyped
    <3> QED
      BY <3>1, <3>2, SeqMonotonic
  <2>2. slot \in 0 .. 1
    BY <1>1 DEF ServerTyped
  <2>3. \A c \in Calls : got[c] \in Seq(1 .. Chunks) /\ came[c] \in Seq(0 .. Chunks)
    BY <1>1 DEF WinnerTyped
  <2> QED
    BY <1>1, <2>1, <2>2, <2>3 DEF Stream!TypeOK, WinnerTyped, OwnerTyped, ServerTyped
<1>3. \A c \in Calls : Stream!given(c) = values(got[c])
  BY DEF Stream!given, values
<1>4. Stream!InOrderOfArrival
  <2> SUFFICES ASSUME NEW c \in Calls, NEW i \in DOMAIN got[c], NEW j \in DOMAIN got[c], i < j
               PROVE  \E k, l \in DOMAIN came[c] :
                         k < l /\ came[c][k] = got[c][i] /\ came[c][l] = got[c][j]
    BY DEF Stream!InOrderOfArrival
  <2>1. <<got[c][i], got[c][j]>> \in pairs(got[c])
    BY DEF pairs, values
  <2>2. <<got[c][i], got[c][j]>> \in pairs(came[c])
    BY <1>1, <2>1 DEF Arrived
  <2> QED
    BY <2>2 DEF pairs
<1>5. Stream!NonePassedOver
  BY <1>1, <1>3 DEF Stream!NonePassedOver, Serially, Passed
<1>6. Stream!WholeAnswer
  <2> SUFFICES ASSUME serial, NEW c \in Calls, endedBy[c].call = c, NEW k \in DOMAIN came[c],
                      \A l \in 1 .. k : came[c][l] # 0
               PROVE  came[c][k] \in values(got[c])
    BY <1>3 DEF Stream!WholeAnswer
  <2>1. PICK l \in DOMAIN came[c] :
           /\ came[c][l] = 0
           /\ \A m \in DOMAIN came[c] : m < l /\ came[c][m] # 0 => came[c][m] \in values(got[c])
    BY <1>1 DEF Serially, WholeAtEnd, Closed
  <2>2. k \in Nat \ {0} /\ l \in Nat \ {0}
    BY <1>1, LenProperties DEF WinnerTyped
  <2>3. k < l /\ k \in 1 .. k
    BY <2>1, <2>2
  <2> QED
    BY <2>1, <2>3
<1> QED
  BY <1>2, <1>4, <1>5, <1>6

(* Of MCGrantCalls, it is the part of the streams.                          *)
StreamInv == part \in {"streams", "sockets"} => StreamSafe

LEMMA StreamInvariant == PartsSpec => []StreamInv
<1>1. PartsInit => StreamInv
  BY StreamSafeInit DEF PartsInit, StreamInv
<1>2. StreamInv /\ [PartsNext]_allVars => StreamInv'
  <2> SUFFICES ASSUME StreamInv, [PartsNext]_allVars, part' \in {"streams", "sockets"}
               PROVE  StreamSafe'
    BY DEF StreamInv
  <2>1. part \in {"streams", "sockets"} /\ (Stream!Next \/ UNCHANGED streamVars)
    BY DEF PartsNext, allVars, streamVars
  <2> QED
    BY <2>1, StreamSafeNext, StreamSafeStays DEF StreamInv
<1> QED
  BY <1>1, <1>2, PTL DEF PartsSpec

LEMMA StreamFollows == StreamInv => ChunksInOrder
  BY ArrivalOrder DEF StreamInv, ChunksInOrder

(* However many streams are open, however the server and the network reorder*)
(* or lose frames, waiters time out, hosts abort and sockets close, a plugin*)
(* gives a host the chunks of its call in the order in which they came to it*)
(* (waiters and backlog, connection.ts 122-139, 344-352 and 377-401).  As   *)
(* long as each stream was opened after the one before was over and none    *)
(* waited in vain, none that came is passed over, and a stream that returned*)
(* at its own relay.terminal gave its host all that came before it.         *)
THEOREM ChunksStayInOrder == PartsSpec => []ChunksInOrder
  BY StreamInvariant, StreamFollows, PTL
=============================================================================
