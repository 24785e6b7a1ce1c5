------------------------------ MODULE GrantRelay ------------------------------
(***************************************************************************)
(* One grant of the Arena server and the model calls relayed under it:     *)
(* RelayController (server/src/relay.ts), tickGrantOnline (settlement.ts), *)
(* the frame handlers of ArenaService that use them (arena.ts), on the     *)
(* rows PostgresStore keeps (postgres.ts).                                 *)
(*                                                                         *)
(* A frame handler is an async function: whatever it awaits is a point     *)
(* where other handlers run, and what it read before is a copy.  A handler *)
(* is a member of Handlers, suspended at one of the awaits named by        *)
(* `at`; an action runs it from one await to the next.  One query or one   *)
(* transaction of the store is atomic.  With a single member in Handlers   *)
(* frames are handled one at a time.                                       *)
(*                                                                         *)
(* Left out: ciphertext, hashes, sizes, and the column `version`, which is *)
(* incremented and never compared.  The owner's plugin (fulfillAsOwner)    *)
(* answers each relay.reserve it receives with one relay.preflight_ok and, *)
(* later, one relay.terminal.                                              *)
(*                                                                         *)
(* An operator X_y is X with one plausible mistake, y; no action uses it.  *)
(***************************************************************************)
EXTENDS Integers, FiniteSets, Functions

CONSTANTS
    Inferences,    \* inference ids of one winner
    Handlers,      \* frame handlers that may be suspended at the same time
    MaxCalls,      \* DEFAULT_MAX_CALLS
    Ttl,           \* GRANT_ONLINE_TTL_SECONDS, in ticks of the model's clock
    NoTime,        \* null in lastOnlineTickAt
    NoInference,   \* the inference of an idle handler
    MaxTime,       \* bound of the model: the clock stops here
    MaxReserves,   \* bound of the model: relay.reserve frames per inference
    MaxDrops       \* bound of the model: winner disconnects, server crashes

ASSUME CallsAssumption == MaxCalls \in Nat \ {0}
ASSUME TtlAssumption == Ttl \in Nat \ {0}
ASSUME BoundsAssumption == {MaxTime, MaxReserves, MaxDrops} \subseteq Nat
ASSUME NoTimeAssumption == NoTime \notin Nat
ASSUME NoInferenceAssumption == NoInference \notin Inferences

VARIABLES
    grant,         \* the row of table grants
    inference,     \* the rows of table inferences; status "none": no row
    handler,       \* the handlers and what they have read
    asked,         \* relay.reserve frames the owner has yet to answer
    fulfilling,    \* calls the owner said preflight_ok for and has not ended
    reserves,      \* relay.reserve frames accepted so far
    drops,         \* winner disconnects and server crashes so far
    ownerOnline,   \* presence.isOnline(owner)
    now,           \* Date.now()
    onlineTime,    \* history: ticks of the clock the owner was online for
    deductions     \* history: how often each inference was charged

rows == <<grant, inference>>
client == <<asked, fulfilling, reserves, drops>>
world == <<ownerOnline, now, onlineTime>>
vars == <<rows, handler, client, world, deductions>>

Ended == {"completed", "cancelled", "provider_error", "aborted"}
CallStatus == {"none", "reserved", "preflight", "started"} \cup Ended

GrantRow == [callsRemaining : 0..MaxCalls,
             activeConcurrency : 0..1,
             onlineMsRemaining : 0..Ttl,
             ownerOnline : BOOLEAN,
             status : {"active", "exhausted"},
             statusReason : {"active", "calls_exhausted", "ttl_exhausted"},
             lastOnlineTickAt : Nat \cup {NoTime}]

InferenceRow == [status : CallStatus, deducted : BOOLEAN, finished : BOOLEAN]

NoCall == [status |-> "none", deducted |-> FALSE, finished |-> FALSE]

\* The row settleMatch inserts.
FreshGrant == [callsRemaining |-> MaxCalls,
               activeConcurrency |-> 0,
               onlineMsRemaining |-> Ttl,
               ownerOnline |-> FALSE,
               status |-> "active",
               statusReason |-> "active",
               lastOnlineTickAt |-> NoTime]

At == {"idle", "insert", "preflight", "start", "next",
       "terminal_grant", "terminal_inference", "terminal_save", "tick_save"}

Idle == [at |-> "idle", i |-> NoInference, status |-> "none",
         inf |-> NoCall, row |-> FreshGrant, todo |-> {}]

Init ==
    /\ grant = FreshGrant
    /\ inference = [i \in Inferences |-> NoCall]
    /\ handler = [h \in Handlers |-> Idle]
    /\ asked = [i \in Inferences |-> 0]
    /\ fulfilling = [i \in Inferences |-> 0]
    /\ reserves = [i \in Inferences |-> 0]
    /\ drops = 0
    /\ ownerOnline \in BOOLEAN
    /\ now = 0
    /\ onlineTime = 0
    /\ deductions = [i \in Inferences |-> 0]

------------------------------------------------------------------------------
(* Rows.                                                                   *)

Positive(n) == IF n > 0 THEN n ELSE 0

\* The grant a tick would save, from the row it read.
tickGrantOnline_forgetsStatus(row) ==
    IF ownerOnline
      THEN LET spent == IF row.lastOnlineTickAt = NoTime THEN 0
                        ELSE Positive(now - row.lastOnlineTickAt)
           IN  [row EXCEPT !.onlineMsRemaining = Positive(@ - spent),
                           !.lastOnlineTickAt = now,
                           !.ownerOnline = TRUE]
      ELSE [row EXCEPT !.ownerOnline = FALSE, !.lastOnlineTickAt = NoTime]

tickGrantOnline(row) ==
    IF ownerOnline
      THEN LET spent == IF row.lastOnlineTickAt = NoTime THEN 0
                        ELSE Positive(now - row.lastOnlineTickAt)
               left == Positive(row.onlineMsRemaining - spent)
           IN  [row EXCEPT
                  !.onlineMsRemaining = left,
                  !.lastOnlineTickAt = now,
                  !.ownerOnline = TRUE,
                  !.status = IF left = 0 THEN "exhausted" ELSE @,
                  !.statusReason = IF left = 0 THEN "ttl_exhausted" ELSE @]
      ELSE [row EXCEPT !.ownerOnline = FALSE, !.lastOnlineTickAt = NoTime]

\* deductIfStarted refuses: GRANT_EXHAUSTED, CONCURRENCY.
mayDeduct_ignoresConcurrency(row) == row.callsRemaining > 0

mayDeduct(row) == row.callsRemaining > 0 /\ row.activeConcurrency < 1

deducted(row) ==
    LET left == row.callsRemaining - 1
    IN  [row EXCEPT
           !.callsRemaining = left,
           !.activeConcurrency = @ + 1,
           !.status = IF left = 0 THEN "exhausted" ELSE @,
           !.statusReason = IF left = 0 THEN "calls_exhausted" ELSE @]

alreadyDeducted_trustsStatus(call) == call.status = "started"

alreadyDeducted(call) == call.deducted

ended_refunds(call, status) ==
    [call EXCEPT !.status = status, !.finished = TRUE,
                 !.deducted = @ /\ status = "completed"]

ended(call, status) == [call EXCEPT !.status = status, !.finished = TRUE]

released(row, call) ==
    [row EXCEPT !.activeConcurrency =
        IF @ > 0 /\ call.deducted THEN @ - 1 ELSE @]

------------------------------------------------------------------------------
(* The frame handlers of the server.                                       *)

suspend(h, next) == handler' = [handler EXCEPT ![h] = next]

\* A handler that has run to its end; abortWinnerRelays goes on with the
\* next inference it listed.
done(h) ==
    suspend(h, IF handler[h].todo = {} THEN Idle
               ELSE [Idle EXCEPT !.at = "next", !.todo = handler[h].todo])

\* relay.reserve: the guards read the grant.
ReserveRead(h, i) ==
    /\ handler[h] = Idle
    /\ reserves[i] < MaxReserves
    /\ grant.status = "active"
    /\ grant.callsRemaining > 0
    /\ ownerOnline
    /\ suspend(h, [Idle EXCEPT !.at = "insert", !.i = i])
    /\ reserves' = [reserves EXCEPT ![i] = @ + 1]
    /\ UNCHANGED <<rows, asked, fulfilling, drops, world, deductions>>

\* A duplicate key leaves the row alone; the frame is forwarded anyway, and
\* reaches the owner if it has a socket.
ReserveInsert(h) ==
    LET i == handler[h].i IN
    /\ handler[h].at = "insert"
    /\ inference' = IF inference[i].status = "none"
                    THEN [inference EXCEPT ![i].status = "reserved"]
                    ELSE inference
    /\ asked' = IF ownerOnline THEN [asked EXCEPT ![i] = @ + 1] ELSE asked
    /\ done(h)
    /\ UNCHANGED <<grant, fulfilling, reserves, drops, world, deductions>>

\* relay.preflight_ok, sent by the owner for a relay.reserve it received.
PreflightRead(h, i) ==
    /\ handler[h] = Idle
    /\ ownerOnline
    /\ asked[i] > 0
    /\ asked' = [asked EXCEPT ![i] = @ - 1]
    /\ fulfilling' = [fulfilling EXCEPT ![i] = @ + 1]
    /\ suspend(h, [Idle EXCEPT
          !.at = IF inference[i].status = "started" \/ inference[i].deducted
                 THEN "start" ELSE "preflight",
          !.i = i,
          !.inf = inference[i]])
    /\ UNCHANGED <<rows, reserves, drops, world, deductions>>

\* updateInference writes every column back from the copy.
PreflightWrite(h) ==
    /\ handler[h].at = "preflight"
    /\ inference' = [inference EXCEPT
          ![handler[h].i] = [handler[h].inf EXCEPT !.status = "preflight"]]
    /\ suspend(h, [handler[h] EXCEPT !.at = "start"])
    /\ UNCHANGED <<grant, client, world, deductions>>

\* deductIfStarted: one transaction that locks both rows.  A refusal is an
\* exception, which ends the handler.
Start(h) ==
    LET i == handler[h].i IN
    /\ handler[h].at = "start"
    /\ \/ /\ ~alreadyDeducted(inference[i])
          /\ mayDeduct(grant)
          /\ grant' = deducted(grant)
          /\ inference' = [inference EXCEPT ![i].deducted = TRUE,
                                            ![i].status = "started"]
          /\ deductions' = [deductions EXCEPT ![i] = @ + 1]
       \/ /\ alreadyDeducted(inference[i]) \/ ~mayDeduct(grant)
          /\ UNCHANGED <<rows, deductions>>
    /\ done(h)
    /\ UNCHANGED <<client, world>>

\* relay.terminal, first read; an unknown inference is an exception.
readCall(h, i, status, todo) ==
    /\ inference[i].status # "none"
    /\ suspend(h, [Idle EXCEPT !.at = "terminal_grant", !.i = i,
                               !.status = status, !.inf = inference[i],
                               !.todo = todo])

\* ... from a winner that gives a call up after it asked for it,
WinnerCancels(h, i) ==
    /\ handler[h] = Idle
    /\ reserves[i] > 0
    /\ readCall(h, i, "cancelled", {})
    /\ UNCHANGED <<rows, client, world, deductions>>

\* ... or from an owner that ends a call: it streamed the answer if the
\* call was started, and waited in vain for the start otherwise.
OwnerEnds(h, i) ==
    /\ handler[h] = Idle
    /\ ownerOnline
    /\ fulfilling[i] > 0
    /\ fulfilling' = [fulfilling EXCEPT ![i] = @ - 1]
    /\ readCall(h, i, IF inference[i].deducted THEN "completed"
                      ELSE "provider_error", {})
    /\ UNCHANGED <<rows, asked, reserves, drops, world, deductions>>

\* The same frame on a closed socket is lost.
OwnerEndsUnheard(i) ==
    /\ ~ownerOnline
    /\ fulfilling[i] > 0
    /\ fulfilling' = [fulfilling EXCEPT ![i] = @ - 1]
    /\ UNCHANGED <<rows, handler, asked, reserves, drops, world, deductions>>

TerminalReadGrant(h) ==
    /\ handler[h].at = "terminal_grant"
    /\ IF handler[h].inf.finished
         THEN done(h)
         ELSE suspend(h, [handler[h] EXCEPT !.at = "terminal_inference",
                                            !.row = grant])
    /\ UNCHANGED <<rows, client, world, deductions>>

TerminalWriteInference(h) ==
    /\ handler[h].at = "terminal_inference"
    /\ inference' = [inference EXCEPT
          ![handler[h].i] = ended(handler[h].inf, handler[h].status)]
    /\ suspend(h, [handler[h] EXCEPT !.at = "terminal_save"])
    /\ UNCHANGED <<grant, client, world, deductions>>

\* saveGrant writes the whole row back from the copy.
TerminalSaveGrant(h) ==
    /\ handler[h].at = "terminal_save"
    /\ grant' = released(handler[h].row, handler[h].inf)
    /\ done(h)
    /\ UNCHANGED <<inference, client, world, deductions>>

\* handleDisconnect of the winner, abortWinnerRelays: the open inferences
\* are listed, then ended one by one with a status taken from the list.
WinnerDrops(h) ==
    LET listed == {i \in Inferences : /\ inference[i].status # "none"
                                      /\ ~inference[i].finished}
    IN
    /\ handler[h] = Idle
    /\ drops < MaxDrops
    /\ drops' = drops + 1
    /\ listed # {}
    /\ suspend(h, [Idle EXCEPT !.at = "next", !.todo =
          {[i |-> i, status |-> IF inference[i].deducted THEN "aborted"
                                ELSE "cancelled"] : i \in listed}])
    /\ UNCHANGED <<rows, asked, fulfilling, reserves, world, deductions>>

AbortNext(h) ==
    /\ handler[h].at = "next"
    /\ \E t \in handler[h].todo :
          readCall(h, t.i, t.status, handler[h].todo \ {t})
    /\ UNCHANGED <<rows, client, world, deductions>>

\* A heartbeat, a hydrate, a listing or a settlement ticks the grant.
TickRead(h) ==
    /\ handler[h] = Idle
    /\ suspend(h, [Idle EXCEPT !.at = "tick_save", !.row = grant])
    /\ UNCHANGED <<rows, client, world, deductions>>

TickSave(h) ==
    /\ handler[h].at = "tick_save"
    /\ grant' = IF handler[h].row.status = "active"
                THEN tickGrantOnline(handler[h].row) ELSE grant
    /\ done(h)
    /\ UNCHANGED <<inference, client, world, deductions>>

------------------------------------------------------------------------------
(* The world around the handlers.                                          *)

OwnerConnects ==
    /\ ~ownerOnline
    /\ ownerOnline' = TRUE
    /\ UNCHANGED <<rows, handler, client, now, onlineTime, deductions>>

OwnerDisconnects ==
    /\ ownerOnline
    /\ ownerOnline' = FALSE
    /\ UNCHANGED <<rows, handler, client, now, onlineTime, deductions>>

TimePasses ==
    /\ now < MaxTime
    /\ now' = now + 1
    /\ onlineTime' = IF ownerOnline THEN onlineTime + 1 ELSE onlineTime
    /\ UNCHANGED <<rows, handler, client, ownerOnline, deductions>>

\* The server stops between two awaits of its handlers and starts again.
ServerCrash ==
    /\ drops < MaxDrops
    /\ drops' = drops + 1
    /\ handler' = [h \in Handlers |-> Idle]
    /\ ownerOnline' = FALSE
    /\ UNCHANGED <<rows, asked, fulfilling, reserves, now, onlineTime,
                   deductions>>

HandlerStep(h) ==
    \/ ReserveInsert(h) \/ PreflightWrite(h) \/ Start(h)
    \/ TerminalReadGrant(h) \/ TerminalWriteInference(h)
    \/ TerminalSaveGrant(h) \/ AbortNext(h) \/ TickSave(h)

FrameArrives(h) ==
    \/ \E i \in Inferences : \/ ReserveRead(h, i) \/ PreflightRead(h, i)
                             \/ WinnerCancels(h, i) \/ OwnerEnds(h, i)
    \/ WinnerDrops(h)
    \/ TickRead(h)

Next ==
    \/ \E h \in Handlers : FrameArrives(h) \/ HandlerStep(h)
    \/ \E i \in Inferences : OwnerEndsUnheard(i)
    \/ OwnerConnects \/ OwnerDisconnects \/ TimePasses \/ ServerCrash

Spec == Init /\ [][Next]_vars

------------------------------------------------------------------------------
(* Properties.                                                             *)

HandlerState == [at : At, i : Inferences \cup {NoInference}, status : CallStatus,
                 inf : InferenceRow, row : GrantRow,
                 todo : SUBSET [i : Inferences, status : CallStatus]]

\* Every row and every copy a handler holds is well formed: no counter of a
\* grant leaves its range, in whatever order handlers write it.
TypeOK ==
    /\ grant \in GrantRow
    /\ inference \in [Inferences -> InferenceRow]
    /\ handler \in [Handlers -> HandlerState]
    /\ asked \in [Inferences -> Nat]
    /\ fulfilling \in [Inferences -> Nat]
    /\ reserves \in [Inferences -> Nat]
    /\ drops \in Nat
    /\ ownerOnline \in BOOLEAN
    /\ now \in Nat
    /\ onlineTime \in Nat
    /\ deductions \in [Inferences -> Nat]

Consistent(row) ==
    /\ row.status = "active" <=> row.callsRemaining > 0 /\ row.onlineMsRemaining > 0
    /\ row.statusReason = "active" <=> row.status = "active"
    /\ row.statusReason = "calls_exhausted" => row.callsRemaining = 0
    /\ row.statusReason = "ttl_exhausted" => row.onlineMsRemaining = 0

\* However handlers overlap, the grant row never contradicts itself: it is
\* active exactly while it has calls and online time left, and its reason
\* names what ran out (saveGrant, deductIfStarted, tickGrantOnline).
RowConsistent == Consistent(grant)

Charged == {i \in Inferences : inference[i].deducted}
Open == {i \in Charged : ~inference[i].finished}

\* One frame at a time: what is left of the grant and the calls that carry
\* the deducted mark always add up, across cancels, aborts, crashes and
\* replayed reserves (relay.ts, deductIfStarted).
CallsAccounted == grant.callsRemaining + Cardinality(Charged) = MaxCalls

\* One frame at a time, calls and row agree: the calls add up, and the row
\* stops the grant exactly when the calls or the time are used up.
GrantAddsUp == CallsAccounted /\ RowConsistent

Ledger == INSTANCE GrantLedger WITH calls <- grant.callsRemaining,
                                    charged <- Charged, open <- Open

\* One frame at a time, the relay implements the grant's promise: a call is
\* charged at most once, when none is in progress, and stays charged.
RefinesLedger == Ledger!LedgerSpec

\* README.md:53, "10 calls": no more calls are ever started than the grant
\* is worth.  Refuted when handlers overlap: a saveGrant from a copy gives
\* back a call that deductIfStarted took after the copy was read.
CallBudget == SumFunctionOnSet(deductions, Inferences) <= MaxCalls

\* ACCEPTANCE.md:17, "reserve replay does not deduct twice": refuted when
\* handlers overlap.  Preflight and terminal write the whole inference back
\* from a copy, which takes the deducted mark back if the call was started
\* after the copy was read; it may then be started, and charged, again.
ChargedOnce == \A i \in Inferences : deductions[i] <= 1

\* README.md:58, "the clock pauses while the owner is offline": a grant never
\* pays for more time than its owner was online.  Refuted with one frame at
\* a time: a tick charges all the time since the last tick that saw the
\* owner online, and nothing ticks the grant when the owner disconnects.
TtlPausesOffline == Ttl - grant.onlineMsRemaining <= onlineTime
=============================================================================
