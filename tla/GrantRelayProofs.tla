-------------------------- MODULE GrantRelayProofs --------------------------
(***************************************************************************)
(* Proofs about GrantRelay for every set of inferences and handlers and    *)
(* every size of the grant.  Type correctness and the consistency of the   *)
(* row hold however handlers overlap; the accounts and the refinement of   *)
(* GrantLedger hold when they do not (Serial).                             *)
(***************************************************************************)
EXTENDS GrantRelay, FiniteSetTheorems, TLAPS

\* One frame at a time: the server has a single handler.
Serial == \A h1, h2 \in Handlers : h1 = h2

------------------------------------------------------------------------------
(* The operators on rows.                                                  *)

\* A started call takes one call and the slot, and exhausts the last call.
LEMMA DeductedRow ==
    ASSUME NEW row \in GrantRow, mayDeduct(row), NEW r, r = deducted(row)
    PROVE  /\ r \in GrantRow
           /\ r.callsRemaining = row.callsRemaining - 1
           /\ row.activeConcurrency = 0
           /\ r.activeConcurrency = 1
           /\ Consistent(row) => Consistent(r)
<1>1. /\ row.callsRemaining \in 1..MaxCalls
      /\ row.activeConcurrency = 0
  BY CallsAssumption DEF mayDeduct, GrantRow
<1> DEFINE left == row.callsRemaining - 1
           slot == row.activeConcurrency + 1
<1>2. left \in 0..MaxCalls /\ slot \in 0..1 /\ slot = 1
  BY <1>1, CallsAssumption
<1>3. r = [row EXCEPT
              !.callsRemaining = left,
              !.activeConcurrency = slot,
              !.status = IF left = 0 THEN "exhausted" ELSE @,
              !.statusReason = IF left = 0 THEN "calls_exhausted" ELSE @]
  BY <1>1 DEF deducted, GrantRow
<1>4. /\ r \in GrantRow
      /\ r.callsRemaining = left
      /\ r.activeConcurrency = 1
      /\ r.onlineMsRemaining = row.onlineMsRemaining
      /\ r.status = IF left = 0 THEN "exhausted" ELSE row.status
      /\ r.statusReason = IF left = 0 THEN "calls_exhausted"
                          ELSE row.statusReason
  <2> HIDE DEF left, slot
  <2>1. r \in GrantRow
    BY <1>2, <1>3 DEF GrantRow
  <2> QED BY <2>1, <1>2, <1>3 DEF GrantRow
<1>5. Consistent(row) => Consistent(r)
  BY <1>1, <1>4, TtlAssumption DEF Consistent, GrantRow
<1> QED BY <1>1, <1>4, <1>5

\* A terminal frees at most the slot.
LEMMA ReleasedRow ==
    ASSUME NEW row \in GrantRow, NEW call \in InferenceRow,
           NEW r, r = released(row, call)
    PROVE  /\ r \in GrantRow
           /\ r.callsRemaining = row.callsRemaining
           /\ ~call.deducted => r = row
           /\ Consistent(row) => Consistent(r)
<1>1. r \in GrantRow
  BY DEF released, GrantRow
<1>2. /\ r.callsRemaining = row.callsRemaining
      /\ r.onlineMsRemaining = row.onlineMsRemaining
      /\ r.status = row.status
      /\ r.statusReason = row.statusReason
  BY DEF released, GrantRow
<1>3. ~call.deducted => r = row
  BY DEF released, GrantRow
<1> QED BY <1>1, <1>2, <1>3 DEF Consistent

\* A tick spends time and touches neither the calls nor the slot.
LEMMA TickedRow ==
    ASSUME TypeOK, NEW row \in GrantRow, row.status = "active",
           NEW r, r = tickGrantOnline(row)
    PROVE  /\ r \in GrantRow
           /\ r.callsRemaining = row.callsRemaining
           /\ r.activeConcurrency = row.activeConcurrency
           /\ Consistent(row) => Consistent(r)
<1> DEFINE spent == IF row.lastOnlineTickAt = NoTime THEN 0
                    ELSE Positive(now - row.lastOnlineTickAt)
           left == Positive(row.onlineMsRemaining - spent)
<1>1. now \in Nat /\ ownerOnline \in BOOLEAN
  BY DEF TypeOK
<1>2. spent \in Nat
  BY <1>1 DEF GrantRow, Positive
<1>3. left \in 0..Ttl
  BY <1>2, TtlAssumption DEF GrantRow, Positive
<1>4. CASE ownerOnline
  <2> HIDE DEF left
  <2>1. r = [row EXCEPT
                !.onlineMsRemaining = left,
                !.lastOnlineTickAt = now,
                !.ownerOnline = TRUE,
                !.status = IF left = 0 THEN "exhausted" ELSE @,
                !.statusReason = IF left = 0 THEN "ttl_exhausted" ELSE @]
    BY <1>4 DEF tickGrantOnline, left
  <2>2. r \in GrantRow
    BY <1>1, <1>3, <2>1 DEF GrantRow
  <2>3. /\ r.callsRemaining = row.callsRemaining
        /\ r.activeConcurrency = row.activeConcurrency
        /\ r.onlineMsRemaining = left
        /\ r.status = IF left = 0 THEN "exhausted" ELSE row.status
        /\ r.statusReason = IF left = 0 THEN "ttl_exhausted"
                            ELSE row.statusReason
    BY <2>1 DEF GrantRow
  <2>4. Consistent(row) => Consistent(r)
    BY <1>3, <2>3 DEF Consistent, GrantRow
  <2> QED BY <2>2, <2>3, <2>4
<1>5. CASE ~ownerOnline
  <2>1. r = [row EXCEPT !.ownerOnline = FALSE, !.lastOnlineTickAt = NoTime]
    BY <1>5 DEF tickGrantOnline
  <2> QED BY <2>1 DEF GrantRow, Consistent
<1> QED BY <1>4, <1>5

\* The end of a call keeps its deducted mark.
LEMMA EndedCall ==
    ASSUME NEW call \in InferenceRow, NEW status \in CallStatus,
           NEW c, c = ended(call, status)
    PROVE  c \in InferenceRow /\ c.deducted = call.deducted /\ c.finished
BY DEF ended, InferenceRow

LEMMA InitialRows ==
    /\ FreshGrant \in GrantRow /\ Consistent(FreshGrant)
    /\ NoCall \in InferenceRow
    /\ Idle \in HandlerState
    /\ Idle.row = FreshGrant /\ Idle.at = "idle" /\ Idle.todo = {}
<1>1. FreshGrant \in GrantRow /\ Consistent(FreshGrant)
  BY CallsAssumption, TtlAssumption DEF FreshGrant, GrantRow, Consistent
<1>2. NoCall \in InferenceRow
  BY DEF NoCall, InferenceRow, CallStatus
<1>3. Idle \in HandlerState
  BY <1>1, <1>2 DEF Idle, HandlerState, At, CallStatus
<1> QED BY <1>1, <1>2, <1>3 DEF Idle

\* Where a finished handler goes.
LEMMA DoneState ==
    ASSUME TypeOK, NEW h \in Handlers, done(h)
    PROVE  /\ handler' \in [Handlers -> HandlerState]
           /\ handler'[h].row = FreshGrant
           /\ handler'[h].at \in {"idle", "next"}
           /\ \A g \in Handlers : g # h => handler'[g] = handler[g]
<1> DEFINE n == IF handler[h].todo = {} THEN Idle
                ELSE [Idle EXCEPT !.at = "next", !.todo = handler[h].todo]
<1>1. handler \in [Handlers -> HandlerState] /\ handler[h] \in HandlerState
  BY DEF TypeOK
<1>2. /\ n \in HandlerState
      /\ n.row = FreshGrant
      /\ n.at \in {"idle", "next"}
  BY <1>1, InitialRows DEF Idle, HandlerState, At
<1>3. handler' = [handler EXCEPT ![h] = n]
  BY DEF done, suspend
<1> HIDE DEF n
<1> QED BY <1>1, <1>2, <1>3

\* Where a suspended handler waits.
LEMMA SuspendedState ==
    ASSUME TypeOK, NEW h \in Handlers, NEW n \in HandlerState, suspend(h, n)
    PROVE  /\ handler' \in [Handlers -> HandlerState]
           /\ handler'[h] = n
           /\ \A g \in Handlers : g # h => handler'[g] = handler[g]
BY DEF suspend, TypeOK

------------------------------------------------------------------------------
(* Type correctness.                                                       *)

\* A handler past its first await works on an inference.
HasCall ==
    \A h \in Handlers :
        handler[h].at \notin {"idle", "next", "tick_save"}
            => handler[h].i \in Inferences

Typed == TypeOK /\ HasCall

\* A finished handler leaves HasCall as it was.
LEMMA DoneTyped ==
    ASSUME Typed, NEW h \in Handlers, done(h)
    PROVE  handler' \in [Handlers -> HandlerState] /\ HasCall'
BY DoneState DEF Typed, HasCall

LEMMA SuspendedTyped ==
    ASSUME Typed, NEW h \in Handlers, NEW n \in HandlerState, suspend(h, n),
           n.at \notin {"idle", "next", "tick_save"} => n.i \in Inferences
    PROVE  handler' \in [Handlers -> HandlerState] /\ HasCall'
BY SuspendedState DEF Typed, HasCall

\* The first read of a terminal, from whatever handler makes it.
LEMMA ReadCallTyped ==
    ASSUME Typed, NEW h \in Handlers, NEW i \in Inferences,
           NEW status \in CallStatus,
           NEW todo \in SUBSET [i : Inferences, status : CallStatus],
           readCall(h, i, status, todo)
    PROVE  handler' \in [Handlers -> HandlerState] /\ HasCall'
<1> DEFINE n == [Idle EXCEPT !.at = "terminal_grant", !.i = i,
                             !.status = status, !.inf = inference[i],
                             !.todo = todo]
<1>1. inference[i] \in InferenceRow
  BY DEF Typed, TypeOK
<1>2. n \in HandlerState /\ n.i \in Inferences
  BY <1>1, InitialRows DEF HandlerState, At
<1>3. suspend(h, n)
  BY DEF readCall
<1> HIDE DEF n
<1> QED BY <1>2, <1>3, SuspendedTyped

LEMMA TypedInit == Init => Typed
BY InitialRows DEF Init, Typed, TypeOK, HasCall

LEMMA TypedStep == Typed /\ [Next]_vars => Typed'
<1> SUFFICES ASSUME Typed, [Next]_vars PROVE Typed'
  OBVIOUS
<1> USE DEF rows, client, world
<1>t. TypeOK
  BY DEF Typed
<1>0. \A h \in Handlers : handler[h] \in HandlerState
  BY <1>t DEF TypeOK
<1>1. ASSUME NEW h \in Handlers, NEW i \in Inferences, ReserveRead(h, i)
      PROVE  Typed'
  <2> DEFINE n == [Idle EXCEPT !.at = "insert", !.i = i]
  <2>1. n \in HandlerState /\ n.i \in Inferences
    BY InitialRows DEF HandlerState, At
  <2>2. suspend(h, n)
    BY <1>1 DEF ReserveRead
  <2> HIDE DEF n
  <2>3. handler' \in [Handlers -> HandlerState] /\ HasCall'
    BY <2>1, <2>2, SuspendedTyped
  <2> QED BY <1>1, <1>t, <2>3 DEF ReserveRead, Typed, TypeOK
<1>2. ASSUME NEW h \in Handlers, ReserveInsert(h)
      PROVE  Typed'
  <2>1. handler[h].i \in Inferences
    BY <1>2 DEF ReserveInsert, Typed, HasCall
  <2>2. handler' \in [Handlers -> HandlerState] /\ HasCall'
    BY <1>2, DoneTyped DEF ReserveInsert
  <2>3. inference' \in [Inferences -> InferenceRow]
    BY <1>2, <1>t, <2>1 DEF ReserveInsert, TypeOK, InferenceRow, CallStatus
  <2>4. asked' \in [Inferences -> Nat]
    BY <1>2, <1>t, <2>1 DEF ReserveInsert, TypeOK
  <2> QED BY <1>2, <1>t, <2>2, <2>3, <2>4 DEF ReserveInsert, Typed, TypeOK
<1>3. ASSUME NEW h \in Handlers, NEW i \in Inferences, PreflightRead(h, i)
      PROVE  Typed'
  <2> DEFINE at == IF inference[i].status = "started" \/ inference[i].deducted
                   THEN "start" ELSE "preflight"
             n == [Idle EXCEPT !.at = at, !.i = i, !.inf = inference[i]]
  <2>1. inference[i] \in InferenceRow /\ at \in At
    BY <1>t DEF TypeOK, At
  <2>2. suspend(h, n)
    BY <1>3 DEF PreflightRead
  <2>3. n \in HandlerState /\ n.i \in Inferences
    <3> HIDE DEF at
    <3> QED BY <2>1, InitialRows DEF HandlerState
  <2> HIDE DEF n
  <2>4. handler' \in [Handlers -> HandlerState] /\ HasCall'
    BY <2>2, <2>3, SuspendedTyped
  <2>5. asked' \in [Inferences -> Nat] /\ fulfilling' \in [Inferences -> Nat]
    BY <1>3, <1>t DEF PreflightRead, TypeOK
  <2> QED BY <1>3, <1>t, <2>4, <2>5 DEF PreflightRead, Typed, TypeOK
<1>4. ASSUME NEW h \in Handlers, PreflightWrite(h)
      PROVE  Typed'
  <2> DEFINE n == [handler[h] EXCEPT !.at = "start"]
             c == [handler[h].inf EXCEPT !.status = "preflight"]
  <2>1. handler[h].i \in Inferences
    BY <1>4 DEF PreflightWrite, Typed, HasCall
  <2>2. n \in HandlerState /\ n.i \in Inferences
    BY <1>0, <2>1 DEF HandlerState, At
  <2>3. c \in InferenceRow
    BY <1>0 DEF HandlerState, InferenceRow, CallStatus
  <2>4. suspend(h, n) /\ inference' = [inference EXCEPT ![handler[h].i] = c]
    BY <1>4 DEF PreflightWrite
  <2> HIDE DEF n, c
  <2>5. handler' \in [Handlers -> HandlerState] /\ HasCall'
    BY <2>2, <2>4, SuspendedTyped
  <2>6. inference' \in [Inferences -> InferenceRow]
    BY <1>t, <2>3, <2>4 DEF TypeOK
  <2> QED BY <1>4, <1>t, <2>5, <2>6 DEF PreflightWrite, Typed, TypeOK
<1>5. ASSUME NEW h \in Handlers, Start(h)
      PROVE  Typed'
  <2>1. handler[h].i \in Inferences
    BY <1>5 DEF Start, Typed, HasCall
  <2>2. handler' \in [Handlers -> HandlerState] /\ HasCall'
    BY <1>5, DoneTyped DEF Start
  <2>3. grant' \in GrantRow
    <3>1. CASE mayDeduct(grant) /\ grant' = deducted(grant)
      BY <3>1, <1>t, DeductedRow DEF TypeOK
    <3>2. CASE UNCHANGED grant
      BY <3>2, <1>t DEF TypeOK
    <3> QED BY <1>5, <3>1, <3>2 DEF Start
  <2> DEFINE c == [inference[handler[h].i] EXCEPT !.deducted = TRUE,
                                                  !.status = "started"]
  <2>4. inference' \in [Inferences -> InferenceRow]
    <3>1. c \in InferenceRow
      BY <1>t, <2>1 DEF TypeOK, InferenceRow, CallStatus
    <3>2. \/ inference' = [inference EXCEPT ![handler[h].i] = c]
          \/ UNCHANGED inference
      BY <1>5, <1>t, <2>1 DEF Start, TypeOK
    <3> HIDE DEF c
    <3> QED BY <1>t, <3>1, <3>2 DEF TypeOK
  <2>5. deductions' \in [Inferences -> Nat]
    BY <1>5, <1>t, <2>1 DEF Start, TypeOK
  <2> QED BY <1>5, <1>t, <2>2, <2>3, <2>4, <2>5 DEF Start, Typed, TypeOK
<1>6. ASSUME NEW h \in Handlers, NEW i \in Inferences, WinnerCancels(h, i)
      PROVE  Typed'
  <2>1. handler' \in [Handlers -> HandlerState] /\ HasCall'
    BY <1>6, ReadCallTyped DEF WinnerCancels, CallStatus, Ended
  <2> QED BY <1>6, <1>t, <2>1 DEF WinnerCancels, Typed, TypeOK
<1>7. ASSUME NEW h \in Handlers, NEW i \in Inferences, OwnerEnds(h, i)
      PROVE  Typed'
  <2>1. handler' \in [Handlers -> HandlerState] /\ HasCall'
    BY <1>7, ReadCallTyped DEF OwnerEnds, CallStatus, Ended
  <2>2. fulfilling' \in [Inferences -> Nat]
    BY <1>7, <1>t DEF OwnerEnds, TypeOK
  <2> QED BY <1>7, <1>t, <2>1, <2>2 DEF OwnerEnds, Typed, TypeOK
<1>8. ASSUME NEW i \in Inferences, OwnerEndsUnheard(i)
      PROVE  Typed'
  <2>1. fulfilling' \in [Inferences -> Nat]
    BY <1>8, <1>t DEF OwnerEndsUnheard, TypeOK
  <2> QED BY <1>8, <1>t, <2>1 DEF OwnerEndsUnheard, Typed, TypeOK, HasCall
<1>9. ASSUME NEW h \in Handlers, TerminalReadGrant(h)
      PROVE  Typed'
  <2> DEFINE n == [handler[h] EXCEPT !.at = "terminal_inference", !.row = grant]
  <2>1. handler[h].i \in Inferences
    BY <1>9 DEF TerminalReadGrant, Typed, HasCall
  <2>2. grant \in GrantRow
    BY <1>t DEF TypeOK
  <2>3. n \in HandlerState /\ n.i \in Inferences
    BY <1>0, <2>1, <2>2 DEF HandlerState, At
  <2>4. done(h) \/ suspend(h, n)
    BY <1>9 DEF TerminalReadGrant
  <2> HIDE DEF n
  <2>5. handler' \in [Handlers -> HandlerState] /\ HasCall'
    BY <2>3, <2>4, DoneTyped, SuspendedTyped
  <2> QED BY <1>9, <1>t, <2>5 DEF TerminalReadGrant, Typed, TypeOK
<1>10. ASSUME NEW h \in Handlers, TerminalWriteInference(h)
       PROVE  Typed'
  <2> DEFINE n == [handler[h] EXCEPT !.at = "terminal_save"]
             c == ended(handler[h].inf, handler[h].status)
  <2>1. handler[h].i \in Inferences
    BY <1>10 DEF TerminalWriteInference, Typed, HasCall
  <2>2. n \in HandlerState /\ n.i \in Inferences
    BY <1>0, <2>1 DEF HandlerState, At
  <2>3. c \in InferenceRow
    BY <1>0, EndedCall DEF HandlerState
  <2>4. suspend(h, n) /\ inference' = [inference EXCEPT ![handler[h].i] = c]
    BY <1>10 DEF TerminalWriteInference
  <2> HIDE DEF n, c
  <2>5. handler' \in [Handlers -> HandlerState] /\ HasCall'
    BY <2>2, <2>4, SuspendedTyped
  <2>6. inference' \in [Inferences -> InferenceRow]
    BY <1>t, <2>3, <2>4 DEF TypeOK
  <2> QED BY <1>10, <1>t, <2>5, <2>6 DEF TerminalWriteInference, Typed, TypeOK
<1>11. ASSUME NEW h \in Handlers, TerminalSaveGrant(h)
       PROVE  Typed'
  <2>1. handler' \in [Handlers -> HandlerState] /\ HasCall'
    BY <1>11, DoneTyped DEF TerminalSaveGrant
  <2>2. handler[h].row \in GrantRow /\ handler[h].inf \in InferenceRow
    BY <1>0 DEF HandlerState
  <2>3. grant' \in GrantRow
    BY <1>11, <2>2, ReleasedRow DEF TerminalSaveGrant
  <2> QED BY <1>11, <1>t, <2>1, <2>3 DEF TerminalSaveGrant, Typed, TypeOK
<1>12. ASSUME NEW h \in Handlers, WinnerDrops(h)
       PROVE  Typed'
  <2>1. PICK listed \in SUBSET Inferences :
          suspend(h, [Idle EXCEPT !.at = "next", !.todo =
            {[i |-> i, status |-> IF inference[i].deducted THEN "aborted"
                                  ELSE "cancelled"] : i \in listed}])
    BY <1>12 DEF WinnerDrops
  <2> DEFINE todo == {[i |-> i, status |-> IF inference[i].deducted
                                           THEN "aborted" ELSE "cancelled"]
                        : i \in listed}
             n == [Idle EXCEPT !.at = "next", !.todo = todo]
  <2>2. todo \in SUBSET [i : Inferences, status : CallStatus]
    BY DEF CallStatus, Ended
  <2>3. suspend(h, n)
    BY <2>1
  <2>4. n \in HandlerState /\ n.at = "next"
    <3> HIDE DEF todo
    <3> QED BY <2>2, InitialRows DEF HandlerState, At
  <2> HIDE DEF n
  <2>5. handler' \in [Handlers -> HandlerState] /\ HasCall'
    BY <2>3, <2>4, SuspendedTyped
  <2> QED BY <1>12, <1>t, <2>5 DEF WinnerDrops, Typed, TypeOK
<1>13. ASSUME NEW h \in Handlers, AbortNext(h)
       PROVE  Typed'
  <2>1. PICK t \in handler[h].todo :
          readCall(h, t.i, t.status, handler[h].todo \ {t})
    BY <1>13 DEF AbortNext
  <2>2. /\ t.i \in Inferences /\ t.status \in CallStatus
        /\ handler[h].todo \ {t} \in SUBSET [i : Inferences, status : CallStatus]
    BY <1>0 DEF HandlerState
  <2>3. handler' \in [Handlers -> HandlerState] /\ HasCall'
    BY <2>1, <2>2, ReadCallTyped
  <2> QED BY <1>13, <1>t, <2>3 DEF AbortNext, Typed, TypeOK
<1>14. ASSUME NEW h \in Handlers, TickRead(h)
       PROVE  Typed'
  <2> DEFINE n == [Idle EXCEPT !.at = "tick_save", !.row = grant]
  <2>1. grant \in GrantRow
    BY <1>t DEF TypeOK
  <2>2. n \in HandlerState /\ n.at = "tick_save"
    BY <2>1, InitialRows DEF HandlerState, At
  <2>3. suspend(h, n)
    BY <1>14 DEF TickRead
  <2> HIDE DEF n
  <2>4. handler' \in [Handlers -> HandlerState] /\ HasCall'
    BY <2>2, <2>3, SuspendedTyped
  <2> QED BY <1>14, <1>t, <2>4 DEF TickRead, Typed, TypeOK
<1>15. ASSUME NEW h \in Handlers, TickSave(h)
       PROVE  Typed'
  <2>1. handler' \in [Handlers -> HandlerState] /\ HasCall'
    BY <1>15, DoneTyped DEF TickSave
  <2>2. handler[h].row \in GrantRow /\ grant \in GrantRow
    BY <1>0, <1>t DEF HandlerState, TypeOK
  <2>3. grant' \in GrantRow
    BY <1>15, <1>t, <2>2, TickedRow DEF TickSave
  <2> QED BY <1>15, <1>t, <2>1, <2>3 DEF TickSave, Typed, TypeOK
<1>16. CASE OwnerConnects \/ OwnerDisconnects \/ TimePasses
  <2>1. HasCall'
    BY <1>16 DEF OwnerConnects, OwnerDisconnects, TimePasses, Typed, HasCall
  <2>2. /\ now' \in Nat
        /\ onlineTime' \in Nat
        /\ ownerOnline' \in BOOLEAN
    <3>1. CASE OwnerConnects
      BY <3>1, <1>t, Zenon DEF OwnerConnects, TypeOK
    <3>2. CASE OwnerDisconnects
      BY <3>2, <1>t, Zenon DEF OwnerDisconnects, TypeOK
    <3>3. CASE TimePasses
      <4>1. now' \in Nat /\ onlineTime' \in Nat
        BY <3>3, <1>t DEF TimePasses, TypeOK
      <4>2. ownerOnline' \in BOOLEAN
        BY <3>3, <1>t, Zenon DEF TimePasses, TypeOK
      <4> QED BY <4>1, <4>2
    <3> QED BY <1>16, <3>1, <3>2, <3>3
  <2>3. UNCHANGED <<rows, handler, client, deductions>>
    BY <1>16 DEF OwnerConnects, OwnerDisconnects, TimePasses
  <2>4. TypeOK'
    BY <1>t, <2>2, <2>3 DEF TypeOK
  <2> QED BY <2>1, <2>4 DEF Typed
<1>17. CASE ServerCrash
  <2>1. handler' \in [Handlers -> HandlerState] /\ HasCall'
    BY <1>17, InitialRows DEF ServerCrash, HasCall
  <2>2. /\ drops' \in Nat
        /\ ownerOnline' \in BOOLEAN
    <3>1. drops' \in Nat
      BY <1>17, <1>t DEF ServerCrash, TypeOK
    <3>2. ownerOnline' = FALSE
      BY <1>17 DEF ServerCrash
    <3> QED BY <3>1, <3>2, Zenon
  <2>3. TypeOK'
    BY <1>17, <1>t, <2>1, <2>2 DEF ServerCrash, TypeOK
  <2> QED BY <2>1, <2>3 DEF Typed
<1>18. CASE UNCHANGED vars
  BY <1>18, <1>t DEF vars, Typed, TypeOK, HasCall
<1> QED
  BY <1>1, <1>2, <1>3, <1>4, <1>5, <1>6, <1>7, <1>8, <1>9, <1>10, <1>11,
     <1>12, <1>13, <1>14, <1>15, <1>16, <1>17, <1>18
     DEF Next, FrameArrives, HandlerStep

\* Every row and copy stays well formed, however handlers overlap.
THEOREM TypeCorrect == Spec => []TypeOK
<1>1. Spec => []Typed
  BY TypedInit, TypedStep, PTL DEF Spec
<1>2. Typed => TypeOK
  BY DEF Typed
<1> QED BY <1>1, <1>2, PTL

------------------------------------------------------------------------------
(* The row of the grant, however handlers overlap.                         *)

RowInv ==
    /\ Typed
    /\ Consistent(grant)
    /\ \A h \in Handlers : Consistent(handler[h].row)

\* A handler holds the row it held, a fresh copy of it, or none.
LEMMA RowsCopied ==
    ASSUME Typed, [Next]_vars, NEW g \in Handlers
    PROVE  handler'[g].row \in {handler[g].row, FreshGrant, grant}
<1>t. TypeOK /\ handler \in [Handlers -> HandlerState]
  BY DEF Typed, TypeOK
<1>i. Idle.row = FreshGrant
  BY InitialRows
<1>1. ASSUME NEW h \in Handlers, done(h)
      PROVE  handler'[g].row \in {handler[g].row, FreshGrant, grant}
  BY <1>1, <1>t, DoneState
<1>2. ASSUME NEW h \in Handlers, NEW n, suspend(h, n),
             n.row \in {handler[h].row, FreshGrant, grant}
      PROVE  handler'[g].row \in {handler[g].row, FreshGrant, grant}
  BY <1>2, <1>t DEF suspend
<1>3. ASSUME NEW h \in Handlers, NEW i \in Inferences, ReserveRead(h, i)
      PROVE  handler'[g].row \in {handler[g].row, FreshGrant, grant}
  <2> DEFINE n == [Idle EXCEPT !.at = "insert", !.i = i]
  <2>1. n.row = FreshGrant
    BY DEF Idle
  <2> QED BY <1>2, <1>3, <2>1 DEF ReserveRead
<1>4. ASSUME NEW h \in Handlers, NEW i \in Inferences, PreflightRead(h, i)
      PROVE  handler'[g].row \in {handler[g].row, FreshGrant, grant}
  <2> DEFINE n == [Idle EXCEPT
          !.at = IF inference[i].status = "started" \/ inference[i].deducted
                 THEN "start" ELSE "preflight",
          !.i = i,
          !.inf = inference[i]]
  <2>1. n.row = FreshGrant
    BY DEF Idle
  <2>2. suspend(h, n)
    BY <1>4 DEF PreflightRead
  <2> HIDE DEF n
  <2> QED BY <1>2, <2>1, <2>2
<1>5. ASSUME NEW h \in Handlers, NEW i, NEW status, NEW todo,
             readCall(h, i, status, todo)
      PROVE  handler'[g].row \in {handler[g].row, FreshGrant, grant}
  <2> DEFINE n == [Idle EXCEPT !.at = "terminal_grant", !.i = i,
                               !.status = status, !.inf = inference[i],
                               !.todo = todo]
  <2>1. n.row = FreshGrant
    BY DEF Idle
  <2>2. suspend(h, n)
    BY <1>5 DEF readCall
  <2> HIDE DEF n
  <2> QED BY <1>2, <2>1, <2>2
<1>6. ASSUME NEW h \in Handlers,
             PreflightWrite(h) \/ TerminalWriteInference(h) \/ TerminalReadGrant(h)
      PROVE  handler'[g].row \in {handler[g].row, FreshGrant, grant}
  <2> DEFINE n1 == [handler[h] EXCEPT !.at = "start"]
             n2 == [handler[h] EXCEPT !.at = "terminal_save"]
             n3 == [handler[h] EXCEPT !.at = "terminal_inference", !.row = grant]
  <2>1. n1.row = handler[h].row /\ n2.row = handler[h].row /\ n3.row = grant
    BY <1>t DEF HandlerState
  <2>2. suspend(h, n1) \/ suspend(h, n2) \/ suspend(h, n3) \/ done(h)
    BY <1>6 DEF PreflightWrite, TerminalWriteInference, TerminalReadGrant
  <2> HIDE DEF n1, n2, n3
  <2> QED BY <1>1, <1>2, <2>1, <2>2
<1>7. ASSUME NEW h \in Handlers, WinnerDrops(h)
      PROVE  handler'[g].row \in {handler[g].row, FreshGrant, grant}
  <2>1. PICK todo : suspend(h, [Idle EXCEPT !.at = "next", !.todo = todo])
    BY <1>7 DEF WinnerDrops
  <2> DEFINE n == [Idle EXCEPT !.at = "next", !.todo = todo]
  <2>2. n.row = FreshGrant /\ suspend(h, n)
    BY <2>1 DEF Idle
  <2> HIDE DEF n
  <2> QED BY <1>2, <2>2
<1>8. ASSUME NEW h \in Handlers, TickRead(h)
      PROVE  handler'[g].row \in {handler[g].row, FreshGrant, grant}
  <2> DEFINE n == [Idle EXCEPT !.at = "tick_save", !.row = grant]
  <2>1. n.row = grant /\ suspend(h, n)
    BY <1>8 DEF Idle, TickRead
  <2> HIDE DEF n
  <2> QED BY <1>2, <2>1
<1>9. CASE ServerCrash
  BY <1>9, <1>i DEF ServerCrash
<1>10. CASE UNCHANGED handler
  BY <1>10
<1> QED
  BY <1>1, <1>3, <1>4, <1>5, <1>6, <1>7, <1>8, <1>9, <1>10
     DEF Next, FrameArrives, HandlerStep, vars, world, client, ReserveInsert,
         Start, TerminalSaveGrant, TickSave, WinnerCancels, OwnerEnds,
         AbortNext, OwnerEndsUnheard, OwnerConnects, OwnerDisconnects, TimePasses

\* What a step does to the row of the grant.
LEMMA GrantSteps ==
    ASSUME [Next]_vars
    PROVE  \/ UNCHANGED grant
           \/ mayDeduct(grant) /\ grant' = deducted(grant)
           \/ \E h \in Handlers :
                \/ grant' = released(handler[h].row, handler[h].inf)
                \/ /\ handler[h].row.status = "active"
                   /\ grant' = tickGrantOnline(handler[h].row)
BY DEF Next, FrameArrives, HandlerStep, vars, rows, ReserveRead, ReserveInsert,
       PreflightRead, PreflightWrite, Start, WinnerCancels, OwnerEnds,
       OwnerEndsUnheard, TerminalReadGrant, TerminalWriteInference,
       TerminalSaveGrant, WinnerDrops, AbortNext, TickRead, TickSave,
       OwnerConnects, OwnerDisconnects, TimePasses, ServerCrash

LEMMA RowInvStep == RowInv /\ [Next]_vars => RowInv'
<1> SUFFICES ASSUME RowInv, [Next]_vars PROVE RowInv'
  OBVIOUS
<1>t. Typed /\ TypeOK
  BY DEF RowInv, Typed
<1>0. \A h \in Handlers : handler[h] \in HandlerState
  BY <1>t DEF TypeOK
<1>1. Typed'
  BY <1>t, TypedStep
<1>2. Consistent(grant')
  <2>1. CASE UNCHANGED grant
    BY <2>1 DEF RowInv
  <2>2. CASE mayDeduct(grant) /\ grant' = deducted(grant)
    BY <2>2, <1>t, DeductedRow DEF RowInv, TypeOK
  <2>3. ASSUME NEW h \in Handlers,
               grant' = released(handler[h].row, handler[h].inf)
        PROVE  Consistent(grant')
    <3>1. handler[h].row \in GrantRow /\ handler[h].inf \in InferenceRow
      BY <1>0 DEF HandlerState
    <3> QED BY <2>3, <3>1, ReleasedRow DEF RowInv
  <2>4. ASSUME NEW h \in Handlers, handler[h].row.status = "active",
               grant' = tickGrantOnline(handler[h].row)
        PROVE  Consistent(grant')
    <3>1. handler[h].row \in GrantRow
      BY <1>0 DEF HandlerState
    <3> QED BY <2>4, <3>1, <1>t, TickedRow DEF RowInv
  <2> QED BY <2>1, <2>2, <2>3, <2>4, GrantSteps
<1>3. \A g \in Handlers : Consistent(handler'[g].row)
  BY <1>t, RowsCopied, InitialRows DEF RowInv
<1> QED BY <1>1, <1>2, <1>3 DEF RowInv, Consistent

\* The grant row never contradicts itself, however handlers overlap.
THEOREM RowNeverContradicts == Spec => []RowConsistent
<1>1. Init => RowInv
  BY TypedInit, InitialRows DEF Init, RowInv
<1>2. RowInv => RowConsistent
  BY DEF RowInv, RowConsistent
<1> QED BY <1>1, <1>2, RowInvStep, PTL DEF Spec

------------------------------------------------------------------------------
(* One frame at a time: the accounts and the ledger.                       *)

\* What a lone handler has read is still what the store holds.
Fresh(p) ==
    /\ p.at = "preflight" => p.inf = inference[p.i]
    /\ p.at = "terminal_grant" => p.inf = inference[p.i]
    /\ p.at = "terminal_inference" =>
          p.inf = inference[p.i] /\ p.row = grant /\ ~p.inf.finished
    /\ p.at = "terminal_save" => p.row = grant /\ (p.inf.deducted => Open = {})
    /\ p.at = "tick_save" => p.row = grant

\* The slot is taken as long as a call is in progress, and by one call only.
Slot == \A i, j \in Open : i = j /\ grant.activeConcurrency = 1

Accounts == IsFiniteSet(Charged) /\ CallsAccounted

SerialInv ==
    /\ Typed
    /\ \A h \in Handlers : Fresh(handler[h])
    /\ Slot
    /\ Accounts

\* A step the ledger does not see.
Quiet ==
    /\ grant'.callsRemaining = grant.callsRemaining
    /\ Charged' = Charged
    /\ Open' = Open

LedgerStep == [Ledger!LedgerNext]_(Ledger!ledgerVars)

LEMMA QuietIsAStutter == Quiet => LedgerStep
BY DEF Quiet, LedgerStep, Ledger!ledgerVars

LEMMA QuietAccounts == Accounts /\ Quiet => Accounts'
BY DEF Accounts, Quiet, CallsAccounted

\* The ledger sees only the marks of a row, not its status.
LEMMA SameMarks ==
    ASSUME \A i \in Inferences :
              /\ inference'[i].deducted = inference[i].deducted
              /\ inference'[i].finished = inference[i].finished
    PROVE  Charged' = Charged /\ Open' = Open
BY DEF Charged, Open

\* The handler that runs is the only one.
LEMMA LoneHandler ==
    ASSUME Serial, Typed, NEW h \in Handlers, NEW n, suspend(h, n),
           n = handler'[h] => Fresh(handler[h])'
    PROVE  \A g \in Handlers : Fresh(handler[g])'
<1>1. \A g \in Handlers : g = h
  BY DEF Serial
<1>2. handler'[h] = n
  BY DEF suspend, Typed, TypeOK
<1> QED BY <1>1, <1>2

\* At an await that follows no read, nothing can be stale.
LEMMA DoneFresh ==
    ASSUME Serial, Typed, NEW h \in Handlers, done(h)
    PROVE  \A g \in Handlers : Fresh(handler[g])'
<1>1. handler'[h].at \in {"idle", "next"}
  BY DoneState DEF Typed
<1>2. Fresh(handler[h])'
  BY <1>1 DEF Fresh
<1>3. \A g \in Handlers : g = h
  BY DEF Serial
<1> QED BY <1>2, <1>3

\* The first read of a terminal is fresh.
LEMMA ReadCallFresh ==
    ASSUME Serial, Typed, NEW h \in Handlers, NEW i \in Inferences,
           NEW status, NEW todo, readCall(h, i, status, todo),
           UNCHANGED inference
    PROVE  \A g \in Handlers : Fresh(handler[g])'
<1> DEFINE n == [Idle EXCEPT !.at = "terminal_grant", !.i = i,
                             !.status = status, !.inf = inference[i],
                             !.todo = todo]
<1>1. n.at = "terminal_grant" /\ n.i = i /\ n.inf = inference[i]
  BY DEF Idle
<1>2. suspend(h, n)
  BY DEF readCall
<1> HIDE DEF n
<1>3. n = handler'[h] => Fresh(handler[h])'
  BY <1>1 DEF Fresh
<1> QED BY <1>2, <1>3, LoneHandler

\* A step that leaves both tables alone.
LEMMA RowsUntouched ==
    ASSUME SerialInv, Typed', UNCHANGED rows,
           \A g \in Handlers : Fresh(handler[g])'
    PROVE  SerialInv' /\ LedgerStep
<1>1. Quiet
  BY DEF Quiet, rows, Charged, Open
<1>2. Slot'
  BY <1>1 DEF SerialInv, Slot, Quiet, rows
<1> QED BY <1>1, <1>2, QuietIsAStutter, QuietAccounts DEF SerialInv

LEMMA SerialStep ==
    ASSUME Serial, SerialInv, [Next]_vars
    PROVE  SerialInv' /\ LedgerStep
<1> USE DEF rows, client, world
<1>t. Typed /\ TypeOK /\ Typed'
  BY TypedStep DEF SerialInv, Typed
<1>0. \A h \in Handlers : handler[h] \in HandlerState /\ Fresh(handler[h])
  BY <1>t DEF TypeOK, SerialInv
<1>g. grant \in GrantRow /\ inference \in [Inferences -> InferenceRow]
  BY <1>t DEF TypeOK
<1>1. ASSUME NEW h \in Handlers, NEW i \in Inferences, ReserveRead(h, i)
      PROVE  SerialInv' /\ LedgerStep
  <2> DEFINE n == [Idle EXCEPT !.at = "insert", !.i = i]
  <2>1. n.at = "insert" /\ suspend(h, n)
    BY <1>1 DEF Idle, ReserveRead
  <2> HIDE DEF n
  <2>2. \A g \in Handlers : Fresh(handler[g])'
    BY <1>t, <2>1, LoneHandler DEF Fresh
  <2> QED BY <1>1, <1>t, <2>2, RowsUntouched DEF ReserveRead
<1>2. ASSUME NEW h \in Handlers, ReserveInsert(h)
      PROVE  SerialInv' /\ LedgerStep
  <2>1. \A g \in Handlers : Fresh(handler[g])'
    BY <1>2, <1>t, DoneFresh DEF ReserveInsert
  <2>2. handler[h].i \in Inferences
    BY <1>2, <1>t DEF ReserveInsert, Typed, HasCall
  <2>3. Charged' = Charged /\ Open' = Open
    BY <1>2, <1>g, <2>2, SameMarks DEF ReserveInsert, InferenceRow
  <2>4. Quiet /\ Slot'
    BY <1>2, <2>3 DEF ReserveInsert, Quiet, SerialInv, Slot
  <2> QED BY <1>t, <2>1, <2>4, QuietIsAStutter, QuietAccounts DEF SerialInv
<1>3. ASSUME NEW h \in Handlers, NEW i \in Inferences, PreflightRead(h, i)
      PROVE  SerialInv' /\ LedgerStep
  <2> DEFINE at == IF inference[i].status = "started" \/ inference[i].deducted
                   THEN "start" ELSE "preflight"
             n == [Idle EXCEPT !.at = at, !.i = i, !.inf = inference[i]]
  <2>1. /\ n.at \in {"start", "preflight"}
        /\ n.i = i /\ n.inf = inference[i]
    BY DEF Idle
  <2>2. suspend(h, n)
    BY <1>3 DEF PreflightRead
  <2> HIDE DEF n
  <2>3. n = handler'[h] => Fresh(handler[h])'
    BY <1>3, <2>1 DEF Fresh, PreflightRead
  <2>4. \A g \in Handlers : Fresh(handler[g])'
    BY <1>t, <2>2, <2>3, LoneHandler
  <2> QED BY <1>3, <1>t, <2>4, RowsUntouched DEF PreflightRead
<1>4. ASSUME NEW h \in Handlers, PreflightWrite(h)
      PROVE  SerialInv' /\ LedgerStep
  <2> DEFINE n == [handler[h] EXCEPT !.at = "start"]
  <2>1. n.at = "start" /\ suspend(h, n)
    BY <1>4, <1>0 DEF HandlerState, PreflightWrite
  <2> HIDE DEF n
  <2>2. \A g \in Handlers : Fresh(handler[g])'
    BY <1>t, <2>1, LoneHandler DEF Fresh
  <2>3. handler[h].i \in Inferences
    BY <1>4, <1>t DEF PreflightWrite, Typed, HasCall
  <2>4. handler[h].inf = inference[handler[h].i]
    BY <1>4, <1>0 DEF PreflightWrite, Fresh
  <2>5. Charged' = Charged /\ Open' = Open
    BY <1>4, <1>g, <2>3, <2>4, SameMarks DEF PreflightWrite, InferenceRow
  <2>6. Quiet /\ Slot'
    BY <1>4, <2>5 DEF PreflightWrite, Quiet, SerialInv, Slot
  <2> QED BY <1>t, <2>2, <2>6, QuietIsAStutter, QuietAccounts DEF SerialInv
<1>5. ASSUME NEW h \in Handlers, Start(h)
      PROVE  SerialInv' /\ LedgerStep
  <2> DEFINE i == handler[h].i
  <2>1. \A g \in Handlers : Fresh(handler[g])'
    BY <1>5, <1>t, DoneFresh DEF Start
  <2>2. i \in Inferences
    BY <1>5, <1>t DEF Start, Typed, HasCall
  <2>3. CASE UNCHANGED rows
    BY <2>3, <1>t, <2>1, RowsUntouched
  <2>4. CASE /\ ~alreadyDeducted(inference[i])
             /\ mayDeduct(grant)
             /\ grant' = deducted(grant)
             /\ inference' = [inference EXCEPT ![i].deducted = TRUE,
                                               ![i].status = "started"]
    <3>1. /\ grant'.callsRemaining = grant.callsRemaining - 1
          /\ grant.activeConcurrency = 0
          /\ grant'.activeConcurrency = 1
      BY <2>4, <1>g, DeductedRow
    <3>2. Open = {}
      BY <3>1 DEF SerialInv, Slot
    <3>3. i \notin Charged
      BY <2>4 DEF alreadyDeducted, Charged
    <3>4. /\ inference'[i].deducted
          /\ inference'[i].finished = inference[i].finished
          /\ \A j \in Inferences : j # i => inference'[j] = inference[j]
      BY <2>2, <2>4, <1>g DEF InferenceRow
    <3>5. Charged' = Charged \cup {i}
      BY <2>2, <3>4 DEF Charged
    <3>6. Open' \in {{}, {i}}
      BY <2>2, <3>2, <3>4 DEF Charged, Open
    <3>7. Slot'
      BY <3>1, <3>6 DEF Slot
    <3>8. grant.callsRemaining > 0
      BY <2>4 DEF mayDeduct
    <3>9. Ledger!Charge(i)
      <4> HIDE DEF i
      <4> QED BY <3>1, <3>2, <3>3, <3>5, <3>6, <3>8 DEF Ledger!Charge
    <3>10. Accounts'
      <4>1. /\ IsFiniteSet(Charged')
            /\ Cardinality(Charged') = Cardinality(Charged) + 1
        BY <3>3, <3>5, FS_AddElement DEF SerialInv, Accounts
      <4>2. Cardinality(Charged) \in Nat
        BY FS_CardinalityType DEF SerialInv, Accounts
      <4>3. grant.callsRemaining \in Nat
        BY <1>g, CallsAssumption DEF GrantRow
      <4>4. CallsAccounted'
        BY <3>1, <4>1, <4>2, <4>3 DEF SerialInv, Accounts, CallsAccounted
      <4> QED BY <4>1, <4>4 DEF Accounts
    <3> QED BY <1>t, <2>1, <2>2, <3>7, <3>9, <3>10
            DEF SerialInv, LedgerStep, Ledger!LedgerNext
  <2> QED BY <1>5, <2>3, <2>4 DEF Start
<1>6. ASSUME NEW h \in Handlers, NEW i \in Inferences, WinnerCancels(h, i)
      PROVE  SerialInv' /\ LedgerStep
  <2>1. \A g \in Handlers : Fresh(handler[g])'
    BY <1>6, <1>t, ReadCallFresh DEF WinnerCancels
  <2> QED BY <1>6, <1>t, <2>1, RowsUntouched DEF WinnerCancels
<1>7. ASSUME NEW h \in Handlers, NEW i \in Inferences, OwnerEnds(h, i)
      PROVE  SerialInv' /\ LedgerStep
  <2>1. \A g \in Handlers : Fresh(handler[g])'
    BY <1>7, <1>t, ReadCallFresh DEF OwnerEnds
  <2> QED BY <1>7, <1>t, <2>1, RowsUntouched DEF OwnerEnds
<1>8. ASSUME NEW h \in Handlers, TerminalReadGrant(h)
      PROVE  SerialInv' /\ LedgerStep
  <2>1. CASE handler[h].inf.finished
    <3>1. \A g \in Handlers : Fresh(handler[g])'
      BY <1>8, <1>t, <2>1, DoneFresh DEF TerminalReadGrant
    <3> QED BY <1>8, <1>t, <3>1, RowsUntouched DEF TerminalReadGrant
  <2>2. CASE ~handler[h].inf.finished
    <3> DEFINE n == [handler[h] EXCEPT !.at = "terminal_inference", !.row = grant]
    <3>1. /\ n.at = "terminal_inference" /\ n.row = grant
          /\ n.inf = handler[h].inf /\ n.i = handler[h].i
      BY <1>0 DEF HandlerState
    <3>2. suspend(h, n)
      BY <1>8, <2>2 DEF TerminalReadGrant
    <3>3. handler[h].inf = inference[handler[h].i]
      BY <1>8, <1>0 DEF TerminalReadGrant, Fresh
    <3> HIDE DEF n
    <3>4. n = handler'[h] => Fresh(handler[h])'
      BY <1>8, <2>2, <3>1, <3>3 DEF Fresh, TerminalReadGrant
    <3>5. \A g \in Handlers : Fresh(handler[g])'
      BY <1>t, <3>2, <3>4, LoneHandler
    <3> QED BY <1>8, <1>t, <3>5, RowsUntouched DEF TerminalReadGrant
  <2> QED BY <2>1, <2>2
<1>9. ASSUME NEW h \in Handlers, TerminalWriteInference(h)
      PROVE  SerialInv' /\ LedgerStep
  <2> DEFINE i == handler[h].i
             n == [handler[h] EXCEPT !.at = "terminal_save"]
             c == ended(handler[h].inf, handler[h].status)
  <2>1. i \in Inferences
    BY <1>9, <1>t DEF TerminalWriteInference, Typed, HasCall
  <2>2. /\ handler[h].inf = inference[i] /\ handler[h].row = grant
        /\ ~inference[i].finished
    BY <1>9, <1>0 DEF TerminalWriteInference, Fresh
  <2>3. c.deducted = inference[i].deducted /\ c.finished
    BY <1>0, <2>2, EndedCall DEF HandlerState
  <2>4. inference' = [inference EXCEPT ![i] = c] /\ UNCHANGED grant
    BY <1>9 DEF TerminalWriteInference
  <2>5. /\ inference'[i] = c
        /\ \A j \in Inferences : j # i => inference'[j] = inference[j]
    BY <1>g, <2>1, <2>4
  <2>6. Charged' = Charged /\ Open' = Open \ {i}
    <3> HIDE DEF c, i
    <3> QED BY <2>1, <2>3, <2>5 DEF Charged, Open
  <2>7. inference[i].deducted => i \in Open
    BY <2>1, <2>2 DEF Charged, Open
  <2>8. inference[i].deducted => Open' = {}
    BY <2>6, <2>7 DEF SerialInv, Slot
  <2>9. Slot'
    BY <2>4, <2>6 DEF SerialInv, Slot
  <2>10. /\ n.at = "terminal_save" /\ n.row = grant
         /\ n.inf.deducted = inference[i].deducted
    BY <1>0, <2>2 DEF HandlerState
  <2>11. suspend(h, n)
    BY <1>9 DEF TerminalWriteInference
  <2>12. \A g \in Handlers : Fresh(handler[g])'
    <3> HIDE DEF n, c, i
    <3>1. n = handler'[h] => Fresh(handler[h])'
      BY <2>4, <2>8, <2>10 DEF Fresh
    <3> QED BY <1>t, <2>11, <3>1, LoneHandler
  <2>13. Accounts'
    BY <2>4, <2>6 DEF SerialInv, Accounts, CallsAccounted
  <2>14. LedgerStep
    <3>1. CASE i \in Open
      <4>1. Open' = {}
        BY <3>1, <2>8 DEF Open, Charged
      <4>2. Ledger!End(i)
        BY <3>1, <4>1, <2>4, <2>6 DEF Ledger!End
      <4> QED BY <2>1, <4>2 DEF LedgerStep, Ledger!LedgerNext
    <3>2. CASE i \notin Open
      <4>1. Quiet
        BY <3>2, <2>4, <2>6 DEF Quiet
      <4> QED BY <4>1, QuietIsAStutter
    <3> QED BY <3>1, <3>2
  <2> QED BY <1>t, <2>9, <2>12, <2>13, <2>14 DEF SerialInv
<1>10. ASSUME NEW h \in Handlers, TerminalSaveGrant(h)
       PROVE  SerialInv' /\ LedgerStep
  <2>1. \A g \in Handlers : Fresh(handler[g])'
    BY <1>10, <1>t, DoneFresh DEF TerminalSaveGrant
  <2>2. /\ handler[h].row = grant
        /\ handler[h].inf.deducted => Open = {}
        /\ handler[h].inf \in InferenceRow
    BY <1>10, <1>0 DEF TerminalSaveGrant, Fresh, HandlerState
  <2>3. /\ grant' = released(grant, handler[h].inf)
        /\ UNCHANGED inference
    BY <1>10, <2>2 DEF TerminalSaveGrant
  <2>4. /\ grant'.callsRemaining = grant.callsRemaining
        /\ ~handler[h].inf.deducted => grant' = grant
    BY <1>g, <2>2, <2>3, ReleasedRow
  <2>5. Quiet
    BY <2>3, <2>4 DEF Quiet, Charged, Open
  <2>6. Slot'
    BY <2>2, <2>4, <2>5 DEF SerialInv, Slot, Quiet
  <2> QED BY <1>t, <2>1, <2>5, <2>6, QuietIsAStutter, QuietAccounts
          DEF SerialInv
<1>11. ASSUME NEW h \in Handlers, WinnerDrops(h)
       PROVE  SerialInv' /\ LedgerStep
  <2>1. PICK todo : suspend(h, [Idle EXCEPT !.at = "next", !.todo = todo])
    BY <1>11 DEF WinnerDrops
  <2> DEFINE n == [Idle EXCEPT !.at = "next", !.todo = todo]
  <2>2. n.at = "next" /\ suspend(h, n)
    BY <2>1 DEF Idle
  <2> HIDE DEF n
  <2>3. \A g \in Handlers : Fresh(handler[g])'
    BY <1>t, <2>2, LoneHandler DEF Fresh
  <2> QED BY <1>11, <1>t, <2>3, RowsUntouched DEF WinnerDrops
<1>12. ASSUME NEW h \in Handlers, AbortNext(h)
       PROVE  SerialInv' /\ LedgerStep
  <2>1. PICK t \in handler[h].todo :
          readCall(h, t.i, t.status, handler[h].todo \ {t})
    BY <1>12 DEF AbortNext
  <2>2. t.i \in Inferences
    BY <1>0 DEF HandlerState
  <2>3. \A g \in Handlers : Fresh(handler[g])'
    BY <1>12, <1>t, <2>1, <2>2, ReadCallFresh DEF AbortNext
  <2> QED BY <1>12, <1>t, <2>3, RowsUntouched DEF AbortNext
<1>13. ASSUME NEW h \in Handlers, TickRead(h)
       PROVE  SerialInv' /\ LedgerStep
  <2> DEFINE n == [Idle EXCEPT !.at = "tick_save", !.row = grant]
  <2>1. n.at = "tick_save" /\ n.row = grant /\ suspend(h, n)
    BY <1>13 DEF Idle, TickRead
  <2> HIDE DEF n
  <2>2. n = handler'[h] => Fresh(handler[h])'
    BY <1>13, <2>1 DEF Fresh, TickRead
  <2>3. \A g \in Handlers : Fresh(handler[g])'
    BY <1>t, <2>1, <2>2, LoneHandler
  <2> QED BY <1>13, <1>t, <2>3, RowsUntouched DEF TickRead
<1>14. ASSUME NEW h \in Handlers, TickSave(h)
       PROVE  SerialInv' /\ LedgerStep
  <2>1. \A g \in Handlers : Fresh(handler[g])'
    BY <1>14, <1>t, DoneFresh DEF TickSave
  <2>2. handler[h].row = grant /\ UNCHANGED inference
    BY <1>14, <1>0 DEF TickSave, Fresh
  <2>3. \/ UNCHANGED grant
        \/ grant.status = "active" /\ grant' = tickGrantOnline(grant)
    BY <1>14, <2>2 DEF TickSave
  <2>4. /\ grant'.callsRemaining = grant.callsRemaining
        /\ grant'.activeConcurrency = grant.activeConcurrency
    BY <1>g, <1>t, <2>3, TickedRow
  <2>5. Quiet /\ Slot'
    BY <2>2, <2>4 DEF Quiet, Charged, Open, SerialInv, Slot
  <2> QED BY <1>t, <2>1, <2>5, QuietIsAStutter, QuietAccounts DEF SerialInv
<1>15. ASSUME NEW i \in Inferences, OwnerEndsUnheard(i)
       PROVE  SerialInv' /\ LedgerStep
  <2>1. UNCHANGED <<rows, handler>>
    BY <1>15 DEF OwnerEndsUnheard
  <2>2. \A g \in Handlers : Fresh(handler[g])'
    BY <2>1, <1>0 DEF Fresh, Open, Charged
  <2> QED BY <2>1, <1>t, <2>2, RowsUntouched
<1>16. CASE OwnerConnects \/ OwnerDisconnects \/ TimePasses \/ UNCHANGED vars
  <2>1. UNCHANGED <<rows, handler>>
    BY <1>16 DEF OwnerConnects, OwnerDisconnects, TimePasses, vars
  <2>2. \A g \in Handlers : Fresh(handler[g])'
    BY <2>1, <1>0 DEF Fresh, Open, Charged
  <2> QED BY <2>1, <1>t, <2>2, RowsUntouched
<1>17. CASE ServerCrash
  <2>1. \A g \in Handlers : Fresh(handler[g])'
    BY <1>17, InitialRows DEF ServerCrash, Fresh
  <2> QED BY <1>17, <1>t, <2>1, RowsUntouched DEF ServerCrash
<1> QED
  BY <1>1, <1>2, <1>3, <1>4, <1>5, <1>6, <1>7, <1>8, <1>9, <1>10, <1>11,
     <1>12, <1>13, <1>14, <1>15, <1>16, <1>17
     DEF Next, FrameArrives, HandlerStep

LEMMA SerialInit == Init => SerialInv /\ Ledger!LedgerInit
<1> SUFFICES ASSUME Init PROVE SerialInv /\ Ledger!LedgerInit
  OBVIOUS
<1>1. Typed /\ \A h \in Handlers : Fresh(handler[h])
  BY TypedInit, InitialRows DEF Init, Fresh
<1>2. Charged = {} /\ Open = {}
  BY DEF Init, Charged, Open, NoCall
<1>3. grant.callsRemaining = MaxCalls
  BY DEF Init, FreshGrant
<1>4. Accounts
  BY <1>2, <1>3, FS_EmptySet, CallsAssumption DEF Accounts, CallsAccounted
<1>5. Slot
  BY <1>2 DEF Slot
<1>6. Ledger!LedgerInit
  BY <1>2, <1>3 DEF Ledger!LedgerInit
<1> QED BY <1>1, <1>4, <1>5, <1>6 DEF SerialInv

\* One frame at a time, calls left and calls charged always add up to the
\* worth of the grant.
THEOREM CallsAddUp == ASSUME Serial PROVE Spec => []CallsAccounted
<1>1. SerialInv /\ [Next]_vars => SerialInv'
  BY SerialStep
<1>2. Init => SerialInv
  BY SerialInit
<1>3. SerialInv => CallsAccounted
  BY DEF SerialInv, Accounts
<1> QED BY <1>1, <1>2, <1>3, PTL DEF Spec

\* One frame at a time, the accounts and the row of a grant agree.
THEOREM GrantStaysSound == ASSUME Serial PROVE Spec => []GrantAddsUp
<1>1. Spec => []CallsAccounted
  BY CallsAddUp
<1>2. CallsAccounted /\ RowConsistent => GrantAddsUp
  BY DEF GrantAddsUp
<1> QED BY <1>1, <1>2, RowNeverContradicts, PTL

\* One frame at a time, the relay implements the promise of the grant.
THEOREM RelayKeepsPromise == ASSUME Serial PROVE Spec => RefinesLedger
<1>1. SerialInv /\ [Next]_vars => SerialInv' /\ LedgerStep
  BY SerialStep
<1>2. Init => SerialInv /\ Ledger!LedgerInit
  BY SerialInit
<1> QED BY <1>1, <1>2, PTL
        DEF Spec, RefinesLedger, Ledger!LedgerSpec, LedgerStep
=============================================================================
