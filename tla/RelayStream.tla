------------------------------ MODULE RelayStream ------------------------------
(***************************************************************************)
(* The model calls one winner streams from one owner: streamAsWinner and   *)
(* fulfillAsOwner of ArenaConnection (plugin/src/host/connection.ts), and  *)
(* the frames the Arena server forwards between them (server/src/arena.ts).*)
(*                                                                         *)
(* Inside a plugin, code that awaits a frame leaves a waiter under the     *)
(* TYPE of the frame; a frame nobody waits for goes to the backlog of its  *)
(* type.  Neither looks at the inference the frame names.                  *)
(*                                                                         *)
(* up[d] holds the frames device d has sent and the server has not yet     *)
(* handled, down[d] those on their way to d.  The handler of a frame is    *)
(* one step here: GrantRelay has its awaits.  What they do to the order of *)
(* frames is Window: the server may finish any of the first Window frames  *)
(* of a device first.                                                      *)
(*                                                                         *)
(* Left out: ciphertext (a chunk opens if its additional data names the    *)
(* call that reads it), limits of size, the number and the time a grant    *)
(* has left, the status of a relay.terminal, which no plugin reads, and    *)
(* the frames nobody awaits: relay.reserved, grant.updated, error, and the *)
(* relay.terminal an owner gets.                                           *)
(*                                                                         *)
(* An operator X_y is X with one plausible mistake, y; no action uses it.  *)
(***************************************************************************)
EXTENDS Integers, FiniteSets, SequencesExt

CONSTANTS
    Calls,       \* inference ids of the winner
    NoCall,
    MaxOpen,     \* streams the host of the winner has open at a time
    Window,
    MaxChunks,   \* bound of the model: chunks of a call
    MaxDrops     \* bound of the model: sockets that close

StreamAssumption ==
    /\ NoCall \notin Calls
    /\ {MaxOpen, Window} \subseteq Nat \ {0}
    /\ {MaxChunks, MaxDrops} \subseteq Nat

Devices == {"winner", "owner"}

VARIABLES
    at,         \* where the stream of a call is suspended
    frame,      \* the frame its promise was resolved with
    got,        \* the sequence numbers of the chunks the host was given
    cancelled,  \* calls the host aborted: options.signal
    stopped,    \* calls told to stop: stop.signal
    waiter,     \* who waits for a frame in the winner: waiters
    backlog,    \* frames nobody waited for
    fulfil,     \* where the owner is with a call: fulfillAsOwner
    sent,       \* chunks the owner has read from its provider, seq - 1
    aborted,    \* calls the owner was told to abort: ownerAborts
    ownerWaiter,
    ownerBacklog,
    reserved,   \* rows of table inferences
    finished,   \* those with finishedAt
    charged,    \* those that were charged
    slot,       \* activeConcurrency of the grant
    up, down,
    online,     \* the devices with a socket
    hungUp,     \* sockets of the winner whose close the server has yet to see
    drops,      \* sockets closed so far, of each device
    endedBy,    \* history: the relay.terminal a stream returned at
    came,       \* history: the chunks of a call that reached the winner, by
                \* number, 0 for a relay.terminal, in order of arrival
    serial      \* history: no stream was opened beside another or timed out

stream == <<at, frame, got, cancelled, stopped, waiter, backlog, endedBy, came, serial>>
owner == <<fulfil, sent, aborted, ownerWaiter, ownerBacklog>>
server == <<reserved, finished, charged, slot>>
net == <<up, down, online, hungUp, drops>>
vars == <<stream, owner, server, net>>

Frame == [type : {"reserve", "preflight_ok", "started", "chunk", "terminal", "abort"},
          call : Calls, seq : 0..MaxChunks]
NoFrame == [type |-> "", call |-> NoCall, seq |-> 0]

plain(t, c) == [type |-> t, call |-> c, seq |-> 0]
chunk(c, n) == [type |-> "chunk", call |-> c, seq |-> n]

Types == {"started", "chunk", "terminal"}
At == {"new", "start", "next", "yield", "returned", "failed"}
Over == {"returned", "failed"}

Init ==
    /\ at = [c \in Calls |-> "new"]
    /\ frame = [c \in Calls |-> NoFrame]
    /\ got = [c \in Calls |-> <<>>]
    /\ cancelled = {} /\ stopped = {}
    /\ waiter = [t \in Types |-> NoCall]
    /\ backlog = [t \in Types |-> <<>>]
    /\ fulfil = [c \in Calls |-> "none"]
    /\ sent = [c \in Calls |-> 0]
    /\ aborted = {}
    /\ ownerWaiter = NoCall /\ ownerBacklog = <<>>
    /\ reserved = {} /\ finished = {} /\ charged = {} /\ slot = 0
    /\ up = [d \in Devices |-> <<>>]
    /\ down = [d \in Devices |-> <<>>]
    /\ online = Devices
    /\ hungUp = 0
    /\ drops = [d \in Devices |-> 0]
    /\ endedBy = [c \in Calls |-> NoFrame]
    /\ came = [c \in Calls |-> <<>>]
    /\ serial = TRUE

\* A frame sent on a closed socket is lost.
Say(d, fs) == up' = IF d \in online THEN [up EXCEPT ![d] = @ \o fs] ELSE up

\* Frames travel and are handled in much less than the 60 s of a timer.
calm == \A d \in Devices : up[d] = <<>> /\ down[d] = <<>>

\* A resolved or rejected promise runs on before its plugin turns to anything
\* but the frames that arrived together.  That concerns neither the server nor
\* the other plugin, so their steps are put after it, too.
idle == \A c \in Calls : frame[c] = NoFrame /\ fulfil[c] \notin {"started", "rejected"}

\* The server finds the sockets of d.
Forward(d, fs) == IF d \in online THEN [down EXCEPT ![d] = @ \o fs] ELSE down
--------------------------------------------------------------------------------
\* The winner.

\* Calls whose promise is neither resolved nor rejected.
pending == {c \in Calls : at[c] \in {"start", "next"} /\ frame[c] = NoFrame}

NoWaiter == [t \in Types |-> NoCall]

\* waitType of call c for the frames of types ts.  The backlog is searched in
\* the order the types are written in: chunks first.
queued(ts) == {t \in ts : backlog[t] # <<>>}
firstOf_terminalFirst(ts) == IF "terminal" \in ts THEN "terminal" ELSE CHOOSE t \in ts : TRUE
firstOf(ts) == IF "chunk" \in ts THEN "chunk" ELSE CHOOSE t \in ts : TRUE

waitType(c, state, ts) ==
    /\ at' = [at EXCEPT ![c] = state]
    /\ IF queued(ts) = {}
       THEN /\ waiter' = [t \in Types |-> IF t \in ts THEN c ELSE waiter[t]]
            /\ frame' = [frame EXCEPT ![c] = NoFrame]
            /\ UNCHANGED backlog
       ELSE LET t == firstOf(queued(ts))
            IN /\ frame' = [frame EXCEPT ![c] = Head(backlog[t])]
               /\ backlog' = [backlog EXCEPT ![t] = Tail(@)]
               /\ UNCHANGED waiter

\* The types one waiter was left under.
together(t) == IF t = "started" THEN {"started"} ELSE {"chunk", "terminal"}

returns(c) ==
    /\ at' = [at EXCEPT ![c] = "returned"]
    /\ frame' = [frame EXCEPT ![c] = NoFrame]
    /\ UNCHANGED <<waiter, backlog>>

\* failWaiters: every pending promise is rejected with 'aborted', which
\* streamAsWinner takes for a normal end.
failWaiters ==
    /\ at' = [c \in Calls |-> IF c \in pending THEN "returned" ELSE at[c]]
    /\ waiter' = NoWaiter
    /\ UNCHANGED <<frame, backlog>>

streams == {c \in Calls : at[c] \in {"start", "next", "yield"}}

\* The adapter finds an active grant with calls left and an owner online, as
\* far as the plugin knows, and the socket is open.
mayStream(c) ==
    /\ idle
    /\ at[c] = "new"
    /\ "winner" \in online
    /\ Cardinality(streams) < MaxOpen

StreamAsWinner(c) ==
    /\ mayStream(c)
    /\ serial' = (serial /\ streams = {})
    /\ Say("winner", <<plain("reserve", c)>>)
    /\ waitType(c, "start", {"started"})
    /\ UNCHANGED <<got, cancelled, stopped, endedBy, came, owner, server, down, online, hungUp,
                   drops>>

\* The signal was aborted before the call.
StreamAborted(c) ==
    /\ mayStream(c)
    /\ serial' = (serial /\ streams = {})
    /\ Say("winner", <<plain("reserve", c), plain("terminal", c)>>)
    /\ cancelled' = cancelled \cup {c}
    /\ stopped' = stopped \cup {c}
    /\ waiter' = NoWaiter
    /\ at' = [d \in Calls |-> IF d \in pending \cup {c} THEN "returned" ELSE at[d]]
    /\ UNCHANGED <<frame, backlog, got, endedBy, came, owner, server, down, online, hungUp, drops>>

\* cancel(): the listener of the signal.
Cancel(c) ==
    /\ idle
    /\ c \in streams
    /\ c \notin cancelled
    /\ cancelled' = cancelled \cup {c}
    /\ stopped' = stopped \cup {c}
    /\ Say("winner", <<plain("terminal", c)>>)
    /\ failWaiters
    /\ UNCHANGED <<got, endedBy, came, serial, owner, server, down, online, hungUp, drops>>

pushed_inFront(q, f) == <<f>> \o q
pushed_keepsNoChunk(q, f) == IF f.type = "chunk" THEN q ELSE Append(q, f)
pushed(q, f) == Append(q, f)

\* A frame for the winner.  The waiter of a call that timed out is still in
\* the table: it takes the frame and nobody reads it.
WinnerReceives ==
    /\ down["winner"] # <<>>
    /\ LET f == Head(down["winner"])
           w == waiter[f.type]
       IN IF w = NoCall
          THEN /\ backlog' = [backlog EXCEPT ![f.type] = pushed(@, f)]
               /\ UNCHANGED <<waiter, frame>>
          ELSE /\ waiter' = [t \in Types |-> IF t \in together(f.type) THEN NoCall ELSE waiter[t]]
               /\ frame' = IF w \in pending THEN [frame EXCEPT ![w] = f] ELSE frame
               /\ UNCHANGED backlog
    /\ down' = [down EXCEPT !["winner"] = Tail(@)]
    /\ LET f == Head(down["winner"])
       IN came' = IF f.type = "started" THEN came ELSE [came EXCEPT ![f.call] = Append(@, f.seq)]
    /\ UNCHANGED <<at, got, cancelled, stopped, endedBy, serial, owner, server, up, online, hungUp,
                   drops>>

\* inference_started, whose ever it is.
Started(c) ==
    /\ at[c] = "start"
    /\ frame[c] # NoFrame
    /\ IF c \in stopped
       THEN returns(c)
       ELSE waitType(c, "next", {"chunk", "terminal"})
    /\ UNCHANGED <<got, cancelled, stopped, endedBy, came, serial, owner, server, net>>

opens(c, f) == f.call = c

YieldChunk(c) ==
    /\ at[c] = "next"
    /\ frame[c].type = "chunk"
    /\ opens(c, frame[c])
    /\ at' = [at EXCEPT ![c] = "yield"]
    /\ frame' = [frame EXCEPT ![c] = NoFrame]
    /\ got' = [got EXCEPT ![c] = Append(@, frame[c].seq)]
    /\ UNCHANGED <<waiter, backlog, cancelled, stopped, endedBy, came, serial, owner, server, net>>

\* openJson throws on the chunk of another call.
ForeignChunk(c) ==
    /\ at[c] = "next"
    /\ frame[c].type = "chunk"
    /\ ~opens(c, frame[c])
    /\ at' = [at EXCEPT ![c] = "failed"]
    /\ frame' = [frame EXCEPT ![c] = NoFrame]
    /\ UNCHANGED <<got, waiter, backlog, cancelled, stopped, endedBy, came, serial, owner, server,
                   net>>

\* relay.terminal, whose ever it is.
Terminal(c) ==
    /\ at[c] = "next"
    /\ frame[c].type = "terminal"
    /\ endedBy' = [endedBy EXCEPT ![c] = frame[c]]
    /\ returns(c)
    /\ UNCHANGED <<got, cancelled, stopped, came, serial, owner, server, net>>

\* The host asks for the next chunk.
ReadOn(c) ==
    /\ idle
    /\ at[c] = "yield"
    /\ IF c \in stopped
       THEN returns(c)
       ELSE waitType(c, "next", {"chunk", "terminal"})
    /\ UNCHANGED <<got, cancelled, stopped, endedBy, came, serial, owner, server, net>>

\* 60 s without a frame; the waiter stays in the table.
WinnerTimeout(c) ==
    /\ c \in pending
    /\ idle /\ calm
    /\ at' = [at EXCEPT ![c] = "failed"]
    /\ serial' = FALSE
    /\ UNCHANGED <<frame, got, cancelled, stopped, waiter, backlog, endedBy, came, owner, server,
                   net>>
--------------------------------------------------------------------------------
\* The owner.

ownerPending == {c \in Calls : fulfil[c] = "start"}

\* Its relay.reserve: preflight_ok, then the wait for inference_started.
fulfillAsOwner(c) ==
    /\ Say("owner", <<plain("preflight_ok", c)>>)
    /\ IF ownerBacklog = <<>>
       THEN /\ ownerWaiter' = c
            /\ fulfil' = [fulfil EXCEPT ![c] = "start"]
            /\ UNCHANGED ownerBacklog
       ELSE /\ ownerBacklog' = Tail(ownerBacklog)
            /\ fulfil' = [fulfil EXCEPT ![c] = "started"]
            /\ UNCHANGED ownerWaiter
    /\ UNCHANGED aborted

ownerStarted(f) ==
    /\ IF ownerWaiter = NoCall
       THEN /\ ownerBacklog' = Append(ownerBacklog, f.call)
            /\ UNCHANGED fulfil
       ELSE /\ fulfil' = IF ownerWaiter \in ownerPending
                         THEN [fulfil EXCEPT ![ownerWaiter] = "started"]
                         ELSE fulfil
            /\ UNCHANGED ownerBacklog
    /\ ownerWaiter' = NoCall
    /\ UNCHANGED <<aborted, up>>

\* relay.abort: the signal of the call, and every promise.
ownerAbort(c) ==
    /\ aborted' = IF fulfil[c] \in {"start", "started", "stream"} THEN aborted \cup {c} ELSE aborted
    /\ fulfil' = [d \in Calls |-> IF d \in ownerPending THEN "rejected" ELSE fulfil[d]]
    /\ ownerWaiter' = NoCall
    /\ UNCHANGED <<ownerBacklog, up>>

OwnerReceives ==
    /\ down["owner"] # <<>>
    /\ LET f == Head(down["owner"])
       IN \/ f.type = "reserve" /\ fulfillAsOwner(f.call)
          \/ f.type = "started" /\ ownerStarted(f)
          \/ f.type = "abort" /\ ownerAbort(f.call)
    /\ down' = [down EXCEPT !["owner"] = Tail(@)]
    /\ UNCHANGED <<sent, stream, server, online, hungUp, drops>>

OwnerEnds(c) ==
    /\ fulfil' = [fulfil EXCEPT ![c] = "ended"]
    /\ Say("owner", <<plain("terminal", c)>>)
    /\ UNCHANGED <<sent, aborted, ownerWaiter, ownerBacklog, stream, server, down, online, hungUp, drops>>

\* The promise was rejected: by an abort, the socket or its timer.
OwnerRejected(c) == fulfil[c] = "rejected" /\ OwnerEnds(c)

OwnerTimeout(c) ==
    /\ c \in ownerPending
    /\ idle /\ calm
    /\ fulfil' = [fulfil EXCEPT ![c] = "rejected"]
    /\ UNCHANGED <<sent, aborted, ownerWaiter, ownerBacklog, stream, server, net>>

\* inference_started, whose ever it is: the call to the provider.
OwnerStarts(c) ==
    /\ fulfil[c] = "started"
    /\ IF c \in aborted
       THEN OwnerEnds(c)
       ELSE /\ fulfil' = [fulfil EXCEPT ![c] = "stream"]
            /\ UNCHANGED <<sent, aborted, ownerWaiter, ownerBacklog, stream, server, net>>

OwnerChunk(c) ==
    /\ idle
    /\ fulfil[c] = "stream"
    /\ c \notin aborted
    /\ sent[c] < MaxChunks
    /\ sent' = [sent EXCEPT ![c] = @ + 1]
    /\ Say("owner", <<chunk(c, sent[c] + 1)>>)
    /\ UNCHANGED <<fulfil, aborted, ownerWaiter, ownerBacklog, stream, server, down, online, hungUp, drops>>

\* The provider is done, fails, or was told to stop.
ProviderEnds(c) ==
    /\ idle
    /\ fulfil[c] = "stream"
    /\ OwnerEnds(c)
--------------------------------------------------------------------------------
\* The server: the handler of the i-th frame a device has sent.

open == reserved \ finished

\* What is left of the frames of d.
Taken(d, i) ==
    /\ idle
    /\ i <= Window
    /\ up' = [up EXCEPT ![d] = RemoveAt(@, i)]
    /\ UNCHANGED <<stream, owner, online, hungUp, drops>>

\* RelayController.terminal
release_always(ended) == IF ended \cap open # {} THEN slot - 1 ELSE slot
release(ended) == IF slot > 0 /\ ended \cap open \cap charged # {} THEN slot - 1 ELSE slot

ForwardReserve(i) ==
    LET f == up["winner"][i]
    IN /\ f.type = "reserve"
       /\ Taken("winner", i)
       /\ \/ /\ reserved' = reserved \cup {f.call}
             /\ down' = Forward("owner", <<f>>)
             /\ UNCHANGED <<finished, charged, slot>>
          \/ \* OWNER_OFFLINE
             /\ "owner" \notin online
             /\ UNCHANGED <<server, down>>

\* preflight and start; inference_started goes to both.
ForwardPreflight(i) ==
    LET f == up["owner"][i]
    IN /\ f.type = "preflight_ok"
       /\ Taken("owner", i)
       /\ IF slot = 0
          THEN /\ charged' = charged \cup {f.call}
               /\ slot' = 1
               /\ down' = [d \in Devices |-> Forward(d, <<plain("started", f.call)>>)[d]]
               /\ UNCHANGED <<reserved, finished>>
          ELSE UNCHANGED <<server, down>>  \* CONCURRENCY

ForwardRelayChunk(i) ==
    LET f == up["owner"][i]
    IN /\ f.type = "chunk"
       /\ Taken("owner", i)
       /\ down' = Forward("winner", <<f>>)
       /\ UNCHANGED server

\* Forwarded even if the inference had finished; refused if it has no row.
ForwardRelayTerminal(d, i) ==
    LET f == up[d][i]
    IN /\ f.type = "terminal"
       /\ Taken(d, i)
       /\ IF f.call \in reserved
          THEN /\ finished' = finished \cup {f.call}
               /\ slot' = release({f.call})
               /\ down' = IF d = "owner" THEN Forward("winner", <<f>>)
                                         ELSE Forward("owner", <<plain("abort", f.call)>>)
               /\ UNCHANGED <<reserved, charged>>
          ELSE UNCHANGED <<server, down>>

\* handleDisconnect and abortWinnerRelays: whatever sockets the winner has by
\* now, its open calls are ended.
AbortWinnerRelays ==
    /\ idle
    /\ hungUp > 0
    /\ hungUp' = hungUp - 1
    /\ finished' = finished \cup open
    /\ slot' = release(open)
    /\ \E s \in SetToSeqs(open) :
          LET aborts == [n \in DOMAIN s |-> plain("abort", s[n])]
              terminals == [n \in DOMAIN s |-> plain("terminal", s[n])]
          IN down' = [d \in Devices |->
                         Forward(d, IF d = "owner" THEN aborts ELSE terminals)[d]]
    /\ UNCHANGED <<reserved, charged, up, online, drops, stream, owner>>
--------------------------------------------------------------------------------
\* The sockets.  What was sent and not yet read is lost from some point on.

Closes(d) ==
    /\ idle
    /\ d \in online
    /\ drops["winner"] + drops["owner"] < MaxDrops
    /\ drops' = [drops EXCEPT ![d] = @ + 1]
    /\ online' = online \ {d}
    /\ down' = [down EXCEPT ![d] = <<>>]
    /\ \E k \in 0..Len(up[d]) : up' = [up EXCEPT ![d] = SubSeq(@, 1, k)]

WinnerDrops ==
    /\ Closes("winner")
    /\ hungUp' = hungUp + 1
    /\ stopped' = stopped \cup streams
    /\ failWaiters
    /\ UNCHANGED <<got, cancelled, endedBy, came, serial, owner, server>>

\* The calls it streams go on.
OwnerDrops ==
    /\ Closes("owner")
    /\ fulfil' = [c \in Calls |-> IF c \in ownerPending THEN "rejected" ELSE fulfil[c]]
    /\ ownerWaiter' = NoCall
    /\ UNCHANGED <<sent, aborted, ownerBacklog, stream, server, hungUp>>

Reconnects(d) ==
    /\ idle
    /\ d \notin online
    /\ online' = online \cup {d}
    /\ UNCHANGED <<stream, owner, server, up, down, hungUp, drops>>
--------------------------------------------------------------------------------
WinnerResumes(c) == Started(c) \/ YieldChunk(c) \/ ForeignChunk(c) \/ Terminal(c)
OwnerResumes(c) == OwnerRejected(c) \/ OwnerStarts(c)
HostStep(c) == StreamAsWinner(c) \/ StreamAborted(c) \/ Cancel(c)

ServerStep ==
    \/ \E i \in DOMAIN up["winner"] : ForwardReserve(i) \/ ForwardRelayTerminal("winner", i)
    \/ \E i \in DOMAIN up["owner"] :
          ForwardPreflight(i) \/ ForwardRelayChunk(i) \/ ForwardRelayTerminal("owner", i)
    \/ AbortWinnerRelays

SocketStep == WinnerDrops \/ OwnerDrops \/ \E d \in Devices : Reconnects(d)

Next ==
    \/ WinnerReceives \/ OwnerReceives
    \/ \E c \in Calls :
          \/ HostStep(c) \/ ReadOn(c) \/ WinnerResumes(c) \/ WinnerTimeout(c)
          \/ OwnerChunk(c) \/ ProviderEnds(c) \/ OwnerResumes(c) \/ OwnerTimeout(c)
    \/ ServerStep
    \/ SocketStep

Spec == Init /\ [][Next]_vars

--------------------------------------------------------------------------------
\* Types.
TypeOK ==
    /\ at \in [Calls -> At]
    /\ frame \in [Calls -> Frame \cup {NoFrame}]
    /\ \A c \in Calls : got[c] \in Seq(1..MaxChunks)
    /\ cancelled \subseteq stopped /\ stopped \subseteq Calls
    /\ waiter \in [Types -> Calls \cup {NoCall}]
    /\ waiter["chunk"] = waiter["terminal"]
    /\ \A t \in Types : backlog[t] \in Seq({f \in Frame : f.type = t})
    /\ fulfil \in [Calls -> {"none", "start", "rejected", "started", "stream", "ended"}]
    /\ sent \in [Calls -> 0..MaxChunks]
    /\ ownerWaiter \in Calls \cup {NoCall}
    /\ ownerBacklog \in Seq(Calls)
    /\ finished \subseteq reserved /\ charged \subseteq reserved
    /\ slot \in 0..1
    /\ endedBy \in [Calls -> Frame \cup {NoFrame}]
    /\ \A c \in Calls : came[c] \in Seq(0..MaxChunks)
    /\ serial \in BOOLEAN

given(c) == {got[c][i] : i \in DOMAIN got[c]}

\* The host is given the chunks of its call in the order in which they came.
InOrderOfArrival ==
    \A c \in Calls : \A i, j \in DOMAIN got[c] :
        i < j => \E k, l \in DOMAIN came[c] :
                     k < l /\ came[c][k] = got[c][i] /\ came[c][l] = got[c][j]

\* ... and while no stream was opened beside another and none timed out, none
\* that came is passed over ...
NonePassedOver ==
    serial => \A c \in Calls : \A k, l \in DOMAIN came[c] :
                  k < l /\ came[c][k] # 0 /\ came[c][l] \in given(c) => came[c][k] \in given(c)

\* ... and a stream that returned at the relay.terminal of its own call has
\* handed over every chunk that came before it.
WholeAnswer ==
    serial => \A c \in Calls : endedBy[c].call = c =>
                  \A k \in DOMAIN came[c] :
                      (\A l \in 1..k : came[c][l] # 0) => came[c][k] \in given(c)

\* A stream the host did not abort, and no closed socket stopped, returns at
\* the relay.terminal of its own call (grant-relay.ts:108-109).
OwnTerminal ==
    \A c \in Calls : at[c] = "returned" => c \in stopped \/ endedBy[c].call = c
================================================================================
