------------------------------- MODULE DeviceAuth -------------------------------
(***************************************************************************)
(* How a plugin becomes a device and comes back as the same one: the       *)
(* socket, the keys and the credentials of ArenaConnection (plugin/src/    *)
(* host/connection.ts), redeemDevice of the server (server/src/auth.ts),   *)
(* on the tables invites and devices (postgres.ts).                        *)
(*                                                                         *)
(* A socket is <<p, n>>, the n-th plugin p has opened.  The handler of its *)
(* challenge_response is suspended at the await phase names, and lives on  *)
(* when the socket closes; so two handlers may redeem one key at a time.   *)
(* An action runs a handler from one query to the next.                    *)
(*                                                                         *)
(* Left out: the x25519 key, made and stored with the other; signatures,   *)
(* but for the device id they cover; device ids, which are numbered.       *)
(*                                                                         *)
(* An operator X_y is X with one plausible mistake, y; no action uses it.  *)
(***************************************************************************)
EXTENDS Integers, Sequences, FiniteSets

CONSTANTS
    Plugins,     \* plugins configured with one invite code
    Uses,        \* max_uses of the invite
    MaxSockets,  \* bound of the model: sockets a plugin opens
    MaxFaults    \* bound of the model: sockets that fail, answers that are late

ASSUME PluginsAssumption == IsFiniteSet(Plugins)
ASSUME UsesAssumption == Uses \in Nat
ASSUME BoundsAssumption == {MaxSockets, MaxFaults} \subseteq Nat

VARIABLES
    plugin,   \* memory of the plugins
    stored,   \* their credentials
    writes,   \* credentials.set calls under way, in order
    made,     \* keys a plugin has generated so far
    phase,    \* where the server is with a socket
    claim,    \* the key a socket said hello with, the device id it signed
    left,     \* uses_remaining
    devices,  \* the rows of devices, in the order they were inserted: keys
    faults

vars == <<plugin, stored, writes, made, phase, claim, left, devices, faults>>

Sockets == Plugins \X (1..MaxSockets)
Keys == Plugins \X (Nat \ {0})   \* <<p, n>>: the n-th p has generated
Ids == Nat   \* 0: no device id

Identity == [key : Keys, device : Ids]
At == {"unused", "hello", "find", "touch", "find_x", "consume", "put", "done", "late"}
View == {"offline", "connecting", "ready", "refused"}

Init ==
    /\ stored = [p \in Plugins |-> [key |-> <<p, 1>>, device |-> 0]]
    /\ plugin = [p \in Plugins |-> [key |-> <<p, 1>>, device |-> 0, view |-> "offline",
                                    socket |-> 0, reminted |-> FALSE]]
    /\ writes = [p \in Plugins |-> <<>>]
    /\ made = [p \in Plugins |-> 1]
    /\ phase = [s \in Sockets |-> "unused"]
    /\ claim = [s \in Sockets |-> [key |-> s, device |-> 0]]
    /\ left = Uses
    /\ devices = <<>>
    /\ faults = 0

current(s) == plugin[s[1]].socket = s[2] /\ plugin[s[1]].view = "connecting"
\* What persistIdentity writes.
credential_stored(p) == [key |-> stored[p].key, device |-> plugin[p].device]
credential(p) == [key |-> plugin[p].key, device |-> plugin[p].device]
\* What loadKeys takes from it.
loaded_noDevice(p) == [stored[p] EXCEPT !.device = 0]
loaded(p) == stored[p]
rowOf(k) == {d \in DOMAIN devices : devices[d] = k}
advance(s, a) == phase' = [phase EXCEPT ![s] = a]
fails(n) == faults + n <= MaxFaults /\ faults' = faults + n
--------------------------------------------------------------------------------
\* connect() and the hello of the socket that opens.
Connect(p) ==
    /\ plugin[p].view = "offline"
    /\ plugin[p].socket < MaxSockets
    /\ plugin' = [plugin EXCEPT ![p].view = "connecting", ![p].socket = @ + 1]
    /\ advance(<<p, plugin[p].socket + 1>>, "hello")
    /\ claim' = [claim EXCEPT ![<<p, plugin[p].socket + 1>>].key = plugin[p].key]
    /\ UNCHANGED <<stored, writes, made, left, devices, faults>>

\* The device a response is signed for: 0 signs the nonce alone.
signedFor_nonce(p) == 0
signedFor(p) == plugin[p].device

\* challenge_response; redeemDevice up to its first query.
Respond(s) ==
    /\ phase[s] = "hello"
    /\ current(s)
    /\ claim' = [claim EXCEPT ![s].device = signedFor(s[1])]
    /\ advance(s, "find")
    /\ UNCHANGED <<plugin, stored, writes, made, left, devices, faults>>

\* auth.session, to the socket that asked, if it is still there.
session(s, d) ==
    IF current(s)
    THEN /\ plugin' = [plugin EXCEPT ![s[1]].view = "ready", ![s[1]].device = d]
         /\ writes' = [writes EXCEPT ![s[1]] = Append(@, [credential(s[1]) EXCEPT !.device = d])]
         /\ UNCHANGED made
    ELSE UNCHANGED <<plugin, writes, made>>

refused(s) ==
    /\ plugin' = IF current(s) THEN [plugin EXCEPT ![s[1]].view = "refused"] ELSE plugin
    /\ UNCHANGED <<writes, made>>

mayRemint(p) == plugin[p].device = 0 /\ ~plugin[p].reminted

\* UNAUTHORIZED: new keys, once, and a new socket.
unauthorized(s) ==
    LET p == s[1]
        fresh == <<p, made[p] + 1>>
    IN IF current(s) /\ mayRemint(p)
       THEN /\ plugin' = [plugin EXCEPT ![p].key = fresh, ![p].reminted = TRUE, ![p].view = "offline"]
            /\ writes' = [writes EXCEPT ![p] = Append(@, [credential(p) EXCEPT !.key = fresh])]
            /\ made' = [made EXCEPT ![p] = @ + 1]
       ELSE refused(s)

\* The challenge was issued more than 30 s before its response.
Expired(s) ==
    /\ phase[s] = "find"
    /\ fails(1)
    /\ advance(s, "late")
    /\ refused(s)
    /\ UNCHANGED <<stored, claim, left, devices>>

\* The key of the claim is looked up.
FindDevice(s) ==
    /\ phase[s] = "find"
    /\ \/ /\ rowOf(claim[s].key) = {}
          /\ advance(s, "find_x")
          /\ UNCHANGED <<plugin, writes, made>>
       \/ /\ rowOf(claim[s].key) = {claim[s].device}
          /\ advance(s, "touch")
          /\ UNCHANGED <<plugin, writes, made>>
       \/ /\ rowOf(claim[s].key) # {} /\ claim[s].device = 0
          /\ advance(s, "done")
          /\ unauthorized(s)
       \/ \* IDENTITY_CONFLICT
          /\ rowOf(claim[s].key) # {} /\ claim[s].device \notin rowOf(claim[s].key) \cup {0}
          /\ advance(s, "done")
          /\ refused(s)
    /\ UNCHANGED <<stored, claim, left, devices, faults>>

TouchDevice(s) ==
    /\ phase[s] = "touch"
    /\ advance(s, "done")
    /\ session(s, claim[s].device)
    /\ UNCHANGED <<stored, claim, left, devices, faults>>

\* The x25519 key of the claim is looked up: IDENTITY_CONFLICT if it is there.
FindX25519(s) ==
    /\ phase[s] = "find_x"
    /\ IF rowOf(claim[s].key) = {}
       THEN advance(s, "consume") /\ UNCHANGED <<plugin, writes, made>>
       ELSE advance(s, "done") /\ refused(s)
    /\ UNCHANGED <<stored, claim, left, devices, faults>>

\* A row of invites was updated.
consumed_notAsked(n) == TRUE
consumed(n) == n > 0

\* consumeInvite, then the check of the signature of a first time.
ConsumeInvite(s) ==
    /\ phase[s] = "consume"
    /\ left' = IF left > 0 THEN left - 1 ELSE left
    /\ IF ~consumed(left)
       THEN advance(s, "done") /\ refused(s)
       ELSE IF claim[s].device = 0
            THEN advance(s, "put") /\ UNCHANGED <<plugin, writes, made>>
            ELSE advance(s, "done") /\ unauthorized(s)
    /\ UNCHANGED <<stored, claim, devices, faults>>

\* The unique keys of the table refuse a second row.
unique_notChecked(k) == TRUE
unique(k) == rowOf(k) = {}

PutDevice(s) ==
    /\ phase[s] = "put"
    /\ advance(s, "done")
    /\ IF unique(claim[s].key)
       THEN /\ devices' = Append(devices, claim[s].key)
            /\ session(s, Len(devices) + 1)
       ELSE UNCHANGED devices /\ refused(s)
    /\ UNCHANGED <<stored, claim, left, faults>>

\* A credentials.set ends.
Persisted(p) ==
    /\ writes[p] # <<>>
    /\ stored' = [stored EXCEPT ![p] = Head(writes[p])]
    /\ writes' = [writes EXCEPT ![p] = Tail(@)]
    /\ UNCHANGED <<plugin, made, phase, claim, left, devices, faults>>
--------------------------------------------------------------------------------
SocketCloses(p) ==
    /\ fails(1)
    /\ plugin[p].view # "offline"
    /\ plugin' = [plugin EXCEPT ![p].view = "offline"]
    /\ UNCHANGED <<stored, writes, made, phase, claim, left, devices>>

\* loadKeys: what was not yet stored is forgotten.
PluginRestarts(p) ==
    /\ fails(1)
    /\ plugin' = [plugin EXCEPT ![p].key = loaded(p).key, ![p].device = loaded(p).device,
                                ![p].view = "offline", ![p].reminted = FALSE]
    /\ writes' = [writes EXCEPT ![p] = <<>>]
    /\ UNCHANGED <<stored, made, phase, claim, left, devices>>

\* Challenges and suspended handlers are gone, and every socket.
ServerRestarts ==
    /\ fails(Cardinality({p \in Plugins : plugin[p].view # "offline"}))
    /\ phase' = [s \in Sockets |-> IF phase[s] \in {"unused", "late"} THEN phase[s] ELSE "done"]
    /\ plugin' = [p \in Plugins |-> [plugin[p] EXCEPT !.view = "offline"]]
    /\ UNCHANGED <<stored, writes, made, claim, left, devices>>
--------------------------------------------------------------------------------
Redeem(s) == FindDevice(s) \/ TouchDevice(s) \/ FindX25519(s) \/ ConsumeInvite(s) \/ PutDevice(s)

Next ==
    \/ \E p \in Plugins : Connect(p) \/ Persisted(p) \/ SocketCloses(p) \/ PluginRestarts(p)
    \/ \E s \in Sockets : Respond(s) \/ Redeem(s) \/ Expired(s)
    \/ ServerRestarts

Spec == Init /\ [][Next]_vars

\* What the plugin and the server do of themselves for it: it reconnects after
\* its delay and answers challenges, queries and credentials.set return.
Progress(p) ==
    \/ Connect(p) \/ Persisted(p)
    \/ \E s \in {p} \X (1..MaxSockets) : Respond(s) \/ Redeem(s)

\* It goes on for each plugin.  No fault has to happen, and none to stop.
Fairness == \A p \in Plugins : WF_vars(Progress(p))

FairSpec == Spec /\ Fairness
--------------------------------------------------------------------------------
\* Types; and a key has one row.
TypeOK ==
    /\ plugin \in [Plugins -> [key : Keys, device : Ids, view : View,
                               socket : 0..MaxSockets, reminted : BOOLEAN]]
    /\ stored \in [Plugins -> Identity]
    /\ writes \in [Plugins -> Seq(Identity)]
    /\ made \in [Plugins -> Nat \ {0}]
    /\ phase \in [Sockets -> At]
    /\ claim \in [Sockets -> Identity]
    /\ left \in 0..Uses
    /\ devices \in Seq(Keys)
    /\ \A d, e \in DOMAIN devices : devices[d] = devices[e] => d = e
    /\ faults \in 0..MaxFaults

\* Each use of the invite paid for a device, is about to, or was lost with a
\* socket that failed; the race of a plugin's two handlers of one key loses no
\* more (auth.ts:47-59).
UsesPayForDevices ==
    LET paying == {s \in Sockets : phase[s] = "put"}
        lost == (Uses - left) - Len(devices) - Cardinality(paying)
    IN lost \in 0..faults

\* A device id is of the key it is kept with, in memory and in the credentials.
DeviceOfItsKey ==
    \A p \in Plugins : \A i \in {plugin[p], stored[p]} :
        i.device # 0 => i.device \in DOMAIN devices /\ devices[i.device] = i.key

\* Once a plugin has stored that it is a device, it stays that device: its
\* grants, and the stakes it owes, are under that id (connection.ts:237-255).
StaysItsDevice ==
    [][\A p \in Plugins : stored[p].device # 0 => stored'[p] = stored[p]]_vars

\* A device that lost its connection is let in again, unless it answered a
\* challenge too late: that socket stays open and silent.
DeviceReturns ==
    \A p \in Plugins :
        (plugin[p].view = "offline" /\ plugin[p].device # 0)
            ~> (plugin[p].view = "ready" \/ \E s \in {p} \X (1..MaxSockets) : phase[s] = "late")
================================================================================
