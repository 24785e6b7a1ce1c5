---------------------------- MODULE DevicesProofs ----------------------------
(***************************************************************************)
(* Proofs about the two components of MCDevices.                           *)
(*                                                                         *)
(* DeviceAuth, for any number of plugins, sockets and failures: types and  *)
(* the unique keys of the table, that identities are not mixed, that a     *)
(* stored device stays itself, and that no use of the invite is lost but   *)
(* to a failure.  The invariant relates what a plugin holds, what it has   *)
(* stored and what it is storing (CredentialsOK): whatever of it has a     *)
(* device id is the same, and once one has, all later ones do.  The        *)
(* account of the uses (UsesInv) adds which handlers work for a socket     *)
(* that is gone.                                                           *)
(*                                                                         *)
(* ArenaRoom, for any number of handlers, guests, models and faults: a     *)
(* match with a name has its two stakes.  The invariant follows openMatch  *)
(* stake by stake; each handler in it writes a match of its own, and one   *)
(* that still lacks a stake is neither named nor proposed.                 *)
(***************************************************************************)
EXTENDS MCDevices, SequenceTheorems, FiniteSetTheorems, TLAPS

\* c is what a plugin holds, st what is stored, ws the writes under way,
\* D the rows of devices.
CredentialsOK(c, st, ws, D) ==
    /\ c.device # 0 => c.device \in 1..Len(D) /\ D[c.device] = c.key
    /\ st.device # 0 => st = c
    /\ \A i \in 1..Len(ws) : ws[i].device # 0 => ws[i] = c
    /\ st.device # 0 => \A i \in 1..Len(ws) : ws[i].device # 0
    /\ \A i, j \in 1..Len(ws) : i < j /\ ws[i].device # 0 => ws[j].device # 0

PluginsOK ==
    \A p \in Plugins : CredentialsOK(credential(p), stored[p], writes[p], devices)

SocketOK(s) ==
    /\ current(s) => claim[s].key = plugin[s[1]].key
    /\ phase[s] = "touch" => /\ claim[s].device \in 1..Len(devices)
                             /\ devices[claim[s].device] = claim[s].key

Inv == TypeOK /\ PluginsOK /\ \A s \in Sockets : SocketOK(s)

PluginState == [key : Keys, device : Ids, view : View,
                socket : 0..MaxSockets, reminted : BOOLEAN]

------------------------------------------------------------------------------
(* Credentials.                                                            *)

\* A new row takes no row away.
LEMMA RowsGrow ==
    ASSUME NEW c \in Identity, NEW st \in Identity, NEW ws \in Seq(Identity),
           NEW D \in Seq(Keys), NEW k \in Keys, CredentialsOK(c, st, ws, D)
    PROVE  CredentialsOK(c, st, ws, Append(D, k))
BY DEF CredentialsOK, Identity

\* auth.session: the device is the one the plugin was, or its first.
LEMMA SessionStored ==
    ASSUME NEW c \in Identity, NEW st \in Identity, NEW ws \in Seq(Identity),
           NEW D \in Seq(Keys), CredentialsOK(c, st, ws, D),
           NEW d \in 1..Len(D), D[d] = c.key, c.device \in {0, d},
           NEW n \in Identity, n.key = c.key, n.device = d
    PROVE  CredentialsOK(n, st, Append(ws, n), D)
<1>1. n.device = d /\ d # 0
  OBVIOUS
<1>2. c.device # 0 => n = c
  BY DEF Identity
<1>3. /\ Len(Append(ws, n)) = Len(ws) + 1
      /\ \A i \in 1..Len(ws) : Append(ws, n)[i] = ws[i]
      /\ Append(ws, n)[Len(ws) + 1] = n
  BY <1>1
<1>4. /\ st.device # 0 => st = n
      /\ \A i \in 1..Len(ws) : ws[i].device # 0 => ws[i] = n
  BY <1>2 DEF CredentialsOK
<1> HIDE DEF CredentialsOK
<1>5. \A i \in 1..(Len(ws) + 1) : i \in 1..Len(ws) \/ i = Len(ws) + 1
  OBVIOUS
<1>6. \A i \in 1..Len(Append(ws, n)) :
         Append(ws, n)[i].device # 0 => Append(ws, n)[i] = n
  BY <1>3, <1>4, <1>5
<1>7. st.device # 0 => \A i \in 1..Len(Append(ws, n)) : Append(ws, n)[i].device # 0
  BY <1>1, <1>3, <1>5 DEF CredentialsOK
<1>8. \A i, j \in 1..Len(Append(ws, n)) :
         i < j /\ Append(ws, n)[i].device # 0 => Append(ws, n)[j].device # 0
  <2> SUFFICES ASSUME NEW i \in 1..(Len(ws) + 1), NEW j \in 1..(Len(ws) + 1), i < j,
                      Append(ws, n)[i].device # 0
               PROVE  Append(ws, n)[j].device # 0
    BY <1>3
  <2>1. i \in 1..Len(ws)
    OBVIOUS
  <2>2. CASE j = Len(ws) + 1
    BY <2>2, <1>1, <1>3
  <2>3. CASE j \in 1..Len(ws)
    BY <2>1, <2>3, <1>3 DEF CredentialsOK
  <2> QED BY <2>2, <2>3, <1>5
<1> QED BY <1>1, <1>4, <1>6, <1>7, <1>8 DEF CredentialsOK

\* New keys of a plugin that has no device.
LEMMA RemintStored ==
    ASSUME NEW c \in Identity, NEW st \in Identity, NEW ws \in Seq(Identity),
           NEW D \in Seq(Keys), CredentialsOK(c, st, ws, D), c.device = 0,
           NEW n \in Identity, n.device = 0
    PROVE  CredentialsOK(n, st, Append(ws, n), D)
<1>1. st.device = 0 /\ \A i \in 1..Len(ws) : ws[i].device = 0
  BY DEF CredentialsOK
<1>2. \A i \in 1..Len(Append(ws, n)) : Append(ws, n)[i].device = 0
  BY <1>1
<1> QED BY <1>1, <1>2 DEF CredentialsOK

\* A write ends: what was a device is not changed.
LEMMA WriteEnds ==
    ASSUME NEW c \in Identity, NEW st \in Identity, NEW ws \in Seq(Identity),
           NEW D \in Seq(Keys), CredentialsOK(c, st, ws, D), ws # <<>>
    PROVE  /\ CredentialsOK(c, Head(ws), Tail(ws), D)
           /\ st.device # 0 => Head(ws) = st
<1>1. /\ Len(ws) > 0
      /\ Head(ws) = ws[1]
      /\ Len(Tail(ws)) = Len(ws) - 1
      /\ \A i \in 1..Len(Tail(ws)) : Tail(ws)[i] = ws[i + 1]
  OBVIOUS
<1>2. \A i \in 1..Len(Tail(ws)) : i + 1 \in 1..Len(ws)
  BY <1>1
<1> QED BY <1>1, <1>2 DEF CredentialsOK

\* loadKeys.
LEMMA Reloaded ==
    ASSUME NEW c, NEW st, NEW ws, NEW D, CredentialsOK(c, st, ws, D)
    PROVE  CredentialsOK(st, st, <<>>, D)
BY DEF CredentialsOK

------------------------------------------------------------------------------
(* What the plugin does with the answer to a socket.                       *)

PluginTypes ==
    /\ plugin \in [Plugins -> PluginState]
    /\ writes \in [Plugins -> Seq(Identity)]
    /\ made \in [Plugins -> Nat \ {0}]

\* Whatever is the current socket of a plugin was so before, with this key.
NoNewSocket ==
    \A t \in Sockets :
        current(t)' => current(t) /\ plugin'[t[1]].key = plugin[t[1]].key

\* The rows after the step suit what the plugins hold before it.
RowsSuit ==
    /\ devices' \in Seq(Keys)
    /\ \A d, e \in 1..Len(devices') : devices'[d] = devices'[e] => d = e
    /\ \A p \in Plugins : CredentialsOK(credential(p), stored[p], writes[p], devices')

LEMMA Types ==
    ASSUME TypeOK
    PROVE  /\ PluginTypes
           /\ \A p \in Plugins : credential(p) \in Identity /\ stored[p] \in Identity
           /\ \A s \in Sockets : s[1] \in Plugins /\ claim[s] \in Identity
<1>1. PluginTypes
  BY DEF TypeOK, PluginTypes, PluginState
<1>2. \A p \in Plugins : credential(p) \in Identity /\ stored[p] \in Identity
  BY <1>1 DEF TypeOK, PluginTypes, PluginState, credential, Identity
<1>3. \A s \in Sockets : s[1] \in Plugins /\ claim[s] \in Identity
  BY DEF TypeOK, Sockets
<1> QED BY <1>1, <1>2, <1>3

\* Nothing happens to what the plugins hold.
LEMMA PluginsStay ==
    ASSUME TypeOK, RowsSuit, UNCHANGED <<plugin, stored, writes, made>>
    PROVE  PluginTypes' /\ PluginsOK' /\ NoNewSocket
<1>1. PluginTypes'
  BY Types DEF PluginTypes
<1>2. PluginsOK'
  BY DEF PluginsOK, RowsSuit, credential
<1>3. NoNewSocket
  BY DEF NoNewSocket, current
<1> QED BY <1>1, <1>2, <1>3

LEMMA RefusedOK ==
    ASSUME TypeOK, RowsSuit, NEW s \in Sockets, refused(s), UNCHANGED stored
    PROVE  PluginTypes' /\ PluginsOK' /\ NoNewSocket
<1>1. CASE ~current(s)
  BY <1>1, PluginsStay DEF refused
<1>2. CASE current(s)
  <2> DEFINE p == s[1]
  <2>1. /\ plugin' = [plugin EXCEPT ![p].view = "refused"]
        /\ UNCHANGED <<stored, writes, made>>
    BY <1>2 DEF refused
  <2>2. p \in Plugins /\ PluginTypes
    BY Types
  <2> HIDE DEF p
  <2>3. PluginTypes'
    BY <2>1, <2>2 DEF PluginTypes, PluginState, View
  <2>4. \A q \in Plugins : /\ plugin'[q].key = plugin[q].key
                           /\ plugin'[q].device = plugin[q].device
                           /\ plugin'[q].socket = plugin[q].socket
                           /\ plugin'[q].view = "connecting" => plugin[q].view = "connecting"
    BY <2>1, <2>2 DEF PluginTypes, PluginState
  <2>5. PluginsOK'
    BY <2>1, <2>4 DEF PluginsOK, RowsSuit, credential
  <2>6. NoNewSocket
    BY <2>4, Types DEF NoNewSocket, current
  <2> QED BY <2>3, <2>5, <2>6
<1> QED BY <1>1, <1>2

LEMMA SessionOK ==
    ASSUME TypeOK, RowsSuit, NEW s \in Sockets, SocketOK(s),
           NEW d \in 1..Len(devices'), devices'[d] = claim[s].key,
           session(s, d), UNCHANGED stored
    PROVE  PluginTypes' /\ PluginsOK' /\ NoNewSocket
<1>1. CASE ~current(s)
  BY <1>1, PluginsStay DEF session
<1>2. CASE current(s)
  <2> DEFINE p == s[1]
             n == [credential(p) EXCEPT !.device = d]
  <2>1. /\ plugin' = [plugin EXCEPT ![p].view = "ready", ![p].device = d]
        /\ writes' = [writes EXCEPT ![p] = Append(@, n)]
        /\ UNCHANGED <<stored, made>>
    BY <1>2 DEF session
  <2>2. p \in Plugins /\ PluginTypes /\ d \in Nat \ {0}
    BY Types DEF RowsSuit
  <2>3. n \in Identity /\ n.key = plugin[p].key /\ n.device = d
    BY <2>2, Types DEF Identity, Ids, credential
  <2>4. devices'[d] = plugin[p].key
    BY <1>2 DEF SocketOK
  <2> HIDE DEF p, n
  <2>5. PluginTypes'
    <3>1. plugin' \in [Plugins -> PluginState]
      BY <2>1, <2>2 DEF PluginTypes, PluginState, View, Ids
    <3>2. writes' \in [Plugins -> Seq(Identity)]
      <4>1. Append(writes[p], n) \in Seq(Identity)
        BY <2>2, <2>3 DEF PluginTypes
      <4> QED BY <2>1, <2>2, <4>1 DEF PluginTypes
    <3> QED BY <2>1, <2>2, <3>1, <3>2 DEF PluginTypes
  <2>6. CredentialsOK(n, stored[p], Append(writes[p], n), devices')
    <3> DEFINE c == credential(p)
    <3>1. /\ CredentialsOK(c, stored[p], writes[p], devices')
          /\ c \in Identity /\ stored[p] \in Identity /\ writes[p] \in Seq(Identity)
          /\ c.key = plugin[p].key
      BY <2>2, Types DEF RowsSuit, PluginTypes, credential
    <3>2. c.device \in {0, d}
      BY <3>1, <2>4 DEF RowsSuit, CredentialsOK
    <3>3. devices' \in Seq(Keys)
      BY DEF RowsSuit
    <3> HIDE DEF c
    <3> QED BY <3>1, <3>2, <3>3, <2>3, <2>4, SessionStored
  <2>7. \A q \in Plugins \ {p} : plugin'[q] = plugin[q] /\ writes'[q] = writes[q]
    BY <2>1, <2>2 DEF PluginTypes
  <2>8. /\ plugin'[p].key = plugin[p].key /\ plugin'[p].device = d
        /\ plugin'[p].view = "ready"
        /\ writes'[p] = Append(writes[p], n)
    BY <2>1, <2>2 DEF PluginTypes, PluginState
  <2>9. PluginsOK'
    <3>1. credential(p)' = n
      BY <2>8, <2>3 DEF credential, Identity
    <3>2. ASSUME NEW q \in Plugins \ {p}
          PROVE  CredentialsOK(credential(q)', stored'[q], writes'[q], devices')
      BY <2>1, <2>7, <3>2 DEF RowsSuit, credential
    <3> QED BY <3>1, <3>2, <2>1, <2>6, <2>8 DEF PluginsOK
  <2>10. NoNewSocket
    BY <2>7, <2>8, Types DEF NoNewSocket, current
  <2> QED BY <2>5, <2>9, <2>10
<1> QED BY <1>1, <1>2

LEMMA UnauthorizedOK ==
    ASSUME TypeOK, RowsSuit, NEW s \in Sockets, unauthorized(s), UNCHANGED stored
    PROVE  PluginTypes' /\ PluginsOK' /\ NoNewSocket
<1>1. CASE ~(current(s) /\ mayRemint(s[1]))
  BY <1>1, RefusedOK DEF unauthorized
<1>2. CASE current(s) /\ mayRemint(s[1])
  <2> DEFINE p == s[1]
             fresh == <<p, made[p] + 1>>
             n == [credential(p) EXCEPT !.key = fresh]
  <2>1. /\ plugin' = [plugin EXCEPT ![p].key = fresh, ![p].reminted = TRUE,
                                    ![p].view = "offline"]
        /\ writes' = [writes EXCEPT ![p] = Append(@, n)]
        /\ made' = [made EXCEPT ![p] = @ + 1]
    BY <1>2 DEF unauthorized
  <2>2. p \in Plugins /\ PluginTypes
    BY Types
  <2>3. fresh \in Keys
    BY <2>2 DEF PluginTypes, Keys
  <2>4. n \in Identity /\ n.key = fresh /\ n.device = 0 /\ credential(p).device = 0
    BY <1>2, <2>2, <2>3, Types DEF Identity, Ids, credential, mayRemint
  <2> HIDE DEF p, n, fresh
  <2>5. PluginTypes'
    <3>1. plugin' \in [Plugins -> PluginState]
      <4> DEFINE r == [plugin[p] EXCEPT !.key = fresh, !.reminted = TRUE,
                                        !.view = "offline"]
      <4>1. plugin[p] \in PluginState
        BY <2>2 DEF PluginTypes
      <4>2. r \in PluginState
        BY <2>3, <4>1 DEF PluginState, View
      <4>3. plugin' = [plugin EXCEPT ![p] = r]
        BY <2>1
      <4> HIDE DEF r
      <4> QED BY <2>2, <4>2, <4>3 DEF PluginTypes
    <3>2. writes' \in [Plugins -> Seq(Identity)]
      <4>1. Append(writes[p], n) \in Seq(Identity)
        BY <2>2, <2>4 DEF PluginTypes
      <4> QED BY <2>1, <2>2, <4>1 DEF PluginTypes
    <3>3. made' \in [Plugins -> Nat \ {0}]
      BY <2>1, <2>2 DEF PluginTypes
    <3> QED BY <3>1, <3>2, <3>3 DEF PluginTypes
  <2>6. CredentialsOK(n, stored[p], Append(writes[p], n), devices')
    BY <2>2, <2>4, Types, RemintStored DEF RowsSuit, PluginTypes
  <2>7. \A q \in Plugins \ {p} : plugin'[q] = plugin[q] /\ writes'[q] = writes[q]
    BY <2>1, <2>2 DEF PluginTypes
  <2>8. /\ plugin'[p].key = fresh /\ plugin'[p].device = plugin[p].device
        /\ plugin'[p].view = "offline"
        /\ writes'[p] = Append(writes[p], n)
    BY <2>1, <2>2 DEF PluginTypes, PluginState
  <2>9. PluginsOK'
    <3>1. credential(p)' = n
      BY <2>8, <2>4 DEF credential, Identity
    <3>2. ASSUME NEW q \in Plugins \ {p}
          PROVE  CredentialsOK(credential(q)', stored'[q], writes'[q], devices')
      BY <2>7, <3>2 DEF RowsSuit, credential
    <3> QED BY <3>1, <3>2, <2>6, <2>8 DEF PluginsOK
  <2>10. NoNewSocket
    BY <2>7, <2>8, Types DEF NoNewSocket, current
  <2> QED BY <2>5, <2>9, <2>10
<1> QED BY <1>1, <1>2

------------------------------------------------------------------------------
(* Every step.                                                             *)

\* One move of the handler of a socket.
LEMMA HandlerMoves ==
    ASSUME Inv, NEW s \in Sockets, NEW a \in At, advance(s, a),
           UNCHANGED <<stored, claim>>,
           PluginTypes' /\ PluginsOK' /\ NoNewSocket,
           left' \in 0..Uses, faults' \in 0..MaxFaults, RowsSuit,
           Len(devices) <= Len(devices'),
           \A d \in 1..Len(devices) : devices'[d] = devices[d],
           a = "touch" => /\ claim[s].device \in 1..Len(devices)
                          /\ devices[claim[s].device] = claim[s].key
    PROVE  Inv'
<1>1. TypeOK'
  <2>1. phase' \in [Sockets -> At]
    BY DEF advance, Inv, TypeOK
  <2>2. \A d, e \in DOMAIN devices' : devices'[d] = devices'[e] => d = e
    BY DEF RowsSuit
  <2> QED BY <2>1, <2>2 DEF Inv, TypeOK, PluginTypes, PluginState, RowsSuit
<1>2. ASSUME NEW t \in Sockets PROVE SocketOK(t)'
  <2>1. current(t)' => claim'[t].key = plugin'[t[1]].key
    BY DEF NoNewSocket, Inv, SocketOK
  <2>2. ASSUME phase'[t] = "touch"
        PROVE  /\ claim[t].device \in 1..Len(devices)
               /\ devices[claim[t].device] = claim[t].key
    BY <2>2 DEF advance, Inv, SocketOK, TypeOK
  <2>3. Len(devices) \in Nat /\ Len(devices') \in Nat
    BY DEF Inv, TypeOK, RowsSuit
  <2>4. phase'[t] = "touch" => /\ claim'[t].device \in 1..Len(devices')
                               /\ devices'[claim'[t].device] = claim'[t].key
    BY <2>2, <2>3
  <2> QED BY <2>1, <2>4 DEF SocketOK
<1> QED BY <1>1, <1>2 DEF Inv

\* The rows stay as they are.
LEMMA SameRows ==
    ASSUME Inv, UNCHANGED devices
    PROVE  /\ RowsSuit
           /\ Len(devices) <= Len(devices')
           /\ \A d \in 1..Len(devices) : devices'[d] = devices[d]
<1>1. devices \in Seq(Keys) /\ devices' = devices
  BY DEF Inv, TypeOK
<1>2. Len(devices) \in Nat /\ DOMAIN devices = 1..Len(devices)
  BY <1>1
<1>3. \A d, e \in 1..Len(devices) : devices[d] = devices[e] => d = e
  BY <1>2 DEF Inv, TypeOK
<1>4. RowsSuit
  BY <1>1, <1>3 DEF RowsSuit, Inv, PluginsOK
<1> QED BY <1>1, <1>2, <1>4

LEMMA StepExpired ==
    ASSUME Inv, NEW s \in Sockets, Expired(s)
    PROVE  Inv'
<1>1. /\ refused(s) /\ advance(s, "late")
      /\ UNCHANGED <<stored, claim, left, devices>>
      /\ faults' = faults + 1 /\ faults + 1 <= MaxFaults
  BY DEF Expired, fails
<1>2. faults' \in 0..MaxFaults /\ left' \in 0..Uses
  BY <1>1, BoundsAssumption DEF Inv, TypeOK
<1>3. TypeOK
  BY DEF Inv
<1> QED BY <1>1, <1>2, <1>3, SameRows, RefusedOK, HandlerMoves DEF At

LEMMA StepFindDevice ==
    ASSUME Inv, NEW s \in Sockets, FindDevice(s)
    PROVE  Inv'
<1>1. UNCHANGED <<stored, claim, left, devices, faults>>
  BY DEF FindDevice
<1>2. faults' \in 0..MaxFaults /\ left' \in 0..Uses /\ TypeOK
  BY <1>1 DEF Inv, TypeOK
<1>3. CASE /\ rowOf(claim[s].key) = {} /\ advance(s, "find_x")
           /\ UNCHANGED <<plugin, writes, made>>
  BY <1>1, <1>2, <1>3, SameRows, PluginsStay, HandlerMoves DEF At
<1>4. CASE /\ rowOf(claim[s].key) = {claim[s].device} /\ advance(s, "touch")
           /\ UNCHANGED <<plugin, writes, made>>
  <2>1. /\ claim[s].device \in 1..Len(devices)
        /\ devices[claim[s].device] = claim[s].key
    <3>1. claim[s].device \in {d \in DOMAIN devices : devices[d] = claim[s].key}
      BY <1>4 DEF rowOf
    <3>2. DOMAIN devices = 1..Len(devices)
      BY DEF Inv, TypeOK
    <3> QED BY <3>1, <3>2
  <2> QED BY <2>1, <1>1, <1>2, <1>4, SameRows, PluginsStay, HandlerMoves DEF At
<1>5. CASE advance(s, "done") /\ unauthorized(s)
  BY <1>1, <1>2, <1>5, SameRows, UnauthorizedOK, HandlerMoves DEF At
<1>6. CASE advance(s, "done") /\ refused(s)
  BY <1>1, <1>2, <1>6, SameRows, RefusedOK, HandlerMoves DEF At
<1> QED BY <1>3, <1>4, <1>5, <1>6 DEF FindDevice

LEMMA StepTouchDevice ==
    ASSUME Inv, NEW s \in Sockets, TouchDevice(s)
    PROVE  Inv'
<1>1. /\ phase[s] = "touch" /\ advance(s, "done") /\ session(s, claim[s].device)
      /\ UNCHANGED <<stored, claim, left, devices, faults>>
  BY DEF TouchDevice
<1>2. /\ faults' \in 0..MaxFaults /\ left' \in 0..Uses
      /\ TypeOK /\ SocketOK(s)
  BY <1>1 DEF Inv, TypeOK
<1>3. /\ claim[s].device \in 1..Len(devices')
      /\ devices'[claim[s].device] = claim[s].key
  BY <1>1, <1>2 DEF SocketOK
<1>4. PluginTypes' /\ PluginsOK' /\ NoNewSocket
  BY <1>1, <1>2, <1>3, SameRows, SessionOK
<1> QED BY <1>1, <1>2, <1>4, SameRows, HandlerMoves DEF At

LEMMA StepFindX25519 ==
    ASSUME Inv, NEW s \in Sockets, FindX25519(s)
    PROVE  Inv'
<1>1. UNCHANGED <<stored, claim, left, devices, faults>>
  BY DEF FindX25519
<1>2. faults' \in 0..MaxFaults /\ left' \in 0..Uses /\ TypeOK
  BY <1>1 DEF Inv, TypeOK
<1>3. CASE advance(s, "consume") /\ UNCHANGED <<plugin, writes, made>>
  BY <1>1, <1>2, <1>3, SameRows, PluginsStay, HandlerMoves DEF At
<1>4. CASE advance(s, "done") /\ refused(s)
  BY <1>1, <1>2, <1>4, SameRows, RefusedOK, HandlerMoves DEF At
<1> QED BY <1>3, <1>4 DEF FindX25519

LEMMA StepConsumeInvite ==
    ASSUME Inv, NEW s \in Sockets, ConsumeInvite(s)
    PROVE  Inv'
<1>1. /\ UNCHANGED <<stored, claim, devices, faults>>
      /\ left' = IF left > 0 THEN left - 1 ELSE left
  BY DEF ConsumeInvite
<1>2. faults' \in 0..MaxFaults /\ left' \in 0..Uses /\ TypeOK
  BY <1>1, UsesAssumption DEF Inv, TypeOK
<1>3. CASE advance(s, "put") /\ UNCHANGED <<plugin, writes, made>>
  BY <1>1, <1>2, <1>3, SameRows, PluginsStay, HandlerMoves DEF At
<1>4. CASE advance(s, "done") /\ refused(s)
  BY <1>1, <1>2, <1>4, SameRows, RefusedOK, HandlerMoves DEF At
<1>5. CASE advance(s, "done") /\ unauthorized(s)
  BY <1>1, <1>2, <1>5, SameRows, UnauthorizedOK, HandlerMoves DEF At
<1> QED BY <1>3, <1>4, <1>5 DEF ConsumeInvite

LEMMA StepPutDevice ==
    ASSUME Inv, NEW s \in Sockets, PutDevice(s)
    PROVE  Inv'
<1>1. advance(s, "done") /\ UNCHANGED <<stored, claim, left, faults>>
  BY DEF PutDevice
<1>2. /\ faults' \in 0..MaxFaults /\ left' \in 0..Uses
      /\ TypeOK /\ SocketOK(s)
  BY <1>1 DEF Inv, TypeOK
<1>3. CASE ~unique(claim[s].key)
  BY <1>1, <1>2, <1>3, SameRows, RefusedOK, HandlerMoves DEF PutDevice, At
<1>4. CASE unique(claim[s].key)
  <2> DEFINE k == claim[s].key
             d == Len(devices) + 1
  <2>1. devices' = Append(devices, k) /\ session(s, d)
    BY <1>4 DEF PutDevice
  <2>2. devices \in Seq(Keys) /\ k \in Keys
    BY <1>2, Types DEF TypeOK, Identity
  <2>3. \A e \in 1..Len(devices) : devices[e] # k
    BY <1>4, <2>2 DEF unique, rowOf
  <2> HIDE DEF k
  <2>4. /\ Len(devices') = d /\ d \in Nat \ {0} /\ devices'[d] = k
        /\ \A e \in 1..Len(devices) : devices'[e] = devices[e]
    BY <2>1, <2>2
  <2>5. RowsSuit
    <3>1. devices' \in Seq(Keys)
      BY <2>1, <2>2
    <3>2. \A e, f \in 1..Len(devices') : devices'[e] = devices'[f] => e = f
      <4>1. \A e \in 1..Len(devices') : e \in 1..Len(devices) \/ e = d
        BY <2>2, <2>4
      <4>2. \A e, f \in 1..Len(devices) : devices[e] = devices[f] => e = f
        BY <1>2, <2>2 DEF TypeOK
      <4> HIDE DEF d
      <4> QED BY <4>1, <4>2, <2>3, <2>4
    <3>3. ASSUME NEW p \in Plugins
          PROVE  CredentialsOK(credential(p), stored[p], writes[p], devices')
      BY <1>2, <2>1, <2>2, <3>3, Types, RowsGrow DEF Inv, PluginsOK, PluginTypes
    <3> QED BY <3>1, <3>2, <3>3 DEF RowsSuit
  <2>6. PluginTypes' /\ PluginsOK' /\ NoNewSocket
    <3>1. d \in 1..Len(devices') /\ devices'[d] = claim[s].key
      BY <2>4 DEF k
    <3> QED BY <1>1, <1>2, <2>1, <2>5, <3>1, SessionOK
  <2>7. Len(devices) <= Len(devices')
    BY <2>2, <2>4
  <2> QED BY <1>1, <1>2, <2>4, <2>5, <2>6, <2>7, HandlerMoves DEF At
<1> QED BY <1>3, <1>4

LEMMA StepConnect ==
    ASSUME Inv, NEW p \in Plugins, Connect(p)
    PROVE  Inv'
<1> DEFINE n == plugin[p].socket + 1
           t == <<p, n>>
<1>1. /\ plugin' = [plugin EXCEPT ![p].view = "connecting", ![p].socket = n]
      /\ phase' = [phase EXCEPT ![t] = "hello"]
      /\ claim' = [claim EXCEPT ![t].key = plugin[p].key]
      /\ plugin[p].socket < MaxSockets
      /\ UNCHANGED <<stored, writes, made, left, devices, faults>>
  BY DEF Connect, advance
<1>2. TypeOK /\ PluginTypes
  BY Types DEF Inv
<1>3. n \in 1..MaxSockets /\ t \in Sockets /\ plugin[p].key \in Keys
  BY <1>1, <1>2, BoundsAssumption DEF PluginTypes, PluginState, Sockets
<1> HIDE DEF n, t
<1>4. plugin' \in [Plugins -> PluginState]
  <2> DEFINE r == [plugin[p] EXCEPT !.view = "connecting", !.socket = n]
  <2>1. plugin[p] \in PluginState /\ n \in 0..MaxSockets
    BY <1>2, <1>3, BoundsAssumption DEF PluginTypes
  <2>2. r \in PluginState
    BY <2>1 DEF PluginState, View
  <2>3. plugin' = [plugin EXCEPT ![p] = r]
    BY <1>1, <1>2 DEF PluginTypes
  <2> QED BY <1>2, <2>2, <2>3 DEF PluginTypes
<1>5. TypeOK'
  <2>1. phase' \in [Sockets -> At]
    BY <1>1, <1>2 DEF TypeOK, At
  <2>2. claim' \in [Sockets -> Identity]
    BY <1>1, <1>2, <1>3 DEF TypeOK, Identity
  <2> QED BY <1>1, <1>2, <1>4, <2>1, <2>2 DEF TypeOK, PluginState
<1>6. \A q \in Plugins : plugin'[q].key = plugin[q].key /\ plugin'[q].device = plugin[q].device
  BY <1>1, <1>2 DEF PluginTypes, PluginState
<1>7. PluginsOK'
  BY <1>1, <1>6 DEF Inv, PluginsOK, credential
<1>8. ASSUME NEW s \in Sockets PROVE SocketOK(s)'
  <2>1. CASE s = t
    <3>1. claim'[s].key = plugin[p].key /\ phase'[s] = "hello" /\ s[1] = p
      BY <2>1, <1>1, <1>2, <1>3 DEF TypeOK, t, Identity
    <3> QED BY <3>1, <1>6 DEF SocketOK
  <2>2. CASE s # t
    <3>1. claim'[s] = claim[s] /\ phase'[s] = phase[s]
      BY <2>2, <1>1, <1>2 DEF TypeOK
    <3>2. current(s)' => current(s)
      <4>1. s[1] \in Plugins /\ s = <<s[1], s[2]>>
        BY DEF Sockets
      <4>2. CASE s[1] = p
        <5>1. plugin'[p].socket = n
          BY <1>1, <1>2 DEF PluginTypes, PluginState
        <5>2. s[2] # n
          BY <2>2, <4>1, <4>2 DEF t
        <5> QED BY <4>2, <5>1, <5>2 DEF current
      <4>3. CASE s[1] # p
        BY <4>1, <4>3, <1>1, <1>2 DEF PluginTypes, current
      <4> QED BY <4>2, <4>3
    <3>3. plugin'[s[1]].key = plugin[s[1]].key
      BY <1>6 DEF Sockets
    <3> QED BY <3>1, <3>2, <3>3, <1>1 DEF Inv, SocketOK
  <2> QED BY <2>1, <2>2
<1> QED BY <1>5, <1>7, <1>8 DEF Inv

LEMMA StepRespond ==
    ASSUME Inv, NEW s \in Sockets, Respond(s)
    PROVE  Inv'
<1>1. /\ phase[s] = "hello"
      /\ claim' = [claim EXCEPT ![s].device = plugin[s[1]].device]
      /\ phase' = [phase EXCEPT ![s] = "find"]
      /\ UNCHANGED <<plugin, stored, writes, made, left, devices, faults>>
  BY DEF Respond, advance, signedFor
<1>2. TypeOK /\ PluginTypes /\ s[1] \in Plugins
  BY Types DEF Inv
<1>3. plugin[s[1]].device \in Ids
  BY <1>2 DEF PluginTypes, PluginState
<1>4. TypeOK'
  <2>1. phase' \in [Sockets -> At]
    BY <1>1, <1>2 DEF TypeOK, At
  <2>2. claim' \in [Sockets -> Identity]
    BY <1>1, <1>2, <1>3 DEF TypeOK, Identity
  <2> QED BY <1>1, <1>2, <2>1, <2>2 DEF TypeOK
<1>5. PluginsOK'
  BY <1>1 DEF Inv, PluginsOK, credential
<1>6. ASSUME NEW t \in Sockets PROVE SocketOK(t)'
  <2>1. claim'[t].key = claim[t].key
    BY <1>1, <1>2 DEF TypeOK, Identity
  <2>2. phase'[t] = "touch" => t # s /\ phase[t] = "touch" /\ claim'[t] = claim[t]
    BY <1>1, <1>2 DEF TypeOK
  <2> QED BY <1>1, <2>1, <2>2 DEF Inv, SocketOK, current
<1> QED BY <1>4, <1>5, <1>6 DEF Inv

LEMMA StepPersisted ==
    ASSUME Inv, NEW p \in Plugins, Persisted(p)
    PROVE  /\ Inv'
           /\ \A q \in Plugins : stored[q].device # 0 => stored'[q] = stored[q]
<1>1. /\ writes[p] # <<>>
      /\ stored' = [stored EXCEPT ![p] = Head(writes[p])]
      /\ writes' = [writes EXCEPT ![p] = Tail(writes[p])]
      /\ UNCHANGED <<plugin, made, phase, claim, left, devices, faults>>
  BY DEF Persisted
<1>2. TypeOK /\ PluginTypes
  BY Types DEF Inv
<1>3. /\ writes[p] \in Seq(Identity) /\ Head(writes[p]) \in Identity
      /\ Tail(writes[p]) \in Seq(Identity)
  BY <1>1, <1>2 DEF PluginTypes
<1>4. TypeOK'
  <2>1. stored' \in [Plugins -> Identity] /\ writes' \in [Plugins -> Seq(Identity)]
    BY <1>1, <1>2, <1>3 DEF TypeOK
  <2> QED BY <1>1, <1>2, <2>1 DEF TypeOK
<1>5. /\ CredentialsOK(credential(p), Head(writes[p]), Tail(writes[p]), devices)
      /\ stored[p].device # 0 => Head(writes[p]) = stored[p]
  BY <1>1, <1>2, <1>3, Types, WriteEnds DEF Inv, PluginsOK, TypeOK
<1>6. PluginsOK'
  <2>1. ASSUME NEW q \in Plugins \ {p}
        PROVE  stored'[q] = stored[q] /\ writes'[q] = writes[q]
    BY <1>1, <1>2 DEF TypeOK
  <2>2. stored'[p] = Head(writes[p]) /\ writes'[p] = Tail(writes[p])
    BY <1>1, <1>2 DEF TypeOK
  <2> QED BY <1>1, <1>5, <2>1, <2>2 DEF Inv, PluginsOK, credential
<1>7. \A t \in Sockets : SocketOK(t)'
  BY <1>1 DEF Inv, SocketOK, current
<1>8. \A q \in Plugins : stored[q].device # 0 => stored'[q] = stored[q]
  BY <1>1, <1>2, <1>5 DEF TypeOK
<1> QED BY <1>4, <1>6, <1>7, <1>8 DEF Inv

\* Plugins lose their sockets, and keep or reload what they hold.
LEMMA SocketsLost ==
    ASSUME Inv, UNCHANGED <<stored, claim, left, devices, made>>,
           faults' \in 0..MaxFaults,
           phase' \in [Sockets -> At],
           \A s \in Sockets : phase'[s] = "touch" => phase[s] = "touch",
           PluginTypes', PluginsOK',
           \A p \in Plugins : plugin'[p] = plugin[p] \/ plugin'[p].view = "offline"
    PROVE  Inv'
<1>1. TypeOK'
  BY DEF Inv, TypeOK, PluginTypes, PluginState
<1>2. ASSUME NEW s \in Sockets PROVE SocketOK(s)'
  <2>1. current(s)' => plugin'[s[1]] = plugin[s[1]]
    BY Types DEF Inv, current
  <2> QED BY <2>1 DEF Inv, SocketOK, current
<1> QED BY <1>1, <1>2 DEF Inv

LEMMA StepSocketCloses ==
    ASSUME Inv, NEW p \in Plugins, SocketCloses(p)
    PROVE  Inv'
<1>1. /\ plugin' = [plugin EXCEPT ![p].view = "offline"]
      /\ faults' = faults + 1 /\ faults + 1 <= MaxFaults
      /\ UNCHANGED <<stored, writes, made, phase, claim, left, devices>>
  BY DEF SocketCloses, fails
<1>2. TypeOK /\ PluginTypes
  BY Types DEF Inv
<1>3. faults' \in 0..MaxFaults /\ phase' \in [Sockets -> At]
  BY <1>1, <1>2, BoundsAssumption DEF TypeOK
<1>4. PluginTypes'
  BY <1>1, <1>2 DEF PluginTypes, PluginState, View
<1>5. \A q \in Plugins : /\ plugin'[q].key = plugin[q].key
                         /\ plugin'[q].device = plugin[q].device
                         /\ plugin'[q] = plugin[q] \/ plugin'[q].view = "offline"
  BY <1>1, <1>2 DEF PluginTypes, PluginState
<1>6. PluginsOK'
  BY <1>1, <1>5 DEF Inv, PluginsOK, credential
<1> QED BY <1>1, <1>3, <1>4, <1>5, <1>6, SocketsLost

LEMMA StepPluginRestarts ==
    ASSUME Inv, NEW p \in Plugins, PluginRestarts(p)
    PROVE  Inv'
<1>1. /\ plugin' = [plugin EXCEPT ![p].key = stored[p].key, ![p].device = stored[p].device,
                                  ![p].view = "offline", ![p].reminted = FALSE]
      /\ writes' = [writes EXCEPT ![p] = <<>>]
      /\ faults' = faults + 1 /\ faults + 1 <= MaxFaults
      /\ UNCHANGED <<stored, made, phase, claim, left, devices>>
  BY DEF PluginRestarts, fails, loaded
<1>2. TypeOK /\ PluginTypes /\ stored[p] \in Identity
  BY Types DEF Inv
<1>3. faults' \in 0..MaxFaults /\ phase' \in [Sockets -> At]
  BY <1>1, <1>2, BoundsAssumption DEF TypeOK
<1>4. PluginTypes'
  <2>1. plugin' \in [Plugins -> PluginState]
    <3> DEFINE r == [plugin[p] EXCEPT !.key = stored[p].key, !.device = stored[p].device,
                                      !.view = "offline", !.reminted = FALSE]
    <3>1. plugin[p] \in PluginState /\ stored[p].key \in Keys /\ stored[p].device \in Ids
      BY <1>2 DEF PluginTypes, Identity
    <3>2. r \in PluginState
      BY <3>1 DEF PluginState, View
    <3>3. plugin' = [plugin EXCEPT ![p] = r]
      BY <1>1, <1>2 DEF PluginTypes
    <3> QED BY <1>2, <3>2, <3>3 DEF PluginTypes
  <2>2. <<>> \in Seq(Identity)
    OBVIOUS
  <2>3. writes' \in [Plugins -> Seq(Identity)]
    BY <1>1, <1>2, <2>2 DEF PluginTypes
  <2> QED BY <1>1, <1>2, <2>1, <2>3 DEF PluginTypes
<1>5. \A q \in Plugins \ {p} : plugin'[q] = plugin[q] /\ writes'[q] = writes[q]
  BY <1>1, <1>2 DEF PluginTypes
<1>6. /\ plugin'[p].key = stored[p].key /\ plugin'[p].device = stored[p].device
      /\ plugin'[p].view = "offline" /\ writes'[p] = <<>>
  BY <1>1, <1>2 DEF PluginTypes, PluginState
<1>7. PluginsOK'
  <2>1. credential(p)' = stored[p]
    BY <1>2, <1>6 DEF credential, Identity
  <2>2. CredentialsOK(stored[p], stored[p], <<>>, devices)
    BY Reloaded DEF Inv, PluginsOK
  <2>3. ASSUME NEW q \in Plugins \ {p}
        PROVE  CredentialsOK(credential(q)', stored'[q], writes'[q], devices')
    BY <1>1, <1>5, <2>3 DEF Inv, PluginsOK, credential
  <2> QED BY <1>1, <1>6, <2>1, <2>2, <2>3 DEF PluginsOK
<1> QED BY <1>1, <1>3, <1>4, <1>5, <1>6, <1>7, SocketsLost

LEMMA StepServerRestarts ==
    ASSUME Inv, ServerRestarts
    PROVE  Inv'
<1> DEFINE n == Cardinality({p \in Plugins : plugin[p].view # "offline"})
<1>1. /\ plugin' = [p \in Plugins |-> [plugin[p] EXCEPT !.view = "offline"]]
      /\ phase' = [s \in Sockets |-> IF phase[s] \in {"unused", "late"} THEN phase[s] ELSE "done"]
      /\ faults' = faults + n /\ faults + n <= MaxFaults
      /\ UNCHANGED <<stored, writes, made, claim, left, devices>>
  BY DEF ServerRestarts, fails
<1>2. TypeOK /\ PluginTypes
  BY Types DEF Inv
<1>3. n \in Nat
  BY PluginsAssumption, FS_Subset, FS_CardinalityType
<1> HIDE DEF n
<1>4. faults' \in 0..MaxFaults
  BY <1>1, <1>2, <1>3, BoundsAssumption DEF TypeOK
<1>5. phase' \in [Sockets -> At] /\ \A s \in Sockets : phase'[s] # "touch"
  BY <1>1, <1>2 DEF TypeOK, At
<1>6. PluginTypes'
  BY <1>1, <1>2 DEF PluginTypes, PluginState, View
<1>7. \A q \in Plugins : /\ plugin'[q].key = plugin[q].key
                         /\ plugin'[q].device = plugin[q].device
                         /\ plugin'[q].view = "offline"
  BY <1>1, <1>2 DEF PluginTypes, PluginState
<1>8. PluginsOK'
  BY <1>1, <1>7 DEF Inv, PluginsOK, credential
<1> QED BY <1>1, <1>4, <1>5, <1>6, <1>7, <1>8, SocketsLost

------------------------------------------------------------------------------
(* Initial states and steps.                                               *)

LEMMA InvInit == Init => Inv
<1> SUFFICES ASSUME Init PROVE Inv
  OBVIOUS
<1>1. \A p \in Plugins : <<p, 1>> \in Keys
  BY DEF Keys
<1>2. \A s \in Sockets : s \in Keys
  BY BoundsAssumption DEF Sockets, Keys
<1>3. <<>> \in Seq(Identity) /\ <<>> \in Seq(Keys) /\ Len(<<>>) = 0
  OBVIOUS
<1>4. plugin \in [Plugins -> PluginState]
  BY <1>1, BoundsAssumption DEF Init, PluginState, Ids, View
<1>5. stored \in [Plugins -> Identity] /\ claim \in [Sockets -> Identity]
  BY <1>1, <1>2 DEF Init, Identity, Ids
<1>6. writes \in [Plugins -> Seq(Identity)] /\ devices \in Seq(Keys)
  BY <1>3 DEF Init
<1>7. TypeOK
  <2>1. /\ made \in [Plugins -> Nat \ {0}] /\ phase \in [Sockets -> At]
        /\ left \in 0..Uses /\ faults \in 0..MaxFaults
    BY UsesAssumption, BoundsAssumption DEF Init, At
  <2>2. \A d, e \in DOMAIN devices : devices[d] = devices[e] => d = e
    BY DEF Init
  <2> QED BY <1>4, <1>5, <1>6, <2>1, <2>2 DEF TypeOK, PluginState
<1>8. PluginsOK
  <2> SUFFICES ASSUME NEW p \in Plugins
               PROVE  CredentialsOK(credential(p), stored[p], writes[p], devices)
    BY DEF PluginsOK
  <2>1. credential(p).device = 0 /\ stored[p].device = 0 /\ writes[p] = <<>>
    BY DEF Init, credential
  <2> QED BY <2>1, <1>3 DEF CredentialsOK
<1>9. \A s \in Sockets : SocketOK(s)
  BY Types, <1>7 DEF Init, SocketOK, current
<1> QED BY <1>7, <1>8, <1>9 DEF Inv

\* What a step of the specification does to the invariant and to credentials.
LEMMA InvStep ==
    ASSUME Inv, [Next]_vars
    PROVE  /\ Inv'
           /\ \A p \in Plugins : stored[p].device # 0 => stored'[p] = stored[p]
<1>1. ASSUME NEW p \in Plugins, Persisted(p)
      PROVE  Inv' /\ \A q \in Plugins : stored[q].device # 0 => stored'[q] = stored[q]
  BY <1>1, StepPersisted
<1>2. ASSUME NEW p \in Plugins, Connect(p) \/ SocketCloses(p) \/ PluginRestarts(p)
      PROVE  Inv' /\ stored' = stored
  BY <1>2, StepConnect, StepSocketCloses, StepPluginRestarts
     DEF Connect, SocketCloses, PluginRestarts
<1>3. ASSUME NEW s \in Sockets, Respond(s) \/ Expired(s)
      PROVE  Inv' /\ stored' = stored
  BY <1>3, StepRespond, StepExpired DEF Respond, Expired
<1>4. ASSUME NEW s \in Sockets, Redeem(s)
      PROVE  Inv' /\ stored' = stored
  <2>1. Inv'
    BY <1>4, StepFindDevice, StepTouchDevice, StepFindX25519, StepConsumeInvite,
       StepPutDevice DEF Redeem
  <2>2. stored' = stored
    BY <1>4 DEF Redeem, FindDevice, TouchDevice, FindX25519, ConsumeInvite, PutDevice
  <2> QED BY <2>1, <2>2
<1>5. CASE ServerRestarts
  <2>1. stored' = stored
    BY <1>5 DEF ServerRestarts
  <2> QED BY <1>5, <2>1, StepServerRestarts
<1>6. CASE UNCHANGED vars
  <2>1. Inv' /\ stored' = stored
    BY <1>6 DEF vars, Inv, TypeOK, PluginsOK, CredentialsOK, credential, SocketOK, current
  <2> QED BY <2>1
<1> QED BY <1>1, <1>2, <1>3, <1>4, <1>5, <1>6 DEF Next

------------------------------------------------------------------------------
(* The uses of the invite.  A use is lost when a second socket of a plugin *)
(* takes one for the key of the first.  Two of its sockets are under way   *)
(* only if one was cut off, which was a failure; so every use that is lost *)
(* or may yet be (AtRisk) has a failure of its own.                        *)

PluginKeys ==
    \A p \in Plugins :
        /\ plugin[p].key[1] = p /\ stored[p].key[1] = p
        /\ \A i \in 1..Len(writes[p]) : writes[p][i].key[1] = p

\* What a socket has claimed.
ClaimOK(s) ==
    /\ claim[s].key[1] = s[1]
    /\ claim[s].device # 0 => /\ claim[s].device \in 1..Len(devices)
                              /\ devices[claim[s].device] = claim[s].key
    /\ s[2] > plugin[s[1]].socket => phase[s] = "unused"
    /\ phase[s] \in {"unused", "hello", "find_x", "consume", "put"} => claim[s].device = 0

atRisk(s) ==
    \/ phase[s] = "find" /\ ~current(s)
    \/ phase[s] \in {"find_x", "consume", "put"} /\ (rowOf(claim[s].key) # {} \/ ~current(s))

AtRisk == {s \in Sockets : atRisk(s)}
Paying == {s \in Sockets : phase[s] = "put"}
Lost == (Uses - left) - Len(devices) - Cardinality(Paying)

BudgetOK == Lost >= 0 /\ Lost + Cardinality(AtRisk) <= faults

UsesInv == Inv /\ PluginKeys /\ (\A s \in Sockets : ClaimOK(s)) /\ BudgetOK

LEMMA SocketsCount ==
    \A S \in SUBSET Sockets : IsFiniteSet(S) /\ Cardinality(S) \in Nat
<1>1. IsFiniteSet(Sockets)
  <2>1. IsFiniteSet(1..MaxSockets)
    BY BoundsAssumption, FS_Interval
  <2> QED BY <2>1, PluginsAssumption, FS_Product DEF Sockets
<1> QED BY <1>1, FS_Subset, FS_CardinalityType

LEMMA MoreSockets ==
    ASSUME NEW S \in SUBSET Sockets, NEW T \in SUBSET Sockets, S \subseteq T
    PROVE  Cardinality(S) <= Cardinality(T)
BY SocketsCount, FS_Subset

LEMMA OneMoreSocket ==
    ASSUME NEW S \in SUBSET Sockets, NEW T \in SUBSET Sockets, NEW t, S \subseteq T \cup {t}
    PROVE  Cardinality(S) <= Cardinality(T) + 1
<1>1. IsFiniteSet(T \cup {t}) /\ Cardinality(T \cup {t}) <= Cardinality(T) + 1
  BY SocketsCount, FS_AddElement
<1>2. Cardinality(S) <= Cardinality(T \cup {t}) /\ Cardinality(T \cup {t}) \in Nat
  BY <1>1, FS_Subset, FS_CardinalityType
<1> QED BY <1>1, <1>2, SocketsCount

LEMMA OneSocketLess ==
    ASSUME NEW S \in SUBSET Sockets, NEW T \in SUBSET Sockets, NEW s \in T, S \subseteq T \ {s}
    PROVE  Cardinality(S) + 1 <= Cardinality(T)
<1>1. T \ {s} \in SUBSET Sockets /\ Cardinality(T \ {s}) = Cardinality(T) - 1
  BY SocketsCount, FS_RemoveElement
<1>2. Cardinality(S) <= Cardinality(T \ {s})
  BY <1>1, MoreSockets
<1> QED BY <1>1, <1>2, SocketsCount

\* The numbers of a step.
LEMMA BudgetMoves ==
    ASSUME UsesInv, Inv', Lost' >= Lost,
           Lost' + Cardinality(AtRisk') - faults' <= Lost + Cardinality(AtRisk) - faults
    PROVE  BudgetOK'
<1>1. /\ Lost \in Int /\ Lost' \in Int
      /\ Cardinality(AtRisk) \in Nat /\ Cardinality(AtRisk') \in Nat
      /\ faults \in Nat /\ faults' \in Nat
  <2>1. /\ AtRisk \in SUBSET Sockets /\ Paying \in SUBSET Sockets
        /\ AtRisk' \in SUBSET Sockets /\ Paying' \in SUBSET Sockets
    BY DEF AtRisk, Paying
  <2>2. /\ left \in Int /\ left' \in Int /\ Len(devices) \in Nat /\ Len(devices)' \in Nat
        /\ faults \in Nat /\ faults' \in Nat
    BY UsesAssumption, BoundsAssumption DEF UsesInv, Inv, TypeOK
  <2>3. Cardinality(Paying) \in Nat /\ Cardinality(Paying') \in Nat
    BY <2>1, SocketsCount
  <2>4. Cardinality(AtRisk) \in Nat /\ Cardinality(AtRisk') \in Nat
    BY <2>1, SocketsCount
  <2>5. Lost \in Int
    BY <2>2, <2>3, UsesAssumption DEF Lost
  <2>6. Lost' = (Uses - left') - Len(devices') - Cardinality(Paying')
    BY DEF Lost
  <2>7. Lost' \in Int
    BY <2>2, <2>3, <2>6, UsesAssumption
  <2> QED BY <2>2, <2>4, <2>5, <2>7
<1> QED BY <1>1 DEF UsesInv, BudgetOK

\* What an answer to a socket does to the others.
Answered(s) ==
    \/ UNCHANGED <<plugin, writes, made>>
    \/ refused(s)
    \/ unauthorized(s)
    \/ \E d \in Ids : session(s, d)

LEMMA AnswerElsewhere ==
    ASSUME Inv, PluginKeys, NEW s \in Sockets, UNCHANGED stored, Answered(s)
    PROVE  /\ PluginKeys'
           /\ \A p \in Plugins : plugin'[p].socket = plugin[p].socket
           /\ \A t \in Sockets \ {s} : current(t)' <=> current(t)
<1> DEFINE p == s[1]
<1>1. p \in Plugins /\ PluginTypes /\ s = <<p, s[2]>>
  BY Types DEF Inv, Sockets
<1>2. CASE UNCHANGED <<plugin, writes, made>>
  BY <1>2 DEF PluginKeys, current
<1>3. CASE current(s) /\ plugin' = [plugin EXCEPT ![p].view = "refused"] /\ UNCHANGED writes
  <2>1. \A q \in Plugins : plugin'[q].key = plugin[q].key /\ plugin'[q].socket = plugin[q].socket
    BY <1>1, <1>3 DEF PluginTypes, PluginState
  <2>2. ASSUME NEW t \in Sockets \ {s} PROVE current(t)' <=> current(t)
    <3>1. CASE t[1] = p
      <4>1. t[2] # s[2]
        BY <1>1, <3>1 DEF Sockets
      <4> QED BY <1>1, <1>3, <2>1, <3>1, <4>1 DEF current
    <3>2. CASE t[1] # p
      BY <1>1, <1>3, <3>2 DEF PluginTypes, Sockets, current
    <3> QED BY <3>1, <3>2
  <2> QED BY <1>3, <2>1, <2>2 DEF PluginKeys
<1>4. CASE current(s) /\ \E d \in Ids : session(s, d)
  <2> PICK d \in Ids : session(s, d)
    BY <1>4
  <2> DEFINE n == [credential(p) EXCEPT !.device = d]
  <2>1. /\ plugin' = [plugin EXCEPT ![p].view = "ready", ![p].device = d]
        /\ writes' = [writes EXCEPT ![p] = Append(@, n)]
    BY <1>4 DEF session
  <2>2. n.key = plugin[p].key /\ n \in Identity
    BY <1>1, Types DEF credential, Identity, Inv
  <2> HIDE DEF n
  <2>3. \A q \in Plugins : plugin'[q].key = plugin[q].key /\ plugin'[q].socket = plugin[q].socket
    BY <1>1, <2>1 DEF PluginTypes, PluginState
  <2>4. \A q \in Plugins \ {p} : plugin'[q] = plugin[q] /\ writes'[q] = writes[q]
    BY <1>1, <2>1 DEF PluginTypes
  <2>5. plugin'[p].view = "ready" /\ writes'[p] = Append(writes[p], n)
    BY <1>1, <2>1 DEF PluginTypes, PluginState
  <2>6. \A i \in 1..Len(writes'[p]) : writes'[p][i].key[1] = p
    BY <1>1, <2>2, <2>5 DEF PluginKeys, PluginTypes
  <2>7. ASSUME NEW t \in Sockets \ {s} PROVE current(t)' <=> current(t)
    <3>1. CASE t[1] = p
      <4>1. t[2] # s[2]
        BY <1>1, <3>1 DEF Sockets
      <4> QED BY <1>1, <1>4, <2>3, <2>5, <3>1, <4>1 DEF current
    <3>2. CASE t[1] # p
      BY <2>4, <3>2 DEF Sockets, current
    <3> QED BY <3>1, <3>2
  <2> QED BY <2>3, <2>4, <2>6, <2>7 DEF PluginKeys
<1>5. CASE current(s) /\ mayRemint(p) /\ unauthorized(s)
  <2> DEFINE fresh == <<p, made[p] + 1>>
             n == [credential(p) EXCEPT !.key = fresh]
  <2>1. /\ plugin' = [plugin EXCEPT ![p].key = fresh, ![p].reminted = TRUE,
                                    ![p].view = "offline"]
        /\ writes' = [writes EXCEPT ![p] = Append(@, n)]
    BY <1>5 DEF unauthorized
  <2>2. n.key = fresh /\ n \in Identity /\ fresh[1] = p
    <3>1. fresh \in Keys /\ fresh[1] = p
      BY <1>1 DEF PluginTypes, Keys
    <3>2. credential(p) \in Identity
      BY <1>1, Types DEF Inv
    <3> HIDE DEF fresh
    <3> QED BY <3>1, <3>2 DEF Identity
  <2> HIDE DEF n, fresh
  <2>3. \A q \in Plugins \ {p} : plugin'[q] = plugin[q] /\ writes'[q] = writes[q]
    BY <1>1, <2>1 DEF PluginTypes
  <2>4. /\ plugin'[p].view = "offline" /\ plugin'[p].key = fresh
        /\ plugin'[p].socket = plugin[p].socket /\ writes'[p] = Append(writes[p], n)
    BY <1>1, <2>1 DEF PluginTypes, PluginState
  <2>5. \A i \in 1..Len(writes'[p]) : writes'[p][i].key[1] = p
    BY <1>1, <2>2, <2>4 DEF PluginKeys, PluginTypes
  <2>6. ASSUME NEW t \in Sockets \ {s} PROVE current(t)' <=> current(t)
    <3>1. CASE t[1] = p
      <4>1. t[2] # s[2]
        BY <1>1, <3>1 DEF Sockets
      <4> QED BY <1>1, <1>5, <2>4, <3>1, <4>1 DEF current
    <3>2. CASE t[1] # p
      BY <2>3, <3>2 DEF Sockets, current
    <3> QED BY <3>1, <3>2
  <2>7. PluginKeys'
    <3>1. ASSUME NEW q \in Plugins \ {p}
          PROVE  /\ plugin'[q].key[1] = q /\ stored'[q].key[1] = q
                 /\ \A i \in 1..Len(writes'[q]) : writes'[q][i].key[1] = q
      BY <2>3, <3>1 DEF PluginKeys
    <3>2. plugin'[p].key[1] = p /\ stored'[p].key[1] = p
      BY <1>1, <2>2, <2>4 DEF PluginKeys
    <3> QED BY <2>5, <3>1, <3>2 DEF PluginKeys
  <2>8. \A q \in Plugins : plugin'[q].socket = plugin[q].socket
    BY <2>3, <2>4
  <2> QED BY <2>6, <2>7, <2>8
<1> QED BY <1>2, <1>3, <1>4, <1>5 DEF Answered, refused, session, unauthorized

\* One move of the handler of a socket: the other sockets stand as they did.
LEMMA HandlerElsewhere ==
    ASSUME UsesInv, NEW s \in Sockets, NEW a \in At, advance(s, a), Answered(s),
           phase[s] # "unused", UNCHANGED <<stored, claim>>,
           devices' \in Seq(Keys), Len(devices) <= Len(devices'),
           \A d \in 1..Len(devices) : devices'[d] = devices[d],
           a \in {"hello", "find_x", "consume", "put"} => claim[s].device = 0, a # "unused"
    PROVE  /\ PluginKeys' /\ \A t \in Sockets : ClaimOK(t)'
           /\ phase'[s] = a
           /\ \A t \in Sockets \ {s} : phase'[t] = phase[t] /\ (current(t)' <=> current(t))
           /\ UNCHANGED devices => AtRisk' \ {s} = AtRisk \ {s}
<1>1. /\ PluginKeys'
      /\ \A p \in Plugins : plugin'[p].socket = plugin[p].socket
      /\ \A t \in Sockets \ {s} : current(t)' <=> current(t)
  BY AnswerElsewhere DEF UsesInv
<1>2. phase'[s] = a /\ \A t \in Sockets \ {s} : phase'[t] = phase[t]
  BY DEF UsesInv, Inv, TypeOK, advance
<1>3. Len(devices) \in Nat /\ Len(devices') \in Nat
  BY DEF UsesInv, Inv, TypeOK
<1>4. ASSUME NEW t \in Sockets PROVE ClaimOK(t)'
  <2>1. t[1] \in Plugins /\ ClaimOK(t)
    BY Types DEF UsesInv, Inv
  <2>2. claim[t].device # 0 => /\ claim[t].device \in 1..Len(devices')
                               /\ devices'[claim[t].device] = claim[t].key
    BY <1>3, <2>1 DEF ClaimOK
  <2>3. plugin'[t[1]].socket = plugin[t[1]].socket
    BY <1>1, <2>1
  <2>4. CASE t = s
    BY <1>2, <2>1, <2>2, <2>3, <2>4 DEF ClaimOK
  <2>5. CASE t # s
    BY <1>2, <2>1, <2>2, <2>3, <2>5 DEF ClaimOK
  <2> QED BY <2>4, <2>5
<1>5. ASSUME UNCHANGED devices, NEW t \in Sockets \ {s} PROVE atRisk(t)' <=> atRisk(t)
  BY <1>1, <1>2, <1>5 DEF atRisk, rowOf
<1> QED BY <1>1, <1>2, <1>4, <1>5 DEF AtRisk

\* No use is taken, and no socket gets into danger.
LEMMA QuietBudget ==
    ASSUME UsesInv, Inv', UNCHANGED <<left, devices>>, Paying' = Paying,
           AtRisk' \subseteq AtRisk, faults' >= faults
    PROVE  BudgetOK'
<1>1. Lost' = Lost
  BY DEF Lost
<1>2. AtRisk \in SUBSET Sockets /\ AtRisk' \in SUBSET Sockets /\ Paying \in SUBSET Sockets
  BY DEF AtRisk, Paying
<1>3. Cardinality(AtRisk') <= Cardinality(AtRisk)
  BY <1>2, MoreSockets
<1>4. Lost \in Int /\ faults \in Nat /\ faults' \in Nat
  <2>1. /\ left \in Int /\ Len(devices) \in Nat /\ faults \in Nat /\ faults' \in Nat
        /\ Cardinality(Paying) \in Nat
    BY <1>2, SocketsCount, UsesAssumption, BoundsAssumption DEF UsesInv, Inv, TypeOK
  <2> QED BY <2>1, UsesAssumption DEF Lost
<1>5. Cardinality(AtRisk) \in Nat /\ Cardinality(AtRisk') \in Nat
  BY <1>2, SocketsCount
<1>6. Lost' + Cardinality(AtRisk') - faults' <= Lost + Cardinality(AtRisk) - faults
  BY <1>1, <1>3, <1>4, <1>5
<1> QED BY <1>1, <1>4, <1>6, BudgetMoves

LEMMA UsesExpired ==
    ASSUME UsesInv, Inv', NEW s \in Sockets, Expired(s)
    PROVE  UsesInv'
<1>1. /\ phase[s] = "find" /\ advance(s, "late") /\ refused(s)
      /\ UNCHANGED <<stored, claim, left, devices>> /\ faults' = faults + 1
  BY DEF Expired, fails
<1>2. devices \in Seq(Keys) /\ faults \in Nat
  BY BoundsAssumption DEF UsesInv, Inv, TypeOK
<1>3. /\ PluginKeys' /\ \A t \in Sockets : ClaimOK(t)'
      /\ phase'[s] = "late" /\ \A t \in Sockets \ {s} : phase'[t] = phase[t]
      /\ AtRisk' \ {s} = AtRisk \ {s}
  BY <1>1, <1>2, HandlerElsewhere DEF Answered, At
<1>4. AtRisk' \subseteq AtRisk /\ Paying' = Paying
  BY <1>1, <1>3 DEF AtRisk, atRisk, Paying
<1> QED BY <1>1, <1>2, <1>3, <1>4, QuietBudget DEF UsesInv

LEMMA UsesFindDevice ==
    ASSUME UsesInv, Inv', NEW s \in Sockets, FindDevice(s)
    PROVE  UsesInv'
<1>1. phase[s] = "find" /\ UNCHANGED <<stored, claim, left, devices, faults>>
  BY DEF FindDevice
<1>2. devices \in Seq(Keys) /\ faults \in Nat /\ ClaimOK(s)
  BY BoundsAssumption DEF UsesInv, Inv, TypeOK
<1>3. CASE rowOf(claim[s].key) = {} /\ advance(s, "find_x") /\ UNCHANGED <<plugin, writes, made>>
  <2>1. claim[s].device = 0
    BY <1>2, <1>3 DEF ClaimOK, rowOf
  <2>2. /\ PluginKeys' /\ \A t \in Sockets : ClaimOK(t)'
        /\ phase'[s] = "find_x" /\ \A t \in Sockets \ {s} : phase'[t] = phase[t]
        /\ AtRisk' \ {s} = AtRisk \ {s}
    BY <1>1, <1>2, <1>3, <2>1, HandlerElsewhere DEF Answered, At
  <2>3. s \in AtRisk' => s \in AtRisk
    BY <1>1, <1>3, <2>2 DEF AtRisk, atRisk, rowOf, current
  <2>4. AtRisk' \subseteq AtRisk /\ Paying' = Paying
    BY <1>1, <2>2, <2>3 DEF Paying
  <2> QED BY <1>1, <1>2, <2>2, <2>4, QuietBudget DEF UsesInv
<1>4. CASE \E a \in {"touch", "done"} : advance(s, a) /\ Answered(s)
  <2> PICK a \in {"touch", "done"} : advance(s, a) /\ Answered(s)
    BY <1>4
  <2>1. /\ PluginKeys' /\ \A t \in Sockets : ClaimOK(t)'
        /\ phase'[s] = a /\ \A t \in Sockets \ {s} : phase'[t] = phase[t]
        /\ AtRisk' \ {s} = AtRisk \ {s}
    BY <1>1, <1>2, HandlerElsewhere DEF At
  <2>2. AtRisk' \subseteq AtRisk /\ Paying' = Paying
    BY <1>1, <2>1 DEF AtRisk, atRisk, Paying
  <2> QED BY <1>1, <1>2, <2>1, <2>2, QuietBudget DEF UsesInv
<1> QED BY <1>3, <1>4 DEF FindDevice, Answered

LEMMA UsesTouchDevice ==
    ASSUME UsesInv, Inv', NEW s \in Sockets, TouchDevice(s)
    PROVE  UsesInv'
<1>1. /\ phase[s] = "touch" /\ advance(s, "done") /\ session(s, claim[s].device)
      /\ UNCHANGED <<stored, claim, left, devices, faults>>
  BY DEF TouchDevice
<1>2. devices \in Seq(Keys) /\ faults \in Nat /\ claim[s].device \in Ids
  BY BoundsAssumption DEF UsesInv, Inv, TypeOK, Identity
<1>3. /\ PluginKeys' /\ \A t \in Sockets : ClaimOK(t)'
      /\ phase'[s] = "done" /\ \A t \in Sockets \ {s} : phase'[t] = phase[t]
      /\ AtRisk' \ {s} = AtRisk \ {s}
  BY <1>1, <1>2, HandlerElsewhere DEF Answered, At
<1>4. AtRisk' \subseteq AtRisk /\ Paying' = Paying
  BY <1>1, <1>3 DEF AtRisk, atRisk, Paying
<1> QED BY <1>1, <1>2, <1>3, <1>4, QuietBudget DEF UsesInv

LEMMA UsesFindX25519 ==
    ASSUME UsesInv, Inv', NEW s \in Sockets, FindX25519(s)
    PROVE  UsesInv'
<1>1. phase[s] = "find_x" /\ UNCHANGED <<stored, claim, left, devices, faults>>
  BY DEF FindX25519
<1>2. devices \in Seq(Keys) /\ faults \in Nat /\ claim[s].device = 0
  BY <1>1, BoundsAssumption DEF UsesInv, ClaimOK, Inv, TypeOK
<1>3. PICK a \in {"consume", "done"} :
        /\ advance(s, a) /\ Answered(s)
        /\ a = "consume" => rowOf(claim[s].key) = {} /\ UNCHANGED plugin
  BY DEF FindX25519, Answered
<1>4. /\ PluginKeys' /\ \A t \in Sockets : ClaimOK(t)'
      /\ phase'[s] = a /\ \A t \in Sockets \ {s} : phase'[t] = phase[t]
      /\ AtRisk' \ {s} = AtRisk \ {s}
  BY <1>1, <1>2, <1>3, HandlerElsewhere DEF At
<1>5. s \in AtRisk' => s \in AtRisk
  BY <1>1, <1>3, <1>4 DEF AtRisk, atRisk, rowOf, current
<1>6. AtRisk' \subseteq AtRisk /\ Paying' = Paying
  BY <1>1, <1>4, <1>5 DEF Paying
<1> QED BY <1>1, <1>2, <1>4, <1>6, QuietBudget DEF UsesInv

\* A use is taken: s pays with it.
LEMMA UsesConsumeInvite ==
    ASSUME UsesInv, Inv', NEW s \in Sockets, ConsumeInvite(s)
    PROVE  UsesInv'
<1>1. /\ phase[s] = "consume" /\ UNCHANGED <<stored, claim, devices, faults>>
      /\ left' = IF left > 0 THEN left - 1 ELSE left
  BY DEF ConsumeInvite
<1>2. /\ devices \in Seq(Keys) /\ Len(devices) \in Nat /\ faults \in Nat /\ left \in Nat
      /\ claim[s].device = 0
  BY <1>1, UsesAssumption, BoundsAssumption DEF UsesInv, ClaimOK, Inv, TypeOK
<1>3. PICK a \in {"put", "done"} :
        /\ advance(s, a) /\ Answered(s)
        /\ a = "put" <=> left > 0
        /\ a = "put" => UNCHANGED plugin
  BY <1>2 DEF ConsumeInvite, consumed, Answered
<1>4. /\ PluginKeys' /\ \A t \in Sockets : ClaimOK(t)'
      /\ phase'[s] = a /\ \A t \in Sockets \ {s} : phase'[t] = phase[t]
      /\ AtRisk' \ {s} = AtRisk \ {s}
  BY <1>1, <1>2, <1>3, HandlerElsewhere DEF At
<1>5. s \in AtRisk' => s \in AtRisk
  BY <1>1, <1>3, <1>4 DEF AtRisk, atRisk, rowOf, current
<1>6. AtRisk' \subseteq AtRisk
  BY <1>4, <1>5
<1>7. CASE a = "done"
  <2>1. Paying' = Paying /\ left' = left
    BY <1>1, <1>2, <1>3, <1>4, <1>7 DEF Paying
  <2> QED BY <1>1, <1>2, <1>4, <1>6, <2>1, QuietBudget DEF UsesInv
<1>8. CASE a = "put"
  <2>1. Paying' = Paying \cup {s} /\ s \notin Paying /\ left' = left - 1
    BY <1>1, <1>2, <1>3, <1>4, <1>8 DEF Paying
  <2>2. /\ Paying \in SUBSET Sockets /\ AtRisk \in SUBSET Sockets /\ AtRisk' \in SUBSET Sockets
    BY DEF Paying, AtRisk
  <2>3. Cardinality(Paying') = Cardinality(Paying) + 1 /\ Cardinality(Paying) \in Nat
    BY <2>1, <2>2, SocketsCount, FS_AddElement
  <2>4. /\ Cardinality(AtRisk) \in Nat /\ Cardinality(AtRisk') \in Nat
        /\ Cardinality(AtRisk') <= Cardinality(AtRisk)
    BY <1>6, <2>2, SocketsCount, MoreSockets
  <2>5. Lost = (Uses - left) - Len(devices) - Cardinality(Paying)
    BY DEF Lost
  <2>6. Lost' = (Uses - left') - Len(devices') - Cardinality(Paying')
    BY DEF Lost
  <2>7. Lost' = Lost /\ Lost \in Int
    <3>1. devices' = devices /\ left' = left - 1
      BY <1>1, <2>1
    <3>2. Lost' = (Uses - (left - 1)) - Len(devices) - (Cardinality(Paying) + 1)
      BY <2>3, <2>6, <3>1
    <3>. QED  BY <1>2, <2>3, <2>5, <3>2, UsesAssumption
  <2>8. BudgetOK'
    BY <1>1, <1>2, <2>4, <2>7, BudgetMoves
  <2> QED BY <1>4, <2>8 DEF UsesInv
<1> QED BY <1>3, <1>7, <1>8

\* The row is there, or the use is lost.  A row that a socket cut off has put
\* endangers the one socket of its plugin that is not: they change places.
LEMMA UsesPutDevice ==
    ASSUME UsesInv, Inv', NEW s \in Sockets, PutDevice(s)
    PROVE  UsesInv'
<1> DEFINE k == claim[s].key
           p == s[1]
           t == <<p, plugin[p].socket>>
<1>1. /\ phase[s] = "put" /\ advance(s, "done") /\ UNCHANGED <<stored, claim, left, faults>>
  BY DEF PutDevice
<1>2. /\ devices \in Seq(Keys) /\ Len(devices) \in Nat /\ faults \in Nat /\ left \in Nat
      /\ k \in Keys /\ k[1] = p /\ p \in Plugins
  <2>1. TypeOK /\ ClaimOK(s) /\ s[1] \in Plugins /\ claim[s] \in Identity
    BY Types DEF UsesInv, Inv
  <2>2. devices \in Seq(Keys) /\ faults \in 0..MaxFaults /\ left \in 0..Uses
    BY <2>1 DEF TypeOK
  <2> QED BY <2>1, <2>2, UsesAssumption, BoundsAssumption DEF ClaimOK, Identity
<1>3. /\ devices' = IF rowOf(k) = {} THEN Append(devices, k) ELSE devices
      /\ Answered(s)
  BY <1>2 DEF PutDevice, unique, Answered, Ids
<1>4. /\ devices' \in Seq(Keys) /\ Len(devices) <= Len(devices')
      /\ \A d \in 1..Len(devices) : devices'[d] = devices[d]
      /\ Len(devices') = IF rowOf(k) = {} THEN Len(devices) + 1 ELSE Len(devices)
  <2> HIDE DEF k
  <2> QED BY <1>2, <1>3
<1>5. /\ PluginKeys' /\ \A u \in Sockets : ClaimOK(u)'
      /\ phase'[s] = "done"
      /\ \A u \in Sockets \ {s} : phase'[u] = phase[u] /\ (current(u)' <=> current(u))
      /\ UNCHANGED devices => AtRisk' \ {s} = AtRisk \ {s}
  BY <1>1, <1>3, <1>4, HandlerElsewhere DEF At
<1>6. /\ s \in Paying /\ Paying' = Paying \ {s} /\ s \notin AtRisk'
      /\ Paying \in SUBSET Sockets /\ AtRisk \in SUBSET Sockets /\ AtRisk' \in SUBSET Sockets
  BY <1>1, <1>5 DEF Paying, AtRisk, atRisk
<1>7. Cardinality(Paying') = Cardinality(Paying) - 1 /\ Cardinality(Paying) \in Nat
  BY <1>6, SocketsCount, FS_RemoveElement
<1>8. Cardinality(AtRisk) \in Nat /\ Cardinality(AtRisk') \in Nat
  BY <1>6, SocketsCount
<1>9. /\ Lost = (Uses - left) - Len(devices) - Cardinality(Paying)
      /\ Lost' = (Uses - left') - Len(devices') - Cardinality(Paying')
  BY DEF Lost
<1>10. Lost \in Int
  BY <1>2, <1>7, <1>9, UsesAssumption
<1>11. CASE rowOf(k) # {}
  <2>1. Lost' = Lost + 1
    <3>1. Len(devices') = Len(devices) /\ left' = left
      BY <1>1, <1>3, <1>11
    <3> QED BY <1>2, <1>7, <1>9, <3>1, UsesAssumption
  <2>2. s \in AtRisk /\ AtRisk' \subseteq AtRisk \ {s}
    BY <1>1, <1>3, <1>5, <1>6, <1>11 DEF AtRisk, atRisk
  <2>3. Cardinality(AtRisk') + 1 <= Cardinality(AtRisk)
    BY <1>6, <2>2, OneSocketLess
  <2>4. BudgetOK'
    BY <1>1, <1>2, <1>8, <1>10, <2>1, <2>3, BudgetMoves
  <2> QED BY <1>5, <2>4 DEF UsesInv
<1>12. CASE rowOf(k) = {}
  <2>1. Lost' = Lost
    BY <1>1, <1>2, <1>4, <1>7, <1>9, <1>12, UsesAssumption
  <2>2. \A x \in Keys : rowOf(x)' # {} => rowOf(x) # {} \/ x = k
    <3> SUFFICES ASSUME NEW x \in Keys, NEW d \in DOMAIN devices', devices'[d] = x
                 PROVE  rowOf(x) # {} \/ x = k
      BY DEF rowOf
    <3> HIDE DEF k
    <3>1. CASE d \in 1..Len(devices)
      BY <1>2, <1>4, <3>1 DEF rowOf
    <3>2. CASE d = Len(devices) + 1
      BY <1>2, <1>3, <1>12, <3>2
    <3> QED BY <1>4, <1>2, <3>1, <3>2
  <2>3. ASSUME NEW u \in AtRisk' PROVE u \in AtRisk \ {s} \/ (u = t /\ ~current(s))
    <3>1. u \in Sockets /\ u # s /\ atRisk(u)'
      BY <1>6, <2>3 DEF AtRisk
    <3>2. /\ phase'[u] = phase[u] /\ (current(u)' <=> current(u)) /\ claim'[u] = claim[u]
          /\ claim[u].key \in Keys /\ claim[u].key[1] = u[1]
      BY <1>1, <1>5, <3>1, Types DEF UsesInv, Inv, ClaimOK, Identity
    <3>3. CASE atRisk(u)
      <4>1. u \in AtRisk
        BY <3>1, <3>3 DEF AtRisk
      <4> QED BY <3>1, <4>1
    <3>4. CASE ~atRisk(u)
      <4>1. current(u) /\ rowOf(claim[u].key)' # {} /\ rowOf(claim[u].key) = {}
        BY <3>1, <3>2, <3>4 DEF atRisk, rowOf
      <4>2. claim[u].key = k
        BY <2>2, <3>2, <4>1
      <4>3. u[1] = p /\ u[2] = plugin[p].socket
        BY <1>2, <3>2, <4>1, <4>2 DEF current
      <4>4. u = t
        BY <3>1, <4>3 DEF Sockets
      <4>5. ~current(s)
        BY <3>1, <4>3 DEF current, Sockets
      <4> QED BY <4>4, <4>5
    <3> QED BY <3>3, <3>4
  <2>4. Cardinality(AtRisk') <= Cardinality(AtRisk)
    <3>1. CASE current(s)
      BY <1>6, <2>3, <3>1, MoreSockets
    <3>2. CASE ~current(s)
      <4>1. s \in AtRisk
        BY <1>1, <3>2 DEF AtRisk, atRisk
      <4>2. AtRisk \ {s} \in SUBSET Sockets /\ Cardinality(AtRisk \ {s}) = Cardinality(AtRisk) - 1
        BY <1>6, <4>1, SocketsCount, FS_RemoveElement
      <4>3. AtRisk' \subseteq (AtRisk \ {s}) \cup {t}
        BY <2>3
      <4> HIDE DEF t
      <4>4. Cardinality(AtRisk') <= Cardinality(AtRisk \ {s}) + 1
        BY <1>6, <4>2, <4>3, OneMoreSocket
      <4> QED BY <1>8, <4>2, <4>4
    <3> QED BY <3>1, <3>2
  <2>5. BudgetOK'
    BY <1>1, <1>2, <1>8, <1>10, <2>1, <2>4, BudgetMoves
  <2> QED BY <1>5, <2>5 DEF UsesInv
<1> QED BY <1>11, <1>12

LEMMA UsesConnect ==
    ASSUME UsesInv, Inv', NEW p \in Plugins, Connect(p)
    PROVE  UsesInv'
<1> DEFINE n == plugin[p].socket + 1
           t == <<p, n>>
<1>1. /\ plugin[p].view = "offline" /\ plugin[p].socket < MaxSockets
      /\ plugin' = [plugin EXCEPT ![p].view = "connecting", ![p].socket = n]
      /\ phase' = [phase EXCEPT ![t] = "hello"]
      /\ claim' = [claim EXCEPT ![t].key = plugin[p].key]
      /\ UNCHANGED <<stored, writes, made, left, devices, faults>>
  BY DEF Connect, advance
<1>2. TypeOK /\ PluginTypes /\ plugin[p].key[1] = p
  BY Types DEF UsesInv, Inv, PluginKeys
<1>3. /\ n \in 1..MaxSockets /\ t \in Sockets /\ plugin[p].socket \in Nat /\ faults \in Nat
      /\ phase \in [Sockets -> At] /\ claim \in [Sockets -> Identity]
  BY <1>1, <1>2, BoundsAssumption DEF PluginTypes, PluginState, Sockets, TypeOK
<1>4. /\ \A q \in Plugins : plugin'[q].key = plugin[q].key
      /\ \A q \in Plugins \ {p} : plugin'[q] = plugin[q]
      /\ plugin'[p].socket = n
  BY <1>1, <1>2 DEF PluginTypes, PluginState
<1>5. phase[t] = "unused" /\ claim[t].device = 0
  <2>1. t[1] = p /\ t[2] > plugin[p].socket /\ ClaimOK(t)
    BY <1>3 DEF UsesInv
  <2> QED BY <2>1 DEF ClaimOK
<1>6. PluginKeys'
  BY <1>1, <1>4 DEF UsesInv, PluginKeys
<1> HIDE DEF n
<1>7. /\ phase'[t] = "hello" /\ claim'[t].key = plugin[p].key /\ claim'[t].device = 0
      /\ \A u \in Sockets \ {t} : phase'[u] = phase[u] /\ claim'[u] = claim[u]
  <2> HIDE DEF t
  <2> QED BY <1>1, <1>3, <1>5 DEF Identity
<1>8. ASSUME NEW u \in Sockets PROVE ClaimOK(u)'
  <2>1. ClaimOK(u) /\ u[1] \in Plugins /\ u[2] \in Nat
    BY Types DEF UsesInv, Inv, Sockets
  <2>2. CASE u = t
    BY <1>1, <1>2, <1>4, <1>7, <1>3, <2>1, <2>2 DEF ClaimOK
  <2>3. CASE u # t
    <3>1. u[2] > plugin'[u[1]].socket => u[2] > plugin[u[1]].socket
      BY <1>3, <1>4, <2>1 DEF n
    <3> QED BY <1>1, <1>7, <2>1, <2>3, <3>1 DEF ClaimOK
  <2> QED BY <2>2, <2>3
<1>9. ASSUME NEW u \in AtRisk' PROVE u \in AtRisk
  <2>1. u \in Sockets /\ u # t /\ atRisk(u)'
    BY <1>7, <1>9 DEF AtRisk, atRisk
  <2>2. current(u) => current(u)'
    <3>1. u[1] \in Plugins
      BY <2>1, Types DEF UsesInv, Inv
    <3>2. current(u) => u[1] # p
      BY <1>1 DEF current
    <3> QED BY <1>4, <3>1, <3>2 DEF current
  <2>3. atRisk(u)
    BY <1>1, <1>7, <2>1, <2>2 DEF atRisk, rowOf
  <2> QED BY <2>1, <2>3 DEF AtRisk
<1>10. Paying' = Paying
  BY <1>3, <1>5, <1>7 DEF Paying
<1>11. AtRisk' \subseteq AtRisk
  BY <1>9
<1> QED BY <1>1, <1>3, <1>6, <1>8, <1>10, <1>11, QuietBudget DEF UsesInv

LEMMA UsesRespond ==
    ASSUME UsesInv, Inv', NEW s \in Sockets, Respond(s)
    PROVE  UsesInv'
<1>1. /\ phase[s] = "hello" /\ current(s)
      /\ claim' = [claim EXCEPT ![s].device = plugin[s[1]].device]
      /\ phase' = [phase EXCEPT ![s] = "find"]
      /\ UNCHANGED <<plugin, stored, writes, made, left, devices, faults>>
  BY DEF Respond, advance, signedFor
<1>2. /\ TypeOK /\ PluginTypes /\ s[1] \in Plugins /\ faults \in Nat
      /\ phase \in [Sockets -> At] /\ claim \in [Sockets -> Identity]
  BY Types, BoundsAssumption DEF UsesInv, Inv, TypeOK
<1>3. /\ phase'[s] = "find" /\ claim'[s].device = plugin[s[1]].device
      /\ \A u \in Sockets : claim'[u].key = claim[u].key
      /\ \A u \in Sockets \ {s} : phase'[u] = phase[u] /\ claim'[u] = claim[u]
  BY <1>1, <1>2 DEF Identity
<1>4. plugin[s[1]].device # 0 => /\ plugin[s[1]].device \in 1..Len(devices)
                                 /\ devices[plugin[s[1]].device] = claim[s].key
  <2>1. /\ claim[s].key = plugin[s[1]].key
        /\ CredentialsOK(credential(s[1]), stored[s[1]], writes[s[1]], devices)
    BY <1>1, <1>2 DEF UsesInv, Inv, SocketOK, PluginsOK
  <2>2. credential(s[1]).device = plugin[s[1]].device /\ credential(s[1]).key = plugin[s[1]].key
    BY DEF credential
  <2> QED BY <2>1, <2>2 DEF CredentialsOK
<1>5. ASSUME NEW u \in Sockets PROVE ClaimOK(u)'
  <2>1. ClaimOK(u)
    BY DEF UsesInv
  <2>2. CASE u = s
    BY <1>1, <1>3, <1>4, <2>1, <2>2 DEF ClaimOK
  <2>3. CASE u # s
    BY <1>1, <1>3, <2>1, <2>3 DEF ClaimOK
  <2> QED BY <2>2, <2>3
<1>6. AtRisk' \subseteq AtRisk /\ Paying' = Paying
  BY <1>1, <1>3 DEF AtRisk, atRisk, Paying, current, rowOf
<1> QED BY <1>1, <1>2, <1>5, <1>6, QuietBudget DEF UsesInv, PluginKeys

LEMMA UsesPersisted ==
    ASSUME UsesInv, Inv', NEW p \in Plugins, Persisted(p)
    PROVE  UsesInv'
<1>1. /\ writes[p] # <<>>
      /\ stored' = [stored EXCEPT ![p] = Head(writes[p])]
      /\ writes' = [writes EXCEPT ![p] = Tail(writes[p])]
      /\ UNCHANGED <<plugin, made, phase, claim, left, devices, faults>>
  BY DEF Persisted
<1>2. /\ stored \in [Plugins -> Identity] /\ writes \in [Plugins -> Seq(Identity)]
      /\ faults \in Nat
  BY BoundsAssumption DEF UsesInv, Inv, TypeOK
<1>3. PluginKeys'
  <2>1. /\ Head(writes[p]) = writes[p][1] /\ 1 \in 1..Len(writes[p])
        /\ \A i \in 1..Len(Tail(writes[p])) :
              i + 1 \in 1..Len(writes[p]) /\ Tail(writes[p])[i] = writes[p][i + 1]
    BY <1>1, <1>2
  <2>2. /\ stored'[p].key[1] = p
        /\ \A i \in 1..Len(writes'[p]) : writes'[p][i].key[1] = p
    BY <1>1, <1>2, <2>1 DEF UsesInv, PluginKeys
  <2>3. \A q \in Plugins \ {p} : stored'[q] = stored[q] /\ writes'[q] = writes[q]
    BY <1>1, <1>2
  <2> QED BY <1>1, <2>2, <2>3 DEF UsesInv, PluginKeys
<1>4. \A s \in Sockets : ClaimOK(s)'
  BY <1>1 DEF UsesInv, ClaimOK
<1>5. AtRisk' = AtRisk /\ Paying' = Paying
  BY <1>1 DEF AtRisk, atRisk, Paying, current, rowOf
<1> QED BY <1>1, <1>2, <1>3, <1>4, <1>5, QuietBudget DEF UsesInv

\* A failure of one plugin cuts off one socket at most.
LEMMA UsesCutOff ==
    ASSUME UsesInv, Inv', NEW p \in Plugins, SocketCloses(p) \/ PluginRestarts(p)
    PROVE  UsesInv'
<1> DEFINE t == <<p, plugin[p].socket>>
<1>1. faults' = faults + 1 /\ UNCHANGED <<stored, phase, claim, left, devices>>
  BY DEF SocketCloses, PluginRestarts, fails
<1>2. PluginTypes /\ faults \in Nat /\ Len(devices) \in Nat /\ left \in Nat
  BY Types, BoundsAssumption, UsesAssumption DEF UsesInv, Inv, TypeOK
<1>3. /\ \A q \in Plugins \ {p} : plugin'[q] = plugin[q] /\ writes'[q] = writes[q]
      /\ plugin'[p].socket = plugin[p].socket
      /\ plugin'[p].key \in {plugin[p].key, stored[p].key}
      /\ writes'[p] \in {writes[p], <<>>}
  <2>1. CASE SocketCloses(p)
    BY <1>2, <2>1 DEF SocketCloses, PluginTypes, PluginState
  <2>2. CASE PluginRestarts(p)
    BY <1>2, <2>2 DEF PluginRestarts, loaded, PluginTypes, PluginState
  <2> QED BY <2>1, <2>2
<1>4. PluginKeys'
  BY <1>1, <1>3 DEF UsesInv, PluginKeys
<1>5. \A s \in Sockets : ClaimOK(s)'
  <2>1. \A s \in Sockets : plugin'[s[1]].socket = plugin[s[1]].socket
    BY <1>3, Types DEF UsesInv, Inv
  <2> QED BY <1>1, <2>1 DEF UsesInv, ClaimOK
<1>6. Paying' = Paying
  BY <1>1 DEF Paying
<1>7. AtRisk' \subseteq AtRisk \cup {t}
  <2> SUFFICES ASSUME NEW u \in Sockets, atRisk(u)', u # t PROVE atRisk(u)
    BY DEF AtRisk
  <2>1. current(u) => current(u)'
    <3>1. CASE u[1] = p
      BY <3>1 DEF current, Sockets
    <3>2. CASE u[1] # p
      BY <1>3, <3>2 DEF current, Sockets
    <3> QED BY <3>1, <3>2
  <2> QED BY <1>1, <2>1 DEF atRisk, rowOf
<1>8. AtRisk \in SUBSET Sockets /\ AtRisk' \in SUBSET Sockets /\ Paying \in SUBSET Sockets
  BY DEF AtRisk, Paying
<1> HIDE DEF t
<1>9. /\ Cardinality(AtRisk') <= Cardinality(AtRisk) + 1
      /\ Cardinality(AtRisk) \in Nat /\ Cardinality(AtRisk') \in Nat
      /\ Cardinality(Paying) \in Nat
  BY <1>7, <1>8, OneMoreSocket, SocketsCount
<1>10. Lost' = Lost /\ Lost \in Int
  BY <1>1, <1>2, <1>6, <1>9, UsesAssumption DEF Lost
<1>11. BudgetOK'
  BY <1>1, <1>2, <1>9, <1>10, BudgetMoves
<1> QED BY <1>4, <1>5, <1>11 DEF UsesInv

\* Whoever paid loses the use: one socket of each plugin that is connected,
\* and those that were in danger before.
LEMMA UsesServerRestarts ==
    ASSUME UsesInv, Inv', ServerRestarts
    PROVE  UsesInv'
<1> DEFINE online == {p \in Plugins : plugin[p].view # "offline"}
           first == Paying \ AtRisk
           f == [s \in first |-> s[1]]
<1>1. /\ plugin' = [p \in Plugins |-> [plugin[p] EXCEPT !.view = "offline"]]
      /\ phase' = [s \in Sockets |-> IF phase[s] \in {"unused", "late"} THEN phase[s] ELSE "done"]
      /\ faults' = faults + Cardinality(online)
      /\ UNCHANGED <<stored, writes, made, claim, left, devices>>
  BY DEF ServerRestarts, fails
<1>2. PluginTypes /\ faults \in Nat /\ Len(devices) \in Nat /\ left \in Nat
  BY Types, BoundsAssumption, UsesAssumption DEF UsesInv, Inv, TypeOK
<1>3. \A p \in Plugins : plugin'[p].key = plugin[p].key /\ plugin'[p].socket = plugin[p].socket
  BY <1>1, <1>2 DEF PluginTypes, PluginState
<1>4. PluginKeys'
  BY <1>1, <1>3 DEF UsesInv, PluginKeys
<1>5. ASSUME NEW s \in Sockets PROVE ClaimOK(s)'
  <2>1. ClaimOK(s) /\ plugin'[s[1]].socket = plugin[s[1]].socket
    BY <1>3, Types DEF UsesInv, Inv
  <2>2. \/ phase'[s] = phase[s] /\ phase[s] \in {"unused", "late"}
        \/ phase'[s] = "done" /\ phase[s] # "unused"
    BY <1>1
  <2> QED BY <1>1, <2>1, <2>2 DEF ClaimOK
<1>6. AtRisk' = {} /\ Paying' = {}
  BY <1>1 DEF AtRisk, atRisk, Paying
<1>7. /\ Paying \in SUBSET Sockets /\ AtRisk \in SUBSET Sockets /\ first \in SUBSET Sockets
      /\ Paying \cap AtRisk \in SUBSET Sockets
  BY DEF Paying, AtRisk
<1>8. f \in Injection(first, online)
  <2>1. ASSUME NEW s \in first PROVE s[1] \in online /\ s = <<s[1], plugin[s[1]].socket>>
    BY <2>1 DEF Paying, AtRisk, atRisk, current, Sockets
  <2>2. f \in [first -> online]
    BY <2>1
  <2>3. \A s, u \in first : f[s] = f[u] => s = u
    BY <2>1
  <2> HIDE DEF first, online, f
  <2> QED BY <2>2, <2>3 DEF Injection, IsInjective
<1>9. IsFiniteSet(online) /\ Cardinality(online) \in Nat
  BY PluginsAssumption, FS_Subset, FS_CardinalityType
<1>10. Cardinality(first) <= Cardinality(online)
  <2> HIDE DEF first, online, f
  <2> QED BY <1>8, <1>9, FS_Injection
<1>11. /\ Cardinality(first) = Cardinality(Paying) - Cardinality(Paying \cap AtRisk)
       /\ Cardinality(Paying \cap AtRisk) <= Cardinality(AtRisk)
       /\ Cardinality(first) \in Nat /\ Cardinality(Paying) \in Nat
       /\ Cardinality(AtRisk) \in Nat /\ Cardinality(Paying \cap AtRisk) \in Nat
  BY <1>7, SocketsCount, MoreSockets, FS_Difference
<1>12. Cardinality(AtRisk') = 0 /\ Cardinality(Paying') = 0
  BY <1>6, FS_EmptySet
<1>13. /\ Lost = (Uses - left) - Len(devices) - Cardinality(Paying)
       /\ Lost' = (Uses - left') - Len(devices') - Cardinality(Paying')
  BY DEF Lost
<1> HIDE DEF online, first, f
<1>14. Lost' = Lost + Cardinality(Paying) /\ Lost \in Int
  <2>1. left' = left /\ Len(devices') = Len(devices)
    BY <1>1
  <2> QED BY <1>2, <1>11, <1>12, <1>13, <2>1, UsesAssumption
<1>15. BudgetOK'
  BY <1>1, <1>2, <1>9, <1>10, <1>11, <1>12, <1>14, BudgetMoves
<1> QED BY <1>4, <1>5, <1>15 DEF UsesInv

LEMMA UsesInit == Init => UsesInv
<1> SUFFICES ASSUME Init PROVE UsesInv
  OBVIOUS
<1>1. Inv
  BY InvInit
<1>2. PluginKeys
  BY DEF Init, PluginKeys
<1>3. \A s \in Sockets : ClaimOK(s)
  BY DEF Init, ClaimOK
<1>4. AtRisk = {} /\ Paying = {}
  BY DEF Init, AtRisk, atRisk, Paying
<1>5. Len(devices) = 0 /\ left = Uses /\ faults = 0
  BY DEF Init
<1>6. Cardinality({}) = 0
  BY FS_EmptySet
<1>7. Lost = 0
  BY <1>4, <1>5, <1>6, UsesAssumption DEF Lost
<1>8. BudgetOK
  BY <1>4, <1>5, <1>6, <1>7 DEF BudgetOK
<1> QED BY <1>1, <1>2, <1>3, <1>8 DEF UsesInv

LEMMA UsesStep == UsesInv /\ [Next]_vars => UsesInv'
<1> SUFFICES ASSUME UsesInv, [Next]_vars PROVE UsesInv'
  OBVIOUS
<1>1. Inv'
  BY InvStep DEF UsesInv
<1>2. ASSUME NEW p \in Plugins, Connect(p) \/ Persisted(p) \/ SocketCloses(p) \/ PluginRestarts(p)
      PROVE  UsesInv'
  BY <1>1, <1>2, UsesConnect, UsesPersisted, UsesCutOff
<1>3. ASSUME NEW s \in Sockets, Respond(s) \/ Expired(s)
      PROVE  UsesInv'
  BY <1>1, <1>3, UsesRespond, UsesExpired
<1>4. ASSUME NEW s \in Sockets, Redeem(s)
      PROVE  UsesInv'
  BY <1>1, <1>4, UsesFindDevice, UsesTouchDevice, UsesFindX25519, UsesConsumeInvite,
     UsesPutDevice DEF Redeem
<1>5. CASE ServerRestarts
  BY <1>1, <1>5, UsesServerRestarts
<1>6. CASE UNCHANGED vars
  <2>1. PluginKeys' /\ \A s \in Sockets : ClaimOK(s)'
    BY <1>6 DEF vars, UsesInv, PluginKeys, ClaimOK
  <2>2. AtRisk' = AtRisk /\ Paying' = Paying
    BY <1>6 DEF vars, AtRisk, atRisk, Paying, current, rowOf
  <2>3. Lost' = Lost
    BY <1>6, <2>2 DEF vars, Lost
  <2>4. BudgetOK'
    BY <1>6, <2>2, <2>3 DEF vars, UsesInv, BudgetOK
  <2> QED BY <1>1, <2>1, <2>4 DEF UsesInv
<1> QED BY <1>2, <1>3, <1>4, <1>5, <1>6 DEF Next

------------------------------------------------------------------------------
(* Theorems.                                                               *)

THEOREM IdentityInvariant == Spec => []Inv
BY InvInit, InvStep, PTL DEF Spec

\* Types, and one row for a key.
THEOREM TypeCorrect == Spec => []TypeOK
<1>1. Inv => TypeOK
  BY DEF Inv
<1> QED BY <1>1, IdentityInvariant, PTL

\* Identities are not mixed.
THEOREM DevicesKeepTheirKeys == Spec => []DeviceOfItsKey
<1>1. Inv => DeviceOfItsKey
  <2> SUFFICES ASSUME Inv, NEW p \in Plugins
               PROVE  \A i \in {plugin[p], stored[p]} :
                         i.device # 0 => i.device \in DOMAIN devices /\ devices[i.device] = i.key
    BY DEF DeviceOfItsKey
  <2>1. DOMAIN devices = 1..Len(devices)
    BY DEF Inv, TypeOK
  <2>2. CredentialsOK(credential(p), stored[p], writes[p], devices)
    BY DEF Inv, PluginsOK
  <2>3. /\ credential(p).device = plugin[p].device
        /\ credential(p).key = plugin[p].key
    BY DEF credential
  <2> QED BY <2>1, <2>2, <2>3 DEF CredentialsOK
<1> QED BY <1>1, IdentityInvariant, PTL

\* A stored device stays itself.
THEOREM DevicesStay == Spec => StaysItsDevice
<1>1. Inv /\ [Next]_vars =>
        [\A p \in Plugins : stored[p].device # 0 => stored'[p] = stored[p]]_vars
  BY InvStep
<1> QED BY <1>1, IdentityInvariant, PTL DEF Spec, StaysItsDevice

\* However the handlers of a plugin race for its key, each use of the invite
\* made a device, is about to, or was lost with a socket that failed.
THEOREM UsesAreAccountedFor == Spec => []UsesPayForDevices
<1>1. Spec => []UsesInv
  BY UsesInit, UsesStep, PTL DEF Spec
<1>2. UsesInv => UsesPayForDevices
  <2> SUFFICES ASSUME UsesInv PROVE Lost \in 0..faults
    BY DEF UsesPayForDevices, Lost, Paying
  <2>1. AtRisk \in SUBSET Sockets /\ Paying \in SUBSET Sockets
    BY DEF AtRisk, Paying
  <2>2. /\ Cardinality(AtRisk) \in Nat /\ Cardinality(Paying) \in Nat /\ faults \in Nat
        /\ left \in Int /\ Len(devices) \in Nat
    BY <2>1, SocketsCount, UsesAssumption, BoundsAssumption DEF UsesInv, Inv, TypeOK
  <2>3. Lost \in Int
    BY <2>2, UsesAssumption DEF Lost
  <2> QED BY <2>2, <2>3 DEF UsesInv, BudgetOK
<1> QED BY <1>1, <1>2, PTL

------------------------------------------------------------------------------
(* The room.                                                               *)

\* In openMatch, before and after the match has its row.
Writing == {"host_stake", "guest_stake", "name_match", "open_event"}
Opening == Writing \cup {"put_match"}

writing(h) == handler[h].at \in Writing

\* The stakes of the match a handler is writing, as far as it is.
StakesSoFar(h) ==
    {s \in {Meeting!hostStake, handler[h].room.guestStake} :
        \/ handler[h].at \in {"name_match", "open_event"}
        \/ handler[h].at = "guest_stake" /\ s = Meeting!hostStake}

\* What a suspended handler relies on: the guest it joins is none of its host,
\* a room once joined keeps a guest, and the match it writes is its own.
HandlerOK(h) ==
    /\ handler[h].at = "join" => handler[h].device \in Guests /\ handler[h].model \in Models
    /\ handler[h].at = "accept" => handler[h].device \in Meeting!Devices /\ room.guest # None
    /\ handler[h].at \in Opening => handler[h].room.guest # None
    /\ writing(h) => /\ handler[h].match \in 1..Len(matches)
                     /\ matches[handler[h].match].a = Host
                     /\ matches[handler[h].match].b = handler[h].room.guest
                     /\ matches[handler[h].match].stakes = StakesSoFar(h)

MatchesApart ==
    \A h, g \in Handlers :
        h # g /\ writing(h) /\ writing(g) => handler[h].match # handler[g].match

RoomInv ==
    /\ Meeting!TypeOK
    /\ \A h \in Handlers : HandlerOK(h)
    /\ MatchesApart
    /\ Meeting!NamedMatchIsBacked

LEMMA RoomFields ==
    /\ Host \notin Guests /\ None \notin Meeting!Devices
    /\ Host \in Meeting!Devices /\ Guests \subseteq Meeting!Devices
    /\ Meeting!hostStake \in Meeting!Stake /\ Meeting!hostStake.owner = Host
    /\ Meeting!NoStake.owner = None
    /\ Meeting!NewRoom.guest = None /\ Meeting!NewRoom.match = 0
    /\ Meeting!NewRoom.guestStake = Meeting!NoStake
    /\ Meeting!Idle.at = "idle" /\ Meeting!Idle.match = 0
    /\ Meeting!Idle.room = Meeting!NewRoom
BY RoomConstants DEF Meeting!RoomAssumption, Meeting!Devices, Meeting!hostStake, Meeting!Stake,
   Meeting!NoStake, Meeting!NewRoom, Meeting!Idle

LEMMA NewRoomIsRoom == Meeting!NewRoom \in Meeting!Room
BY DEF Meeting!NewRoom, Meeting!Room

LEMMA IdleIsHandler == Meeting!Idle \in Meeting!HandlerState
BY NewRoomIsRoom DEF Meeting!Idle, Meeting!HandlerState, Meeting!At

LEMMA RoomTypes ==
    ASSUME Meeting!TypeOK
    PROVE  /\ room \in Meeting!Room /\ room.guestStake.owner = room.guest
           /\ room.guest \in Guests \cup {None} /\ room.match \in Nat
           /\ matches \in Seq(Meeting!Match) /\ Len(matches) \in Nat
           /\ \A i \in 1..Len(matches) : matches[i] \in Meeting!Match
           /\ handler \in [Handlers -> Meeting!HandlerState]
           /\ \A h \in Handlers :
                 /\ handler[h].at \in Meeting!At
                 /\ handler[h].device \in Meeting!Devices \cup {None}
                 /\ handler[h].room \in Meeting!Room
                 /\ handler[h].room.guestStake.owner = handler[h].room.guest
                 /\ handler[h].match \in 0..Len(matches)
BY DEF Meeting!TypeOK, Meeting!Room, Meeting!HandlerState

\* The stake of a guest is one of a guest.
LEMMA GuestStake ==
    ASSUME NEW r \in Meeting!Room, r.guestStake.owner = r.guest, r.guest # None
    PROVE  /\ r.guest \in Guests
           /\ r.guestStake \in Meeting!Stake
           /\ r.guestStake # Meeting!hostStake
           /\ r.guestStake.model \in Models
           /\ r.guestStake = [owner |-> r.guest, model |-> r.guestStake.model]
<1>1. r.guest \in Guests /\ r.guestStake \in Meeting!Stake \cup {Meeting!NoStake}
  BY DEF Meeting!Room
<1>2. r.guestStake # Meeting!NoStake
  BY RoomFields
<1>3. r.guestStake \in Meeting!Stake
  BY <1>1, <1>2
<1>4. r.guestStake # Meeting!hostStake
  BY <1>1, RoomFields
<1> QED BY <1>1, <1>3, <1>4 DEF Meeting!Stake

LEMMA Suspended ==
    ASSUME Meeting!TypeOK, NEW h \in Handlers, NEW next \in Meeting!HandlerState,
           Meeting!suspend(h, next)
    PROVE  /\ handler' \in [Handlers -> Meeting!HandlerState]
           /\ handler'[h] = next
           /\ \A g \in Handlers \ {h} : handler'[g] = handler[g]
<1>1. handler \in [Handlers -> Meeting!HandlerState]
  BY DEF Meeting!TypeOK
<1> QED BY <1>1 DEF Meeting!suspend

LEMMA HandlerStays ==
    ASSUME NEW g \in Handlers, HandlerOK(g), handler'[g] = handler[g],
           room.guest # None => room'.guest # None,
           writing(g) => /\ handler[g].match \in 1..Len(matches')
                         /\ matches'[handler[g].match] = matches[handler[g].match]
    PROVE  HandlerOK(g)'
<1>1. StakesSoFar(g)' = StakesSoFar(g) /\ writing(g)' = writing(g)
  BY DEF StakesSoFar, writing
<1> QED BY <1>1 DEF HandlerOK

LEMMA NotOpening ==
    ASSUME NEW h \in Handlers, handler'[h].at \notin {"join", "accept"} \cup Opening
    PROVE  HandlerOK(h)' /\ ~ writing(h)'
BY DEF HandlerOK, writing, Opening, Writing

\* A match that is named or was proposed has both its stakes; one that a
\* handler still has to put a stake into has not.
LEMMA OneStakeIsNotTwo ==
    ASSUME RoomInv, NEW h \in Handlers, handler[h].at \in {"host_stake", "guest_stake"}
    PROVE  ~ Meeting!Backed(matches[handler[h].match])
<1>1. matches[handler[h].match].stakes = StakesSoFar(h)
  BY DEF RoomInv, HandlerOK, writing, Writing
<1>2. StakesSoFar(h) \subseteq {Meeting!hostStake}
  BY DEF StakesSoFar
<1>3. SUFFICES ASSUME matches[handler[h].match].b \in Guests, NEW x \in Models,
                      matches[handler[h].match].stakes =
                        {Meeting!hostStake, [owner |-> matches[handler[h].match].b, model |-> x]}
               PROVE  FALSE
  BY DEF Meeting!Backed
<1>4. [owner |-> matches[handler[h].match].b, model |-> x].owner # Meeting!hostStake.owner
  BY <1>3, RoomFields
<1> QED BY <1>1, <1>2, <1>3, <1>4

LEMMA WrittenIsBacked ==
    ASSUME RoomInv, NEW h \in Handlers, handler[h].at \in {"name_match", "open_event"}
    PROVE  /\ handler[h].match \in 1..Len(matches)
           /\ Meeting!Backed(matches[handler[h].match])
<1>1. /\ handler[h].match \in 1..Len(matches)
      /\ matches[handler[h].match].a = Host
      /\ matches[handler[h].match].b = handler[h].room.guest
      /\ matches[handler[h].match].stakes = StakesSoFar(h)
      /\ handler[h].room.guest # None
  BY DEF RoomInv, HandlerOK, writing, Writing, Opening
<1>2. StakesSoFar(h) = {Meeting!hostStake, handler[h].room.guestStake}
  BY DEF StakesSoFar
<1>3. /\ handler[h].room.guest \in Guests
      /\ handler[h].room.guestStake.model \in Models
      /\ handler[h].room.guestStake =
           [owner |-> handler[h].room.guest, model |-> handler[h].room.guestStake.model]
  BY <1>1, RoomTypes, GuestStake DEF RoomInv
<1> QED BY <1>1, <1>2, <1>3 DEF Meeting!Backed

------------------------------------------------------------------------------
(* Steps that change the room or a handler, and no match.                  *)

LEMMA RoomMoves ==
    ASSUME RoomInv, NEW h \in Handlers, NEW next \in Meeting!HandlerState,
           Meeting!suspend(h, next), UNCHANGED matches,
           room' \in Meeting!Room, room'.guestStake.owner = room'.guest,
           room.guest # None => room'.guest # None,
           room'.match # 0 => /\ room'.match \in 1..Len(matches)
                              /\ Meeting!Backed(matches[room'.match]),
           next.room.guestStake.owner = next.room.guest,
           next.match \in 0..Len(matches),
           next.at \in Writing => writing(h) /\ next.match = handler[h].match,
           HandlerOK(h)',
           confirmed' \in SUBSET Meeting!Devices, frames' \in Nat, roomFaults' \in Nat
    PROVE  RoomInv'
<1>1. /\ handler' \in [Handlers -> Meeting!HandlerState]
      /\ handler'[h] = next
      /\ \A g \in Handlers \ {h} : handler'[g] = handler[g]
  BY Suspended DEF RoomInv
<1>2. \A g \in Handlers : /\ handler'[g].room.guestStake.owner = handler'[g].room.guest
                          /\ handler'[g].match \in 0..Len(matches)
  BY <1>1, RoomTypes DEF RoomInv
<1>3. Meeting!TypeOK'
  BY <1>1, <1>2 DEF RoomInv, Meeting!TypeOK
<1>4. \A g \in Handlers : HandlerOK(g)'
  <2>1. \A g \in Handlers : HandlerOK(g) /\ (writing(g) => handler[g].match \in 1..Len(matches))
    BY DEF RoomInv, HandlerOK
  <2> QED BY <1>1, <2>1, HandlerStays
<1>5. MatchesApart'
  BY <1>1 DEF RoomInv, MatchesApart, writing
<1>6. Meeting!NamedMatchIsBacked'
  <2>1. \A i \in 1..Len(matches) : matches[i].proposed => Meeting!Backed(matches[i])
    BY DEF RoomInv, Meeting!NamedMatchIsBacked
  <2> QED BY <2>1 DEF Meeting!NamedMatchIsBacked, Meeting!Backed
<1> QED BY <1>3, <1>4, <1>5, <1>6 DEF RoomInv

\* A handler that awaits, or answers, with the room as it was.
LEMMA HandlerAnswers ==
    ASSUME RoomInv, NEW h \in Handlers, NEW next \in Meeting!HandlerState,
           Meeting!suspend(h, next), UNCHANGED <<room, matches, confirmed>>,
           next.room = Meeting!NewRoom, next.match = 0, next.at \notin Writing,
           HandlerOK(h)', frames' \in Nat, roomFaults' \in Nat
    PROVE  RoomInv'
<1>1. /\ room \in Meeting!Room /\ room.guestStake.owner = room.guest
      /\ confirmed \in SUBSET Meeting!Devices /\ Len(matches) \in Nat
  BY RoomTypes DEF RoomInv, Meeting!TypeOK
<1>2. room.match # 0 => room.match \in 1..Len(matches) /\ Meeting!Backed(matches[room.match])
  BY DEF RoomInv, Meeting!NamedMatchIsBacked
<1>3. next.room.guestStake.owner = next.room.guest /\ next.match \in 0..Len(matches)
  BY <1>1, RoomFields
<1> QED BY <1>1, <1>2, <1>3, RoomMoves

LEMMA CountersGrow ==
    ASSUME RoomInv
    PROVE  /\ frames \in Nat /\ frames + 1 \in Nat
           /\ roomFaults \in Nat /\ roomFaults + 1 \in Nat
BY DEF RoomInv, Meeting!TypeOK

LEMMA RoomReceives ==
    ASSUME NEW h \in Handlers, Meeting!Receives(h)
    PROVE  frames' = frames + 1
BY DEF Meeting!Receives

LEMMA RoomJoin ==
    ASSUME RoomInv, NEW h \in Handlers, NEW d \in Meeting!Devices, NEW x \in Models,
           Meeting!JoinRoom(h, d, x)
    PROVE  RoomInv'
<1>a. PICK next : next = [Meeting!Idle EXCEPT !.at = "join", !.device = d, !.model = x]
  OBVIOUS
<1>1. /\ next \in Meeting!HandlerState
      /\ next.at = "join" /\ next.device = d /\ next.model = x
      /\ next.room = Meeting!NewRoom /\ next.match = 0
  BY <1>a, IdleIsHandler, RoomFields DEF Meeting!HandlerState, Meeting!At
<1>2. /\ Meeting!suspend(h, next) /\ d # Host /\ frames' = frames + 1
      /\ UNCHANGED <<room, matches, confirmed, roomFaults>>
  BY <1>a, RoomReceives DEF Meeting!JoinRoom, Meeting!mayJoin
<1>3. handler'[h] = next /\ d \in Guests
  BY <1>1, <1>2, Suspended DEF RoomInv, Meeting!Devices
<1>4. HandlerOK(h)'
  BY <1>1, <1>3 DEF HandlerOK, writing, Writing, Opening
<1> QED BY <1>1, <1>2, <1>4, CountersGrow, HandlerAnswers DEF Writing

LEMMA RoomAccept ==
    ASSUME RoomInv, NEW h \in Handlers, NEW d \in Meeting!Devices, Meeting!AcceptRoom(h, d)
    PROVE  RoomInv'
<1>a. PICK next : next = [Meeting!Idle EXCEPT !.at = "accept", !.device = d]
  OBVIOUS
<1>1. /\ next \in Meeting!HandlerState
      /\ next.at = "accept" /\ next.device = d
      /\ next.room = Meeting!NewRoom /\ next.match = 0
  BY <1>a, IdleIsHandler, RoomFields DEF Meeting!HandlerState, Meeting!At
<1>2. /\ Meeting!suspend(h, next) /\ room.guest # None /\ frames' = frames + 1
      /\ UNCHANGED <<room, matches, confirmed, roomFaults>>
  BY <1>a, RoomReceives DEF Meeting!AcceptRoom, Meeting!mayAccept
<1>3. handler'[h] = next
  BY <1>1, <1>2, Suspended DEF RoomInv
<1>4. HandlerOK(h)'
  BY <1>1, <1>2, <1>3 DEF HandlerOK, writing, Writing, Opening
<1> QED BY <1>1, <1>2, <1>4, CountersGrow, HandlerAnswers DEF Writing

LEMMA RoomLeave ==
    ASSUME RoomInv, NEW h \in Handlers, NEW d \in Meeting!Devices, Meeting!LeaveRoom(h, d)
    PROVE  RoomInv'
<1>a. PICK next : next = [Meeting!Idle EXCEPT !.at = "leave", !.device = d]
  OBVIOUS
<1>1. /\ next \in Meeting!HandlerState
      /\ next.at = "leave" /\ next.room = Meeting!NewRoom /\ next.match = 0
  BY <1>a, IdleIsHandler, RoomFields DEF Meeting!HandlerState, Meeting!At
<1>2. /\ Meeting!suspend(h, next) /\ frames' = frames + 1
      /\ UNCHANGED <<room, matches, confirmed, roomFaults>>
  BY <1>a, RoomReceives DEF Meeting!LeaveRoom
<1>3. handler'[h].at = "leave"
  BY <1>1, <1>2, Suspended DEF RoomInv
<1>4. HandlerOK(h)'
  BY <1>3, NotOpening DEF Writing, Opening
<1> QED BY <1>1, <1>2, <1>4, CountersGrow, HandlerAnswers DEF Writing

LEMMA RoomStoreFails ==
    ASSUME RoomInv, NEW h \in Handlers, Meeting!StoreFails(h)
    PROVE  RoomInv'
<1>1. /\ Meeting!suspend(h, Meeting!Idle) /\ roomFaults' = roomFaults + 1
      /\ UNCHANGED <<room, matches, confirmed, frames>>
  BY DEF Meeting!StoreFails
<1>2. handler'[h].at = "idle"
  BY <1>1, IdleIsHandler, RoomFields, Suspended DEF RoomInv
<1>3. HandlerOK(h)'
  BY <1>2, NotOpening DEF Writing, Opening
<1> QED BY <1>1, <1>3, CountersGrow, IdleIsHandler, RoomFields, HandlerAnswers DEF Writing

\* The row of the room is written.
LEMMA RowMoves ==
    ASSUME RoomInv, NEW h \in Handlers, Meeting!suspend(h, Meeting!Idle),
           room' \in Meeting!Room, room'.guestStake.owner = room'.guest,
           room.guest # None => room'.guest # None, room'.match = room.match,
           UNCHANGED <<matches, confirmed, frames, roomFaults>>
    PROVE  RoomInv'
<1>1. /\ confirmed' \in SUBSET Meeting!Devices /\ Len(matches) \in Nat
      /\ frames' \in Nat /\ roomFaults' \in Nat
  BY RoomTypes DEF RoomInv, Meeting!TypeOK
<1>2. room'.match # 0 => room'.match \in 1..Len(matches) /\ Meeting!Backed(matches[room'.match])
  BY DEF RoomInv, Meeting!NamedMatchIsBacked
<1>3. handler'[h].at = "idle"
  BY IdleIsHandler, RoomFields, Suspended DEF RoomInv
<1>4. HandlerOK(h)'
  BY <1>3, NotOpening DEF Writing, Opening
<1>5. /\ Meeting!Idle.room.guestStake.owner = Meeting!Idle.room.guest
      /\ Meeting!Idle.match \in 0..Len(matches) /\ Meeting!Idle.at \notin Writing
  BY <1>1, RoomFields DEF Writing
<1> QED BY <1>1, <1>2, <1>4, <1>5, IdleIsHandler, RoomMoves

LEMMA RoomJoinUpdate ==
    ASSUME RoomInv, NEW h \in Handlers, Meeting!JoinUpdate(h)
    PROVE  RoomInv'
<1>1. /\ handler[h].device \in Guests /\ handler[h].model \in Models
      /\ Meeting!suspend(h, Meeting!Idle)
      /\ room' = [room EXCEPT !.guest = handler[h].device,
                              !.guestStake = [owner |-> handler[h].device,
                                              model |-> handler[h].model]]
      /\ UNCHANGED <<matches, confirmed, frames, roomFaults>>
  BY DEF Meeting!JoinUpdate, RoomInv, HandlerOK
<1>2. room \in Meeting!Room
  BY RoomTypes DEF RoomInv
<1>3. PICK s : s = [owner |-> handler[h].device, model |-> handler[h].model]
  OBVIOUS
<1>4. s \in Meeting!Stake /\ s.owner = handler[h].device
  BY <1>1, <1>3, RoomFields DEF Meeting!Stake
<1>5. /\ room' \in Meeting!Room /\ room'.guest = handler[h].device
      /\ room'.guestStake = s /\ room'.match = room.match
  BY <1>1, <1>2, <1>3, <1>4 DEF Meeting!Room
<1>6. room'.guest # None
  BY <1>1, <1>5, RoomFields
<1> QED BY <1>1, <1>4, <1>5, <1>6, RowMoves

LEMMA RoomLeaveUpdate ==
    ASSUME RoomInv, NEW h \in Handlers, Meeting!LeaveUpdate(h)
    PROVE  RoomInv'
<1>1. /\ Meeting!suspend(h, Meeting!Idle)
      /\ room' = [room EXCEPT !.status = "closed"]
      /\ UNCHANGED <<matches, confirmed, frames, roomFaults>>
  BY DEF Meeting!LeaveUpdate
<1>2. room \in Meeting!Room /\ room.guestStake.owner = room.guest
  BY RoomTypes DEF RoomInv
<1>3. /\ room' \in Meeting!Room /\ room'.guest = room.guest
      /\ room'.guestStake = room.guestStake /\ room'.match = room.match
  BY <1>1, <1>2 DEF Meeting!Room
<1> QED BY <1>1, <1>2, <1>3, RowMoves

\* The handler that finds both flags set opens a match for the guest of the
\* row it wrote.
LEMMA RoomAcceptUpdate ==
    ASSUME RoomInv, NEW h \in Handlers, Meeting!AcceptUpdate(h)
    PROVE  RoomInv'
<1>1. /\ handler[h].at = "accept"
      /\ room' = IF handler[h].device = Host THEN [room EXCEPT !.hostAccepted = TRUE]
                 ELSE [room EXCEPT !.guestAccepted = TRUE]
      /\ confirmed' = confirmed \cup {handler[h].device}
      /\ Meeting!suspend(h, IF Meeting!opens(h, room')
                              THEN [Meeting!Idle EXCEPT !.at = "put_match", !.room = room']
                              ELSE Meeting!Idle)
      /\ UNCHANGED <<matches, frames, roomFaults>>
  BY DEF Meeting!AcceptUpdate
<1>2. handler[h].device \in Meeting!Devices /\ room.guest # None
  BY <1>1 DEF RoomInv, HandlerOK
<1>3. room \in Meeting!Room /\ room.guestStake.owner = room.guest
  BY RoomTypes DEF RoomInv
<1>4. /\ room' \in Meeting!Room /\ room'.guest = room.guest
      /\ room'.guestStake = room.guestStake /\ room'.match = room.match
  BY <1>1, <1>3 DEF Meeting!Room
<1>5. PICK next : next = IF Meeting!opens(h, room')
                           THEN [Meeting!Idle EXCEPT !.at = "put_match", !.room = room']
                           ELSE Meeting!Idle
  OBVIOUS
<1>6. /\ next \in Meeting!HandlerState
      /\ next.at \in {"put_match", "idle"} /\ next.match = 0
      /\ next.room.guestStake.owner = next.room.guest
      /\ next.at = "put_match" => next.room.guest # None
  <2>1. CASE Meeting!opens(h, room')
    <3>1. next = [at |-> "put_match", device |-> None, model |-> None, room |-> room', match |-> 0]
      BY <1>5, <2>1 DEF Meeting!Idle
    <3>2. next \in Meeting!HandlerState
      BY <1>4, <3>1 DEF Meeting!HandlerState, Meeting!At
    <3> QED BY <1>2, <1>3, <1>4, <3>1, <3>2
  <2>2. CASE ~ Meeting!opens(h, room')
    BY <1>5, <2>2, IdleIsHandler, RoomFields
  <2> QED BY <2>1, <2>2
<1>7. Meeting!suspend(h, next)
  BY <1>1, <1>5
<1>8. handler'[h] = next
  BY <1>6, <1>7, Suspended DEF RoomInv
<1>9. HandlerOK(h)'
  BY <1>6, <1>8 DEF HandlerOK, writing, Writing, Opening
<1>10. /\ confirmed' \in SUBSET Meeting!Devices /\ frames' \in Nat /\ roomFaults' \in Nat
       /\ Len(matches) \in Nat
  BY <1>1, <1>2, RoomTypes DEF RoomInv, Meeting!TypeOK
<1>11. room'.match # 0 =>
         room'.match \in 1..Len(matches) /\ Meeting!Backed(matches[room'.match])
  BY <1>4 DEF RoomInv, Meeting!NamedMatchIsBacked
<1>12. next.match \in 0..Len(matches) /\ next.at \notin Writing
  BY <1>6, <1>10 DEF Writing
<1> QED BY <1>1, <1>2, <1>3, <1>4, <1>6, <1>7, <1>9, <1>10, <1>11, <1>12, RoomMoves

LEMMA RoomNameMatch ==
    ASSUME RoomInv, NEW h \in Handlers, Meeting!NameMatch(h)
    PROVE  RoomInv'
<1>1. /\ handler[h].at = "name_match"
      /\ room' = [room EXCEPT !.match = handler[h].match, !.status = "matched"]
      /\ Meeting!suspend(h, [handler[h] EXCEPT !.at = "open_event"])
      /\ UNCHANGED <<matches, confirmed, frames, roomFaults>>
  BY DEF Meeting!NameMatch
<1>2. /\ room \in Meeting!Room /\ room.guestStake.owner = room.guest
      /\ handler[h].match \in 0..Len(matches) /\ Len(matches) \in Nat
      /\ handler[h].room.guestStake.owner = handler[h].room.guest
      /\ confirmed \in SUBSET Meeting!Devices /\ frames \in Nat /\ roomFaults \in Nat
      /\ handler[h] \in Meeting!HandlerState
  BY RoomTypes DEF RoomInv, Meeting!TypeOK
<1>3. PICK next : next = [handler[h] EXCEPT !.at = "open_event"]
  OBVIOUS
<1>4. /\ next \in Meeting!HandlerState
      /\ next.at = "open_event" /\ next.match = handler[h].match /\ next.room = handler[h].room
  BY <1>2, <1>3 DEF Meeting!HandlerState, Meeting!At
<1>5. Meeting!suspend(h, next) /\ handler'[h] = next
  BY <1>1, <1>3, <1>4, Suspended DEF RoomInv
<1>6. /\ room' \in Meeting!Room /\ room'.guest = room.guest
      /\ room'.guestStake = room.guestStake /\ room'.match = handler[h].match
  <2>1. PICK m \in Nat : m = handler[h].match
    BY <1>2
  <2>2. room' = [room EXCEPT !.match = m, !.status = "matched"]
    BY <1>1, <2>1
  <2>3. /\ room' \in Meeting!Room /\ room'.guest = room.guest
        /\ room'.guestStake = room.guestStake /\ room'.match = m
    BY <1>2, <2>2 DEF Meeting!Room
  <2> QED BY <2>1, <2>3
<1>7. handler[h].match \in 1..Len(matches) /\ Meeting!Backed(matches[handler[h].match])
  BY <1>1, WrittenIsBacked
<1>8. HandlerOK(h)'
  <2>1. StakesSoFar(h)' = StakesSoFar(h)
    BY <1>1, <1>4, <1>5 DEF StakesSoFar
  <2>2. writing(h)
    BY <1>1 DEF writing, Writing
  <2> QED BY <1>1, <1>4, <1>5, <2>1, <2>2 DEF RoomInv, HandlerOK, Opening, Writing
<1>9. writing(h)
  BY <1>1 DEF writing, Writing
<1> QED BY <1>1, <1>2, <1>4, <1>5, <1>6, <1>7, <1>8, <1>9, RoomMoves

------------------------------------------------------------------------------
(* Steps that change a match.                                              *)

\* A new row of matches, which no other handler knows.
LEMMA RoomPutMatch ==
    ASSUME RoomInv, NEW h \in Handlers, Meeting!PutMatch(h)
    PROVE  RoomInv'
<1>1. PICK r : r = [a |-> Host, b |-> handler[h].room.guest, stakes |-> {}, proposed |-> FALSE]
  OBVIOUS
<1>2. PICK next : next = [handler[h] EXCEPT !.at = "host_stake", !.match = Len(matches) + 1]
  OBVIOUS
<1>3. /\ handler[h].at = "put_match"
      /\ matches' = Append(matches, r) /\ Meeting!suspend(h, next)
      /\ UNCHANGED <<room, confirmed, frames, roomFaults>>
  BY <1>1, <1>2 DEF Meeting!PutMatch
<1>4. handler[h].room.guest # None
  BY <1>3 DEF RoomInv, HandlerOK, Opening
<1>5. r \in Meeting!Match /\ r.a = Host /\ r.b = handler[h].room.guest /\ r.stakes = {}
      /\ r.proposed = FALSE
  <2>1. handler[h].room.guest \in Meeting!Devices
    BY <1>4, RoomTypes, RoomFields, GuestStake DEF RoomInv
  <2> QED BY <1>1, <2>1, RoomFields DEF Meeting!Match
<1>6. /\ matches' \in Seq(Meeting!Match)
      /\ Len(matches') = Len(matches) + 1 /\ Len(matches) \in Nat
      /\ matches'[Len(matches) + 1] = r
      /\ \A i \in 1..Len(matches) : matches'[i] = matches[i]
  BY <1>3, <1>5, RoomTypes DEF RoomInv
<1>7. /\ next \in Meeting!HandlerState /\ next.at = "host_stake"
      /\ next.match = Len(matches) + 1 /\ next.room = handler[h].room
  <2>1. PICK m \in Nat : m = Len(matches) + 1
    BY <1>6
  <2>2. next = [handler[h] EXCEPT !.at = "host_stake", !.match = m]
    BY <1>2, <2>1
  <2>3. handler[h] \in Meeting!HandlerState
    BY RoomTypes DEF RoomInv
  <2>4. /\ next \in Meeting!HandlerState /\ next.at = "host_stake"
        /\ next.match = m /\ next.room = handler[h].room
    BY <2>2, <2>3 DEF Meeting!HandlerState, Meeting!At
  <2> QED BY <2>1, <2>4
<1>8. /\ handler' \in [Handlers -> Meeting!HandlerState]
      /\ handler'[h] = next
      /\ \A g \in Handlers \ {h} : handler'[g] = handler[g]
  BY <1>3, <1>7, Suspended DEF RoomInv
<1>9. \A g \in Handlers : /\ handler'[g].room.guestStake.owner = handler'[g].room.guest
                          /\ handler'[g].match \in 0..Len(matches')
  BY <1>6, <1>7, <1>8, RoomTypes DEF RoomInv
<1>10. Meeting!TypeOK'
  BY <1>3, <1>6, <1>8, <1>9 DEF RoomInv, Meeting!TypeOK
<1>11. HandlerOK(h)'
  <2>1. StakesSoFar(h)' = {}
    BY <1>7, <1>8 DEF StakesSoFar
  <2>2. matches'[handler'[h].match] = r /\ handler'[h].match \in 1..Len(matches')
    BY <1>6, <1>7, <1>8
  <2> QED BY <1>4, <1>5, <1>7, <1>8, <2>1, <2>2 DEF HandlerOK
<1>12. \A g \in Handlers : HandlerOK(g)'
  <2>1. \A g \in Handlers :
          HandlerOK(g) /\ (writing(g) => handler[g].match \in 1..Len(matches))
    BY DEF RoomInv, HandlerOK
  <2>2. \A g \in Handlers \ {h} : HandlerOK(g)'
    BY <1>3, <1>6, <1>8, <2>1, HandlerStays
  <2> QED BY <1>11, <2>2
<1>13. MatchesApart'
  <2>1. \A g \in Handlers \ {h} : writing(g)' => writing(g) /\ handler'[g].match \in 1..Len(matches)
    BY <1>8 DEF RoomInv, HandlerOK, writing
  <2>2. \A g \in Handlers \ {h} : writing(g)' => handler'[g].match # handler'[h].match
    BY <1>6, <1>7, <1>8, <2>1
  <2> QED BY <1>8, <2>1, <2>2 DEF RoomInv, MatchesApart
<1>14. Meeting!NamedMatchIsBacked'
  <2>1. \A i \in 1..Len(matches') : matches'[i].proposed =>
            i \in 1..Len(matches) /\ Meeting!Backed(matches[i])
    BY <1>5, <1>6 DEF RoomInv, Meeting!NamedMatchIsBacked
  <2>2. room.match # 0 => room.match \in 1..Len(matches) /\ Meeting!Backed(matches[room.match])
    BY DEF RoomInv, Meeting!NamedMatchIsBacked
  <2> QED BY <1>3, <1>6, <2>1, <2>2 DEF Meeting!NamedMatchIsBacked, Meeting!Backed
<1> QED BY <1>10, <1>12, <1>13, <1>14 DEF RoomInv

\* The match of a handler gets r for its row; no match that is named or was
\* proposed loses its stakes by that.
LEMMA MatchMoves ==
    ASSUME RoomInv, NEW h \in Handlers, writing(h), NEW r \in Meeting!Match,
           matches' = [matches EXCEPT ![handler[h].match] = r],
           NEW next \in Meeting!HandlerState, Meeting!suspend(h, next),
           next.room = handler[h].room \/ next.room = Meeting!NewRoom,
           next.match = handler[h].match \/ next.match = 0,
           next.at \in Writing => next.match = handler[h].match,
           HandlerOK(h)',
           Meeting!Backed(matches[handler[h].match]) => Meeting!Backed(r),
           r.proposed => Meeting!Backed(r),
           UNCHANGED <<room, confirmed, frames, roomFaults>>
    PROVE  RoomInv'
<1>1. handler[h].match \in 1..Len(matches)
  BY DEF RoomInv, HandlerOK
<1>2. matches \in Seq(Meeting!Match) /\ Len(matches) \in Nat
  BY RoomTypes DEF RoomInv
<1>3. /\ matches' \in Seq(Meeting!Match) /\ Len(matches') = Len(matches)
      /\ matches'[handler[h].match] = r
      /\ \A i \in 1..Len(matches) \ {handler[h].match} : matches'[i] = matches[i]
  BY <1>1, <1>2
<1>4. /\ handler' \in [Handlers -> Meeting!HandlerState]
      /\ handler'[h] = next
      /\ \A g \in Handlers \ {h} : handler'[g] = handler[g]
  BY Suspended DEF RoomInv
<1>5. \A g \in Handlers : /\ handler'[g].room.guestStake.owner = handler'[g].room.guest
                          /\ handler'[g].match \in 0..Len(matches')
  BY <1>2, <1>3, <1>4, RoomTypes, RoomFields DEF RoomInv
<1>6. Meeting!TypeOK'
  BY <1>3, <1>4, <1>5 DEF RoomInv, Meeting!TypeOK
<1>7. \A g \in Handlers : HandlerOK(g)'
  <2>1. \A g \in Handlers \ {h} :
          HandlerOK(g) /\ (writing(g) => handler[g].match \in 1..Len(matches) \ {handler[h].match})
    BY DEF RoomInv, HandlerOK, MatchesApart
  <2>2. \A g \in Handlers \ {h} : HandlerOK(g)'
    BY <1>3, <1>4, <2>1, HandlerStays
  <2> QED BY <2>2
<1>8. MatchesApart'
  BY <1>4 DEF RoomInv, MatchesApart, writing
<1>9. Meeting!NamedMatchIsBacked'
  <2>1. \A i \in 1..Len(matches) : matches[i].proposed => Meeting!Backed(matches[i])
    BY DEF RoomInv, Meeting!NamedMatchIsBacked
  <2>2. room.match # 0 => room.match \in 1..Len(matches) /\ Meeting!Backed(matches[room.match])
    BY DEF RoomInv, Meeting!NamedMatchIsBacked
  <2>3. \A i \in 1..Len(matches) : matches'[i].proposed => Meeting!Backed(matches'[i])
    BY <1>3, <2>1
  <2>4. room.match # 0 => room.match \in 1..Len(matches) /\ Meeting!Backed(matches'[room.match])
    BY <1>3, <2>2
  <2> QED BY <1>3, <2>3, <2>4 DEF Meeting!NamedMatchIsBacked, Meeting!Backed
<1> QED BY <1>6, <1>7, <1>8, <1>9 DEF RoomInv

\* The match whose row a handler changes, field by field.
LEMMA RowOfMatch ==
    ASSUME RoomInv, NEW h \in Handlers, writing(h)
    PROVE  /\ handler[h].match \in 1..Len(matches)
           /\ matches[handler[h].match] \in Meeting!Match
           /\ matches[handler[h].match].a = Host
           /\ matches[handler[h].match].b = handler[h].room.guest
           /\ matches[handler[h].match].stakes = StakesSoFar(h)
           /\ matches[handler[h].match].proposed => Meeting!Backed(matches[handler[h].match])
           /\ handler[h].room.guest # None
           /\ handler[h].room.guestStake \in Meeting!Stake
<1>1. /\ handler[h].match \in 1..Len(matches)
      /\ matches[handler[h].match].a = Host
      /\ matches[handler[h].match].b = handler[h].room.guest
      /\ matches[handler[h].match].stakes = StakesSoFar(h)
      /\ handler[h].room.guest # None
  BY DEF RoomInv, HandlerOK, writing, Opening
<1>2. handler[h].room.guestStake \in Meeting!Stake
  BY <1>1, RoomTypes, GuestStake DEF RoomInv
<1>3. matches[handler[h].match] \in Meeting!Match
  BY <1>1, RoomTypes DEF RoomInv
<1> QED BY <1>1, <1>2, <1>3 DEF RoomInv, Meeting!NamedMatchIsBacked

LEMMA StakePut ==
    ASSUME RoomInv, NEW h \in Handlers,
           NEW stake \in {Meeting!hostStake, handler[h].room.guestStake},
           NEW to \in {"guest_stake", "name_match"},
           \/ /\ handler[h].at = "host_stake" /\ to = "guest_stake"
              /\ stake = Meeting!hostStake
           \/ /\ handler[h].at = "guest_stake" /\ to = "name_match"
              /\ stake = handler[h].room.guestStake,
           Meeting!putStake(h, stake, to)
    PROVE  RoomInv'
<1>0. writing(h) /\ handler[h].at \in {"host_stake", "guest_stake"}
  BY DEF writing, Writing
<1>1. PICK m : m = handler[h].match
  OBVIOUS
<1>2. PICK r : r = [matches[m] EXCEPT !.stakes = @ \cup {stake}]
  OBVIOUS
<1>3. PICK next : next = [handler[h] EXCEPT !.at = to]
  OBVIOUS
<1>4. /\ matches' = [matches EXCEPT ![m] = r] /\ Meeting!suspend(h, next)
      /\ UNCHANGED <<room, confirmed, frames, roomFaults>>
  BY <1>1, <1>2, <1>3 DEF Meeting!putStake
<1>5. /\ m \in 1..Len(matches) /\ matches[m] \in Meeting!Match
      /\ matches[m].a = Host /\ matches[m].b = handler[h].room.guest
      /\ matches[m].stakes = StakesSoFar(h) /\ ~ matches[m].proposed
      /\ ~ Meeting!Backed(matches[m])
      /\ handler[h].room.guest # None /\ stake \in Meeting!Stake
  BY <1>0, <1>1, RowOfMatch, RoomFields, OneStakeIsNotTwo
<1>6. /\ r \in Meeting!Match /\ r.a = Host /\ r.b = handler[h].room.guest
      /\ r.stakes = StakesSoFar(h) \cup {stake} /\ ~ r.proposed
  BY <1>2, <1>5 DEF Meeting!Match
<1>7. /\ next \in Meeting!HandlerState /\ next.at = to
      /\ next.room = handler[h].room /\ next.match = m
  <2>1. handler[h] \in Meeting!HandlerState
    BY RoomTypes DEF RoomInv
  <2> QED BY <1>1, <1>3, <2>1 DEF Meeting!HandlerState, Meeting!At
<1>8. handler'[h] = next /\ Len(matches') = Len(matches) /\ matches'[m] = r
  <2>1. handler'[h] = next
    BY <1>4, <1>7, Suspended DEF RoomInv
  <2>2. matches \in Seq(Meeting!Match)
    BY RoomTypes DEF RoomInv
  <2> QED BY <1>4, <1>5, <1>6, <2>1, <2>2
<1>9. HandlerOK(h)'
  <2>1. StakesSoFar(h)' = StakesSoFar(h) \cup {stake}
    BY <1>7, <1>8 DEF StakesSoFar
  <2> QED BY <1>5, <1>6, <1>7, <1>8, <2>1 DEF HandlerOK, writing, Writing, Opening
<1> QED BY <1>0, <1>1, <1>4, <1>5, <1>6, <1>7, <1>9, MatchMoves

LEMMA RoomPutHostStake ==
    ASSUME RoomInv, NEW h \in Handlers, Meeting!PutHostStake(h)
    PROVE  RoomInv'
BY StakePut DEF Meeting!PutHostStake

LEMMA RoomPutGuestStake ==
    ASSUME RoomInv, NEW h \in Handlers, Meeting!PutGuestStake(h)
    PROVE  RoomInv'
BY StakePut DEF Meeting!PutGuestStake

LEMMA RoomOpenEvent ==
    ASSUME RoomInv, NEW h \in Handlers, Meeting!OpenEvent(h)
    PROVE  RoomInv'
<1>1. PICK m : m = handler[h].match
  OBVIOUS
<1>2. PICK r : r = [matches[m] EXCEPT !.proposed = TRUE]
  OBVIOUS
<1>3. /\ handler[h].at = "open_event"
      /\ matches' = [matches EXCEPT ![m] = r] /\ Meeting!suspend(h, Meeting!Idle)
      /\ UNCHANGED <<room, confirmed, frames, roomFaults>>
  BY <1>1, <1>2 DEF Meeting!OpenEvent
<1>4. writing(h)
  BY <1>3 DEF writing, Writing
<1>5. matches[m] \in Meeting!Match /\ Meeting!Backed(matches[m])
  BY <1>1, <1>3, <1>4, RowOfMatch, WrittenIsBacked
<1>6. /\ r \in Meeting!Match
      /\ r.a = matches[m].a /\ r.b = matches[m].b /\ r.stakes = matches[m].stakes
  BY <1>2, <1>5 DEF Meeting!Match
<1>7. Meeting!Backed(r)
  BY <1>5, <1>6 DEF Meeting!Backed
<1>8. handler'[h].at = "idle"
  BY <1>3, IdleIsHandler, RoomFields, Suspended DEF RoomInv
<1>9. HandlerOK(h)'
  BY <1>8, NotOpening DEF Writing, Opening
<1> QED BY <1>1, <1>3, <1>4, <1>6, <1>7, <1>9, IdleIsHandler, RoomFields, MatchMoves DEF Writing

\* A crash forgets the handlers and leaves the rows.
LEMMA RoomCrash ==
    ASSUME RoomInv, Meeting!Crash
    PROVE  RoomInv'
<1>1. /\ roomFaults' = roomFaults + 1
      /\ handler' = [h \in Handlers |-> Meeting!Idle]
      /\ UNCHANGED <<room, matches, confirmed, frames>>
  BY DEF Meeting!Crash
<1>2. \A h \in Handlers : handler'[h] = Meeting!Idle /\ handler'[h].at = "idle"
  BY <1>1, RoomFields
<1>3. \A h \in Handlers : HandlerOK(h)' /\ ~ writing(h)'
  BY <1>2, NotOpening DEF Opening, Writing
<1>4. Meeting!TypeOK'
  <2>1. handler' \in [Handlers -> Meeting!HandlerState]
    BY <1>1, IdleIsHandler
  <2>2. \A h \in Handlers : /\ handler'[h].room.guestStake.owner = handler'[h].room.guest
                            /\ handler'[h].match \in 0..Len(matches)
    BY <1>2, RoomTypes, RoomFields DEF RoomInv
  <2> QED BY <1>1, <2>1, <2>2, CountersGrow DEF RoomInv, Meeting!TypeOK
<1>5. Meeting!NamedMatchIsBacked'
  BY <1>1 DEF RoomInv, Meeting!NamedMatchIsBacked, Meeting!Backed
<1> QED BY <1>3, <1>4, <1>5 DEF RoomInv, MatchesApart

------------------------------------------------------------------------------

LEMMA RoomBegins == Meeting!Init => RoomInv
<1> SUFFICES ASSUME Meeting!Init PROVE RoomInv
  OBVIOUS
<1>1. /\ room = Meeting!NewRoom /\ matches = <<>>
      /\ handler = [h \in Handlers |-> Meeting!Idle]
      /\ confirmed = {} /\ frames = 0 /\ roomFaults = 0
  BY DEF Meeting!Init
<1>2. <<>> \in Seq(Meeting!Match) /\ Len(<<>>) = 0
  OBVIOUS
<1>3. Meeting!TypeOK
  BY <1>1, <1>2, NewRoomIsRoom, IdleIsHandler, RoomFields DEF Meeting!TypeOK
<1>4. \A h \in Handlers : HandlerOK(h) /\ ~ writing(h)
  BY <1>1, RoomFields DEF HandlerOK, writing, Writing, Opening
<1>5. Meeting!NamedMatchIsBacked
  BY <1>1, <1>2, RoomFields DEF Meeting!NamedMatchIsBacked
<1> QED BY <1>3, <1>4, <1>5 DEF RoomInv, MatchesApart

LEMMA RoomStep ==
    ASSUME RoomInv, Meeting!Next
    PROVE  RoomInv'
BY RoomJoin, RoomAccept, RoomLeave, RoomStoreFails, RoomJoinUpdate, RoomLeaveUpdate,
   RoomAcceptUpdate, RoomNameMatch, RoomPutMatch, RoomPutHostStake, RoomPutGuestStake,
   RoomOpenEvent, RoomCrash DEF Meeting!Next, Meeting!HandlerStep

LEMMA RoomStays ==
    ASSUME RoomInv, UNCHANGED roomVars
    PROVE  RoomInv'
<1>1. UNCHANGED <<room, matches, handler, confirmed, frames, roomFaults>>
  BY DEF roomVars
<1>2. Meeting!TypeOK'
  BY <1>1 DEF RoomInv, Meeting!TypeOK
<1>3. \A h \in Handlers : HandlerOK(h)'
  <2>1. \A h \in Handlers : HandlerOK(h) /\ (writing(h) => handler[h].match \in 1..Len(matches))
    BY DEF RoomInv, HandlerOK
  <2> QED BY <1>1, <2>1, HandlerStays
<1>4. MatchesApart'
  BY <1>1 DEF RoomInv, MatchesApart, writing
<1>5. Meeting!NamedMatchIsBacked'
  BY <1>1 DEF RoomInv, Meeting!NamedMatchIsBacked, Meeting!Backed
<1> QED BY <1>2, <1>3, <1>4, <1>5 DEF RoomInv

LEMMA RoomInvariant == PartsSpec => []RoomInv
<1>1. PartsInit => RoomInv
  BY RoomBegins DEF PartsInit
<1>2. RoomInv /\ [PartsNext]_allVars => RoomInv'
  BY RoomStep, RoomStays DEF PartsNext, allVars
<1> QED BY <1>1, <1>2, PTL DEF PartsSpec

\* However joins, accepts and leaves of any number of handlers overlap, and
\* wherever a crash or a failed query stops one, a match the room names or its
\* players were sent has one stake of each side and no other (arena.ts,
\* joinRoom and openMatch).
THEOREM MatchesStayBacked == PartsSpec => []NamedMatchIsBacked
<1>1. RoomInv => NamedMatchIsBacked
  BY DEF RoomInv, NamedMatchIsBacked
<1> QED BY <1>1, RoomInvariant, PTL
=============================================================================
