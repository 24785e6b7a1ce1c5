# Agent Colosseum: formal models

TLA+ specifications of the parts of this repository whose correctness depends on
order: the poker engine, the match server, the grant relay, and the plugin that
talks to it. TLC checks them on small instances. TLAPS proves the most important
facts for every value of the constants.

Paths below are relative to `packages/`. Line numbers are those of this commit.
`PROJECT.json` maps every definition to the lines it stands for, and lists the
runs, the hazards, the findings and the theorems.

- [Inventory](#inventory)
- [Plan](#plan)
- [Conventions](#conventions)
- [The models](#the-models)
- [What the runs show](#what-the-runs-show)
- [Where the code differs from its documents](#where-the-code-differs-from-its-documents)
- [What is proved](#what-is-proved)
- [What is not modelled](#what-is-not-modelled)

To run a check: `tlc -config GrantCalls.cfg MCGrantCalls`. To check the proofs of a
module: `tlapm GrantRelayProofs.tla`. A configuration that is named after a module
(`RedisClocksPolls.cfg`) runs on that module itself: `tlc -config
RedisClocksPolls.cfg RedisClocks`.

## Inventory

Two devices play a heads-up match through a server. The stake of the loser
becomes a grant: ten model calls that the winner may stream through the plugin
of the loser.

| Component | Source | State | Operations | Model |
| --- | --- | --- | --- | --- |
| Poker engine | `poker/src/engine.ts`, `blinds.ts`, `evaluate.ts` | one match object: stacks, bets, board, street, action number, verdict | `create`, `startHand`, `apply`, `autoFault`, `forfeit`, `doubleDisconnect`, `serverFault` | `PokerEngine` |
| Match lifecycle | `server/src/arena.ts`, `settlement.ts` | match row, stakes, grants, the engines in memory, two timers per match | entropy, action, action timeout, disconnect timeout, save and publish, settle, restore | `ArenaMatch` |
| Friend rooms | `server/src/arena.ts` (`createRoom` ... `openMatch`) | room row, match row, two stakes | create, join, accept, leave, open | `ArenaRoom` |
| Grants and relay | `server/src/relay.ts`, `settlement.ts` | grant row, inference rows | reserve, preflight, deduct, terminal, abort, tick | `GrantRelay` |
| Plugin streams | `plugin/src/host/connection.ts` | waiters and backlog by frame type, aborts | `streamAsWinner`, `fulfillAsOwner`, `waitType`, `failWaiters` | `RelayStream` |
| Device identity | `server/src/auth.ts`, `plugin/src/host/connection.ts` | challenges, `invites`, `devices`; keys and device id of a plugin and its credentials | hello, challenge, redeem, session, remint, persist | `DeviceAuth` |
| Store | `server/src/postgres.ts`, `schema.sql` | the tables | one query or transaction each | inside the modules above |
| Clocks | `server/src/redis-runtime.ts` `RedisClocks`, `arena.ts` | two sorted sets and a hash in Redis, the poll that is under way | schedule, cancel, poll, restore | `RedisClocks`; what timers do to a match in `ArenaMatch` |
| Presence | `server/src/http.ts`, `redis-runtime.ts` `RedisPresence`, `arena.ts` | sockets, the presence book, the disconnect timer | attach, detach, heartbeat, judge a disconnect | `SocketPresence`; owner presence in `GrantRelay` |
| Rate limit | `server/src/redis-runtime.ts` `RedisRateLimit`, `arena.ts` `remember` | a key per message, a counter per second | remember | `MessageGate` |
| Bus | `server/src/redis-runtime.ts` `RedisBus`, `arena.ts` `send` | the sockets of each instance, a connection to and from Redis | attach, detach, send, receive | `FrameBus` |
| Event log | `server/src/arena.ts` `recordEvent`, `crypto/src/hash-chain.ts` | `match_events`, the last hash in memory | record, verify | `EventChain` |
| Front end | `server/src/http.ts` | the device of a socket, a send queue | frames in, frames out | in `DeviceAuth`, `SocketPresence`, `ArenaMatch` |
| Agents and local matches | `plugin/src/host/agent-runner.ts`, `local-match.ts`, `runtime.ts`, `connection.ts` `playAction` | live contestants, a queue of decisions, abort signals | create, decide, repair, time out, dispose, start, cancel | `AgentDecisions` |
| Scripted matches | `poker/src/local-match.ts`, `script-policy.ts` | an engine and two policies | play | `ScriptedMatch` |
| Calls in one process | `plugin/src/host/grant-relay.ts`, `runtime.ts` `streamGrant` | a generator per call, its signal | reserve, start, chunk, terminal, abort, leave | `OwnerStream` |
| Runtime, snapshot store, overlay | `plugin/src/host`, `plugin/src/client` | what the user sees | calls to the above | not modelled |
| Crypto, protocol | `crypto/src`, `protocol/src` | none | keys, shuffle, sealing, schemas | abstracted |

How they interact. The server is one Node process. A frame, a timer or the close
of a socket starts an async handler. A handler runs until it awaits a query; then
another may run, and what the first has read is a copy. The engine is called
synchronously between two awaits. PostgreSQL serialises each statement, and the
transactions that lock a row (`settleInTransaction`, `deductIfStarted`). Redis keeps
the due times of timers, polled every 200 ms. Plugins and server exchange frames
over one socket per plugin; a plugin reconnects with growing delay.

What makes the behaviour hard, by component:

- **Engine.** Short all-ins, blinds that put a seat all-in, uncalled bets, the
  option of the big blind, run-outs, the last hand with equal stacks. Correct: chips
  are conserved; a street closes when both seats have answered; the seat waited for
  can act; no hand costs more than the smaller stack; the verdict is what the chips
  show; every hand ends.
- **Match.** Actions, timers, disconnects and retries interleave at each await; the
  process may die between any two queries; a query may fail after the engine has
  moved. Correct: stakes are settled once, by the verdict of the engine; a restart
  keeps what was shown; each decision has its timer; a match ends.
- **Room.** Join, accept and leave race each other; `openMatch` is five writes.
  Correct: a match has the stakes of its two sides; what both accepted opens; both
  sides confirmed.
- **Grants.** Three handlers write whole rows back from copies. Correct: a call is
  charged once, one at a time, never more than ten; the row does not contradict
  itself; the clock runs only while the owner is online.
- **Streams.** Waiters are found by the type of a frame, not by its call. Correct: a
  caller is given the chunks of its call in the order they came, all of them, and
  stops at the terminal of its own call.
- **Clocks.** A poll is up to five Redis commands; handlers set and cancel the same
  timers in between, a crash takes the timer that was just removed with it. Correct:
  a decision that waits has its timer, an ended match has none, and a match of silent
  players ends.
- **Presence.** A socket may close before it is attached, or die without a close; one
  disconnect timer serves two seats. Correct: the book counts the sockets there are;
  who loses by absence was absent, who wins was there; a seat that left is judged.
- **Gate and bus.** Three awaited commands per frame, keys that lapse, frames that come
  back from Redis. Correct: a message acts once, a second lets its limit through and
  refuses none before; a socket gets each frame once and in order.
- **Event log.** The hash comes from memory and the number from a query. Correct: no
  event is changed, none is missing, each links to a stored one.
- **Agents.** One queue for all matches; an agent may never answer, or answer late;
  disposing takes handles of decisions under way. Correct: an answer belongs to its
  prompt; each decision returns; a cancelled match ends.
- **Calls in one process.** A generator may be left at every yield. Correct: the slot
  is given back once, and the record says what happened.
- **Identity.** Redeeming is four queries; answers are lost with sockets, and
  credentials with processes. Correct: a key has one row; a use of an invite pays for
  a device; a device stays the same device and can come back.

The hazards, each at its line and with the properties that would catch it, are in
`PROJECT.json`.

## Plan

Done, in this order:

1. `PokerEngine`, then `PokerEngineProofs`.
2. `GrantRelay` with its abstract specification `GrantLedger`, then `GrantRelayProofs`.
3. `ArenaMatch` with its abstract specification `MatchEscrow`, then
   `ArenaMatchProofs`.
4. `ArenaRoom`: rooms up to the point where `ArenaMatch` starts.
5. `RelayStream`: the two plugins around the relay.
6. `DeviceAuth`, then the first part of `DevicesProofs`.
7. `RedisClocks` and `SocketPresence`: what `ArenaMatch` takes as its timers and as
   the presence of its seats, command by command and socket by socket.
8. `AgentDecisions`: the runner, the local match and the online one that share it.
9. `EventChain`, then the first part of `FramesProofs`.
10. `MessageGate` and `FrameBus`: several sockets and instances on one Redis.
11. `ScriptedMatch`, which extends `PokerEngine`, and `OwnerStream`.
12. Proofs of what the runs check: the rest of the engine and of the match; the gate
    and the bus in `FramesProofs`; the invites and the rooms in `DevicesProofs`;
    `ClocksProofs`, `GrantCallsProofs` and `AgentDecisionsProofs`.

Next:

13. `ingestSnapshot` of the plugin (`connection.ts`) with `FrameBus`: what the user
    sees when snapshots of two instances change places.
14. A form of `DeviceReturns` for plugins that have never been let in.
## Conventions

**Handlers.** An async function of the server is a member of `Handlers` (in
`DeviceAuth`, of a socket), suspended at an await named by its field `at`. An action
runs it to the next await. What it has read stays in its record, so stale copies
are stale in the model. The number of handlers is a constant: with one, frames are
handled one at a time, which is what most tests exercise; with two, everything that
two can do to each other happens. Properties say which of the two they are about.

**Faults.** A crash forgets every variable that lives in memory and keeps those that
stand for tables, Redis or credentials. A failing query ends the handler where it
is; if the handler was started with `void`, as timers and socket closes are, the
rejection is unhandled and ends the process.

**Mutants.** An operator `X_y` is `X` with one plausible mistake `y`. No action uses
it. `PROJECT.json` lists one for each checked property. Where a property is a
conjunction of several, the module has more of them, up to one for each conjunct.

**Parts.** A module `MC...` that instantiates several components adds a variable
`part`, chosen at the start and never changed. A behaviour is one of its part; the
other components keep their initial state. The states of such a run are the sum of
those of its parts, and each property is about one part (the others satisfy it in
their initial state). Fairness is conditioned on the part. The components of a run
share no state; where they do meet in the code, one module models the meeting. What
each component is instantiated with is a constant of the `MC...` module where a theorem
is about it, so the theorem holds for every value and the configuration picks one.

**Bounds.** Constants marked "bound of the model" cap counters that the code does not
cap. Each is in a guard of its own.

## The models

### PokerEngine

One record, `state`, for `this.state`. Each method of the class that changes it is an
operator of the same name from state to state. A public method is one action with
every call it makes. A deck is the set of seats its nine live cards make win; the
board and the deck are counts of cards. `BoardIsDeckDetermined` is what makes that
abstraction sound: however the streets were dealt, the same cards reach the board.

### GrantRelay and GrantLedger

One grant. `grant` and `inference` are rows. A handler runs `reserve`, `preflight`,
`terminal`, `abortWinnerRelays` or a tick. The owner is a counter of frames it has yet
to answer and of calls it has yet to end. The environment connects and disconnects
the owner, lets time pass, and crashes the server. `GrantLedger` is the promise: a
call is charged once, when none is open.

### ArenaMatch and MatchEscrow

One match from the row that `openMatch` inserted. `engine` is the sequence of engines
made for it (a second deal, or a restart, makes another); each is reduced to hand,
action number, whose turn it is, whether the hand is over, and the verdict. `action`
and `grace` are the two timers. `shown` is a history variable: the furthest play that
was sent. `MatchEscrow` is the promise: stakes stay locked until one verdict, and then
follow it.

### ArenaRoom

One room. `matches` is a sequence, for the code can open two. `ArenaRoom` ends where
`ArenaMatch` begins: with the proposal of a match. `confirmed` is a history variable.

### RelayStream

The winner and the owner of one grant, the frames between them, and what the server
does with each (`GrantRelay` has the awaits of those handlers; here a handler is one
step). A promise resolved by a frame runs on before its plugin does anything but
receive frames that arrived with it. The server may handle any of the first `Window`
frames of a device first. `MaxOpen` is how many streams the winner's host has open.
`came` and `serial` are history variables: the chunks of each call in the order in which
they reached the winner, and whether streams followed one another.

### OwnerStream

The generator `streamGrantThroughOwner` when winner and owner run in one process, as
in `streamGrant` of the runtime. An action runs it from one await or yield to the
next; between them the host aborts, stops reading (which closes the generator, with
its `finally`), or the ledger throws. A call of the ledger is one step here, as
`GrantRelay` has its awaits.

### RedisClocks

The two timers of one match as members of sorted sets, and the sequence number in the
hash beside them. A run of `due()` is a member of `Polls`, suspended after each
command with its last reply. Handlers are those of `ArenaMatch`, reduced to what they
do to timers. `lost` is a history variable: a save or publication failed and nothing
was timed since.

### SocketPresence

The sockets of the two players, the presence book, `handleDisconnect` and
`evaluateDisconnect`. Moments are kept as ages in ticks: heartbeat every tick, away
after two, forfeit after three. Their order is what the properties tell apart, as it
is of the 15 s, 45 s and 90 s of the code. A beat comes from a socket that is attached:
while a player has one, the age of its last beat does not pass the heartbeat.

### DeviceAuth

Plugins, their credentials, the sockets they open and the tables `invites` and
`devices`. The handler of a challenge response lives on when its socket closes, so
two of one plugin may redeem the same key. `credentials.set` is assumed to complete in
the order it was called, because the host's credential store is not in this
repository.

### EventChain

The rows of `match_events` of one match, the last hash in memory and the handlers in
`recordEvent`. A hash is the sequence of payloads it commits to. A query may fail
after it was carried out.

### MessageGate and FrameBus

`MessageGate` is `remember()` of the frames of one device at each of its three
commands, while seconds pass and keys lapse. `FrameBus` is the way of a frame from
`send()` to the sockets of its device on every instance, with the two connections
of each instance to Redis as queues.

### AgentDecisions

`live`, `tail` and the `dispose` of the runner, local matches, `createRoom` and the
requests of an online match. Agents are external: they take prompts in order, answer
when they like or never. A text is one of four kinds: no decision, an illegal one, a
legal one, or a raise above the stack, which `assertLegal` accepts.

### ScriptedMatch

`playScriptedMatch` and its three policies on the operators of `PokerEngine`, with the
stacks and blinds of the game. `PlaysByTheRules` says that each of its steps is one of
`PokerEngine`, so the theorems about the engine hold of it.

## What the runs show

Sizes are distinct states.

| Run | Instance | States | Shows |
| --- | --- | --- | --- |
| `match_play` | engine: stacks of 12, blinds 1/2 then 2/4, `MaxHands` 3, at most 5 hands; scripts: stacks of 80, the blinds of the game, 20 hands | 432,000 | Chips, streets, all-ins, run-outs, splits, verdicts and decision numbers of whole matches; hands end. Scripts are refused nothing, follow the engine step by step and end with a winner. |
| `grant_calls` | relay: 1 handler, 2 calls, 2 on the grant, 1 tick, 2 reserves of each call, 1 drop or crash; owner: 3 calls on a grant of 2, 1 failure; streams, 2 calls: 2 open at once, frames that overtake (`Overtaking` 2), 3 chunks in all, or in turn, 2 chunks in all, 1 abort and 1 socket of each plugin that closes | 3.5 million | Each call is charged once and the row does not contradict itself; the relay implements `GrantLedger`; a generator gives its slot back and records how it ended; the host of the winner is given the chunks of its call in the order they came, whatever overtakes what, and none is passed over while streams follow one another. |
| `match_clocks` | match: 1 handler, 2 hands of 2 actions, 1 crash; clocks: 2 handlers, 1 poll, 2 hands, 1 failing query, 1 crash; presence: 2 sockets each, 1 silence, 1 restart | 495,000 | What players saw survives a restart; each decision keeps a timer and an ended match has none; only the absent lose by absence; a match ends although nobody acts. |
| `match_overlap` | 2 handlers, 2 hands, 1 crash or failing query | 1.9 million | Types, the verdict that is settled is the engine's, `MatchEscrow` is implemented. |
| `devices` | identities: 2 plugins, 3 uses, 4 sockets each, 2 failures; rooms: 2 handlers, 2 guests, 2 models, 6 frames, 2 faults | 491,000 | One row per key, uses pay for devices, a device stays itself and returns. A named match is backed by two stakes; a room both accepted opens. |
| `frames` | log: 3 handlers, 3 events; gate: 3 frames of 2 messages, limit 1, 3 s; bus: 2 instances, 2 devices, 2 sockets, 3 frames, 1 fault | 1.5 million | Links, replay detection, the rate limit, and delivery once and in order. |
| `plugin` | 2 local matches or 1 with a room and 2 requests, 1 decision each | 295,000 | Prompts are kept apart, decisions return, an aborted match ends. |

Why these bounds are enough. The engine looks at no more than the current street and
the two stacks; at 12 chips and blinds of up to 4 every short raise, all-in blind and
uncalled bet occurs, and three hands reach the last-hand rule and pass it. A handler
of the server interferes with another through one row, so two handlers and two calls
(or two guests, two models) give each pair of steps in each order; the theorems drop
the bound for what they cover. A second crash finds nothing that the first did not
leave, because a restart starts from the tables alone. Two calls suffice for a frame
of one to reach another, and two chunks for one to overtake one; a third, with both
streams open, lets each have a chunk while they change places. Four sockets let a
plugin lose its first answer, be refused, remint, and lose the next. Two polls of the
same process differ from one only in who removes a member first;
`RedisClocksPolls.cfg` checks the invariants with two (3.2 million states). A decision
queues behind at most one of another owner that matters, because `tail` is served in
order. In `frames` a limit of one is passed by the second frame and the third finds
a counter that lapsed; two instances and two devices tell apart own and foreign
frames, and sockets that are meant or not.

Deadlock is checked in `match_overlap` and `match_clocks`, whose systems never stop,
for a seat may always come or go. That they do not deadlock shows little; that a match
gets on is the matter of `EveryMatchEnds` and `SilentMatchEnds`. The other instances do
stop, when their bounds are used up or the match is over, and say
`CHECK_DEADLOCK FALSE`.

Fairness. None is assumed of players, owners, agents or faults, nor of a host, except
that the host of the plugin finishes what it is asked for (`AgentDecisions`, below).

- `PokerEngine`: only the action clock, `AutoFault`, which the server arms for every
  seat it asks (`arena.ts:254-260`). The formula is `WF_vars(AutoFault)` written out,
  as the tools handle it faster in this form. So is that of `ScriptedMatch`, a loop
  without an await.
- `ArenaMatch`: a suspended handler goes on (weak fairness: Node resumes it when its
  query returns), and a due timer gets a handler (strong fairness: that all of
  `Handlers` may be busy is a bound of the model, not of Node, so a timer which is
  due again and again must fire).
- `RedisClocks`: handlers and polls go on, an armed timer becomes due, and a process
  that died is started again.
- `SocketPresence`: time passes, the heartbeat of an attached socket is sent, handlers
  and timers run. Nobody has to come back.
- `ArenaRoom`: a suspended handler goes on.
- `DeviceAuth`: the plugin reconnects and answers a challenge, handlers and
  `credentials.set` go on (`connection.ts:354-362`).
- `AgentDecisions`: the steps of the runner, its timeouts and the local match go on.
  An agent may be silent for ever (`agent-runner.ts:168-178`): a prompt has a timer. A
  dispose has none (`agent-runner.ts:109-111`). So `DisposeEnds` is fair on an assumption
  about the host of the plugin, which this repository does not contain: that after a
  `cancel` its `whenIdle`, and then its `dispose`, come back, and that `agents.create`
  answers. `AbortedEnds` rests on it: a host that hangs there holds the match for ever.
  `DecisionsReturn` does not, and holds without fairness of `DisposeEnds`.

What holds only for one frame at a time. `CallsAccounted` (in `GrantAddsUp`),
`RefinesLedger`, `TablesFollowPlay`, `DecisionsAreTimed` and `EveryMatchEnds` are stated
for one handler. With two, the code loses updates (below), and a late timeout can be
taken for one of a later hand because action numbers start again at 0.

What the order of chunks is about. `ChunksInOrder` speaks of the plugin: whatever
overtakes what on the way, its waiters and backlogs keep the order in which chunks came
to it. It does not say that they come in the order in which the owner sent them, and
they need not: the server starts a handler for each frame without waiting for the one
before (`http.ts:44`), a chunk is forwarded after a query of its own on a pool
(`arena.ts:514`), and the winner compares no sequence numbers. `NonePassedOver` and
`WholeAnswer` are stated while `serial`: no stream was opened beside another, and none
timed out. Otherwise the code loses chunks, for a second stream takes over the waiter of
the first (`connection.ts:395`), and a waiter that outlived its stream takes a chunk of
the next (`connection.ts:384-387`). No document promises more, so both are hazards and
not findings.

What is excepted. `TimersFollowMatch` and `SilentMatchEnds` except a match whose last
save failed (`lost`): nothing sets its timer until the next restart (`arena.ts:250`).
`GateCounts` assumes that a command reaches Redis within a second of the clock it
was computed from. `PromptAnswerIsOwn` excepts agents that were late once (below).

Further configurations, run on the module they are named after unless it says
otherwise:

| Configuration | Checks |
| --- | --- |
| `RedisClocksPolls.cfg` | the invariants of `RedisClocks` with two polls |
| `SocketPresenceFaults.cfg` | the safety of `SocketPresence` when the query of a disconnect takes a tick (347,000 states) |
| `RelayStreamCalls.cfg` (on `MCRelayStream`) | the properties of `RelayStream` for 2 calls of 2 chunks, every abort and a socket that closes anywhere (3.6 million states) |
| `OwnerStreamEnds.cfg` | all of `OwnerStream` with two chunks, also `NothingAfterAbort` and, under fairness (a host reads on or leaves), `SlotIsGivenBack` (205,000 states) |
| `GrantChargedTwice.cfg` (on `MCGrantRelay`), `RedisClocksFiresEarly.cfg`, `SocketPresenceSilent.cfg`, `SocketPresenceGrace.cfg`, `AgentDecisionsLateAnswer.cfg`, `AgentDecisionsRaise.cfg`, `AgentDecisionsPractice.cfg`, `EventChainForks.cfg` | one property each that the code violates: see below |

## Where the code differs from its documents

Five runs are expected to be violated. Each checks one sentence of a document against
the model and shows a trace.

| Run | Property | The document says | The trace |
| --- | --- | --- | --- |
| `grant_budget_lost` | `CallBudget` | `README.md:53`: "10 calls" | `terminal` saves the grant from a copy and gives back a call that `deductIfStarted` took meanwhile (`relay.ts:63`). |
| `grant_ttl_runs_offline` | `TtlPausesOffline` | `README.md:58`: the clock "pauses while the owner is offline" | Nothing ticks a grant when its owner leaves; the next tick that finds the owner back charges the absence (`settlement.ts:48`). |
| `match_never_settled` | `VerdictIsSettled` | `README.md:11`: the loser relays a grant | A crash after the last action was saved as terminal and before the settlement; `restoreLive` lists no terminal match (`arena.ts:396`). |
| `room_guest_not_asked` | `BothConfirmed` | `TWO_PERSON.md:26`: "Both confirm" the stake | A guest accepts, another joins in its place, `guestAccepted` stays (`arena.ts:205`). |
| `stream_foreign_terminal` | `OwnTerminal` | `grant-relay.ts:108-109`: the sequence of a call ends with its terminal | The terminal of a cancelled call waits in the backlog and ends the next call (`connection.ts:138`). |

Further configurations refute one property each. Their modules have the properties
that hold in its place.

| Configuration | Property | What a reader would expect | What the code does |
| --- | --- | --- | --- |
| `GrantChargedTwice` | `ChargedOnce` | `ACCEPTANCE.md:17`: "reserve replay does not deduct twice" | With overlapping handlers `preflight` or `terminal` writes the inference back from a copy read before the call was started; its deducted mark is gone, and the preflight of the replayed reserve starts it again (`relay.ts:44`, `relay.ts:62`). |
| `RedisClocksFiresEarly` | `FiresOnlyDue` | `redis-runtime.spec.ts:47`: "fires due timers from Redis and ignores stale members" | A poll removes the member that is due and then reads the number, which by then is that of the next decision; a decision just begun is faulted (`redis-runtime.ts:178-180`). |
| `SocketPresenceSilent` | `SilentSeatForfeits` | `ACCEPTANCE.md:17`: a disconnect of 90 s forfeits | A device that vanishes without a close is judged by nothing; only its action timers bring the match on (`arena.ts:263`). |
| `SocketPresenceGrace` | `GraceIsWhole` | `ACCEPTANCE.md:17`: 89 s does not forfeit | A socket that closed while its challenge was redeemed is counted for ever; a later disconnect is dated by the last heartbeat (`http.ts:63`). |
| `AgentDecisionsLateAnswer` | `AnswerIsOwn` | `agent-runner.spec.ts:38`: a decision reads the interval of its own prompt | An answer that comes after its 60 s falls into the interval of the next prompt and is taken for its answer (`agent-runner.ts:148-154`). |
| `AgentDecisionsRaise` | `AcceptedIsLegal` | `agent-runner.spec.ts:91`: an invalid output is repaired or folded | A raise above the stack passes `assertLegal`, and the engine throws (`agent-runner.ts:162`, `engine.ts:169`). |
| `AgentDecisionsPractice` | `LocalLeavesOnline` | `README.md:48`: local practice needs no server | The end of a local match disposes of the contestant of the online match too, whose decisions are folded from then on (`local-match.ts:82`, `agent-runner.ts:104`). |
| `EventChainForks` | `ChainVerifies` | `crypto.spec.ts:66`: "verifies append-only events" | The first event after a restart is chained to the genesis hash (`arena.ts:575`); the stored events do not verify. |

Other behaviour met while modelling:

- A forfeit may settle a match while an action is being saved; the save then writes
  `live` over `terminal`, and a restart puts the settled match back into play
  (`arena.ts:390`). Stakes and winner stay as settled, which `RefinesEscrow` shows.
- A `preflight_ok` handled after the cancel of its call is charged and takes the slot
  of the grant; nothing frees it (`relay.ts:42`). So does a crash between
  the two writes of a terminal (`relay.ts:62`).
- Two accepts handled while `openMatch` runs open two matches, both backed.
- An owner whose promise is resolved by the `inference_started` of another call
  streams a call that was not charged (`connection.ts:421`).
- An owner that loses its socket during a call leaves a gap in the chunks that the
  winner does not notice (`connection.ts:433`).
- A plugin whose first session answer was lost is refused, remints once, and may then
  stay refused on an open socket although uses are left (`connection.ts:291`).

## What is proved

All theorems hold for every value of the constants that the ASSUMEs admit, and for
every instance of a component in an `MC...` module, whose parameters are constants.
The 24 invariants the passing runs check are theorems, and so are the 7 of the 16
other properties that are not about liveness.

| Run | Proved | Only checked |
| --- | --- | --- |
| `match_play` | chips, hands, turns, payouts, verdicts, legal scripts | hands end |
| `grant_calls` | all | |
| `match_clocks` | tables, timers, presence, verdicts | a match ends; a seat forfeits |
| `match_overlap` | all | |
| `devices` | keys, uses, identities, backed matches | a plugin returns; a room opens |
| `frames` | all | |
| `plugin` | prompts | decisions return; an aborted match ends |

**PokerEngineProofs.** `IInv` is a disjunction. Either a hand waits for a seat
(`HandInv`: bets of closed streets are matched, the board fits the street, the seat
to act has chips and owes something), or the table is at rest (`RestInv`: nothing is
committed, the stacks add up, the verdict fits them). No checked invariant is
inductive alone: that a street closes correctly needs the bets, and the bets need the
seat to act. Each private method has a lemma, and the public methods cite
them. From `EngineInvariant` follow `TypeCorrect`, `Conservation`,
`StreetsAreMatched`, `NoStuckHand`, `MatchEndsInTime`, `VerdictIsJust`,
`BoardFollowsDeck`, and the action properties `EffectiveStackHolds`, `SplitsRestore`,
`StreetsHearEverySeat`, `RaisesAreAnswered` and `DecisionsStayFresh`. `HandsAreSound`,
`PayoutsAreFair` and `TurnsStayOrderly` join them into the properties the run checks.
Assumptions: a positive stack, a schedule with at least one row and positive blinds.

`ScriptsStayLegal` is about the stacks and blinds of the run. A script raises by the
minimum in the first hand, and `minRaiseTo` may exceed `maxRaiseTo`. It does not for
the scripts (`ScriptInv`): every bet of that hand but the small blind is a multiple
of the big blind, so a seat that can pay more than the call can pay the minimum.

**GrantRelayProofs.** For any number of overlapping handlers: `TypeCorrect`, and
`RowNeverContradicts`, whose invariant says that the row and every copy of it a
handler holds are consistent; a stale copy is written back whole, so staleness cannot
mix two states of a row. For one handler (the assumption `Serial`): `CallsAddUp`,
`GrantStaysSound` (both facts about the row, as the run checks them) and
`RelayKeepsPromise`, the refinement of `GrantLedger`. Their invariant `SerialInv` adds
that what a handler holds is still what the tables hold (`Fresh`), and that an open
call has the slot (`Slot`). Without `Serial` both are false, as
`grant_budget_lost` shows.

**GrantCallsProofs.** For any number of calls, chunks and failures, and a grant of any
size: `CallsStayRecorded`. The invariant has a clause for each await of the generator
(`Stage`): before `start` nothing is charged; in the loop the call is open and its
host is behind by the chunk it is being handed, if any; after the loop the status that
will be recorded is how the call went. The calls that hold the slot are counted from
these clauses, so the slot comes back once on every way out.

`ChunksStayInOrder` is about two plugins and assumes nothing about the constants: any
number of calls, open streams, chunks and sockets that close, and any overtaking. Its
invariant says of each call where its chunks are.

- `Arrived`: the chunks that the host was given, the one in the hand of its stream and
  those in the backlog stand in this order among those that came (`came`). A new one
  goes to the end of all, because a waiter and a backlog of the same type exclude each
  other (`Waits`). That positions can be told from chunks needs that no chunk comes
  twice: it is on its way up, on its way down, or came (`Distinct`), since a call is
  asked for once (`Asked`) and its owner numbers upwards.
- `Serially`, while `serial`: one stream is live (`OneLive`) and no waiter outlived its
  stream (`NoStale`). So all that came for a live stream was given, is in its hand or
  is in the backlog (`Full`): whatever else is taken from the backlog belongs to other
  calls, and ends the stream that took it. So what a host was given is all that came up
  to the last it was given (`Passed`), and if its stream returned at its own terminal,
  all that came before that (`WholeAtEnd`).

Without `serial` `Full` is false, which is the lost chunk above.

**ArenaMatchProofs.** For any number of handlers, hands and faults: `TypeCorrect`,
`VerdictIsTheEngines` and `EscrowIsKept`, the refinement of `MatchEscrow`. The
invariant says of each suspended handler what it may rely on when it goes on
(`HandlerOK`): the engine it holds exists, and a verdict on its way to the tables is
that engine's. Other handlers keep it true because engines are only added, or
changed while they have no verdict (`Later`). That the escrow is settled once needs
nothing about the handlers but that: the transaction looks at the row under its lock.
With one handler, as the run has it: `TablesKeepUp`, through crashes and failing
queries (`SerialInv`: where the handler stands, how far the engine is ahead of the row,
and the row never behind what was shown), and `DecisionsStayTimed`, which also assumes
that no query fails, for a failed save leaves a decision without a timer
(`arena.ts:250`). With two handlers both are false.

**ClocksProofs.** For any number of sockets, handlers and overlapping runs of `due()`:

- `TimersKeepUp`. A decision that waits is timed in Redis, or by a run of `due()` that
  has taken it out, or by the handler that run has called, or will be by the handler
  of the action before it. The invariant lists who that can be for each stage. It
  holds because at most one handler deals, and while it does nobody acts
  (`OneDealer`, `BetweenHands`); and a match that is over has no timer, unless the
  handler that ended it has yet to remove it (`OverIsQuiet`).
- `CountStaysExact` and `VerdictsAreDeserved`, with any heartbeat, timeout and grace in
  that order. `HeardOf` ties the book to the model's own record of the last sign of
  life: the last beat of a player is as old as that, or older by one heartbeat at
  most, and no player was dated as gone before it was last heard of.

**DevicesProofs.** Identities, for any number of plugins, sockets and failures:
`TypeCorrect`, which includes that a key has one row, `DevicesKeepTheirKeys` and
`DevicesStay`. That a stored device stays itself is not inductive: a write under way
may replace it. The invariant `CredentialsOK` covers what the plugin holds, has stored
and is storing: whatever of these has a device id is the same identity, and once one
write has a device id all later ones do. `SocketOK` adds that the challenge answered on
the current socket carries the key the plugin still holds, so an answer cannot bring
the row of another key, and that the handler about to touch a device holds a row of
that key. `UsesAreAccountedFor` adds an account (`BudgetOK`): a use that is lost, or may
yet be because its handler works for a socket that is gone or for a key that has a row
(`AtRisk`), has a failure of its own. Assumptions: finitely many plugins, and writes
that complete in order.

Rooms, for any number of handlers, guests, models and faults: `MatchesStayBacked`. The
invariant follows `openMatch` write by write; each handler in it writes a match of its
own, and one that lacks a stake is neither named by the room nor proposed.

**FramesProofs.** The log, for any number of handlers, failures and restarts:
`LogTypeCorrect`, `LogHasNoHoles`, `LogLinksAreStored` and `LogAppendOnly`. That links
are stored is not inductive: the hash a handler holds came from memory some queries
ago. `Anchored` says that the hash in memory is the genesis hash or that of a stored
event, that a hash which is being recorded extends one of these, and that a handler
which waits for the answer of its append has its hash stored; events are never removed.
`CountedOnce` says that a number a handler has counted is no larger than the log,
which keeps the log without holes when the key refuses the second of two appends.

The gate, for any number of frames and messages and any limit: `GateKeepsCount`. Its
invariant gives each counted frame a rank in its second. Ranks have no gap and none
twice, because the key of a second outlives each `INCR` of it; that a command reaches
Redis within a second of the clock it was computed from is in the model's actions.

The bus, for any number of instances, devices, sockets and faults: `FramesArrive`. The
invariant follows a frame: what an instance has yet to publish is later than what
Redis has of it, and that is later than what any socket elsewhere was handed of it.

**AgentDecisionsProofs.** For any number of matches, rooms, requests and decisions:
`PromptsStayApart`. One decision has its turn at a time (`TailOK`), and an agent that was
never late owes nothing when a turn begins, so what it owes or says during the turn
is of that turn (`Apart`). The other conjuncts follow the handles: what is live is up,
an agent was made by an owner that has come that far, and what is being closed was
taken out of `live` first. Assumption: the names of owners are distinct.

**Only model-checked.**

- Liveness (`HandCompletes`, `EveryMatchEnds`, `SilentMatchEnds`, `ClosedSeatForfeits`,
  `AcceptedRoomOpens`, `DeviceReturns`, `DecisionsReturn`, `AbortedEnds`): the prover
  does neither fairness nor ENABLED.
- `ScriptsPlayAMatch`: that the policies also bring a match to its end is liveness, and
  the bound of 20 hands an execution of an algorithm, which TLC carries out.

Nothing here is defined by recursion, so no proof needs induction over data.

## What is not modelled

- Cards, hand ranking, shuffling, signatures, sealing: a deck is who wins, a
  signature verifies for what it signed, a chunk opens for its call.
- Sizes and estimates of requests, the provider allowlist, and the HTTP routes.
- The send queue of a socket: it is drained in the call that fills it, so it is full
  only when the socket has closed, which is a closed socket to the models.
- Several server instances beyond `FrameBus` and `MessageGate`: the engine and the
  hash of a match live in one process, and one is deployed.
- What the user sees: the overlay renders, the snapshot store and the RPC glue of the
  runtime keep the last snapshot, `ingestSnapshot` of the plugin copies it.
- `MemoryStore`, `MemoryRedis`, the in-memory clocks and presence: the doubles of the
  tests. The models follow PostgreSQL and Redis.
- Time in milliseconds. A timer is armed or due, or ages in ticks. That frames travel
  in less than the 60 s of a `waitType` is an assumption of `RelayStream` (`calm`).
