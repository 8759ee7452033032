# Verification of the bitwars engine and its clients

This directory holds TLA+ models of the bitwars real-time strategy game, the TLC
configurations that check them on small instances, and proofs, checked by TLAPS,
of their main properties for every value of the constants. Paths below are
relative to the repository (`src/` in `PROJECT.json`).

## The system

One Rust process per match, the **engine** (`services/rts-engine`), owns the
world. It is a single task that loops (`Engine::run`): content reload, scenario
controls, joins, a batch of player intents, movement and orders, economy, combat,
a delta, now and then a snapshot. It awaits Redis between these effects, and
Redis is the only thing that outlives it. The **web server** (`apps/web`,
Next.js) appends intents to a Redis stream, queues content reloads and scenario
controls, and serves snapshots and deltas to browsers as server-sent events. It also keeps the
content: definitions, spawn configuration and artwork, changed by the editors and published to the
engine through one lane. The **browser** keeps optimistic orders and reconciles them with what it
is sent. The **MCP gateway** (`packages/player-mcp`) is a browser without a screen: bots and
agents play through it, with a journal on disk.

| Component | State | Operations | Hard behaviour | What must hold |
|---|---|---|---|---|
| Intent intake and action slots (`engine/mod.rs` `handle_envelope`, `engine/intent.rs`, `io/redis.rs`, `api/v1/intent`) | intents stream and cursor, last sequence per player (memory and Redis), dedupe keys, one action slot per entity, tracking hash, snapshot, lifecycle events | post, read batch, admit, validate, activate, preempt, track, finish, die, restore | ten awaits per intent, death or a failed call at each; snapshot older than tracking; resends | commands accepted once and in order; tracking, slots and published outcomes tell one story; nothing ended comes back |
| Live content reload (`engine/content_reload.rs`, `lib/content/contentRevisions.ts`) | request queue, operation records, active revision, checkpoint, installed pack | stage, peek, validate, commit, install, acknowledge, recover at start | base read long before it is used; commit and its notification fail apart; death between Redis calls | no lost update, no revoked acceptance, no checkpoint behind the advertised revision, the live world always defined |
| Move routes (`engine/navigation.rs`) | waypoints, indices, ping-pong direction | append, complete, loop, restore | editing a route while it is followed | an edit never moves the unit back or loses a waypoint |
| Group orders: convoys, sentries, escorts (`convoy.rs`, `sentry.rs`, `escort.rs`, `formation.rs`) | orders over several entities, checkpointed and tracked | start, replace a member, lose a member or target, restore | one member ends or dies while the others go on | an entity is in one order; a group without members or target ends |
| Production, research, upgrades (`mod.rs`) | progress, paid inputs, reserved stock | pay, advance, finish, cancel | partial payments, owner or node dies, new ids | nothing is paid twice or created without payment |
| Logistics: collection, delivery, transport, resupply (`logistics.rs`, `resupply.rs`) | inventories, depot assignment | load, unload, transfer, retry | two carriers and one stock, capacity limits | stock is conserved and stays in capacity |
| Combat, radiation, repair (`combat.rs`) | health, targets | hit, kill, repair | deaths during the same tick | a dead unit neither acts nor is counted |
| Scenario control (`engine/scenario.rs`) | template, run id, pause and step counters | pause, step, capture, load, reset | resets race intents and streams of the old run, death between checkpoint and runtime | nothing of the old run reaches the new one |
| Terminal, session and scenario commands (`hud/terminal`, `SessionContext.tsx`, `ScenarioEditor.tsx`, `api/content/scenarios`, `api/players`) | cookie, session, the command under way, request queue, results, scenario files | log in and out, act as, ask, queue, serve, poll, capture | answers late or lost, a queue that outlives the engine, two captures under one name | what a page was told is so: of its session, of the world that was replaced, of the file that was saved |
| Joining (`generation.rs`, `api/players/login`) | join request, start records | request, start, spawn | a retry of what was done, death between claim and spawn | one start per player |
| Discovery (`discovery.rs`) | knowledge per player, acknowledgements | see, change, acknowledge | an acknowledgement of an older version | no change is acknowledged unseen |
| Publication (`delta.rs`, `io/redis.rs`) | previous state, stream ids | diff, publish, snapshot | a failed publish, hand-over from snapshot to stream | a client that follows the streams ends up with the world |
| Browser order queue (`features/intent-queue`) | pending and queued orders, server orders | submit, lifecycle event, reconcile, reset | events, snapshots and answers in any order | a queued order starts once, after the one it waits for |
| Stream routes and world store (`api/v2/gamestate`, `features/gamestate`) | cursor, entities | bootstrap, delta, reset | deltas before the snapshot, reconnects | as for publication |
| Content in the browser (`features/content`, `GameStreamGate.tsx`) | advertised, defined and drawn revision, downloads and drawings under way, leases on artwork | gate, advertise, load, draw, mount, reset | downloads overtake each other, reconnects, another player or run meanwhile | what is called synchronized is drawn; what was accepted is drawn in the end |
| Collection and move routing (`features/collection-routing`) | wish, plan and hold per collector, the Worker's requests | collect, assign, replan, hold, adopt | answers for a wish, depot, world or player that is gone | what is held and what is sent is the last thing the player told |
| Build progress (`features/build-state`) | followed units, last batch, poll under way | batch, poll, answer, reset, disconnect | a poll answered after the stream has spoken | what is shown is never behind the stream and ends up current |
| Command input (`features/hud`, `GameStage.tsx`) | selection, mode, menus, pressed thing, drag | key, click, gesture, panel button, notice | selection, world and player change between two inputs | no order for another selection than it was chosen for, no two orders by one input |
| Player MCP server and bots (`packages/player-mcp`) | session, journal, the gateway's commands, who plays; the runner's processes and timers | open, handshake, event, order, wait; launch, interrupt, kill, sum up | answers of another connection or run, outcomes before answers, rows that cannot be written; bots that do not end | a ready session is of one run; nobody waits for what cannot be heard any more; no bot is left behind or counted twice |
| Content studio (`api/content/sprites`, `api/content/sprite-library`, `content/sprites`, `content/sprite-library`) | candidates, published artwork, the lane, the pages' tools | transform, generate, mask, upload, publish | requests answered late, lines that break, others in between | what is published is what was shown; a page that works waits for something |
| Content editors (`api/content/entities`, `technologies`, `spawn`, `balance`; `ContentGraph.tsx`, `BalanceEditor.tsx`) | drafts of each tab, files on disk | edit, rename, add, delete, save, load | two tabs, one file | no edit undoes another; what is shown as saved was written |
| NPC scripts, configuration, telemetry, replay tools, rendering | | | | outside this project, see `PROJECT.json` |

## Modules

| Module | Models |
|---|---|
| `IntentEngine` | the order pipeline, from the web route to the tracking hash and back after a restart |
| `OrderBook` | what that pipeline promises: a durable slot per entity, filled only when empty, only with orders that never were in a slot |
| `ContentReload` | the reload queue, the web server's lane, the engine's start, activation and checkpoint |
| `OrderQueue` | the browser's orders for one unit, the stream and the handshake that correct them, the engine from outside |
| `PlayerGateway` | one session of the MCP gateway, its journal, and who plays through it |
| `BotRunner` | the runner that launches bots, stops them and sums up |
| `WorldStream` | what the engine publishes, the stream route, the bridge and the browser's world |
| `ContentClient` | gate, content manager, stage and leases of one page |
| `CollectionRouting` | one collector: wish, planner, holds, commands, the engine from outside |
| `BuildProgress` | the progress store, its polling and the batches of the stream |
| `CommandInput` | from keys, clicks and panel buttons to orders |
| `Console` | terminal and scenario editor: the session, and commands about the world through web server, Redis and engine |
| `SpriteStudio` | catalog, mask dialog and generation page, with the routes and the lane behind them |
| `ContentEditing` | definitions and spawn configuration edited in two tabs |
| `Visualizations` | one page of the balance editor beside others that save |
| `MC*` | the instances TLC checks |
| `IntentEngine_proofs`, `ContentReload_proofs`, `OrderQueue_proofs`, `PlayerGateway_proofs`, `ContentClient_proofs`, `WorldStream_proofs` | what is proved of the module each of them is named after, and in `PlayerGateway_proofs` of `BotRunner` too |
| `Browser_proofs` | what is proved of `BuildProgress`, `CommandInput` and `Console` |
| `ContentTools_proofs` | what is proved of `SpriteStudio`, `ContentEditing` and `Visualizations` |

Where one component meets another, it has the other from outside: `OrderQueue`, `PlayerGateway` and
`CollectionRouting` each have an engine reduced to what they can tell of it, of which `IntentEngine` has
the inside; `WorldStream` has the streams these three only assume. `Console` has the inside of the reset
of which `WorldStream` shows the four writes. `ContentReload` ends with the
advertised revision, `ContentClient` begins with it, and the content tools end with a revision that
was staged in the lane `ContentReload` begins with.

Some runs hold two or three settings of one module, or two or three modules that meet nowhere: a variable
of the MC module (`setting`, `part`) is chosen at the start and says which one a behaviour is of, and the
others stay in an initial state. The state spaces add up and do not multiply. Because the proofs are about
the component's own `Spec`, they do not depend on how the runs are put together.

### IntentEngine

State and code: `stream` is `rts:match:{id}:intents`; `seqKey` and `lastSeq` are the
player sequences in Redis and in `player_last_seq`; `cmdKey` are the dedupe keys that
have not expired; `tracking` is the hash of active intents; `current` is
`IntentManager`'s slot per entity; `snapshot` is the stored world, its Move
orders and its boundary; `events` are the lifecycle events ever published;
`pc` is the await at which the engine's task stands. `handle_envelope` is one action
per awaited Redis call (`Receive`, `Check`, `Admit`, `PersistSeq`, `StoreCmd`,
validation and activation, `Preempt`, `Interrupted`, `Track`, `Accept`, `Progress`);
the two endings of an order are `Complete` and `Destroy`, each followed by `Untrack` and
`Announce`. `Fault` fails the call under way: in a handler the rest is skipped (the
`?` operator), elsewhere the failure is logged and the next step taken. `Crash` loses
what the process holds; `Restore` is `Engine::new` with restoration enabled.

Payloads are grouped by what the engine does with them (`Kinds`); content rules are a
choice (`FailContent`, `lapsed`). `Restore` is one action: a death inside it repeats
the start from the same Redis contents, because the tracking hash is only rewritten
to what the next start would compute again. Ids of both streams come from one
clock, as Redis stream ids are milliseconds of one server. A restart without restoration
flushes everything and is the initial state.

### OrderBook

`IntentEngine` implements it with `slot <- tracking` and `last` the id of the last
intent that can no longer be opened: the ids grow with every handling, which is
why an order that left the slot cannot return.

### ContentReload

A request (`asked`) is drafted when the web server reads the active revision and
staged when the script records and queues it; the lane of the web server keeps
drafts one at a time. `ops` are the operation records, `active` the advertised
revision, `snapshot` the checkpoint with the revision in it and what the
world in it needs (`uses`), `content` the installed pack, `stamp` the revision that
periodic checkpoints carry. The engine's steps are those of
`bootstrap_content_revision` and `process_content_reload`; `Commit` is the MULTI of
`publish_snapshot_with_content`, `StreamSnapshot` the XADD after it; each can
fail (`CommitFails`), and `GivesUp` and `Proceeds` are what `commit_content_checkpoint`
then does. Any other failing Redis call ends the engine, as does a lost connection
(the multiplexed connection of the client library does not reconnect): `Crash`.
`StartClean` is a start from the files on disk, `StartRestored` one from the
checkpoint. Revisions differ in the features they define (`Supports`); `validate_live`
is `Fits`, and `Refuse` may also happen for any revision that cannot be loaded. An
engine without a content pack is not modelled.

### OrderQueue

`page` is what `IntentQueueManager` keeps for one unit: `active`, the previews `moves`
(`pendingMoves`), `queued` and `after` (`queuedOrders`, `queuedAfter`), `pending`
(`pendingCommands`), `orders` (every command, numbered by `client_seq`), `chain` (the
submissions behind `submissionTail`), `plans` and `routed` (the move router's
requests, and whether it has a version for the unit), `calls` (handshakes under way, with
the `stateRevision` they were requested at reduced to `fresh`). `from` and `token` are history:
which queued order a command is the start of, and what that order waited for. The manager's
methods are operators from one `page` to the next; an action is one JavaScript turn.
`posted` says whether the POST under way has reached the stream, `link` and `synced` are the
event source and `gameConnection`. A Move is asked of the router and sent when its
plan arrives (`Planned`), which also may find no way.

The engine is what the browser can tell of it: `Refuse`, `EditRoute` and `Start` take up the head
of `inbox`, `End` ends the order in `slot`, `PublishDelta` sends the routes that changed, and
`Snapshot` moves the boundary, after which a new connection no longer hears what came before.
`IntentEngine` has the inside of these steps. Engine deaths, several units and
players are not repeated here; what happens to other units is `OtherUnit`, which makes
handshakes stale.

### PlayerGateway

`g` is the `Session` of `playerGateway.ts` with the journals it wrote (`disk`, a row of each
kind reduced to the command it is about), `calls` the handshakes under way, of which each knows
whether it was asked by the session's current connection, `post` the POST under way, `link` and `wire`
the event source. `script` is who plays: the scripted player (`scriptedPlayer.ts`) closes on any gap and on
a new run, the builder (`deterministicPlayer.ts`) waits for its own command, an agent calls the tools in
any order. `AppendChanges` is the journal's write, which may fail (`full`) and then marks the history as
broken (`whole`). The game takes up `inbox` in order, publishes outcomes, forgets what came before
its checkpoint, and a reset starts a new run and ends the streams. The run a script's cursor is in is
history (`of`): the builder does carry its cursor into the journal of the next run (`deterministicPlayer.ts:281`,
docs/mcp-test.md:97), and `NoSilentWait` speaks of scripts that have not. `get_command` and the
status tools only read.

### BotRunner

`runner` is `runBotRunner` of `botRunner.ts`, `bots` the result of `runBot` for each bot with its process, its
watchdog and its kill timer. A process may end by itself, take its time with SIGTERM, or not end before it is killed;
`said` is what its output tells of the scenario, which counts only with the exit code and in time (`Closed`). `Launch` may
find a log file of an earlier run and then fails the bot; an interrupt ends the delay between launches, asks
every live process to end and arms its kill timer, and the next one kills.

### WorldStream

`world` is the engine as the player could see it: units on a line with a sensor, the technology that
lengthens it, what is remembered. `redis` has events, checkpoint, runtime, content and the sign of life;
`phase` stands between the four writes of a world reset (`scenario.rs`). `srv` is a connection of
the stream route: filter, cursor, what was sent (`bootstrap.ts`, `delta.ts`, `visibility.ts`); `ui` is
`GameStateStreamBridge.tsx` with the entities, memories, generation, timers and handshakes of the page. The
route reads the run, the content and the checkpoint (together `ReadCheckpoint`), then the current run, the tail and the events, which is
one action each. `ViewIsTruth` compares what
is shown with what the engine lets the player see and remember, when everything sent has arrived.
Two deviations are left out of what it compares: the filter never learns of the
player's technologies, and after other content was accepted the browser may have forgotten a unit that died (see below).
A filter that reads on past a reset merges deltas into units of the old run, or of none: `Placed` are those it knows a place of.

### ContentClient

`gate` is `GameStreamGate`, `mgr` the manager of `contentManager.ts` with its generation, `jobs` the
downloads, drawings and the stage's first loading, each with what it was started for, `stage` the mounted
game, `refs` the leases on each artwork bundle (`entityVisuals.ts`), `asks` the handshakes. An operation of the manager gives
manager, jobs and leases together (`Advertise`, `Defined`, `ApplyRenderers`, `BeginWorld`), because it
runs in one turn. Reports to the server and what a page keeps in storage change nothing of these.

### CollectionRouting

`world` has what is known of source, depots and ways (`Known`; the geometry of the planner is the way it finds) and what
the engine makes of the unit; `page` has the router's orders, the planner in the Worker, the order queue
with its holds in storage, and the connection. `wish` is history: the last thing the player told the unit.
`moveRouting.ts`, which plans single Moves beside it, is part of the same module because both share
Worker, epoch and order queue.

### BuildProgress

`engine` builds and publishes whole batches, `link` is the stream, `store` is
`buildProgressStore.ts` with the sources that follow units, `poll` its request, answered from the batch kept
in Redis. `blind` is history: an answer asked for without a connection in one run
counts when, as it arrives, there is again no connection and another run's batch has left the same tick
(`buildProgressStore.ts:176` compares only the set of ids, the tick and when the stream was last heard).
`NotBehindStream` leaves this out.

### CommandInput

`hud` is the reducer's state of `HUDContext.tsx` with the panel's menus, `seen` the same as of the last render, `hand` the pressed
thing and the drag of `GameStage.tsx`, `gave` the orders of the last input. Handlers look at `seen`: the map's through
`latestSelectorsRef` (`GameStage.tsx:94`), the panel's as closures of the render. React renders what an input sets before the next
input and runs the effects, but what notices select and what the effect of a new selection clears (`Cleared`) is rendered only some
time later (`Renders`), and inputs come in between. An input is one action with every listener it reaches, in their order: the
panel's capturing listener, the map's, the panel's own, which all see the state before the key. The pointer is on a
thing or on the sky; positions are left out, and what begins on the minimap does as a pan of the camera does.

### Console

`cookie` is the player token, which all pages of the browser send; `session` is `SessionContext.tsx` of each terminal,
`desk` the call a page waits for and what it told the user last. A command about the world is `sent` (the route checks it and
finds the file, `Accept`), `accepted` (`scenarioCommand` reads the runtime and queues it, `Push`), `waiting`
for the POST that itself waits for the result (`Serve`, or `Pends` after five seconds) and then `polling` (`AsksAgain`,
`GivesUp`). `kept` is what Redis has of it, `host` the engine with the command it works on: `Pop`, `Execute`,
`Checkpoint`, `PublishRuntime`, `PublishResult` are the awaits of `process_scenario_commands`, between any of which a write may
fail or the engine die and start again, from the checkpoint (`Restores`) or anew. A restart reads the run of the runtime,
which after a death between the two writes is the one before the checkpoint's world. Captures are saved by whoever fetches
the result first (`Retrieved`, `Shelved`); `of` and `by`, the run of a capture and the request that wrote a file, are history.
Pages give the run they know, which may be an old one (`KnownRuns`), and the engine refuses commands for another (`ForThisWorld`).

### SpriteStudio

`files` is the published artwork, `masks` and `art` are candidates under the number of the request that
began them, `lane` the requests that wait for the lane of `contentRevisions.ts`, `stray` the writes of
a `Promise.all` that go on after it was rejected. A request (`calls`) is a record with its stage and, for a save,
what it wrote (`set`) and has still to write (`todo`). `catalog`, `dialog`, `maker` are the
three pages' states; `Shut` and `Closed` are pages that are not open. One page is open at a time and
what other pages do is `Elsewhere`. The gray sprite goes with the primary mask and the colors with the
invariants, the four images of a mask are written and read as one, and requests of a closed dialog are
forgotten except for a save under way.

### ContentEditing, Visualizations

`ContentEditing` has the files as the routes see them, requests in the order in which they reached the
server and two tabs, each a graph, the entity editor or the spawn editor; `past.sum` is history: what the
edits add up to. References between definitions are not part of it. `Visualizations` has one page with
text, base and list, saves on their way (`overwrite` is what the page said), and what others save;
`dropped` is the text the user was last told would be discarded. What covers a graph while it saves keeps the pointer out and not the
keyboard, so that a graph may have several requests (`asks`), whose answers it follows as they come; if a node it should show is not in its
list, the first one is selected.

## Runs

| Run | Bounds | Shows |
|---|---|---|
| `intent_crash` | one ship, a Move, a collection and a self-destruct, two posts, two sequences, one delta, one death | accepted in sequence and once, one outcome, nothing ended comes back, the newest order is restored, and `KeepsOrderBook`, with the engine dying at every await |
| `intent_live` | two players and entities, all six kinds of payload, two posts, one failed call | every post is handled |
| `intent_skip` | as `intent_crash` | a violation: some intents are never replayed |
| `reload` | two requests, two revisions of which one drops a feature, one death, one failed call | the safety properties of reload, and that every request is answered |
| `orders` | rough: two commands, a disconnect, failure or page reload; calm: three commands, no trouble, only work is queued | a follow-up is sent after what it waits for, in order, and dropped only with it or by the player |
| `orders_moves` | three commands, no trouble, Moves are queued too | a violation: a queued Move drops the follow-ups behind it |
| `gateway` | scripted player, builder and agent; two commands in one run, or one command and a reset; two troubles; bots: two bots, two signals | `ReadyIsOneRun`, `NoSilentWait`; `BotsAreAccountedFor` |
| `stream` | one own and one foreign unit, one message under way; sight: two runs, one mishap, two sensor ranges, research, two events, one handshake under way; deaths: one run, no mishap, two sensor ranges, three events; alive: two runs, one mishap, one range, one event, two handshakes | `ViewIsTruth`, `OneRunShown`; in the third setting `ComesAlive` |
| `client` | two revisions, one of which shares artwork with the other, two runs, one handshake at a time, one trouble | types and leases, `SynchronizedIsShown`, `ShowsAccepted` |
| `browser` | routing: one collector, two depots, two orders, two changes, one mishap of seven kinds; progress: one unit, two followers, two changes, two batches, one mishap; steady: a terminal and an editor, two players, two calls of any kind, one tick; shaky: load, save and capture with one mishap | `HoldServesTheLastWish`, `NoOldWishReturns`; `NotBehindStream`, `EndsUpCurrent`; `ToldIsTrue` |
| `input` | worker, mobile base and dock, two resources, two players, one notice or change, of the mobile base (`Fickle`) or of the player; renders as late as they like | `ChoiceIsForSelection`, `OneOrderPerUnit` |
| `studio` | sprites: two entities, one candidate a time, six requests from the catalog or three from the generation page, one trouble; editing: two entity types and a technology, every type used in spawn.yaml, two tabs, two texts, two requests, one failure; charts: two files, two texts, one failure | `AnswerHoldsItsRevision`, `SaveIsWhatWasShown`, `BusyIsAwaited`; `EditsAddUp`, `SavedWasWritten`; `NothingReplacedUnasked` |

The bounds admit the cases the properties are about. In the intent runs two posts are enough for a
resend, a replacement and a reordering; one death can fall on any await of either and
the start afterwards reads a snapshot from before, between or after them (a
second death adds nothing: `Restore` leaves a state that a start could have). One
delta separates snapshot boundary and intents. Two requests race for one base, and the
revision without the feature is what makes `validate_live` and the checkpoint matter.
In the order run two commands are an order and a replacement of it, an edit of it or a
follow-up, and one trouble may come before, between or after any of their steps; a queue
that holds two follow-ups needs the third command. In the gateway two troubles are a lost connection
and whatever happens before it is back; a second command is what tells one ending from another. A
stream needs two events for a delta filtered by what an earlier one sent, and two runs for a marker
between them; with three a unit is seen, is lost from sight and dies, and content is accepted anywhere between. Three things and one change are enough for a donor, a receiver and a selection that
is neither. Six requests of the catalog are an enlargement, both masks, a save, and a second try;
one candidate a time still gives two requests for one entity. Two bots are one that is up while the other waits for its turn,
and the second signal is the one that kills. Two calls are two commands for one run, two captures under one name, or a capture and
a command that replaces what it shows; one mishap falls on any await of either. Tabs and entities of the studio are
interchangeable and declared symmetric; its properties are safety only.

`QueuedMoves = FALSE` in `orders` leaves out Moves that wait behind other work, of which `orders_moves` shows what becomes; Moves
that are sent at once, to replace or append, are in both. `QueueIsAwaited` and `FollowUpsAreKept` are stated without trouble, `FollowUpWaits` with disconnects but
without reloads and failed POSTs: with them they do not hold, see the hazards in `PROJECT.json`.

`CHECK_DEADLOCK FALSE` stands in every configuration but that of `reload`: a player, author or user who
does nothing more leaves everything at rest, and with the bounds used up a lost process may stay down.

Every property is broken by a faulty variant of one mapped definition; the variants
stand next to what they break (`UntrackNothing`, `RestoredFromSnapshot`,
`CommitContentOnly`, `CancelKeepsHold`, ...), and `PROJECT.json` pairs them.

## Fairness

- `IntentEngine`: weak fairness of `Tick`, because the ticker of `Engine::run` always
  fires again, and strong fairness of `TakeEntry`, because the batch budget
  (`max_batch_ms`, measured from before the Redis read) is not exceeded by every tick for
  ever; without the latter a slow Redis starves intents, which is a hazard the code has.
- `ContentReload`: weak fairness of the engine's steps, for the same reason, and of `Start`, which is the
  operator's or the supervisor's part: a request outlives a dead engine only if someone starts another.
- `ContentClient`: weak fairness of the gate, of every load and drawing, of the stream's reader and
  of handshakes: promises settle and an event source reconnects by itself. Troubles are bounded.
- `WorldStream`: weak fairness of the engine's reset and heartbeat, of the route's steps, of opening,
  delivery and ending of a stream, of handshakes, timers and recovery. `ComesAlive` excepts an
  event source that was answered with an HTTP error, which the browser closes for good.
- `BuildProgress`: weak fairness of the stream's loop, of timers, requests and their answers.
- `BotRunner`: weak fairness of the runner's own steps, of the watchdog and the kill timer of each bot and of the close of a
  process that is gone: timers fire, and Node reports the end of a child. Bots are under no obligation.
- The engine's moves in these three, players, bots, authors and mishaps are under no obligation.
- `OrderQueue`, `PlayerGateway`, `CollectionRouting`, `CommandInput`, `Console`, `SpriteStudio`,
  `ContentEditing` and `Visualizations` state safety only and assume no fairness.

## Proofs

All theorems are about the component's own specification and hold for every value of its constants
that its named assumptions admit: finite tables have the right types, bounds are natural numbers, `None` is none
of the other values. Each rests on an inductive invariant, because what the properties say of states
at rest depends on what is under way; the parts of each invariant are named, one lemma says what an operation
does to them, and one step per action composes these.

**IntentEngine.** `TypeCorrect`; then `Admission`, which ties every accepted
order to a sequence that had reached memory and Redis before and to a dedupe key, and
gives `AcceptedInSequence` and `AcceptedOnce` for any number of posts, deaths and
failures: `pc` decides which of the two stores already knows an order under way.
`Orderly`, with the hypothesis `MaxFaults = 0` (a failure to clear the tracking entry of a finished order is only
logged, `mod.rs:4857`, and does leave an ended order in the hash until the entity's next order), says for each `pc` how
slot, tracking, snapshot and events differ. It gives `TrackingAgrees`, `DeadAreIdle`, `NoResurrection`,
`OneOutcome`, `NewestOrderHolds`, and the refinement `KeepsOrderBook`: Init maps to Init, each step to a
step of `OrderBook` or a stutter.

**ContentReload.** `IInv`, with no hypothesis on failures, says what the record of the operation under way
tells about the progress (`RecordIsCurrent`), that the validated candidate, its base and its fit with the
world stay put until it is installed (`CandidateHolds`, which needs that the loop does
nothing else meanwhile), and which of the three revisions agree before and after the
transaction (`RevisionsAgree`). It gives the types, `OneRevision`, `CheckpointIsWhole`,
`WorldIsDefined`, `NoLostUpdate` and `AcceptedStays`.

**ContentClient.** `Sound(Now, stage)` speaks of manager, jobs and leases together, as the operations
do: every download is of an advertisement still wanted or is out of date by its generation (`FetchIsNeeded`), what is drawn is
defined (`DrawIsDefined`), a mount loads once (`InitIsOnce`) and registers only when it is on (`RendererIsOn`), a
manager that says synchronized has drawn what it says (`Synchronized`), and each bundle is leased as often as somebody
holds it (`Leased`, a cardinality, hence the lemmas about adding and removing one job). It gives `TypeOK`, which
includes that no lease is ever negative or lost, and `SynchronizedIsShown`.

**PlayerGateway.** `ReadyIsOneRun` needs that every handshake is of the current connection or refused, that events on the
wire are of the run of the link, and that numbers grow within a run. `NoSilentWait` is the harder one: a script
may wait for a command only if its ending lies behind its cursor in the journal (`WaitersHear`), is still on its way, or the
connection is to be made again. The argument: going back to a run appends a resync row past the cursor or marks the
history as broken; a reconnected session's snapshot appends one too; a gap closes the scripted player, and clears
the wait of the builder; a command just sent is not over.

**BotRunner.** `Accounted`, from what each bot's process, timers and status say of one another (`Watched`), and from who was
launched when: statuses are final, one per bot below `next`, so that a summary of success, which counts them, finds every
bot among the succeeded (a cardinality). That the runner comes to an end is liveness and model-checked.

**OrderQueue.** `FollowUpsInOrder` from `Ordered(page)`: every queued order has a token from one
counter; what was sent has a smaller one than what is being planned, and this than what is queued; only a
replacing plan carries a token, and it empties the queue. Most of the manager's methods only keep orders, or drop plans or
the queue (`Keeps`), so that an action is a composition of two or three of these facts.

`FollowUpWaits` from `Current`, for as long as only the stream gets lost: all commands of the page stand in one row,
taken up (`Taken` of them), in the inbox, posted, to be posted. The page is `Fine`: it still awaits every command that is not
taken up, and the order its queue waits for is the one it works on, or one it has heard of, or one that is
`Over`. An answer that will be used names what is in the slot, unless the page has yet to hear of that (`Heeded`: whatever is
heard in between makes the answer stale). Every event `Tells` what is so for good: an end is told of an order that is no longer in
the slot. Hence whatever the page submits behind an order, it submits when that one is `Over`.

`FollowUpsAreKept`, with the hypothesis `QueuedMoves = FALSE`, adds `Ended` (what is over has a fate, and the end that
events tell is that one) and `Plain` (no Move is queued, what is being planned the player asked for). Then a step leaves
the queue, moves its head to the orders, is the player's, or drops the queue by the event or the handshake
`GivenUp` names.

`QueueIsAwaited`, with the same hypothesis, adds `Awaiting`, for as long as there was no trouble. The page has to hear of
what it works on and of what its queue waits for (`Waits`): that is still to be taken up and then replaces what the
unit does, or is in the slot, or its end is on the wire (`Live`). Events keep this true because they come in the
order in which commands leave the slot: what an event names as the unit's order is the oldest the page has still to hear the end of, and what
it says has ended is older yet (`InOrder`). The same holds of the answers that will be used (`Asked`). TLC checked
`AInv` with three commands first. When all is heard, only the slot is left.

**WorldStream.** `OneRunShown` is about a browser that trusts the stream: `applyDelta` never compares runs. A stream of
events `Continues` what is known to be of the runs R when each delta in it is of one of these, or of a run whose reset came
before it in the stream. The events the engine publishes continue its checkpoint, whichever it is: a reset writes the checkpoint of the
new run before the marker, and then ticks of that run have to wait until the marker is written (`Ticking`). The filter keeps
deltas and resets in order (`EmitIs`), so that what is on the wire after the snapshot continues the run of the snapshot, and what the route has
still to read continues that (`Rides`, `Heard`). A browser with a snapshot therefore meets the reset of another run before its first
delta, and leaves; a delta that is applied is of the run that is shown. Nothing is sent before the snapshot (`Connected`), and one whose
run is not the current one is not sent. `Emit` is a recursive function over the batch: what it sends is proved for the least prefix that would be wrong
(`Least`).

**BuildProgress.** Every batch, on the stream, on its way or kept, is of the engine's past (`OfThePast`), and an
answer is not older than the batch the store was at when it was asked for. `NotBehindStream` follows for
any number of resets, batches and lost connections.

**CommandInput.** `Fresh`: a delivery that stands chosen and is not hasty is for the selection shown last, and if no render is
due that is the current one. Every input is `Fine`: it leaves the HUD fresh, sends nothing chosen for another selection except in
haste, and gives no unit two orders. `OneOrderPerUnit` has the exception the code has: with the menus for
building and for upgrading both open, one option key gives an order from each.

**Console.** `WhatIsToldIsTrue` from `ConsoleInv`. A command that replaces the world is carried out only in the run it
was meant for, and takes that run away step by step: when it is installed the run is no longer the engine's, when the
checkpoint is written no longer the checkpoint's, and before the result is published no longer the runtime's (`Replacing`). None of
the three ever goes back to it, because each only takes over a run of another or a new one (`RunsGo`): a restart therefore restores no
run that was told gone. Two commands for one run cannot both win (`OneWins`). A result is published once (`QueueIs`, `JobIs`), what
was fetched as saved is on the shelf (`Stored`), and only a save on purpose replaces it. What steps keep of all that is one
lemma (`Lasting`), which leaves the told words of every page true. TLC checked the invariant with the bounds of the run first.

**SpriteStudio.** Three invariants. `PageInv`: requests have numbers of their own (`Shaped`), a page that is busy has exactly
one request and an idle one has none, those of the dialog are of the kinds its phase waits for and only a save keeps it open
(`Waiting`), dialog and tool are not open together (`Covered`). `LaneInv`: until a write has failed, who has the
turn has written all it no longer has to do, and who has not has written nothing; hence a staged save holds what it wrote.
`MaskInv`: until a line has broken, the requests of the dialog's kinds are the dialog's, what it shows is what its candidate holds (`Shown`),
and the awaited request will let it show what the server then holds (`Due`). `MaskInv` was checked by TLC on the catalog part
before it was proved. What the server does to a request is summarised once (`ServerStep`) and used by all three.

**ContentEditing.** `SavedWasWritten` from `Written`: files, requests and tabs only ever hold what was on disk once. `EditsAddUp`
from `Orderly`: the lane holds one request, an edit in it is based on the definitions it replaces, and while a renaming is under
way the spawn configuration follows the new name as soon as the definitions are written. TLC checked it with three requests first.

**Visualizations.** `NothingReplacedUnasked` from `Consent`: a text that was dropped is the text the user was asked about, a
save on its way that overwrites was sent by a page whose user had been told what it replaces, and texts are numbered in the order in
which they were written.

Only model-checked:
- `EveryPostIsHandled`, `EveryRequestIsAnswered`, `ShowsAccepted`, `ComesAlive`, `EndsUpCurrent`, `BotsAreAccountedFor`: liveness
  under fairness is outside the prover. (`BotsAreSummedUp` is the safety half of the last.)
- `ViewIsTruth`: its invariant has to relate what the engine remembers, the filter's copy of the world and its sight, the
  deltas not yet read, those on the wire and the view, field by field. `WorldStream_proofs` has the part about runs and order.
- `HoldServesTheLastWish`, `NoOldWishReturns`: the page's operators are composed by folds over operators, which the provers cannot
  expand.

## Where documentation and code differ

Two runs show a disagreement:

- `intent_skip`: the cursor of the intents stream is restored from the id of the last delta.
  An intent posted after its tick's batch was read and before that delta is never read, while README.md:85 and the
  comment at `engine/mod.rs:1948` say intents after the snapshot are replayed.
- `orders_moves`: the test `apps/web/test/resupplyIntent.test.ts:34` runs Resupply, Move and
  Build in order, without the move router. With the router, which the application always
  installs, the plan of the queued Move is sent as a replacing order and empties the queue.

Others were met while reading and are part of the models; what holds in spite of them is stated around them:

- Order queue. A handshake that finds another order in the slot than the queue waits for drops the follow-ups
  (`intentQueueManager.ts:691`), also when that one has finished and its FINISHED is still on its way: a Move appended to the
  awaited one, taken up after its end, is enough. docs/requirements/resupply.md:33 has replacing, canceling and
  rejecting only. A Move appended to an idle unit is queued, and later drops what is behind it, if a handshake brings
  back a work order before its plan arrives.
- Engine. Intents that are read again after a restart and had been accepted are refused with OUT_OF_ORDER, because
  sequences are restored from Redis as they were at the death (README.md:85). The changes of a tick whose delta could not
  be published reach nobody until a snapshot (`mod.rs:5086`).
- Content. docs/game-query.md:150 offers `base_revision` as an optional lock; a save without it is
  based on the revision active at the time and refused when another save was queued before it. No page of the
  editors sends one, so that between tabs the last write wins. `contentManager.ts:274` ignores advertisements with a
  smaller tick than the last: after a world reset, whose ticks begin anew, a page that has not
  noticed the reset would keep the old revision (README.md:57); the reset's own `BeginWorld` is what prevents it.
- Sight. `protobuf.ts:130` never passes `player_technologies` to the stream's filter, so that
  a researched sensor shows nothing more than before, though the engine grants it (`discovery.rs:115`,
  docs/game-query.md:104). A batch of deltas is filtered under the newest content (`stream/route.ts:176`), also deltas the engine
  published under an older one: the browser then forgets a dead unit that the new sensor would have seen
  (`GameStateStreamBridge.tsx:315`), and the engine remembers it (docs/requirements/entities-and-abilities.md:26 has the
  browser use the authoritative sightings). `ViewIsTruth` allows for this.
- Gateway. The builder carries its cursor into the journal of the next run (`deterministicPlayer.ts:281`); a handshake
  answered late lists a command as active that has ended (`playerGateway.ts:374`). The mark that
  a player has joined is set before the join is queued (`stream/route.ts:164`).
- Routing. `suspend` and `reassign` with an unchanged depot during the replanning of an accepted order leave its
  fingerprint current and nothing pending, so that it is not replanned (docs/requirements/navigation-routes-and-sentry.md:59);
  a refused Assign waits for its depot for ever; the automatic re-send of a collection drops a Move still being
  planned; after a failure of the Worker the status line advises to issue the collection again, which `request` then refuses.
- Build progress. A poll asked before the stream was first heard survives a reset and shows progress of the old run until the
  next one; on a change of the followed units the store falls back from a newer poll to the older batch.
- Input. The reducer changes the selection and keeps what was chosen (`HUDContext.tsx:115`); an effect after the render forgets it
  (`EntityDetailPanel.tsx:103`). In between the map sees the new selection with the old Deliver, Transport or Resupply
  (`GameStage.tsx:94`), and a tap on a depot sends it for the new selection (`GameStage.tsx:1437`), or, if nothing is selected any more, for the
  id 0 (`Number(null)`). A resource picked in that moment puts the old choice back, so that it outlasts the effect. `ChoiceIsForSelection`
  calls both hasty and leaves them out; it says that a choice which is not picked again then does not outlive the effect.
  Notices select what they are about whoever owns it (`GameStage.tsx:400`); Escape or releasing Shift ends Sentry and Convoy
  while a drag goes on, which then gives Moves; two open menus share their option keys; a unit can be named its own depot
  (`GameStage.tsx:1441`); dead units stay selected.
- Studio. Images are read before the lane is entered, and a rejected `Promise.all` leaves it while its other writes go on, so
  that the next reload publishes part of a bundle, against the comment at `spriteLibraryAsset.ts:43`.
- Editors. Text typed while a graph saves is lost when the answer arrives; `createChild` selects the child and keeps
  the draft of its parent, which Save then writes under the child's name; spawn.yaml is written outside the lane, so that a save may
  overlap a renaming; a page of the balance editor overwrites the file it loaded without asking, even if another page saved it since,
  which `NothingReplacedUnasked` allows. While a graph saves, its Save and Cancel still answer to the keyboard (`ContentGraph.tsx:230`).
- Terminal. If the request to log out throws, the session stays "logging-out" and the terminal read-only
  (`SessionContext.tsx:65`; `CallFails`).
- Read, not modelled: two retrievals of one scenario capture can meet in a half-written file and record
  the bookmark as failed (`scenarios.ts:62`); on the end of a bot its process group is not signalled again (`botRunner.ts:188`).

## Not modelled, and why

- In the intake: convoys, sentries and escorts (several slots per order), entries that carry the
  run id of a world that was reset, the arithmetic of routes, why content refuses an order.
  A start of the engine is one step.
- In reload: how the accepted pack is compiled and hashed, capture of the live world,
  notifications to players, operation records dropped beyond the latest hundred (`contentRevisions.ts:209`), an engine
  started without a content pack.
- In the order queue: group orders, collection plans and holds (`CollectionRouting` has those), the reset of the
  world, self-destruct, jettison and depot assignment (they take no slot), more than one unit.
- In the stream: overlays of orders, laser shots, several tabs, what is kept for the next delta when publishing
  fails, checkpoints of the knowledge.
- In the gateway: progress watches, gameplay events, the waiting inside `wait_for_observation`, what a script decides.
- In routing: the geometry of the paths, several collectors at once. In the input: camera and
  minimap movement, boxes over more than what is in view. In the studio: image arithmetic, the image model, and the keyboard's way to the page
  beneath an open tool or dialog, which say they are modal but do not keep the focus (`SpriteCatalog.tsx:181`, `MaskGenerationDialog.tsx:180`). In the editors: validation of
  single fields, evaluation of expressions, sounds.
- In the console: the mark of a logout under way in Redis, for which alone the intent route refuses orders
  (`session-state.ts`); lifetimes of tokens and results except as a mishap; the limit of 64 queued commands, which is a failed call; partial writes of
  `replace_world`; commands of the terminal that only show something, and `spawn-raiders`. A call that fails before its
  request is queued is not queued later. All pages share one cookie, as tabs of one browser do.
- In the bot runner: the output directory and its log files, names and environment of the bots, how their output is parsed.
- Production, logistics, combat, group orders: in the plan below or, where they are floating-point arithmetic, left out.
- Rendering, audio, telemetry, replay tools, configuration parsing, NPC scripts: no state of the game with
  promises to others.

## Plan

1. Proofs of what remains: `ViewIsTruth`, from the invariant of `WorldStream_proofs` and one that says what the filter's
   copy and the pending deltas add up to; the wishes of `CollectionRouting`.
2. `GroupOrders`: one module for convoys, sentries and escorts over several slots, implementing an `OrderBook` per
   member; an entity is in one order, an order without members or target ends, restarts restore whole groups.
3. `MoveRoutes`: editing, advancing and ping-pong as functions, checked against a reference definition, with proofs of
   what an edit retains.
4. `Production`: payment in parts, progress, completion and cancellation, ids of new entities; nothing is created
   unpaid or paid twice.
5. `Logistics`: stock moved by several carriers, with conservation and capacity proved for any number of them.
