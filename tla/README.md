# A verification development of RocketCatShell

RocketCatShell connects Rocket.Chat bots to OneBot v11 applications: a process
holds several bots; each bot has a Rocket.Chat client that receives messages over
DDP, a translator, a persistent runtime state, and a set of OneBot transports over
which an application gets events and asks for actions; a WebUI changes
the configuration while all of that runs. The program is Python on one asyncio
event loop, with threads where a file must be written.

This directory holds TLA+ specifications of what these parts do, alone and together, the TLC
configurations that check them, and proofs that TLAPS checks. Paths below
are relative to `src/rocketcat_shell/` unless they say otherwise. `PROJECT.json` lists components,
runs, hazards, findings and theorems, and maps each definition to its source lines.

## 1. Inventory

| Component | State | Operations | Talks to | What is hard | What makes it correct | Module |
|---|---|---|---|---|---|---|
| Journal writer (`bridge/hot_storage.py`, `JournalPersistenceWorker`) | bounded queue, record in assembly, file buffer, journal, snapshot, command events | `put_batch`, `_put_sync`, `flush`, `close`, the thread's `_run`, `_write_snapshot_and_rotate` | state engine, disk | a thread against the event loop, kills, I/O errors, full queue, deadlines | order kept, nothing forgotten, rotation loses nothing, callers get an answer | `JournalWriter` |
| Runtime state engine (same file) | message window, indexes, rooms, surrogate counter | allocate, bind, put, trim, replay | journal writer, translators, actions | memory is ahead of the journal, replay after a snapshot, trimming | indexes agree, replay rebuilds memory | `HotStorage` |
| Legacy stores (`bridge/storage.py`, `bridge/id_map.py`) | JSON files | load, put, migrate | state engine | atomic replacement | what was migrated is not lost | - |
| Rocket.Chat inbound (`bridge/rocketchat_client.py`) | connection, subscribed rooms, inbound queues and workers, signatures, echoes | `start`, `stop`, `_run_forever`, `_ws_connect_and_listen`, `_enqueue_inbound_message`, `_inbound_worker_loop`, `await_sent_message_echo` | server, runtime, media | workers that retire as a message arrives, reconnects, duplicates, edits | order per room, no repetition, no message stranded, quiet after stop | `InboundPipeline` |
| Sending (`bridge/onebot_actions.py`, `forward_messages.py`, the REST and DDP calls of the client) | progress of a forward, answers, echoes | `send_msg`, merged forwards, `take_timeout_response` | client, dispatcher | answers that are lost or late, a message that is stored and not answered | parts in order, the answer is true | `OutboundSend` |
| Runtime lifecycle (`bridge/runtime.py`, `shell/manager.py`) | bot records, table of runtimes, locks, phase and open store of each runtime | `update_bot`, `_reconcile_runtimes`, `_apply_message_index_policy`, supervisor, failure callbacks, `stop` | registry, clients, hot store | failures that stop a runtime without the lock the reconcile holds | the record decides what runs, nothing is left running | `RuntimeLifecycle` |
| Plugins and breaker (`plugin_system/`, `bridge/runtime.py`) | loaded plugins, instances, bindings, breaker of each | reload, update, uninstall, dispatch, shut down | runtime, WebUI | a lock that is held across hooks, workers that do not take it, cancelled starts | instances and bindings agree, only loaded instances are entered | `PluginHost` |
| OneBot websocket client and dispatcher (`bridge/transports/websocket_client.py`, `action_dispatcher.py`) | connection, event queue, send lock, request queue, workers, target locks | `start`, `stop`, `emit_event`, `_run_forever`, `_sender_loop`, `_listen_loop`, `submit`, `_worker_loop`, `_handle_request` | application, action handler | a pool that grows and retires, locks that come and go, answers that outlive a connection | order per target, answers and events stay in their session | `OneBotSession` |
| Other transports (`bridge/transports/`) | servers, websocket peers, SSE clients, HTTP posts | start, stop, emit, request | dispatcher | slow peers, peers that join during stop | streams without a gap, nobody left waiting | `OneBotTransports` |
| Codec, catalogue, conversions of the translators | none | conversions | - | volume | - | - |
| User identity (`bridge/user_identity.py`) | SQLite registry, caches, conflicts | resolve, override, delete, list | actions, WebUI | shared by bots, calls that join, a database thread | one id per user, caches and answers current | `UserIdentity` |
| E2EE (`bridge/rocketchat_e2ee.py`) | keys | encrypt, decrypt | client | awaits in the message path | - | - |
| Media (`bridge/media.py`, `media_publication.py`) | cache, downloads under way, publications | download, publish, clean up, upload | translators, HTTP server | downloads shared by bots that stop, lost answers | nobody waits for a dead download, nothing is posted twice | `MediaService` |
| Configuration, WebUI sessions (`models.py`, `registry.py`, `settings.py`, `shell/manager.py`, `shell/webui.py`) | settings, bots, transports, plugin files; logins; the release switch | create, update, delete, import, rearrange, log in | manager, files | a failure between two of four files, rollback | memory is what the files say | `ControlPlane` |
| Terminals (`shell/webui.py`) | pseudo terminals, batches, history, clients | create, read, attach, close, expire | threads, browser | a thread, timers and an event loop around one buffer | output whole and in order | `Terminal` |
| Updates (`updates.py`, `update_manifest.py`, `tools/update_helper.py`, `docker/entrypoint.sh`) | release list, transaction, backup, tree, marker | download, verify, replace, watch, roll back, recover | PID 1, GitHub | a kill between any two writes | old or new, never a mixture | `UpdateTransaction` |
| Application, instance lock (`shell/app.py`, `shell/instance_lock.py`) | lock file, signals | start, shut down | manager | two instances | one instance | parts of `ControlPlane`, `UpdateTransaction` |
| Logging, diagnostics; bundled plugins; developer tools | - | - | - | - | - | - |

How they interact, along a message: the DDP reader enqueues it to an inbound worker,
which calls `BridgeRuntime` (`on_message`); the translator asks the state engine for ids,
whose mutations reach the journal writer when their batch commits; the OneBot event is
queued for each transport. An action comes the other way: through
the dispatcher to the action handler, the Rocket.Chat client, and the self-echo
that completes the mapping. A WebUI request changes a record under `_lock` and then reconciles under
`_runtime_lock`. A connection that gives up calls back from client to runtime
to manager, which disables the bot and stops the runtime from inside its own callback.

## 2. Plan and order

The order was that of how much breaks if a component does, and of how little of it a test reaches:
the journal writer with its abstract specification `DurableState`; `InboundPipeline`;
`RuntimeLifecycle`; `OneBotSession`; then `HotStorage`, `UpdateTransaction`, `UserIdentity`,
`PluginHost`, `OutboundSend`, `MediaService`, `ControlPlane`, `Terminal` and `OneBotTransports`. All of
these are written and checked. Proofs followed, for all components; the last was `HotStorage`, whose state is a fold over a log. What would
come next: `restart_connections` in `RuntimeLifecycle`, and the file
manager of the WebUI.

Composition: `OutboundSend` EXTENDS `InboundPipeline` and shares its connection, signature cache and echoes.
`JournalWriter` implements `DurableState`. Elsewhere a module stands for its neighbours by what they
may do: `HotStorage` has a queue and a journal of which a prefix survives, which is what `JournalWriter` is
shown to give; `RuntimeLifecycle` sees of a client that it loses its connection for good and of
a store that it is open; `OneBotTransports` has of the dispatcher the queue only. Parameters are CONSTANTS with named assumptions, and no
module declares a RECURSIVE operator.

## 3. The modules

### DurableState, JournalWriter

`DurableState` is the promise: `live` is what memory reflects, `durable` what a restart would
find. Durability lags behind memory and does not recede; a restart continues from
`durable`; after an orderly `close()` the two are equal.

`JournalWriter` is the code. A mutation is a number (what it changes is left to `HotStorage`).

| Variables | Code |
|---|---|
| `clock`, `live`, `pstate`, `batch`, `dropped` | the engine's memory and each coroutine between its mutation and its commit; `dropped` are those whose commit raised |
| `queue` | `_queue`; `sent` is history: all that was enqueued since the last rotation |
| `pc`, `hand`, `logical`, `deferred`, `command`, `unflushed`, `written`, `capture`, `failed` | locals and attributes of the thread in `_run` and `_write_snapshot_and_rotate` |
| `callers`, `done`, `promised` | the calls of `flush()` and `close()` and their events |
| `buf`, `spilt`, `journal`, `snapshot` | the file object's buffer, and the two files |

Each action is what the thread, or a task, does up to the next point at which another may see it:
taking an item, coalescing, writing, flushing, capturing, replacing the snapshot,
closing and truncating the journal are steps of their own, with `Crash` and `Fail` possible
between any two. `Crash` is a kill of the process: what
was handed to the operating system survives, the Python buffer is lost, and a record may be cut (`spilt`). Power
failures (missing `fsync`) are not modelled. A reader that meets a cut record is taken to stop there.

### InboundPipeline, OutboundSend

`InboundPipeline` is `RocketChatClient` from `start()` to the end of `stop()`. `link`, `listed`, `subscribed`, `notices` are the
connection and what the server tells it of rooms; `queue`, `owner`, `task`, `item` the inbound queues
and the workers by bucket, including tasks whose done-callback has not run; `seen` the signature
cache; `recent`, `waiters`, `sender`, `posted`, `echo` the self-echoes; `emitted` and `entered` are history: what was handed to the runtime, and
those of it whose id the cache did not know.
The idle timer (`Retire`) may fire in the very iteration in which a message is put. Left out: messages
without `_id`, system messages, the background task that distributes keys.

`OutboundSend` adds the actions that send: `job[s]` is how far the action of sender `s` is, with the part it
posts, the fate of the request under way (sent, stored, answered, or failed with the message stored
or not), the answers so far and what `map_progress` counted. A plain send posts its parts and waits
for the echoes that the answers did not name; a merged forward is prepared as a whole first, then posted part by
part, into a thread with a header before it; the dispatcher's timeout may cut either at any await
and answer from the progress. `world` separates what may happen, to keep the product small: in "listen" others write, the
connection breaks, workers retire and the client stops; in "chat" others write more messages through a connection that stays, and no worker is idle for long; in both the queues and workers
are at work. In "send" the bot sends, and the way of an echo through the queues, which can only delay
it, is one step. All share the connection and the caches.

### RuntimeLifecycle

One bot, whose runtimes are numbered as they are built. `record` is its entry in the registry, `placed` the entry in
`manager.runtimes`, `holder` the local variables of whoever holds `_runtime_lock`, `offline` the store
that the message index policy opens while no runtime runs. Building and starting a
runtime and placing it are one action because `start()` has no await that yields. `captured` tells
whether the record a waiting reconcile has read is still the one in the registry: it is the same object, so that a failure
disables it in place, whereas an update replaces it. `BuildOnly` is a runtime built from such a disabled record: it
opens the store, is not started, and is placed nowhere. `stop()` has three stages, `clients`, `plugins` and `closing`. The second detaches the plugins under their lock and may hang (`PluginsHang`),
since neither the lock nor an `on_unload` hook has a timeout. Called from the supervisor, `stop()` does not get that far (section 5). Called from the client, its own cancellation is swallowed by `RocketChatClient.stop()` and it does. Left out:
`restart_connections` (`bridge/runtime.py:732`), several bots (which share only the locks), a `stop()` that raises (`shell/manager.py:1354`).

### OneBotSession

One websocket client and its dispatcher. A session is a connection; `outgoing`, `sender` are the event queue and
`_sender_loop`; `holder` is who has `_send_lock`; `queue`, `worker`, `request` the pool; `lock`,
`users` are `_target_locks` and `_target_lock_users`, and `line` the FIFO of each lock, which is named by the request that
created it, so that a lock that was dropped and created again is another one. `Retire` and `Callback` are the end of
an idle worker and its done-callback: in between `_ensure_workers` still counts it. A refusal of a full queue keeps
the listener from reading on. `emit_event` may drop an event; so `Emit` need not happen. Left out: heartbeats and lifecycle
events (they only take the send lock), malformed JSON, the text of answers.

### HotStorage

`mem` is the engine (`forward`, `reverse`, `order`, `counter`, `bySource`, `bySurrogate`, `pairs`, `private`,
`context`, `window`); `task` the translations with their mutation batches, which are in memory at once and in the
queue when the translation ends; `accepted`, `logged`, `flushed`, `saved` the writer's queue, the journal, how much of it the file holds, and the snapshot (`None`: there is no file);
`rotation` is the snapshot under way; `settled`, `origin` and `coherent` are history. Actions are the beginning of a translation (ids for the message and for those it quotes, and the trimming that follows),
storing the translated message, a translation that fails, the commit of a batch, the mapping of a sent message, the binding of a context to a room, a change of
the window, and, of the writer, writing a record, flushing and the rotation, in the steps of the code: the state is captured between any two mutations (`CaptureState`), the new
file replaces the old snapshot (`InstallSnapshot`, line 523), closing flushes the journal (`CloseHandle`, 530), and it is truncated (`TruncateJournal`, 531), while tasks go on queueing records, some of
which the captured state already contains. `close` is the last rotation, behind a queue that has been drained and with no task left (`stop()` ends them before it closes the store). `ProcessDies` comes between any two of
these steps, so that a new snapshot may meet the old journal; it keeps a prefix of the journal and at least what was flushed; `build_runtime_hot_stores` replays every
record over the snapshot with the code's replay rules (`Replayed`, a fold of folds), or over an empty state when there is no snapshot or it is passed over as undecodable.
A snapshot has no index by surrogate: `Loaded` builds it from the messages. The namespaces room, thread and context have no
window and are left out. Names that `JournalWriter` has too carry another name here (`HotSpec`, `hotVars`, `accepted`, `logged`, `saved`), so that
`JournalWriter_proofs` may extend both.

### UpdateTransaction

`tree` and `backup` are the managed paths under the source root and in the backup, each with the release it is
of or `Torn`; `saved` is `complete.json`, `txn` `transaction.json`, `pending` and `marker` the two
other files. `pid1` says what the process with number 1 does: the application (`app`, `downloading`, ..., `stopping`), the
helper's `apply_transaction` (`validate` ... `spawning`), or the start (`recover`, `restore`, `unmarking`, `watching`). Every action
writes one file or one path, and `Kill` may come between any two. `site` is what GitHub serves, `listed` the cached
list, `chosen` the switch being prepared; the site changes at any time, also during the download.

### UserIdentity

`store` is the database, `draft` what the open transaction of a batch has made of it: a batch inserts its users one by one
(`InsertNext`) and commits them together or is rolled back. `byUser`, `byId`, `seen` are the caches, `queue` and `thread` the executor: a job
commits, gives up the lock and updates the caches in a second step (`FinishJob`). The lookup of an id reads the user of the id first (`LookupJob`) and, without the lock, the mapping of that user in its second step
(`Result`; `user_identity.py:939`, `:941`), between which the event loop may drop the mapping. `call`, `pc`, `joined`, `value` are the callers; a call in flight for the same thing is joined.

`loop` holds the callbacks of the event loop that are due, in their order, and each is a step: a caller that waits for its own job is resumed (`wake`); the task of a flight completes
(`CompleteTask`), which makes the callbacks on it due; these remove the flight (`cleanup`, `:275`) and wake who waits behind `asyncio.shield`. So there is a moment at which a flight is
completed and still in `inflight`: who asks for the same then is given its result at once (`Join`). A caller that is woken goes on with the list of its bot (`Touch`) or returns (`Return`); when it is the
manager with an override or a deletion, it drops what the cache holds of the user. The callbacks of one task are one step, since the loop runs them in a row.

`valid`, `excused`, `past` and `told` are history: what was so at some moment of the call, what it may be told besides, the tables that were replaced and may still be on their way to somebody (a change counts as made when its
job is done and the loop has completed the tasks of the flights done by then), and what it was told. The hash of a
user is its `Primary` slot; the next free slot is taken on collision. Left out: migration of the schema, paging, wording of warnings, and a manager without any running bot (it drops nothing, and nobody calls).

### PluginHost

`states` holds the instance of each plugin, `alive`, `loaded` (history of hooks) what became of instances,
`bind` the bindings of each bot's context, the very list its workers walk; `lock` and `task` say who holds the manager's lock and how far
it is in its list of items, one hook at a time, each of which may raise; `worker` is an inbound worker between two
bindings, `breaker` the circuit breaker it reads and writes around an await. `torn` and `overlap` remember the two
situations that the properties except: a start cancelled while it held the lock, and updates of one plugin that ran beside each other (section 5).

### MediaService

`coord` is the coordinator of the cache directory with its member bots and the owner of the download session, `flight` the
merged downloads with the bot whose session runs them, `cleaner` the cleanup thread with the set it was told to keep,
`file`, `temp` the cached and temporary files, `pub`, `index`, `token` the table of published URLs and its index by path. `task`
is a message received or sent, between awaits; `pref`, `legacyOk`, `server` decide between the two upload
endpoints; `posted` and `told` are what the server and the caller saw. Left out: limits on size and age as numbers, ranges, formats.

### ControlPlane

`mem` and `disk` hold settings, bots, transports and plugin files; a save writes four files, one at a time, and `Crash` or a failed
write may come between. `queue` is `_configuration_transaction_lock` (first come, first served), `req` what each request does under it, `gate`
password and port of the WebUI, `login` the sessions, `switch` the release switch that has to find
its port again. `strayed` remembers that a request was refused or failed halfway, after which memory and files may differ (section 5).
`acked` is history: the types that the transport of a completely saved bot may have, which is the one it was created or imported with, and that of a websocket client once an update gave it a
transport that names no type. Such an update passes the comparison of types (`SameType`) and is then normalized (`Normalized`).

### Terminal

`fd` and `owner` are the number of a pseudo terminal and what it stands for now: numbers are used again. `thr`, `drain` are what the reader
thread left for the event loop, `pend`, `handle`, `sched` the batch and its timer, `shown` what was
broadcast, with the history as its end, `client` a websocket with its bounded queue. `line` holds the critical
sections of `_terminal_lock` in the order in which they were asked for. Reads are numbered, so that `InOrder` and `Whole` say of the four places that they hold
each read once and in order. Its state, actions and constants have names that no other module of the manager has (`TerminalSpec`, `terminalVars`, `Nobody`), so that
`ControlPlane_proofs` may extend all three.

### OneBotTransports

`kind` is a server or the HTTP client. `peer[p]` is a websocket or an event stream with its queue and what it was
sent (`got`), `act[a]` an action with who waits for it, `aq` the dispatcher's queue, `post` the HTTP client. `phase` follows `stop()`:
hub, runner, the wait for action tasks, the dispatcher. A peer may join after the hub was stopped. Left out: authentication; `onebot_client.py`, which keeps a list of
transports. No name is one of `OneBotSession` (`TransportSpec`, `EmitEvent`, `StopTransport`), so that `OneBotSession_proofs` may extend both.

## 4. Runs

Every run is expected to pass. States are distinct states.

| Run | Properties | Bounds | States |
|---|---|---|---|
| `journal` | `InEnqueueOrder`, `NothingForgotten`, `FlushReachesDisk`, `ImplementsDurableState`, `CommandsAnswered`, `EventuallyOnDisk` | 2 producers, 1 flush, 1 close, queue of 1, thresholds of 2 and 3 records, 2 mutations, 2 kills, 1 I/O error | 277,042 |
| `rocketchat` | `RoomOrder`, `AcceptedAreServed`, `ForwardIsAccounted`, `NoRepeat` | 2 rooms in 2 buckets, one encrypted, 3 ids of which one is edited, queue of 2, signature cache of 2; "listen": 3 arrivals, 2 failures, 2 attempts; "chat": 5 arrivals; "send": 2 senders | 3,089,416 |
| `lifecycle` | `NoGhost`, `ServedAsRecorded`, `RequestsEnd` | 4 runtimes, 3 updates, 2 failures, 2 attempts | 240,400 |
| `onebot` | `TargetInOrder`, `ConnectionsAreApart`, `AskersAreAnswered`, `StopEnds` | 2 targets, 2 workers, queue of 1, 3 requests (the first two for one target), 1 event, 2 sessions | 242,439 |
| `hot_storage` | `IdMapAgrees`, `MessageIndexesAgree` | 3 messages, 2 tasks, windows of 1 and 2, queue of 1, 3 operations and rotations, 2 crashes or stops | 3,062,231 |
| `update` | `InstalledIsKnown`, `DamageIsRecoverable`, `CandidateIsListed`, `ComesBack` | 2 paths, 2 releases, 2 archives of which 1 is valid, 3 kills or failures, 2 switches | 526,086 |
| `identity` | `CachesAgree`, `ConflictsAreCurrent`, `AnswersAreCurrent` | 2 users with one primary slot, table of 2, 2 bots, 3 callers, cache of 1, 4 calls | 3,253,543 |
| `plugins` | `NothingLeftOver`, `RunningMatchesFile`, `CallsEnterLoaded` | 1 plugin with 3 configurations, 2 bots, 2 administrators, 2 workers, 2 operations, 3 calls, breaker opens at 1 | 2,922,131 |
| `media` | `IndexAgrees`, `PostedOnce`, `MembersAreServed` | 2 bots, 2 tasks, 1 received and 1 sent item, table of 1, 2 versions of a file, 2 tokens, 2 starts | 3,397,749 |
| `control` | `MemoryIsOnDisk`, `SwitchKeepsPort`, `TransportsFit` | 2 bots, 2 requests, 2 passwords, 2 ports of which a bot may listen on 1, 3 operations, 1 failure or crash | 969,128 |
| `terminal` | `OutputIsWhole`, `EveryoneLetGo` | 2 terminals of which 1 at a time, 1 client, 2 reads, batch of 2, history of 1, client queue of 1, 1 close | 334,050 |
| `transports` | `NoGap`, `NobodyStranded`, `EveryStopEnds` | 1 peer, 2 actions, peer queue of 2, action queue of 1, 4 events | 196,826 |

What each shows:

- `journal`: the writer keeps the FIFO of the queue, forgets nothing that was enqueued unless it told somebody, what `flush()` was called for is in the files when it
  returns, the whole is an implementation of `DurableState`, every command is answered, and what is enqueued reaches the files without a further mutation to push it.
- `rocketchat`: messages of a room reach the runtime one at a time and in order through reconnects, idle workers and a stop; nothing accepted is stranded; parts of a forward come in order without a hole and what the answer says of them is true.
  A version is handed to the runtime again only if its id has been forgotten, and an id is forgotten only when as many ids as the cache holds have entered it since: with two
  places and three ids the order of eviction shows, and a cache that dropped its youngest entry, or the one not used for longest, is told apart.
- `lifecycle`: no runtime is left outside the table; once all requests are reconciled, the record decides what runs; no request waits for ever, unless for a plugin that hangs.
- `onebot`: requests for a target are handled one at a time and in order whatever the pool does; an answer goes to the connection that asked, once, and events
  are pushed in order to the connection during which they came; a peer that stays is answered; `stop()` ends.
- `hot_storage`: the maps of ids are inverse to each other and agree with window and counter, at every moment and after every replay of a journal over the state it continues, or over another one that contradicts none of its ids; the message indexes agree with
  each other after any replay. Records are queued while a snapshot is being taken, and a kill in the middle of a rotation has the old journal replayed over the new snapshot.
- `update`: see section 6; `ComesBack` says in addition that the container comes back, unless a candidate was refused after the handoff.
- `identity`: between two jobs the caches tell what the database holds; ids are one to one, conflicts are about mappings that exist; no caller is told
  what was no longer so when it called, whatever it joined and whichever callbacks of the event loop are still due, but for the two gaps of section 5.
- `plugins`: whenever the lock is free, bindings and instances agree with `_states` and no instance has leaked; what runs is what the file says; a worker enters only loaded instances, and an expired
  breaker lets one call through at a time.
- `media`: table and index of published files agree and stay within their limit; nothing is posted twice, whichever endpoint is missing and whichever answer is lost; nobody waits for a download whose owner
  went, and the cleanup runs while a bot uses the cache.
- `control`: memory agrees with the files outside of a save and of a request that failed halfway; the release switch finds the WebUI on its port; listeners do
  not clash, and a bot keeps the type of its transport through an interrupted save unless an update gave it a transport without a type.
- `terminal`: output is neither lost nor shown out of order though numbers of pseudo terminals are used again, a client sees no gap, all output is shown and everybody is let go.
- `transports`: streams have no gap, posts keep their order, no request waits for an action that was thrown away, and `stop()` ends.

**Why these bounds.** Each queue, cache, window and table is smaller than the traffic, so it fills; a cut record needs one kill and its
consequences a second; a snapshot passed over at one restart and read at the next needs two; a retiring worker, its successor and the request between them need two workers; a lock that is dropped under a waiter
shows with three requests of which two are for one target; a stale record needs one update or failure during a stop and two successors to settle; a backup that is
not complete needs two paths, a restore that is interrupted a second kill, and its repetition a third; a displaced user needs a table in which both hash to one slot; a reused number of a
terminal needs two terminals; a slow peer needs more events than its queue has places. The thresholds of the code (32, 256, 1024, 5000, timeouts) only say when,
not what, and are scaled down. Symmetry is used only in runs without liveness properties (`hot_storage`, `identity`, `plugins`, `media`, `control`) and
permutes constants that no definition tells apart; the VIEW of `hot_storage` leaves out `settled`, a history that no step and no property of the runs reads, and that of `identity` leaves out `told`, which no step reads (`AnswersAreCurrent` is checked at every step, of which `told` is the outcome). Deadlock is not checked: every bounded system may come to its end, and what must not stop is stated as a liveness
property.

**Fairness.** `FairSpec` (`TerminalFairSpec`, `TransportFairSpec`) is used by `journal`, `lifecycle`, `onebot`, `update`, `terminal` and `transports`; the other runs check safety
under `Spec`. The journal's thread is scheduled, the event loop resumes what can go on, waiting callers poll; handlers,
decryption, sends and the stages of `stop()` end within timeouts that are in the code, except that a runtime's plugins either let go of it or hang: `lifecycle` assumes
only that one of the two happens. Strong fairness is used where a
lock is granted in order (`asyncio.Lock` is FIFO): the reconcile's lock, and the send lock for answers and refusals. For an update, Docker's restart policy restarts the container, PID 1 goes on
with what it does and the watchdog has a deadline. Nothing is assumed of servers, peers (but that a shut peer is left), idle timers, producers, the disk, the administrator, or of a new release becoming
healthy. `CommandsAnswered` excepts a `flush()` behind the stop command, and
`RequestsEnd` a model that has used up its runtimes and a lock whose holder waits for a plugin that hangs. A commit that polls for room may be overtaken
for as long as others mutate; it ends because mutations are bounded.

## 5. Properties that do not hold

Seven properties are defined in the modules, are what the documentation or the code's own design says, and are violated
by the code as it is. No run lists them; adding the name to the cfg of the run (INVARIANTS, for the second, the sixth and the seventh PROPERTIES) gives the counterexample.

1. **`JournalIsReplayable`** (`JournalWriter`, `MCJournalWriter.cfg`; `bridge/hot_storage.py:398`). After a kill in the middle of a record, the next process appends
   behind it, and the recovery after that stops at the cut record and does not read what was appended.
2. **`GivesUpCleanly`** (`RuntimeLifecycle`, `MCRuntimeLifecycle.cfg`; `bridge/runtime.py:162`, `:203`; `README.md:90` promises that failed bots are disabled). When the first connection is given up, `stop()` gathers the task it
   is running in; it never returns, the store stays open and the state file says "reconnecting".
3. **`OneWriter`** (`RuntimeLifecycle`, `MCRuntimeLifecycle.cfg`; `shell/manager.py:1454`; `CHANGELOG.md:271` describes one background writer). The failure path closes a store without `_runtime_lock`, and a
   reconcile or the offline policy opens the same directory meanwhile.
4. **`SettledIdsKeepTheirMessage`** (`HotStorage`, `MCHotStorage.cfg`; `bridge/hot_storage.py:1088`; `README.md:702`). The counter is restored from the ids that survive, so that an id that was on disk and has been trimmed
   may be issued to another message after a restart.
5. **`IdMapAlwaysAgrees`** (`HotStorage`, `MCHotStorage.cfg`; `bridge/hot_storage.py:1088`, `:350`, `:523`). A journal may be replayed over another state than the one it continues: over an empty one, when a restart passes
   over a snapshot that it cannot decode, or when there is no snapshot yet and the size of the window has changed since; or over a newer one, when the process is killed between the replacement of the snapshot (`:523`) and
   the truncation of the journal (`:531`). Usually that does no harm. But if the journal has an id for another message than that state, `_apply_id_put` puts the second message under an id that is taken, and after
   trimming `forward` names a message that `reverse` does not know. The counter lets it happen: ids that only an ignored record mentions are given out again (item 4). For example, window 2: m1, m2, m3 got 1, 2 and 3, m2's record
   was given up at the full queue, and m1, trimmed, came back as 4. After a kill the replay has m1 as 1 and ignores its second record, so that the counter stays at 3 and m2 gets 4. The window becomes 1, a snapshot with m2 as 4 replaces
   the file, and the process is killed before it truncates: the next one replays "m1 is 4" over it. `IdMapAgrees` excepts exactly this with `coherent`: no restart has replayed a journal over another state than
   the one it continues (`origin`) that has one of its surrogates for another message.
6. **`TypeIsFixed`** (`ControlPlane`, `MCControl.cfg`; `shell/manager.py:1169`, `bridge/transports/catalog.py:62`; `README.md:661` and the error at `shell/manager.py:1174` say that the type cannot be changed after
   creation). An update whose `onebot_transport` has no `type` is compared as if it had the bot's, and normalized as a websocket client: a bot with an HTTP server changes its type. `TransportsFit`
   excepts the bots that got such an update, and only to that type.
7. **`AnswersAreAlwaysCurrent`** (`UserIdentity`, `MCIdentity.cfg`; `bridge/user_identity.py:281`, `:941`; the manager drops what is cached of a user when a mapping has changed, `shell/manager.py:885`, so that nobody is told the
   old id from then on). Two gaps are left. A flight can be joined until a callback removes it, one round of the event loop after its task has completed: a call resolves a user, an override of that user is queued behind it and
   done before the loop hears of either; the task of the flight completes, the override returns, its caller drops the cached mapping, and the next call for that user, which then misses, joins the completed flight and is told
   the old id. And the lookup of an id reads its user and the mapping without the lock: when the mapping is dropped in between, by an override that left the id as it was, the answer is None although the user has had
   the id all the time. `AnswersAreCurrent` excepts exactly these with `excused`: who joins a flight that has landed may be told what was so since that flight began, and who waits for such a lookup None.

Further observations made while modelling, which the models except (see the comments at the properties) or leave out:

- Inbound: a room the bot is added to between the REST room list and the subscription to `rooms-changed` is not heard until
  the next reconnect (`bridge/rocketchat_client.py:1752`; `README.md:91`). An echo that answered one send stays in the cache and may answer the next send to that room (`:729`, `bridge/media.py:1942`).
- Sending: `send_msg` skips parts that were declined and answers ok.
- Plugins: overlapping updates of one configuration lose one of them; a bot start cancelled while it holds the lock leaves a torn operation; a binding removed while a worker walks the list
  makes it skip the next plugin; hooks run without a timeout under the lock, so that one that never returns keeps `stop()`, and
  with it `_runtime_lock` and every later request, waiting for ever (`LockIsStuck` of `RuntimeLifecycle`, the exception of `RequestsEnd`); a bot stopped before it has bindings is not detached (`bridge/runtime.py:688`).
- Media: a bot start that is cancelled during the first cleanup leaves `started` set, so that no cleanup loop is created until the last bot has left.
- Configuration: a refused settings update stays in memory and is persisted by the next operation on a bot; so does a failed `create_bot`; after a reconcile that failed behind saved settings
  the WebUI keeps the old password; `update_settings` does not compare the WebUI's port with the bots' listeners.
- Terminal: `master_fd` may be read after the number was given to another terminal (`shell/webui.py:1073`, `:1340`), and the idle cleanup may close a terminal just attached to (`:1039`).
- Transports: a websocket that joins while the hub stops makes `stop()` wait for the runner's shutdown timeout.
- Updates: a candidate that `apply_transaction` refuses after the handoff (`tools/update_helper.py:481`) leaves a transaction that needs a backup there is none of, and the
  entrypoint refuses to start from then on. `ComesBack` excepts this, and `OnlyValidationRefuses` proves that it is the only exception.

## 6. Proofs

TLAPS checks eight modules of proofs of all components modelled (one of them, `FoldTheorems`, is about folds alone); nothing is assumed but the named assumptions on constants. A module that is about several components
extends them, their names being disjoint, and has a part for each. Each has an inductive invariant (`IInv`, or the name given
below), defined at the end of the specification and checked by TLC before it was proved, one lemma per action or group of actions, and theorems for every value
of the constants. Where a property needs facts that the others do not, they are a second invariant on top of the first.

`JournalWriter_proofs` (assumption: `JournalAssumption`, positive capacities and thresholds, natural bounds, a
closer that is not a flusher). `TypeCorrect` is inductive by itself. `NothingForgotten` and the refinement are not: that a
truncation loses nothing depends on what was captured before the snapshot was replaced. `IInv` adds that memory is ahead of everything
(`MemoryAhead`), that a dead process holds nothing (`NothingSurvivesDown`), how a record is
assembled (`Assembly`), that the captured state covers the journal and the buffer while they are about to be discarded
(`RotationCovers`), and that memory stands still from `close()` on (`StopCovers`). `InvariantStep` has one lemma per
group of actions; facts about `IdsIn`, `Flat` and `Readable` of concatenations are lemmas of their own.
`Implements` maps every step to a step of `DurableState` or a stutter: `Recoverable` grows or stays, is below
`live`, and equals it when `close()` returns. `OrderInv` adds that the journal, the buffer, the record in hand, the deferred item and the queue, read
in that order, are what was enqueued, in every state of the process, and that nothing is behind the stop command; hence `JournalInOrder` (`InEnqueueOrder`).
`FlushInv` adds that the count of unflushed records tells whether the buffer is empty, and that what a `flush()` was promised lasts or is
ahead of its command wherever that command is; hence `FlushMeansOnDisk` (`FlushReachesDisk`), for any number of producers, flushes and kills.

`OneBotSession_proofs` (assumption: `SessionAssumption`). That an answer stays in its connection is not inductive: one has to know where every request is. `IInv` says that
the send lock is held by whoever sends (`Held`), that nothing is left of a connection when there is none (`Links`), that busy workers are exactly those
in the lines and only the first of a line works (`Lines`), that a request is in one place, the queue, one worker or the listener that refuses it (`Places`), that it has not
been answered yet except by who is sending (`Unanswered`), and that events wait behind those that were pushed (`InTurn`). `ConnectionsStayApart` follows for any
pool, queue and number of reconnects. For the order per target, `OrderInv` adds that a lock is in the table exactly while somebody is in its
line, all for that target (`Locks`), and that the queue comes after the lines and the lines after what was begun (`Turns`): a lock that is dropped and
created again has nobody ahead of it. `TargetsInOrder` (`TargetInOrder`) follows.

`UpdateTransaction_proofs` (assumptions: `UpdateAssumption`, the program's path is managed and the image is a release, and `NoFileAssumption`, the absent file is not one of the
files' contents). `DamageIsRecoverable` speaks of moments at which the tree is damaged; that it holds depends on all that was written before. `IInv` says what the
transaction on disk tells while PID 1 or the watchdog works (`Recorded`), from when on there is a backup and that it is complete
and of the release before (`BackedUp`), what is in the tree wherever nobody repairs it, and of what is being repaired the part that is done (`InPlace`), that a verdict is true (`Verdict`), and what was
chosen (`Chosen`). `KnownIsInstalled`, `Recoverable` and `ListedIsInstalled` follow for every set of paths and
releases and any number of kills; `OnlyValidationRefuses` is the action part of `ComesBack`.

The second part of `UpdateTransaction_proofs` is about `UserIdentity` (assumption: `IdentityAssumption`, finitely many callers, a table and a cache of at least one place, a
primary slot for every user). That nobody is told something stale depends on where each call, each job and each result is, and on what the caches may hold
meanwhile. `IdentityInv` says that ids are unique and conflicts name mapped users, in the committed table, in all tables before it and in the open transaction (`TablesCurrent`); that whoever
waits does so for one job, queued or done, of a caller that asked for the same (`Lines`); how far the thread is and what it has still to put into the caches or to take out (`Working`); that
the caches tell what the database holds but for the users about to be settled, and those only what was so once (`Cached`); and that a result the loop has yet to hear of was so while each of
those who wait for it did, or these are excused (`Heard`). Each flight is in one of the two lines, a callback of its own, until it is removed, and callers that join wait for one that has not been (`Lines`); a result that
others may still join for was so in a table that is not forgotten (`past`). The callbacks of the loop have their facts in common (`LoopStep`, `LoopKeeps`): one caller moves on, the lines keep their order, and the caches at most lose entries.
Facts about rows and tables (`InsertFacts`, `EnsureFacts`, `OverrideFacts`, `DeleteFacts`) come first. From it follow `CachesFollow` (`CachesAgree`),
`ConflictsNameMapped` (`ConflictsAreCurrent`) and `NothingStaleIsTold` (`AnswersAreCurrent`), for any number of bots, users, calls, overrides and deletions.
TLC checked `IdentityInv` on the instance of the run without its VIEW (4,256,002 states).

The second part of `OneBotSession_proofs` is about `OneBotTransports` (assumption: `TransportAssumption`). That `stop()` leaves nobody behind depends on what each of its stages has ended, and that a stream
has no gap on what is still queued. `TransportInv` says what is left of peers and of waiting requests at each stage (`Stages`), that the events in the queue of a peer go on where those that
it was sent end (`Unbroken`) and that nothing emitted is missing while it is served (`UpToDate`, together `Streams`), and that what was posted, is being posted and will be posted is in order
(`PostsInOrder`). From it follow `StopLeavesNobody` (`NobodyStranded`) and `StreamsHaveNoGap` (`NoGap`), for any number of peers, actions and events and every capacity. `NoGap`
filters queues with `SelectSeq`, whose definition the provers cannot expand: the proof carries the order of the whole queue over to its events.

`OutboundSend_proofs` (assumptions: `InboundAssumption`, which relates messages, rooms and buckets and bounds the limits, and `SendAssumption`, each part of an action is a message of the
bot in the action's room). Its two halves are the two modules. `PipelineInv` says of the pipeline that the owner of a bucket is its only task that works (`OneWorker`), what is left of it while
it stops (`Ending`), that a message is in the bucket of its room (`InBucket`), that a queue comes after what its worker has in hand and that after what was emitted (`InTurn`),
and that the signature cache holds the ids that entered last, in that order, each once and with its latest version (`CacheIsCurrent`). From it follow `RoomsInOrder` (`RoomOrder`), `NothingRepeated` (`NoRepeat`) and
`AcceptedIsServed` (`AcceptedAreServed`), through any number of reconnects, idle workers and edits. `SendInv` says where each action stands: a request under way belongs to a part that is due (`Standing`),
a forward has sent the parts up to that one and has counted them, less the one whose answer is still to come (`ForwardStands`), and other actions are past the parts that
they sent (`PlainStands`). `ForwardAccounted` (`ForwardIsAccounted`) follows: whichever answers are lost and wherever the dispatcher's
timeout falls, the answer reports what is in the room.

`MediaService_proofs` (assumption: `MediaAssumption`, no item is both encrypted and downloaded by URL, and a table of at least one). The table of published files and its index are two
structures that every step changes together, and the eviction removes from both. `MediaInv` says that tokens are handed out once, that an entry of the index names an entry of
the table for the same path and the reverse (`Indexed`), and that a task at work belongs to a bot that is up and has posted nothing until its caller is told (`AtWork`). The lemmas
say what removing entries from a sequence keeps, by a least counterexample, because `SelectSeq` cannot be expanded. From it follow `IndexFollows` (`IndexAgrees`), `PostedAtMostOnce` (`PostedOnce`) and
`WaitersServed` (`MembersAreServed`), for any number of bots, tasks and items.

`ControlPlane_proofs` (assumption: `ControlAssumption`, finitely many bots, a password by default, at least one port). That memory is on disk after an operation depends on a save that may end after any of its
four files, and on who may be inside one. `ControlInv` says that a request past its checks is the first in the queue and that no release switch is under way then (`Locked`), that the settings do not change
under a switch (`PortIsSaved`), that memory and files agree unless a request has failed halfway and that the WebUI asks for the password in memory but for the moment of handing it over (`Written`), and that a saved
bot has one of the types it may have (`acked`), and no enabled bots clash, in memory or in what would be loaded now (`Fitting`). `acked` is forgotten by an import whose way back fails. From it follow `FilesFollow` (`MemoryIsOnDisk`), `PortIsKept` (`SwitchKeepsPort`) and `TransportsStay`
(`TransportsFit`), for any number of bots, requests, passwords, ports, failures and crashes.

The second part of `ControlPlane_proofs` is about `RuntimeLifecycle` (assumption: `LifecycleAssumption`, natural bounds). `IInv` adds to the types: runtimes that are
not built are idle (`Unbuilt`), whoever holds the lock has emptied the table and stops one
runtime (`Holding`), what a runtime does at each stage of its stop (`Stages`), that a working runtime is placed
or is the one being stopped by the lock's holder (`Working`), and that what a reconcile is about to
start is what the record asks for (`Underway`). From it follow `PlacedIsRunning` (`PlacedRuns`), `NoneLeftBehind` (`NoGhost`)
and `RecordDecides` (`ServedAsRecorded`), for any number of runtimes, updates, failures and attempts.

The third part of `ControlPlane_proofs` is about `Terminal` (assumption: `TerminalAssumption`, positive limits and finitely many terminals). A read passes from the thread to what is pending,
to a batch that waits in the line of the lock, to what was shown, and each hand-over is a step that sessions, timers and closers may come between. `TerminalInv` adds to `OutputIsWhole` that one
terminal is created at a time and its sections are the only ones of their kind (`Creation`), that a number stands for the terminal that has it, which is open or about to be listed (`Numbers`; that a free number
is found follows by counting), that there is no output before a terminal is open and none is left with the thread once it is closing, which it is when its end is in the line (`SessionStages`), and
that clients belong to terminals that are open, or are ending with one that is gone (`Joined`). The lemmas first say when a concatenation is increasing and what it holds, then what a line that moves on by one place
keeps (`Moves`), then for each hand-over that the whole stays good (`WasRead`, `TakenOver`, `BatchTaken`, `BatchShown`). From it follows `OutputArrivesWhole` (`OutputIsWhole`), for any number of
terminals, websockets, reads and closers and every limit.

`PluginHost_proofs` (assumption: `PluginHostAssumption`, finitely many plugins, and names that cannot be mistaken for one another). Hooks are paired when the lock is free; while it is held, one operation has
called some hooks of some bots and not others, any may have raised, and workers walk the bindings meanwhile. `PluginInv` says what each task may be doing (`Roles`),
which bots are attached and that workers belong to running ones (`Attached`), that a bound instance is loaded on its bot and that there is one per plugin (`Binding`), for each stage of each
operation what of it is done (`Changing`), that every instance that is loaded is bound, is being loaded or is about to be unloaded (`Accounted`), and how the file, the
configuration an update writes and the instance that runs go together (`Matching`). `Accounted` is not claimed after a start cancelled while it held the lock, `Matching` not after overlapping updates: the two situations the properties except.
From it follow `HooksArePaired` (`NothingLeftOver`), `FileIsRun` (`RunningMatchesFile`) and the action property `WorkersCallLoaded` (`CallsEnterLoaded`), for any number of plugins, bots,
administrators, operations and messages.

The second part of `JournalWriter_proofs` is about `HotStorage` (assumption: `HotStorageAssumption`, positive timestamps, windows and capacity, a `None` that is no message and no
room). That the engine is consistent after a restart depends on every prefix of the journal that a kill may leave, and on the records that are still to be written behind it: `HotInv` has two halves. `Stored` gives the shape of
everything in memory and on disk and says that the message indexes agree (`Indexed`) in the engine, in the snapshot and in the state that the journal continues; replaying any well-formed record keeps that. `Replayable` says, while `coherent` holds, that each prefix of the journal, replayed over `origin`,
gives maps that agree and fit the window (`Windowed`), that the snapshot, the state captured by a rotation and the running engine have such maps, that the counter in memory is not behind the one the journal or the captured state gives, and that the ids in
the queue and in the open batches (`Pending`) were given to one message each and contradict neither memory nor what the journal gives nor the captured state (`Behind`): they may be journalled in any order and cut anywhere, behind the old journal or behind the new snapshot.
A restart over another state than `origin` re-establishes this from `ReplayedFacts`: a fold over records that have one message for each surrogate, together with the base, keeps the maps in agreement.
The steps rest on what the operators do (`RemoveFirstFacts`, `TrimFacts`, `MapMessageFacts`, `ApplyBatchFacts`); `EngineStep` is the step of an engine that gives out ids, as a translation or an action does.
From it follow `MapsAgree` (`IdMapAgrees`) and `IndexesAgree` (`MessageIndexesAgree`), for any number of messages, quotes, tasks, windows, crashes and snapshots.
TLC checked `HotInv` under the bounds of `hot_storage` (3,173,926 states without the VIEW).

`FoldTheorems` has what those proofs need of `FoldLeft`, which evaluates a whole trimming, batch or replay: that a fold over the empty sequence gives its base, over an appended
one applies the operator once more (`FoldOfAppend`), and that what the base satisfies and the operator preserves holds of the result (`FoldInduction`). The operator and the property are CONSTANTS of the module: a
theorem with an operator parameter cannot be instantiated by the installed provers, but an INSTANCE of a module can. `HotStorage`'s five folds are five instances (`Puts`, `Trims`, `Records`, `Batches`, `Makes`).

Only model-checked: the liveness properties and everything about ENABLED, which are out of the prover's reach. Every invariant that a run checks is stated by a theorem.

## 7. Not modelled

See the components in `PROJECT.json`, which say of each part what is left out. In short:

- Conversions and static tables (codec, catalogue, the text of messages): no state.
- Ciphers and media formats: data that TLC cannot enumerate; their effects on control are modelled.
- Login, history, the caches of rooms and users of the REST client: requests and answers without an interleaving to get wrong.
- Legacy JSON stores: loaded once, synchronously, for migration.
- Power failures: the code never calls `fsync`, and the models kill processes only.
- `restart_connections`, and a `stop()` that raises, in `RuntimeLifecycle`; the installation of plugins from archives; uploads of the WebUI's file
  manager, and the pages that only read.
- The heartbeat task of a websocket peer as a task of its own (`websocket_peer.py:259`): heartbeats come at any time instead.
- The instance lock (one system call), logging, bundled plugins, developer tools.
