# A verification development of CyberCompanion

CyberCompanion (`src/`) is a QQ bot written in Go that runs for months on a small device: messages
come in over a websocket, a language model answers with the help of a memory, plugins and external
tools, and the answers go out through a send queue. It is one process, some dozen goroutines, one
SQLite file and a few JSON files. This directory holds TLA+ modules of its stateful parts, the TLC
runs that check them on small instances, and the TLAPS proofs of what matters most for instances of
every size. `PROJECT.json` lists, in a form a tool can read, the components, the runs, the source
lines of every definition, the hazards, the finding and the theorems.

To check a run or a proof:

    tlc -workers 2 -config SendQueue.cfg MCSendQueue
    tlapm DeliveryProofs.tla

## 1. The system: components, state, interaction

| component | source (`src/internal/`) | state it keeps | operations | module |
|---|---|---|---|---|
| Send queue | `qq/sender.go` | a bounded channel (256), an attempt counter per entry, the count of drops, the stop channel | enqueue, deliver with retries, drain, `StopSender` | `SendQueue` |
| Circuit breaker and retries | `llm/retry.go`, `llm/endpoint.go`, `llm/client.go`, `llm/stream.go` | one breaker per endpoint and one global one: failures, `openUntil` | `allow`, `fail`, `success`, `recordOpen`, the retry loops | `Breaker` |
| Conversation contexts | `qq/session.go`, `qq/agent_bridge.go` | a map under one mutex, a dirty flag, `sessions.json` | read, record, evict, clear, save, load | `SessionStore` |
| Scheduler | `scheduler/*.go`, `store/personas.go`, `plugin/remind.go` | the table of tasks; the batch the goroutine is at | tick, render, send, mark; remind, cancel, edit, switch, delete | `Scheduler` |
| Gateway | `qq/bot.go` | the connection, the backoff, the token cache, goroutines per connection | connect, identify, heartbeat, close, reconnect | `Gateway`, `Process` |
| Passcode limiter, owners | `qq/bot.go`, `store/users.go`, `config/config.go` | attempts per speaker, `config.Owners`, `users.role`, `owners.json` | allow, compare, fail, grant, set role, import, purge | `Access` |
| One message, engine, gates | `qq/bot.go`, `agent/engine.go`, `agent/gate.go`, `stickers/marker.go`, `qq/text.go` | per message: text held back, calls and keys found, what was sent | decide, `Run`, `Feed`, `Flush`, cut, record, archive, stickers | `Turn`, `Markers` |
| Group policy | `qq/group.go` | send times per group | `Allow`, collection of old groups | one choice in `Turn` |
| Memory | `memory/memory.go`, `store/memories.go` | the table of memories, an in-flight mark per owner | recall, extract in the background, add, forget, limit, decay | `Memory` |
| Tables | `store/*.go` | SQLite behind one write mutex | single statements | with their callers |
| Plugins | `plugin/*.go` | a registry behind a lock | call, enable, permissions | `Turn`, `Scheduler` |
| Provider | `provider/*.go` | none | resolve a purpose to an endpoint | - |
| MCP | `mcp/*.go` | per server: the table of pending requests, the pipes, the closed flag | start, call, read loop, watch, close | `Mcp` |
| Stickers | `stickers/*.go`, `qq/sticker.go`, `imagehost/` | the library and its file, pictures, a cache of uploads | upload, promote, edit, delete, load; pick, send in two steps with fallbacks | `Stickers` |
| Configuration | `config/*.go` | the current configuration, its file and the backup | load, update, persist with backup | `Config` |
| Panel | `web/*.go`, `api/*.go`, `qq/service*.go` | login sessions, misses per address | first setup, login, settings, logout; the calls of the services above | `Panel` |
| Process | `cmd/cybercompanion/main.go` | the root context | start, maintenance every 6 h, shutdown in order | `Process` and the stages in their modules |
| hal, Android, scripts | `hal/`, `android/`, `scripts/` | none | reads of the OS, packaging | - |

**How they interact.** A message arrives at the gateway, which starts a goroutine for it (`go
handleIncoming`), so nothing orders two messages of one user. The handler may spend its message on the
passcode (limiter, then `grantOwner`: configuration first, database second). Otherwise it reads the
conversation's history (session mutex, released), lets the engine ask the model (minutes; breaker,
retries, plugins, servers of tools), records the turn (session mutex again), enqueues the parts of the
answer one by one, picks stickers, and may start an extraction of memories in the background, which asks
the model again. The scheduler's goroutine reads due tasks, renders each through the model or a plugin,
enqueues the text and writes the next run back. The panel edits tasks, users, memories, stickers and the
configuration at any time. At a signal `main` shuts the panel down, cancels the root context, waits for
the scheduler, then for the send queue's drain, then for the session store; message handlers are not
awaited by anyone.

**What is hard.** Everywhere a value is read, a model or a platform is asked for seconds or minutes, and a
conclusion is written back. Queues and maps have limits that real traffic reaches. Retries go through the
same channel as first tries. Child processes and remote servers answer late, twice or never. The clock is
read several times in one round, and hours of the day wrap at midnight. A stream is cut into pieces
anywhere, also inside a mark. The stages of the shutdown can be handed work by goroutines that go on. A
file or the database may refuse a write, and the process may die between any two steps. `PROJECT.json`
lists each place with its line under `hazards`, with the properties that watch it.

**What makes each component correct.**

- *Send queue*: no message vanishes uncounted, none is tried more than three times or after its verdict,
  a stop drains what came before it, and no message is stranded; the parts of one answer arrive in order.
- *Breaker*: an upstream in trouble is spared, the breaker opens for cause and recovers, every call
  returns, and a stream that has shown text is not started over.
- *Contexts*: no turn is lost except by a limit, what was cleared stays cleared, eviction takes the
  oldest conversation, and what is not marked as unsaved is in the file.
- *Scheduler*: no due time is answered twice or stays due for good, a task put off comes after the quiet
  hours, a task that was switched off stays off, `Stop` returns.
- *Gateway*: a lost connection is followed by another attempt, the context stops the loop wherever it
  waits, and the goroutines of a connection end with it.
- *Limiter, owners*: guesses at the passcode are bounded although handlers overlap, ordinary chat does not
  lock an owner out, a role that was written stays, and whoever was told to be an owner is one, also after
  a restart.
- *One message*: what the user sees of a streamed text does not depend on how it was cut; each part is
  sent once; the user hears something; a long text is cut without silent loss.
- *Memory*: no two rows of an owner say the same, the limit removes the least important rows, the decay
  halves once per half-life and spares what is in use, the mark of an extraction goes.
- *MCP*: every call returns, by its timeout at the latest, with its own answer or an error, no caller waits
  for the reader that waits for it, late answers are dropped, the start of a server is decided.
- *Stickers*: no entry loses its file, the cache never shows another picture than the one
  picked, also after an edit, no fallback sends a copy.
- *Configuration, panel*: what was acknowledged is on disk; there is one first setup; whoever is logged
  in knows the password.

## 2. Modules, and how they correspond to the code

Every module of a component declares its constants with a named `ASSUME`, its state as VARIABLES, one action
per critical section or step of the code, a type invariant, its properties, and, where it is proved about, the
parts of `IInv`, the inductive invariant. `MCX` instantiates `X` for TLC, `XProofs` holds its theorems
(`DeliveryProofs` those of `SendQueue`, `Stickers` and `Turn`, `PanelProofs` those of `Panel` with the actions
of `Config`). Each module also defines a few *slips*: forms of an action with a plausible mistake (a missing
check, a swapped order), which nothing uses. They record which property notices which mistake: `PROJECT.json`
pairs them under `mutants`, and with a slip put in place of the action it belongs to, TLC finds that property
violated. History variables (marked *history*) observe; no guard reads them.

How the modules are composed: `Turn` EXTENDS `Markers`; `Panel` and `Gateway` EXTEND `Config`, and
`Process` joins `Config`, `Gateway` and the signal; `SendQueue` implements `Outbox`, `Mcp` implements `Rpc`.
The others meet only
where one calls the other, and there the caller's module has the callee as a step that may succeed or fail.

### Outbox, SendQueue (`qq/sender.go`)

`Outbox` is what the queue promises to those who hand it a message, without channel, worker or
retries: a message is refused or waits, and what waits gets one verdict that never changes.
`SendQueue` is the code: `queue` is `sendQueueCh`, `hand` the entry the worker has received,
`worker` the place in `sendWorker` (the select, the drain loop, returned), `stopping` the closed
`senderStop`. `Enqueue` is one `enqueue` of a part of a reply, allowed after the stop as in the code;
`Take` one receive, with the waits for `notBefore` and `sendMinInterval`, which only delay;
`DeliverOk`, `GiveUp`, `Retry` are the three ends of `deliver`. `TryPut`, the non-blocking send with
the drop counter, is shared by `Enqueue` and `Retry`, as in the code. `Exit` covers both ways
`StopSender` returns. `Abs` is the refinement mapping into `Outbox`.

### Breaker (`llm/retry.go`, `llm/endpoint.go`, `llm/client.go`)

A call is a program counter per caller: `Begin`, then `Admit` or `Reject` (one `allow`), the request
outside the mutex, `Succeed` or `Fail` (one critical section), `Wake` after the backoff. Both entries
are in one module: a call on `Global` is `CallLLMWithRetry`, one on an endpoint is
`CallEndpointWithRetry`, which alone reports a refusal (`RecordOpen`, a critical section of its own) and
streams. `Kinds` and `Retryable` are what a failed request is put down to and what of it is tried again;
`DoCall` and `CallEndpointStream` say whether a failure may come after some text. `Healthz` is the read of
`/healthz`, which goes through `allow` and so changes the state. `cooldown` is `openUntil` as remaining
ticks; `failures` saturates at the threshold, the only value it is compared with.

### SessionStore (`qq/session.go`, the ask-record path of `qq/agent_bridge.go`)

A turn (one `recordSession`) is numbered by the moment it is recorded, so a conversation is a set of turns,
its `LastSeen` the newest of them, and what has outlived the TTL is what is not above `horizon`. `Ask` reads
the history before the model is asked, `Answer` records after it, `Clear` is a persona switch. `Save` takes
the snapshot and resets the dirty flag under the mutex, `Write` replaces the file after letting it go, and may
fail. `limit` and `removed` (*history*) are how many turns each answer let stay and what was recorded before a
context was last taken out of the map. `Cancel`, `LastSave`, `StopSessionStore` and `Exit` are the shutdown in
`main`'s order; `Restart` is a start after an exit or a crash at any point.

### Scheduler (`scheduler/scheduler.go`, `store/personas.go`, `plugin/remind.go`, the panel)

`step`, `batch`, `cur`, `plan` are the goroutine inside `tick`; `rows` is the table. `Tick` reads the due
tasks longest overdue, `Begin` computes the next run of one of them from the row as it was read,
`Defer` reads the clock again, `Render` may fail, `Mark` writes back whatever the row has become
meanwhile. `Remind` (for `RemindTimes`, what a time phrase can come to) and `AdminSchedules` (save, switch,
delete) are the users' statements at any moment. The clock counts hours, and the day has `Day` of them;
the time expressions are computed (`NextRun`, `InQuietHours`, `QuietEnd`), not chosen.

### Memory (`memory/memory.go`, `store/memories.go`)

The memories of one conversation partner. `rows` is the table, `pc` the place of each writer: the
goroutines of `RememberAsync` (`Extractors`; `inflight` is the entry of the `sync.Map`) and the panel's
`AddManual`. A statement is one action and everything longer is not: `Select` and then `Insert` or
`Update` are one `AddMemory`; `Count`, `List` and one `DeleteLast` per row are `enforceLimit`; `Maintain`
reads all rows and `DecayMemory` writes one after the other. `Recall` touches what it returns, `Forget` is
the plugin, `AdminMemories` the panel, `Fail` an error of the model or of a statement wherever the writer is,
`Restart` a crash. Importance is a small number on a logarithmic scale, on which one tick of age costs one
level; the code's real numbers, categories and its threshold of 0.01 for writing are not kept.

### Access (`qq/bot.go`, `store/users.go`, the owners of `config/config.go`)

A handler's message: `Arrive` resolves the role, `Ensure`, `Insert`, `TouchUser` register the speaker,
`NotCompared` and `Compare` are `allow` with the comparison behind it, `CountMiss` is `fail`, `Reset` the
success; `AddOwner` and `AddOwnerFails` write the configuration and the owners' file, `GetRole`, `Create`,
`UpdateRole`, `Record` are `SetRole` statement by statement, for handlers and for the panel; a handler whose
`SetRole` returns without an error tells its speaker (`told`, *history*), whatever the `UPDATE` has met.
`Tick` and `Collect` are the window and `gc`, `Purge` the maintenance, `Restart` a crash with `ImportOwners`,
which may stop half way. `entries` is the limiter; ages and locks are counted in ticks of the window.

### Markers, Turn (`agent/gate.go`, `stickers/marker.go`, `qq/text.go`; `agent/engine.go`, `qq/bot.go`)

`Markers` are the pure functions: a text is a sequence of symbols of a few kinds, of which half an opening
is one, so that a piece of a stream can end inside it. `Feed` is a round of either gate (the loops in
`Gate.Feed` and `MarkerFilter.Feed`), `ExtractCalls` and `ParseMarkers` the parsers of whole texts that
they must agree with, `SplitMessage` the cutting of long texts with its notice, `StreamCut` the search for
the end of a sentence in what a stream has let through. Loops of the code are recursive functions of one
argument (`Segments` takes the parts so far and the rest as a pair), because that is the form of recursion
that can be proved about.

`Turn` is one message from its arrival to its last sticker, with `pc` for the place in `handleIncoming`.
`Ignore`, `Command`, `QuickCommand` and `Chat` decide; `Delta` brings a piece of a stream through both
gates, `Flush` ends it, `Unstreamed` is the answer of a server that does not stream, `Answer` and
`PlainAnswer` the whole answers; `RunCall` executes one call, `AnswerAgain` asks the model about what was
found; `FinishStream` and `FinishWhole` record the turn, `Archive` stores it, `TryKey` and `TryScene` send
stickers, in a stream by two dispatchers at the same time. `Say` is the rule that an empty text is no
message. The names begin with `Turn` (`TurnInit`, `TurnNext`, `TurnSpec`, `TurnTypeOK`, `TurnIInv`), as those of
`Stickers` do with `Stickers`, so that one module can hold the theorems of all three.

### Rpc, Mcp (`mcp/client.go`, `mcp/manager.go`, `mcp/bridge.go`)

One server. `Begin` registers a request (id, channel, table) and `Lock`, `Write`, `WriteFails` are the
write to the pipe under `Client.mu`, which a full pipe keeps for as long as it is full; `Receive` and
`Timeout` are the two ends of the wait. `Scan`, `Take`, `Deliver`, `ReadEnds`, `ReaderFails` are
`readLoop`, which takes the same mutex between the pipe and the channel; `Reap` and `WatcherFails` the
goroutine around `cmd.Wait`; both fail what is pending. `Ask` ... `Register` and `StartFails` are
`startOne`; `CloseBegins`, `Kill`, `CloseReturns` are `Close`. The server reads, answers in any order,
late, twice, too long, or exits. `Rpc` is what `call` promises, without ids, table, pipes and server:
a call that is made ends once, with its own response or an error.

### Stickers (`stickers/stickers.go`, `stickers/imagehost_bridge.go`, `qq/sticker.go`)

The library: `SaveMedia` and `AddUpload` (the picture, then the entry), `Look`, `HostAnswers`, `Promote`,
`DropLocal` (the promotion: snapshot, upload without the lock, a second look, the local file last),
`AddLink`, `Update`, `Delete`, `UpdateSettings`, `Restart` with `Load` and its clean-up. The delivery: `Pick`
builds the payload, `Lookup`, `PostCached`, `Upload`, `Post`, `OneShot` are the attempts in the code's
order, `Settle` the queue's retry. A picture stands for its bytes, and `Fingerprint` is a function of it that
need not tell two pictures apart: the code hashes its length and its first and last 64 bytes. `Key` is the
cache key: the link, or the fingerprint. An id that was deleted may be given again, as the HTTP API allows
(`Add` takes one from its caller); the panel's uploads get a random one. `MayStay` and `Evict` are what the
eviction may leave of a full cache: what has expired goes, and half of the rest if that is not enough.

### Config, Panel (`config/config.go`, `web/server.go`, `web/auth.go`)

`Config` is one value behind a lock, its file and the backup: `Update` changes memory, `WriteBackup` and
`WriteFile` are `persistLocked`, `WriteFileFails` its error, `LoadConfig` the start, `Dies` a crash,
`Repair` a person. In `Panel` requests overlap: `SetupArrives`, `SetupClaims`, `LoginArrives`,
`LoginCompares`, `Open`, `EditArrives`, `Edit` with the guard's `Fail` and `Reset`; `Saves` and
`SaveFails` continue the request whose update it was.

### Gateway, Process (`qq/bot.go`, `main.go`)

`Top`, `Wake`, `Auth`, `Ask`, `Dial`, `Hello`, `Identify`, `Lost`, `ReadFails` are the loop of
`StartBotGateway` and one `runGatewaySession` in it; `HeartEnds` and `CloserEnds` the goroutines a session
has started and does not wait for, so that those of the last one may still be there when the next one
begins (`Slots`). `Process` adds the start, the panel's updates, the signal (`Cancel`) and a crash.

## 3. The runs

| run | instance | what it shows |
|---|---|---|
| `send_queue` | 2 replies of 2 parts, room for 2, 3 attempts | first tries in order, the drain complete, verdicts reached; `ImplementsOutbox` |
| `breaker` | 2 callers, the global breaker and one endpoint, threshold, window and attempts 2 | upstream spared, global breaker for cause, one answer shown, recovery, every call returns |
| `sessions` | 2 handlers, 2 conversations, room for 1, guests 1 turn, owners 2, 2 turns in all | no turn lost, also by two handlers that both found nothing, cleared (expired, evicted) stays so, clean means saved, turns reach the disk |
| `scheduler` | 2 tasks, 4 expressions, one task per round, a day of 3 hours, quiet from 2 to 1, 3 hours | one run per due time, put off past the quiet hours, due times served, `Stop` returns |
| `memory` | 2 extractions, 2 contents, room for 1, a page of 2, 2 rows ever, 2 ticks | no memory extracted twice, limit kept, decay spares what is used, the mark goes |
| `access` | 1 user, 2 handlers and the panel, limit 2, window 1, lock 2 ticks | guesses bounded, roles kept, grants durable: told or owner by passcode is named in a file |
| `mcp` | 2 callers and the start, 2 tool names of which one is taken, pages 2, pipes of one line, 5 calls of tools | nobody waits for the dead; the start decided and calls return unless a write blocks for ever; `ImplementsRpc`: own answers, one end per call |
| `turn` | all answers of up to 3 of 9 fragments, in pieces of up to 3 symbols, second answers of up to one fragment, messages of 2 symbols, 2 of them | stream and whole agree, parts sent once, whole answers, honest cuts |
| `turn_crash` (violation) | the same with 2 fragments | the finding of section 4 |
| `stickers` | 1 id, 2 files of one fingerprint, 1 request of the panel, cache of 2, 2 tries of the queue | files kept, cache shows nothing but what shares the key, one copy unless an answer was lost |
| `panel` | 3 requests, 2 passwords, 2 credentials, 2 misses | one setup, acknowledged on disk, sessions know the password |
| `process` | 2 connections, 2 Hellos each, 1 request | the loop goes on and ends when told, goroutines end with their session |

The type invariants are not in the runs: those of the components with proofs are theorems, and `TurnTypeOK`,
of which the proofs need only the part in `DataOK`, and `Process`'s `TypeOK` were checked on the same
instances by adding them to the cfg. So was `IInv`, the inductive invariant of each module that has one
(`TurnIInv` in `Turn`); that of `Stickers` also, for the library alone,
with two ids, two requests and two files, where entries and requests can collide.

**Why the bounds are enough to mean something.** The queue of two is filled by either reply alone, so both the
enqueue and the retry meet a full channel. With threshold and attempts 2 one caller's retry meets the breaker
the other caller has just opened. With room for one conversation every answer in the other one evicts, and a
guest's second turn cuts his first; two handlers that have both found a conversation empty need two turns to
lose one, and the theorem has no bound. The scheduler's day is three hours with quiet hours from 2 over
midnight to 1, the shortest day on which all four cases of the quiet hours differ, and with a limit of one
task per round one of two due tasks must wait. The memory's limit of one is passed by every second memory; a
page of two holds all rows, which is what `LimitKept` is about. In `access` two handlers and a limit of two
let one comparison more pass than the limit, and a lock outlives a window; two users meet only in the sets of
owners, which are written whole. In `mcp` a pipe of one line is full after one request the server has not
read, while another caller waits for the mutex and the reader for the same; five calls of tools leave a
caller's late answers to meet its later calls. The answers in `turn` contain every whole mark, every half of
one and marks inside marks, even a call that appears when the one inside it is taken out; the limits on keys
(1), calls (2), message length and messages (2) are passed by some of them, and the four thresholds of the cut
are four different lengths. In `stickers` the one request of the panel overlaps every step of a send, and
promotion, deletion and a new upload of the same id follow each other while a sender holds the old payload,
and the two files share a fingerprint, which is the harder case. In `panel` one request holds the lock, one
waits for it and one has read before it. In `process` the goroutines of one connection meet the session on the
next.

Bounds that exist only in the model: `MaxTurns` (turns recorded in all), `MaxIds` (rows
inserted in all), `MaxTime` (the clock stops), `MaxCalls` (calls of tools in all), `MaxHellos`, the sets of
texts of `Turn`. The proofs need none of them.

**Deadlock** is checked in `send_queue`, `breaker`, `scheduler`, `memory`, `access`, `panel` and `process`.
In `sessions` and `mcp` the bounded number of turns or calls and the end of the process leave the system
without a step; a `turn` ends; and `stickers` can really stop, see section 4.

**Symmetry** is used only in runs without liveness (`access`, `stickers`, `panel`), over users' messages,
ids, files, requests, passwords or credentials, of which no definition singles one out (`Alike`
gives both files one fingerprint).

**Fairness.** Only what the Go scheduler and the code's own timeouts guarantee: the worker of the queue
runs on (`WF_vars(Worker)`: its waits are finite, the HTTP client has a timeout); a started call of the
model runs on and time passes; the saving goroutine's ticker fires and its writes end; the scheduler's
goroutine goes on; a started extraction ends (the model's request has a timeout, the statements are local).
In `Mcp` callers, reader, watcher, the start and the closing go on and a wait has its timeout; of the
server, a foreign program, nothing is assumed: it need not read, answer or exit. Weak fairness of the mutex
is enough because the calls are bounded, and Go's mutex starves nobody. `OnlyWritesBlock` and `StartDecided`
therefore have the one way out that the code leaves: a write that waits at a full pipe for ever. In
`Process` the loop goes on with strong fairness, because it needs the lock for reading, which others take
again and again, and Go's `RWMutex` lets waiting readers in before the next writer; heartbeats, closers
and saves go on. No fairness is put on producers, users, `main`, servers' answers, or on a
delivery, a request, a rendering, an extraction or a write being *successful*.

## 4. What the code does otherwise than it says, or than one would expect

**A finding with a run.** `turn_crash`: a stream without any punctuation whose unsent part is exactly
`hardCapRunes` (160) characters long makes `FindStreamSentenceCut` (`text.go:206`) look at the character
after its end. The goroutine panics, nobody recovers, and the process ends.

The following were found with the models as well. Each is a definition of its module that TLC
refutes when its name is added to the module's cfg (an invariant, or under PROPERTY an action or temporal one):

- `SendQueue`, `ConversationOrder`: a failed part goes to the tail of the queue (`sender.go:164`) and later
  parts of the same reply overtake it; the comment at `sender.go:24` promises the order of a conversation.
  `FirstTriesInOrder` is the order that does hold.
- `Breaker`, `EndpointOpensForCause`: a refused request counts as a failure of the endpoint's breaker and
  restarts its window (`endpoint.go:184`), so steady traffic keeps it open without a request;
  `CHANGELOG.md:130` says 60 seconds. The global breaker does not do this: `GlobalOpensForCause`,
  `GlobalRecovers`.
- `SessionStore`, `StopSaves`: the saving goroutine saves and ends when the root context is cancelled
  (`session.go:167`, `main.go:297`), before the queue drains; turns recorded after that are not saved,
  although `StopSessionStore` is documented to save at once (`session.go:175`, `main.go:302`).
- `Scheduler`, `SwitchedOffStaysOff`: the next run is written with `enabled = 1` (`personas.go:378`), which
  switches a task on again that was switched off or cancelled during its rendering (`personas.go:387`,
  `remind.go:179`).
- `Memory`, `HalfLifeKept` (with `Top` = 3, `HalfLife` = 2, `MaxTime` = 3): each maintenance lowers the stored
  importance by the factor of the whole age since the last use (`memories.go:535`), though earlier ones have
  taken most of it already; the comment at `memories.go:534` says that a half-life halves. With the code's
  numbers and four maintenances a day an unused fact is halved after about 8 days (half-life 120), an event
  after 3 (half-life 14).
- `Access`, `OwnersUseNoAttempts`: every message of an owner is compared with the passcode and counts as a
  miss, as does every message of at most 64 characters of anybody else (`isPasscodeAttempt`), so that
  ordinary chat uses up the attempts; the comments at `bot.go:919` to `923` say that owners use up none.
- `Mcp`, `CallsReturn`: a request is written under `Client.mu` and without regard to the call's context
  (`client.go:256`), although `README.md:344` and `config.go:107` call `call_timeout_sec` the timeout of a
  single call. When the server does not read and its pipe is full, the writer waits past its timeout, and so
  does every other caller, which needs the mutex to register, to write or to leave (`client.go:242`), and the
  reader, which needs it to deliver (`client.go:193`). A server that waits until its own output is read then
  never reads again. In TLC's counterexample the reader has ended on a line that is too long, which leaves the
  server's output full, one caller waits in its write, and another, whose timeout is over, for the mutex. Only
  the end of the process or of its pipe resolves it. `OnlyWritesBlock` says that nothing else keeps a call.
- `Access`, `ToldIsOwner`: the speaker is told to be an owner whenever `SetRole` returns no error
  (`bot.go:246` to `252`), also when its `UPDATE` (`users.go:118`) met no row because the purge came
  between, or when the panel has set another role meanwhile. What does hold of everybody who was told is in
  `GrantDurable`: the name is in a file, from which the next start imports.
- `Stickers`, `EditedPictureShown` (with `Fingerprint <- Alike`): the fingerprint in the cache key
  (`sticker.go:84`) is the length and a hash of the first and last 64 bytes, and the comment at
  `sticker.go:67` says that it is there so that an edit shows at once. Two pictures alike in these share a
  key, and under one id the platform's handle of the former is sent for the new one until it expires. It takes
  an id that is deleted and given again (`POST /api/stickers` with an id, `stickers.go:557`).
  `CacheShowsPicked` is what holds in any case. With `Fingerprint <- Different`, where no two pictures share
  one, the same instance satisfies `EditedPictureShown`, and section 5 has the theorem.
- `Stickers`, `NeverStuck`: `Delete` (`stickers.go:727`) and `Load` (`stickers.go:245`) log while they hold the
  write lock, and `logMessage` (`stickers.go:168`) asks for the same lock to read: when a picture cannot be
  removed, or the save at the start fails, the goroutine waits for itself, and so does everybody who
  picks a sticker after it. The comment at `stickers.go:835` names this danger for another function.
- `Turn`, `ReplyArrives`: when a server answers a streaming request with a whole answer,
  `readNonStreamFallback` never calls `onDelta`, so nothing is sent, although the comment at `bot.go:554`
  describes exactly this as what must not happen (`README.md:285`).

Seen while reading and modelled, without a property of their own:

- The owners' import at the next start makes a user an owner again whom the panel had demoted in the table
  (`users.go:307`); `RoleKept` therefore counts an import as a role that was written.
- A cached handle of a sticker is found under the link alone, so that behind a link an earlier local copy may
  be shown; a TTL of 30 seconds or less is taken for five minutes; `OneShot` sends the link whatever the mode;
  the third way of getting at the bytes is never reached.
- A request that timed out after the platform had accepted it is sent again, for texts and stickers alike.
- A `config.json` that does not parse is fatal at the start, although `LoadConfig` has recovered the
  backup (`config.go:452`); a save over a broken file copies the broken content into the backup.
- A setup whose save failed leaves its password in memory: the panel takes it until the next start, and the
  next successful save stores it. The same holds for any edit whose save failed.
- The token of the QQ platform is kept when the credentials change, although `README.md:275` says that
  changes take effect at once; so does the session that is open.
- The backoff of the reconnect loop is never reset (`bot.go:634`, `641`): `runGatewaySession` returns no nil.
- A search's answer drops `Extra`; sticker keys found in the first answer are lost when there is `Extra`.
- The engine takes the calls out of a whole answer in one pass, and taking one out can put another together
  (`[[能力:x]能力:y]` leaves `[能力:y]`). It stays in the text, and `handleIncoming` takes it out (`bot.go:355`),
  uncalled and after the last place where an empty answer would be replaced: nothing is said. In a stream the
  user is shown it. `WholeAnswers` exempts it (`Regrown`): the attempt to prove the property without the
  exemption found it, and TLC the answer once the fragment was among its texts.
- Two MCP servers of one name: the manager forgets the first client (`manager.go:165`), which nobody closes.
  `cmd.Wait` may close the pipe before all answers were read.

Seen while reading and outside the models: heartbeat, closer and session write to one websocket without a
lock (`bot.go:762`), and the library panics when it notices; a connection has no read deadline; `config.Get`
is called a deep copy and is not one for every field; the `-port` flag is written into the shared
configuration; edits of `config.json` by hand while the program runs are overwritten by the next save; the
settings of the stickers are read, merged and written in separate steps, so that one of two concurrent
edits is lost; the comment of `enforceLimit` (`memory.go:349`) says that the limit weighs category and
recent use, while the list it cuts is ordered by importance and age (`LeastGo` states the code's order).

## 5. What is proved

The theorems hold for every value of the constants that satisfies the module's named assumption.
In each `XProofs` module the argument is the same: `Init => IInv`, `IInv /\ [Next]_vars => IInv'` (one
step per action, under it one per conjunct the action can disturb) and `IInv =>` the property. `IInv` was
also checked with TLC on the small instances.

- **DeliveryProofs**, `SendQueue`: `TypeCorrect`, `AttemptsBoundedCorrect`, `DrainCompleteCorrect`,
  `DropsCountedCorrect`, `FirstTriesInOrderCorrect`, `Refinement`. The properties speak of verdicts and
  counts, the code only of an entry's own counter; what connects them is `EntryOK` (an entry's counter is
  the number of real attempts, and it has no verdict) and `NoRepeat` (no message is in the channel twice,
  or in the channel and in hand), without which a second copy could be tried on. `OrderOK` is about the
  messages never tried: they wait in their order although retries go between them, because a retry has
  been tried. The drop counter is the size of a set, what was handed over and neither waits nor has a
  verdict; each step adds at most one message to it. The refinement (`ImplementsOutbox`) is one lemma per
  action on what it does to the status of every message.
- **DeliveryProofs**, `Stickers`: `StickerTypesCorrect`, `FilesKeptCorrect`, `LoadDropsNothing`,
  `CacheShowsPickedCorrect`, `EditedPictureShownCorrect`, `OneCopyUnlessLostCorrect`. `FilesKept` is far from
  inductive: a deletion or a promotion removes a file, so one must know that no other entry has it, and that
  no upload under way will name it. `LibraryOK` says that memory and file agree, that an entry, local or not,
  names only a file that exists, and that two entries name none in common; `RequestOK` says what the request
  of a promotion may rely on although it has let the lock go (until its link is stored the file is named by
  its own entry at most, from then on by none), and `RequestsOK` that two requests share neither id nor file.
  From `LibraryOK` also follows `LoadDropsNothing`: `normalizeStore` finds nothing to drop, at no moment a
  crash could choose; it guards against edits by hand. `CacheOK` is about every payload with the key of a
  cached handle, for the key forgets the bytes behind a link, and of the others it keeps the fingerprint only;
  that two payloads with one key may show the same (`OneKey`) is the reason why `Store` and `Lookup` may use
  it. Nothing is assumed of `Fingerprint`, but in `EditedPictureShownCorrect`, which has it tell all pictures
  apart as a hypothesis: the code's does not, and the theorem says what would be had from one that does.
  `SenderOK` says what the sender has in its hands at each place and that, with no answer lost, the copies in
  the chat are decided by the result alone.
- **DeliveryProofs**, `Turn` and `Markers`: `FeedJoined`, `FinishIs`, `SplitHonest`, `TurnInductive`,
  `StreamAgreesCorrect`, `SentOnceCorrect`, `WholeAnswersCorrect`, `SegmentsHonestCorrect`. First what the
  recursive functions compute for every text. `FeedJoined`: a text that comes in two pieces lets through
  and keeps back what it would as a whole, for the gate of calls and for the filter of stickers. `FinishIs`:
  what the filter has shown, with what it lets go at the end, is the whole text without its markers.
  `SplitHonest`: the messages of a text are few and bounded, and hold all of it, or its beginning and the
  notice. Each is an induction over the length of the text, made without an induction theorem: of the
  lengths at which the statement fails, a set of numbers, there would be a least (`Least`, from the
  library's definitions), and the step rules it out; `ByLength` carries it to texts. Then the protocol.
  `StreamAgrees` is not inductive: what has been shown says nothing of what comes next unless one knows what
  both filters keep back. `FilterOK` says that they are at every moment where one pass over the whole
  text so far would have left them (`Heard` is what the gate has passed on), which `FeedJoined` preserves
  with every piece, and `FinishIs` ends. `SaidOK` gives `SentOnce`. `WholeOK` says where a whole answer's text
  comes from (`Drawn`: an answer without its calls, or a phrase), without which nothing excludes an empty one.
  The assumptions, `MarkersAssumption` and `TurnAssumption`, say that the limits are positive and the texts
  are made of the symbols a server can write; how long, how many or in which pieces they come is free.
- **BreakerProofs**: `TypeCorrect`, `UpstreamSparedCorrect`, `GlobalOpensForCauseCorrect`,
  `OneAnswerShownCorrect`. `AdmittedOK` says that what got through has failed and is counted, or is still
  in flight; the bound follows because in flight are at most as many as there are callers. `GlobalOK`
  ties the window to the time since the last failed request.
- **SessionStoreProofs**: `TypeCorrect`, `NoTurnLostCorrect`, `ClearedStaysClearedCorrect`,
  `EvictsOldestCorrect`, `CleanMeansSavedCorrect`. `NoTurnLost` bounds memory from below,
  `ClearedStaysCleared` from above; what is inductive is the equation of both in `PastOK`: a context is exactly
  what was recorded since its last removal and no limit has cut off (`Kept`). `KeptNext` says that
  appending to it and cutting gives what is kept one turn later, `KeptSuffix` and `KeptAgain` that a part cut to
  its newest turns, as the file has it, is whole where it is loaded. `SavedOK` is the strengthening
  for the file: while nothing is dirty, the snapshot under way, or else the file, mirrors memory. The lemmas on
  `LastTurns` say what cutting twice does.
- **SchedulerProofs**: `TypeCorrect`, `OneRunPerDueTimeCorrect`, `PutOffPastQuietCorrect`. `TimesOK`
  says that a run begins no earlier than it is due and plans a later moment, and that a row no run works
  on is due only after the last run of its task began. `NextClock` is bounded by lemmas on `%`.
- **MemoryProofs**: `TypeCorrect`, `AutoRowsDistinctCorrect`, `LimitKeptCorrect`, `LeastGoCorrect`,
  `PruneSparesUsedCorrect`. `GateOK` (one extraction at a time) and `PanelOK` give `FreshOK`: between an
  extraction's look-up and its insert nobody else inserts an extracted row. `LimitOK` is the account of an
  enforcement: what is stored or still listed is at most the limit, the remaining excess and the late
  inserts, and what is stored but not listed came late. The lemmas `LimitShrinks`, `LimitGrows`,
  `LimitCounted`, `LimitListed`, `LimitDeleted` say how each kind of step changes it, with cardinalities.
- **AccessProofs**: `TypeCorrect`, `GuessesBoundedCorrect`, `RoleKeptCorrect`, `GrantDurableCorrect`,
  `FilesOnlyGrow`. The limiter counts a miss after the comparison, so the count lags behind the guesses.
  `CountsOK` gives the lag: in a window that is still open the guesses compared are at most the count and
  those of the handlers that have compared and not yet counted (`Uncounted`, a cardinality, at most that of
  `Handlers`); an entry at its limit is locked, and the lock outlives the window. That is where the assumption
  that a lock is longer than the window is needed. The lemmas say how a handler joining and
  leaving changes `Uncounted`. `FilesOK` says that a handler which is writing an owner's role into the table
  has put the name into a file before, and so that whoever is told has it there; the action property
  `FilesOnlyGrow` follows: no step takes a name out of both files. Of the table `RoleKept` says only that it
  keeps what was written: the panel may demote whoever was told.
- **McpProofs**: `TypeCorrect`, `OwnAnswerCorrect`, `NobodyWaitsForTheDeadCorrect`, `Refinement`.
  Not even the types are inductive alone: that the reader delivers under an id which was given out follows
  from where lines come from. `IdsOK` says that an id belongs to one call; `LinesOK` that every line from the
  writer through both pipes and the server to the reader's hand carries, with an id still in use, the call
  of that id, however often the server repeats it (`Moves` lists the ways a line can go); `BoxOK` that so
  does every channel. `WaitOK` says that a call has its entry in the table, its response, or the reader on
  the way to it, and that after the end of the process the table has only calls that have not written yet,
  whose write will fail. The refinement (`ImplementsRpc`) forgets all of this: a call ends once.
- **PanelProofs** (with the actions of `Config`): `TypeCorrect`, `SetupOnceCorrect`, `AckedOnDiskCorrect`,
  `SessionsCurrentCorrect`, `PasswordNeverChanges`. `SavingOK` says whose update the lock is held for,
  `MemoryOK` that memory never falls behind what was acknowledged, `RequestsOK` that a request about to open
  a session has the password of memory. `ClaimOK` is the heart: a request that has claimed the first
  setup is the only one, and either the save under way will write its password or the file has it; a claim
  whose save fails gives up, and its password in memory keeps others from claiming. The assumption
  `ConfigAssumption` says that a file that is missing or broken is not taken for a configuration.

`AttemptsBounded`, `DropsCounted`, `EvictsOldest`, `LeastGo`, `OwnAnswer` (a part of `ImplementsRpc`) and the
action properties `FilesOnlyGrow` and `PasswordNeverChanges` are proved and in no run.

**Only model-checked.** Liveness (`EarlySettles`, `GlobalRecovers`, `CallReturns`, `TurnsReachDisk`,
`DueServed`, `StopReturns`, `GateReopens`, `StartDecided`, `OnlyWritesBlock`, `GatewayGoesOn`, `SessionsEnd`):
the provers handle neither fairness nor `ENABLED`. Every safety property a run checks is a theorem.

## 6. What is not modelled, and why

- HTTP bodies, JSON, the QQ and model protocols' fields, prompts, wording, logging, metrics.
- Hardware probes, Android packaging, scripts, image processing and the import of archives: pure I/O.
- Encryption of secrets and the strength of passwords.
- The database engine: a statement is atomic, behind the write mutex of `store.DB`. A race on memory
  (two writers on one websocket) is not in a model either; section 4 names the one that was met.
- Resuming a gateway session (the code identifies anew each time) and the dispatch of events that are not
  messages.
- The group policy's words, draw and window: one map behind one mutex, one decision per message, which
  `Turn` leaves open.
- Permissions of single users, notes, listings; persona resolution and model routing, which are lookups.
- What a message enqueued after the worker's return becomes: the model allows it, nothing promises
  anything about it.
- How a memory search ranks and falls back, summaries, and which messages an extraction reads.
- The grammar of time phrases (`plugin/remind.go`) and the scheduler's global switch.
- The order of the shutdown's stages across components in one module: each stage is in the module of its
  component, and `StopSaves` is the place where the order shows.

## 7. Plan

The parts of the system with state and a protocol are modelled. What is left, in order of importance:

| module | next |
|---|---|
| a composition of the shutdown | stages over the abstract views of queue, sessions and scheduler: what is handed to a stage that has ended |
