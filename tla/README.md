# Verification of PandaWork

PandaWork (the `jai-mono` repository) is a local-first coding agent. A *Runtime
Host* process owns durable *Sessions* in SQLite. A prompt becomes an *Operation*:
it is admitted durably, a disposable Coding Agent executes it (model requests, tool
calls), and a terminal record ends it. The process may die at any await; what the
next Host does is decided by a pure reducer over the durable records. Around it are the Desktop,
which watches Sessions over ACP connections, the MCP servers that give an agent tools,
and a settings file that every process reads and writes.

This directory models the core and these three, checks them with TLC and proves with
TLAPS the safety properties that hold, but two; what is left to TLC alone is liveness,
and what the Desktop shows once nothing is under way.

## Inventory

Paths are relative to `src/`. *M* is modelled, *p* partly, – not (yet).

| Component | State it keeps | Operations | Must hold | |
|---|---|---|---|---|
| Operation recovery (`packages/agent/src/harness/operations`) | none (pure) | `recoverOperation`, `recoverSessionOperations` | the verdict follows from durable facts; writing it down changes nothing | M |
| Product Session Persistence (`app/server/src/persistence/sqlite/product-session-persistence.ts`, `app/server/src/sessions`) | operation records, entries, leaf, revision | `appendOperation`, `appendEntry`, `admitPrompt`, `load`, create, catalog, configuration facts | records are final; an entry append is conditional on the revision; one failed write leaves nothing | p |
| Runtime Host (`app/server/src/runtime/host.ts`, `RuntimeHost`) | live Sessions, controllers | `openSession`, create, delete, list, finalization of recovered Operations | one object drives a Session; the controller slot is neither stolen nor leaked | p |
| Runtime Session (same file, `RuntimeSession`) | queue tail, `#active`, `#suspended`, `#indeterminate`, `#closed`, approvals, usage | `prompt`, mid-run input, `cancel`, `close`, `completeOperation`, retry, navigate, compact, configuration, approvals | one Operation at a time; every end is decided; nothing is lost silently | p |
| Operation Driver (`app/server/src/agents/coding-agent.ts`, `packages/coding-agent/src/sdk/create-coding-agent.ts`) | the running agent, prepared options | `preflight`, `openOperation`, `abort`, `enqueueInput`, `awaitOutcome` | the outcome is the run's | p |
| Agent loop (`packages/agent/src/core/agent-loop.ts`, `core/agent.ts`) | active run, steering and follow-up queues, transcript | `advance`, `steer`, `followUp`, `abort` | abort ends the run; a tool runs at most once | p |
| Effect Boundary (`app/server/src/operations/effect-boundary.ts`) | attempts by entry, replies by tool call | `beforeModelEffect`, `afterModelEffect`, `beforeToolEffect` | intent before effect | M |
| Agent facade, Session handle and ledger (`packages/agent/src/harness`) | entry chain, revision, compaction | append, navigate, compact, app state | the chain matches the store | p |
| Local owner and launcher (`app/server/src/runtime/local-owner.ts`, `app/server/src/protocol/acp-v2/local-host.ts`, `launcher.ts`, the Desktop's supervisor) | lock file, endpoint | acquire, take over, listen, close, release; connect, replace, launch, retry | one Host per data directory, reachable; a dead one blocks nobody | p |
| Manual effect gate, file-mutation queue, event stream | small in-process queues | enter, release, cancel | order, no lost wake-up | – |
| Permissions and approval queue (`packages/coding-agent/src/permissions`, `host.ts` 1187–1228, 1778–1828) | the FIFO of each Operation, rules remembered for the Session, `#pendingApprovals` | enqueue, review, request, respond, recheck, remember, cancel | one request at a time, none left over; no tool runs without a consent that still counts | p |
| Background agents (`packages/coding-agent/src/runtime/background.ts`) | detached subagents of the Session | start, stop, notify | a child ends with its owner | p |
| ACP protocol (`app/server/src/protocol/acp-v2/agent.ts`, `local-transport.ts`) | per connection: `#sessions`, `#outbound`, pending client requests, the line of messages | resume with replay, prompt, navigate, cancel, close, permission requests, end of the socket | no update is lost, no answer misdirected, no lease left over | p |
| Desktop Agent client (`app/desktop/electron/agent/acp-host.ts`) | `#sessions` (projections), `#pendingPermissions`, connection status | open, prompt, navigate, abort, close, resolve a permission; notice, reconnect, rebuild | what it shows is what the journal holds | p |
| MCP runtime (`packages/extension/src/mcp/runtime.ts`, `extension.ts`) | `#servers`; per server client, attempt, timer, snapshot | `start`, `reconcile`, `discover`, `close`; connect, disconnect, retry | no server forgotten, none left running | M |
| Extensions, skills, subagents, todo, web search (`packages/coding-agent/src/sdk`, `packages/extension`) | registries, `#refreshRequested`, layered configuration | activate, refresh the tool catalog, dispose | the catalog is that of the servers as they are | p |
| Configuration store (`packages/coding-agent/src/config/store.ts`) | the settings file, its lock file, watchers, `lastValid` | `readScope`, `writeScope`, `writeScopeRaw`, `load`, `watch`, reload | no lost update; a reader ends with what is in the file | p |
| Model catalog, desktop catalog, session titles, statistics | files and tables | read, write with revision | no lost update | – |
| Daemon, server, desktop shell, CLI, connector, OAuth gateway, telemetry, provider adapters | vendor state | I/O and translation | – | – |

How they interact: an ACP connection calls `RuntimeHost.openSession` and then
methods of the `RuntimeSession`. Everything that decides about the Session goes
through its promise chain (`enqueue`); the run itself does not. `runOperation` opens
the driver, whose agent appends entries through a Session handle and records
through the Effect Boundary, directly to persistence. When the run ends
`completeOperation` joins the queue, re-reads the journal and writes the terminal
record. `cancel` of a live run aborts it without queueing. A tool call that must ask
goes from the permission middleware through the approval queue of its Operation to
`requestApproval` of the Session, which shows it to the client; the answer comes back
through the Session's queue. A detached subagent runs its calls through the same
middleware and queue, also after the run that started it has completed. All this
happens in one Host process per data directory: a lock file elects it, clients connect
to its endpoint and launch it when nobody answers.

A connection handles its lines one after the other, the user's answers included, and
holds notifications back while it handles one. The Desktop opens one connection after
the other and rebuilds its projection from a replay. An agent owns its MCP servers: a
change of the settings file is resolved and reconciled into them, and each change of
theirs makes the coordinator discover the tool catalog again. The settings file is
shared by the stores of all agents and settings pages; a lock file orders the writes,
file watchers tell the readers.

What is hard: up to four writers (run, mid-run input, completion, cancel) append
to the records of one Operation, at any await; the store accepts any record of an
accepted, unfinished Operation while the reducer refuses the whole Session if one
is out of place; an aborted run abandons a tool call that goes on; a Session can be
closed, reopened and recovered by another connection while all that happens; the
process can die anywhere; any write can fail. A notification, a replay and a lost
connection overlap; nothing serialises `reconcile` with itself or with `close`; the
settings file changes while its watchers are being replaced. `PROJECT.json` lists each such hazard
at its line.

## Modules

| Module | Models |
|---|---|
| `OperationRecovery` | the records and the reducer, as operators over a sequence of records |
| `OperationJournal` | one journal as its writers leave it, and `recoverOperation` read literally: the loop, its collections, its early returns |
| `SessionPersistence` | the journal, the entries of the current branch, the revision, and every transaction on them with its refusal |
| `OperationRun` | one execution: driver, agent loop, Effect Boundary, entry appends |
| `RuntimeSession` | Host, Session objects, their queues, clients, opens, crash; composes all of the above (`Next`, `Spec`, `FairSpec`) and states the properties |
| `OperationLifecycle` | abstract specification: what an Operation promises to a reader of the journal |
| `SessionApprovals` | the tool calls of a Session that must ask: middleware, approval queues, pending requests, client; beside the others, see below |
| `LocalHost` | the Host processes and clients of a data directory: lock file, endpoint, election, connect and replacement |
| `AcpConnection` | the connections of the Desktop, the Server at their other end, the client's projection and permission prompts, and what the Sessions publish |
| `McpRuntime` | the MCP servers of one agent, `reconcile`, the configuration watch, the catalog coordinator and disposal |
| `ConfigStore` | the settings file, its lock, the writers, and the watching store of an agent |
| `MC` followed by the name of a module | instances for TLC; `LocalHost` and `ConfigStore` are checked as they are |
| `ReducerSafety` (about `OperationJournal`), `RuntimeSessionSafety`, `ApprovalsSafety`, `LocalHostSafety`, `AcpConnectionSafety`, `McpRuntimeSafety`, `ConfigStoreSafety` | theorems and proofs |

The state is split by who loses it. `journal`, `entries`, `ending`, `revision`
survive a crash; everything of `OperationRun` (except `ran`, which counts effects
in the world) and of the Host is volatile. `ending[e]` is what
`terminalOutcomeForAssistant` computes from the message stored as entry `e`.

An `await` is where another step may come in between. So `completeOperation` is two
actions, `LoadForCompletion` (load, reduce, decide) and `FinishOperation` (append,
forget `#active`), with the decision carried in `work[s]`; `admit` is
`LoadForPrompt` then `AdmitPrompt`, the leaf it loaded in `work[s].leaf`; `cancel`
is `LoadForCancel` then `AbortByCancel`; mid-run input is `QueueInput` (record) then
`DeliverInput` (handing over, which inspects the run as it is by then); `openSession`
is `OpenLoad`, then one of `OpenRefused`, `OpenAttach`, `OpenClaim`, and after a
claim one `OpenFinalize` per recovered Operation and `OpenRegister` or `OpenFails`.
SQLite transactions are synchronous in the Host process and are one step.

`phase[o]` of `OperationRun` is the point of `driveAgentLoop` at which the run of
Operation `o` stands: `turn` (injecting, about to ask), `asking`, `replied`, `gate`
(before T1), `t1`, `tool`, `result` (before T2), `drain`, `limit`, `failing`,
`closing`, then `ended` until the Host submits the completion. `late[o]` is the tool
call that `raceAbort` stopped waiting for.

`SessionApprovals` is not composed with `RuntimeSession`: there a call at the `gate`
is approved (`DispatchTool`), refused (`RefuseTool`) or waits, at any moment, and
`SessionApprovals` says what happens in between. Its Operations have only the phases
the approvals can see (`phase[o]`: running, ending while `completeOperation` is in the
queue, over, or stuck with `#active` set). A call `c` is described by four variables:
`body[c]`, where its queued function is; `verdict[c]`, what the promise of `enqueue`
settled with; `answer[c]`, what the client or the reviewer said; `outcome[c]`,
how far the tool is: between the middleware's last look at the signals and `tool.execute`
are three more awaits (`Return`, `Reread`, `Intend`, `Execute`), and a call that is aborted
there runs. The first two are apart because an aborted entry settles while its function
goes on. `controllers` holds the calls whose `queueSignal`
is aborted, `aborted` those whose own signal is. `Settle` is `settle` followed by
`pump`, which every operation of the queue ends in. The promises between the Host's
rejection of a request and the function that throws are one step (`Fail`).

`LocalHost` is what `RuntimeSession` takes for granted: one process. `phase[h]` is how
far the process `h` is in `acquire` (`open`, `read`, `check`, `takeover`, `write`,
`discard`), in `openLocalRuntimeHost` (`clean`, `listen`, `bound`, `serve`) or in
`close` (`close`, `release`); `cphase[c]` the same for `connectJaiRuntimeHost` and
`stopLocalRuntimeHost`. Every file operation is a step, because other processes run
between any two. `lock` has an owner from the creation of the file and content
(`written`) a step later. `old` are the Hosts whose `createdAt` is before the mtime of
the bundle. The CLI, the Desktop and its supervisor launch independently of each other, so
any number of elections may overlap. `overtaken` is a ghost: a Host has created the lock
while a contender or a client, having read a pid in the lock before, was about to unlink it.

`AcpConnection` is one Desktop, its connections `1..MaxConnections` and the Sessions.
`inbox[k]` and `wire[k]` are the lines of a socket in each direction; a line that was
sent before the socket closed may still be handled. `handler[k]` is the request whose
handler is at an await (`snapshot`, `replay`, `waiting` for the completion a cancel
awaits) or whose answer is about to be written (`reply`); meanwhile `outbound[k]`
collects the notifications, while permission requests go past it. A Session is its turn
and the number `seq[s]` of updates it has published: update `n` stands for an entry and
for the state it ended in. So the Desktop holds a set of entries (`seen[s]`) and the
state of one update (`shown[s]`). `recon`, `rebuilding` and `rebuilt` are the progress of
`#restoreClient`. `gen[s]` counts the entries the Desktop has made for
`s`: a message of an earlier entry, which was closed meanwhile, is told from one of the
present entry by it (`Mine`), as the code does by object identity. `missed` and `unheard`
are ghosts: they record that the code lost something, named in the properties that except
it.

`McpRuntime` has a fixed number of `ManagedMcpServer` objects, taken when one is created
and free again when nothing refers to it; `obj[i]` has the flags of `#client`,
`#connecting`, `#closed`, the timer and the snapshot. A `reconcile` is an element of
`recs` while it awaits the end of a connection, with the rest of the plan it made at its
start; `Proceeds` is the part between two awaits. `coord` and `discovery` are the
coordinator and the `discover` it awaits. `overlap`, `disorder` and `unheard` are ghosts.

`ConfigStore` has the write of each process at `pc[p]`: `locking`, `breaking` (it has
found a dead owner), `created` (the lock is open, its pid not yet in it), `held`,
`checked` or `conflict`, `written`; then an agent's write is `loading`. A `load` under
way is an element of `loads[a]` until it has set `lastValid`, and of `queue[a]` until its
turn at the watchers, which are replaced one load at a time; any number of reloads overlap,
each with the `previousRevision` of its start. The file is a set of entries that also
shrinks, so a revision comes back. `notices` are what the operating system and the debounce
timer have yet to tell. `broken`, `late`, `missed`, `unsaid` and `silent` are ghosts.

### Abstractions

* A reply asks for at most one tool call, named by the attempt that produced it.
  Batches, parallel calls and ids reused by a provider are left out.
* Steering and follow-up messages share one inbox. Which of them is drained
  first is the choice between `TakeInput` and `NextRequest`.
* Compaction, capability notices, artifacts and streaming write no records and are
  left out; the entries they would append are none that the reducer names.
* The journal's entries are those of the one current branch. Retry and navigation,
  which leave entries on another branch, are left out, and so are ephemeral
  Sessions and configuration changes.
* The calls of `SessionApprovals` are those that must ask. Rules are evaluated to
  `Policy`, "ask" or "deny", which the configuration may change under the run, and to
  the rules remembered meanwhile (`Granted`); a rule is a member of `Scopes`. Rules
  saved in the project's files and the capabilities of paths are left out.
* `unfinishedToolTurn` (continuing a tool call found in the transcript) cannot be
  reached from the Host: every Operation is driven once.
* A revision is the number of entries appended; a leaf is the same number.
* A Host process stands for its pid; pids are not reused, and `unlink` succeeds. The
  three sockets are one endpoint. Closing a listening server removes its path, which
  Node does.
* An open that registers an object and closes it again (`resume` fails) makes no
  object in the model: nobody can call it.
* A prompt is answered before its run starts, and requests that change nothing in the
  projection have no reply in `AcpConnection`. Of Host and journal it knows turns and
  numbers; it is not composed with `RuntimeSession`, whose `OpenAttach` and `Close` are
  its `TakeResume` and `CancelAnswers`. What `openSession` awaits before it has the Session
  is no point where others run: that is `RuntimeSession`'s.
* What an MCP server offers is its configuration and one of two lists of tools. Tool
  calls, diagnostics and transports are left out; a delay is a timer that may fire.
* The settings file is the set of its entries and the revision is that set; a write adds
  one, and the user adds one or takes one out. Scopes and their layering, validation and invalid files are left out. Each store
  has a process of its own.
* `MaxAttempts` replies stand for any number: when it is reached a run that would
  go on meets the iteration limit.

## Bounds

`MaxOps` prompts accepted, `MaxAttempts` model requests per Operation, `MaxInputs`
mid-run inputs per Operation, `MaxFaults` database failures, `MaxSessions` Session
objects, `MaxPrompts` prompts submitted, `MaxCloses`, `MaxCrashes`, and `Requests`
concurrent opens. A cancel waits in a queue at most once. All are guards of the
action they bound, except that a full set of inputs lets the store refuse one more.

Every race of this code is between two of: the run, the queue head, one waiting
queue item, one open request. Two prompts (one becomes the Operation, the other
steers it, is refused, or is admitted next), two attempts (a tool turn and a reply
after it), one input, one failure and one crash reach every action; larger values
repeat the same pairs. The theorems hold for all values.

`LocalHost` bounds the processes ever launched (`Hosts`) and `MaxRebuilds`. Its races
need three processes: a dead owner, the one that takes its lock over, and one caught
between them. One client may launch, and replace a Host, while the supervisor relaunches.

`SessionApprovals` bounds its calls (each asks once), `MaxOperations`, `MaxCloses` and
`MaxChanges` of the configuration. Two calls of one queue, one holding the slot and
one waiting, and a third of the next Operation are every pair that can meet; two of
the three share a rule. The call of the detached subagent is one of an Extension tool
under review. The liveness run keeps the two calls of one queue.

`AcpConnection` has two Sessions (what is held back for one while the other is opened is
the point), three connections (one that breaks, one that a retry replaces while it is up,
and the last), three commands of the user, six updates and one fault (a socket that breaks or a resume
that fails). With two faults no violation was found among the first six million states, and
none with one Session, five commands and three faults. `McpRuntime`
has two configurations between which one server is restarted and another removed or
started, two changes, one failure, three objects: an old one whose attempt goes on beside
two current ones. `ConfigStore` has an agent, a page and an editor; one process dies, and two
reloads may overlap each other and the load of a write. The removal by name of a lock that
was opened since needs a third writer (a dead owner, the one that finds it dead, and the one
that locks in between); that case is the theorems' alone.

## Runs

| Run | Bounds that matter | Shows |
|---|---|---|
| `operation_recovery` | 4 records plus one, 2 ids, 2 entries | the reducer as specified is the loop as written (`ReducerIsLoop`); a terminal record written for a finalizable verdict, or by a completion, reads back as itself (`RecoveryIsIdempotent`); a durable verdict never changes (`DurableVerdictIsFinal`) |
| `session_turns` | 1 Operation, 2 attempts, 1 input, 1 database failure | the four writers keep the records well formed (`JournalWellFormed`); a tool runs at most once and after its intent (`EffectNeedsIntent`); the whole refines `OperationLifecycle` (`ImplementsLifecycle`); under `FairSpec` a cancelled run stops (`CancelStopsRun`) and an ended one is decided (`EndedIsDecided`), whichever database call fails |
| `session_attach` | 2 connections, 2 objects, 2 closes, 1 crash, 1 database failure | the controller slot is not stolen (`ControllerHeld`) and not leaked (`ControllerInUse`) |
| `session_recovery` | 2 Operations, 2 prompts, 1 input, cancels, 1 crash, 2 objects | one driver per Session object (`OneDriver`), a new Operation only after the last is finished (`AdmissionAfterFinish`), records are final (`TerminalIsFinal`); after a crash every Operation is decided or parked (`RecoveryDecides`), with an outcome the journal proves and never over an unknown effect (`RecoveryInventsNothing`) |
| `session_approvals` | 3 calls (built-in; reviewed, of an Extension tool of a detached subagent; reviewed, in the second Operation), 1 close, 1 configuration change | one request of an Operation at a time (`OneRequestShown`), none that nobody waits for but the one the code leaves behind (`AnswerIsAwaited`); no lost wake-up (`QueueNeverIdle`); a cancelled queue is empty (`CancelSettles`); a tool runs only with a consent, and not if it was aborted before the last look (`ExecutesWithConsent`) |
| `approvals_liveness` | 2 calls, one the reviewed Extension tool of a detached subagent, 1 close, 1 configuration change, `FairSpec` of `SessionApprovals` | every call is executed or refused (`EveryCallDecided`) |
| `local_host` | 3 processes, 1 client, 1 rebuild, `FairSpec` of `LocalHost` | one owner (`OneOwner`), reachable (`ServedAtEndpoint`), through overlapping launches, crashes, closes, replacement and I/O errors, unless a lock was overtaken by an unlink; a dead Host's complete lock blocks nobody (`StaleLockIsTakenOver`); every connect ends (`ConnectEnds`) |
| `acp_connection` | 2 Sessions, 3 connections, 6 updates, 3 commands, 1 fault | the projection converges to the journal (`Converges`); a run that asks is waited for by somebody (`HostIsAnswered`), what the user sees is asked by a live run (`PromptIsLive`), an answer reaches the question it was given to (`AnswerIsForItsQuestion`) and does not wait behind a cancel that waits for it (`AnswersAreNotBlocked`); no controller slot outlives its connection (`LeaseHasConnection`) |
| `mcp_runtime` | 2 names, 3 objects, 2 changes, 1 failure, `FairSpec` of `McpRuntime` | no server is forgotten or doubled (`OneConnection`) or left running (`NothingLeaks`, `ClosedIsReleased`); servers and catalog are those of the file (`FollowsConfiguration`, `CatalogFollows`) |
| `config_store` | 1 agent, 1 page, 1 write each, 1 death, 1 edit by hand, 2 reloads at once | one writer (`OneWriter`), no write that has returned is lost (`NoWriteLost`); an agent decides by the settings in the file and its listeners are told of them, whatever value comes back and however loads overlap (`ReadersFollow`) |
| `suspended_session`, `reopen_while_driving` | smallest that reach it | two comments of `host.ts` that the code does not keep, below |

The type invariants are proved. `OwnerIsNamed` and `CleanupIsOfStaleEndpoint` are proved
too and need no run of their own.

Deadlock is checked for `LocalHost`. Elsewhere the system may stop: a Host that has served
its bounded prompts, a Desktop whose user has nothing more to do and a disposed agent wait
for ever.

`AdmissionAfterFinish` speaks of the Operations of the same Session object and of
those a crash interrupted. It does not hold across two Session objects of one
process; `reopen_while_driving` shows why.

### Where the code and its comments disagree

* `host.ts:702`: a suspended Session "can safely" be recovered. If the input came
  after the last drain of a run whose final reply is durable, the reducer says
  *corrupted* (`recovery.ts:149`) and the Session cannot be opened any more.
* `host.ts:747`: no journal recovery while a driver is live. `close` looks at
  `#active`, which a prompt in preflight has not set: the object is released, then
  admits and drives, and a reopen recovers the journal under it.
  `OnlyReleaseUncoversDriver`, below, proves that there is no other way.

### Observations

What the properties except, or a theorem assumes away, is what the code loses. Each item
can be reproduced by dropping the exception, or by the constant that is named.

Host, approvals and launch:

* `approval-queue.ts:4`, `host.ts:1842`: one request of a Session at a time, and cancelling
  the Operation aborts what is in flight. An Extension tool's request is given the call's
  own signal instead of the queue's, and nothing looks at the queue's signal after the
  review (`middleware.ts:502`; the built-in path does both). A detached subagent's call
  under review when its Operation completes shows a request that nobody waits for
  (`LeftBehind`, excepted in `AnswerIsAwaited`), and when the next Operation asks, two
  requests of the Session are shown. TLC finds it in eleven states: `StartOperation`,
  `Call`, `Run`, `CancelApprovals`, `Review`, `FinishOperation`, then the same up to
  `Review` for the next Operation. `OneRequestShown` therefore speaks of one Operation.
* A call that is aborted after the middleware's last look at the signals runs all the same:
  rules are compiled, settings read again and the intent recorded before `tool.execute`
  (`middleware.ts:325–351`, `517–531`, `agent-loop.ts:622–642`). `ExecutesWithConsent`
  promises nothing for those awaits.
* `local-host.ts:88`: the exclusive owner makes the deletion of the endpoint a stale
  cleanup. The owner is not always exclusive. Two processes that read the same dead pid,
  launched by the CLI and the Desktop, say, both unlink the path, the second one the lock
  the first has just created (`local-owner.ts:76`), and the later one deletes the socket the
  other serves. `stopLocalRuntimeHost` unlinks by path, too, after it has killed the pid it
  read (`launcher.ts:121`); a Host relaunched meanwhile loses its lock, and the next one owns
  beside it. Both are `overtaken`; `OneOwner` and `ServedAtEndpoint`, and the theorems about
  them, hold until it happens and so show that nothing else leads to two owners.
* A process that dies between creating the lock and writing its pid leaves a file that
  refuses every later Host (`local-owner.ts:51`). `StaleLockIsTakenOver` speaks of
  complete locks only.
* `launcher.ts:34` says a client joins a Host only when it is as new as the bundle. Only
  the first attempt checks; the retries join whoever answers (`launcher.ts:78`).
* `suspend` does not release a Session that was detached before (`host.ts:1751`, against
  the comment at 1760): the next open attaches to it instead of rebuilding it.
* A completion that cannot read or reduce the journal leaves `#active` set
  (`host.ts:1570`): the Operation stays open until a restart. `EndedIsDecided` excepts it.
* A cancel that is sent while a prompt is queued or in preflight takes its turn after the
  admission and does not look at the driver again (`host.ts:1243`; it is queued whether or
  not anything is before it): it finds the Operation
  the Session now drives and writes its "aborted" record under the driver. If a mid-run
  input waits for its entry at that moment, the Session cannot be read (`recovery.ts:132`)
  until the entry is durable, if it ever is.
* A call that an aborted run has let go of at the gate may be dispatched between the read
  and the write of `completeOperation`. The terminal record then stands over a dispatch
  that has no result (`recovery.ts:116`) and the Session cannot be opened any more.
  `CompletionLosesNothing`, below, proves that these two and a recovery under a driver are
  the only ways in which a finished Operation lacks what it owes.

ACP and the Desktop:

* `agent.ts:219` says that what `resumeSession` drains is in its snapshot. Updates
  published after the snapshot was read are not, and the queue also holds those of other
  Sessions of the connection (`missed` has `"discarded"`).
* `handleLine` writes what `handle()` has drained one turn of the event loop later. A
  newer notification can be written before it, and its older state then stays shown
  (`"overtaken"`).
* A cancel before the run has begun is passed on once (`host.ts:1524`); an agent that
  holds no run yet does not hear it, and the connection's lines, answers included, wait
  until the run ends by itself.
* A resume that fails after a navigation or during a restore leaves what the Desktop shows
  as it is (`agent.ts:205–217`). After a navigation the projection has been emptied and the
  failure is shown to nobody: the Session stays open and empty with status "ok"
  (`acp-host.ts:190`, `462–475`; `"emptied"`). If the configuration has failed, the Session
  is closed and detached as well, although the Desktop has it open (`"detached"`).
* `navigate()` resumes the Session after its answer even when its entry was closed
  meanwhile: the connection then holds a Session the Desktop does not show.
* A disconnect while `#restoreClient` runs starts no other one (`acp-host.ts:536`); the
  Sessions not yet rebuilt are shown as failed until the user retries.
* A prompt that arrives over a connection which a retry is about to replace is kept. So is
  one whose entry has left `#sessions` because its open failed: a restore cancels only the
  prompts of present entries (`acp-host.ts:427`, `548`). The answer to either
  carries its id to the new connection (`late` in `AnswerIsForItsQuestion`). There it
  can end the question of another run, whose own prompt then stays on the screen: from
  the replacement on `PromptIsLive` excepts the Sessions (`"outlived"` in `missed`). It
  takes two Sessions and four commands to see it, one more than `acp_connection` allows.
  A run may in fact wait for a prompt that is no longer shown in any Session of the Desktop;
  `HostIsAnswered` counts it, since `#pendingPermissions` still holds it.

MCP:

* Two `reconcile` calls, or one and `close`, may be under way together: the later one
  replaces in `#servers` what the earlier one started, or starts what nobody will close
  (`runtime.ts:80–112`; `overlap`). `OverlapAloneLeaks` proves that nothing else leaks.
* Configurations are resolved concurrently (`host-adapters.ts:221`), so an older one can
  be reconciled last (`disorder`).
* An invalidation between the initial discovery and the subscription is heard by nobody
  (`sdk/extensions.ts:729–735`; `unheard`).
* One disconnected server whose tools are known fails the whole discovery, the
  activation included; a disconnect invalidates nothing, so its tools stay in the
  catalog until it is back (excepted in `CatalogFollows`).

Settings file:

* `releaseDeadWriteLock` removes by name (`store.ts:426`), and so does the end of a write
  (`408`): a lock opened since the dead owner was read is removed, and two processes
  write (`broken`; the same race as that of the Host's lock).
* A process that dies before its pid is in the lock blocks every later write
  (`store.ts:394–404`, `420`).
* The watchers are closed and opened again after the files were read (`281–300`); a
  change in between is noticed by nobody (`missed`).
* A `load` that ends after a newer one overwrites `lastValid` (`late`).
* A reload compares what it has read with the `lastValid` of its start, not with what other
  loads have set since (`store.ts:311–314`). If the file goes from A to B and back, a load
  that began with A and reads A tells nobody, although the agent was given B meanwhile by
  another load, of its own write or of another reload: it keeps B (`unsaid`).
* A write loads what it wrote itself, so that the reload that follows finds nothing new
  (`188`, `314`) and the listeners are not told (`silent`).

## Fairness

`FairSpec` assumes weak fairness of the Host's own code only: the agent's steps that
need no answer from outside (`LoopStep`), the driver's and the queue's. Node's event
loop runs every ready promise callback, so each of them is taken if it stays enabled.
A provider stream ends if its signal is aborted (`AbortedStreamEnds`): adapters pass
the signal to the request. Nothing makes a provider answer, a tool return, a user
approve, or a client call; that `CancelStopsRun` holds without those is its point.
`EndedIsDecided` is checked with a database that may fail: what it excepts (`GivenUp`) is
a completion that could not read the journal, could not reduce it or could not write the
end; the Operation then stays open until a restart.

`SessionApprovals` assumes fairness of the microtasks of a call (`BodyStep`, `Return`;
the reviewer has a deadline) and of the completion once it has begun (the store
answers or fails). `EveryCallDecided` further assumes that the client answers a
request that stays on the screen: without that a call may wait for ever, by design.
Aborts, closes and the end of the run are not assumed.

`LocalHost` assumes fairness of a started Host process and of a connect under way, whose
retries are bounded (240). Nobody has to launch, close or crash.

`McpRuntime` assumes that a connection attempt ends (it has a timeout), that a retry timer
fires, that a configuration that was read is emitted, that a closed connection lets its
`reconcile` and `close` go on, and that the coordinator, whose requests have a timeout,
goes on. Nothing makes a connection succeed, the file change or the agent end.

`AcpConnection` and `ConfigStore` are checked for safety only: a user, a socket and a file
watcher owe nobody a step, so their properties speak of states in which nothing is under
way.

## Proofs

The theorems hold for every value of the constants. `ReducerSafety` assumes nothing but,
in `VerdictsAreTyped`, that an entry implies an outcome or none (`EndingAssumption`):

* `ReducerTranslatesLoop`: on a journal of any length, of any Operations and identifiers,
  with any evidence, `RecoverOperation` (conditions on the whole journal, what
  `RuntimeSession` uses) equals `Loop` (the code, record by record). It is an induction
  over data, along the positions of the journal. The induction theorems of the library
  take an operator, which no prover here can instantiate; `WFMin`, which takes a set, can
  be used: `LeastNat` and `Along` derive from it that a set of positions that holds 1
  and the successor of each of its members holds all. `Along` is used twice. First for the
  recursive function of `Collections`, that such a function exists (`CollectionsFollow`).
  Then for the loop invariant `LoopInv`: until a record is rejected, the collections hold
  exactly the ids, entries, attempts and outcome of the records so far (`Gathered`); and a
  record was rejected just if one `Violates` what precedes it. `MalformedIsViolated`
  charges each corruption the reducer looks for to the record at which the loop meets it.
* `ReducerIsTheLoop`, `RecoveryReadsBack`, `DurableVerdictStands`: `Spec =>
  []ReducerIsLoop`, `[]RecoveryIsIdempotent` and `DurableVerdictIsFinal`, from the type of
  the journal (`JournalTypes`) alone. The second rests on `FinishReadsBack`, which is about
  any sequence of records: a terminal record behind a journal that is open, readable and
  without a lost dispatch reads back, if no input waits or the outcome is "interrupted".
* `VerdictsAreTyped`: the verdict is always in `Verdict`.

The theorems of `RuntimeSessionSafety` hold under `BoundsAssumption`
(`SessionPersistence`) and `HostAssumption` (`RuntimeSession`): bounds are natural
numbers, the first ones positive, and "nobody" is not a connection. About the driver, the
controller and the run:

* `TypeCorrect`: `Spec => []TypeOK`. `TypeOK` is not inductive: an action that
  appends a record for attempt `turn[o]` needs `turn[o] # 0` (`TurnKnown`), and one
  that continues a queue item needs the Operation and the input it saved to be real
  (`WorkKnown`). `TypeInv` is the conjunction.
* `TerminalFinal`: `Spec => TerminalIsFinal`. Every action that changes `journal`
  either appends through `AppendRecord`, whose guard is the store's check, or admits
  an Operation that has no records. One lemma per module says so.
* `OneDriverHolds`: `Spec => []OneDriver`. `DriverInv` adds what a step needs: the
  driver of an Operation belongs to a real Session object, which has this Operation
  in `#active`; and `#active` is empty while the queue runs an admission, because no
  other item of the queue can fill it in between.
* `EffectFollowsIntent`: `Spec => []EffectNeedsIntent`. The invariant `EffectInv`
  says for each Operation which calls may be dispatched, and which may have run, in
  which phase (`EffectSafe`: at the gate the current call has no intent yet; past T1
  it is dispatched and has not run; a call runs at most once and only when it is
  dispatched) and, for each Session object, that a completion in its queue belongs to
  an Operation this process has a run of (`CompletionKnown`); without the latter an
  old completion could meet an Operation whose run has not started.

* `ControllerIsHeld`, `ControllerIsReleased`: `Spec => []ControllerHeld`,
  `[]ControllerInUse`, if no connection has two openSession requests under way at once
  (`OneAtATime`; a model request is used again, so a connection may open as often as it
  likes). The ACP server guarantees this, since it handles the lines of a connection one
  after the other, and it is needed: with two requests of one connection, a recovery that
  fails releases the slot the other one has taken. `ControlInv` adds that an open Session
  object is the live one and that none is live while a request has claimed the Session.
* `OnlyReleaseUncoversDriver`: under the same condition `NoRecoveryWhileDriving`, which
  `reopen_while_driving` shows violated, holds in every behaviour without a release of an
  object that still drives or has a prompt queued (`[][QuietRelease]_vars`). Such
  behaviours include every crash, suspension, cancel and reopen; the invariant `LiveInv`
  says that whoever drives or is about to admit is the live object.
* `LifecycleImplemented`: `Spec => ImplementsLifecycle`, the refinement of
  `OperationLifecycle`, for any number of Operations, attempts, inputs and Sessions. Each
  action is shown to be one abstract step of one Operation, or to leave the mapped state
  alone; a crash maps to a stutter because nothing the mapping reads is volatile. What a
  step may do to the attempts of a journal comes from `EffectInv`.

About the journal and recovery, one invariant on top of the other:

* `JournalsAreWellFormed`: `Spec => []JournalWellFormed`. The store checks only that an
  Operation is accepted and unfinished, the reducer refuses a journal whose attempts,
  dispatches and completions are out of order. `JournalInv` says of each record what has
  to precede it and ties the last attempt to `turn[o]` and to the phase of its run.
* `RecoveryIsDecided`, `AdmissionIsAfterFinish` and `RecoveryIsHonest`: `RecoveryDecides`,
  `AdmissionAfterFinish` and `RecoveryInventsNothing`. The invariant `HostInv` has to
  carry facts across awaits: what an open request has read of the journal (`found`) is
  still what it holds when it finalizes; what a completion or an admission decided from
  is still so when it writes; a run belongs to the object whose `#active` it is. The last
  one is why `RecoveryIsHonest` never writes over a run that goes on.
* `CompletionLosesNothing`: `Spec => [][NothingLeftBehind]_vars`. A terminal record closes
  over an input without its entry, or a tool without an outcome, only when recovery
  interrupts a lost Operation (and then over no tool), over the late call of an aborted
  run, or when it is written from outside the driver. `CompletionInv` carries what
  `completeOperation` has read (`Settles`) across the await before it writes. TLC finds
  each of the exceptions reached on a small instance.

The theorems of `ApprovalsSafety` hold under `ApprovalAssumption` (`SessionApprovals`),
for any calls, Operations and interleaving:

* `ApprovalTypes`, `QueuesAdvance`, `CancelledQueuesAreEmpty`: `Spec => []TypeOK`,
  `[]QueueNeverIdle`, `[]CancelSettles`.
* `OneRequest`, `AnswersAreAwaited`: `Spec => []OneRequestShown`, `[]AnswerIsAwaited`,
  detached Extension calls included.
* `ToolsNeedConsent`: `Spec => ExecutesWithConsent`, for any calls. Its invariant follows
  a consent from the client, the reviewer or a remembered rule to the point where the
  tool runs, through the recheck after the wait.

The invariant `ApprovalInv` has three parts. `QueueInv`: the slot holds a call whose
function has begun and has not settled (`SlotHeld`), any such call holds the slot of
its Operation (`HolderHasSlot`), and the entries are distinct calls of the Operation
that have not begun unless they have settled, none if the slot is free (`EntriesOK`).
One lemma, `SettleKeeps`, proves that `Settle` preserves it for any set of calls that
settle together; each step of a call is an instance. `HostInv`: a function that goes
on after its entry settled has an aborted signal (`LeftBehind`), except where the
Extension path was given none; so a request is shown only for a call that waits, of
the running `#active` Operation, or for one that was left behind by that path
(`ShownIsAsked`). Two requests of the first kind would both hold the slot of one queue; one
call of an Operation at most can be left behind, the one that held the slot when the queue
was cancelled (`OneLeftBehind`), and then the Operation has ended.

The theorems of `LocalHostSafety` hold for any sets of processes and clients, launched at
any time: `OneOwnerElected`, `OwnerNamed` and `ServedIsReachable`, that is `Spec =>
[]OneOwner`, `[]OwnerIsNamed` and `[]ServedAtEndpoint`, and `CleanupIsStale`: `Spec =>
CleanupIsOfStaleEndpoint`. `OneOwner` is not inductive: `Inv` adds, until a lock is
overtaken, that whoever created the lock finds it its own until it removes it
(`HolderHasLock`), that a lock belongs to a running holder or a dead one (`LockHasHolder`),
that what a contender has read is still the lock, unless that is gone (`SeenIsLock`), and
that a client which replaces a Host kills whoever holds the lock before it unlinks
(`NobodySpared`). `HostTypesCorrect` needs none of this.

The theorems of `McpRuntimeSafety` hold under `McpAssumption`, for any names,
configurations, objects and number of changes: `OneConnectionEach`, `OverlapAloneLeaks`,
`RuntimeFollowsFile` (`FollowsConfiguration`), `CatalogIsCurrent` (`CatalogFollows`) and
`McpTypesCorrect`. The first follows from a fact about each object (`Sound`) that
`Reconnect`, `Closed` and `Server` keep. `NothingLeaks` needs
`AloneInv`, as long as nothing overlapped: there is one `reconcile`, the server it awaits
has left `#servers` and what it has yet to stop has not, every object in use is the one
of its name, and after `close` has begun there is no `reconcile` and none to come.
`Proceeds` is one lemma (`ProceedsAlone`), used by `Emits` and `Resumes`. `FollowInv`
speaks of the states in between that `FollowsConfiguration` excludes: every name a
`reconcile` will not stop any more has been done, and what was read last is the file.
`CatalogInv` does the same for the catalog: while nothing is due, a discovery has
collected the tools of exactly the connected servers it has visited, as they are now, and
it has visited only servers the runtime still knows. A step that would break this is one
the coordinator hears, or cuts the discovery, which has then met a server that has been
connected and is not.

The theorems of `ConfigStoreSafety` hold under `ConfigAssumption`, for any finite set of
processes: `OneWriterAtATime`, `WritesAreKept`, `AgentsFollowTheFile` and
`ConfigTypesCorrect`. Until a lock was
removed that was not a dead process's, a process between opening and removing the lock
finds it its own. What keeps the writes is more than that: a page sends the revision it
has shown and extends what it has read later. `KeptInv` says of programs' entries that
the file holds those whose write has returned, and that what a write extends holds what
its revision names, so that a write which passes the comparison forgets none of them. An
entry made with an editor, which takes no lock, can be lost between comparison and
rename; `NoWriteLost` does not promise it. `AgentsFollowTheFile` (`ReadersFollow`), for any
number of overlapping reloads, needs `ReaderInv`: an agent whose snapshot is not the file
has a notice on its way, a load under way that will read the file or has read it and will
tell of it when its turn comes, or has lost it in one of the ways named.

The theorems of `AcpConnectionSafety` hold under `AcpAssumption`, for any Sessions,
connections, updates and commands. `Inv` has the types of everything on the wire, room
for the updates a run has yet to publish (`RoomInv`), that a connection holds what it is
handling and what was asked (`HandlerInv`, `LinkInv`, `IdInv`), and that exactly the owner
of a Session is subscribed to it (`LeaseInv`).

* `ConnectionTypes`, `LeasesAreHeld`: `Spec => []TypeOK`, `[]LeaseHasConnection`, from
  `Inv`.
* `CancelsWaitForAborts`: `Spec => []AnswersAreNotBlocked`, inductive beside `LeaseInv`:
  nobody but the owner starts a run of a Session, and it is the one that waits.
* `RunsAreAnswered`: `Spec => []HostIsAnswered`. The property is itself nearly inductive;
  what it lacks is that the question of a run and the one its connection remembers are
  the same, over a socket that is up (`AskInv`). Each place where a question may stop
  (the wire, the screen, the withdrawal by `#cancelPendingPermissions`, the line of
  answers, the end of the socket) is one lemma.
* `AnswersReachTheirQuestion`: `Spec => []AnswerIsForItsQuestion`. `QuestionInv` says that
  wherever an id stands, on the wire, in a prompt or in an answer, it stands for the same
  question as in the requests of its connection, and that while the client reconnects
  every prompt of an entry is `late`, as are those a restore has kept.

Only model-checked: liveness (`CancelStopsRun`, `EndedIsDecided`, `EveryCallDecided`,
`StaleLockIsTakenOver`, `ConnectEnds`, `ClosedIsReleased`), since fairness and ENABLED are
outside what the prover handles; and `Converges` and `PromptIsLive` of `AcpConnection`,
whose inductive invariants relate every line on its way to the state of both ends. No module declares a RECURSIVE operator.

## Not modelled, and why

* Provider adapters, connector runtime and OAuth, daemon and server composition,
  telemetry, skills, todo and web search: I/O and translation for remote services; what
  the modelled parts see of them is a reply, a failure or nothing.
* Desktop shell, CLI, marketing and docs: user interface. Their users are the environment
  of `AcpConnection`, `RuntimeSession` and `LocalHost`.
* Session titles, statistics, the desktop catalog, the in-memory persistence: read-only
  projections, sequential statements of one table, a test double of a modelled contract.
* Compaction, entry branches, retry: they depend on token estimates and on the tree of
  entries, which the model of one current branch does not have.
* Batches of tool calls, the order of steering and follow-up messages, the registry and
  notices of background agents.
* The manual effect gate, the file-mutation queue and the event stream: small in-process
  queues that no modelled property depends on.

What would come next: `SessionLedger` (entry chain, navigation, retry, compaction, then
`recoverDurableState` over a branch); the agent loop with batches; `LocalHost` and
`AcpConnection` composed with `RuntimeSession`.
