# TLA+ models of WanLaiCode

WanLaiCode (`packages/opencode` and the packages around it) runs coding turns
for many clients at once: a server keeps one *instance* per project directory,
every conversation (*session*) executes at most one turn at a time, sessions can
move to other machines by replaying their event log, automations start turns
on a schedule, and several processes of one user share a login and lock files.
This directory models the parts of that program whose correctness depends on the
order in which concurrent things happen. Paths below are relative to
`packages/opencode/src/` unless they start with `packages/`.

Contents:

1. [Inventory](#1-inventory) – the components, their state and their hazards
2. [Modules](#2-modules) – how the modules correspond to the code
3. [Runs](#3-runs) – what TLC checks, with which bounds, and why they suffice
4. [Disagreements](#4-disagreements-between-the-code-and-its-texts)
5. [Fairness](#5-fairness)
6. [Proofs](#6-proofs)
7. [Not modelled](#7-what-is-not-modelled)
8. [What remains](#8-what-remains)

To check a run: `tlc -config MCRunner.cfg MCRunner`; to check the proofs:
`tlapm RunnerProofs.tla`. `PROJECT.json` lists the runs, the source lines each
definition stands for, the hazards and the theorems.

## 1. Inventory

### Modelled

**Session prompt** – `session/prompt.ts`. *State:* the message log of a session,
the cancel epoch, the identity of the turn that takes steering messages
(`activeTurns`), the turn scheduled next (`scheduledTurns`), the reply fibers, the
prompt lock and the turn lock. *Operations:* `prompt` (store the message, publish,
register, reply), `runLoop` (answer the stored messages turn by turn), `steer`,
`cancel`, failure reports. *Hard:* a request, the loop and a stop look at the log
and at each other's marks at different times; the runner is free again while the
old run still winds down. *Correct when* every message is answered once or
settled by a stop or a failure, a steering message is never stranded, and every
request and stop returns.

**Session run state** – `session/run-state.ts`. *State:* a table of runners per
instance, an index of runners of the module that all service graphs share, the
published status. *Operations:* `runner`/`lookup`, `ensureRunning`, `cancel`, the
drainer, the finalizer of an instance. *Interacts* with the runner (callbacks) and
the instance store (drain, close). *Hard:* a session is reached through several
service graphs, each with tables of its own, while instances are torn down.
*Correct when* a turn is found from every graph, the index forgets what is over,
and a session at rest was announced idle, as far as the announcement gets through.

**Single-flight runner** – `effect/runner.ts`. *State:* a `SynchronizedRef` that
is `Idle`, `Running`, `Shell` or `ShellThenRun`, the fibers it forks, one
`Deferred` per run, a `Latch` per shell. *Operations:* `ensureRunning` (join,
queue behind a shell, or start), `startShell` (refused when busy), `cancel`,
`awaitIdle`, and the finalizers `finishRun` and `finishShell`. *Hard:* the ref
changes under a semaphore, but what follows (interrupting, waiting for a fiber,
completing a Deferred, announcing "idle") happens afterwards, when the ref may
already name another activity; a queued run has no fiber of its own. *Correct when*
at most one turn works at a time (apart from one that is being stopped), nobody
waits for an answer that cannot come, a replaced run does not end its replacement,
and the last announcement is true.

**Instance store and instance states** – `project/instance-store.ts`,
`effect/instance-registry.ts`, `effect/instance-state.ts`. *State:* directory →
entry with a Deferred, per service a scoped cache of states, the contexts that are
retired. *Operations:* `load`, `reload`, `dispose`, `disposeAll`, boot;
`InstanceState.get` and `forEach`. *Hard:* a reload installs the new entry only
after draining, boots fail while others wait, and disposers take seconds. *Correct
when* nobody waits for a drain, what was retired does not come back, a late
dispose spares the successor, and every call ends.

**Account credential refresh** – `provider/wanlaicode-refresh-coordinator.ts`,
`provider/wanlaicode-credential-state.ts`, `auth/index.ts`. *State:* the credential
and the runtime key in `auth.json`, each process's in-memory chain of rotations
(`shared`) and its set of refused credentials. *Operations:* `refresh` with its one
retry, `persistTokens`, `persistRuntimeKey`, login, logout, revocation. *Hard:* the
refresh token dies when it is exchanged, several processes exchange it, answers are
lost, the file cannot be written, the user logs out and in meanwhile. *Correct when* no
login is undone, the live token is lost only with an answer, a write or a process, and
nothing live is condemned.

**File lock** – `packages/core/src/util/flock.ts`. *State:* the lock directory with
a heartbeat and a meta file, a second directory (the breaker). *Operations:*
acquire with retries, stale breaking, heartbeat, release. *Hard:* every file
operation is a place where another process runs, crashes or is suspended. *Correct
when* the one who holds it owns it, one contender cleans (which the code does not
always keep), and a lock left behind is cleared.

**Sync event log** – `sync/index.ts`, `sync/event.sql.ts`. *State:* per database
an `event_sequence` row (last number, owner) and the `event` table.
*Operations:* `run` (append), `replay` and `replayAll` (take events made
elsewhere), `claim` (set the owner), `remove`. *Interacts* with projectors (which
commit with the rows) and with workspaces. *Hard:* events arrive late, twice, in
overlapping batches or with a gap; a batch can fail half way; and a replay reads the row
outside the transaction in which it stores the event. *Correct when* every number the
row counts is stored, so that "everything after this number" is all that is missing, and
after a claim no new event of the old owner is taken. One log alone is *not* always
totally ordered or append-only ([section 4](#4-disagreements-between-the-code-and-its-texts)).

**Workspaces and session warp** – `control-plane/workspace.ts`,
`server/routes/instance/httpapi/handlers/sync.ts`. *State:* a copy of the session
in the control plane and one in each remote workspace, `SessionTable.workspace_id`
in each, the sync loops' connections and whether their fibers live, the position of a
`sessionWarp`.
*Operations:* `syncWorkspaceLoop`, `syncHistory`, `sessionWarp` with the handlers
`history`, `replay` and `steal`. *Hard:* connections break, requests fail after
having taken effect, a turn writes and replays are under way while the session is moved.
*Correct when* all copies agree on every number they share as long as one device writes,
a move takes the whole history along, and both the copy and the place of the session
become known while the sync loop lives.

**Automations** – `automation/{automation,run,scheduler}.ts`. *State:* the row of
the automation (`enabled`, `schedule`, `next_run_at`, `last_run_at`), the rows of
its runs (status, `read_at`, `archived_at`), the executions in flight in each
process. *Operations:* the scheduler's `tick`, `claimRun`, the thread gate and
`deferRun`, `begin`/`complete`, manual runs, the sweep of stale runs, and the
inbox (`setRunRead`, `markAllRunsRead`, archive, unarchive). *Hard:* several
processes share the database; every `await` is a place where another process, a
click or a crash comes in. *Correct when* a due instant is executed again only if a
deferral put it back, a result the user did not deal with counts as unread, orphaned
runs are settled and a hung turn does not stop the schedule.

### Not modelled

| component | why |
|---|---|
| Goal runtime `session/goal-runtime.ts` | drives the prompt from outside; what a pause promises involves stored goal records and a model's verdict together with the prompt's stop ([section 8](#8-what-remains)) |
| Permissions `permission/index.ts`, questions `question/index.ts` | maps of pending Deferreds; rule matching is pure |
| File lock for Effect code `packages/core/src/util/effect-flock.ts` | a second implementation over the same files, without the check of the owner's process |
| Session processor, reply generations | turns a model's stream into parts; `Prompt` takes its outcome as a choice |
| Revert, retry, compaction, summary | transformations of message lists, model calls |
| Session store, projectors, database, storage | SQL and JSON; its transactions are atomic steps here |
| Event bus | publishing is immediate where a model needs it |
| Remote-control gateway | a relay protocol whose other parts are outside the repository |
| PTY and shell tools, MCP, LSP and ACP clients, snapshots, worktrees, providers, tools, skills, plugins, memory | I/O with outside programs |
| Server routes, web and desktop interface | plumbing and rendering |

### How the components interact

A request reaches the *instance store*, which loads the instance of a directory.
The *session prompt* stores the user's message and calls *session run state*,
which owns one *runner* per session; the runner forks the loop of the prompt and
reports busy and idle through *session status* and the *event bus*. Idle events wake
the *goal runtime* and client queues. Before an instance goes, run state *drains*
it, and its finalizer cancels what still runs. Everything a turn writes goes
through *sync events*, whose *projectors* update the session tables in the same
transaction. The *workspace* service follows remote servers by their event streams
and moves sessions by replaying logs. The *automation* scheduler ticks in every
process and prompts sessions like any other client. Calls to the model use the
*account credential*, which every process of the user refreshes; *file locks*
guard the files they share.

In the models: `Runner` is shown to implement `SingleFlight`, and what `SingleFlight`
says (one flight, shared by whoever asks, settled once) is what `RunState` and
`Prompt` take a runner to be. `Warp` is composed over the databases of `SyncEvent`.
`Instances` has the store that tears down; `RunState` has the drain and
finalizer that a teardown calls.

## 2. Modules

| module | models | kind |
|---|---|---|
| `Prompt` | `session/prompt.ts` | component, over what `SingleFlight` promises |
| `RunState` | `session/run-state.ts` | component, composing runners, graphs and teardown |
| `Runner` | `effect/runner.ts` | component |
| `SingleFlight` | what the runner promises to callers | abstract specification |
| `Instances` | `project/instance-store.ts`, `effect/instance-{registry,state}.ts` | component |
| `Refresh` | `provider/wanlaicode-refresh-coordinator.ts` and the files it uses | component |
| `Flock` | `packages/core/src/util/flock.ts` | component |
| `SyncEvent` | `sync/index.ts` | component |
| `Warp` | `control-plane/workspace.ts` over the databases of `SyncEvent` | composition |
| `Automation` | `automation/*.ts` | component |
| `*Proofs` | theorems about every component (`SyncProofs`: `SyncEvent` and `Warp`) | proofs |
| `MC*` | constants for TLC | instances |

### Prompt

A message is its place in the log, a turn is the message that opens it. A read or
write of the log is one step (the database is synchronous), as is a section under
the turn lock; the prompt lock is a variable, since it is kept across awaits. The
requests are numbered as they take the prompt lock. `work[r]` is where the
loop of run `r` stands; `run` is the run the runner holds, 0 when it is idle, and
it is so as soon as the run is cancelled.

| code | actions |
|---|---|
| `prompt`, `replyPrepared` | `Store`, `Publish`, `Register`, `Check`, `Join`, `Return`, `Look` |
| `runLoop` | `Begin`, `RegisterTurn`, then `Top`, `Read`, `Refresh`, `Create`, `Sample`, `Answer`, `Cover` per step, `Close` per turn |
| `joinLoop` with its catches | `Fail`, `Report`, `CleanUp`, `Finish` |
| `steer` | `Steer` |
| `cancel` | `StopRead`, `StopNothing` or `StopClaim`, `StopFibers`, `StopCancel`, `StopSettle`, `StopEnd` |

`finalizeInterrupted` (`Finalized`) reads, checks and writes in one step: the database is
synchronous and the instance state is cached, so nothing between them waits. `Report`
settles a message of the turn that failed; of a run that failed before it registered a turn,
the message it was started for (2841–2843).

`cancel` keeps the prompt lock while it waits for the run to be over, and a `Store`
waits for that lock: `EverybodyReturns` says that this does not end in everybody
waiting. Whether a stop resumes the queue is chosen per stop: the HTTP abort passes
`resumeQueued: false`, other callers do not. Left out: `noReply` prompts, `shell`
and `command`, `loop()`, subtasks, compaction, image generation, length
continuation, structured output, messages of older database versions, and passive
teardown (`RunState` has it).

Limits of the code the model shows, and its properties exempt: after a stop the
resume may be lost, because a waiter from before the stop starts a run that is then
refused at registration; a failed run settles only one message (2866, 4063–4067);
`finalizeInterrupted` and the stop's settling may overwrite each other's update;
an assistant message that was created but never processed stays open.

### RunState

One session of one directory in several service graphs. `cell[g]` is the instance
state in graph `g`, `state[i]` what became of state `i`, `table[i]` its runner,
`index` the module's index, `ref[r]` the turn runner `r` is busy with, `turn[t]`
the fiber of a turn. A runner is what `SingleFlight` says, with the
late end of a cancelled turn kept: `ref` is freed first, the fiber ends afterwards.

| code | actions |
|---|---|
| `InstanceState.get`, `runner`, `lookup` | `Get`, `Runner` with `Lookup` |
| `ensureRunning` | `Join`, `Start`, then `PromptReturns` |
| the runner's callbacks and finalizers | `PublishBusy`, `WorkEnds`, `FinishRun`, `TurnIdle` |
| `status.set` | `Publish`, or `Silence` when the context is retired |
| `cancel` | `CancelNothing`, or `Cancel`, `Stopped`, `CancelIdle` |
| drainer (`awaitIdle` of each runner) | `Drain`, `DrainLooks`, `DrainEnds` |
| finalizer of an instance | `Dispose`, `FinalizerCancels` or `FinalizerFindsNobody`, `FinalizerStopped`, `FinalizerClears`, `TornDown` |

`status.set` asks for the instance state of the fiber that calls it, and the context of a
torn-down instance interrupts whoever asks (`effect/instance-state.ts:60`). So each
announcement of idle by a turn, a canceller or a finalizer may be cut off once some instance
is retired; `silenced` notes that the last one was. A turn that is cut off there skips
`complete` (`effect/runner.ts:79-80`): it ends "lost", and callers that joined it are never
answered. Which context a fiber runs in is not kept, so the model cuts off more than the
code does. In a finalizer with runners of several sessions the interruption also skips the
cancels of the rest; the model has one session.

Left out: `startShell` (it differs from `ensureRunning` in the runner only),
`assertNotBusy` (it reads), and the user-abort marks, by which a turn tells a stop
of the user from a teardown; two cancels at once may take each other's mark.

### Runner

`st` is the value of the ref; a handle of the code (`id` in `RunHandle` and
`ShellHandle`) is a number, `fiber[i]` is the fiber forked for handle `i` and
`done[i]` its Deferred. `lock` is the semaphore of the `SynchronizedRef`, which
matters only while `startShell` runs `onBusy` inside `modifyEffect`: every other
modification is one step. `op[c]` is what caller `c` is waiting for.

| code | actions |
|---|---|
| `ensureRunning` | `JoinRun`, `QueueBehindShell`, `StartRun`, then `ReturnRun` |
| `startShell` | `StartShell` (onBusy), `ForkShell`, then `ReturnShell`; refusal when busy changes nothing |
| forked work | `PublishBusy`, `OpenLatch`, `WorkEnds` |
| `finishRun`, `complete` | `FinishRun`, `RunIdle`, `Complete` |
| `finishShell` | `FinishShell`, `ShellIdle` |
| `cancel`, `stopShell`, `idleIfCurrent` | `Cancel`, `SignalRun`, `StopShell`, `FiberStopped`, `RunSettled`, `FailQueuedRun`, `IdleIfCurrent`, `CancelIdle` |
| `awaitIdle` | `AwaitIdle`, `DrainLook`, `DrainWakes` |
| interruption | `CallerInterrupted`, `ScopeInterrupts` |

Assumptions, all about the Effect runtime, which is outside the repository: a
forked fiber has taken its first step, so its finalizer is installed, before an
interrupt can reach it; a canceller that has changed the ref runs to its end; the
caller of `startShell` is not interrupted between `onBusy` and the fork.

`SingleFlight` knows only which flight takes callers, which outcome each flight
has and which flight each caller boarded. `Runner` implements it under the mapping
`current <- st.done`, `outcome <- done` and `boarded` = the callers that wait for a
run. What this excludes: two flights open at once, a caller that boards a flight
whose outcome is already known, a flight that settles twice with different
outcomes or while it still takes callers.

### Instances

One directory and one service in several graphs. An entry of a store and the
context its boot makes have the same number; `held[g]` is the context whose state
graph `g` keeps, `retired[g]` the contexts that get no new state there.

| code | actions |
|---|---|
| `load` | `Load`, `Make`, `Loaded` |
| `boot`, `completeLoad` | `Booted`, `BootFails` |
| `InstanceState.get`, `forEach` | `Get`, `Pin`, `Unpin` |
| the disposer of a state | `RunDisposers` (retire in every graph), `Invalidate`, `Closed` |
| `reload` | `Reload`, `Drained`, `Switch` |
| `dispose`, `disposeAll` | `Dispose`, `DisposeGone`, `DisposeAll`, `ResolveFailed`, `ResolveOther`, `ResolveOwn`, `Disposed` |

Limits of the code: a context whose state was never made is not retired, so a stale
user may make one; two reloads may drain the same predecessor
(`project/instance-store.ts:124`); a dispose gives up after its timeout. Left out:
`invalidate`, which nobody calls.

### Refresh

A credential is a login and a generation within it, which is what
`credentialRevision` tells apart. The account service is external: it accepts one
generation of each login. A process started for a workspace reads the snapshot it
got in its environment (`AUTH_CONTENT`) and writes a file nobody else reads.

| code | actions |
|---|---|
| `runRefresh` | `Begin`, `Present`, `Discard`, `Exchange`, `ExchangeLost`, `Refuse`, `Reload`, `GiveUp`, `RefuseAgain`, `Fail` |
| `persistTokens`, `persistRuntimeKey`, `modifyCurrentCredential` | `PersistTokens`, `PersistKey`, `Outdated`; `StoreFails` when `Auth.modify` throws |
| `Auth.set`, `Auth.remove` | `Login`, `Logout` |
| the service, `remote-control/gateway.ts` | `Revoke`, `Told` |
| processes | `Spawn`, `Restart` |

Limits of the code: a second process that presents a token which the first has just
exchanged, and has not stored yet, is refused twice and reports an expired login; a
snapshot workspace and the desktop share one refresh token; and when the file cannot be
locked or written after an exchange, the token just received is thrown away with the
error (`StoreFails`), after which the login is expired. Left out: the limit of 32
refused credentials a process remembers.

### Flock

All contenders run on one host. Times are ages in ticks, up to the first age that
is stale. Every file operation of the code is an action of its own.

| code | actions |
|---|---|
| `acquire`, `acquireLockDir` | `Acquire`, `GiveUp` |
| `tryAcquireLockDir` | `Mkdir`, `StatLock`, `ReadOwner`, `MkBreaker`, `StatBreaker`, `RmBreaker`, `RemoveFile`, `RemoveDir`, `Remkdir`, `Unbreak`, `WriteHeartbeat`, `WriteMeta` |
| heartbeat, `release` | `Beat`; `Release`, `RemoveFile`, `RemoveDir` |
| surroundings | `Crash`, `Tick` |

Two assumptions carry the exclusion, and each is a constant so that it can be dropped: an
attempt or release takes at most `staleMs` (`Lag <= Stale`), and a recursive `rm` meets the
heartbeat before the meta file (`~AnyOrder`, what `readdir` gives on the usual file
systems). The third thing it needs is not assumed: `robbed` notes that a breaker was removed
while somebody cleaned under it, and `HolderOwnsTheLock` speaks of what happens before.
Without any one of them TLC shows a violation
([section 4](#4-disagreements-between-the-code-and-its-texts)).

### SyncEvent

`row[n]` is the sequence row of database `n`, `table[n]` its event rows, `made`
the ids `EventID.ascending` has given out anywhere. An event is its id and its
number: the payload is abstracted, since the code reads none of it here.
`run` is one step, because it reads and appends in an immediate transaction. `replay` is
two: it reads the row outside any transaction (80–100) and may yield (105–106) before
`process` stores the event in a transaction of its own (284). Other processes on the same
database and other fibers come in between; `hand[h]` is what replayer `h` has checked and
not stored yet.

| code | actions |
|---|---|
| `run` | `Run` |
| `replay`, `replayAll` | `Check` (`Takes`), or nothing when it `Passes` or throws; then `StoreChecked`, a `Conflict` of the primary key rolling back |
| `claim`, `remove` | `Claim`, `Remove` |

`replayAll` is one `replay` after the other: the check that a batch has no gap (116–122)
only refuses more. `SyncNext` lets any peer send any event at any time. The
model is of the configuration with the experimental-workspaces flag, the only
one in which events are stored at all.

### Warp

The module extends `SyncEvent`, whose databases it uses (`Nodes` are the control plane and
the remotes, `Owners` the places a session can be at); the events carry, besides their id,
the workspace they set (`says`), which the session projector puts in `attached` in the same
step. A local workspace shares the control plane's database; the project itself
(`workspaceID` null) is `Home`. The replayers are the sync loop of each remote and
`sessionWarp` (hand `Ctl`), whose batches the target replays.

| code | actions |
|---|---|
| routing of a prompt by `workspace_id`, `isSyncing` | `StartTurn` |
| a turn | `TurnWrites`, `TurnEnds` |
| `syncWorkspaceLoop`, `startSync` | `Connect`, `SyncHistory`, `ReplayHistory`, `Deliver`, `LoopStores`, `Disconnect`, `StartSync` |
| `sessionWarp` | `WarpStart`, `WarpSyncSource` or `WarpCancelSource`, `WarpReplays`, `WarpStores`, `WarpClaim`, then `WarpToLocal`, or `WarpReadRows` and `WarpSteal`; `WarpFails` |

`link[w]` is "down" (the stream ended, the loop reconnects), "error" (a request failed, it
retries), "history" and "live", or "dead": the fiber of the loop is over. It ends when
reading the stream fails, for `parseSSE` (374) fails and nothing inside the loop catches
that (446–453), and when a replay of the history throws; only a new `startSync` begins
again (`StartSync`). A replay that throws on the stream is only logged.

The history request and its answer are one step, and what it brought (`answer`) is replayed
event by event before the stream, which was opened first, is read. The batches of a move are
replayed event by event too, so a request that fails (`WarpFails`) leaves what the target
has stored by then; a target never goes on with a request that the move has given up.
`WarpSteal` ends the move whether or not its answer returns. `late` is history: the events
whose replay was under way at a claim and were stored after it.

### Automation

The clock counts minutes, which is the tick of the scheduler. `auto` is the row
of the automation, `runs` the rows of its runs, `task` the executions in flight,
one per process (the in-flight set of `scheduler.ts`) and one per click. Each
`await` of `run.ts` ends a step: `claim`, `gate`, `defer`, `begin`, `ready`,
`turn`, `harvest` are the places where an execution may stand. `seen` in a
row, `claimed` and `rearmed` are history: whether the user dealt with a run, which
instants were claimed, and which of them a deferral wrote back. Opening a run that is still
going on is dealing with it: `setRunRead` has no condition
(`automation/automation.ts:505`), and the page marks whatever run is clicked. `Threaded`
distinguishes automations bound to an existing conversation, the only ones that pass the
gate and may be deferred. A run can be
archived only after it settled because the page offers it only then
(`packages/app/src/pages/automation/detail.tsx:451`).

## 3. Runs

| run | question | bounds | result |
|---|---|---|---|
| `prompt` | is every message answered once, in its turn or by the stop, and does everybody return? | 2 prompts, 1 stop, 1 detour (a steering message, a step with tools, or a failing run) | holds |
| `prompt_stop` | does a stop hit only the turn it claimed? | 2 prompts, 1 stop | violated |
| `run_state` | is a turn found from every graph, is the index forgotten, is rest announced? | 2 graphs, 2 callers, 3 states, 3 runners, 3 turns, symmetric | holds |
| `run_state_drain` | does a drain see every runner that is busy? | the same with 3 callers | violated |
| `runner` | can any interleaving of callers lose work, run two turns, announce wrongly or break the promise, and does a cancel answer everybody? | 2 callers, 3 handles | holds |
| `instances` | does anybody wait for a drain, does anything retired come back, does every call end? | 1 graph, 2 callers, 3 entries | holds |
| `refresh` | is a login undone, the live token dropped, something live condemned? | 2 symmetric processes, 2 logins, generations 0 to 2 | holds |
| `flock` | has the lock one owner, and is a lock left behind cleared? | 3 processes, a breaker that may be left, stale after 1 tick, attempts of at most 1 tick | holds |
| `flock_breaker` | does only one contender clean when a breaker was left? | the same | violated |
| `warp` | does moving a session from anywhere to anywhere keep copies equal and current? | 2 remotes, 1 local workspace, 3 events, numbers up to 2, 1 move, 1 lost connection | holds |
| `automation` | is an instant executed again only after a deferral, does a result stay unread, are orphans settled and due instants served? | 2 processes, threaded, 1 click, 4 minutes, 2 runs, 1 crash, 1 edit | holds |
| `automation_rearm` | is an instant executed once when deferrals come late? | 2 processes, threaded, 5 minutes, 3 runs | violated |

Why these bounds are enough for the cases that matter:

* **Prompt.** Two prompts are a turn and the next one queued behind it, or two waiters
  of one turn; one stop meets every place the two requests and the loop can be
  at. A detour makes the loop read the log again within a turn; each of the three
  kinds is met at every point, and they are shared in one bound because each only
  lengthens the turn. The safety properties were checked with two detours as
  well (9.8 million states, too many to be kept as a run). All but the liveness property are
  theorems for any bounds.
* **RunState.** The stories are a turn started through one graph and found through the
  other, a runner that is cancelled while its successor starts, and an instance
  torn down while its runner is cancelled. They need two graphs, two callers and
  three states (one torn down, its successor and one in the other graph). The
  theorems lift the bounds.
* **Runner.** The longest story the code has is: a shell runs, a run queues behind
  it, a cancel frees the ref, a new activity starts, and the old fibers and the
  canceller finish in every order. That needs three handles (shell, queued
  Deferred, newcomer, or shell, Deferred and the fiber of the hand-over); callers that
  have been answered come again, so two are enough. The theorems cover every
  number of callers and handles.
* **Instances.** Three entries are an instance, its reload and the one after it; two
  callers are a reload and what interferes with it. The properties are proved for
  any number of graphs and callers; the run has one graph because a second only adds
  disposers.
* **Refresh.** Two processes are enough for one to present what the other has just
  exchanged; two logins for an answer to arrive after the next login; generations
  0, 1 and 2 for a rotation of a rotation.
* **Flock.** A crashed owner (`Past`), a breaker it may have left, and three live processes:
  one that cleans, one that waits for it, and one that comes in between. Ages count up to
  the first stale one, so time needs no bound.
* **Warp.** The session starts at the project, in a local or in a remote workspace. Three
  events: the first, one written before or during the move, and the move itself (or two and
  no move); every replay may be split by any of the other steps. One lost connection is
  enough to lose any suffix of a stream or to end a loop, and one failed request to stop a
  move at any point. The run takes a careful user, who is defined in section 4; that is what
  `LogsAgree` and `StolenWithHistory` need when a session starts at the project. Ids are used
  in order (`RunSaying` takes one new id), which is sound because nothing compares ids except
  for equality. The inductive invariant of the proofs was checked on an instance with four
  events, numbers up to three and two moves; the theorems cover any number.
  `SyncEvent` has no run of its own: its steps and assumptions are those of this one, and its
  theorems speak of any peer.
* **Automation.** Two schedulers and a click share every row. Four minutes with
  a timeout of one let an instant come due, be claimed by one or the other, be deferred, come
  due again and time out; the edit is a saved schedule, a switch, or an archived run.

What each property says is in the comment above its definition. Every property of
a passing run is also known to fail for at least one plausible bug in the code it
is about; those bugs are the operators marked `Mutant:` next to the definition
they replace and are used by no specification. Type invariants are in no run where
a theorem states them.

Deadlock is checked for the runner (a caller may always begin to drain) and for the file
lock (time goes on). The others stop when their bounds are used up.

## 4. Disagreements between the code and its texts

Each is a run that finds its property violated; `PROJECT.json` quotes the text.

* **A stop hits the next turn** (`prompt_stop`). `cancel` claims the turn under the
  turn lock, then writes the goal and the fibers' fate, then cancels the runner. The
  loop's switch to the next turn looks at no epoch, so the run may have answered the
  claimed turn and moved on, and what is aborted is the answer to the next turn.
* **A drain misses a runner** (`run_state_drain`). `onIdle` takes out of the table
  whatever runner is listed for the session, unlike the line after it, which asks
  whether the index still names this one. When a cancelled runner announces idle late,
  its successor is dropped, and a drain that begins then tears the instance down
  under the successor's turn.
* **A late deferral re-arms a claimed instant** (`automation_rearm`). `deferRun`
  writes unconditionally, unlike the claim. This concerns automations bound to a
  conversation when several processes schedule them. The same write also replaces a
  schedule saved while the gate was awaited.
* **Two clean at once** (`flock_breaker`). `only one contender performs stale cleanup` says
  the comment on the breaker (`packages/core/src/util/flock.ts:220`). An old breaker is
  removed by its path (203–208), some time after it was looked at: two who found the breaker
  of a crashed process old remove it one after the other, and the second removes the one that
  a third has made in between, so that the third and whoever comes next both clean.

Some properties one might expect hold only under an assumption. The assumption is
a constant of the model or of its instance, or a condition in the property; otherwise TLC
finds a counterexample, and the property is stated only as far as it holds.

| property | of | fails with | because |
|---|---|---|---|
| `LogsAgree` | `Warp` | `Starts = {Home}`, `CarefulUser = FALSE` | a session without a workspace is neither stopped nor claimed when it is moved, so its turn goes on numbering events that the target numbers too; `sync/README.md` builds on one writer |
| `StolenWithHistory` without `OneWriter` | `Warp` | `MaxWarps = 2` | a session that comes back to a workspace it was moved away from finds its old copy there; numbers in it name events the control plane never heard of, and `sync/index.ts:89` skips a known number without looking at what it names. And one that came back to the project is moved on without a claim, although a turn may write |
| `SlotClaimedOnce` | `Automation` | `Threaded` and two processes (run `automation_rearm`) | a late deferral; `ClaimedAgainOnlyIfRearmed` is what holds |
| `OneManualRun` | `Automation` | two clicks | the check for a second click (`automation/run.ts:367`) looks for a record that is written two awaits later |
| `RetiredIsLeaving` | `Instances` | `Graphs <- BothGraphs` | the disposers of all graphs run for a directory, also where the store has another entry of it |
| `HolderOwnsTheLock` | `Flock` | `AnyOrder = TRUE`, or `Lag = 2`, or without `~robbed` | a contender sees a meta file without its heartbeat; an attempt outlives the lock it has made; two cleaners, one of which removes the lock the other has made |

`CarefulUser` means: the user moves idle sessions and waits until a move shows
before prompting again.

The models also show what the code does not do, and the properties say so:

* A replay checks outside the transaction that stores (`sync/index.ts:80-109`; the comment at
  151–153 calls the immediate transaction critical for `run`). An event whose replay was under
  way at a claim is stored after it, contrary to `control-plane/workspace.ts:566-567`. After a
  move to a local workspace it may share its number with the event of the move, and the row may
  fall below numbers that are stored; stored after the rows were read, it is missing where the
  session was moved to (`late`). A replay under way when the session is removed brings its
  event back (`NoneRemoved`). `CountedIsStored` is what holds of one database in any case.
* A turn in a local source is cancelled, but one that starts there after the rows were read
  writes events the target never gets (`control-plane/workspace.ts:563`;
  `StolenWithHistory` exempts them).
* Nobody who sends events names a sender, so after a claim `sync/index.ts:91` ignores the new
  owner as well: the copy of a session that was moved from a workspace stays behind for good
  (`Unclaimed` in the liveness properties).
* A sync loop whose stream could not be read is over until `startSync` is called again
  (`link[w] = "dead"` in the liveness properties).
* A running run that was opened is read, so its result, a failure too, never counts as unread
  (`automation/automation.ts:505`, `packages/app/src/pages/automation/detail.tsx:81-84` and
  412), which is what the comment at `automation/automation.ts:523-524` wants to prevent in
  `markAllRunsRead`.
* A failed write of `auth.json` drops the token that was just exchanged, and with it the login
  (`auth/index.ts:97-121`, `provider/wanlaicode-refresh-coordinator.ts:127` and 256).
* The teardown of an instance may cut off the announcement of idle, and the answer to whoever
  waits for that turn (`session/run-state.ts:107`, `effect/instance-state.ts:60`).

## 5. Fairness

* `Runner!FairSpec`: weak fairness of each caller's own continuation and of each
  fiber: its finalizer, a shell opening its latch, interrupted work ending (of these
  at most one is enabled at a time, so one condition per fiber says the same as three).
  The Effect scheduler runs every runnable fiber, and model streams and tools honour their abort
  signal. A healthy turn is *not* assumed to end: it may wait for a user.
  Weak fairness is enough because a step that waits for the lock is disabled only
  while `onBusy` runs, and there are finitely many handles.
* `Prompt!FairSpec`: weak fairness of what a request does after it stored its
  message, of each waiter, of each run's loop, and of a stop that has begun. Nobody has
  to send a prompt, steer or stop. A model call is assumed to end, well or badly (one
  that hangs is what a stop is for), and the detours are bounded. `Store` needs no
  fairness: `EverybodyReturns` is about those who have stored.
* `Instances!FairSpec`: weak fairness of each caller's continuation, and of each boot,
  which ends well or badly.
* `Flock!FairSpec`: weak fairness of time and of each contender's attempt. A holder
  may keep the lock for ever, and anybody may crash.
* `Warp!FairSpec`: weak fairness of each remote's sync loop while its fiber lives: it retries
  a failed request and reconnects after the stream has ended, with a delay, and reads what
  arrives. An error while reading ends the fiber (`control-plane/workspace.ts:374`, 446–453),
  and nobody is obliged to start it again (`StartSync` has no fairness); the liveness
  properties exempt that. Nothing is assumed of warps, turns or users, and connections may
  break up to the bound.
* `Automation!FairSpec`: the clock advances to the bound, timers fire, awaits
  return. A turn may hang for ever, a user may do nothing and a dead process may
  stay dead: the liveness properties therefore assume that some process eventually
  stays up, and exempt behaviours that hit a bound of the model (`OutOfBounds`: no record
  is left for a run, or the last minute comes before the timeout).
* `RunState` and `Refresh` have no liveness properties: that a cancelled turn ends is
  the runner's, and whether a refresh ends is up to the account service.

## 6. Proofs

All theorems hold for every value of the constants, under the assumptions named in
the modules. Those of the form `ASSUME ...Assumption` say only that bounds are
numbers and that null values are not real ones; the others are in the theorems' own
`ASSUME` and are listed here. Each argument is an inductive invariant, checked by
TLC on the instance first; each proof has one step per action and, where an
invariant has several conjuncts, one lemma per conjunct.

**Runner** (`RunnerProofs`): all its properties but the liveness ones, and
the refinement `Spec => ImplementsSingleFlight`. `BusyIsLive` alone is not
inductive: that the ref's Deferred stays open needs to know that nothing else
can complete it. The inductive invariant `RunnerInv` adds

* `RefShape` – each tag carries exactly its own handles;
* `Fresh` – handles above `ids` have no fiber, no Deferred and no mention;
* `LockHeld` – while the ref is locked it is Idle and a handle is left for the shell;
* `RunFibers` – a run that is not over settles its own Deferred, and if the ref
  names that Deferred it names that run: so a replaced run cannot settle the
  Deferred of its replacement;
* `CallersKnow` – a cancel in flight never holds the Deferred the ref names now:
  so `FailQueuedRun` cannot fail somebody else's run.

`RunnerInvInductive` goes through the actions one by one. `OwnerStep` shows the
action property from the same invariant, and `BoardStep` maps every step to a step
of `SingleFlight` or a stutter: `StartRun` and `QueueBehindShell` open a flight,
`JoinRun` boards, `FinishRun` and `Cancel` close, `Complete` and `FailQueuedRun`
settle, and `RunFibers` and `CallersKnow` give `f # current` in the last case.

`NoLostWaiter`, `StrayWorkIsBeingStopped` and `QuietIsAnnounced` say who still owes
something to whom. Their invariant `RunnerDebts` adds to `RunnerInv`

* `OpenIsOwed` – `NoLostWaiter`, and that a cancel which is to fail a queued run stops a
  shell: so the end of a run never leaves such a Deferred open;
* `StraysAreAwaited` – a run that the ref does not name is awaited by the cancel that
  took the ref from it, which is why that cancel announces idle only after it;
* `BusyIsExplained` – the session is shown as busy only while the lock is held, the ref
  is not Idle, or a fiber or a cancel is still on its way to `announce`.

**Prompt** (`PromptProofs`): all its properties but the liveness one and
`StopHitsItsTurn`, for any number of requests, stops and detours. The steps are
described first, action by action (the lemmas `...Shape` say what becomes of the log,
the lemmas `...Steps` who moves and what that leaves alone), and the parts of
`PromptInv` are then shown from these descriptions:

* `LockIsHeld`, `RunnerHoldsIt` – a stop under way has the prompt lock, and only the
  run that the runner holds still has something to do;
* `StopsMeetNothingNew` – whatever is under way while a stop is between its claim and
  the end of the run was asked for in an earlier epoch;
* `OldRunsAreStopped` – so a run of an earlier epoch goes on only until that stop
  cancels the runner, which gives `NothingOldIsSampled`;
* `ActiveHasRun`, `ScheduledHasRequest` – a turn is active or scheduled only while
  somebody is on the way who will clear it, which gives `NothingLeftBehind`;
* `ActiveIsServed`, `SteersAreMinded` – while no run has failed (`FaultsAreCounted`) the
  active turn is the one its run serves, and a steering message that waits belongs to
  it or to a stop that has not settled yet, which gives `SteerIsKept`.

Two more invariants rest on `PromptInv`. `QueueInv` is about who is answered, and gives
`AnsweredUnlessStopped`: a request whose message missed the last look of one run goes to
the runner a second time, and must meet a run that began later.

* `CloseKnows`, `ServedIsActive` – a loop that comes to close its turn has answered all
  it knows of, and nobody has taken the turn from it, so that it looks at the queue;
* `RunsEndDone` – so a run that ends has left no request in the queue that was stored
  before the run began (`BasesArePast`: `base` is the length of the log then);
* `RoundsAreNew` – and the run that a request waits for in its second round began after
  the message was stored. Whoever has looked at the log finds the runner idle, or with a
  run of that kind (`RunIsAlive`).

`AnswerInv` is about what the answers say, and gives `OneAnswer`. The difficulty is that
an answer (`end` is `stop`) and the note of whom it was for (`covers`) are two writes,
between which the run may be cancelled.

* `AnswersAreOfTheTurn`, `StepsAreOfTheTurn` – an answer follows its message, in its turn;
  a run takes messages of its turn only; and while its answer is under way, that answer
  is the last message of the log that is not a user's;
* `AnsweredAreNamed` – whoever was answered is known to be, or the run that answered is
  about to note it, or the stop which cancelled that run is about to settle the turn;
* `StepsAreNew` – so nobody who was answered is picked by a run that reads the log: the
  only run that could still owe the note is the reader itself, and no stop waits for the
  end of a run while a run serves a turn (`ServedAlone`);
* `AnswerIsLast` – and nothing is said to a message after its answer.

`OneAnswer` assumes that no run has failed. With a failed run and a stop TLC finds a
second answer at `MaxDetours = 3`: a steering message that the failed run left in the
queue is answered by a later run, which is cancelled before the note; and the stop that
cancels it settles the turn that it has claimed, which is another.

**RunState** (`RunStateProofs`): `RunStateTypeOK`, `CancelReaches`,
`IndexIsForgotten` and `QuietIsIdle`, for any number of graphs, callers and
instance states. That a cancel finds the turn follows from `WorkIsIndexed` (a turn
is at work only in an open instance, on the runner that the index names) and
`BusyWithItsOwn`. They need `IndexCovers` (whatever a table holds is in the index,
which was filled first and is emptied last), `FoundHaveHomes`, `CellsAreOpen` and
`FinalizersWaitForOne`. `IndexIsForgotten` and `QuietIsIdle` speak of
who is still about to act, so their induction needs `StraysAreAwaited`: a turn its
runner no longer knows has a canceller or a finalizer that waits for it. `QuietIsIdle` says
nothing of a session whose last announcement was cut off (`silenced`), which only a teardown
can do.

**Instances** (`InstancesProofs`): `InstancesTypeOK`, `NobodyWaitsForADrain`,
`NeverRevived`, `PinnedStateLives` and `OnlyItsOwnDispose`. The parts are
`ReloadsAreApart` (a reload has an entry nobody else can find until it switches),
`DisposesKnow` (a dispose keeps the entry it found), `PinsHold` (the listed context
is the one whose state is there, and a retirement that waits has unlisted it) and
`EntriesBelong`.

**Refresh** (`RefreshProofs`): the type invariant and all five properties, for any
number of processes, logins and rotations. `NothingFromTheFuture` bounds what anybody
has heard; `DeadStayDead` says that what a refused process holds is dead for good,
which gives `OnlyDeadIsCondemned`; `RunShape` and `ChainShape` tie each refresh to
the credential it set out from; `FileMovesOn` says that the file never returns to
where a chain of rotations began, so that comparing revisions before writing is
enough; `WorkspaceOnItsOwn` is the same for the processes with a snapshot. `LiveTokenIsHeld` exempts
the tokens that were lost with an answer, a write or a process: the service's state then is
`Lost`.

**Flock** (`FlockProofs`): `FlockTypeOK` for all values of the constants, and
`HolderOwnsTheLock` for any number of contenders and any `staleMs` under `Surroundings`:
`Lag <= Stale` and `~AnyOrder`. The invariant is `~robbed => Orderly`. The argument is about
ages: `CleanersHoldTheBreaker` says that a breaker in use is younger than the attempt of the
one who made it, so that only a breaker found earlier can be taken from under it (`robbed`);
until then there is one cleaner (`OneCleaner`) and one claim on the lock (`OneClaim`).
`ClaimShape` says what the one who made the directory finds in it and that it is no older
than its attempt; `ReadersKnow` says what a contender that found the lock stale may rely on
although the lock changed hands meanwhile: either everything there is young, or it has the
breaker and nobody claims the lock.

**SyncEvent** (`SyncProofs`, first part): `SyncTypeOK`, and `CountedIsStored` as long as no
session is removed (`NoneRemoved`), whatever the peers send and whoever comes between the two
steps of a replay. `CountedIsStored` is not inductive, since a replay stores by a check that is
out of date by then: what it needs is that the numbers below an accepted event are stored
already, and stay so (`HandsFollow`), whatever has become of the row. `SyncInv` adds the
primary key (`IdsAreKeys`) and that `run` hands out no id twice (`IdsAreMade`).

**Warp** (`SyncProofs`, second part): `WarpTypeOK` and `CountedIsStored`, and
`OldWorkspaceIgnored`, for every user; `LogsAgree` and `StolenWithHistory` for a careful one, or
for any user of a session that did not begin at the project (`CarefulUser \/ Home \notin
Starts`); all for any remotes, directories, events, lost connections and moves. The
invariant is `WarpInv`, which adds to the types and to the parts above:

* `CopiesAreKept`, `RowsAreOfTheLog` – what is on a stream, in an answer or in the hand of a
  loop is in the remote's table, and what is still to be posted is in the control plane's: so a
  replay only ever copies rows that its sender stores;
* `LoopsHold`, `WarpHolds` – whose hand holds what, and where it stands then;
* `SourcesAreClaimed` – a session that is moved from a workspace is claimed before its
  log is copied, which is why `Unclaimed` means that a move starts at `Home`;
* `OneLeads` – while one device writes there is a node that has all events (`HasAll`), no log has
  an event above the number of its row and a number is that of one event (`InOrder`), and that
  node is the only remote the session can be at (`IsPlaced`, and the log says so, `SaysSo`),
  is the only one with a turn (`TakesTurns`), and is left only with the log to its end
  (`LeavesWithAll`). The leader changes only in
  `WarpSteal`, from the control plane to the target, whose table is the same by then. A session
  that began at a workspace has not been moved while `OneWriter` holds (`HasItsPlace`), so
  nothing leads to `Home`.

The key to the two-step replay is `HeldIsNext`: an accepted event is the next one of its
database, or is there already, because all who replay for it copy from the same log; so a check
that is out of date does no harm while one device leads. That every table is a part of one log
that is totally ordered is `LogsAgree`. A session that began at the project needs a careful
user: it is neither stopped nor claimed when it is moved, so its turn must be over, and the next
prompt must wait until the control plane takes it to be where it is (`MoveShowsLeader`), or two
nodes number events.

**Automation** (`AutomationProofs`): `AutoTypeOK`; `ResultStaysUnread`, from `UnseenIsUnread`;
`ClaimedAgainOnlyIfRearmed` for any number of processes, crashes and edits, from
`ReclaimsAreRearmed` – no instant yet to come was claimed, and `next_run_at` holds a claimed
one only where a deferral has put it back; and `SlotClaimedOnce` under `NoLateDeferral` (no thread
gate, or one process). The last rests on `ScheduleMovesOn` – every claimed instant is in the
past and before `next_run_at` – which a deferral keeps because of `DeferralsMoveOn`: what it
is about to write lies after every claimed instant. That is what breaks with two
processes, in `automation_rearm`.

Only model-checked: all liveness (out of reach of the prover, like `ENABLED`);
and the properties that their code breaks, `StopHitsItsTurn`, `DrainMissesNobody`,
`OneCleaner` ([section 4](#4-disagreements-between-the-code-and-its-texts)).

## 7. What is not modelled

* *Of the prompt:* what is listed with it in [section 2](#prompt). Shells
  take the runner through `startShell`, which `Runner` has; subtasks, compaction and
  structured output lengthen a turn.
* *Of run state:* the user-abort marks, `startShell`, `assertNotBusy`.
* *Of the runner:* interrupting a canceller; `busy` and `state` getters.
* *Of the instance store:* `invalidate`, more than one directory (directories share
  nothing but the process), the timeout of a dispose.
* *Of the refresh:* the delay before the next one, the limit on remembered refusals.
* *Of the file lock:* several hosts (the owner named by another host counts as gone),
  permission errors.
* *Of sync events:* projectors (they commit with the rows), subscribers and the bus
  (they read), the payload conversion.
* *Of workspaces:* creating, listing and removing workspaces and their adapters,
  `waitForSync` and the fence header, sync loops of other processes (the turns and moves of one
  control plane are interleaved with its own loops), a request the target still works on after
  the move has given up, sessions that are adopted by another workspace, more than one session
  (sessions share no rows).
* *Of automations:* creating and removing them, calendar schedules (an interval has
  the same shape: strictly later than now), `MAX_PER_TICK`, harvesting of
  directives from the answer, wording of summaries.
* *Goal runtime:* after each idle event it asks a model whether the goal is reached and
  sends a prompt of its own. Whether a pause is kept depends on the order of stored
  goal records, that verdict and the prompt's stop; the hazard is listed without a
  property.
* *Permissions, questions:* one Deferred per request, answered, rejected or
  interrupted in one step each.
* *File lock for Effect code* (`packages/core/src/util/effect-flock.ts`): the same files
  without asking whether the owner's process lives. The mutant `NobodyAlive` of
  `Flock` is its rule, and violates `HolderOwnsTheLock`.
* *Session processor, revert, compaction:* message lists produced by models. Reply
  generations decide only which failure is reported.
* *Database, storage, bus:* transactions and synchronous publishing are taken as
  atomic, which SQLite and the event emitter provide.
* *Remote-control gateway:* most of its protocol is the relay service's and the mobile
  client's, which are outside the repository.
* *PTY, shell, MCP, LSP, ACP, snapshots, worktrees, providers, tools, skills,
  plugins, memory, server routes, user interface:* I/O with outside programs, or
  rendering. What they hand to modelled components appears there as a choice.

## 8. What remains

In order of importance:

1. `Goal`: continuation on idle with interrupt epochs, suppression and the cap, composed
   with `Prompt`'s stop. Property: after a pause that returned, no turn for the goal
   starts.
2. `Prompt` with subtasks, shells and passive teardown, over `RunState`; the user-abort
   marks.
3. `Requests`: permissions and questions over one abstract "pending request"
   specification which both implement.
4. An abstract specification for `Flock` (a mutex with crashes), of which
   `HolderOwnsTheLock` is the safety half.
5. Further theorems: what still holds of the logs when a session comes back to a
   workspace it was moved away from ([section 4](#4-disagreements-between-the-code-and-its-texts)).
