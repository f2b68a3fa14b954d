# kclaw in TLA+

kclaw is a personal agent: one daemon (`packages/server`) holds every session's
state, the command line and the web page are clients of it, and
`packages/core` is the library both are built from.  This directory holds TLA+
models of the daemon's control logic, the TLC configurations that check them,
and TLAPS proofs.  Every definition is translated from the source; the lines
each one stands for are in `PROJECT.json` under `map`.

## The system

All of it is single-threaded JavaScript: a synchronous method is atomic, and
interleaving happens at awaits, timers and callbacks.  The daemon persists to
JSONL files and SQLite and may be killed at any point.

| component | state | operations | talks to |
|---|---|---|---|
| **run queue** `server/run.ts` | per session: executable queue, steer buffer, driver loop, active run, wake counter; `queue.jsonl` | submit, cancel, queueCancel, stopAndClear, drainSteer, retry, recoverQueues | agent loop (executes runs), every host below (submits), idle edge (`onSessionIdle`) |
| **agent loop** `core/agent/loop.ts`, `run-assembly.ts` | one run: messages, iteration, abort signal | provider call, tools, steer drain at turn boundaries | run queue, hooks, permissions, session store |
| **goal loop** `server/goal-loop.ts`, `core/goal` | goal snapshot and events (persisted); armed, judging, windDownPending, last round (memory) | set, pause, resume, userStop, clear, onIdle, check | run queue (rounds), judge LLM, sandbox |
| **team** `server/team.ts`, `core/team/store.ts` | members, task board, mailboxes (files); running, in-flight mail, offers (memory) | send, dispatch, land, flip, pump, task_update | run queue, event bus |
| **subagents** `server/subagent.ts` | running children, completions | spawn, deliverCompletion | run queue |
| **cron** `core/cron/scheduler.ts`, `server/scheduler-tick.ts` | SQLite rows; runs in flight | claimDue, fire, markRun, stop | run queue |
| **confirmations** `core/permissions/broker.ts` | pending questions with expiry | create, resolve, expire | agent loop, WebSocket |
| **permissions** `core/permissions/engine.ts` | rules, modes, learned streaks | decide, learn | agent loop |
| **session store** `core/session/store.ts` | `events.jsonl` with a hash chain, `meta.json` projection | appendEvent, rebuild, purge | everything |
| **compaction** `core/session/compactor.ts` | cancelled, in-flight, parked, deferred | background, auto, manual, cancel | agent loop, run queue |
| **MCP connections** `core/mcp` | connection state, backoff, generation | connect, close, reconnect | tools |
| **process registry** `core/process/registry.ts` | entries, notice journal | register, settle, kill, adopt | run queue (wake-ups) |
| memory, skills, hooks, providers, tools, routes, Feishu, clients | mostly data and I/O | | |

Hard behaviours: submission racing the end of a run; cancellation racing the
driver; a failed write or a crash between two updates of memory and disk;
machine messages that wake machine messages; checks that await for minutes
while users act; delivery that is only known to have happened one await later;
timers that outlive what they were set for.  `PROJECT.json` lists each under
`hazards`, at its line, with the property that covers it or why none does yet.

What makes each component correct:

- run queue: a message runs at most once, in the order of submission; nothing
  acknowledged is lost; a withdrawal is final; someone drives what waits;
  callers get an answer; the limits hold.  *Modelled, checked, proved but for
  liveness.*
- goal loop: it acts only while armed, what starts stays within its limits, it
  never stalls silently, comes to rest, and respects what users did meanwhile
  (but for the cases listed under the disagreements below).  *Modelled,
  checked, proved but for coming to rest.*
- team board: a member executes one task at a time, dependencies have no cycle,
  a late write of an old attempt changes nothing, locks are repaired after a
  crash.  *Modelled, checked, proved.*
- team mail: what is recorded as delivered is in the reader's history, it is
  there twice only after a failure, no message is pinned to a run that is over,
  and although nothing polls, every message arrives.  *Modelled, checked,
  proved but for the arrival.*
- cron: no cron runs twice at once, no point in time is answered twice, a
  stopped daemon starts nothing.  *Modelled, checked, proved.*
- compaction: no summary stands for a turn it never saw, the automatic
  compactions exclude each other, every waiting handler is woken.  *Modelled,
  checked, proved.*
- session store: what a retry hid stays hidden, a summary speaks only for shown
  messages, the projection catches up with the stream after a crash.
  *Modelled, checked, proved.*
- process registry: no background command is forgotten, and none is reported
  twice but for a fault.  *Modelled, checked, proved.*
- MCP connections: no open transport without an owner, no record that waits for
  nothing.  *Modelled, checked, proved (both off the race of
  `OneConnectAtATime`).*
- confirmations: both waiters of a question agree on the answer, and a late
  answer is refused.  *Not modelled: see the end.*

## Modules

| module | models |
|---|---|
| `RunQueue` | the run queue of one session: `class RunManager`, and of `runLoop` what the queue sees |
| `MessageLife` | abstract: what the queue promises about a message |
| `GoalLoop` | the goal loop of one session: `class GoalLoopHost`, `core/goal/derive.ts`, `check.ts` |
| `TaskBoard` | the tasks of one team: `core/team/store.ts` under the identity rules of `server/team.ts` |
| `TeamMail` | mail and task offers of one team: `server/team.ts` on the inboxes of the store |
| `CronTick` | `core/cron/scheduler.ts` and `server/scheduler-tick.ts` on `server/host-kit.ts` |
| `Compaction` | the layered compaction of one session: `core/session/compactor.ts` and its five callers |
| `SessionLog` | one session's `events.jsonl` and `meta.json`: `core/session/store.ts`, `events.ts` |
| `ProcessRegistry` | background commands and their notices: `core/process/registry.ts` |
| `ConnectionPool` | MCP records, connects and timers: `core/mcp/connection.ts`, `manager.ts` |
| `MCRunQueue`, `MCTaskBoard`, `MCProcessRegistry`, `MCConnectionPool` | the messages' triggers and the symmetries for TLC |
| `SessionProofs` | the theorems about `Compaction` and `SessionLog`, which share neither a variable nor a name |
| `RunQueueProofs`, `TaskBoardProofs`, `TeamMailProofs`, `CronTickProofs`, `ProcessRegistryProofs`, `ConnectionPoolProofs`, `GoalLoopProofs` | the theorems about the module of the name |

The components meet in the models where they meet in the code: the driver, its
idle edge and the position of a run appear in `GoalLoop`, `TeamMail`,
`Compaction` and `SessionLog` as far as each component sees them, and `RunQueue`
has them in full.  A definition named `...Late`, `...Any`, `...Anyway` and the
like, marked "Faulty", is not part of a specification: it is what the mutants
of `PROJECT.json` put in the place of the definition after it, to show that the
runs notice.

### RunQueue

Sessions share no queue state, so one session is modelled.  The variables
`queue`, `steerBuf`, `injected`, `wake` are the maps of `RunManager` at that
session; `disk` is `queue.jsonl`, `history` the user messages of the session's
JSONL; `outcome` is the promise of each queue node.  `driver` merges
`#drivers`, `#active` and the position of the driver loop: assembling
(executeRun before the agent loop), starting (`message.created` is out, the
input not appended), looping, injecting (between `#drainSteer` and the append),
and settled or failed (the microtask between the run's settlement, which clears
`#active`, and the driver's continuation).

| action | code |
|---|---|
| `Submit` (`SubmitDirect`, `SubmitSteer`, `SubmitQueued`) | `submit`: checks, wake budget, then run at once, steer, or enqueue at the tail or head |
| `RunStarts`, `AssemblyFails` | `run.started` and `message.created`; or executeRun rejects before them |
| `Land`, `HookFails` | the loop's first append of the run's input; or a hook or that append throws: `run.failed` without the message's id, and the run resolves |
| `DrainSteer`, `Inject` | `#drainSteer` and the loop's append after the boundary hooks |
| `EndRun` | the execution promise settles |
| `DriverResumes` | the driver's next beat: demote, dequeue, persist, execute |
| `Cancel`, `QueueCancelOne`, `QueueCancelAll` | `cancel`, `queueCancel`, `stopAndClear` |
| `Crash`, `RecoverQueues` | the process dies; `recoverQueues`, or its rewrite fails and the daemon does not come up |

Every write of `queue.jsonl` and of the history may fail, at most `MaxFaults`
times; `Crash` may happen at most `MaxCrashes` times between any two actions.
The ghosts `submitted`, `acked`, `cancelled`, `reported` (a failure named the
message), `broken` (a failure named the run that had shown the message),
`started` and `agentRuns` record what clients were told; no guard reads them.

`MessageLife` says what this amounts to for one message: it waits, then it
starts or is withdrawn, never back, and a waiting message is lost only once a
write has failed.  `ImplementsLife` is the refinement, under `LifeOf`.

### GoalLoop

`state`, `why` are the persisted snapshot; `armed`, `windDown`, `last`, `check`
the session's `GoalRuntime`.  A check keeps the counters it derived at its
start until its awaits are over, and so does the model: `check` holds them.
`clear` deletes the runtime while a check may still await with it; such a check
moves to `stray`, keeps its own `armed` and `windDown`, and at its end acts on
whatever goal the session has then, as the code does.

`deriveGoalLoop` scans the event stream for sums and trailing streaks.  The
model keeps its result in `derived` and updates it with each event that the
scan would see (`AfterRun`, `AfterCheck`), each counter up to the limit it is
compared with.  `running` and `pending` are the run queue as `RunQueue`
describes it, reduced to who triggered each entry; a message steered into the
active run changes nothing here.  A run is first assembled.  If executeRun
rejects then, nothing is logged, no counter moves, and the idle edge kicks the
next check all the same (`AssemblyFails`).  Once `run.started` is logged the run
is paired, or unpaired when the scan, which begins at the goal's creation,
misses its start; it then ends by `EndRun`, with or without an error.  What acceptance commands and the judge report
is any of `Results`.

| action | code |
|---|---|
| `UserMessage` | `submit` with trigger user |
| `Create`, `Edit`, `Resume`, `Pause`, `UserStop`, `Clear` | the host's operations |
| `RunStarts` | `run.started` is logged |
| `EndRun` | `run.ended` is logged; the driver takes the next entry, or the idle edge kicks a check, up to its first await (`DriverGoesOn`) |
| `AssemblyFails` | executeRun rejects before the agent loop; then as above |
| `CheckEnds`, `StrayEnds` | the rest of `#check`: audit event, liveness test, decision, stop, completion or next round |
| `CheckThrows` | its catch, and the catch in it that only disarms |
| `Restart` | memory is lost, snapshot, events and queue are read back |

### TaskBoard

`task` is the sequence of task files, `lock` the `current_tasks` directory.  An
attempt id is modelled by who `knows` it: whether a caller's id is the current
one is all the code asks.  A revision is modelled by whether anyone wrote since
the caller read (`slow`): `taskUpdate` reads the board, decides in the facade,
and updates under the store's lock, so one caller at a time may be overtaken in
between.  `since` is a ghost; no guard reads it.

| action | code |
|---|---|
| `Create` | `createTask` with its checks, by any caller |
| `TaskList` | `taskList`, which tells its caller the attempt ids of the board |
| `Read`, `SlowUpdate`, `SlowGivesUp` | `taskUpdate` of a caller that others overtake |
| `Update` | the same without being overtaken: facade rules, then `updateTask`: transition, revision, attempt, plate, dependencies, new attempt, lock file |
| `CrashInUpdate`, `CrashIdle` | the daemon dies between task file and lock file, or elsewhere |
| `Load` | the store is loaded: locks without an execution go, missing ones are written |

### TeamMail

`mail` are the inbox files; `host` is the state `#running`, `#inFlight`,
`#offered` of the host together with the live run of each session; `kept`
counts how often a message was appended to its reader's history.  A run shows
its input (`message.created`, the land watcher's cue to flip the mail to
delivered) before it appends it.  The watcher does not await its flip, which
waits for the team's lock: `flips` are under way, and may outlive the run that
showed their mail, together or one by one.  `overlooked` is a ghost: the members
whose flip was under way at the last pump that could have offered them the task.

| action | code |
|---|---|
| `SendMessage`, `DeliverUserToMember`, `UserInput` | `sendMessage` with its caps and the pump of the target; user messages to a member and to a session |
| `Show`, `Keep` | `message.created`; the append that follows it |
| `Flip`, `FlipFails` | `flipDelivered` succeeds or fails |
| `EndRun`, `RunFails` | the idle hook's pump, then the dispatch's outcome strikes the run from the ledger and pumps again |
| `LoseSession`, `Restart` | a session that refuses every submission; memory is lost, files are read back |
| `CreateTask`, `ClaimTask`, `CompleteTask` | changes of the board that bump offers |

`pumpIdle` walks the roster in order, as the code does, and gives up on the
first session that refuses; the order of its calls (mail before offers, the cap
on running members before both) is kept.

### CronTick

`row` is the SQLite table, time reduced to whether `next_run_at` has passed.
A sweep claims all due rows in one transaction and then fires them in order,
awaiting each run; `sweep` holds what each waiting sweep still has to do, and
`inFlight` is the set that keeps a cron from running twice.

| action | code |
|---|---|
| `Create`, `Update`, `Remove`, `Elapse` | `addCron`, `updateCron`, `removeCron`; time reaches a row's next point |
| `Tick` | `claimDue` and the sweep up to its first await |
| `Settles` | a run ends or fails, the sweep goes on to its next cron |
| `Stop`, `StopReturns`, `Restart` | `stop()` of the interval host, and a new daemon on the same table |

### Compaction

A history is the set of turns `hist` out of `last` created so far; a summary is
the last turn it stands for (`upto`) and the turns whose content it got
(`covers`).  `parked`, `slot`, `deferred`, `cancelled` are the maps of
`Compactor`, `jobs` the `compact()` calls in flight, `asleep` the run's place in
`#waiters`; `pc` is where the run, or its run-after chain, stands.

| action | code |
|---|---|
| `Assemble`, `AssemblyFails`, `Begin`, `Steer` | the run is assembled with a view of the history, appends its input, and takes steered messages |
| `Background`, `TakeParked` | the background waterline; the parked result taken at a turn boundary |
| `PanicSleeps`, `PanicGoesOn` | the mid-run waterline: wait for what is in flight, compact |
| `RescueSleeps`, `RescueGoesOn` | the same after a context overflow |
| `RunEnds`, `FlushSleeps`, `FlushGoesOn`, `PostRunSleeps`, `PostRunGoesOn` | the run-after chain: a deferred `/compact`, then the hook |
| `Applied`, `Fails` | a `compact()` call returns: append and park, or an error, an abort, a failed append |
| `Abort`, `Cancel`, `Compact`, `Retry`, `Restart` | user abort, `cancelCompaction`, `/compact`, `retry`, restart |

### SessionLog

`stream` holds the complete lines of `events.jsonl`, `torn` whether half a line
follows, `metaFile` is `meta.json`: the projection and the length of the chain it
has seen.  The hash chain is reduced to that length, and of the projection the
anchor of the compaction and one setting are kept, the two ways a field is
projected (cleared by later events, or last one wins).  Ids are numbers in the
order `newId` mints them: a queued message has its id long before it lands.
`compacting` are the `compact()` calls that chose an anchor and await the model:
those of a run hold off retry, the one `/compact` makes on an idle session does
not.  `overtaken` is a ghost: the anchors that a retry hid under such a call.

| action | code |
|---|---|
| `Submit`, `Withdraw`, `Land`, `Reply`, `EndRun` | the writers: queue, run input, replies, `run.ended` |
| `CompactBegins`, `CompactEnds` | the boundary is chosen from what is shown; the model answered and the event is appended, or nothing is |
| `UpdateMeta`, `RetryLast` | `updateMeta`; the truncation marker of a retry |
| `CrashInLine`, `CrashAfterLine` (in every writer) | a torn line; a line whose projection was not written |
| `MetaIsLost`, `ReadMeta` | an unreadable `meta.json`; the rebuild of `readMeta` |

### ProcessRegistry

The commands of one session.  `entry` is the registry in memory (watched by its
exit event, or probed by its pid after an adoption), `journal` the lines of
`process-notices.jsonl`, `os` what a zero signal would find.

| action | code |
|---|---|
| `Register`, `RegisterRefused` | `register` with its cap and its journal line |
| `Exits`, `PidIsReused` | the operating system |
| `Settle`, `Rewrite` | the end is noticed: journal line, hand-off to the run queue; then the line is removed |
| `Boot`, `AdoptLive`, `AdoptDead` | `adopt()`: each line in turn, adopted or handed off |
| `BootDies`, `Crash` | the daemon dies, anywhere; in a rewrite of the journal too (`DiesDropping`) |

A line is removed by writing the journal anew in place, which is not atomic: a
rewrite that fails, or that a crash interrupts, leaves any part of the other
lines (`Drop`, `Rewrites`).  `exposed` is a ghost: the commands that a fault left
without a line, their own fault or such a rewrite.

`onNotice` is synchronous, and "told" means that the run queue took the
message: from there on `RunQueue` answers for it.  The notice of a deleted
session counts as told, adopted entries count against the cap as in the code.

### ConnectionPool

`rec` are connection records, `pool` the current one of each entry, `att` the
connect attempts with their transports.  A record outlives its entry while its
attempts, timers and close callbacks do.  Every change of a configuration
retires the record, so configurations themselves are not modelled (the guard of
`record()` against a drifted configuration is never reached: the manager has
retired the record before), a move is `Forget` and `Renew`.

| action | code |
|---|---|
| `Use`, `Connect` | a run wants the tools (`kick`); a user's "connect" (`connectNow`) |
| `Fires` | the backoff timer |
| `Connects`, `Lists`, `Fails`, `Closes` | the awaits of `#connectServer` and their ends |
| `TransportCloses` | the server or the network closes an open transport: `onclose` |
| `Sweep`, `ToolTimeout` | the idle sweep; a timed-out call retires the record |
| `Forget`, `Renew`, `StopAll` | an entry removed or disabled, added or changed, the manager stopped |

The ghost `raced` has the records on which an attempt began beside an earlier
one, which is the code's own defect (`mcp_race`, below); what the two
invariants say is said of the other records.

## Runs

| run | instance | distinct states | shows |
|---|---|---|---|
| `queue_safety` | 4 messages (2 user, 1 agent, 1 team), queue limit 2, wake budget 1, 1 failed write, 1 crash | 1 157 436 | the queue's safety, execution order, `ImplementsLife` |
| `queue_live` | 1 user and 3 agent messages, limit 1, budget 1, no failed write, 1 crash | 50 955 | the wake bound; every acknowledged message is served and every caller answered |
| `goal_loop` | limits 2 (approval timeouts and transport errors 1), budget 3, 4 acts, 1 throwing check | 348 143 | the goal loop's safety and that it comes to rest |
| `task_board` | 2 interchangeable members, 2 tasks | 28 906 | one task per member, no cycles, late writes rejected, locks repaired |
| `team_mail` | lead and 2 members, 1 of them at a time, 2 mails, 1 input, 1 task, 1 fault | 565 959 | what `delivered` promises, no forgotten member, arrival |
| `cron` | 2 crons, 2 waiting sweeps, 3 points each | 52 839 | no double run, no double answer, a quiet stop |
| `compaction` | 4 turns, 1 caller of `/compact` | 122 014 | no gap, exclusion, no lost wake-up, no deadlock |
| `session_log` | 6 lines, 4 ids, 1 setting, 2 compactions in flight | 340 003 | hidden stays hidden, projections heal |
| `process_registry` | 3 interchangeable commands, 2 at a time, 2 faults | 537 263 | nothing forgotten, repeats only after faults |
| `mcp_pool` | 2 entries, 2 records, 4 attempts, 1 live connection, 1 reconnect | 533 971 | no leak, no stuck record |
| `session_retry`, `mcp_race` | | | violations, see below |

Why the bounds are enough.  In `queue_safety` four messages fill a queue of two
while one runs and one is steered, so that demotion, the limit and put-back
meet; one agent message exercises the wake counter, one team message the
steering of machine messages; one failed write and one crash make every pair of
them.  In `queue_live` the failed writes are off: with one, an entry may rightly
be stranded until the next submission, and `SomeoneDrives` says so.  In
`goal_loop` limits of two make a breaker trip on the second result (two are
one and trip on the first, to keep the run short), the
budget is met before, at and after the round limit, and four acts are enough to
clear and set a goal during a check and act once more.  Two tasks let a member
try to hold both and a pair of dependencies close a cycle; longer cycles are
left to `NoCycles`, which is proved.  With one active member of two, each
message of `team_mail` waits behind the cap, and the one fault is a crash, a
failed flip, a failed run or a lost session at any point; a flip that outlives
its run is no fault and may happen every time.  Two crons let one
wait in the list of a sweep while the other runs and a second sweep overtakes
it; three points are claimed by the first sweep, by the second, and once more.
Four turns hold a summary, a segment to merge into it, a latest turn that no
compaction touches, and one more behind a retry.  Six lines hold a turn, a
compaction, a message queued behind replies, a retry and the line that heals;
two compactions in flight are a run's and an idle one, or an idle one twice.
Three commands exceed the cap of two; two faults crash the daemon in a command's
registration and again in its adoption.  In `mcp_pool` each entry has a record
to renew once and two records overlap; four attempts are a connect, its rival,
a retry and a successor.  Wherever a theorem is listed below, it holds without
any of these bounds.

The type invariants of `RunQueue`, `GoalLoop`, `TaskBoard`, `CronTick`, `Compaction`,
`ProcessRegistry` and `ConnectionPool` are proved and not run again.

Deadlock is checked in `queue_safety`, `queue_live` and `compaction`.  The
others stop when their bounds are used up: acts of users, tasks, mails, points
in time, lines, faults, attempts.

Fairness.  `RunQueue!Fairness`: promises and microtasks make progress, every
run ends (iteration limit, provider and tool timeouts), a daemon that is down is
restarted.  `GoalLoop!FairSpec`: runs end, and every await of a check ends (the
acceptance commands have a timeout, so has the judge's request).
`TeamMail!Progress`: a run that was started goes on through its input to its end,
and so do its flips.  Nothing is assumed of users, of cancellation, of steering, of
failures or of the members' own actions.  `ComesToRest` has one escape, assembly
failing forever: nothing bounds the rounds that fail there (below).

## Where the code and its documents disagree

Shown by a run:

- `session_retry`: `core/session/store.ts:394` hides every message before a
  truncation marker whose id is not below the start id.  A message queued
  during a run got its id at submission, the replies of that run later, and
  they stand before it in the log: retrying it hides them too, although
  `server/run.ts:454` promises that history is never rewritten.
- `mcp_race`: `kick()` (`core/mcp/connection.ts:231`) leaves the backoff timer,
  so that the timer's connect races the one it started, or replaces its
  client.  The first client then has no owner, a record may say "connected"
  without a client, and the timer's connect ignores `maxConnections`.
  `connectNow` cancels the timer and says why (`connection.ts:236-238`).

Seen while modelling; the models have the code's behaviour and the properties
are stated so that they hold of it:

- Run queue.  Messages are registered as injected at the drain (`run.ts:776`),
  although the comment at `run.ts:755` says what is registered is in the JSONL:
  the append comes after the hooks of the turn boundary, and if it fails the
  message is nowhere (`core/agent/loop.ts:647`).  Draining team mail clears the
  wake counter (`run.ts:780`), which `run.ts:146` reserves for user input.  When a
  run-before hook or the first append throws, `run.failed` (`loop.ts:272-274`)
  names the run and not the message, and no `queue_entry_failed` follows because
  the run resolves: a client that came after `message.created` cannot tell which
  acknowledged message failed (`run.ts:669` says none vanishes silently).
  `StartedIsVisible` counts both announcements (`reported`, `broken`).
- Goal loop.  After a run error a resume sees the same last run and stops the
  goal in the same call (`goal-loop.ts:305`; `docs/core/goal.md:18` says it
  retries).  A check that a clear outlived acts on the next goal, armed or not
  (`goal-loop.ts:297`; `goal.md:105` says concurrent actions are safe): the
  exception in `RoundsOnlyWhileArmed`.  A round whose executeRun rejects in
  assembly logs neither `run.started` nor `run.ended`, so that no counter moves
  and no error is seen, and the idle edge kicks the next check (`run.ts:629-635`,
  `:643`): while gate and judge fail in turn and at no cost, such rounds go
  on past every limit (`goal.md:7`, `:56-60`, `:103`).  `AutonomyIsBounded` is
  about the rounds that start, `ComesToRest` excepts this.  A queued round survives a restart and
  runs though the loop is disarmed (`run.ts:570`; `docs/adr/0002:13`).
- Compaction.  `compactSession` on an idle session runs beside a background
  compaction (`run.ts:550`; `docs/core/compaction.md:22`, `:153`).  A `/compact`
  deferred during the last hook of the run-after chain, or while an assembly
  fails, waits for the next run (`run.ts:526`).  After two retries around a
  failed assembly a parked result may end at or behind the truncation
  (`run.ts:452`).  An idle `/compact` awaits the model without being registered
  (`run.ts:550`), so that retry, which is to find "no in-flight compaction"
  (`run.ts:452`, `:467`), may hide its anchor before the summary is appended:
  the exception in `AnchorIsVisible` (`overtaken`).  "Strictly newer" at `hooks/builtin.ts:343` is not strict.
- Session store.  `updateMeta` (`store.ts:524`, read at `:495`) may write a
  lagging projection back under the new chain length, so that it no longer
  looks lagging (comment at `:155`).  A second retry leaves the first one's
  message shown.  A last line that only lacks its newline is read by
  `readJsonl` and dropped by `readChainLines`; the model leaves it out.
- Team.  The ledger of running members is kept by name for the whole daemon
  and the cap counts one team's (`team.ts:299`), so that `maxActive` can be
  exceeded (`docs/core/agent-team.md:73`).  Mail is flipped to delivered when
  its run shows it; a run that dies before the append loses it (`team.ts:351`;
  `agent-team.md:11` says at worst it is delivered again).  The model marks
  such mail in `exposed`, the one exemption of `MailIsKept`.  A flip that waits
  for the team's lock can outlive its run (`team.ts:358-364`).  The pump at the
  run's end then passes the member over, for its mail is still pending but in
  flight (`team.ts:467`), and nothing pumps after the flip: a ready task is not
  offered until some session idles again.  Nor does anything pump after a
  restart.  Both are in `overlooked`, the exemption of `NoMissedOffer`.  Claiming does not look at dependencies; reassigning a task
  in progress to nobody leaves it without an executor.
- Cron.  A cron disabled after it was claimed still fires from a waiting sweep
  (`docs/core/cron.md:92`); a one-shot cron claimed by a sweep that stops or
  dies is lost (`server/daemon.ts:711`).
- Process registry.  `adopt()` drops the line before the hand-off
  (`registry.ts:314`, `:349`), so that a crash in between loses the notice,
  although a line is to be removed only after delivery
  (`docs/server/daemon.md:163`, `registry.ts:9-12`).  The journal is rewritten
  with a truncating `writeFileSync` (`registry.ts:226`, `:391`): a write that
  fails, or a crash in it, loses the lines of commands that nobody reported.  A reused pid makes a
  pending notice pass for a live command.  A failing re-append aborts the whole
  adoption.  Both properties of `process_registry` say where.
- MCP.  A manual connect that closes on a record that once served leaves a
  backoff timer although it "never schedules the backoff loop behind itself"
  (`manager.ts:445`).  A timed-out call retires today's record whichever
  connection it used.  `stderrLogDir` is accepted and never copied
  (`connection.ts:143-152`).

## Proofs

Every theorem holds for all values of the constants that satisfy the named
assumptions of its module (`RunQueueAssumption`, `TaskBoardAssumption`, and so
on); TLC evaluates them on each run.  The invariants are not inductive as they
stand; what is added is the content of each proof.

`RunQueueProofs`.

- `TypeCorrect`: the types.
- `RunsAtMostOnce`, `WithdrawalIsFinal`: a failed write followed by a crash
  makes the file the queue, so the file has to be as clean as memory at all
  times, whether or not it mirrors it.  `Separated` says so: whatever waits, in
  memory or in `queue.jsonl`, waits once there, was submitted, and neither
  started nor was withdrawn.  The beat of the driver is shared by four actions
  and has lemmas of its own.
- `NoAckedIsLost`, `FileIsTheQueue`, `NobodyWaitsAlone`, `NothingStartsUnseen`:
  together they are the invariant `Kept`, as each needs the others: the file is
  what a crash leaves of the queue, and a driver must be there to show what
  started, by the message's id or, once the loop runs, by the run's.
- `QueueImplementsLife`: the refinement of `MessageLife`.  `Moved` says what a
  step may do to the place of any one message, and each of the cases is an
  action of the abstract specification or a stutter.
- `NobodyOvertakes`: `OrderIsKept`, from lemmas on order in concatenations,
  with an element removed or moved from the steer buffer to the tail.
- `WakingIsBounded`: an account (`Metered`).  An agent message counts when it
  passes the door of `submit`; what starts later either did so or stood in the
  backlog when the counter was last cleared.  So the agent runs since then and
  the agent messages that still wait are together at most `QUEUE_LIMIT` plus the
  counter, which the door keeps within `WAKE_BUDGET`; and the backlog is within
  `QUEUE_LIMIT` in memory and in the file, for a crash makes one the other.
  Child sessions are exempt, as in `run.ts:241`.

`TaskBoardProofs`: `BoardIsTyped`; `NoCycles` (the code's search is complete: a
task that could reach itself would do so through a set of tasks closed under
dependencies, and an edit that adds an edge is refused if such a set joins its
ends), for boards of any length; `OneTaskPerMember`; `LocksFollow`,
`NoLateWrite`, `OvertakenKeepOff`.  The last three are one invariant, `Recorded`:
the locks are those of the executions; a caller whose read is still fresh saw the
assignee there is now (`Sighted`); and who knows the attempt id of an execution
was told of it since its executor took it (`Informed`), so that whoever ends the
task was.  `None` is not the record of a caller in `slow` (`NoneAssumption`).

`TeamMailProofs`: `NoMailIsLost`, `MailComesOnce`, `NoMailIsPinned`,
`NoOfferIsMissed`, for every number of members, messages, inputs and failures.
The invariant is `Served`.  `Placed` says for each message what its status, the
in-flight ledger, the flip under way and the run of its receiver may say of it
at the same time, and how often it can have been kept by then: at most once,
plus one for each fault.  The handlers of the host work on a record (`host`)
that they hand from one to the next, so the lemmas are about these functions:
what starting a run, ending one, flushing the lead's inbox or visiting a member
does to a host that is sound.  `pumpIdle` visits all members in turn, a recursive
function in the model; the proof unfolds it into the sequence of its turns and
argues by the first turn that would break what holds after the one before (a
least counterexample).  That it leaves nobody out who could be offered the task
is `NoMissedOffer`.  A flip that outlives its run has its
reader among the overlooked until the host looks anew (`Outlived`).  `None` is not the record of a run (`NoneAssumption`).

`CronTickProofs`: `NeverTwiceAtOnce` (the in-flight set is exactly what the
sweeps await); `StoppedStartsNothing` (what `stop()` waits for covers every
sweep that could go on); `NeverTwiceForOnePoint`, by an account: the runs
fired, the sweeps that still owe a cron a run, and a row that is due, together
never exceed the points in time that were reached (`Accounts`).

`SessionProofs`, first part: `NoTurnIsLost`, `AutomaticsExclude`, `WaitsAreWoken`, from
`Flow` (which jobs may be in flight at each position of the run, and who owns
the slot) and `Sounds` (each summary, in meta, parked, in a view or in a job in
flight, covers the turns of the history it stands for, or will be discarded).

`SessionProofs`, second part: `LogIsTyped`, `NothingReappears`,
`AnchorStaysVisible`, `NextAppendHeals`, for logs of any length.  `LogInv` adds
to the types that the waiting ids are in their order of minting, and that none
of them stands in the log (`QueueOK`, `IdsOK`).  Every step leaves the log alone
or appends one line (`StepWrites`), so the rest is about one line more: the
first marker after a line goes on governing it (`CutoffOfAppend`), and folding
the longer log is applying the line to the fold (`FoldOfAppend`, from the
recursive definition of `Fold` unfolded as above).  A truncation then either
clears the summary or leaves its anchor shown.  A compaction in flight has an
anchor that is shown or overtaken, since retry waits for those that are not idle.  `NextAppendHeals` is a statement
about all appends but `updateMeta`'s, which does write a lagging projection back
(see above).  `Nothing` is neither an id nor a projection (`NothingAssumption`).

`ProcessRegistryProofs`: `RegistryIsTyped`, `NothingIsForgotten`,
`RepeatsArePaidFor`.  The second needs an account: a command that may still be
told of has been told at most once per fault (`Spare`), for whatever made it due
again was a fault, and being listed and being up for adoption exclude each
other (`Apart`).  Every step that rewrites the journal goes through one lemma
(`Dropping`): nothing is added but what is appended again, and whoever had a line
that was to be kept has one still or is exposed.

`ConnectionPoolProofs`: `PoolIsTyped`, `TransportsAreOwned`, `RecordsMove`.
`Sound` relates records, attempts and raced records as arguments, so that an
action that retires a record, makes another and connects it is a chain of three
lemmas.  Its core: off the race a record has at most one attempt or transport
under way (`Alone`), a client it names is open (`Held`, `Serving`), and a record
that says connecting has a timer or an attempt (`Waiting`).

`GoalLoopProofs`: `GoalIsTyped`, `AutonomyBounded`, `WindsDownAtMostOnce`,
`LoopCarriesOn`, `NothingUnbidden`, for all limits.  What makes them inductive
is an account: the rounds that started, those that were accepted and wait or are
assembled, and the stray checks.
Every clear pays for the stray check or the waiting round it leaves behind
(`Paid`); a check finds the account at the counter it began with and adds at
most one round, below the limit or as the wrap-up (`Counts`, `Granted`); the
counter of rounds keeps up with the runs while the loop is armed, up to the run
that has started and not ended (`Played`; a run that never started leaves both
where they were); and a goal that is gone has neither an armed runtime nor a check
of its own (`Quiet`).  `None` is neither a counter nor a run
(`NoneAssumption`).

Only model-checked: liveness, since fairness and ENABLED are outside the
prover's reach: `AckedIsServed` and `OutcomeSettles` of `RunQueue`, `ComesToRest`
of `GoalLoop`, `MailArrives` of `TeamMail`.  Every other property of a passing
run is a theorem.  Induction over data is not available to the provers as a
principle; the two recursive functions that proofs are about, `pumpIdle` and
`Fold`, are reasoned about by least counterexamples instead.

## Not modelled

Of the modelled components: attachments, notes, drafts and event subscriptions
of a queue entry; `requestCheck` of the goal loop, which finds the session busy
whenever the tool calls it; judge prompts and acceptance commands, whose outcome
is nondeterministic; the text of offers, the audit trail and the caps on text of
a team; `markRun`, notifications and the recycle bin of the cron scheduler;
token estimates and prompts of compaction, which are choices; titles, todos and
the system baseline of a session's projection, which are projected like the
setting that is modelled; torn lines of the process journal; the persisted
groups of MCP entries, the idle time of a record (a sweep may come whenever a
record is idle), tool schemas.

Components without a module are listed with their reason in `PROJECT.json`.
Most of the code by volume is there: the web client (React views), the command
line client, forty tools, providers, memory and skill pipelines around LLM
output, HTTP routes.  They are clients of the operations modelled here, data
transformations, or effects on the world outside; what state they keep decides
nothing that a temporal property could be about.

## Plan

1. *Done*: the modules above.
2. *Done*: every safety and action property of the passing runs proved.
3. The subagent host (`server/subagent.ts`): the cap on children, completions
   that are delivered through the queue of a parent that may itself be a child.
4. The confirmation broker (`core/permissions/broker.ts`) with its two waiters
   and the expiry.
5. The subscriptions of the event bus, and what a client that reconnects sees.
