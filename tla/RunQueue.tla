------------------------------ MODULE RunQueue ------------------------------
(***************************************************************************)
(* The per-session queue state machine of the daemon: class RunManager of  *)
(* packages/server/src/run.ts.  A message is submitted, waits in the       *)
(* executable queue or in the steer buffer, is executed by the session's   *)
(* driver loop (one run at a time) or injected into the active run at a    *)
(* turn boundary, and lands in the session's JSONL history.  queue.jsonl   *)
(* mirrors what still waits, so that a daemon restart can resume it.       *)
(*                                                                         *)
(* Sessions do not share any of this state, so the module models one.      *)
(* Every public method is synchronous JavaScript, hence one action; the    *)
(* interleaving is that of the awaits inside a run and of the microtask    *)
(* between a run's settlement and the driver's continuation.               *)
(***************************************************************************)
EXTENDS Naturals, Sequences, SequencesExt

CONSTANTS Msg,          \* message ids; newId/the client never reuses one
          NoMsg,        \* no message
          TriggerOf,    \* who submits the message: a function on Msg
          QueueLimit,   \* RunManager.QUEUE_LIMIT
          WakeBudget,   \* RunManager.WAKE_BUDGET
          IsChild,      \* the session has a parentSessionId
          MaxFaults,    \* bound: failed writes of queue.jsonl or of the history
          MaxCrashes    \* bound: daemon crashes

Triggers == {"user", "cron", "process", "agent", "team", "goal"}

ASSUME RunQueueAssumption ==
  /\ NoMsg \notin Msg
  /\ TriggerOf \in [Msg -> Triggers]
  /\ QueueLimit \in Nat \ {0}
  /\ WakeBudget \in Nat
  /\ IsChild \in BOOLEAN
  /\ MaxFaults \in Nat
  /\ MaxCrashes \in Nat

VARIABLES
  daemon,     \* "up" or "down"
  queue,      \* #queues: the executable entries, in execution order
  steerBuf,   \* #steerBuf: messages to inject into the active run
  driver,     \* #drivers and #active, see DriverStates
  node,       \* the entry the driver executes (#activeMessageIds)
  signal,     \* "live" or "aborted": the active run's AbortController
  transit,    \* drained by #drainSteer, not yet appended by the agent loop
  injected,   \* #injectedIds, oldest first
  wake,       \* #wakeBudgets: machine wake-ups accepted since user input
  outcome,    \* the promise of a queue node
  disk,       \* queue.jsonl
  history,    \* user messages in the session's JSONL
  faults, crashes

\* What a client was told or could see; nothing in the code reads these.
VARIABLES
  submitted,  \* ids that reached submit and passed its checks
  acked,      \* submit returned normally
  cancelled,  \* queueCancel returned {ok: true} for them
  broken,     \* its run showed it in message.created, then said run.failed
  reported,   \* a queue_entry_failed event named the message
  started,    \* executed by the driver, or drained into a run
  agentRuns   \* machine-woken runs since the wake counter was last cleared

Up == daemon = "up"

memory == <<queue, steerBuf, driver, node, signal, transit, injected, wake, outcome>>
ghosts == <<submitted, acked, cancelled, broken, reported, started, agentRuns>>
vars   == <<daemon, memory, disk, history, faults, crashes, ghosts>>

(***************************************************************************)
(* "absent": no driver loop.  "assembling": executeRun is preparing the    *)
(* run.  "starting": the agent loop has announced the run and its message; *)
(* the run-before hooks are under way, the message is not in the history   *)
(* yet.  "looping": the agent loop runs.  "injecting": the turn-boundary   *)
(* hooks still run after #drainSteer.  "settled"/"failed": the execution   *)
(* promise resolved or rejected and #active is cleared, the driver's await *)
(* has not resumed.                                                        *)
(***************************************************************************)
DriverStates ==
  {"absent", "assembling", "starting", "looping", "injecting", "settled", "failed"}
Active == driver \in {"assembling", "starting", "looping", "injecting"}

\* #queueEntries: the one view both queue() and #persistQueue derive from.
Entries == queue \o steerBuf

PersistOk(d) == disk' = d /\ UNCHANGED faults
PersistFails(d) == faults < MaxFaults /\ faults' = faults + 1 /\ disk' = d

Pending(o, S) == [m \in Msg |-> IF m \in S THEN "pending" ELSE o[m]]
\* Faulty: a run that rejects leaves its caller waiting.
SettleResolvedOnly(o, S, v) ==
  [m \in Msg |-> IF m \in S /\ o[m] = "pending" /\ v = "resolved" THEN v ELSE o[m]]
\* Settling a promise that is already settled has no effect.
Settle(o, S, v) == [m \in Msg |-> IF m \in S /\ o[m] = "pending" THEN v ELSE o[m]]

Init ==
  /\ daemon = "up"
  /\ queue = <<>> /\ steerBuf = <<>> /\ transit = <<>> /\ injected = <<>>
  /\ driver = "absent" /\ node = NoMsg /\ signal = "live"
  /\ wake = 0
  /\ outcome = [m \in Msg |-> "none"]
  /\ disk = <<>> /\ history = <<>>
  /\ faults = 0 /\ crashes = 0
  /\ submitted = {} /\ acked = {} /\ cancelled = {} /\ started = {}
  /\ broken = {} /\ reported = {}
  /\ agentRuns = 0

-----------------------------------------------------------------------------
(***************************************************************************)
(* One beat of #drive's loop, up to the first await of #executeEntry: the  *)
(* residual steer buffer is demoted behind the queue, the head is taken    *)
(* off and removed from queue.jsonl, and its run begins.  q, s, d, o and w *)
(* are the queue, steer buffer, file, promises and wake counter as the     *)
(* caller leaves them.  A failed write ends the driver; when it was the    *)
(* dequeue's, the entry goes back to the head and its promise rejects.     *)
(***************************************************************************)
\* Faulty: residual steer messages overtake the queue.
DemotedFirst(q, s) == s \o q
\* Faulty: residual steer messages are dropped.
DemotedDropped(q, s) == q
Demoted(q, s) == q \o s

\* Faulty: the dequeued entry stays in queue.jsonl.
LeavesHeadOnDisk(all) == all
LeavesOnDisk(all) == Tail(all)

\* Faulty: a rejected execution is not announced.
ShownNothing == reported
\* #emitEntryFailed for an execution that rejected, as the await resumes.
Shown == IF driver = "failed" THEN reported \cup {node} ELSE reported

ClearsWake(m) == TriggerOf[m] \in {"user", "goal"}

Dequeue(all, o, w) ==
  LET m == Head(all) IN
  /\ queue' = Tail(all)
  /\ driver' = "assembling" /\ node' = m
  /\ wake' = IF ClearsWake(m) THEN 0 ELSE w
  /\ agentRuns' = IF ClearsWake(m) THEN 0
                  ELSE IF TriggerOf[m] = "agent" THEN agentRuns + 1 ELSE agentRuns
  /\ started' = started \cup {m}
  /\ outcome' = o
  /\ PersistOk(LeavesOnDisk(all))
  /\ reported' = Shown

DriverDies(all, o, w) ==
  /\ queue' = all
  /\ driver' = "absent" /\ node' = NoMsg
  /\ wake' = w
  /\ outcome' = o
  /\ UNCHANGED <<started, agentRuns>>

Drive(q, s, d, o, w) ==
  LET all == Demoted(q, s)
      demotedO == Pending(o, Range(s))
      afterDemote == IF s = <<>> THEN d ELSE all
  IN
  /\ steerBuf' = <<>>
  /\ signal' = "live"
  /\ \/ /\ all = <<>>
        /\ DriverDies(<<>>, o, w)
        /\ PersistOk(d) /\ reported' = Shown
     \/ /\ all # <<>>
        /\ Dequeue(all, demotedO, w)
     \/ /\ s # <<>>                                  \* #demoteSteer cannot write
        /\ DriverDies(all, demotedO, w)
        /\ PersistFails(d) /\ reported' = Shown
     \/ /\ all # <<>>                                \* the dequeue cannot write
        /\ DriverDies(all, Settle(demotedO, {Head(all)}, "rejected"), w)
        /\ PersistFails(afterDemote)
        /\ reported' = Shown \cup {Head(all)}

-----------------------------------------------------------------------------
\* submit: the checks at the door.  A refused submission changes nothing.
Counted(m) == TriggerOf[m] = "agent" /\ ~IsChild

\* Faulty: the wake budget is not checked.
AdmitsOverBudget(m) ==
  /\ ~(IsChild /\ TriggerOf[m] = "user")
  /\ Len(queue) + Len(steerBuf) < QueueLimit
Admits(m) ==
  /\ ~(IsChild /\ TriggerOf[m] = "user")
  /\ Counted(m) => wake < WakeBudget
  /\ Len(queue) + Len(steerBuf) < QueueLimit

\* Unattended triggers always wait; the team host asks for steer.
Dispositions(m) ==
  CASE TriggerOf[m] = "user" -> {"steer", "wait", "interrupt"}
    [] TriggerOf[m] = "team" -> {"steer"}
    [] OTHER -> {"wait"}

WakeAfter(m) == IF Counted(m) THEN wake + 1 ELSE wake

Idle == ~Active /\ queue = <<>> /\ driver = "absent"

SubmitDirect(m) ==
  /\ Idle
  /\ Drive(<<m>>, steerBuf, disk, Pending(outcome, {m}), WakeAfter(m))
  /\ acked' = acked \cup {m}

\* Faulty: steer is buffered though no run is active.
SteersAlways == TRUE
Steers == Active

SubmitSteer(m) ==
  /\ Steers
  /\ steerBuf' = Append(steerBuf, m)
  /\ wake' = WakeAfter(m)
  /\ \/ PersistOk(queue \o steerBuf') /\ acked' = acked \cup {m}
     \/ PersistFails(disk) /\ UNCHANGED acked
  /\ UNCHANGED <<queue, driver, node, signal, outcome, reported, started, agentRuns>>

AtHead(m, disposition) ==
  IF disposition = "interrupt" THEN <<m>> \o queue ELSE Append(queue, m)

Enqueue(m, disposition) ==
  /\ queue' = AtHead(m, disposition)
  /\ outcome' = Pending(outcome, {m})
  /\ wake' = WakeAfter(m)
  /\ signal' = IF disposition = "interrupt" /\ Active THEN "aborted" ELSE signal
  /\ UNCHANGED <<steerBuf, driver, node, reported, started, agentRuns>>

SubmitQueued(m, disposition) ==
  /\ ~Idle
  /\ \/ /\ driver # "absent"
        /\ Enqueue(m, disposition)
        /\ PersistOk(queue' \o steerBuf) /\ acked' = acked \cup {m}
     \/ /\ driver = "absent"
        /\ LET q == AtHead(m, disposition)
           IN  Drive(q, steerBuf, q \o steerBuf, Pending(outcome, {m}), WakeAfter(m))
        /\ acked' = acked \cup {m}
     \/ /\ Enqueue(m, disposition)                     \* submit throws
        /\ PersistFails(disk) /\ UNCHANGED acked

Submit(m) ==
  /\ Up /\ m \notin submitted /\ Admits(m)
  /\ \E disposition \in Dispositions(m) :
       \/ SubmitDirect(m)
       \/ disposition = "steer" /\ SubmitSteer(m)
       \/ ~(disposition = "steer" /\ Steers) /\ SubmitQueued(m, disposition)
  /\ submitted' = submitted \cup {m}
  /\ UNCHANGED <<daemon, transit, injected, history, crashes, cancelled, broken>>

-----------------------------------------------------------------------------
(***************************************************************************)
(* The run, as far as the queue can see it: executeRun's assembly, the     *)
(* agent loop's announcement of the run and its message, the run-before    *)
(* hooks that append it, the turn-boundary drain, and the end.             *)
(***************************************************************************)
RunUnchanged == UNCHANGED <<daemon, queue, signal, crashes, submitted, acked, cancelled>>

StartUnchanged ==
  /\ RunUnchanged
  /\ UNCHANGED <<steerBuf, node, transit, injected, wake, outcome, disk, faults, reported, started, agentRuns>>

\* The run-after chain follows the agent loop however that ended; its
\* compaction is fatal, so executeRun may reject after the loop resolved.
LoopEnds == driver' \in {"settled", "failed"}

\* runAgent: run.started, then message.created with the entry's id.
RunStarts ==
  /\ driver = "assembling" /\ driver' = "starting"
  /\ StartUnchanged /\ UNCHANGED <<history, broken>>

\* executeRun rejects before that: an attachment, a prompt, the provider, or
\* the run.started line could not be had.
AssemblyFails ==
  /\ driver = "assembling" /\ driver' = "failed"
  /\ StartUnchanged /\ UNCHANGED <<history, broken>>

Land ==
  /\ driver = "starting" /\ driver' = "looping"
  /\ history' = Append(history, node)
  /\ StartUnchanged /\ UNCHANGED broken

\* A run-before hook or the append threw: the loop emits run.failed without
\* the message's id and resolves, so that no queue_entry_failed follows; or
\* logging run.ended or the run-after chain throws too, and executeRun rejects.
HookFails ==
  /\ driver = "starting"
  /\ \/ driver' = "settled" /\ broken' = broken \cup {node}
     \/ driver' = "failed" /\ UNCHANGED broken
  /\ StartUnchanged /\ UNCHANGED history

EndRun ==
  /\ driver = "looping" /\ LoopEnds
  /\ StartUnchanged /\ UNCHANGED <<history, broken>>

\* #markInjected keeps the 2 * QUEUE_LIMIT most recent ids.
MarkInjected(s) ==
  LET t == injected \o s
      excess == IF Len(t) > 2 * QueueLimit THEN Len(t) - 2 * QueueLimit ELSE 0
  IN  SubSeq(t, excess + 1, Len(t))

\* Faulty: queue.jsonl is written before the buffer is emptied.
AfterDrainStale == Entries
AfterDrain == queue

BufferAfterDrain == <<>>

\* #drainSteer.  Building a message may fail (then nothing has changed yet);
\* so may the write, after the buffer was emptied.  Either fails the run.
DrainSteer ==
  /\ driver = "looping" /\ steerBuf # <<>>
  /\ \/ /\ steerBuf' = BufferAfterDrain
        /\ PersistOk(AfterDrain)
        /\ driver' = "injecting" /\ transit' = steerBuf
        /\ injected' = MarkInjected(steerBuf)
        /\ wake' = 0 /\ agentRuns' = 0
        /\ started' = started \cup Range(steerBuf)
     \/ /\ LoopEnds
        /\ \/ UNCHANGED <<steerBuf, disk, faults>>
           \/ steerBuf' = <<>> /\ PersistFails(disk)
        /\ UNCHANGED <<transit, injected, wake, started, agentRuns>>
  /\ RunUnchanged
  /\ UNCHANGED <<node, outcome, history, broken, reported>>

\* The agent loop appends the drained messages in order; the first append
\* that throws ends the run and drops the rest.
Inject ==
  /\ driver = "injecting"
  /\ \/ /\ history' = history \o transit
        /\ driver' = "looping" /\ UNCHANGED faults
     \/ \E k \in 0 .. Len(transit) - 1 :
          /\ faults < MaxFaults /\ faults' = faults + 1
          /\ history' = history \o SubSeq(transit, 1, k)
          /\ LoopEnds
  /\ transit' = <<>>
  /\ RunUnchanged
  /\ UNCHANGED <<steerBuf, node, injected, wake, outcome, disk, broken, reported, started, agentRuns>>

\* The driver's await resumes: the node's promise settles and the next beat
\* follows in the same turn.
DriverResumes ==
  /\ driver \in {"settled", "failed"}
  /\ LET v == IF driver = "failed" THEN "rejected" ELSE "resolved"
     IN  Drive(queue, steerBuf, disk, Settle(outcome, {node}, v), wake)
  /\ UNCHANGED <<daemon, transit, injected, history, crashes, submitted, acked, cancelled, broken>>

-----------------------------------------------------------------------------
\* cancel: with an id, only if the active run executes that message.
Cancel(id) ==
  /\ Active
  /\ id \in {NoMsg, node}
  /\ signal' = "aborted"
  /\ UNCHANGED <<daemon, queue, steerBuf, driver, node, transit, injected, wake, outcome,
                 disk, history, faults, crashes, ghosts>>

CancelUnchanged ==
  UNCHANGED <<daemon, driver, node, transit, injected, wake, history, crashes,
              submitted, acked, broken, reported, started, agentRuns>>

\* Faulty: a withdrawal is not persisted.
RemainingStale(q, s) == disk
Remaining(q, s) == q \o s

\* queueCancel(sessionId, messageId): the queue first, then the steer buffer.
QueueCancelOne(m) ==
  /\ Up
  /\ \/ \E i \in DOMAIN queue :
          /\ queue[i] = m
          /\ queue' = RemoveAt(queue, i) /\ UNCHANGED steerBuf
          /\ outcome' = Settle(outcome, {m}, "rejected")
     \/ /\ m \notin Range(queue)
        /\ \E i \in DOMAIN steerBuf :
             steerBuf[i] = m /\ steerBuf' = RemoveAt(steerBuf, i)
        /\ UNCHANGED <<queue, outcome>>
  /\ \/ PersistOk(Remaining(queue', steerBuf')) /\ cancelled' = cancelled \cup {m}
     \/ PersistFails(disk) /\ UNCHANGED cancelled
  /\ UNCHANGED signal
  /\ CancelUnchanged

\* queueCancel(sessionId); stopAndClear aborts the active run first.
QueueCancelAll(stop) ==
  /\ Up
  /\ signal' = IF stop /\ Active THEN "aborted" ELSE signal
  /\ queue' = <<>> /\ steerBuf' = <<>>
  /\ outcome' = Settle(outcome, Range(queue), "rejected")
  /\ \/ PersistOk(<<>>) /\ cancelled' = cancelled \cup Range(Entries)
     \/ PersistFails(disk) /\ UNCHANGED cancelled
  /\ CancelUnchanged

-----------------------------------------------------------------------------
Crash ==
  /\ Up /\ crashes < MaxCrashes
  /\ daemon' = "down" /\ crashes' = crashes + 1
  /\ queue' = <<>> /\ steerBuf' = <<>> /\ transit' = <<>> /\ injected' = <<>>
  /\ driver' = "absent" /\ node' = NoMsg /\ signal' = "live"
  /\ wake' = 0 /\ agentRuns' = 0
  /\ outcome' = Settle(outcome, Msg, "none")
  /\ UNCHANGED <<disk, history, faults, submitted, acked, cancelled, broken, reported, started>>

\* Faulty: recovery skips the first entry.
RecoveredTail == IF disk = <<>> THEN <<>> ELSE Tail(disk)
Recovered == disk

\* recoverQueues, before anything else reaches the manager: every persisted
\* entry is queued again as wait.  When it cannot write the demoted entries
\* back, the daemon does not come up.
RecoverQueues ==
  /\ ~Up
  /\ \/ /\ daemon' = "up"
        /\ Drive(Recovered, <<>>, Recovered, Pending(outcome, Range(disk)), 0)
     \/ /\ disk # <<>> /\ PersistFails(disk)
        /\ UNCHANGED <<daemon, queue, steerBuf, driver, node, signal, wake, outcome,
                       reported, started, agentRuns>>
  /\ UNCHANGED <<transit, injected, history, crashes, submitted, acked, cancelled, broken>>

Next ==
  \/ \E m \in Msg : Submit(m)
  \/ RunStarts \/ AssemblyFails \/ Land \/ HookFails
  \/ DrainSteer \/ Inject \/ EndRun
  \/ DriverResumes
  \/ \E id \in Msg \cup {NoMsg} : Cancel(id)
  \/ \E m \in Msg : QueueCancelOne(m)
  \/ \E stop \in BOOLEAN : QueueCancelAll(stop)
  \/ Crash \/ RecoverQueues

Spec == Init /\ [][Next]_vars

\* Promises and microtasks make progress; every run ends (the iteration
\* limit, the provider's and the tools' timeouts); the daemon is restarted.
Fairness ==
  /\ WF_vars(RunStarts \/ AssemblyFails)
  /\ WF_vars(Land \/ HookFails)
  /\ WF_vars(Inject)
  /\ WF_vars(EndRun)
  /\ WF_vars(DriverResumes)
  /\ WF_vars(RecoverQueues)

FairSpec == Spec /\ Fairness
-----------------------------------------------------------------------------
(* The types of the queue's state in memory, on disk and in the ghosts.    *)
TypeOK ==
  /\ daemon \in {"up", "down"} /\ signal \in {"live", "aborted"}
  /\ queue \in Seq(Msg) /\ steerBuf \in Seq(Msg) /\ transit \in Seq(Msg)
  /\ injected \in Seq(Msg) /\ disk \in Seq(Msg) /\ history \in Seq(Msg)
  /\ driver \in DriverStates /\ node \in Msg \cup {NoMsg}
  /\ (driver = "absent") <=> (node = NoMsg)
  /\ ~Up => driver = "absent"
  /\ wake \in 0 .. WakeBudget
  /\ outcome \in [Msg -> {"none", "pending", "resolved", "rejected"}]
  /\ faults \in 0 .. MaxFaults /\ crashes \in 0 .. MaxCrashes
  /\ submitted \subseteq Msg /\ acked \subseteq submitted /\ cancelled \subseteq Msg
  /\ broken \subseteq Msg
  /\ reported \subseteq Msg /\ started \subseteq Msg
  /\ agentRuns \in Nat

(* A message is executed or injected at most once, whatever writes fail    *)
(* and whenever the daemon crashes: what has started waits nowhere any     *)
(* more, neither in memory nor in queue.jsonl, and nothing waits twice.    *)
AtMostOnce ==
  /\ IsInjective(Entries) /\ IsInjective(disk)
  /\ started \cap (Range(Entries) \cup Range(disk)) = {}

(* A withdrawal that queueCancel confirmed is final: the message is never  *)
(* executed, and no stale queue.jsonl brings it back after a crash.        *)
CancelIsFinal ==
  cancelled \cap (started \cup Range(Entries) \cup Range(disk)) = {}

(* As long as no write failed, every message submit acknowledged waits (in *)
(* memory, or on disk while the daemon is down), has started, or was       *)
(* withdrawn: a crash loses no acknowledged message that still waited.     *)
AckedIsKept ==
  faults = 0 =>
    acked \subseteq started \cup cancelled \cup Range(IF Up THEN Entries ELSE disk)

(* As long as no write failed, queue.jsonl is the queue and steer buffer   *)
(* in execution order, after every handler.                                *)
DiskMirrorsMemory == Up /\ faults = 0 => disk = Entries

(* Nobody waits without a driver: a steer message is only ever buffered    *)
(* while a driver will demote or inject it, and an entry can be left       *)
(* without one only by a failed write.                                     *)
SomeoneDrives ==
  driver = "absent" => steerBuf = <<>> /\ (faults = 0 => queue = <<>>)

(* run.ts:598 and 669: an acknowledged message does not vanish without a   *)
(* trace.  Without failed writes and crashes, what started is in the       *)
(* history or about to be; or a queue_entry_failed event named it; or its  *)
(* run showed it in message.created and then said run.failed.  That last   *)
(* event names the run, not the message (loop.ts:272): a client that came  *)
(* after message.created cannot tell which message failed.                 *)
StartedIsVisible ==
  faults = 0 /\ crashes = 0 =>
    started \subseteq Range(history) \cup Range(transit) \cup reported
                    \cup broken \cup {node}

Precedes(s, a, b) == \E i, j \in DOMAIN s : i < j /\ s[i] = a /\ s[j] = b

(* The execution order is fixed at submission: no step swaps two waiting   *)
(* messages, and the driver never starts one while another that precedes   *)
(* it keeps waiting.                                                       *)
OrderIsKept ==
  [][\A a, b \in Msg : Precedes(Entries, a, b) =>
       /\ ~Precedes(Entries', b, a)
       /\ node' = b /\ node # b => a \notin Range(Entries')]_vars

(* The queue implements MessageLife: see the mapping.  A message a failed  *)
(* queueCancel left in queue.jsonl alone still counts as waiting.          *)
LifeOf(m) ==
  IF m \in started THEN "started"
  ELSE IF m \in Range(Entries) \cup Range(disk) THEN "waiting"
  ELSE IF m \in cancelled THEN "cancelled"
  ELSE IF m \in submitted THEN "lost" ELSE "new"

Life == INSTANCE MessageLife WITH life <- [m \in Msg |-> LifeOf(m)],
                                  writeFailed <- faults > 0

ImplementsLife == Life!Spec

(* run.ts:247: between two inputs that clear the counter, machine-woken    *)
(* runs are at most the backlog (within QUEUE_LIMIT) plus WAKE_BUDGET; a   *)
(* child session does not take part (run.ts:241).                          *)
WakeIsBounded == ~IsChild => agentRuns <= QueueLimit + WakeBudget

(* Without failed writes, an acknowledged message is eventually executed,  *)
(* injected or withdrawn, across crashes.                                  *)
AckedIsServed ==
  \A m \in Msg : m \in acked /\ faults = 0 ~> m \in started \cup cancelled \/ faults > 0

(* Without failed writes no caller waits for ever on a queue node.         *)
OutcomeSettles ==
  \A m \in Msg : outcome[m] = "pending" /\ faults = 0 ~> outcome[m] # "pending" \/ faults > 0
=============================================================================
