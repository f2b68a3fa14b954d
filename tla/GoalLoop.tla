------------------------------ MODULE GoalLoop ------------------------------
(***************************************************************************)
(* The goal loop of one session: class GoalLoopHost of                     *)
(* packages/server/src/goal-loop.ts with the decisions of                  *)
(* packages/core/src/goal (derive.ts, check.ts).  A goal is pursued in     *)
(* rounds: whenever the session's queue drains, a check derives its        *)
(* counters from the event stream, awaits acceptance commands and the      *)
(* judge, and then completes, stops or enqueues the next round.            *)
(*                                                                         *)
(* The user acts while a check awaits.  A check keeps the runtime object   *)
(* and the goal it began with; clear deletes the session's runtime, so     *)
(* that a check may outlive it: it moves to "stray".                       *)
(***************************************************************************)
EXTENDS Naturals, Sequences, FiniteSets, SequencesExt

CONSTANTS MaxRounds,        \* GOAL_MAX_ROUNDS
          TokenBudget,      \* GOAL_TOKEN_BUDGET, in units of RunCost
          NoProgressLimit,  \* GOAL_NO_PROGRESS_LIMIT
          GateExhausted,    \* GOAL_GATE_EXHAUSTED
          TimeoutRounds,    \* GOAL_APPROVAL_TIMEOUT_ROUNDS
          ParseBreaker,     \* GOAL_JUDGE_PARSE_BREAKER
          TransportBreaker, \* GOAL_JUDGE_TRANSPORT_BREAKER
          QueueLimit,       \* RunManager.QUEUE_LIMIT
          RunCost, JudgeCost,
          None,             \* no check, no run
          MaxActs,          \* bound: what users and restarts do
          MaxFaults         \* bound: checks that throw

ASSUME GoalAssumption ==
  /\ {MaxRounds, TokenBudget, NoProgressLimit, GateExhausted, TimeoutRounds,
      ParseBreaker, TransportBreaker, QueueLimit} \subseteq Nat \ {0}
  /\ {RunCost, JudgeCost, MaxActs, MaxFaults} \subseteq Nat

VARIABLES
  state,     \* GoalSnapshot.state, "none" without a goal
  why,       \* stoppedReason
  armed,     \* GoalRuntime.armed
  windDown,  \* GoalRuntime.windDownPending
  last,      \* GoalRuntime.lastEnqueuedMessageId is set
  check,     \* the check of this runtime (judging), or None
  stray,     \* checks whose runtime a clear has deleted
  derived,   \* deriveGoalLoop of the session's event stream
  running,   \* the session's active run, or None
  pending,   \* the session's queue

  acts, faults

\* What the code does not keep: the goal rounds whose run started and the
\* wrap-up rounds granted since a human last acted, and the goals cleared.
VARIABLES
  autoRuns, wraps, clears

host  == <<state, why, armed, windDown, last, check, stray>>
queue == <<running, pending>>
ghost == <<autoRuns, wraps, clears>>
vars  == <<host, derived, queue, acts, faults, ghost>>

Busy == running # None \/ pending # <<>>

HasRoom == Len(pending) < QueueLimit

-----------------------------------------------------------------------------
(* deriveGoalLoop, one event at a time: its counters are sums and trailing *)
(* streaks, so that every event extends or breaks them.  A counter is kept *)
(* up to the limit it is compared with.                                    *)
UpTo(limit, n) == IF n < limit THEN n ELSE limit

Zero == [rounds |-> 0, spent |-> 0, timeouts |-> 0, errored |-> FALSE,
         kind |-> "none", streak |-> 0]

\* run.ended.  rounds counts the goal runs since the last run a user
\* triggered.  A run whose start is not in the scan only adds to the tokens.
\* Faulty: the ends of runs are not looked for.
AfterRunUnseen(loop, run, errored, timeout) == loop

AfterRun(loop, run, errored, timeout) ==
  LET paid == [loop EXCEPT !.spent = UpTo(TokenBudget, @ + RunCost)]
  IN  IF run.phase = "unpaired" THEN paid
      ELSE [paid EXCEPT !.rounds = IF run.trigger = "user" THEN 0 ELSE UpTo(MaxRounds, @ + 1),
                        !.timeouts = IF timeout THEN UpTo(TimeoutRounds, @ + 1) ELSE 0,
                        !.errored = errored]

\* What the awaited commands and the judge may report, and how many of a
\* kind in a row stop the loop.
Limit == [ gate       |-> GateExhausted,
           noprogress |-> NoProgressLimit,
           parse      |-> ParseBreaker,
           transport  |-> TransportBreaker ]
Results == DOMAIN Limit \cup {"met", "impossible", "progress"}
CostOf(result) == IF result \in {"gate", "parse", "transport"} THEN 0 ELSE JudgeCost

\* goal.checked: only the kind of the last check has a streak.
Streak(loop, kind) == IF loop.kind = kind THEN loop.streak ELSE 0

AfterCheck(loop, result) ==
  [loop EXCEPT !.spent = UpTo(TokenBudget, @ + CostOf(result)),
               !.kind = IF result \in DOMAIN Limit THEN result ELSE "none",
               !.streak = IF result \in DOMAIN Limit
                          THEN UpTo(Limit[result], Streak(loop, result) + 1) ELSE 0]

goalPreGateGuard(loop) ==
  IF loop.errored THEN "run-error"
  ELSE IF loop.timeouts >= TimeoutRounds THEN "permission" ELSE "pass"

Stop(reason) == [kind |-> "stop", reason |-> reason]
Round(kind)  == [kind |-> kind, reason |-> "none"]

\* continueGate: the budget before the round limit.
\* Faulty: one round more than the limit.
continueGateLate(loop) ==
  IF loop.spent >= TokenBudget THEN Round("winddown")
  ELSE IF loop.rounds > MaxRounds THEN Stop("round-limit") ELSE Round("continue")

continueGate(loop) ==
  IF loop.spent >= TokenBudget THEN Round("winddown")
  ELSE IF loop.rounds + 1 > MaxRounds THEN Stop("round-limit") ELSE Round("continue")

\* The breaker of the result's own kind; either judge failure reads both.
Tripped(loop, result) ==
  \E kind \in DOMAIN Limit :
    /\ \/ kind = result
       \/ {kind, result} = {"parse", "transport"}
    /\ Streak(loop, kind) + (IF kind = result THEN 1 ELSE 0) >= Limit[kind]

TripReason ==
  [ gate |-> "gate-exhausted", noprogress |-> "no-progress",
    parse |-> "judge-failed", transport |-> "judge-failed" ]

\* loop is what the check began with.
decideGoalRound(loop, result, wrapping) ==
  IF result \in {"met", "impossible"} THEN [kind |-> "complete", reason |-> result]
  ELSE IF Tripped(loop, result) /\ ~(wrapping = "yes" /\ result = "noprogress")
       THEN Stop(TripReason[result])
  ELSE IF wrapping = "yes" THEN Stop("budget-limit")
  ELSE continueGate([loop EXCEPT !.spent = @ + CostOf(result)])
-----------------------------------------------------------------------------
Init ==
  /\ state = "none" /\ why = "none" /\ armed = "no" /\ windDown = "no" /\ last = "no"
  /\ check = None /\ stray = {}
  /\ derived = Zero /\ running = None /\ pending = <<>>
  /\ acts = 0 /\ faults = 0
  /\ autoRuns = 0 /\ wraps = 0 /\ clears = 0

\* The bound of the counting ghosts, which is out of the properties' reach.
Counted(n) == UpTo(MaxRounds + MaxActs + 2, n)

\* executeRun of an entry: first its assembly, which logs nothing.
Begins(trigger) == running' = [trigger |-> trigger, phase |-> "assembling"]

\* RunManager.submit: an idle session begins the run, a busy one queues it.
Submits(trigger) ==
  \/ ~Busy /\ Begins(trigger) /\ UNCHANGED pending
  \/ Busy /\ pending' = Append(pending, trigger) /\ UNCHANGED running

\* #persistStop of a goal that exists; it disarms the session's runtime.
Stops(reason) ==
  /\ state' = IF reason = "permission" THEN "blocked" ELSE "paused"
  /\ why' = reason
  /\ armed' = "no" /\ windDown' = "no"

\* #enqueueRound for the snapshot and runtime as the caller leaves them;
\* submit throws when the queue is full.
EnqueueRound(s, reason, a, w) ==
  \/ /\ HasRoom
     /\ state' = s /\ why' = reason /\ armed' = a /\ windDown' = w
     /\ last' = "yes"
     /\ Submits("goal")
  \/ /\ ~HasRoom
     /\ Stops("none")
     /\ UNCHANGED <<running, pending, last>>

\* #kick, and #check up to its first await, for the snapshot, runtime and
\* counters as the caller leaves them.
Kick(s, reason, a, w, loop, busy) ==
  LET guard    == goalPreGateGuard(loop)
      mayCheck == a = "yes" /\ s = "active" /\ check = None /\ ~busy
      stays    == state' = s /\ why' = reason /\ armed' = a /\ windDown' = w
  IN
  \/ ~mayCheck /\ stays /\ UNCHANGED check
  \/ mayCheck /\ guard # "pass" /\ Stops(guard) /\ UNCHANGED check
  \/ /\ mayCheck /\ guard = "pass" /\ stays
     /\ check' = loop
-----------------------------------------------------------------------------
(* What users do: messages, and the five operations of the host.           *)
Act == acts < MaxActs /\ acts' = acts + 1 /\ UNCHANGED faults

UserMessage ==
  /\ Act
  /\ HasRoom
  /\ UNCHANGED <<host, derived, ghost>>
  /\ Submits("user")

\* A run that has started will end without a start after goal.set(create).
Create ==
  /\ Act /\ state = "none"
  /\ EnqueueRound("active", "none", "yes", "no")
  /\ derived' = Zero
  /\ autoRuns' = 0 /\ wraps' = 0
  /\ UNCHANGED <<check, stray, clears>>

\* set on an existing goal; resume.  Both arm the loop and kick it.
\* Faulty: nothing starts the loop again.
RearmOnly ==
  /\ state' = "active" /\ why' = "none" /\ armed' = "yes" /\ windDown' = "no"
  /\ autoRuns' = 0 /\ wraps' = 0
  /\ UNCHANGED <<check, last, stray, derived, queue, clears>>

Rearm ==
  /\ Kick("active", "none", "yes", "no", derived, Busy)
  /\ autoRuns' = 0 /\ wraps' = 0
  /\ UNCHANGED <<last, stray, derived, queue, clears>>

Edit == Act /\ state # "none" /\ Rearm

Resume == Act /\ state \notin {"none", "complete"} /\ Rearm

Unmoved == UNCHANGED <<check, stray, derived, running, autoRuns, wraps>>

Pause ==
  /\ Act /\ state \notin {"none", "complete"}
  /\ state' = "paused" /\ armed' = "no"
  /\ UNCHANGED <<why, windDown, last, pending, clears>> /\ Unmoved

\* userStop: the active run is aborted (it still ends by EndRun).
UserStop ==
  /\ Act /\ state # "none"
  /\ pending' = <<>>
  /\ IF state = "complete" THEN UNCHANGED <<state, why>>
     ELSE state' = "paused" /\ why' = "user-stop"
  /\ armed' = "no" /\ windDown' = "no"
  /\ UNCHANGED <<last, clears>> /\ Unmoved

\* clear withdraws the round it enqueued last, if that still waits: rounds
\* wait in order, so it is the last goal entry of the queue.
LastRound == {i \in DOMAIN pending : /\ pending[i] = "goal"
                                     /\ \A j \in DOMAIN pending : pending[j] = "goal" => j <= i}
Withdrawn ==
  IF last = "yes" /\ LastRound # {} THEN RemoveAt(pending, CHOOSE i \in LastRound : TRUE)
  ELSE pending

Clear ==
  /\ Act /\ state # "none"
  /\ pending' = Withdrawn
  /\ stray' = IF check = None THEN stray
              ELSE stray \cup {[loop |-> check, armed |-> armed, windDown |-> windDown]}
  /\ state' = "none" /\ why' = "none" /\ armed' = "no" /\ windDown' = "no" /\ last' = "no"
  /\ check' = None /\ derived' = Zero
  /\ running' = IF running # None /\ running.phase = "paired"
                THEN [running EXCEPT !.phase = "unpaired"] ELSE running
  /\ clears' = clears + 1
  /\ UNCHANGED <<autoRuns, wraps>>
-----------------------------------------------------------------------------
\* Without a goal the events are of no interest: no scan reaches them.
Logged(loop) == IF state = "none" THEN Zero ELSE loop

\* The agent loop begins: run.started is logged, in the scan if there is a
\* goal.
RunStarts ==
  /\ running # None /\ running.phase = "assembling"
  /\ running' = [running EXCEPT !.phase = IF state # "none" THEN "paired" ELSE "unpaired"]
  /\ autoRuns' = IF running.trigger = "user" THEN 0 ELSE Counted(autoRuns + 1)
  /\ UNCHANGED <<host, derived, pending, acts, faults, wraps, clears>>

\* The driver goes on: the queue's next entry, or the session is idle and
\* onIdle kicks the loop.
DriverGoesOn(loop) ==
  /\ derived' = loop
  /\ UNCHANGED <<last, stray, acts, faults, ghost>>
  /\ \/ /\ pending # <<>>
        /\ UNCHANGED <<state, why, armed, windDown, check>>
        /\ Begins(Head(pending)) /\ pending' = Tail(pending)
     \/ /\ pending = <<>>
        /\ running' = None /\ UNCHANGED pending
        /\ Kick(state, why, armed, windDown, loop, FALSE)

EndRun ==
  /\ running # None /\ running.phase # "assembling"
  /\ \E errored, timeout \in BOOLEAN :
       DriverGoesOn(Logged(AfterRun(derived, running, errored, timeout)))

\* executeRun rejects before the agent loop: neither run.started nor
\* run.ended is logged, and no counter moves.
AssemblyFails ==
  /\ running # None /\ running.phase = "assembling"
  /\ DriverGoesOn(derived)

\* What a check does when its awaits are over: the audit event, then, if the
\* loop is still alive, the decision.  c is the counters it began with, a and w its
\* runtime's armed and windDownPending.
\* Faulty: what users did meanwhile is not looked at.
AliveUnchecked(a) == state # "none"
Alive(a) == a = "yes" /\ state = "active"

\* windDownPending once the wrap-up round is granted.
\* Faulty: the grant is not remembered.
MarkedNot(w) == w
Marked(w) == "yes"

Finishes(c, result, a, w, own) ==
  LET d == decideGoalRound(c, result, w)
      wrapping == IF ~own THEN windDown ELSE IF d.kind = "winddown" THEN Marked(w) ELSE w
  IN
  /\ derived' = Logged(AfterCheck(derived, result))
  /\ \/ /\ ~Alive(a)
        /\ UNCHANGED <<state, why, armed, windDown, last, queue, wraps>>
     \/ /\ Alive(a) /\ d.kind = "complete"
        /\ state' = "complete" /\ why' = d.reason
        /\ armed' = "no" /\ windDown' = "no"
        /\ UNCHANGED <<last, queue, wraps>>
     \/ /\ Alive(a) /\ d.kind = "stop"
        /\ Stops(d.reason)
        /\ UNCHANGED <<last, queue, wraps>>
     \/ /\ Alive(a) /\ d.kind \in {"winddown", "continue"}
        /\ EnqueueRound(state, why, armed, wrapping)
        /\ wraps' = Counted(wraps + (IF d.kind = "winddown" THEN 1 ELSE 0))

CheckEnds ==
  /\ check # None
  /\ \E result \in Results : Finishes(check, result, armed, windDown, TRUE)
  /\ check' = None
  /\ UNCHANGED <<stray, acts, faults, autoRuns, clears>>

StrayEnds ==
  /\ \E c \in stray :
       /\ \E result \in Results : Finishes(c.loop, result, c.armed, c.windDown, FALSE)
       /\ stray' = stray \ {c}
  /\ UNCHANGED <<check, acts, faults, autoRuns, clears>>

\* A check throws, before or after its audit event.  The catch of #check
\* stops the goal, if there still is one and whatever its state; when that
\* throws too, the check's own runtime is disarmed and no more.
CheckThrows ==
  /\ faults < MaxFaults /\ faults' = faults + 1
  /\ \/ check # None /\ check' = None /\ UNCHANGED stray
     \/ \E c \in stray : stray' = stray \ {c} /\ UNCHANGED check
  /\ \/ UNCHANGED derived
     \/ \E result \in Results : derived' = Logged(AfterCheck(derived, result))
  /\ \/ state # "none" /\ Stops("judge-failed")
     \/ state = "none" /\ UNCHANGED <<state, why, armed, windDown>>
     \/ /\ armed' = IF check' # check THEN "no" ELSE armed
        /\ UNCHANGED <<state, why, windDown>>
  /\ UNCHANGED <<last, queue, acts, ghost>>

\* A restart of the daemon: the runtimes and checks are gone; the snapshot,
\* the counters and the queue are read back, and the queue runs on.
Restart ==
  /\ Act
  /\ armed' = "no" /\ windDown' = "no" /\ last' = "no" /\ check' = None /\ stray' = {}
  /\ UNCHANGED <<state, why, derived, ghost>>
  /\ \/ pending # <<>> /\ Begins(Head(pending)) /\ pending' = Tail(pending)
     \/ pending = <<>> /\ running' = None /\ UNCHANGED pending

Next ==
  \/ UserMessage \/ Create \/ Resume \/ Edit \/ Pause \/ UserStop \/ Clear
  \/ RunStarts \/ AssemblyFails \/ EndRun
  \/ CheckEnds \/ StrayEnds \/ CheckThrows \/ Restart

Spec == Init /\ [][Next]_vars

\* Runs end, and every await of a check has a timeout.
FairSpec ==
  /\ Spec
  /\ WF_vars(RunStarts \/ AssemblyFails) /\ WF_vars(EndRun)
  /\ WF_vars(CheckEnds) /\ WF_vars(StrayEnds)
-----------------------------------------------------------------------------
Counters == [ rounds : 0 .. MaxRounds, spent : 0 .. TokenBudget, timeouts : 0 .. TimeoutRounds,
              errored : BOOLEAN, kind : DOMAIN Limit \cup {"none"}, streak : Nat ]

\* "assembling": run.started is not logged yet.  "paired": it is in the scan
\* of the present goal; "unpaired": it was logged without a goal, or before it.
Run == [trigger : {"user", "goal"}, phase : {"assembling", "paired", "unpaired"}]

ASSUME NoneAssumption == None \notin Counters /\ None \notin Run

(* The types of the loop's state.                                          *)
TypeOK ==
  /\ state \in {"none", "active", "paused", "blocked", "complete"}
  /\ {armed, windDown, last} \subseteq {"yes", "no"}
  /\ derived \in Counters /\ check \in Counters \cup {None}
  /\ stray \subseteq [loop : Counters, armed : {"yes", "no"}, windDown : {"yes", "no"}]
  /\ running \in Run \cup {None}
  /\ pending \in Seq({"user", "goal"})
  /\ {autoRuns, wraps, clears} \subseteq Nat

GoalsIn(p) == Cardinality({i \in DOMAIN p : p[i] = "goal"})
GoalWork   == GoalsIn(pending) + (IF running # None /\ running.trigger = "goal" THEN 1 ELSE 0)

(* The daemon spends nothing unasked: a round is only ever added while the *)
(* goal is active and the loop armed; a pause or a stop during a check's   *)
(* awaits is respected when it ends.  A clear is not quite: a check of the *)
(* cleared goal may still add a round to the next goal, once that is       *)
(* active, and does not ask whether it is armed (goal-loop.ts:297).        *)
RoundsOnlyWhileArmed ==
  [][GoalWork' > GoalWork =>
       state' = "active" /\ (armed' = "yes" \/ stray' # stray)]_vars

(* However checks, user runs and throwing checks interleave, the rounds    *)
(* whose run started since a human last acted stay within the limit, plus  *)
(* the wrap-up round and one round for every goal that was cleared under a *)
(* check.  A round whose executeRun rejects before the agent loop is not   *)
(* logged and counts nowhere: this does not bound those.                   *)
AutonomyIsBounded == autoRuns <= MaxRounds + 1 + clears

(* Over budget, one wrap-up round is granted until a human acts again, and *)
(* one more for every goal that was cleared under a check.                 *)
WindsDownOnce == wraps <= 1 + clears

(* The loop never stalls silently: while it is armed and the goal active,  *)
(* a round or a check is under way.                                        *)
NeverStalls == armed = "yes" /\ state = "active" => Busy \/ check # None

(* An armed loop comes to rest by itself, unless users keep acting or its  *)
(* rounds keep failing before they start: a failed assembly moves no       *)
(* counter, and the idle edge after it begins the next check.              *)
ComesToRest ==
  <>[](armed = "no" \/ state # "active") \/ []<><<AssemblyFails>>_vars
=============================================================================
