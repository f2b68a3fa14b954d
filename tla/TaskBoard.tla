----------------------------- MODULE TaskBoard -----------------------------
(* The task board of one agent team: the task half of class TeamStore      *)
(* (core/src/team/store.ts) under the identity rules of the team host's    *)
(* facade (server/src/team.ts), its callers (the lead and the members),    *)
(* and a daemon that may die between the write of a task file and the      *)
(* update of the task's lock file.                                         *)
EXTENDS Integers, Sequences, FiniteSets

CONSTANTS Member,     \* the active members of the team
          Lead,       \* the team's lead
          None,       \* no assignee
          Same,       \* a field that an update leaves out
          MaxTasks    \* team.taskBoard.maxTasks

ASSUME TaskBoardAssumption ==
  /\ Lead \notin Member /\ None \notin Member /\ Same \notin Member /\ None # Same
  /\ MaxTasks \in Nat

Caller == Member \cup {Lead}

VARIABLES
  task,     \* the task files: a task's id is its position
  lock,     \* current_tasks: per task, the lock file of its attempt, if any
  slow,     \* a caller that has read a task and not yet updated it
  knows,    \* per task, the callers that were told the id of its attempt
  since,    \* ghost, per task: who was told of it since its executor took it,
            \* and once it is over: who completed or failed it untold
  up        \* is the daemon running?

vars == <<task, lock, slow, knows, since, up>>

Status == {"pending", "in_progress", "completed", "failed", "cancelled"}
Lock == {"none", "current", "old"}  \* absent, of the task's attempt, of an earlier one

Init ==
  /\ task = <<>> /\ lock = <<>> /\ knows = <<>> /\ since = <<>>
  /\ slow = None
  /\ up = TRUE
-----------------------------------------------------------------------------
isLegalTransition(from, to) ==
  \/ from = "pending" /\ to \in {"in_progress", "cancelled"}
  \/ from = "in_progress" /\ to \in {"completed", "failed", "cancelled"}
  \/ from = "failed" /\ to \in {"in_progress", "cancelled"}

\* heldTask: is the plate of m free, but for task id?
\* Faulty: whatever m executes already.
FreeForAny(m, id) == TRUE
FreeFor(m, id) ==
  ~ \E i \in DOMAIN task \ {id} : task[i].status = "in_progress" /\ task[i].assignee = m

\* Does a path of dependencies lead from the tasks in from to target?  Every
\* set that holds from and what its members depend on holds target.
\* Faulty: the search runs the wrong way.
reachedFrom(from, target) ==
  \A S \in SUBSET DOMAIN task :
    target \in S /\ (\A i \in S : task[i].dependencies \subseteq S) => from \subseteq S
reaches(from, target) ==
  \A S \in SUBSET DOMAIN task :
    from \subseteq S /\ (\A i \in S : task[i].dependencies \subseteq S) => target \in S

LockOf(t) == IF t.status = "in_progress" THEN "current" ELSE "none"
-----------------------------------------------------------------------------
\* What a caller reads of a task and compares later: its assignee, and
\* whether its revision is the current one still.
Seen(t) == [fresh |-> TRUE, assignee |-> t.assignee]

\* The read of taskUpdate, by a member that others overtake before it has the
\* store's lock.  Bound: one such caller at a time.
Read(m) ==
  /\ up /\ slow = None
  /\ \E id \in DOMAIN task : slow' = [by |-> m, id |-> id, seen |-> Seen(task[id])]
  /\ UNCHANGED <<task, lock, knows, since, up>>

HasRoom(n) == Len(task) + n <= MaxTasks

\* A new id depends on existing tasks only; only the lead assigns at birth.
createTask(c, dependencies, assignee) ==
  LET t == [status |-> "pending", assignee |-> assignee, dependencies |-> dependencies]
  IN
  /\ up /\ HasRoom(1)
  /\ c \in Member => assignee = None
  /\ task' = Append(task, t)
  /\ lock' = Append(lock, "none")
  /\ knows' = Append(knows, {}) /\ since' = Append(since, {})
  /\ UNCHANGED <<slow, up>>

Create ==
  \E c \in Caller, ds \in SUBSET DOMAIN task, a \in Member \cup {None} : createTask(c, ds, a)

\* taskUpdate of the facade, on the task as the caller read it.
\* Faulty: the identity of the caller is not looked at.
MayUpdateAll(c, seen, patch) == c \in Member => patch.assignee = Same
MayUpdate(c, seen, patch) ==
  c \in Member => patch.assignee = Same /\ seen.assignee \in {None, c}

\* A member that claims an unclaimed task fills in its own name.
Requested(c, seen, patch) ==
  IF c \in Member /\ seen.assignee = None /\ patch.status = "in_progress"
  THEN c ELSE patch.assignee

\* The store, under its lock: the revision the caller read is the task's.
\* Faulty: it is not compared.
Uncompared(seen) == TRUE
Current(seen) == seen.fresh

DependenciesOK(id, dependencies) ==
  dependencies # {Same} =>
    /\ id \notin dependencies /\ dependencies \subseteq DOMAIN task
    /\ ~reaches(dependencies, id)

\* Does the update begin a new execution?
\* Faulty: a reassignment lets the execution go on under its attempt.
MintsOnStart(t, assignee, status) == status = "in_progress" /\ t.status # "in_progress"
Mints(t, assignee, status) ==
  \/ status = "in_progress" /\ t.status # "in_progress"
  \/ assignee # t.assignee /\ t.status = "in_progress"

\* updateTask up to the write: what the update makes of task t.
Updated(t, assignee, status, dependencies) ==
  [ status |-> status, assignee |-> assignee,
    dependencies |-> IF dependencies = {Same} THEN t.dependencies ELSE dependencies ]

Accepts(c, id, assignee, status) ==
  LET t == task[id]
  IN
  /\ assignee # t.assignee /\ assignee # None /\ t.status = "in_progress" => FreeFor(assignee, id)
  /\ status # t.status =>
       /\ isLegalTransition(t.status, status)
       /\ status \in {"completed", "failed"} => c \in knows[id]
       /\ status = "in_progress" => assignee # None /\ FreeFor(assignee, id)

\* Bound: an update edits the dependencies or the execution, not both.
Patches ==
  [assignee : Member \cup {None, Same}, status : Status \cup {Same}, dependencies : {{Same}}]
    \cup [assignee : {Same}, status : {Same}, dependencies : SUBSET DOMAIN task]

\* Does the task change hands, or start anew?
Begins(t, u) == u.status = "in_progress" /\ (t.status # "in_progress" \/ t.assignee # u.assignee)

\* Who knows of the execution of u, when told is told of it.
ToldOf(u, anew, before, told) ==
  IF u.status # "in_progress" THEN {} ELSE told \cup (IF anew THEN {} ELSE before)

\* Who knows of it since its executor took it; once it has ended, who ended
\* it without knowing.
Untold(t, u, before, told) ==
  IF t.status = "in_progress" /\ u.status \in {"completed", "failed"} THEN told \ before
  ELSE ToldOf(u, Begins(t, u), before, told)

\* taskUpdate and updateTask: the task file is replaced, and the caller is
\* told the task as it is now, unless the daemon dies first.  (An attempt id
\* matters only during its execution.)
Writes(c, id, seen, patch, told) ==
  LET t        == task[id]
      wanted   == Requested(c, seen, patch)
      assignee == IF wanted = Same THEN t.assignee ELSE wanted
      status   == IF patch.status = Same THEN t.status ELSE patch.status
      u        == Updated(t, assignee, status, patch.dependencies)
  IN
  /\ up
  /\ MayUpdate(c, seen, patch)
  /\ Current(seen)
  /\ DependenciesOK(id, patch.dependencies)
  /\ Accepts(c, id, assignee, status)
  /\ task' = [task EXCEPT ![id] = u]
  /\ knows' = [knows EXCEPT ![id] = ToldOf(u, Mints(t, assignee, status), @, told)]
  /\ since' = [since EXCEPT ![id] = Untold(t, u, @, told)]

\* The lock follows the task.  Whoever else has read it holds an old revision.
updateTask(c, id, seen, patch) ==
  /\ Writes(c, id, seen, patch, {c})
  /\ lock' = [lock EXCEPT ![id] = LockOf(task'[id])]
  /\ UNCHANGED up

Update(c) ==
  \E id \in DOMAIN task, patch \in Patches :
    /\ updateTask(c, id, Seen(task[id]), patch)
    /\ slow' = IF slow # None /\ slow.id = id THEN [slow EXCEPT !.seen.fresh = FALSE] ELSE slow

\* The overtaken caller's update: accepted, or a TeamConflictError.
SlowUpdate ==
  /\ slow # None /\ slow' = None
  /\ \E patch \in Patches : updateTask(slow.by, slow.id, slow.seen, patch)

SlowGivesUp == slow # None /\ slow' = None /\ UNCHANGED <<task, lock, knows, since, up>>

\* taskList tells its caller every task as it is, the ids of the running
\* attempts included.
Tells(c, told) ==
  [i \in DOMAIN task |-> IF task[i].status = "in_progress" THEN told[i] \cup {c} ELSE told[i]]

TaskList(c) ==
  /\ up
  /\ knows' = Tells(c, knows) /\ since' = Tells(c, since)
  /\ UNCHANGED <<task, lock, slow, up>>

\* The daemon dies, between two calls or after the write of a task file.
Dies == up' = FALSE /\ slow' = None

CrashIdle == up /\ Dies /\ UNCHANGED <<task, lock, knows, since>>

\* Does the write of task id leave its attempt running?
OngoingIn(id) ==
  /\ task[id].status = "in_progress" /\ task'[id].status = "in_progress"
  /\ ~Mints(task[id], task'[id].assignee, "in_progress")

CrashInUpdate(c) ==
  /\ Dies
  /\ \E id \in DOMAIN task, patch \in Patches :
      /\ Writes(c, id, Seen(task[id]), patch, {})
      /\ lock' = [lock EXCEPT ![id] = IF @ = "current" /\ ~ OngoingIn(id) THEN "old" ELSE @]

\* The host loads the store: locks are reconciled with the task files.
\* Faulty: locks are only taken away.
ReconciledDown == [i \in DOMAIN lock |-> IF LockOf(task[i]) = "none" THEN "none" ELSE lock[i]]
Reconciled == [i \in DOMAIN task |-> LockOf(task[i])]

Load ==
  /\ ~up /\ up' = TRUE
  /\ lock' = Reconciled
  /\ UNCHANGED <<task, slow, knows, since>>

Next ==
  \/ Create
  \/ \E c \in Caller : Update(c) \/ CrashInUpdate(c) \/ TaskList(c)
  \/ \E m \in Member : Read(m)
  \/ SlowUpdate \/ SlowGivesUp \/ CrashIdle \/ Load

Spec == Init /\ [][Next]_vars
-----------------------------------------------------------------------------
Task == [ status : Status, assignee : Member \cup {None}, dependencies : SUBSET (1 .. MaxTasks) ]

Reader == [ by : Member, id : Nat, seen : [fresh : BOOLEAN, assignee : Member \cup {None}] ]

ASSUME NoneAssumption == None \notin Reader

(* The types of the board and of what its callers know of it.              *)
TypeOK ==
  /\ task \in Seq(Task) /\ Len(task) <= MaxTasks
  /\ lock \in [DOMAIN task -> Lock]
  /\ knows \in [DOMAIN task -> SUBSET Caller] /\ since \in [DOMAIN task -> SUBSET Caller]
  /\ slow \in [ by : Member, id : DOMAIN task,
                seen : [fresh : BOOLEAN, assignee : Member \cup {None}] ] \cup {None}
  /\ up \in BOOLEAN

(* One unfinished task per member: however claims, retries and             *)
(* reassignments race, no member executes two tasks.                       *)
OnePlate ==
  \A i, j \in DOMAIN task :
    /\ i # j /\ task[i].status = "in_progress" /\ task[j].status = "in_progress"
    /\ task[i].assignee # None
    => task[i].assignee # task[j].assignee

(* No edit of dependencies ever closes a cycle: some task of every set     *)
(* depends on nothing in it, so that the board can always be worked off.   *)
Acyclic ==
  \A S \in SUBSET DOMAIN task :
    S # {} => \E i \in S : task[i].dependencies \cap S = {}

(* The locks are those of the running attempts, and no others, whenever    *)
(* the daemon is up, wherever it died.                                        *)
LocksAreExecutions == up => \A i \in DOMAIN task : lock[i] = LockOf(task[i])

(* The facade reads the task before the store's lock is taken: even so, a  *)
(* member that was overtaken never changes what is another member's by now. *)
OwnerOrLead ==
  [][\A i \in DOMAIN task :
       /\ slow # None /\ slow' = None /\ slow.by \in Member
       /\ up' /\ task'[i] # task[i]
       => task[i].assignee \in {None, slow.by}]_vars

(* A late write of a superseded execution changes nothing: the caller that *)
(* completes or fails a task was told of it since its executor took it.    *)
LateWriteIsRejected ==
  \A i \in DOMAIN task : task[i].status \in {"completed", "failed"} => since[i] = {}
=============================================================================
