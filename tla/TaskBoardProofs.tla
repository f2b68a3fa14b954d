-------------------------- MODULE TaskBoardProofs --------------------------
(* What TaskBoard guarantees for teams of any size and boards of any       *)
(* length: its types, dependencies without cycles, one plate per member,   *)
(* locks that are the executions, and no write of who was superseded.      *)
EXTENDS TaskBoard, SequenceTheorems, TLAPS

(* Dependencies are tasks of the board. *)
Closed == \A i \in DOMAIN task : task[i].dependencies \subseteq DOMAIN task

(* A step of the board, as the task files show it: a new task at the end,  *)
(* which depends on earlier ones,                                          *)
Grows ==
  \E t \in Task :
    /\ task' = Append(task, t)
    /\ t.status = "pending" /\ t.dependencies \subseteq DOMAIN task
    /\ Len(task) < MaxTasks

(* or an edit of one task, which closes no cycle and fills no plate twice. *)
Edits ==
  \E id \in DOMAIN task, u \in Task :
    /\ task' = [task EXCEPT ![id] = u]
    /\ \/ u.dependencies = task[id].dependencies
       \/ /\ u.dependencies \subseteq DOMAIN task /\ ~reaches(u.dependencies, id)
    /\ u.status = "in_progress" =>
         \/ u.assignee = None
         \/ task[id].status = "in_progress" /\ u.assignee = task[id].assignee
         \/ FreeFor(u.assignee, id)
-----------------------------------------------------------------------------
(* What updateTask accepts is an edit. *)
LEMMA WritesEdit ==
  ASSUME TypeOK, Closed, NEW c, NEW id \in DOMAIN task, NEW seen, NEW patch \in Patches,
         NEW told, Writes(c, id, seen, patch, told), c \in Caller
  PROVE  Edits
<1> DEFINE t        == task[id]
           wanted   == Requested(c, seen, patch)
           assignee == IF wanted = Same THEN t.assignee ELSE wanted
           status   == IF patch.status = Same THEN t.status ELSE patch.status
           u        == Updated(t, assignee, status, patch.dependencies)
<1>1. t \in Task /\ DOMAIN task = 1 .. Len(task) /\ Len(task) \in Nat /\ Len(task) <= MaxTasks
  BY DEF TypeOK
<1>2. task' = [task EXCEPT ![id] = u]
  BY DEF Writes
<1>3. DependenciesOK(id, patch.dependencies) /\ Accepts(c, id, assignee, status)
  BY DEF Writes
<1>4. /\ patch.assignee \in Member \cup {None, Same}
      /\ patch.status \in Status \cup {Same}
  BY DEF Patches
<1>5. wanted \in Member \cup {None, Same}
  BY <1>4 DEF Requested
<1>6. assignee \in Member \cup {None} /\ status \in Status
  <2>1. t.assignee \in Member \cup {None} /\ t.status \in Status
    BY <1>1 DEF Task
  <2> QED BY <2>1, <1>4, <1>5
<1>7. /\ u.status = status /\ u.assignee = assignee
      /\ u.dependencies = IF patch.dependencies = {Same} THEN t.dependencies
                          ELSE patch.dependencies
  BY DEF Updated
<1>8. \/ u.dependencies = t.dependencies
      \/ u.dependencies \subseteq DOMAIN task /\ ~reaches(u.dependencies, id)
  BY <1>3, <1>7 DEF DependenciesOK
<1>9. u \in Task
  <2>1. u.dependencies \subseteq 1 .. MaxTasks
    BY <1>1, <1>8, TaskBoardAssumption DEF Task
  <2> QED BY <2>1, <1>6, <1>7 DEF Updated, Task
<1>10. status = "in_progress" =>
         \/ assignee = None
         \/ t.status = "in_progress" /\ assignee = t.assignee
         \/ FreeFor(assignee, id)
  BY <1>3 DEF Accepts
<1> QED BY <1>2, <1>7, <1>8, <1>9, <1>10 DEF Edits

(* Every step leaves the task files alone, adds a task or edits one. *)
LEMMA StepsOfTheBoard ==
  ASSUME TypeOK, Closed, [Next]_vars
  PROVE  UNCHANGED task \/ Grows \/ Edits
<1>1. CASE UNCHANGED vars
  BY <1>1 DEF vars
<1>2. CASE Create
  <2> PICK c \in Caller, ds \in SUBSET DOMAIN task, a \in Member \cup {None} : createTask(c, ds, a)
    BY <1>2 DEF Create
  <2> DEFINE t == [status |-> "pending", assignee |-> a, dependencies |-> ds]
  <2>1. task' = Append(task, t) /\ Len(task) < MaxTasks
    BY TaskBoardAssumption DEF createTask, HasRoom, TypeOK
  <2>2. t \in Task
    BY TaskBoardAssumption DEF Task, Status, TypeOK
  <2> QED BY <2>1, <2>2 DEF Grows
<1>3. ASSUME NEW c \in Caller, Update(c)
      PROVE  Edits
  BY <1>3, WritesEdit DEF Update, updateTask
<1>4. ASSUME NEW c \in Caller, CrashInUpdate(c)
      PROVE  Edits
  BY <1>4, WritesEdit DEF CrashInUpdate
<1>5. CASE SlowUpdate
  <2>1. slow.by \in Caller /\ slow.id \in DOMAIN task
    BY <1>5 DEF SlowUpdate, TypeOK, Caller
  <2> QED BY <1>5, <2>1, WritesEdit DEF SlowUpdate, updateTask
<1>6. ASSUME NEW m \in Member, Read(m)
      PROVE  UNCHANGED task
  BY <1>6 DEF Read
<1>7. CASE SlowGivesUp \/ CrashIdle \/ Load \/ \E c \in Caller : TaskList(c)
  BY <1>7 DEF SlowGivesUp, CrashIdle, Load, TaskList
<1> QED BY <1>1, <1>2, <1>3, <1>4, <1>5, <1>6, <1>7 DEF Next
-----------------------------------------------------------------------------
(* The board stays closed under dependencies. *)
LEMMA ClosedStep ==
  ASSUME task \in Seq(Task), Closed, UNCHANGED task \/ Grows \/ Edits
  PROVE  Closed'
<1>1. CASE UNCHANGED task
  BY <1>1 DEF Closed
<1>2. CASE Grows
  <2> PICK t \in Task : task' = Append(task, t) /\ t.dependencies \subseteq DOMAIN task
    BY <1>2 DEF Grows
  <2>1. /\ DOMAIN task' = DOMAIN task \cup {Len(task) + 1}
        /\ \A i \in DOMAIN task : task'[i] = task[i]
        /\ task'[Len(task) + 1] = t
    OBVIOUS
  <2> QED BY <2>1 DEF Closed
<1>3. CASE Edits
  <2> PICK id \in DOMAIN task, u \in Task :
        /\ task' = [task EXCEPT ![id] = u]
        /\ u.dependencies = task[id].dependencies \/ u.dependencies \subseteq DOMAIN task
    BY <1>3 DEF Edits
  <2>1. DOMAIN task' = DOMAIN task /\ \A i \in DOMAIN task : task'[i] = IF i = id THEN u ELSE task[i]
    OBVIOUS
  <2> QED BY <2>1 DEF Closed
<1> QED BY <1>1, <1>2, <1>3

(* No step closes a cycle.  After an edit of task id, the tasks its new    *)
(* dependencies reach are a closed set C without id: a set that meets C    *)
(* has its task without dependencies there, by the order before the edit,  *)
(* and for a set that does not, the new dependencies are outside it.       *)
LEMMA AcyclicStep ==
  ASSUME task \in Seq(Task), Closed, Acyclic, UNCHANGED task \/ Grows \/ Edits
  PROVE  Acyclic'
<1>1. CASE UNCHANGED task
  BY <1>1 DEF Acyclic
<1>2. CASE Grows
  <2> PICK t \in Task : task' = Append(task, t) /\ t.dependencies \subseteq DOMAIN task
    BY <1>2 DEF Grows
  <2> DEFINE n == Len(task) + 1
  <2>1. /\ DOMAIN task' = DOMAIN task \cup {n} /\ n \notin DOMAIN task
        /\ \A i \in DOMAIN task : task'[i] = task[i]
        /\ task'[n] = t
    OBVIOUS
  <2> HIDE DEF n
  <2> SUFFICES ASSUME NEW S \in SUBSET DOMAIN task', S # {}
               PROVE  \E i \in S : task'[i].dependencies \cap S = {}
    BY DEF Acyclic
  <2>2. CASE S \cap DOMAIN task = {}
    BY <2>1, <2>2
  <2>3. CASE S \cap DOMAIN task # {}
    <3>1. PICK i \in S \cap DOMAIN task : task[i].dependencies \cap (S \cap DOMAIN task) = {}
      BY <2>3 DEF Acyclic
    <3> QED BY <2>1, <3>1 DEF Closed
  <2> QED BY <2>2, <2>3
<1>3. CASE Edits
  <2> PICK id \in DOMAIN task, u \in Task :
        /\ task' = [task EXCEPT ![id] = u]
        /\ \/ u.dependencies = task[id].dependencies
           \/ u.dependencies \subseteq DOMAIN task /\ ~reaches(u.dependencies, id)
    BY <1>3 DEF Edits
  <2>1. DOMAIN task' = DOMAIN task /\ \A i \in DOMAIN task : task'[i] = IF i = id THEN u ELSE task[i]
    OBVIOUS
  <2> SUFFICES ASSUME NEW S \in SUBSET DOMAIN task, S # {}
               PROVE  \E i \in S : task'[i].dependencies \cap S = {}
    BY <2>1 DEF Acyclic
  <2>2. CASE u.dependencies = task[id].dependencies
    BY <2>1, <2>2 DEF Acyclic
  <2>3. CASE ~reaches(u.dependencies, id)
    <3>1. PICK C \in SUBSET DOMAIN task :
            /\ u.dependencies \subseteq C
            /\ \A i \in C : task[i].dependencies \subseteq C
            /\ id \notin C
      BY <2>3 DEF reaches
    <3>2. CASE S \cap C # {}
      <4>1. PICK i \in S \cap C : task[i].dependencies \cap (S \cap C) = {}
        BY <3>2 DEF Acyclic
      <4> QED BY <2>1, <3>1, <4>1
    <3>3. CASE S \cap C = {} /\ id \in S
      BY <2>1, <3>1, <3>3
    <3>4. CASE id \notin S
      BY <2>1, <3>4 DEF Acyclic
    <3> QED BY <3>2, <3>3, <3>4
  <2> QED BY <2>2, <2>3
<1> QED BY <1>1, <1>2, <1>3

(* No step gives a member a second task to execute. *)
LEMMA OnePlateStep ==
  ASSUME task \in Seq(Task), OnePlate, UNCHANGED task \/ Grows \/ Edits
  PROVE  OnePlate'
<1>1. CASE UNCHANGED task
  BY <1>1 DEF OnePlate
<1>2. CASE Grows
  <2> PICK t \in Task : task' = Append(task, t) /\ t.status = "pending"
    BY <1>2 DEF Grows
  <2>1. /\ DOMAIN task' = DOMAIN task \cup {Len(task) + 1}
        /\ \A i \in DOMAIN task : task'[i] = task[i]
        /\ task'[Len(task) + 1] = t
    OBVIOUS
  <2> QED BY <2>1 DEF OnePlate
<1>3. CASE Edits
  <2> PICK id \in DOMAIN task, u \in Task :
        /\ task' = [task EXCEPT ![id] = u]
        /\ u.status = "in_progress" =>
             \/ u.assignee = None
             \/ task[id].status = "in_progress" /\ u.assignee = task[id].assignee
             \/ FreeFor(u.assignee, id)
    BY <1>3 DEF Edits
  <2>1. DOMAIN task' = DOMAIN task /\ \A i \in DOMAIN task : task'[i] = IF i = id THEN u ELSE task[i]
    OBVIOUS
  <2> SUFFICES ASSUME NEW i \in DOMAIN task, NEW j \in DOMAIN task, i # j,
                      task'[i].status = "in_progress", task'[j].status = "in_progress",
                      task'[i].assignee # None, task'[i].assignee = task'[j].assignee
               PROVE  FALSE
    BY <2>1 DEF OnePlate
  <2>2. CASE i # id /\ j # id
    BY <2>1, <2>2 DEF OnePlate
  <2>3. ASSUME NEW k \in DOMAIN task, k # id, u.status = "in_progress", u.assignee # None,
               task[k].status = "in_progress", task[k].assignee = u.assignee
        PROVE  FALSE
    <3>1. ~FreeFor(u.assignee, id)
      BY <2>3 DEF FreeFor
    <3> QED BY <2>3, <3>1 DEF OnePlate
  <2> QED BY <2>1, <2>2, <2>3
<1> QED BY <1>1, <1>2, <1>3
-----------------------------------------------------------------------------
(* updateTask keeps the types, whoever is told of what it wrote. *)
LEMMA WritesTypes ==
  ASSUME TypeOK, Closed, NEW c \in Caller, NEW id \in DOMAIN task, NEW seen,
         NEW patch \in Patches, NEW told \in SUBSET Caller, Writes(c, id, seen, patch, told)
  PROVE  /\ task' \in Seq(Task) /\ Len(task') <= MaxTasks /\ DOMAIN task' = DOMAIN task
         /\ knows' \in [DOMAIN task -> SUBSET Caller]
         /\ since' \in [DOMAIN task -> SUBSET Caller]
<1>1. PICK u \in Task, i \in DOMAIN task : task' = [task EXCEPT ![i] = u]
  BY WritesEdit DEF Edits
<1>2. task' \in Seq(Task) /\ Len(task') <= MaxTasks /\ DOMAIN task' = DOMAIN task
  BY <1>1 DEF TypeOK
<1>3. \A w, anew : \A before \in SUBSET Caller : ToldOf(w, anew, before, told) \in SUBSET Caller
  BY DEF ToldOf
<1>4. \A t, w : \A before \in SUBSET Caller : Untold(t, w, before, told) \in SUBSET Caller
  BY <1>3 DEF Untold
<1>5. PICK t, v, a : /\ knows' = [knows EXCEPT ![id] = ToldOf(v, a, @, told)]
                     /\ since' = [since EXCEPT ![id] = Untold(t, v, @, told)]
  BY DEF Writes
<1>6. ToldOf(v, a, knows[id], told) \in SUBSET Caller /\ Untold(t, v, since[id], told) \in SUBSET Caller
  BY <1>3, <1>4 DEF TypeOK
<1> QED BY <1>2, <1>5, <1>6 DEF TypeOK

(* Appending to a function on 1 .. n. *)
LEMMA AppendFacts ==
  ASSUME NEW S, NEW n \in Nat, NEW f \in [1 .. n -> S], NEW x \in S
  PROVE  Append(f, x) \in [1 .. n + 1 -> S]
<1>1. f \in Seq(S)
  OBVIOUS
<1>2. Len(f) = n
  BY <1>1
<1>3. Append(f, x) \in Seq(S) /\ Len(Append(f, x)) = n + 1
  BY <1>1, <1>2
<1> QED BY <1>3, LenProperties

(* No step breaks a type. *)
LEMMA TypeStep ==
  ASSUME TypeOK, Closed, [Next]_vars
  PROVE  TypeOK'
<1>1. CASE UNCHANGED vars
  BY <1>1 DEF vars, TypeOK
<1>2. CASE Create
  <2> PICK c \in Caller, ds \in SUBSET DOMAIN task, a \in Member \cup {None} : createTask(c, ds, a)
    BY <1>2 DEF Create
  <2> DEFINE t == [status |-> "pending", assignee |-> a, dependencies |-> ds]
  <2>1. /\ task' = Append(task, t) /\ Len(task) + 1 <= MaxTasks
        /\ lock' = Append(lock, "none")
        /\ knows' = Append(knows, {}) /\ since' = Append(since, {})
        /\ UNCHANGED <<slow, up>>
    BY DEF createTask, HasRoom
  <2>2. t \in Task
    <3>1. ds \subseteq 1 .. MaxTasks
      BY TaskBoardAssumption DEF TypeOK
    <3> QED BY <3>1 DEF Task, Status
  <2>3. /\ task' \in Seq(Task) /\ Len(task') <= MaxTasks /\ Len(task) \in Nat
        /\ DOMAIN task = 1 .. Len(task) /\ DOMAIN task' = 1 .. Len(task) + 1
    BY <2>1, <2>2 DEF TypeOK
  <2>4. lock \in [1 .. Len(task) -> Lock] /\ "none" \in Lock
    BY <2>3 DEF TypeOK, Lock
  <2>5. lock' \in [1 .. Len(task) + 1 -> Lock]
    BY <2>1, <2>3, <2>4, AppendFacts
  <2>6. /\ knows \in [1 .. Len(task) -> SUBSET Caller] /\ since \in [1 .. Len(task) -> SUBSET Caller]
        /\ {} \in SUBSET Caller
    BY <2>3 DEF TypeOK
  <2>7. knows' \in [1 .. Len(task) + 1 -> SUBSET Caller]
    BY <2>1, <2>3, <2>6, AppendFacts
  <2>8. since' \in [1 .. Len(task) + 1 -> SUBSET Caller]
    BY <2>1, <2>3, <2>6, AppendFacts
  <2>9. slow' \in [ by : Member, id : DOMAIN task',
                    seen : [fresh : BOOLEAN, assignee : Member \cup {None}] ] \cup {None}
    BY <2>1, <2>3 DEF TypeOK
  <2> QED BY <2>1, <2>3, <2>5, <2>7, <2>8, <2>9 DEF TypeOK
<1>3. ASSUME NEW c \in Caller, NEW id \in DOMAIN task, NEW seen, NEW patch \in Patches,
             updateTask(c, id, seen, patch),
             slow' \in [ by : Member, id : DOMAIN task,
                         seen : [fresh : BOOLEAN, assignee : Member \cup {None}] ] \cup {None}
      PROVE  TypeOK'
  <2>1. Writes(c, id, seen, patch, {c}) /\ UNCHANGED up
        /\ lock' = [lock EXCEPT ![id] = LockOf(task'[id])]
    BY <1>3 DEF updateTask
  <2>2. LockOf(task'[id]) \in Lock
    BY DEF LockOf, Lock
  <2>3. /\ task' \in Seq(Task) /\ Len(task') <= MaxTasks /\ DOMAIN task' = DOMAIN task
        /\ knows' \in [DOMAIN task -> SUBSET Caller]
        /\ since' \in [DOMAIN task -> SUBSET Caller]
    BY <2>1, WritesTypes
  <2>4. lock' \in [DOMAIN task -> Lock]
    BY <2>1, <2>2 DEF TypeOK
  <2> QED BY <1>3, <2>1, <2>3, <2>4 DEF TypeOK
<1>4. ASSUME NEW c \in Caller, Update(c)
      PROVE  TypeOK'
  <2> PICK id \in DOMAIN task, patch \in Patches :
        /\ updateTask(c, id, Seen(task[id]), patch)
        /\ slow' = IF slow # None /\ slow.id = id THEN [slow EXCEPT !.seen.fresh = FALSE] ELSE slow
    BY <1>4 DEF Update
  <2>1. slow' \in [ by : Member, id : DOMAIN task,
                    seen : [fresh : BOOLEAN, assignee : Member \cup {None}] ] \cup {None}
    BY DEF TypeOK
  <2> QED BY <1>3, <2>1
<1>5. CASE SlowUpdate
  <2>1. slow.by \in Caller /\ slow.id \in DOMAIN task /\ slow' = None
    BY <1>5 DEF SlowUpdate, Caller, TypeOK
  <2> QED BY <1>3, <1>5, <2>1 DEF SlowUpdate
<1>6. ASSUME NEW c \in Caller, CrashInUpdate(c)
      PROVE  TypeOK'
  <2> PICK id \in DOMAIN task, patch \in Patches :
        /\ Writes(c, id, Seen(task[id]), patch, {})
        /\ lock' = [lock EXCEPT ![id] = IF @ = "current" /\ ~ OngoingIn(id) THEN "old" ELSE @]
    BY <1>6 DEF CrashInUpdate
  <2>1. /\ task' \in Seq(Task) /\ Len(task') <= MaxTasks /\ DOMAIN task' = DOMAIN task
        /\ knows' \in [DOMAIN task -> SUBSET Caller]
        /\ since' \in [DOMAIN task -> SUBSET Caller]
    <3>1. {} \in SUBSET Caller
      OBVIOUS
    <3> QED BY <3>1, WritesTypes
  <2>2. lock' \in [DOMAIN task -> Lock]
    BY DEF Lock, TypeOK
  <2> QED BY <1>6, <2>1, <2>2 DEF CrashInUpdate, Dies, TypeOK
<1>7. ASSUME NEW m \in Member, Read(m)
      PROVE  TypeOK'
  <2>1. PICK id \in DOMAIN task : slow' = [by |-> m, id |-> id, seen |-> Seen(task[id])]
    BY <1>7 DEF Read
  <2>2. task[id].assignee \in Member \cup {None}
    <3>1. task[id] \in Task
      BY DEF TypeOK
    <3> QED BY <3>1 DEF Task
  <2>3. slow' \in [ by : Member, id : DOMAIN task,
                    seen : [fresh : BOOLEAN, assignee : Member \cup {None}] ]
    BY <2>1, <2>2 DEF Seen
  <2> QED BY <1>7, <2>3 DEF Read, TypeOK
<1>8. CASE SlowGivesUp
  BY <1>8 DEF SlowGivesUp, TypeOK
<1>9. CASE CrashIdle
  BY <1>9 DEF CrashIdle, Dies, TypeOK
<1>10. CASE Load
  <2>1. lock' \in [DOMAIN task -> Lock]
    BY <1>10 DEF Load, Reconciled, LockOf, Lock
  <2> QED BY <1>10, <2>1 DEF Load, TypeOK
<1>11. ASSUME NEW c \in Caller, TaskList(c)
       PROVE  TypeOK'
  BY <1>11 DEF TaskList, Tells, TypeOK
<1> QED BY <1>1, <1>2, <1>4, <1>5, <1>6, <1>7, <1>8, <1>9, <1>10, <1>11 DEF Next
-----------------------------------------------------------------------------
(* The inductive invariant of the board. *)
Board == TypeOK /\ Closed /\ Acyclic /\ OnePlate

(* It holds of the empty board and no step breaks it. *)
LEMMA BoardInvariant == Spec => []Board
<1>1. Init => Board
  BY TaskBoardAssumption DEF Init, Board, TypeOK, Closed, Acyclic, OnePlate
<1>2. Board /\ [Next]_vars => Board'
  BY StepsOfTheBoard, TypeStep, ClosedStep, AcyclicStep, OnePlateStep DEF Board, TypeOK
<1> QED BY <1>1, <1>2, PTL DEF Spec

(* The board is well typed, for every set of members and every cap. *)
THEOREM BoardIsTyped == Spec => []TypeOK
BY BoardInvariant, PTL DEF Board

(* Dependencies never form a cycle, on boards of any length: reaches is    *)
(* asked before every edit and new tasks have no incoming edges.           *)
THEOREM NoCycles == Spec => []Acyclic
BY BoardInvariant, PTL DEF Board

(* No member ever executes two tasks, in teams of any size. *)
THEOREM OneTaskPerMember == Spec => []OnePlate
BY BoardInvariant, PTL DEF Board
-----------------------------------------------------------------------------
(* What the records of the board say: the lock files of the executions; a  *)
(* caller that has read a task and was not overtaken knows its assignee;   *)
(* and who has the attempt id of an execution was told of it since its     *)
(* executor took it.                                                       *)
Sighted == slow # None /\ slow.seen.fresh => slow.seen.assignee = task[slow.id].assignee

Informed ==
  \A i \in DOMAIN task : task[i].status = "in_progress" => knows[i] \subseteq since[i]

Recorded == LocksAreExecutions /\ Sighted /\ Informed /\ LateWriteIsRejected

(* The task that updateTask writes, and what becomes known of it. *)
Written(id, u, told) ==
  LET t == task[id]
  IN
  /\ task' = [task EXCEPT ![id] = u]
  /\ u.status \in {"completed", "failed"} /\ u.status # t.status =>
       t.status = "in_progress" /\ told \subseteq knows[id]
  /\ knows' = [knows EXCEPT ![id] = ToldOf(u, Begins(t, u), @, told)]
  /\ since' = [since EXCEPT ![id] = Untold(t, u, @, told)]

LEMMA WritesRecords ==
  ASSUME TypeOK, NEW c \in Caller, NEW id \in DOMAIN task, NEW seen, NEW patch \in Patches,
         NEW told \in SUBSET {c}, Writes(c, id, seen, patch, told)
  PROVE  up /\ MayUpdate(c, seen, patch) /\ Current(seen) /\ \E u : Written(id, u, told)
<1> DEFINE t        == task[id]
           wanted   == Requested(c, seen, patch)
           assignee == IF wanted = Same THEN t.assignee ELSE wanted
           status   == IF patch.status = Same THEN t.status ELSE patch.status
           u        == Updated(t, assignee, status, patch.dependencies)
<1>1. /\ task' = [task EXCEPT ![id] = u] /\ Accepts(c, id, assignee, status)
      /\ knows' = [knows EXCEPT ![id] = ToldOf(u, Mints(t, assignee, status), @, told)]
      /\ since' = [since EXCEPT ![id] = Untold(t, u, @, told)]
      /\ up /\ MayUpdate(c, seen, patch) /\ Current(seen)
  BY DEF Writes
<1>2. u.status = status /\ u.assignee = assignee
  BY DEF Updated
<1>3. status \in {"completed", "failed"} /\ status # t.status =>
        t.status = "in_progress" /\ told \subseteq knows[id]
  BY <1>1 DEF Accepts, isLegalTransition
<1>4. ToldOf(u, Mints(t, assignee, status), knows[id], told) = ToldOf(u, Begins(t, u), knows[id], told)
  BY <1>2 DEF ToldOf, Mints, Begins
<1> HIDE DEF assignee, status, u
<1> QED BY <1>1, <1>2, <1>3, <1>4 DEF Written

(* Whoever is told, and whether or not the daemon survives the write, what *)
(* is known of the tasks stays in order.                                   *)
LEMMA WrittenInformed ==
  ASSUME TypeOK, Informed, LateWriteIsRejected, NEW id \in DOMAIN task, NEW u, NEW told,
         Written(id, u, told)
  PROVE  Informed' /\ LateWriteIsRejected'
<1>1. /\ DOMAIN task' = DOMAIN task
      /\ \A i \in DOMAIN task : task'[i] = IF i = id THEN u ELSE task[i]
  BY DEF Written, TypeOK
<1>2. /\ \A i \in DOMAIN task \ {id} : knows'[i] = knows[i] /\ since'[i] = since[i]
      /\ knows'[id] = ToldOf(u, Begins(task[id], u), knows[id], told)
      /\ since'[id] = Untold(task[id], u, since[id], told)
  BY DEF Written, TypeOK
<1>3. u.status = "in_progress" => knows'[id] \subseteq since'[id]
  <2> SUFFICES ASSUME u.status = "in_progress"  PROVE knows'[id] \subseteq since'[id]
    OBVIOUS
  <2>1. /\ knows'[id] = told \cup (IF Begins(task[id], u) THEN {} ELSE knows[id])
        /\ since'[id] = told \cup (IF Begins(task[id], u) THEN {} ELSE since[id])
    BY <1>2 DEF ToldOf, Untold
  <2>2. ~Begins(task[id], u) => knows[id] \subseteq since[id]
    BY DEF Begins, Informed
  <2> QED BY <2>1, <2>2
<1>4. u.status \in {"completed", "failed"} => since'[id] = {}
  <2> SUFFICES ASSUME u.status \in {"completed", "failed"}  PROVE since'[id] = {}
    OBVIOUS
  <2>1. CASE task[id].status = "in_progress"
    <3>1. told \subseteq knows[id] /\ knows[id] \subseteq since[id]
      BY <2>1 DEF Written, Informed
    <3> QED BY <1>2, <2>1, <3>1 DEF Untold
  <2>2. CASE task[id].status # "in_progress"
    BY <1>2, <2>2 DEF Untold, ToldOf
  <2> QED BY <2>1, <2>2
<1>5. Informed'
  BY <1>1, <1>2, <1>3 DEF Informed
<1>6. LateWriteIsRejected'
  BY <1>1, <1>2, <1>4 DEF LateWriteIsRejected
<1> QED BY <1>5, <1>6

(* A caller that updates a task by the store's rules: all records follow,  *)
(* if whoever else has read the task is told it was overtaken.             *)
LEMMA UpdateRecords ==
  ASSUME TypeOK, Recorded, NEW c \in Caller, NEW id \in DOMAIN task, NEW seen,
         NEW patch \in Patches, updateTask(c, id, seen, patch)
  PROVE  /\ LocksAreExecutions' /\ Informed' /\ LateWriteIsRejected'
         /\ \A i \in DOMAIN task \ {id} : task'[i] = task[i]
<1>1. /\ Writes(c, id, seen, patch, {c}) /\ up' = up
      /\ lock' = [lock EXCEPT ![id] = LockOf(task'[id])]
  BY DEF updateTask
<1>2. PICK u : Written(id, u, {c})
  BY <1>1, WritesRecords
<1>3. /\ DOMAIN task' = DOMAIN task
      /\ \A i \in DOMAIN task \ {id} : task'[i] = task[i]
  BY <1>2 DEF Written, TypeOK
<1>4. /\ \A i \in DOMAIN task \ {id} : lock'[i] = lock[i]
      /\ lock'[id] = LockOf(task'[id])
  BY <1>1 DEF TypeOK
<1>5. LocksAreExecutions'
  BY <1>1, <1>3, <1>4 DEF LocksAreExecutions, Recorded
<1> QED BY <1>2, <1>3, <1>5, WrittenInformed DEF Recorded

(* A new task has nothing on record. *)
LEMMA CreateRecords ==
  ASSUME TypeOK, Recorded, Create  PROVE Recorded'
<1> PICK c \in Caller, ds \in SUBSET DOMAIN task, a \in Member \cup {None} : createTask(c, ds, a)
  BY DEF Create
<1> DEFINE t == [status |-> "pending", assignee |-> a, dependencies |-> ds]
           n == Len(task) + 1
<1>1. /\ task' = Append(task, t) /\ lock' = Append(lock, "none")
      /\ knows' = Append(knows, {}) /\ since' = Append(since, {})
      /\ UNCHANGED <<slow, up>>
  BY DEF createTask
<1>2. /\ DOMAIN task = 1 .. Len(task) /\ Len(task) \in Nat /\ DOMAIN task' = DOMAIN task \cup {n}
      /\ n \notin DOMAIN task
      /\ \A i \in DOMAIN task : task'[i] = task[i]
      /\ task'[n] = t
  BY <1>1 DEF TypeOK
<1>3. /\ \A i \in DOMAIN task : lock'[i] = lock[i] /\ knows'[i] = knows[i] /\ since'[i] = since[i]
      /\ lock'[n] = "none" /\ knows'[n] = {} /\ since'[n] = {}
  <2>1. ASSUME NEW S, NEW f \in [DOMAIN task -> S], NEW x
        PROVE  (\A i \in DOMAIN task : Append(f, x)[i] = f[i]) /\ Append(f, x)[n] = x
    <3>1. f \in Seq(S) /\ Len(f) = Len(task)
      BY <1>2
    <3> QED BY <1>2, <3>1
  <2>2. /\ lock \in [DOMAIN task -> Lock]
        /\ knows \in [DOMAIN task -> SUBSET Caller] /\ since \in [DOMAIN task -> SUBSET Caller]
    BY DEF TypeOK
  <2> QED BY <1>1, <2>1, <2>2
<1>4. t.status = "pending" /\ LockOf(t) = "none"
  BY DEF LockOf
<1> HIDE DEF t, n
<1>5. LocksAreExecutions'
  BY <1>1, <1>2, <1>3, <1>4 DEF Recorded, LocksAreExecutions
<1>6. Sighted'
  <2>1. slow # None => slow.id \in DOMAIN task
    BY DEF TypeOK
  <2> QED BY <1>1, <1>2, <2>1 DEF Recorded, Sighted
<1>7. Informed' /\ LateWriteIsRejected'
  BY <1>2, <1>3, <1>4 DEF Recorded, Informed, LateWriteIsRejected
<1> QED BY <1>5, <1>6, <1>7 DEF Recorded

(* No step puts the records in disorder. *)
LEMMA RecordedStep ==
  ASSUME TypeOK, Recorded, [Next]_vars  PROVE Recorded'
<1>1. CASE UNCHANGED vars
  BY <1>1 DEF vars, Recorded, LocksAreExecutions, Sighted, Informed, LateWriteIsRejected, LockOf
<1>2. CASE Create
  BY <1>2, CreateRecords
<1>3. ASSUME NEW c \in Caller, Update(c)  PROVE Recorded'
  <2> PICK id \in DOMAIN task, patch \in Patches :
        /\ updateTask(c, id, Seen(task[id]), patch)
        /\ slow' = IF slow # None /\ slow.id = id THEN [slow EXCEPT !.seen.fresh = FALSE] ELSE slow
    BY <1>3 DEF Update
  <2>1. \A i \in DOMAIN task \ {id} : task'[i] = task[i]
    BY UpdateRecords
  <2>2. Sighted'
    <3>1. CASE slow = None
      BY <3>1 DEF Sighted
    <3>2. CASE slow # None /\ slow.id = id
      <4>1. slow'.seen.fresh = FALSE
        BY <3>2 DEF TypeOK
      <4> QED BY <4>1 DEF Sighted
    <3>3. CASE slow # None /\ slow.id # id
      <4>1. slow.id \in DOMAIN task \ {id} /\ slow' = slow
        BY <3>3 DEF TypeOK
      <4> QED BY <2>1, <4>1 DEF Sighted, Recorded
    <3> QED BY <3>1, <3>2, <3>3
  <2> QED BY <2>2, UpdateRecords DEF Recorded
<1>4. CASE SlowUpdate
  <2> PICK patch \in Patches : updateTask(slow.by, slow.id, slow.seen, patch)
    BY <1>4 DEF SlowUpdate
  <2>1. slow.by \in Caller /\ slow.id \in DOMAIN task /\ slow' = None
    BY <1>4 DEF SlowUpdate, Caller, TypeOK
  <2> QED BY <2>1, UpdateRecords DEF Recorded, Sighted
<1>5. ASSUME NEW c \in Caller, CrashInUpdate(c)  PROVE Recorded'
  <2> PICK id \in DOMAIN task, patch \in Patches : Writes(c, id, Seen(task[id]), patch, {})
    BY <1>5 DEF CrashInUpdate
  <2>1. {} \in SUBSET {c}
    OBVIOUS
  <2>2. PICK u : Written(id, u, {})
    BY <2>1, WritesRecords
  <2>3. Informed' /\ LateWriteIsRejected'
    BY <2>2, WrittenInformed DEF Recorded
  <2> QED BY <1>5, <2>3 DEF CrashInUpdate, Dies, Recorded, LocksAreExecutions, Sighted
<1>6. ASSUME NEW m \in Member, Read(m)  PROVE Recorded'
  <2>1. PICK id \in DOMAIN task : slow' = [by |-> m, id |-> id, seen |-> Seen(task[id])]
    BY <1>6 DEF Read
  <2>2. UNCHANGED <<task, lock, knows, since, up>>
    BY <1>6 DEF Read
  <2>3. Sighted'
    BY <2>1, <2>2 DEF Sighted, Seen
  <2> QED BY <2>2, <2>3 DEF Recorded, LocksAreExecutions, Informed, LateWriteIsRejected, LockOf
<1>7. CASE SlowGivesUp
  BY <1>7 DEF SlowGivesUp, Recorded, LocksAreExecutions, Sighted, Informed, LateWriteIsRejected, LockOf
<1>8. CASE CrashIdle
  BY <1>8 DEF CrashIdle, Dies, Recorded, LocksAreExecutions, Sighted, Informed, LateWriteIsRejected
<1>9. CASE Load
  BY <1>9 DEF Load, Reconciled, Recorded, LocksAreExecutions, Sighted, Informed,
              LateWriteIsRejected, LockOf
<1>10. ASSUME NEW c \in Caller, TaskList(c)  PROVE Recorded'
  <2>1. UNCHANGED <<task, lock, slow, up>>
    BY <1>10 DEF TaskList
  <2>2. ASSUME NEW i \in DOMAIN task
        PROVE  /\ task[i].status = "in_progress" => /\ knows'[i] = knows[i] \cup {c}
                                                   /\ since'[i] = since[i] \cup {c}
               /\ task[i].status # "in_progress" => since'[i] = since[i]
    BY <1>10 DEF TaskList, Tells
  <2>3. Informed' /\ LateWriteIsRejected'
    BY <2>1, <2>2 DEF Recorded, Informed, LateWriteIsRejected
  <2> QED BY <2>1, <2>3 DEF Recorded, LocksAreExecutions, Sighted, LockOf
<1> QED BY <1>1, <1>2, <1>3, <1>4, <1>5, <1>6, <1>7, <1>8, <1>9, <1>10 DEF Next

LEMMA RecordsInvariant == Spec => [](TypeOK /\ Recorded)
<1>1. Init => Recorded
  BY DEF Init, Recorded, LocksAreExecutions, Sighted, Informed, LateWriteIsRejected
<1>2. TypeOK /\ Recorded /\ [Next]_vars => Recorded'
  BY RecordedStep
<1> QED BY <1>1, <1>2, BoardIsTyped, PTL DEF Spec

(* While the daemon is up the lock files are those of the running attempts *)
(* and no others, wherever it died before.                                 *)
THEOREM LocksFollow == Spec => []LocksAreExecutions
BY RecordsInvariant, PTL DEF Recorded

(* Whoever completes or fails a task was told of its execution since the   *)
(* executor took it, whatever others wrote in between.                     *)
THEOREM NoLateWrite == Spec => []LateWriteIsRejected
BY RecordsInvariant, PTL DEF Recorded

(* What the update of an overtaken member may change.                      *)
KeepOff ==
  \A i \in DOMAIN task :
    /\ slow # None /\ slow' = None /\ slow.by \in Member
    /\ up' /\ task'[i] # task[i]
    => task[i].assignee \in {None, slow.by}

(* What it has seen of the assignee is current, or the store turns it away. *)
LEMMA OvertakenStep ==
  ASSUME TypeOK, Recorded, Next  PROVE KeepOff
<1> SUFFICES ASSUME NEW i \in DOMAIN task, slow # None, slow' = None, slow.by \in Member,
                    up', task'[i] # task[i]
             PROVE  task[i].assignee \in {None, slow.by}
  BY DEF KeepOff
<1>1. slow \in Reader
  BY DEF TypeOK, Reader
<1>2. ASSUME NEW c \in Caller, Update(c)  PROVE FALSE
  <2>1. [slow EXCEPT !.seen.fresh = FALSE] \in Reader
    BY <1>1 DEF Reader
  <2>2. slow' \in {slow, [slow EXCEPT !.seen.fresh = FALSE]}
    BY <1>2 DEF Update
  <2> QED BY <1>1, <2>1, <2>2, NoneAssumption
<1>3. CASE SlowUpdate
  <2> PICK patch \in Patches : updateTask(slow.by, slow.id, slow.seen, patch)
    BY <1>3 DEF SlowUpdate
  <2>1. slow.by \in Caller /\ slow.id \in DOMAIN task
    BY DEF TypeOK, Caller
  <2>2. MayUpdate(slow.by, slow.seen, patch) /\ Current(slow.seen) /\ i = slow.id
    <3>1. Writes(slow.by, slow.id, slow.seen, patch, {slow.by}) /\ {slow.by} \in SUBSET {slow.by}
      BY DEF updateTask
    <3>2. MayUpdate(slow.by, slow.seen, patch) /\ Current(slow.seen)
      BY <2>1, <3>1, WritesRecords
    <3>3. i = slow.id
      BY <2>1, UpdateRecords
    <3> QED BY <3>2, <3>3
  <2>3. slow.seen.assignee \in {None, slow.by} /\ slow.seen.fresh
    BY <2>2 DEF MayUpdate, Current
  <2> QED BY <2>2, <2>3 DEF Recorded, Sighted
<1>4. CASE Create
  <2>1. UNCHANGED slow
    BY <1>4 DEF Create, createTask
  <2> QED BY <2>1
<1>5. ASSUME NEW c \in Caller, CrashInUpdate(c)  PROVE FALSE
  BY <1>5 DEF CrashInUpdate, Dies
<1>6. CASE \/ SlowGivesUp \/ CrashIdle \/ Load
           \/ (\E m \in Member : Read(m)) \/ \E c \in Caller : TaskList(c)
  BY <1>6 DEF SlowGivesUp, CrashIdle, Load, Read, TaskList
<1> QED BY <1>2, <1>3, <1>4, <1>5, <1>6 DEF Next

(* A member that was overtaken between its read and the store's lock       *)
(* changes no task that is another member's by then: what it has seen of   *)
(* the task's assignee is current, or its revision is not.                 *)
THEOREM OvertakenKeepOff == Spec => OwnerOrLead
<1>1. TypeOK /\ Recorded /\ [Next]_vars => [KeepOff]_vars
  BY OvertakenStep
<1> QED BY <1>1, RecordsInvariant, PTL DEF Spec, OwnerOrLead, KeepOff
=============================================================================
