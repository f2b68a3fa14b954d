------------------------------- MODULE CronTick -------------------------------
(* The cron table (core/src/cron/scheduler.ts) and the daemon's tick       *)
(* (server/src/scheduler-tick.ts) on the interval host of host-kit.ts.     *)
(*                                                                         *)
(* A sweep claims all due rows in one transaction and fires them one after *)
(* the other, awaiting each run: while it waits, time passes, rows are     *)
(* edited and the interval starts further sweeps beside it. Time is        *)
(* abstracted to whether a row's next_run_at has passed.                   *)
EXTENDS Integers, Sequences, FiniteSets

CONSTANTS Cron,        \* ids of crons
          None, Gone,
          MaxSweeps,   \* bound: sweeps that wait for a run at the same time
          MaxPoints    \* bound: points in time at which one cron becomes due

Kind    == {"cron", "delay"}
Row     == [kind : Kind, enabled : BOOLEAN, past : BOOLEAN]
Sweep   == 1 .. MaxSweeps
Waiting == [at : Cron, todo : Seq(Cron)]

ASSUME CronTickAssumption ==
  /\ {MaxSweeps, MaxPoints} \subseteq Nat /\ IsFiniteSet(Cron)
  /\ Gone # None
  /\ \A v \in {None, Gone} : v \notin Kind /\ v \notin BOOLEAN /\ v \notin Row /\ v \notin Waiting

VARIABLES
  row,       \* the table; None before a cron is created, Gone after its removal
  inFlight,  \* crons with a run in flight
  sweep,     \* per sweep that awaits a run: the cron it fired, and its list
  daemon,    \* "up", "stopping" or "down"
  awaited,   \* the sweeps whose runs stop() waits for
  points,    \* ghost: how often a cron became due
  fired      \* ghost: how often a run of it was started

vars == <<row, inFlight, sweep, daemon, awaited, points, fired>>

Init ==
  /\ row = [c \in Cron |-> None]
  /\ inFlight = {} /\ awaited = {}
  /\ sweep = [s \in Sweep |-> None]
  /\ daemon = "up"
  /\ points = [c \in Cron |-> 0] /\ fired = [c \in Cron |-> 0]
-----------------------------------------------------------------------------
Exists(c) == row[c] \notin {None, Gone}

Due(r) == r \notin {None, Gone} /\ r.enabled /\ r.past

\* A row that becomes due has reached one more point in time.
Reached(rows) ==
  points' = [c \in Cron |-> points[c] + IF Due(rows[c]) /\ ~Due(row[c]) THEN 1 ELSE 0]

Writes(rows) ==
  /\ row' = rows /\ Reached(rows)
  /\ UNCHANGED <<inFlight, sweep, daemon, awaited, fired>>

Create(c, kind) ==
  /\ row[c] = None
  /\ Writes([row EXCEPT ![c] = [kind |-> kind, enabled |-> TRUE, past |-> FALSE]])

\* A new schedule counts from now; without one the time stays as it is. A
\* patch may set enabled as well.
Patched(r, kind, enabled) ==
  LET timed == IF kind = None THEN r ELSE [r EXCEPT !.kind = kind, !.past = FALSE]
  IN IF enabled = None THEN timed ELSE [timed EXCEPT !.enabled = enabled]

Update(c, kind, enabled) ==
  /\ Exists(c) /\ points[c] < MaxPoints
  /\ Writes([row EXCEPT ![c] = Patched(@, kind, enabled)])

Remove(c) == Exists(c) /\ Writes([row EXCEPT ![c] = Gone])

\* next_run_at passes.
Elapse(c) ==
  /\ Exists(c) /\ ~row[c].past /\ points[c] < MaxPoints
  /\ Writes([row EXCEPT ![c].past = TRUE])
-----------------------------------------------------------------------------
\* claimDue: a recurring row moves on to a time after now, a one-shot row is
\* disabled. Faulty: a one-shot row stays enabled.
ClaimedAgain(r) == IF r.kind = "delay" THEN r ELSE [r EXCEPT !.past = FALSE]
Claimed(r)      == IF r.kind = "delay" THEN [r EXCEPT !.enabled = FALSE] ELSE [r EXCEPT !.past = FALSE]

DueSet == {c \in Cron : Due(row[c])}

\* The due rows by their next_run_at: any order.
Orders(D) == {list \in [1 .. Cardinality(D) -> D] : {list[i] : i \in DOMAIN list} = D}

\* May a sweep fire c? Faulty: a run in flight does not matter.
FreeToFireAny(c, busy) == TRUE
FreeToFire(c, busy)    == c \notin busy

\* May a sweep go on with its list? Faulty: also when the host was stopped.
GoesOnAlways == TRUE
GoesOn       == daemon = "up"

\* The position of the first cron of the list that can be fired; 0: none.
NextOf(list, busy) ==
  LET free == {i \in DOMAIN list : FreeToFire(list[i], busy)}
  IN IF free = {} THEN 0 ELSE CHOOSE i \in free : \A j \in free : i <= j

\* Sweep s goes through the rest of its list, up to the await of the next
\* run; busy: the crons in flight.
Proceeds(s, list, busy) ==
  LET i == NextOf(list, busy) IN
  IF GoesOn /\ i > 0
  THEN /\ sweep' = [sweep EXCEPT ![s] = [at |-> list[i], todo |-> SubSeq(list, i + 1, Len(list))]]
       /\ inFlight' = busy \cup {list[i]}
       /\ fired' = [fired EXCEPT ![list[i]] = @ + 1]
  ELSE /\ sweep' = [sweep EXCEPT ![s] = None]
       /\ inFlight' = busy
       /\ UNCHANGED fired

\* The interval, or the sweep at the start of the daemon: tick.
Tick(s) ==
  /\ daemon = "up" /\ sweep[s] = None /\ DueSet # {}
  /\ row' = [c \in Cron |-> IF c \in DueSet THEN Claimed(row[c]) ELSE row[c]]
  /\ Reached(row')
  /\ \E list \in Orders(DueSet) : Proceeds(s, list, inFlight)
  /\ UNCHANGED <<daemon, awaited>>

\* Faulty: the slot is freed only by a run that ended well.
FreedIfOk(s, ok) == IF ok THEN inFlight \ {sweep[s].at} ELSE inFlight
Freed(s, ok)     == inFlight \ {sweep[s].at}

\* The run that sweep s awaits ends, or could not be started: its cron's slot
\* is freed and the sweep goes on. What markRun records of the outcome (the
\* last_* columns, of a row that still exists) decides nothing here.
Settles(s, ok) ==
  /\ sweep[s] # None
  /\ Proceeds(s, sweep[s].todo, Freed(s, ok))
  /\ awaited' = awaited \ {s}
  /\ UNCHANGED <<row, daemon, points>>
-----------------------------------------------------------------------------
\* stop: no more sweeps; the runs in flight now are awaited.
Stop ==
  /\ daemon = "up" /\ daemon' = "stopping"
  /\ awaited' = {s \in Sweep : sweep[s] # None}
  /\ UNCHANGED <<row, inFlight, sweep, points, fired>>

StopReturns ==
  /\ daemon = "stopping" /\ awaited = {}
  /\ daemon' = "down"
  /\ UNCHANGED <<row, inFlight, sweep, awaited, points, fired>>

\* The process ends, or dies, or is abandoned by a stop that timed out, and
\* a new one opens the same table.
Restart ==
  /\ sweep' = [s \in Sweep |-> None] /\ inFlight' = {} /\ awaited' = {}
  /\ daemon' = "up"
  /\ UNCHANGED <<row, points, fired>>

Edits ==
  \E c \in Cron : \/ \E kind \in Kind : Create(c, kind)
                  \/ \E kind \in Kind \cup {None}, enabled \in BOOLEAN \cup {None} : Update(c, kind, enabled)
                  \/ Remove(c)
                  \/ Elapse(c)

Ticks    == \E s \in Sweep : Tick(s)
Outcomes == \E s \in Sweep, ok \in BOOLEAN : Settles(s, ok)
Stops    == Stop \/ StopReturns \/ Restart

Next == Edits \/ Ticks \/ Outcomes \/ Stops

Spec == Init /\ [][Next]_vars
-----------------------------------------------------------------------------
\* The type invariant of the table, the sweeps and the host.
TypeOK ==
  /\ row \in [Cron -> Row \cup {None, Gone}]
  /\ inFlight \subseteq Cron /\ awaited \subseteq Sweep
  /\ daemon \in {"up", "stopping", "down"}
  /\ sweep \in [Sweep -> Waiting \cup {None}]
  /\ points \in [Cron -> Nat] /\ fired \in [Cron -> Nat]

\* Two sweeps never run the same cron at once, however they overlap, and the
\* in-flight set is exactly the crons whose runs are awaited.
OneRunPerCron ==
  /\ \A s, t \in Sweep : s # t /\ sweep[s] # None /\ sweep[t] # None => sweep[s].at # sweep[t].at
  /\ inFlight = {sweep[s].at : s \in {t \in Sweep : sweep[t] # None}}

\* No point in time is answered by two runs, by overlapping sweeps or after a
\* restart: a claim is never fired again.
FiresOnce == \A c \in Cron : fired[c] <= points[c]

\* Once stop() has returned no cron runs, and none of the interrupted sweeps
\* starts another.
StoppedIsQuiet == daemon = "down" => inFlight = {} /\ \A s \in Sweep : sweep[s] = None
=============================================================================
