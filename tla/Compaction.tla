----------------------------- MODULE Compaction -----------------------------
(***************************************************************************)
(* Layered compaction of one session: the Compactor (session/compactor.ts),*)
(* the five places that start it (hooks/builtin.ts, server/src/run.ts) and *)
(* the runs, retries and cancellations it interleaves with.                *)
(*                                                                         *)
(* A history is a set of turns: a turn is a user message and all that      *)
(* follows it up to the next one, named by its place in the order of       *)
(* creation.  A summary is the last turn it stands for (upto) and the set  *)
(* of turns whose content went into its top text (covers).  The estimates  *)
(* that decide when a waterline is crossed are choices.                    *)
(***************************************************************************)
EXTENDS Integers, FiniteSets

CONSTANTS
    Client,    \* HTTP callers of /compact on an idle session
    MaxTurn,   \* bound on the user messages of the session
    None

Turn == 1 .. MaxTurn
Summary == [upto : Turn, covers : SUBSET Turn]
Job == [result : Summary, abort : BOOLEAN]
Automatic == {"background", "auto"}
Caller == Automatic \cup {"flush"} \cup Client

ASSUME TurnAssumption == MaxTurn \in Nat
ASSUME ClientAssumption == \A c \in Client : c \notin Automatic /\ c # "flush"
ASSUME NoneAssumption == None \notin Automatic /\ None \notin Summary /\ None \notin Job

VARIABLES
    hist,       \* turns readMessages returns
    last,       \* last turn ever created
    meta,       \* SessionMeta.compaction, or None
    parked,     \* the Compactor's #parked entry
    jobs,       \* the compact() calls in flight, by who made them
    slot,       \* owner of the #inFlight controller, or None
    deferred,   \* a /compact is in #deferredManual
    cancelled,  \* the session is in #cancelled
    pc,         \* where the run, or its run-after chain, stands
    view,       \* the loop's `compacted`
    fallback,   \* mid-run-panic's `settled`
    asleep,     \* the run is in #waiters
    aborted,    \* the run's signal
    failed      \* the run ended aborted or in an error

log == <<hist, last, meta>>
memory == <<parked, jobs, slot, deferred, cancelled>>
runVars == <<pc, view, fallback, asleep, aborted, failed>>
vars == <<log, memory, runVars>>

Waits == {"panicWait", "rescueWait", "flushWait", "postWait"}
Awaits == {"panicAuto", "rescueAuto", "postAuto"}
Phases == Waits \cup Awaits \cup {"idle", "assembly", "step", "runAfter", "flush", "postRun"}

Latest(S) == CHOOSE t \in S : \A u \in S : u <= t

Init ==
    /\ hist = {} /\ last = 0 /\ meta = None
    /\ parked = None /\ jobs = [c \in Caller |-> None] /\ slot = None
    /\ deferred = FALSE /\ cancelled = FALSE
    /\ pc = "idle" /\ view = None /\ fallback = None
    /\ asleep = FALSE /\ aborted = FALSE /\ failed = FALSE

(* What is left to summarise: an anchor that is not in the history is     *)
(* ignored, its text is not.                                               *)
Active ==
    IF meta # None /\ meta.upto \in hist THEN {t \in hist : t > meta.upto} ELSE hist

Uptos == {t \in Active : t # Latest(Active)}

CoveredSegment(k) == {t \in Active : t <= k}

Covered(k) ==
    {t \in Active : t <= k} \cup (IF meta = None THEN {} ELSE meta.covers)

(* compact() reads the meta and the history when it is called: the        *)
(* summary it will write is settled there.                                 *)
Begun(c, k) ==
    [jobs EXCEPT ![c] = [result |-> [upto |-> k, covers |-> Covered(k)], abort |-> FALSE]]

-----------------------------------------------------------------------------
(* The run. *)

(* executeRun up to the point where the loop lands the user message: the  *)
(* view of the run is the summary it finds in the meta at its start.       *)
Assembling ==
    /\ pc' = "assembly"
    /\ view' = meta'
    /\ cancelled' = FALSE
    /\ aborted' = FALSE
    /\ failed' = FALSE
    /\ UNCHANGED <<last, parked, jobs, slot, deferred, fallback, asleep>>

Assemble ==
    /\ pc = "idle"
    /\ UNCHANGED <<hist, meta>>
    /\ Assembling

(* A failing assembly rejects the entry before anything was appended and  *)
(* before a run-after chain exists.                                        *)
AssemblyFails ==
    /\ pc = "assembly"
    /\ pc' = "idle"
    /\ UNCHANGED <<log, memory, view, fallback, asleep, aborted, failed>>

Grows ==
    /\ last < MaxTurn
    /\ last' = last + 1
    /\ hist' = hist \cup {last'}

Begin ==
    /\ pc = "assembly"
    /\ Grows
    /\ pc' = "step"
    /\ UNCHANGED <<meta, memory, view, fallback, asleep, aborted, failed>>

(* A steering message lands at an iteration boundary: one turn more. *)
Steer ==
    /\ pc = "step"
    /\ Grows
    /\ UNCHANGED <<meta, memory, runVars>>

(* background-precompact, at the line ahead of the red one. *)
Background ==
    /\ pc = "step"
    /\ ~cancelled /\ ~aborted
    /\ slot = None /\ parked = None
    /\ slot' = "background"
    /\ \E k \in Uptos : jobs' = Begun("background", k)
    /\ UNCHANGED <<log, parked, deferred, cancelled, runVars>>

(* mid-run-panic takes what is parked before it estimates anything. *)
TakeParked ==
    /\ pc = "step"
    /\ ~cancelled /\ ~aborted
    /\ parked # None
    /\ view' = parked
    /\ parked' = None
    /\ UNCHANGED <<log, jobs, slot, deferred, cancelled, pc, fallback, asleep, aborted, failed>>

(* A handler that finds a compaction registered sleeps in waitForSettled; *)
(* it goes on when it is woken, or at once when there is none.             *)
Sleeps(place, wait) ==
    /\ pc = place
    /\ slot # None
    /\ pc' = wait
    /\ asleep' = TRUE

ReadyAnyway(place, wait) == pc \in {place, wait} /\ ~asleep

Ready(place, wait) ==
    \/ pc = place /\ slot = None
    \/ pc = wait /\ ~asleep

(* Compactor.auto, which the handler awaits. *)
AutoBegins(await) ==
    /\ ~cancelled /\ ~aborted
    /\ slot' = "auto"
    /\ \E k \in Uptos : jobs' = Begun("auto", k)
    /\ pc' = await

PanicSleeps ==
    /\ ~cancelled /\ ~aborted /\ parked = None
    /\ Sleeps("step", "panicWait")
    /\ UNCHANGED <<log, memory, view, fallback, aborted, failed>>

(* mid-run-panic gives up, goes on with what the background one left, or  *)
(* compacts with that to fall back on; what is parked when it starts it    *)
(* has taken already.                                                      *)
PanicGoesOn ==
    /\ Ready("step", "panicWait")
    /\ pc = "step" => parked = None
    /\ UNCHANGED <<log, deferred, cancelled, asleep, aborted, failed>>
    /\ \/ /\ cancelled \/ aborted
          /\ pc' = "step"
          /\ UNCHANGED <<parked, jobs, slot, view, fallback>>
       \/ /\ AutoBegins("panicAuto")
          /\ fallback' = parked
          /\ parked' = None
          /\ UNCHANGED view
       \/ /\ ~cancelled /\ ~aborted    \* declined
          /\ pc' = "step"
          /\ view' = IF parked = None THEN view ELSE parked
          /\ parked' = None
          /\ UNCHANGED <<jobs, slot, fallback>>

(* overflow-emergency cuts what is registered short and waits for it       *)
(* without the run's signal.                                               *)
RescueSleeps ==
    /\ ~aborted
    /\ Sleeps("step", "rescueWait")
    /\ jobs' = [jobs EXCEPT ![slot].abort = TRUE]
    /\ UNCHANGED <<log, parked, slot, deferred, cancelled, view, fallback, aborted, failed>>

(* Without a view to resend with, the overflow is the end of the run. *)
RescueGoesOn ==
    /\ Ready("step", "rescueWait")
    /\ \/ AutoBegins("rescueAuto") /\ UNCHANGED failed
       \/ /\ cancelled \/ aborted \/ Uptos = {}
          /\ pc' = "runAfter"
          /\ failed' = TRUE
          /\ UNCHANGED <<jobs, slot>>
    /\ UNCHANGED <<log, parked, deferred, cancelled, view, fallback, asleep, aborted>>

RunEnds ==
    /\ pc = "step"
    /\ pc' = "runAfter"
    /\ failed' \in BOOLEAN
    /\ UNCHANGED <<log, memory, view, fallback, asleep, aborted>>

(* manual-compact-flush, the first of the run-after chain: what is        *)
(* deferred is taken whether or not there is anything to summarise.        *)
FlushSleeps ==
    /\ deferred
    /\ Sleeps("runAfter", "flushWait")
    /\ UNCHANGED <<log, memory, view, fallback, aborted, failed>>

FlushGoesOn ==
    /\ \/ /\ deferred
          /\ Ready("runAfter", "flushWait")
          /\ \E k \in Uptos : jobs' = Begun("flush", k)
          /\ pc' = "flush"
       \/ /\ (pc = "runAfter" /\ ~deferred) \/ Ready("runAfter", "flushWait")
          /\ pc' = "postRun"
          /\ UNCHANGED jobs
    /\ deferred' = FALSE
    /\ UNCHANGED <<log, parked, slot, cancelled, view, fallback, asleep, aborted, failed>>

(* post-run-compaction, not for a run that ended aborted or failed: it     *)
(* asks how the run ended, not its signal.                                 *)
PostRunSleeps ==
    /\ ~failed /\ ~cancelled
    /\ Sleeps("postRun", "postWait")
    /\ UNCHANGED <<log, memory, view, fallback, aborted, failed>>

(* What was waited for is not left parked: no request follows. *)
PostRunGoesOn ==
    /\ \/ Ready("postRun", "postWait")
       \/ pc = "postRun" /\ (failed \/ cancelled)
    /\ parked' = IF pc = "postWait" THEN None ELSE parked
    /\ \/ pc' = "idle" /\ UNCHANGED <<jobs, slot>>
       \/ ~failed /\ AutoBegins("postAuto")
    /\ UNCHANGED <<log, deferred, cancelled, view, fallback, asleep, aborted, failed>>

-----------------------------------------------------------------------------
(* A compact() call ends. *)

ReleasedUnflushed(c) ==
    /\ slot' = IF slot = c THEN None ELSE slot
    /\ asleep' = IF c = "auto" THEN FALSE ELSE asleep

(* #flushWaiters: whoever waited for the session is resumed. *)
Released(c) ==
    /\ slot' = IF slot = c THEN None ELSE slot
    /\ asleep' = IF c \in Automatic THEN FALSE ELSE asleep

(* Where the caller goes on and with which view, when it is the run: what *)
(* it got, what it has to fall back on, or the one it had.                 *)
Returns(c, got) ==
    CASE c = "auto" ->
           /\ pc' = CASE pc = "postAuto" -> "idle"
                      [] pc = "rescueAuto" /\ got = None -> "runAfter"
                      [] OTHER -> "step"
           /\ failed' = (failed \/ (pc = "rescueAuto" /\ got = None))
           /\ view' = CASE pc = "postAuto" -> view
                        [] got # None -> got
                        [] fallback # None -> fallback
                        [] OTHER -> view
           /\ fallback' = None
      [] c = "flush" -> pc' = "postRun" /\ UNCHANGED <<view, fallback, failed>>
      [] OTHER -> UNCHANGED <<pc, view, fallback, failed>>

(* The append of the compaction event may fail and is only logged: the    *)
(* outcome is applied all the same.                                        *)
Applied(c) ==
    /\ jobs[c] # None
    /\ ~jobs[c].abort
    /\ meta' \in {meta, jobs[c].result}
    /\ parked' = IF c = "background" THEN jobs[c].result ELSE None
    /\ jobs' = [jobs EXCEPT ![c] = None]
    /\ Released(c)
    /\ Returns(c, jobs[c].result)
    /\ UNCHANGED <<hist, last, deferred, cancelled, aborted>>

(* A summariser fails, or the signal cuts it: nothing was written. *)
Fails(c) ==
    /\ jobs[c] # None
    /\ jobs' = [jobs EXCEPT ![c] = None]
    /\ Released(c)
    /\ Returns(c, None)
    /\ UNCHANGED <<log, parked, deferred, cancelled, aborted>>

-----------------------------------------------------------------------------
(* From outside. *)

(* The run's signal: it wakes every wait but the rescue's and cuts the    *)
(* automatic compaction of the run; a background one goes on.              *)
Abort ==
    /\ pc # "idle" /\ ~aborted
    /\ aborted' = TRUE
    /\ asleep' = (asleep /\ pc = "rescueWait")
    /\ jobs' = IF jobs["auto"] = None THEN jobs ELSE [jobs EXCEPT !["auto"].abort = TRUE]
    /\ UNCHANGED <<log, parked, slot, deferred, cancelled, pc, view, fallback, failed>>

Cancel ==
    /\ ~cancelled
    /\ cancelled' = TRUE
    /\ jobs' = IF slot = None THEN jobs ELSE [jobs EXCEPT ![slot].abort = TRUE]
    /\ UNCHANGED <<log, parked, slot, deferred, runVars>>

(* /compact: deferred while a run is active, otherwise done at once,       *)
(* whatever is in flight, and never registered.                            *)
Compact(c) ==
    /\ UNCHANGED <<log, parked, slot, cancelled, runVars>>
    /\ \/ /\ pc # "idle"
          /\ deferred' = TRUE
          /\ UNCHANGED jobs
       \/ /\ pc = "idle"
          /\ jobs[c] = None
          /\ \E k \in Uptos : jobs' = Begun(c, k)
          /\ UNCHANGED deferred

(* retry: the last turn is hidden, a summary that reaches into it is       *)
(* dropped, and the new text is submitted, so that a run starts.           *)
Dropped(t) == IF meta # None /\ t <= meta.upto THEN None ELSE meta

Retry ==
    /\ pc = "idle"
    /\ slot = None
    /\ hist # {}
    /\ hist' = hist \ {Latest(hist)}
    /\ meta' = Dropped(Latest(hist))
    /\ Assembling

(* The daemon stops, or dies: the log is all that is left. *)
Restart ==
    /\ parked' = None /\ jobs' = [c \in Caller |-> None] /\ slot' = None
    /\ deferred' = FALSE /\ cancelled' = FALSE
    /\ pc' = "idle" /\ view' = None /\ fallback' = None
    /\ asleep' = FALSE /\ aborted' = FALSE /\ failed' = FALSE
    /\ UNCHANGED log

RunStep ==
    \/ Begin \/ AssemblyFails \/ TakeParked \/ PanicGoesOn \/ RescueGoesOn
    \/ RunEnds \/ FlushGoesOn \/ PostRunGoesOn
    \/ PanicSleeps \/ RescueSleeps \/ FlushSleeps \/ PostRunSleeps

Settles(c) == Applied(c) \/ Fails(c)

Next ==
    \/ Assemble \/ RunStep \/ Steer \/ Background
    \/ Abort \/ Cancel \/ Retry \/ Restart
    \/ \E c \in Caller : Settles(c)
    \/ \E c \in Client : Compact(c)

Spec == Init /\ [][Next]_vars

-----------------------------------------------------------------------------
SummaryOrNone == Summary \cup {None}

(* Type invariant: summaries name turns, and only a compaction that is     *)
(* registered or awaited is in flight for the run.                         *)
TypeOK ==
    /\ hist \subseteq Turn /\ last \in 0 .. MaxTurn
    /\ meta \in SummaryOrNone /\ parked \in SummaryOrNone
    /\ view \in SummaryOrNone /\ fallback \in SummaryOrNone
    /\ jobs \in [Caller -> Job \cup {None}]
    /\ slot \in Automatic \cup {None}
    /\ pc \in Phases
    /\ deferred \in BOOLEAN /\ cancelled \in BOOLEAN /\ asleep \in BOOLEAN
    /\ aborted \in BOOLEAN /\ failed \in BOOLEAN

(* A summary stands for every turn it replaces: whatever is cut from the   *)
(* requests (up to its anchor, the anchor included) went into its text,    *)
(* also when it was merged by one of several compactions in flight and     *)
(* outlived an aborted run, a retry or a failed append.                    *)
Stands(s) == s = None \/ {t \in hist : t <= s.upto} \subseteq s.covers

NoGap ==
    /\ Stands(meta) /\ Stands(parked)
    /\ pc \notin {"idle", "assembly"} => Stands(view) /\ Stands(fallback)

(* The triggers of the run never compact while a background compaction is  *)
(* in flight, although a background one outlives its run and an abort ends *)
(* every wait but one early.                                               *)
OneAutomatic == jobs["background"] = None \/ jobs["auto"] = None

(* A handler asleep in waitForSettled has a registered compaction to wake  *)
(* it, and what is registered is in flight: no wait is left behind.        *)
NoLostWake ==
    /\ slot # None => jobs[slot] # None
    /\ asleep => slot # None /\ pc \in Waits
=============================================================================
