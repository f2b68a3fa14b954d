---------------------------- MODULE SessionProofs ----------------------------
(***************************************************************************)
(* Proofs about what one session keeps, for every value of the constants:  *)
(* first Compaction, for every number of turns and of callers, then        *)
(* SessionLog, for logs of every length.  The two modules have no variable *)
(* in common, and no theorem speaks of both.                               *)
(***************************************************************************)
EXTENDS Compaction, SessionLog, WellFoundedInduction, TLAPS

(* Which calls are registered, and where the run stands meanwhile: an      *)
(* automatic compaction is always the registered one, the run awaits its   *)
(* own, and a handler that was woken finds the slot free unless its run is *)
(* being aborted; the flush of a deferred /compact holds up its chain.     *)
Flow ==
    /\ slot # None => jobs[slot] # None
    /\ \A c \in Automatic : jobs[c] # None => slot = c
    /\ slot = "auto" => pc \in Awaits
    /\ pc \in Awaits => slot = "auto"
    /\ asleep => slot # None /\ pc \in Waits
    /\ pc \in Waits /\ ~asleep => slot = None \/ aborted
    /\ jobs["flush"] # None => pc = "flush"

(* A summary stands for the turns of h it replaces, and for none after l.  *)
SoundIn(s, h, l) ==
    s # None => s.upto <= l /\ \A t \in h : t <= s.upto => t \in s.covers

(* Every summary in any place is sound, those being written included.      *)
Sounds ==
    /\ hist \subseteq 1 .. last
    /\ SoundIn(meta, hist, last) /\ SoundIn(parked, hist, last)
    /\ SoundIn(view, hist, last) /\ SoundIn(fallback, hist, last)
    /\ \A c \in Caller : jobs[c] # None => SoundIn(jobs[c].result, hist, last)

IInv == TypeOK /\ Flow /\ Sounds

-----------------------------------------------------------------------------
(* What the moves on the table of calls do to it. *)

JobTable == [Caller -> Job \cup {None}]

Cut(f, c) == [f EXCEPT ![c].abort = TRUE]

LEMMA JobCut ==
    ASSUME NEW f \in JobTable, NEW c \in Caller, f[c] # None
    PROVE  /\ Cut(f, c) \in JobTable
           /\ \A d \in Caller : (Cut(f, c)[d] = None) <=> (f[d] = None)
           /\ \A d \in Caller : f[d] # None => Cut(f, c)[d].result = f[d].result
<1>1. f[c] \in Job  BY DEF JobTable
<1> DEFINE j == [f[c] EXCEPT !.abort = TRUE]
<1>2. j \in Job /\ j.result = f[c].result  BY <1>1 DEF Job
<1>3. Cut(f, c) = [f EXCEPT ![c] = j]  BY DEF Cut
<1>4. j # None  BY <1>2, NoneAssumption
<1> HIDE DEF j
<1>5. Cut(f, c)[c] = j /\ \A d \in Caller : d # c => Cut(f, c)[d] = f[d]  BY <1>3 DEF JobTable
<1>6. Cut(f, c) \in JobTable  BY <1>2, <1>3 DEF JobTable
<1>7. \A d \in Caller : (Cut(f, c)[d] = None) <=> (f[d] = None)
    BY <1>2, <1>4, <1>5
<1>8. \A d \in Caller : f[d] # None => Cut(f, c)[d].result = f[d].result
    BY <1>2, <1>4, <1>5
<1>. QED  BY <1>6, <1>7, <1>8

(* What compact() settles when it is called stands for all it replaces.    *)
LEMMA BegunIsSound ==
    ASSUME TypeOK, Sounds, NEW c \in Caller, NEW k \in Uptos
    PROVE  /\ Begun(c, k) \in JobTable
           /\ Begun(c, k)[c] # None
           /\ \A d \in Caller : d # c => Begun(c, k)[d] = jobs[d]
           /\ \A d \in Caller :
                 Begun(c, k)[d] # None => SoundIn(Begun(c, k)[d].result, hist, last)
<1> DEFINE cov == Covered(k)
           r == [upto |-> k, covers |-> cov]
           j == [result |-> r, abort |-> FALSE]
<1>1. k \in hist /\ k \in Turn /\ k <= last
    BY DEF Uptos, Active, TypeOK, Sounds, Turn
<1>2. meta # None => meta \in Summary  BY DEF TypeOK, SummaryOrNone
<1>3. cov \subseteq Turn
    BY <1>2 DEF Covered, Active, TypeOK, Summary
<1>4. ASSUME NEW t \in hist, t <= k
      PROVE  t \in cov
    <2>1. CASE meta # None /\ meta.upto \in hist
        <3>1. CASE t <= meta.upto
            BY <2>1, <3>1 DEF Sounds, SoundIn, Covered
        <3>2. CASE ~(t <= meta.upto)
            <4>1. t \in Int /\ meta.upto \in Int
                BY <1>2, <2>1, TurnAssumption DEF Summary, Turn, TypeOK
            <4>. QED  BY <1>4, <2>1, <3>2, <4>1 DEF Covered, Active
        <3>. QED  BY <3>1, <3>2
    <2>2. CASE ~(meta # None /\ meta.upto \in hist)
        BY <1>4, <2>2 DEF Covered, Active
    <2>. QED  BY <2>1, <2>2
<1> HIDE DEF cov
<1>5. r \in Summary  BY <1>1, <1>3 DEF Summary
<1>6. SoundIn(r, hist, last)  BY <1>1, <1>4 DEF SoundIn
<1> HIDE DEF r
<1>7. j \in Job /\ j.result = r  BY <1>5 DEF Job
<1>8. j # None  BY <1>7, NoneAssumption
<1>9. Begun(c, k) = [jobs EXCEPT ![c] = j]  BY DEF Begun, r, cov
<1> HIDE DEF j
<1>10. jobs \in JobTable  BY DEF TypeOK, JobTable
<1>11. /\ Begun(c, k) \in JobTable
       /\ Begun(c, k)[c] = j
       /\ \A d \in Caller : d # c => Begun(c, k)[d] = jobs[d]
    BY <1>7, <1>9, <1>10 DEF JobTable
<1>. QED  BY <1>6, <1>7, <1>8, <1>11 DEF Sounds

(* A summary stays sound when turns are hidden and when the next is added. *)
LEMMA SoundStays ==
    ASSUME NEW s \in SummaryOrNone, NEW h, NEW l \in Nat, SoundIn(s, h, l)
    PROVE  /\ \A i \in SUBSET h : SoundIn(s, i, l)
           /\ SoundIn(s, h \cup {l + 1}, l + 1)
<1>1. s # None => s.upto \in Nat  BY TurnAssumption DEF SummaryOrNone, Summary, Turn
<1>. QED  BY <1>1 DEF SoundIn

LEMMA JobGone ==
    ASSUME NEW f \in JobTable, NEW c \in Caller, NEW g, g = [f EXCEPT ![c] = None]
    PROVE  /\ g \in JobTable
           /\ g[c] = None
           /\ \A d \in Caller : d # c => g[d] = f[d]
BY DEF JobTable

(* Names that the steps below share: the calls, the places.                *)
LEMMA Names ==
    /\ "background" \in Automatic /\ "auto" \in Automatic
    /\ Automatic \subseteq Caller /\ Client \subseteq Caller /\ "flush" \in Caller
    /\ "flush" \notin Automatic /\ "flush" \notin Client
    /\ \A c \in Client : c \notin Automatic
    /\ None \notin Automatic
    /\ Waits \cap Awaits = {}
    /\ Waits \subseteq Phases /\ Awaits \subseteq Phases
BY ClientAssumption, NoneAssumption DEF Automatic, Caller, Waits, Awaits, Phases

-----------------------------------------------------------------------------
LEMMA InitIInv == Init => IInv
<1> SUFFICES ASSUME Init PROVE IInv  OBVIOUS
<1>1. TypeOK
    <2>1. hist \subseteq Turn /\ last \in 0 .. MaxTurn
        BY TurnAssumption DEF Init
    <2>2. jobs \in [Caller -> Job \cup {None}]  BY DEF Init
    <2>3. pc \in Phases  BY DEF Init, Phases
    <2>. QED  BY <2>1, <2>2, <2>3 DEF Init, TypeOK, SummaryOrNone
<1>2. Flow
    <2>1. \A c \in Caller : jobs[c] = None  BY DEF Init
    <2>. QED  BY <2>1, Names DEF Init, Flow, Waits, Awaits
<1>3. Sounds  BY DEF Init, Sounds, SoundIn
<1>. QED  BY <1>1, <1>2, <1>3 DEF IInv

(* A step of the run or its chain that starts an awaited compaction.       *)
LEMMA AutoBeginsIsSound ==
    ASSUME IInv, NEW place, NEW wait \in Waits, NEW await \in Awaits,
           Ready(place, wait), AutoBegins(await), place \notin Awaits,
           asleep' = asleep
    PROVE  /\ jobs' \in JobTable
           /\ slot' = "auto"
           /\ pc' = await
           /\ asleep' = FALSE
           /\ jobs'["auto"] # None
           /\ \A c \in Automatic : jobs'[c] # None => c = "auto"
           /\ \A d \in Caller :
                 jobs'[d] # None => SoundIn(jobs'[d].result, hist, last)
           /\ jobs'["flush"] = jobs["flush"]
<1>1. PICK k \in Uptos : jobs' = Begun("auto", k)  BY DEF AutoBegins
<1>2. slot = None
    BY DEF Ready, AutoBegins, IInv, Flow
<1>3. \A c \in Automatic : jobs[c] = None
    BY <1>2, Names DEF IInv, Flow
<1>4. asleep = FALSE  BY <1>2 DEF IInv, Flow, TypeOK
<1>. QED
    BY <1>1, <1>2, <1>3, <1>4, BegunIsSound, Names DEF AutoBegins, IInv


(* A run is assembled: the log may have lost its last turn.                *)
LEMMA AssemblingKeeps ==
    ASSUME IInv, pc = "idle", hist' \subseteq hist, meta' \in {meta, None}, Assembling
    PROVE  IInv'
<1>1. \A s \in SummaryOrNone : SoundIn(s, hist, last) => SoundIn(s, hist', last')
    <2>1. last \in Nat /\ last' = last /\ hist' \in SUBSET hist
        BY TurnAssumption DEF IInv, TypeOK, Assembling
    <2>. QED  BY <2>1, SoundStays
<1>2. /\ meta \in SummaryOrNone /\ parked \in SummaryOrNone
      /\ fallback \in SummaryOrNone /\ None \in SummaryOrNone
    BY DEF IInv, TypeOK, SummaryOrNone
<1>3. \A c \in Caller : jobs[c] # None => jobs[c].result \in SummaryOrNone
    BY DEF IInv, TypeOK, Job, SummaryOrNone
<1>4. TypeOK'
    BY <1>2 DEF IInv, TypeOK, Assembling, Phases
<1>5. Flow'
    BY Names DEF IInv, Flow, TypeOK, Assembling, Waits, Awaits
<1>6. Sounds'
    <2>1. SoundIn(None, hist', last')  BY DEF SoundIn
    <2>. QED  BY <1>1, <1>2, <1>3, <2>1 DEF IInv, Sounds, Assembling
<1>. QED  BY <1>4, <1>5, <1>6 DEF IInv

(* The next turn is created.                                               *)
LEMMA GrowsKeeps ==
    ASSUME IInv, Grows, UNCHANGED <<meta, parked, view, fallback, jobs>>
    PROVE  Sounds' /\ hist' \subseteq Turn /\ last' \in 0 .. MaxTurn
<1>1. last \in Nat /\ last' = last + 1 /\ hist' = hist \cup {last + 1}
    BY DEF IInv, TypeOK, Grows
<1>2. \A s \in SummaryOrNone : SoundIn(s, hist, last) => SoundIn(s, hist', last')
    BY <1>1, SoundStays
<1>3. /\ meta \in SummaryOrNone /\ parked \in SummaryOrNone
      /\ fallback \in SummaryOrNone /\ view \in SummaryOrNone
    BY DEF IInv, TypeOK
<1>4. \A c \in Caller : jobs[c] # None => jobs[c].result \in SummaryOrNone
    BY DEF IInv, TypeOK, Job, SummaryOrNone
<1>5. hist' \subseteq 1 .. last'  BY <1>1 DEF IInv, Sounds
<1>6. Sounds'  BY <1>2, <1>3, <1>4, <1>5 DEF IInv, Sounds
<1>7. hist' \subseteq Turn /\ last' \in 0 .. MaxTurn
    BY <1>1, TurnAssumption DEF IInv, TypeOK, Grows, Turn
<1>. QED  BY <1>6, <1>7

LEMMA RunAdvances ==
    ASSUME IInv, Begin \/ Steer \/ AssemblyFails \/ RunEnds \/ TakeParked
    PROVE  IInv'
<1>1. CASE Begin
    <2>1. Sounds' /\ hist' \subseteq Turn /\ last' \in 0 .. MaxTurn
        BY <1>1, GrowsKeeps DEF Begin, memory
    <2>2. TypeOK'  BY <1>1, <2>1 DEF IInv, TypeOK, Begin, memory, Phases
    <2>3. Flow'
        BY <1>1, Names DEF IInv, Flow, Begin, memory, Waits, Awaits
    <2>. QED  BY <2>1, <2>2, <2>3 DEF IInv
<1>2. CASE Steer
    <2>1. Sounds' /\ hist' \subseteq Turn /\ last' \in 0 .. MaxTurn
        BY <1>2, GrowsKeeps DEF Steer, memory, runVars
    <2>2. TypeOK'  BY <1>2, <2>1 DEF IInv, TypeOK, Steer, memory, runVars
    <2>3. Flow'  BY <1>2 DEF IInv, Flow, Steer, memory, runVars
    <2>. QED  BY <2>1, <2>2, <2>3 DEF IInv
<1>3. CASE AssemblyFails
    <2>1. TypeOK'  BY <1>3 DEF IInv, TypeOK, AssemblyFails, log, memory, Phases
    <2>2. Flow'
        BY <1>3, Names DEF IInv, Flow, AssemblyFails, log, memory, Waits, Awaits
    <2>3. Sounds'  BY <1>3 DEF IInv, Sounds, AssemblyFails, log, memory
    <2>. QED  BY <2>1, <2>2, <2>3 DEF IInv
<1>4. CASE RunEnds
    <2>1. TypeOK'  BY <1>4 DEF IInv, TypeOK, RunEnds, log, memory, Phases
    <2>2. Flow'
        BY <1>4, Names DEF IInv, Flow, RunEnds, log, memory, Waits, Awaits
    <2>3. Sounds'  BY <1>4 DEF IInv, Sounds, RunEnds, log, memory
    <2>. QED  BY <2>1, <2>2, <2>3 DEF IInv
<1>5. CASE TakeParked
    <2>1. TypeOK'
        BY <1>5 DEF IInv, TypeOK, TakeParked, log, SummaryOrNone
    <2>2. Flow'  BY <1>5 DEF IInv, Flow, TakeParked, log
    <2>3. Sounds'  BY <1>5 DEF IInv, Sounds, TakeParked, log, SoundIn
    <2>. QED  BY <2>1, <2>2, <2>3 DEF IInv
<1>. QED  BY <1>1, <1>2, <1>3, <1>4, <1>5

LEMMA BackgroundKeeps == ASSUME IInv, Background PROVE IInv'
<1>1. PICK k \in Uptos : jobs' = Begun("background", k)  BY DEF Background
<1>2. slot = None /\ slot' = "background"  BY DEF Background
<1>3. \A c \in Automatic : jobs[c] = None  BY <1>2, Names DEF IInv, Flow
<1>4. /\ jobs' \in JobTable
      /\ jobs'["background"] # None
      /\ \A d \in Caller : d # "background" => jobs'[d] = jobs[d]
      /\ \A d \in Caller : jobs'[d] # None => SoundIn(jobs'[d].result, hist, last)
    BY <1>1, BegunIsSound, Names DEF IInv
<1>5. TypeOK'
    BY <1>2, <1>4, Names DEF IInv, TypeOK, Background, log, runVars, JobTable
<1>6. Flow'
    BY <1>2, <1>3, <1>4, Names
    DEF IInv, Flow, Background, runVars, Waits, Awaits
<1>7. Sounds'
    BY <1>4 DEF IInv, Sounds, Background, log, runVars
<1>. QED  BY <1>5, <1>6, <1>7 DEF IInv

-----------------------------------------------------------------------------
(* The waits: a handler falls asleep where a compaction is registered.     *)
LEMMA SleepsKeeps ==
    ASSUME IInv, PanicSleeps \/ RescueSleeps \/ FlushSleeps \/ PostRunSleeps
    PROVE  IInv'
<1>1. /\ slot # None /\ asleep' = TRUE
      /\ pc' \in Waits /\ pc \in {"step", "runAfter", "postRun"}
    BY DEF PanicSleeps, RescueSleeps, FlushSleeps, PostRunSleeps, Sleeps, Waits
<1>2. /\ UNCHANGED <<log, parked, slot, deferred, cancelled, view, fallback, aborted, failed>>
    BY DEF PanicSleeps, RescueSleeps, FlushSleeps, PostRunSleeps, memory
<1>3. /\ jobs' \in JobTable
      /\ \A d \in Caller : (jobs'[d] = None) <=> (jobs[d] = None)
      /\ \A d \in Caller : jobs[d] # None => jobs'[d].result = jobs[d].result
    <2>1. CASE RescueSleeps
        <3>1. slot \in Caller /\ jobs[slot] # None /\ jobs \in JobTable
            BY <1>1, Names DEF IInv, Flow, TypeOK, JobTable
        <3>2. jobs' = Cut(jobs, slot)  BY <2>1 DEF RescueSleeps, Cut
        <3>. QED  BY <3>1, <3>2, JobCut
    <2>2. CASE ~RescueSleeps
        BY <2>2 DEF PanicSleeps, FlushSleeps, PostRunSleeps, memory, IInv, TypeOK, JobTable
    <2>. QED  BY <2>1, <2>2
<1>4. TypeOK'
    BY <1>1, <1>2, <1>3, Names DEF IInv, TypeOK, log, JobTable
<1>5. Flow'
    BY <1>1, <1>2, <1>3, Names DEF IInv, Flow, TypeOK, Waits, Awaits
<1>6. Sounds'
    BY <1>2, <1>3 DEF IInv, Sounds, log
<1>. QED  BY <1>4, <1>5, <1>6 DEF IInv

(* The run goes on with nothing started: it is awake, or was woken.        *)
LEMMA WakesKeeps ==
    ASSUME IInv, NEW place, NEW wait \in Waits, pc \in {place, wait},
           place \notin Waits \cup Awaits \cup {"flush"}, pc = wait => ~asleep,
           pc' \in {"step", "runAfter", "postRun", "idle"},
           UNCHANGED <<log, jobs, slot, cancelled, fallback, asleep, aborted>>,
           deferred' \in BOOLEAN, failed' \in BOOLEAN,
           view' \in {view, parked}, parked' \in {parked, None}
    PROVE  IInv'
<1>1. TypeOK'
    BY DEF IInv, TypeOK, log, SummaryOrNone, Phases
<1>2. Flow'
    BY Names DEF IInv, Flow, TypeOK, Waits, Awaits
<1>3. Sounds'
    <2>1. SoundIn(None, hist, last)  BY DEF SoundIn
    <2>. QED  BY <2>1 DEF IInv, Sounds, log
<1>. QED  BY <1>1, <1>2, <1>3 DEF IInv

(* The run goes on to a compaction of its own, which it awaits.            *)
LEMMA AutoKeeps ==
    ASSUME IInv, NEW place, NEW wait \in Waits, NEW await \in Awaits,
           Ready(place, wait), AutoBegins(await),
           place \notin Waits \cup Awaits \cup {"flush"},
           UNCHANGED <<log, cancelled, view, asleep, aborted>>,
           deferred' \in BOOLEAN, failed' \in BOOLEAN,
           fallback' \in {fallback, parked}, parked' \in {parked, None}
    PROVE  IInv'
<1>1. /\ jobs' \in JobTable /\ slot' = "auto" /\ pc' = await /\ asleep' = FALSE
      /\ jobs'["auto"] # None
      /\ \A c \in Automatic : jobs'[c] # None => c = "auto"
      /\ \A d \in Caller : jobs'[d] # None => SoundIn(jobs'[d].result, hist, last)
      /\ jobs'["flush"] = jobs["flush"]
    BY AutoBeginsIsSound
<1>2. TypeOK'
    BY <1>1, Names DEF IInv, TypeOK, log, SummaryOrNone, JobTable
<1>3. Flow'
    <2>1. pc # "flush" /\ await \notin Waits
        BY Names DEF Ready, Waits, Awaits
    <2>. QED  BY <1>1, <2>1, Names DEF IInv, Flow
<1>4. Sounds'
    <2>1. SoundIn(None, hist, last)  BY DEF SoundIn
    <2>. QED  BY <1>1, <2>1 DEF IInv, Sounds, log
<1>. QED  BY <1>2, <1>3, <1>4 DEF IInv

LEMMA PanicKeeps == ASSUME IInv, PanicGoesOn PROVE IInv'
<1>1. /\ "panicWait" \in Waits /\ "panicAuto" \in Awaits
      /\ "step" \notin Waits \cup Awaits \cup {"flush"}
      /\ pc \in {"step", "panicWait"} /\ (pc = "panicWait" => ~asleep)
    BY DEF PanicGoesOn, Ready, Waits, Awaits
<1>2. /\ UNCHANGED <<log, deferred, cancelled, asleep, aborted, failed>>
      /\ Ready("step", "panicWait") /\ deferred' \in BOOLEAN /\ failed' \in BOOLEAN
    BY DEF PanicGoesOn, IInv, TypeOK
<1>3. CASE AutoBegins("panicAuto") /\ fallback' = parked /\ parked' = None /\ view' = view
    BY <1>1, <1>2, <1>3, AutoKeeps
<1>4. CASE /\ pc' = "step" /\ view' \in {view, parked} /\ parked' \in {parked, None}
           /\ UNCHANGED <<jobs, slot, fallback>>
    BY <1>1, <1>2, <1>4, WakesKeeps
<1>. QED  BY <1>3, <1>4 DEF PanicGoesOn

LEMMA RescueKeeps == ASSUME IInv, RescueGoesOn PROVE IInv'
<1>1. /\ "rescueWait" \in Waits /\ "rescueAuto" \in Awaits
      /\ "step" \notin Waits \cup Awaits \cup {"flush"}
      /\ pc \in {"step", "rescueWait"} /\ (pc = "rescueWait" => ~asleep)
    BY DEF RescueGoesOn, Ready, Waits, Awaits
<1>2. /\ UNCHANGED <<log, parked, deferred, cancelled, view, fallback, asleep, aborted>>
      /\ Ready("step", "rescueWait") /\ deferred' \in BOOLEAN /\ failed' \in BOOLEAN
    BY DEF RescueGoesOn, IInv, TypeOK
<1>3. CASE AutoBegins("rescueAuto")
    BY <1>1, <1>2, <1>3, AutoKeeps
<1>4. CASE pc' = "runAfter" /\ UNCHANGED <<jobs, slot>>
    BY <1>1, <1>2, <1>4, WakesKeeps
<1>. QED  BY <1>3, <1>4 DEF RescueGoesOn

LEMMA FlushKeeps == ASSUME IInv, FlushGoesOn PROVE IInv'
<1>1. /\ "flushWait" \in Waits /\ "runAfter" \notin Waits \cup Awaits \cup {"flush"}
      /\ pc \in {"runAfter", "flushWait"} /\ (pc = "flushWait" => ~asleep)
    BY DEF FlushGoesOn, Ready, Waits, Awaits
<1>2. /\ UNCHANGED <<log, parked, slot, cancelled, view, fallback, asleep, aborted, failed>>
      /\ deferred' \in BOOLEAN /\ failed' \in BOOLEAN
    BY DEF FlushGoesOn, IInv, TypeOK
<1>3. CASE pc' = "postRun" /\ UNCHANGED jobs
    BY <1>1, <1>2, <1>3, WakesKeeps
<1>4. CASE pc' = "flush" /\ \E k \in Uptos : jobs' = Begun("flush", k)
    <2>1. /\ jobs' \in JobTable
          /\ jobs'["flush"] # None
          /\ \A d \in Caller : d # "flush" => jobs'[d] = jobs[d]
          /\ \A d \in Caller : jobs'[d] # None => SoundIn(jobs'[d].result, hist, last)
        BY <1>4, BegunIsSound, Names DEF IInv
    <2>2. TypeOK'
        BY <1>2, <1>4, <2>1 DEF IInv, TypeOK, log, JobTable, Phases
    <2>3. Flow'
        <3>1. slot # "auto" /\ ~asleep
            BY <1>1 DEF IInv, Flow, Waits, Awaits
        <3>2. \A c \in Automatic : jobs'[c] = jobs[c] /\ c # "flush"
            BY <2>1, Names
        <3>3. slot \in Automatic \cup {None}  BY DEF IInv, TypeOK
        <3>. QED  BY <1>2, <1>4, <2>1, <3>1, <3>2, <3>3 DEF IInv, Flow, Waits, Awaits
    <2>4. Sounds'  BY <1>2, <2>1 DEF IInv, Sounds, log
    <2>. QED  BY <2>2, <2>3, <2>4 DEF IInv
<1>. QED  BY <1>3, <1>4 DEF FlushGoesOn

LEMMA PostRunKeeps == ASSUME IInv, PostRunGoesOn PROVE IInv'
<1>1. /\ "postWait" \in Waits /\ "postAuto" \in Awaits
      /\ "postRun" \notin Waits \cup Awaits \cup {"flush"}
      /\ pc \in {"postRun", "postWait"} /\ (pc = "postWait" => ~asleep)
    BY DEF PostRunGoesOn, Ready, Waits, Awaits
<1>2. /\ UNCHANGED <<log, deferred, cancelled, view, fallback, asleep, aborted, failed>>
      /\ parked' \in {parked, None}
      /\ deferred' \in BOOLEAN /\ failed' \in BOOLEAN
    BY DEF PostRunGoesOn, IInv, TypeOK
<1>3. CASE ~failed /\ AutoBegins("postAuto")
    <2>1. Ready("postRun", "postWait")  BY <1>3 DEF PostRunGoesOn, AutoBegins
    <2>. QED  BY <1>1, <1>2, <1>3, <2>1, AutoKeeps
<1>4. CASE pc' = "idle" /\ UNCHANGED <<jobs, slot>>
    BY <1>1, <1>2, <1>4, WakesKeeps
<1>. QED  BY <1>3, <1>4 DEF PostRunGoesOn

-----------------------------------------------------------------------------
(* A call ends, and its caller goes on.                                    *)
LEMMA ReturnsTo ==
    ASSUME IInv, NEW c \in Caller, NEW got \in SummaryOrNone, Returns(c, got)
    PROVE  /\ view' \in {view, got, fallback}
           /\ fallback' \in {fallback, None}
           /\ failed' \in BOOLEAN
           /\ c = "auto" => pc' \in {"idle", "runAfter", "step"}
           /\ c = "flush" => pc' = "postRun"
           /\ c \notin {"auto", "flush"} => pc' = pc
<1>1. CASE c = "auto"  BY <1>1 DEF Returns
<1>2. CASE c = "flush"  BY <1>2 DEF Returns, IInv, TypeOK
<1>3. CASE c \notin {"auto", "flush"}  BY <1>3 DEF Returns, IInv, TypeOK
<1>. QED  BY <1>1, <1>2, <1>3

LEMMA CallEnds ==
    ASSUME IInv, NEW c \in Caller, jobs[c] # None, jobs' = [jobs EXCEPT ![c] = None],
           NEW got \in SummaryOrNone, SoundIn(got, hist, last),
           Released(c), Returns(c, got),
           meta' \in {meta, got}, parked' \in {parked, got, None},
           UNCHANGED <<hist, last, deferred, cancelled, aborted>>
    PROVE  IInv'
<1>1. /\ view' \in {view, got, fallback} /\ fallback' \in {fallback, None}
      /\ failed' \in BOOLEAN
      /\ c = "auto" => pc' \in {"idle", "runAfter", "step"}
      /\ c = "flush" => pc' = "postRun"
      /\ c \notin {"auto", "flush"} => pc' = pc
    BY ReturnsTo
<1>2. /\ jobs' \in JobTable
      /\ jobs'[c] = None
      /\ \A d \in Caller : d # c => jobs'[d] = jobs[d]
    BY JobGone DEF IInv, TypeOK, JobTable
<1>3. slot' \in {slot, None} /\ asleep' \in {asleep, FALSE}  BY DEF Released
<1>4. TypeOK'
    <2>1. None \in SummaryOrNone  BY DEF SummaryOrNone
    <2>2. /\ meta' \in SummaryOrNone /\ parked' \in SummaryOrNone
          /\ view' \in SummaryOrNone /\ fallback' \in SummaryOrNone
        BY <1>1, <2>1 DEF IInv, TypeOK
    <2>3. pc' \in Phases  BY <1>1 DEF IInv, TypeOK, Phases
    <2>4. slot' \in Automatic \cup {None} /\ asleep' \in BOOLEAN
        BY <1>3 DEF IInv, TypeOK
    <2>5. jobs' \in [Caller -> Job \cup {None}]  BY <1>2 DEF JobTable
    <2>. QED  BY <1>1, <2>2, <2>3, <2>4, <2>5 DEF IInv, TypeOK
<1>5. Flow'
    <2>1. CASE c \in Automatic
        <3>1. slot = c /\ slot' = None /\ asleep' = FALSE
            BY <2>1 DEF IInv, Flow, Released
        <3>2. \A d \in Automatic : jobs'[d] = None
            BY <1>2, <2>1, <3>1, Names DEF IInv, Flow
        <3>3. pc' \notin Awaits
            BY <1>1, <2>1, <3>1, Names DEF IInv, Flow, Automatic, Awaits
        <3>4. c # "flush"  BY <2>1, Names
        <3>5. jobs'["flush"] # None => pc' = "flush"
            BY <1>1, <1>2, <2>1, <3>1, <3>4, Names
            DEF IInv, Flow, Awaits, Automatic
        <3>. QED  BY <3>1, <3>2, <3>3, <3>5, Names DEF Flow
    <2>2. CASE c = "flush"
        <3>1. pc = "flush" /\ c \notin Automatic /\ pc' = "postRun"
            BY <1>1, <2>2, Names DEF IInv, Flow
        <3>2. slot # "auto" /\ asleep = FALSE
            BY <3>1 DEF IInv, Flow, TypeOK, Waits, Awaits
        <3>3. slot' = slot /\ asleep' = asleep
            BY <2>2, <3>1, Names DEF Released, IInv, TypeOK
        <3>4. \A d \in Automatic : jobs'[d] = jobs[d]
            BY <1>2, <3>1, Names
        <3>5. slot # None => slot \in Automatic  BY DEF IInv, TypeOK
        <3>. QED
            BY <1>2, <2>2, <3>1, <3>2, <3>3, <3>4, <3>5 DEF IInv, Flow, Waits, Awaits
    <2>3. CASE c \notin Automatic /\ c # "flush"
        <3>1. pc' = pc  BY <1>1, <2>3, Names
        <3>2. slot' = slot /\ asleep' = asleep
            BY <2>3 DEF Released, IInv, TypeOK
        <3>3. /\ \A d \in Automatic : jobs'[d] = jobs[d]
              /\ jobs'["flush"] = jobs["flush"]
            BY <1>2, <2>3, Names
        <3>4. slot # None => slot \in Automatic  BY DEF IInv, TypeOK
        <3>5. aborted' = aborted  OBVIOUS
        <3>. QED  BY <3>1, <3>2, <3>3, <3>4, <3>5 DEF IInv, Flow
    <2>. QED  BY <2>1, <2>2, <2>3
<1>6. Sounds'
    <2>1. SoundIn(None, hist, last)  BY DEF SoundIn
    <2>. QED  BY <1>1, <1>2, <2>1 DEF IInv, Sounds
<1>. QED  BY <1>4, <1>5, <1>6 DEF IInv

LEMMA SettlesKeeps == ASSUME IInv, NEW c \in Caller, Settles(c) PROVE IInv'
<1>1. CASE Applied(c)
    <2>1. jobs[c] # None /\ jobs[c].result \in SummaryOrNone
        BY <1>1 DEF Applied, IInv, TypeOK, Job, SummaryOrNone
    <2>2. SoundIn(jobs[c].result, hist, last)  BY <2>1 DEF IInv, Sounds
    <2>3. /\ meta' \in {meta, jobs[c].result}
          /\ parked' \in {parked, jobs[c].result, None}
          /\ jobs' = [jobs EXCEPT ![c] = None]
          /\ Released(c) /\ Returns(c, jobs[c].result)
          /\ UNCHANGED <<hist, last, deferred, cancelled, aborted>>
        BY <1>1 DEF Applied
    <2>. QED  BY <2>1, <2>2, <2>3, CallEnds
<1>2. CASE Fails(c)
    <2>1. None \in SummaryOrNone /\ SoundIn(None, hist, last)
        BY DEF SummaryOrNone, SoundIn
    <2>2. /\ jobs[c] # None /\ jobs' = [jobs EXCEPT ![c] = None]
          /\ Released(c) /\ Returns(c, None)
          /\ meta' \in {meta, None} /\ parked' \in {parked, None}
          /\ UNCHANGED <<hist, last, deferred, cancelled, aborted>>
        BY <1>2 DEF Fails, log
    <2>. QED  BY <2>1, <2>2, CallEnds
<1>. QED  BY <1>1, <1>2 DEF Settles

-----------------------------------------------------------------------------
(* What comes from outside.                                                *)
LEMMA OutsideKeeps ==
    ASSUME IInv, Abort \/ Cancel \/ Restart \/ \E c \in Client : Compact(c)
    PROVE  IInv'
<1>1. ASSUME NEW c \in Caller, jobs[c] # None
      PROVE  /\ Cut(jobs, c) \in JobTable
             /\ \A d \in Caller : (Cut(jobs, c)[d] = None) <=> (jobs[d] = None)
             /\ \A d \in Caller : jobs[d] # None => Cut(jobs, c)[d].result = jobs[d].result
    BY <1>1, JobCut DEF IInv, TypeOK, JobTable
<1>2. jobs \in JobTable  BY DEF IInv, TypeOK, JobTable
<1>3. CASE Abort
    <2>1. /\ jobs' \in JobTable
          /\ \A d \in Caller : (jobs'[d] = None) <=> (jobs[d] = None)
          /\ \A d \in Caller : jobs[d] # None => jobs'[d].result = jobs[d].result
        <3>1. CASE jobs["auto"] = None  BY <1>2, <1>3, <3>1 DEF Abort
        <3>2. CASE jobs["auto"] # None
            <4>1. jobs' = Cut(jobs, "auto")  BY <1>3, <3>2 DEF Abort, Cut
            <4>. QED  BY <1>1, <3>2, <4>1, Names
        <3>. QED  BY <3>1, <3>2
    <2>2. TypeOK'  BY <1>3, <2>1 DEF IInv, TypeOK, Abort, log, JobTable
    <2>3. Flow'
        <3>1. aborted' = TRUE /\ slot' = slot /\ pc' = pc /\ (asleep' => asleep)
            BY <1>3 DEF Abort
        <3>. QED  BY <2>1, <3>1, Names DEF IInv, Flow, TypeOK
    <2>4. Sounds'  BY <1>3, <2>1 DEF IInv, Sounds, Abort, log
    <2>. QED  BY <2>2, <2>3, <2>4 DEF IInv
<1>4. CASE Cancel
    <2>1. /\ jobs' \in JobTable
          /\ \A d \in Caller : (jobs'[d] = None) <=> (jobs[d] = None)
          /\ \A d \in Caller : jobs[d] # None => jobs'[d].result = jobs[d].result
        <3>1. CASE slot = None  BY <1>2, <1>4, <3>1 DEF Cancel
        <3>2. CASE slot # None
            <4>1. jobs' = Cut(jobs, slot)  BY <1>4, <3>2 DEF Cancel, Cut
            <4>2. slot \in Caller /\ jobs[slot] # None
                BY <3>2, Names DEF IInv, Flow, TypeOK
            <4>. QED  BY <1>1, <4>1, <4>2
        <3>. QED  BY <3>1, <3>2
    <2>2. TypeOK'  BY <1>4, <2>1 DEF IInv, TypeOK, Cancel, log, runVars, JobTable
    <2>3. Flow'
        <3>1. UNCHANGED <<slot, pc, asleep, aborted>>  BY <1>4 DEF Cancel, runVars
        <3>. QED  BY <2>1, <3>1, Names DEF IInv, Flow, TypeOK
    <2>4. Sounds'  BY <1>4, <2>1 DEF IInv, Sounds, Cancel, log, runVars
    <2>. QED  BY <2>2, <2>3, <2>4 DEF IInv
<1>5. CASE Restart
    <2>1. \A c \in Caller : jobs'[c] = None  BY <1>5 DEF Restart
    <2>2. jobs' \in [Caller -> Job \cup {None}]  BY <1>5 DEF Restart
    <2>3. TypeOK'
        BY <1>5, <2>2 DEF IInv, TypeOK, Restart, log, SummaryOrNone, Phases
    <2>4. Flow'  BY <1>5, <2>1, Names DEF Flow, Restart, Waits, Awaits
    <2>5. Sounds'  BY <1>5, <2>1 DEF IInv, Sounds, Restart, log, SoundIn
    <2>. QED  BY <2>3, <2>4, <2>5 DEF IInv
<1>6. ASSUME NEW c \in Client, Compact(c) PROVE IInv'
    <2>1. CASE UNCHANGED jobs
        <3>1. TypeOK'  BY <1>6, <2>1 DEF IInv, TypeOK, Compact, log, runVars
        <3>2. Flow'  BY <1>6, <2>1 DEF IInv, Flow, Compact, runVars
        <3>3. Sounds'  BY <1>6, <2>1 DEF IInv, Sounds, Compact, log, runVars
        <3>. QED  BY <3>1, <3>2, <3>3 DEF IInv
    <2>2. CASE UNCHANGED deferred /\ \E k \in Uptos : jobs' = Begun(c, k)
        <3>1. c \in Caller /\ c \notin Automatic /\ c # "flush"
            BY Names
        <3>2. /\ jobs' \in JobTable
              /\ \A d \in Caller : d # c => jobs'[d] = jobs[d]
              /\ \A d \in Caller : jobs'[d] # None => SoundIn(jobs'[d].result, hist, last)
            BY <2>2, <3>1, BegunIsSound DEF IInv
        <3>3. TypeOK'
            BY <1>6, <2>2, <3>2 DEF IInv, TypeOK, Compact, log, runVars, JobTable
        <3>4. Flow'
            <4>1. /\ \A d \in Automatic : jobs'[d] = jobs[d]
                  /\ jobs'["flush"] = jobs["flush"]
                BY <3>1, <3>2, Names
            <4>2. slot # None => slot \in Automatic  BY DEF IInv, TypeOK
            <4>3. UNCHANGED <<slot, pc, asleep, aborted>>  BY <1>6 DEF Compact, runVars
            <4>. QED  BY <4>1, <4>2, <4>3 DEF IInv, Flow
        <3>5. Sounds'  BY <1>6, <3>2 DEF IInv, Sounds, Compact, log, runVars
        <3>. QED  BY <3>3, <3>4, <3>5 DEF IInv
    <2>. QED  BY <1>6, <2>1, <2>2 DEF Compact
<1>. QED  BY <1>3, <1>4, <1>5, <1>6

-----------------------------------------------------------------------------
LEMMA NextIInv == IInv /\ [Next]_vars => IInv'
<1> SUFFICES ASSUME IInv, [Next]_vars PROVE IInv'  OBVIOUS
<1>1. CASE UNCHANGED vars
    <2>1. UNCHANGED <<log, memory, runVars>>  BY <1>1 DEF vars
    <2>2. TypeOK'  BY <2>1 DEF IInv, TypeOK, log, memory, runVars
    <2>3. Flow'  BY <2>1 DEF IInv, Flow, memory, runVars
    <2>4. Sounds'  BY <2>1 DEF IInv, Sounds, log, memory, runVars
    <2>. QED  BY <2>2, <2>3, <2>4 DEF IInv
<1>2. CASE Assemble
    BY <1>2, AssemblingKeeps DEF Assemble
<1>3. CASE Retry
    <2>1. pc = "idle" /\ hist' \subseteq hist /\ meta' \in {meta, None} /\ Assembling
        BY <1>3 DEF Retry, Dropped
    <2>. QED  BY <2>1, AssemblingKeeps
<1>4. CASE RunStep
    BY <1>4, RunAdvances, PanicKeeps, RescueKeeps, FlushKeeps, PostRunKeeps, SleepsKeeps
    DEF RunStep
<1>5. CASE Steer  BY <1>5, RunAdvances
<1>6. CASE Background  BY <1>6, BackgroundKeeps
<1>7. CASE Abort \/ Cancel \/ Restart \/ \E c \in Client : Compact(c)
    BY <1>7, OutsideKeeps
<1>8. CASE \E c \in Caller : Settles(c)  BY <1>8, SettlesKeeps
<1>. QED
    BY <1>1, <1>2, <1>3, <1>4, <1>5, <1>6, <1>7, <1>8 DEF Next

LEMMA IInvIsInvariant == Spec => []IInv
BY InitIInv, NextIInv, PTL DEF Spec

(* Whatever compactions a session's runs, clients and retries start, and   *)
(* wherever they are cut, no summary stands for a turn it never saw        *)
(* (Compactor.compact, readMessages' and the loop's view).                 *)
THEOREM NoTurnIsLost == Spec => []NoGap
<1>1. IInv => NoGap
    <2>1. ASSUME NEW s, SoundIn(s, hist, last) PROVE Stands(s)
        BY <2>1 DEF SoundIn, Stands
    <2>. QED  BY <2>1 DEF IInv, Sounds, NoGap
<1>. QED  BY <1>1, IInvIsInvariant, PTL

(* A run never compacts beside a background compaction (waitForSettled,    *)
(* Compactor.background, Compactor.auto).                                  *)
THEOREM AutomaticsExclude == Spec => []OneAutomatic
<1>1. IInv => OneAutomatic  BY Names DEF IInv, Flow, OneAutomatic
<1>. QED  BY <1>1, IInvIsInvariant, PTL

(* Whoever sleeps in waitForSettled has a compaction in flight that will   *)
(* wake it (#flushWaiters).                                                *)
THEOREM WaitsAreWoken == Spec => []NoLostWake
<1>1. IInv => NoLostWake  BY DEF IInv, Flow, NoLostWake
<1>. QED  BY <1>1, IInvIsInvariant, PTL

-----------------------------------------------------------------------------
(* SessionLog. *)

(* What a line may be. *)
Event ==
    [type : {"message"}, id : Nat, role : {"user", "assistant"}]
        \cup [type : {"message.truncated"}, fromMessageId : Nat]
        \cup [type : {"compaction"}, upto : Nat]
        \cup [type : {"session.set"}, mode : Mode]
        \cup [type : {"run.ended"}]

Proj == [compaction : Nat \cup {Nothing}, mode : Mode \cup {Nothing}]

LEMMA LinesAreEvents ==
    /\ \A id \in Nat : Message(id, "user") \in Event /\ Message(id, "assistant") \in Event
    /\ \A id \in Nat : Truncated(id) \in Event /\ Compacted(id) \in Event
    /\ \A mode \in Mode : Set(mode) \in Event
    /\ RunEnded \in Event
BY DEF Message, Truncated, Compacted, Set, RunEnded, Event

LEMMA EventFields ==
    ASSUME NEW e \in Event
    PROVE  /\ e.type \in {"message", "message.truncated", "compaction", "session.set", "run.ended"}
           /\ e.type = "message" => e.id \in Nat
           /\ e.type = "message.truncated" => e.fromMessageId \in Nat
           /\ e.type = "compaction" => e.upto \in Nat
           /\ e.type = "session.set" => e.mode \in Mode
BY DEF Event

LEMMA ApplyIsTyped ==
    ASSUME NEW p \in Proj, NEW e \in Event
    PROVE  applyEvent(p, e) \in Proj
BY EventFields DEF applyEvent, Proj

LEMMA FreshIsTyped == Fresh \in Proj
BY DEF Fresh, Proj

-----------------------------------------------------------------------------
(* The fold over the log, unfolded. *)

LEMMA LogLeast ==
    ASSUME NEW S \in SUBSET Nat, S # {}
    PROVE  \E i \in S : \A j \in S : i <= j
<1> DEFINE R == {ss \in Nat \X Nat : ss[1] < ss[2]}
<1>1. IsWellFoundedOn(R, Nat)
    BY NatLessThanWellFounded DEF OpToRel
<1>2. \E i \in S : \A j \in S : <<j, i>> \notin R
    <2> HIDE DEF R
    <2>. QED  BY <1>1, WFMin
<1>3. ASSUME NEW i \in S, NEW j \in S, <<j, i>> \notin R  PROVE i <= j
    BY <1>3
<1>. QED  BY <1>2, <1>3

(* f is what the fold has after each of the first n lines. *)
FoldsTo(f, events, n) ==
    f[0] = Fresh /\ \A m \in 1 .. n : f[m] = applyEvent(f[m - 1], events[m])

LEMMA FoldExists ==
    ASSUME NEW events, NEW n \in Nat
    PROVE  \E f : FoldsTo(f, events, n)
<1> DEFINE S == {i \in Nat : ~ \E f : FoldsTo(f, events, i)}
<1> SUFFICES ASSUME S # {}  PROVE FALSE
    OBVIOUS
<1>1. PICK i \in S : \A j \in S : i <= j
    BY LogLeast
<1>2. i \in Nat /\ ~ \E f : FoldsTo(f, events, i)
    OBVIOUS
<1>3. CASE i = 0
    <2> DEFINE g == [m \in 0 .. 0 |-> Fresh]
    <2>1. FoldsTo(g, events, 0)
        BY DEF FoldsTo
    <2>. QED  BY <1>2, <1>3, <2>1
<1>4. CASE i # 0
    <2>1. i - 1 \in Nat /\ i - 1 \notin S
        BY <1>1, <1>2, <1>4
    <2>2. PICK f : FoldsTo(f, events, i - 1)
        BY <2>1
    <2> DEFINE g == [m \in 0 .. i |-> IF m = i THEN applyEvent(f[i - 1], events[i]) ELSE f[m]]
    <2>3. g[0] = f[0] /\ \A m \in 1 .. i - 1 : g[m] = f[m] /\ g[m - 1] = f[m - 1]
        BY <1>2, <1>4
    <2>4. g[i] = applyEvent(f[i - 1], events[i]) /\ g[i - 1] = f[i - 1]
        BY <1>2, <1>4
    <2> HIDE DEF g
    <2>5. ASSUME NEW m \in 1 .. i  PROVE g[m] = applyEvent(g[m - 1], events[m])
        <3>1. CASE m = i
            BY <2>4, <3>1
        <3>2. CASE m \in 1 .. i - 1
            BY <2>2, <2>3, <3>2 DEF FoldsTo
        <3>. QED  BY <1>2, <3>1, <3>2
    <2>6. FoldsTo(g, events, i)
        BY <2>2, <2>3, <2>5 DEF FoldsTo
    <2>. QED  BY <1>2, <2>6
<1>. QED  BY <1>3, <1>4

LEMMA FoldUnfolds ==
    ASSUME NEW events \in Seq(Event)
    PROVE  \E f : FoldsTo(f, events, Len(events)) /\ Fold(events) = f[Len(events)]
<1> DEFINE n == Len(events)
           body(f) == [m \in 0 .. n |-> IF m = 0 THEN Fresh ELSE applyEvent(f[m - 1], events[m])]
           after == CHOOSE f : f = body(f)
<1>1. n \in Nat
    OBVIOUS
<1> HIDE DEF n
<1>2. PICK f : FoldsTo(f, events, n)
    BY <1>1, FoldExists
<1> DEFINE g == [m \in 0 .. n |-> f[m]]
<1>3. g = body(g)
    BY <1>1, <1>2 DEF FoldsTo
<1>4. after = body(after)
    <2> HIDE DEF body, g
    <2>. QED  BY <1>3
<1>5. Fold(events) = after[n]
    BY DEF Fold, n
<1>6. FoldsTo(after, events, n)
    <2> HIDE DEF after
    <2>1. after = [m \in 0 .. n |-> IF m = 0 THEN Fresh ELSE applyEvent(after[m - 1], events[m])]
        BY <1>4
    <2>2. after[0] = Fresh
        BY <1>1, <2>1
    <2>3. ASSUME NEW m \in 1 .. n  PROVE after[m] = applyEvent(after[m - 1], events[m])
        <3>1. m \in 0 .. n /\ m # 0
            BY <1>1
        <3>. QED  BY <2>1, <3>1
    <2>. QED  BY <2>2, <2>3 DEF FoldsTo
<1>. QED  BY <1>5, <1>6 DEF n

(* Two folds over logs with a common beginning agree on it. *)
LEMMA FoldsAgree ==
    ASSUME NEW a, NEW b, NEW n \in Nat, \A m \in 1 .. n : a[m] = b[m],
           NEW f, NEW g, FoldsTo(f, a, n), FoldsTo(g, b, n)
    PROVE  \A m \in 0 .. n : f[m] = g[m]
<1> DEFINE S == {m \in 0 .. n : f[m] # g[m]}
<1> SUFFICES ASSUME S # {}  PROVE FALSE
    OBVIOUS
<1>1. S \in SUBSET Nat
    OBVIOUS
<1>2. PICK i \in S : \A j \in S : i <= j
    BY <1>1, LogLeast
<1>3. i \in 0 .. n /\ f[i] # g[i]
    OBVIOUS
<1>4. i # 0
    BY <1>3 DEF FoldsTo
<1>5. i \in 1 .. n /\ i - 1 \in 0 .. n /\ i - 1 \notin S
    BY <1>2, <1>3, <1>4
<1>6. f[i - 1] = g[i - 1]
    BY <1>5
<1>. QED  BY <1>3, <1>5, <1>6 DEF FoldsTo

(* Folding one line more is applying it to the fold. *)
LEMMA FoldOfNone == Fold(<<>>) = Fresh
<1>1. <<>> \in Seq(Event) /\ Len(<<>>) = 0
    OBVIOUS
<1>2. PICK f : FoldsTo(f, <<>>, 0) /\ Fold(<<>>) = f[0]
    BY <1>1, FoldUnfolds
<1>. QED  BY <1>2 DEF FoldsTo

LEMMA FoldOfAppend ==
    ASSUME NEW events \in Seq(Event), NEW e \in Event
    PROVE  Fold(Append(events, e)) = applyEvent(Fold(events), e)
<1> DEFINE n == Len(events)
           more == Append(events, e)
<1>1. /\ n \in Nat /\ more \in Seq(Event) /\ Len(more) = n + 1
      /\ more[n + 1] = e /\ \A m \in 1 .. n : more[m] = events[m]
    OBVIOUS
<1>2. PICK f : FoldsTo(f, events, n) /\ Fold(events) = f[n]
    BY FoldUnfolds
<1> HIDE DEF more
<1>3. PICK g : FoldsTo(g, more, n + 1) /\ Fold(more) = g[n + 1]
    BY <1>1, FoldUnfolds
<1> HIDE DEF n
<1>4. FoldsTo(g, more, n)
    BY <1>1, <1>3 DEF FoldsTo
<1>5. g[n] = f[n]
    BY <1>1, <1>2, <1>4, FoldsAgree
<1>6. g[n + 1] = applyEvent(g[n + 1 - 1], more[n + 1])
    BY <1>1, <1>3 DEF FoldsTo
<1>7. n + 1 - 1 = n
    BY <1>1
<1>. QED  BY <1>1, <1>2, <1>3, <1>5, <1>6, <1>7 DEF more

LEMMA FoldIsTyped ==
    ASSUME NEW events \in Seq(Event)
    PROVE  Fold(events) \in Proj
<1> DEFINE n == Len(events)
<1>1. n \in Nat /\ \A m \in 1 .. n : events[m] \in Event
    OBVIOUS
<1>2. PICK f : FoldsTo(f, events, n) /\ Fold(events) = f[n]
    BY FoldUnfolds
<1> HIDE DEF n
<1> DEFINE S == {m \in 0 .. n : f[m] \notin Proj}
<1>3. CASE S = {}
    BY <1>1, <1>2, <1>3
<1>4. CASE S # {}
    <2>1. S \in SUBSET Nat
        OBVIOUS
    <2>2. PICK i \in S : \A j \in S : i <= j
        BY <1>4, <2>1, LogLeast
    <2>3. i \in 0 .. n /\ f[i] \notin Proj
        OBVIOUS
    <2>4. i # 0
        BY <1>2, <2>3, FreshIsTyped DEF FoldsTo
    <2>5. i \in 1 .. n /\ i - 1 \in 0 .. n /\ ~(i <= i - 1)
        BY <1>1, <2>3, <2>4
    <2>6. f[i - 1] \in Proj
        BY <2>2, <2>5
    <2>7. events[i] \in Event /\ f[i] = applyEvent(f[i - 1], events[i])
        BY <1>1, <1>2, <2>5 DEF FoldsTo
    <2>. QED  BY <2>3, <2>6, <2>7, ApplyIsTyped
<1>. QED  BY <1>3, <1>4

-----------------------------------------------------------------------------
(* What a line more does to the reading. *)

CutsIn(s, i) == {j \in i + 1 .. Len(s) : s[j].type = "message.truncated"}

CutoffIn(s, i) ==
    IF CutsIn(s, i) = {} THEN Nothing
    ELSE s[CHOOSE j \in CutsIn(s, i) : \A k \in CutsIn(s, i) : j <= k].fromMessageId

ShownIn(s, i) ==
    /\ s[i].type = "message"
    /\ CutoffIn(s, i) = Nothing \/ s[i].id < CutoffIn(s, i)

LEMMA CutoffIsFirst ==
    ASSUME NEW s \in Seq(Event), NEW i \in Nat, NEW j \in CutsIn(s, i),
           \A k \in CutsIn(s, i) : j <= k
    PROVE  CutoffIn(s, i) = s[j].fromMessageId
<1>1. CutsIn(s, i) \subseteq Nat
    BY DEF CutsIn
<1> DEFINE first == CHOOSE k \in CutsIn(s, i) : \A l \in CutsIn(s, i) : k <= l
<1>2. first \in CutsIn(s, i) /\ \A l \in CutsIn(s, i) : first <= l
    OBVIOUS
<1> HIDE DEF first
<1>3. first <= j /\ j <= first
    BY <1>2
<1>4. first = j
    BY <1>1, <1>2, <1>3
<1>. QED  BY <1>4 DEF CutoffIn, first

(* The first marker after a line keeps governing it; a line that had none  *)
(* is governed by the marker that comes.                                   *)
LEMMA CutoffOfAppend ==
    ASSUME NEW s \in Seq(Event), NEW e \in Event, NEW i \in 1 .. Len(s)
    PROVE  CutoffIn(Append(s, e), i) =
             IF CutoffIn(s, i) # Nothing THEN CutoffIn(s, i)
             ELSE IF e.type = "message.truncated" THEN e.fromMessageId ELSE Nothing
<1> DEFINE n == Len(s)
           more == Append(s, e)
<1>1. /\ n \in Nat /\ more \in Seq(Event) /\ Len(more) = n + 1 /\ i \in Nat /\ i <= n
      /\ more[n + 1] = e /\ \A m \in 1 .. n : more[m] = s[m]
      /\ \A m \in 1 .. n : s[m] \in Event
    OBVIOUS
<1> HIDE DEF more, n
<1>2. CutsIn(more, i) =
        CutsIn(s, i) \cup (IF e.type = "message.truncated" THEN {n + 1} ELSE {})
    BY <1>1 DEF CutsIn, n
<1>3. CutsIn(s, i) \subseteq 1 .. n
    BY <1>1 DEF CutsIn, n
<1>4. CASE CutsIn(s, i) = {}
    <2>1. CutoffIn(s, i) = Nothing
        BY <1>4 DEF CutoffIn
    <2>2. CASE e.type = "message.truncated"
        <3>1. CutsIn(more, i) = {n + 1}
            BY <1>2, <1>4, <2>2
        <3>2. CutoffIn(more, i) = more[n + 1].fromMessageId
            BY <1>1, <3>1, CutoffIsFirst
        <3>. QED  BY <1>1, <2>1, <2>2, <3>2 DEF more
    <2>3. CASE e.type # "message.truncated"
        BY <1>2, <1>4, <2>1, <2>3 DEF CutoffIn, more
    <2>. QED  BY <2>2, <2>3
<1>5. CASE CutsIn(s, i) # {}
    <2>1. CutsIn(s, i) \in SUBSET Nat
        BY <1>3
    <2>2. PICK j \in CutsIn(s, i) : \A k \in CutsIn(s, i) : j <= k
        BY <1>5, <2>1, LogLeast
    <2>3. CutoffIn(s, i) = s[j].fromMessageId
        BY <1>1, <2>2, CutoffIsFirst
    <2>4. j \in CutsIn(more, i) /\ \A k \in CutsIn(more, i) : j <= k
        BY <1>1, <1>2, <1>3, <2>2
    <2>5. CutoffIn(more, i) = more[j].fromMessageId
        BY <1>1, <2>4, CutoffIsFirst
    <2>6. j \in 1 .. n /\ s[j] \in Event /\ s[j].type = "message.truncated"
        BY <1>1, <1>3, <2>2 DEF CutsIn
    <2>7. s[j].fromMessageId \in Nat
        BY <2>6, EventFields
    <2>8. s[j].fromMessageId # Nothing
        BY <2>7, NothingAssumption
    <2>. QED  BY <1>1, <2>3, <2>5, <2>6, <2>8 DEF more
<1>. QED  BY <1>4, <1>5

LEMMA ShownOfAppend ==
    ASSUME NEW s \in Seq(Event), NEW e \in Event, NEW i \in 1 .. Len(s)
    PROVE  /\ ShownIn(Append(s, e), i) => ShownIn(s, i)
           /\ e.type # "message.truncated" /\ ShownIn(s, i) => ShownIn(Append(s, e), i)
           /\ e.type = "message.truncated" /\ ShownIn(s, i) /\ s[i].id < e.fromMessageId
                => ShownIn(Append(s, e), i)
<1>1. Append(s, e)[i] = s[i]
    OBVIOUS
<1>. QED  BY <1>1, CutoffOfAppend DEF ShownIn

LEMMA ReadingIsIn ==
    ASSUME NEW i
    PROVE  /\ i \in Shown <=> i \in 1 .. Len(stream) /\ ShownIn(stream, i)
           /\ i \in Shown' <=> i \in 1 .. Len(stream') /\ ShownIn(stream', i)
BY DEF Shown, IsShown, Cutoff, ShownIn, CutoffIn, CutsIn

(* What is shown stays shown unless the line appended reaches it.          *)
LEMMA ShownStay ==
    ASSUME NEW e \in Event, stream \in Seq(Event), stream' = Append(stream, e),
           NEW b \in ShownIds, e.type # "message.truncated" \/ b < e.fromMessageId
    PROVE  b \in ShownIds'
<1>1. PICK i \in Shown : b = stream[i].id
    BY DEF ShownIds
<1>2. i \in 1 .. Len(stream) /\ ShownIn(stream, i)
    BY ReadingIsIn
<1>3. ShownIn(stream', i)
    BY <1>1, <1>2, ShownOfAppend
<1>4. i \in 1 .. Len(stream') /\ stream'[i] = stream[i]
    BY <1>2
<1>5. i \in Shown'
    BY <1>3, <1>4, ReadingIsIn
<1>. QED  BY <1>1, <1>4, <1>5 DEF ShownIds

LEMMA ShownUnchanged ==
    ASSUME stream' = stream
    PROVE  ShownIds' = ShownIds
BY ReadingIsIn DEF ShownIds, Shown, IsShown, Cutoff

-----------------------------------------------------------------------------
(* The invariant. *)

(* The waiting ids are distinct, were minted in their order, and cannot be *)
(* more than were minted.                                                  *)
QueueOK(w, m) ==
    /\ w \in Seq(Nat)
    /\ \A k \in 1 .. Len(w) : w[k] > 0 /\ w[k] + Len(w) - k <= m
    /\ \A j, k \in 1 .. Len(w) : j < k => w[j] < w[k]

(* The ids in the log were minted, none is there twice and none waits.     *)
IdsOK(s, w, m) ==
    /\ \A i \in 1 .. Len(s) : s[i].type = "message" => s[i].id \in 1 .. m
    /\ \A i, j \in 1 .. Len(s) :
         i # j /\ s[i].type = "message" /\ s[j].type = "message" => s[i].id # s[j].id
    /\ \A i \in 1 .. Len(s), k \in 1 .. Len(w) : s[i].type = "message" => s[i].id # w[k]

LogInv ==
    /\ stream \in Seq(Event)
    /\ torn \in BOOLEAN /\ running \in BOOLEAN
    /\ metaFile \in Projection \cup {Nothing}
    /\ metaFile # Nothing => metaFile.chainLength <= Len(stream)
    /\ minted \in 0 .. MaxIds
    /\ QueueOK(waiting, minted)
    /\ IdsOK(stream, waiting, minted)
    /\ \A c \in compacting : c.upto \in ShownIds \cup overtaken /\ c.idle \in BOOLEAN
    /\ overtaken \subseteq 1 .. minted

LEMMA ShownIsMinted ==
    ASSUME IdsOK(stream, waiting, minted)
    PROVE  ShownIds \subseteq 1 .. minted
<1> SUFFICES ASSUME NEW i \in Shown  PROVE stream[i].id \in 1 .. minted
    BY DEF ShownIds
<1>1. i \in 1 .. Len(stream) /\ stream[i].type = "message"
    BY DEF Shown, IsShown
<1>. QED  BY <1>1 DEF IdsOK

LEMMA InvIsTyped == LogInv => LogTypeOK
<1> SUFFICES ASSUME LogInv  PROVE LogTypeOK
    OBVIOUS
<1>1. Len(waiting) <= minted
    <2>1. waiting \in Seq(Nat) /\ minted \in Nat
        BY DEF LogInv, QueueOK
    <2>2. CASE Len(waiting) = 0
        BY <2>1, <2>2
    <2>3. CASE Len(waiting) # 0
        <3>1. 1 \in 1 .. Len(waiting) /\ waiting[1] \in Nat /\ Len(waiting) \in Nat
            BY <2>1, <2>3
        <3>2. waiting[1] > 0 /\ waiting[1] + Len(waiting) - 1 <= minted
            BY <3>1 DEF LogInv, QueueOK
        <3>. QED  BY <2>1, <3>1, <3>2
    <2>. QED  BY <2>2, <2>3
<1>2. metaFile # Nothing => metaFile.chainLength \in 0 .. Len(stream)
    BY DEF LogInv, Projection
<1>3. \A c \in compacting : c.upto \in 1 .. minted /\ c.idle \in BOOLEAN
    BY ShownIsMinted DEF LogInv
<1>. QED  BY <1>1, <1>2, <1>3 DEF LogInv, IdsOK, LogTypeOK

LEMMA QueueGrows ==
    ASSUME NEW w, NEW m \in Nat, QueueOK(w, m)
    PROVE  QueueOK(Append(w, m + 1), m + 1) /\ QueueOK(w, m + 1)
<1> DEFINE n == Len(w)
           v == Append(w, m + 1)
<1>1. /\ n \in Nat /\ v \in Seq(Nat) /\ Len(v) = n + 1 /\ v[n + 1] = m + 1
      /\ \A k \in 1 .. n : v[k] = w[k] /\ w[k] \in Nat
    BY DEF QueueOK
<1>2. \A k \in 1 .. n : w[k] > 0 /\ w[k] + n - k <= m
    BY DEF QueueOK
<1>3. \A j, k \in 1 .. n : j < k => w[j] < w[k]
    BY DEF QueueOK
<1> HIDE DEF v, n
<1>4. ASSUME NEW k \in 1 .. n + 1  PROVE v[k] > 0 /\ v[k] + (n + 1) - k <= m + 1
    <2>1. CASE k = n + 1
        BY <1>1, <2>1
    <2>2. CASE k \in 1 .. n
        <3>1. w[k] \in Nat /\ w[k] > 0 /\ w[k] + n - k <= m
            BY <1>1, <1>2, <2>2
        <3>2. w[k] + (n + 1) - k <= m + 1
            BY <1>1, <2>2, <3>1
        <3>. QED  BY <1>1, <2>2, <3>1, <3>2
    <2>. QED  BY <1>1, <2>1, <2>2
<1>5. ASSUME NEW j \in 1 .. n + 1, NEW k \in 1 .. n + 1, j < k  PROVE v[j] < v[k]
    <2>1. j \in 1 .. n /\ v[j] <= m
        BY <1>1, <1>2, <1>5
    <2>2. CASE k = n + 1
        BY <1>1, <2>1, <2>2
    <2>3. CASE k \in 1 .. n
        BY <1>1, <1>3, <1>5, <2>1, <2>3
    <2>. QED  BY <1>1, <2>2, <2>3
<1>6. QueueOK(v, m + 1)
    BY <1>1, <1>4, <1>5 DEF QueueOK
<1>7. \A k \in 1 .. n : w[k] + n - k <= m + 1
    BY <1>1, <1>2
<1>8. QueueOK(w, m + 1)
    BY <1>2, <1>3, <1>7 DEF QueueOK, n
<1>. QED  BY <1>6, <1>8 DEF v

LEMMA QueueShrinks ==
    ASSUME NEW w, NEW m \in Nat, QueueOK(w, m), w # <<>>
    PROVE  /\ QueueOK(Tail(w), m)
           /\ Head(w) = w[1] /\ 1 \in 1 .. Len(w) /\ Head(w) \in 1 .. m
           /\ \A k \in 1 .. Len(Tail(w)) : k + 1 \in 1 .. Len(w) /\ Tail(w)[k] = w[k + 1]
           /\ \A k \in 1 .. Len(Tail(w)) : Tail(w)[k] # Head(w)
<1> DEFINE n == Len(w)
           v == Tail(w)
<1>1. /\ n \in Nat /\ n > 0 /\ v \in Seq(Nat) /\ Len(v) = n - 1 /\ Head(w) = w[1]
      /\ \A k \in 1 .. n : w[k] \in Nat
      /\ \A k \in 1 .. n - 1 : v[k] = w[k + 1]
    BY DEF QueueOK
<1>2. \A k \in 1 .. n : w[k] > 0 /\ w[k] + n - k <= m
    BY DEF QueueOK
<1>3. \A j, k \in 1 .. n : j < k => w[j] < w[k]
    BY DEF QueueOK
<1> HIDE DEF v, n
<1>4. ASSUME NEW k \in 1 .. n - 1
      PROVE  /\ k + 1 \in 1 .. n /\ v[k] > 0 /\ v[k] + (n - 1) - k <= m
             /\ v[k] # w[1]
    <2>1. k + 1 \in 1 .. n /\ 1 \in 1 .. n /\ 1 < k + 1
        BY <1>1
    <2>2. w[k + 1] > 0 /\ w[k + 1] + n - (k + 1) <= m /\ w[1] < w[k + 1]
        BY <1>2, <1>3, <2>1
    <2>. QED  BY <1>1, <2>1, <2>2
<1>5. ASSUME NEW j \in 1 .. n - 1, NEW k \in 1 .. n - 1, j < k  PROVE v[j] < v[k]
    <2>1. j + 1 \in 1 .. n /\ k + 1 \in 1 .. n /\ j + 1 < k + 1
        BY <1>1, <1>5
    <2>2. w[j + 1] < w[k + 1]
        BY <1>3, <2>1
    <2>. QED  BY <1>1, <2>2
<1>6. QueueOK(v, m)
    BY <1>1, <1>4, <1>5 DEF QueueOK
<1>7. 1 \in 1 .. n /\ w[1] \in 1 .. m
    <2>1. 1 \in 1 .. n
        BY <1>1
    <2>2. w[1] \in Nat /\ w[1] > 0 /\ w[1] + n - 1 <= m
        BY <1>1, <1>2, <2>1
    <2>. QED  BY <1>1, <2>1, <2>2
<1>. QED  BY <1>1, <1>4, <1>6, <1>7 DEF v, n

-----------------------------------------------------------------------------
(* What is read of meta.json, and what an append folds into. *)

LEMMA MetaIsTyped ==
    ASSUME LogInv
    PROVE  /\ Rebuilt \in Projection \cup {Nothing} /\ (Rebuilt = Nothing <=> stream = <<>>)
           /\ Rebuilt # Nothing => Rebuilt.proj = Fold(stream) /\ Rebuilt.chainLength = Len(stream)
           /\ Meta \in Projection \cup {Nothing}
           /\ Meta # Nothing => Meta.chainLength <= Len(stream)
           /\ Healed \in Projection \cup {Nothing}
           /\ Healed # Nothing => Healed.chainLength <= Len(stream)
<1>1. Fold(stream) \in Proj /\ Len(stream) \in Nat
    BY FoldIsTyped DEF LogInv
<1>2. Projected(Fold(stream), Len(stream)) \in Projection
    BY <1>1 DEF Projected, Projection, Proj
<1>3. Rebuilt \in Projection \cup {Nothing} /\ (Rebuilt = Nothing <=> stream = <<>>)
    BY <1>2, NothingAssumption DEF Rebuilt
<1>4. Rebuilt # Nothing => Rebuilt.proj = Fold(stream) /\ Rebuilt.chainLength = Len(stream)
    BY DEF Rebuilt, Projected
<1>5. /\ metaFile \in Projection \cup {Nothing}
      /\ metaFile # Nothing => metaFile.chainLength <= Len(stream)
    BY DEF LogInv
<1>6. /\ Meta \in Projection \cup {Nothing}
      /\ Meta # Nothing => Meta.chainLength <= Len(stream)
    BY <1>1, <1>3, <1>4, <1>5 DEF Meta
<1>. QED  BY <1>1, <1>3, <1>4, <1>6 DEF Healed

LEMMA BaseIsTyped ==
    ASSUME LogInv
    PROVE  /\ Base \in Proj /\ BaseAsRead \in Proj
           /\ ProjectionIsFold => Base = Fold(stream)
<1>1. /\ Fold(stream) \in Proj /\ Len(stream) \in Nat /\ (stream = <<>> <=> Len(stream) = 0)
      /\ \A p \in Projection : p.proj \in Proj /\ p.chainLength \in Nat
    BY FoldIsTyped DEF LogInv, Projection, Proj
<1>2. CASE Meta = Nothing
    <2>1. metaFile = Nothing /\ stream = <<>>
        BY <1>2, MetaIsTyped DEF Meta
    <2>. QED  BY <1>2, <2>1, FreshIsTyped, FoldOfNone DEF Base, BaseAsRead
<1>3. CASE Meta # Nothing
    <2>1. Meta \in Projection /\ Meta.chainLength <= Len(stream)
        BY <1>3, MetaIsTyped
    <2>2. BaseAsRead \in Proj
        BY <1>1, <1>3, <2>1 DEF BaseAsRead
    <2>3. CASE Meta.chainLength # Len(stream)
        <3>1. stream # <<>>
            BY <1>1, <2>1, <2>3
        <3>2. Rebuilt # Nothing /\ Rebuilt.proj = Fold(stream)
            BY <3>1, MetaIsTyped
        <3>. QED  BY <1>1, <1>3, <2>2, <2>3, <3>2 DEF Base
    <2>4. CASE Meta.chainLength = Len(stream)
        <3>1. Base = Meta.proj
            BY <1>3, <2>4 DEF Base
        <3>2. ProjectionIsFold => Meta.proj = Fold(stream)
            BY <1>3, <2>4, MetaIsTyped DEF ProjectionIsFold, Meta
        <3>. QED  BY <1>1, <2>1, <2>2, <3>1, <3>2
    <2>. QED  BY <2>3, <2>4
<1>. QED  BY <1>2, <1>3

-----------------------------------------------------------------------------
(* A step either leaves the log alone or appends one line to it. *)

Quiet ==
    /\ stream' = stream
    /\ metaFile' \in {metaFile, Nothing, Rebuilt}

Recorded(e) ==
    /\ stream' = Append(stream, e)
    /\ \/ metaFile' = Projected(applyEvent(Base, e), Len(stream) + 1)
       \/ metaFile' = Healed
       \/ e.type = "session.set" /\ metaFile' = Projected(applyEvent(BaseAsRead, e), Len(stream) + 1)

LEMMA WritesRecord ==
    ASSUME NEW e
    PROVE  /\ AppendEvent(e) => Recorded(e) /\ torn' = FALSE
           /\ CrashAfterLine(e) =>
                Recorded(e) /\ torn' = FALSE /\ running' = FALSE /\ compacting' = {}
           /\ \A active, inFlight : Writes(e, active, inFlight) =>
                /\ Recorded(e) /\ torn' = FALSE
                /\ running' = active \/ running' = FALSE
                /\ compacting' = inFlight \/ compacting' = {}
BY DEF AppendEvent, CrashAfterLine, Writes, Line, Recorded

(* What becomes of the compactions in flight when e is appended: none is   *)
(* added, and one that e hides is recorded as overtaken.                   *)
Overtakes(e) ==
    /\ compacting' \subseteq compacting
    /\ overtaken \subseteq overtaken'
    /\ overtaken' \subseteq overtaken \cup {c.upto : c \in compacting}
    /\ e.type = "message.truncated" =>
         \A c \in compacting' : e.fromMessageId <= c.upto => c.upto \in overtaken'

(* What the writers append: a message is the oldest of those waiting or    *)
(* newly minted, and a compaction is anchored to what is shown, unless it  *)
(* was overtaken.                                                          *)
Written(e) ==
    /\ Recorded(e)
    /\ e \in Event
    /\ torn' = FALSE /\ running' \in BOOLEAN
    /\ Overtakes(e)
    /\ e.type = "compaction" => e.upto \in ShownIds \cup overtaken
    /\ \/ e.type = "message" /\ waiting # <<>> /\ e.id = Head(waiting) /\ waiting' = Tail(waiting) /\ minted' = minted
       \/ minted < MaxIds /\ minted' = minted + 1 /\ e.type = "message" /\ e.id = minted' /\ waiting' = waiting
       \/ minted < MaxIds /\ minted' = minted + 1 /\ e.type # "message" /\ waiting' = Append(waiting, minted')
       \/ e.type # "message" /\ UNCHANGED <<minted, waiting>>

Left ==
    /\ Quiet
    /\ torn' \in BOOLEAN /\ running' \in BOOLEAN
    /\ overtaken' = overtaken
    /\ \A c \in compacting' : c \in compacting \/ (c.upto \in ShownIds /\ c.idle \in BOOLEAN)
    /\ \/ minted < MaxIds /\ minted' = minted + 1 /\ waiting' = Append(waiting, minted')
       \/ waiting # <<>> /\ waiting' = Tail(waiting) /\ minted' = minted
       \/ UNCHANGED <<minted, waiting>>

LEMMA StepWrites ==
    ASSUME LogInv, LogNext
    PROVE  Left \/ \E e : Written(e)
<1>1. /\ stream \in Seq(Event) /\ Len(stream) \in Nat /\ minted \in Nat /\ minted + 1 \in Nat
      /\ torn \in BOOLEAN /\ running \in BOOLEAN
      /\ \A i \in 1 .. Len(stream) : stream[i] \in Event
    BY DEF LogInv
<1>2. CASE Submit
    BY <1>1, <1>2 DEF Submit, Left, Quiet
<1>3. CASE Withdraw
    BY <1>1, <1>3 DEF Withdraw, Left, Quiet
<1>4. CASE Land
    <2> DEFINE e == Message(Head(waiting), "user")
    <2>1. waiting # <<>> /\ Head(waiting) \in Nat
        BY <1>1, <1>4, QueueShrinks DEF Land, LogInv
    <2>2. e \in Event /\ e.type = "message" /\ e.id = Head(waiting)
        BY <2>1, LinesAreEvents DEF Message
    <2>3. Recorded(e) /\ torn' = FALSE /\ running' \in BOOLEAN
        BY <1>4, WritesRecord DEF Land
    <2>5. Overtakes(e)
        BY <1>4, <2>2, WritesRecord DEF Land, Overtakes
    <2> HIDE DEF e
    <2>4. Written(e)
        BY <1>4, <2>1, <2>2, <2>3, <2>5 DEF Land, Written
    <2>. QED  BY <2>4
<1>5. CASE Reply
    <2> DEFINE e == Message(minted', "assistant")
    <2>1. minted < MaxIds /\ minted' = minted + 1 /\ waiting' = waiting
        BY <1>5 DEF Reply
    <2>2. e \in Event /\ e.type = "message" /\ e.id = minted'
        BY <1>1, <2>1, LinesAreEvents DEF Message
    <2>3. Recorded(e) /\ torn' = FALSE /\ running' \in BOOLEAN
        BY <1>5, WritesRecord DEF Reply
    <2>5. Overtakes(e)
        BY <1>5, <2>2, WritesRecord DEF Reply, Overtakes
    <2> HIDE DEF e
    <2>4. Written(e)
        BY <2>1, <2>2, <2>3, <2>5 DEF Written
    <2>. QED  BY <2>4
<1>6. CASE EndRun
    <2>1. RunEnded \in Event /\ RunEnded.type = "run.ended"
        BY LinesAreEvents DEF RunEnded
    <2>2. Recorded(RunEnded) /\ torn' = FALSE /\ running' \in BOOLEAN
        BY <1>6, WritesRecord DEF EndRun
    <2>3. Overtakes(RunEnded)
        BY <1>6, <2>1, WritesRecord DEF EndRun, Overtakes
    <2>4. Written(RunEnded)
        BY <1>6, <2>1, <2>2, <2>3 DEF EndRun, Written
    <2>. QED  BY <2>4
<1>7. CASE CompactEnds
    <2>1. PICK c \in compacting :
             /\ \/ Writes(Compacted(c.upto), running, compacting \ {c})
                \/ compacting' = compacting \ {c} /\ UNCHANGED <<stream, torn, metaFile, running>>
             /\ UNCHANGED <<minted, waiting, overtaken>>
        BY <1>7 DEF CompactEnds
    <2>2. CASE compacting' = compacting \ {c} /\ UNCHANGED <<stream, torn, metaFile, running>>
        BY <1>1, <2>1, <2>2 DEF Left, Quiet
    <2>3. CASE Writes(Compacted(c.upto), running, compacting \ {c})
        <3> DEFINE e == Compacted(c.upto)
        <3>1. c.upto \in ShownIds \cup overtaken /\ c.upto \in Nat
            <4>1. ShownIds \cup overtaken \subseteq 1 .. minted
                BY ShownIsMinted DEF LogInv
            <4>. QED  BY <1>1, <2>1, <4>1 DEF LogInv
        <3>2. e \in Event /\ e.type = "compaction" /\ e.upto = c.upto
            BY <3>1, LinesAreEvents DEF Compacted
        <3>3. Recorded(e) /\ torn' = FALSE /\ running' \in BOOLEAN
            BY <1>1, <2>3, WritesRecord
        <3>4. compacting' = compacting \ {c} \/ compacting' = {}
            BY <2>3, WritesRecord
        <3>5. Overtakes(e)
            BY <2>1, <3>2, <3>4 DEF Overtakes
        <3> HIDE DEF e
        <3>6. Written(e)
            BY <2>1, <3>1, <3>2, <3>3, <3>5 DEF Written
        <3>. QED  BY <3>6
    <2>. QED  BY <2>1, <2>2, <2>3
<1>8. CASE RetryLast
    <2>1. ShownUsers # {}
        BY <1>8 DEF RetryLast
    <2>2. LastUser \in ShownUsers
        <3>1. ShownUsers \in SUBSET (1 .. Len(stream))
            BY DEF ShownUsers, Shown
        <3>2. \E i \in ShownUsers : \A j \in ShownUsers : j <= i
            <4> DEFINE S == {m \in Nat : \E i \in ShownUsers : m = Len(stream) - i}
            <4>1. S \in SUBSET Nat /\ S # {}
                <5>1. PICK i \in ShownUsers : TRUE
                    BY <2>1
                <5>2. i \in 1 .. Len(stream)
                    BY <3>1
                <5>3. Len(stream) - i \in S
                    BY <1>1, <5>2
                <5>. QED  BY <5>3
            <4>2. PICK m \in S : \A l \in S : m <= l
                BY <4>1, LogLeast
            <4>3. PICK i \in ShownUsers : m = Len(stream) - i
                BY <4>2
            <4>4. ASSUME NEW j \in ShownUsers  PROVE j <= i
                <5>1. j \in 1 .. Len(stream) /\ i \in 1 .. Len(stream)
                    BY <3>1
                <5>2. Len(stream) - j \in S
                    BY <1>1, <5>1
                <5>3. m <= Len(stream) - j
                    BY <4>2, <5>2
                <5>. QED  BY <1>1, <4>3, <5>1, <5>3
            <4>. QED  BY <4>4
        <3>. QED  BY <3>2 DEF LastUser
    <2> DEFINE e == Truncated(stream[LastUser].id)
    <2>3. LastUser \in 1 .. Len(stream) /\ stream[LastUser].type = "message"
        BY <2>2 DEF ShownUsers, Shown, IsShown
    <2>4. stream[LastUser].id \in Nat
        BY <1>1, <2>3, EventFields
    <2>5. e \in Event /\ e.type = "message.truncated"
        BY <2>4, LinesAreEvents DEF Truncated
    <2>6. \/ /\ AppendEvent(e) /\ minted < MaxIds /\ minted' = minted + 1
             /\ waiting' = Append(waiting, minted') /\ UNCHANGED running
             /\ overtaken' = overtaken \cup {c.upto : c \in {d \in compacting : stream[LastUser].id <= d.upto}}
             /\ UNCHANGED compacting
          \/ CrashAfterLine(e) /\ UNCHANGED <<minted, waiting, overtaken>>
        BY <1>8 DEF RetryLast
    <2>7. Recorded(e) /\ torn' = FALSE /\ running' \in BOOLEAN
        BY <1>1, <2>6, WritesRecord
    <2>8. e.fromMessageId = stream[LastUser].id
        BY DEF Truncated
    <2>9. compacting' = compacting \/ compacting' = {}
        BY <2>6, WritesRecord
    <2>10. Overtakes(e)
        BY <2>6, <2>8, <2>9, WritesRecord DEF Overtakes
    <2> HIDE DEF e
    <2>11. Written(e)
        BY <2>5, <2>6, <2>7, <2>10 DEF Written
    <2>. QED  BY <2>11
<1>9. ASSUME NEW mode \in Mode, UpdateMeta(mode)  PROVE \E e : Written(e)
    <2> DEFINE e == Set(mode)
    <2>1. e \in Event /\ e.type = "session.set"
        BY LinesAreEvents DEF Set
    <2>2. UNCHANGED <<minted, waiting, overtaken>>
        BY <1>9 DEF UpdateMeta
    <2>3. Recorded(e) /\ torn' = FALSE /\ running' \in BOOLEAN
        <3>1. CASE /\ Line(e) /\ running' = running
                   /\ metaFile' = Projected(applyEvent(BaseAsRead, e), Len(stream) + 1)
            BY <1>1, <2>1, <3>1 DEF Line, Recorded
        <3>2. CASE AppendEvent(e) /\ running' = FALSE
            BY <3>2, WritesRecord
        <3>3. CASE CrashAfterLine(e)
            BY <3>3, WritesRecord
        <3>. QED  BY <1>9, <3>1, <3>2, <3>3 DEF UpdateMeta
    <2>4. compacting' = compacting \/ compacting' = {}
        BY <1>9, WritesRecord DEF UpdateMeta
    <2>5. Overtakes(e)
        BY <2>1, <2>2, <2>4 DEF Overtakes
    <2> HIDE DEF e
    <2>6. Written(e)
        BY <2>1, <2>2, <2>3, <2>5 DEF Written
    <2>. QED  BY <2>6
<1>10. CASE CrashInLine
    BY <1>1, <1>10 DEF CrashInLine, Left, Quiet
<1>11. CASE MetaIsLost
    BY <1>1, <1>11 DEF MetaIsLost, Left, Quiet
<1>12. CASE ReadMeta
    BY <1>1, <1>12 DEF ReadMeta, Left, Quiet
<1>13. CASE CompactBegins
    <2>1. PICK i \in Shown, idle \in BOOLEAN :
             /\ compacting' = compacting \cup {[upto |-> stream[i].id, idle |-> idle]}
             /\ UNCHANGED <<stream, torn, metaFile, minted, waiting, running, overtaken>>
        BY <1>13 DEF CompactBegins
    <2>2. stream[i].id \in ShownIds
        BY DEF ShownIds
    <2>. QED  BY <1>1, <2>1, <2>2 DEF Left, Quiet
<1>. QED  BY <1>2, <1>3, <1>4, <1>5, <1>6, <1>7, <1>8, <1>9, <1>10, <1>11, <1>12,
             <1>13 DEF LogNext

-----------------------------------------------------------------------------
(* The ids, as messages are minted, wait and land. *)

LEMMA WaitingIsMinted ==
    ASSUME NEW w, NEW m \in Nat, QueueOK(w, m), NEW k \in 1 .. Len(w)
    PROVE  w[k] \in 1 .. m
<1>1. Len(w) \in Nat /\ w[k] \in Nat /\ w[k] > 0 /\ w[k] + Len(w) - k <= m
    BY DEF QueueOK
<1>. QED  BY <1>1

LEMMA IdsOfMinting ==
    ASSUME NEW s \in Seq(Event), NEW w, NEW m \in Nat, QueueOK(w, m), IdsOK(s, w, m)
    PROVE  IdsOK(s, Append(w, m + 1), m + 1)
<1> DEFINE n == Len(w)
           v == Append(w, m + 1)
<1>1. /\ n \in Nat /\ Len(v) = n + 1 /\ v[n + 1] = m + 1
      /\ \A k \in 1 .. n : v[k] = w[k]
    BY DEF QueueOK
<1>2. \A i \in 1 .. Len(s) : s[i].type = "message" => s[i].id \in 1 .. m
    BY DEF IdsOK
<1>3. \A i \in 1 .. Len(s), k \in 1 .. n : s[i].type = "message" => s[i].id # w[k]
    BY DEF IdsOK
<1> HIDE DEF v, n
<1>4. ASSUME NEW i \in 1 .. Len(s), NEW k \in 1 .. n + 1, s[i].type = "message"
      PROVE  s[i].id # v[k]
    <2>1. CASE k = n + 1
        BY <1>1, <1>2, <1>4, <2>1
    <2>2. CASE k \in 1 .. n
        BY <1>1, <1>3, <1>4, <2>2
    <2>. QED  BY <1>1, <2>1, <2>2
<1>5. \A i \in 1 .. Len(s) : s[i].type = "message" => s[i].id \in 1 .. m + 1
    BY <1>2
<1>6. \A i, j \in 1 .. Len(s) :
         i # j /\ s[i].type = "message" /\ s[j].type = "message" => s[i].id # s[j].id
    BY DEF IdsOK
<1>7. IdsOK(s, v, m + 1)
    BY <1>1, <1>4, <1>5, <1>6 DEF IdsOK
<1>. QED  BY <1>7 DEF v

(* A line more: a message must bring an id that is neither in the log nor  *)
(* waiting from then on.                                                   *)
LEMMA IdsOfLine ==
    ASSUME NEW s \in Seq(Event), NEW w, NEW m \in Nat, NEW e \in Event,
           NEW v, NEW l \in Nat, m <= l, IdsOK(s, w, m),
           \A k \in 1 .. Len(v) : \E j \in 1 .. Len(w) : v[k] = w[j],
           e.type = "message" =>
             /\ e.id \in 1 .. l
             /\ \A i \in 1 .. Len(s) : s[i].type = "message" => s[i].id # e.id
             /\ \A k \in 1 .. Len(v) : v[k] # e.id
    PROVE  IdsOK(Append(s, e), v, l)
<1> DEFINE n == Len(s)
           more == Append(s, e)
<1>1. /\ n \in Nat /\ Len(more) = n + 1 /\ more[n + 1] = e
      /\ \A i \in 1 .. n : more[i] = s[i]
    OBVIOUS
<1>2. /\ \A i \in 1 .. n : s[i].type = "message" => s[i].id \in 1 .. m
      /\ \A i, j \in 1 .. n :
           i # j /\ s[i].type = "message" /\ s[j].type = "message" => s[i].id # s[j].id
      /\ \A i \in 1 .. n, k \in 1 .. Len(w) : s[i].type = "message" => s[i].id # w[k]
    BY DEF IdsOK
<1>3. e.type = "message" =>
        /\ e.id \in 1 .. l
        /\ \A i \in 1 .. n : s[i].type = "message" => s[i].id # e.id
        /\ \A k \in 1 .. Len(v) : v[k] # e.id
    OBVIOUS
<1> HIDE DEF more, n
<1>4. ASSUME NEW i \in 1 .. n + 1, more[i].type = "message"  PROVE more[i].id \in 1 .. l
    <2>1. CASE i = n + 1
        BY <1>1, <1>3, <1>4, <2>1
    <2>2. CASE i \in 1 .. n
        BY <1>1, <1>2, <1>4, <2>2
    <2>. QED  BY <1>1, <2>1, <2>2
<1>5. ASSUME NEW i \in 1 .. n + 1, NEW j \in 1 .. n + 1, i # j,
             more[i].type = "message", more[j].type = "message"
      PROVE  more[i].id # more[j].id
    <2>1. CASE i \in 1 .. n /\ j \in 1 .. n
        BY <1>1, <1>2, <1>5, <2>1
    <2>2. CASE i \in 1 .. n /\ j = n + 1
        BY <1>1, <1>3, <1>5, <2>2
    <2>3. CASE i = n + 1 /\ j \in 1 .. n
        BY <1>1, <1>3, <1>5, <2>3
    <2>. QED  BY <1>1, <1>5, <2>1, <2>2, <2>3
<1>6. ASSUME NEW i \in 1 .. n + 1, NEW k \in 1 .. Len(v), more[i].type = "message"
      PROVE  more[i].id # v[k]
    <2>1. CASE i = n + 1
        BY <1>1, <1>3, <1>6, <2>1
    <2>2. CASE i \in 1 .. n
        BY <1>1, <1>2, <1>6, <2>2
    <2>. QED  BY <1>1, <2>1, <2>2
<1>7. IdsOK(more, v, l)
    BY <1>1, <1>4, <1>5, <1>6 DEF IdsOK
<1>. QED  BY <1>7 DEF more

-----------------------------------------------------------------------------
(* The invariant is inductive. *)

LEMMA InvInit == LogInit => LogInv
<1> SUFFICES ASSUME LogInit  PROVE LogInv
    OBVIOUS
<1>1. Len(<<>>) = 0 /\ <<>> \in Seq(Event) /\ <<>> \in Seq(Nat)
    OBVIOUS
<1>2. minted \in 0 .. MaxIds
    BY BoundAssumption DEF LogInit
<1>3. QueueOK(waiting, minted) /\ IdsOK(stream, waiting, minted)
    BY <1>1 DEF LogInit, QueueOK, IdsOK
<1>. QED  BY <1>1, <1>2, <1>3 DEF LogInit, LogInv

LEMMA RecordedIsTyped ==
    ASSUME LogInv, NEW e \in Event, Recorded(e)
    PROVE  /\ stream' \in Seq(Event) /\ Len(stream') = Len(stream) + 1
           /\ metaFile' \in Projection \cup {Nothing}
           /\ metaFile' # Nothing => metaFile'.chainLength <= Len(stream')
<1>1. stream \in Seq(Event) /\ Len(stream) \in Nat
    BY DEF LogInv
<1>2. stream' \in Seq(Event) /\ Len(stream') = Len(stream) + 1
    BY <1>1 DEF Recorded
<1>3. ASSUME NEW p \in Proj
      PROVE  /\ Projected(applyEvent(p, e), Len(stream) + 1) \in Projection
             /\ Projected(applyEvent(p, e), Len(stream) + 1).chainLength = Len(stream) + 1
    <2>1. applyEvent(p, e) \in Proj
        BY ApplyIsTyped
    <2>2. Len(stream) + 1 \in Nat
        BY <1>1
    <2>. QED  BY <2>1, <2>2 DEF Projected, Projection, Proj
<1>4. CASE metaFile' = Healed
    <2>1. Healed # Nothing => Healed.chainLength \in Nat
        BY MetaIsTyped DEF Projection
    <2>. QED  BY <1>1, <1>2, <1>4, <2>1, MetaIsTyped
<1>5. CASE metaFile' # Healed
    BY <1>1, <1>2, <1>3, <1>5, BaseIsTyped DEF Recorded
<1>. QED  BY <1>4, <1>5

LEMMA WrittenKeeps ==
    ASSUME LogInv, NEW e, Written(e)
    PROVE  LogInv'
<1>1. e \in Event /\ Recorded(e) /\ torn' \in BOOLEAN /\ running' \in BOOLEAN
    BY DEF Written
<1>2. stream \in Seq(Event) /\ minted \in Nat /\ MaxIds \in Nat /\ minted <= MaxIds
      /\ QueueOK(waiting, minted) /\ IdsOK(stream, waiting, minted)
    BY BoundAssumption DEF LogInv
<1>3. stream' = Append(stream, e)
    BY <1>1 DEF Recorded
<1>4. \A i \in 1 .. Len(stream) : stream[i].type = "message" => stream[i].id \in 1 .. minted
    BY <1>2 DEF IdsOK
<1>5. minted' \in 0 .. MaxIds /\ QueueOK(waiting', minted') /\ IdsOK(stream', waiting', minted')
    <2>1. CASE /\ e.type = "message" /\ waiting # <<>> /\ e.id = Head(waiting)
               /\ waiting' = Tail(waiting) /\ minted' = minted
        <3>1. /\ QueueOK(Tail(waiting), minted)
              /\ Head(waiting) = waiting[1] /\ 1 \in 1 .. Len(waiting) /\ Head(waiting) \in 1 .. minted
              /\ \A k \in 1 .. Len(Tail(waiting)) :
                   k + 1 \in 1 .. Len(waiting) /\ Tail(waiting)[k] = waiting[k + 1]
              /\ \A k \in 1 .. Len(Tail(waiting)) : Tail(waiting)[k] # Head(waiting)
            BY <1>2, <2>1, QueueShrinks
        <3>2. \A i \in 1 .. Len(stream) : stream[i].type = "message" => stream[i].id # e.id
            BY <1>2, <2>1, <3>1 DEF IdsOK
        <3> DEFINE v == Tail(waiting)
        <3>3. \A k \in 1 .. Len(v) : \E j \in 1 .. Len(waiting) : v[k] = waiting[j]
            BY <3>1
        <3>4. /\ e.id \in 1 .. minted /\ minted <= minted
              /\ \A k \in 1 .. Len(v) : v[k] # e.id
            BY <1>2, <2>1, <3>1
        <3> HIDE DEF v
        <3>5. IdsOK(Append(stream, e), v, minted)
            BY <1>1, <1>2, <3>2, <3>3, <3>4, IdsOfLine
        <3>. QED  BY <1>2, <1>3, <2>1, <3>1, <3>5 DEF v
    <2>2. CASE /\ minted < MaxIds /\ minted' = minted + 1 /\ e.type = "message"
               /\ e.id = minted' /\ waiting' = waiting
        <3>1. \A i \in 1 .. Len(stream) : stream[i].type = "message" => stream[i].id # e.id
            BY <1>2, <1>4, <2>2
        <3>2. \A k \in 1 .. Len(waiting) : waiting[k] # e.id
            BY <1>2, <2>2, WaitingIsMinted
        <3>3. minted + 1 \in Nat /\ minted <= minted + 1 /\ e.id \in 1 .. minted + 1
            BY <1>2, <2>2
        <3>4. \A k \in 1 .. Len(waiting) : \E j \in 1 .. Len(waiting) : waiting[k] = waiting[j]
            OBVIOUS
        <3>5. IdsOK(Append(stream, e), waiting, minted + 1)
            BY <1>1, <1>2, <3>1, <3>2, <3>3, <3>4, IdsOfLine
        <3>. QED  BY <1>2, <1>3, <2>2, <3>5, QueueGrows
    <2>3. CASE /\ minted < MaxIds /\ minted' = minted + 1 /\ e.type # "message"
               /\ waiting' = Append(waiting, minted')
        <3>1. \A k \in 1 .. Len(waiting) : \E j \in 1 .. Len(waiting) : waiting[k] = waiting[j]
            OBVIOUS
        <3>2. IdsOK(Append(stream, e), waiting, minted) /\ Append(stream, e) \in Seq(Event)
            BY <1>1, <1>2, <2>3, <3>1, IdsOfLine
        <3>3. IdsOK(Append(stream, e), Append(waiting, minted + 1), minted + 1)
            BY <1>2, <3>2, IdsOfMinting
        <3>. QED  BY <1>2, <1>3, <2>3, <3>3, QueueGrows
    <2>4. CASE e.type # "message" /\ UNCHANGED <<minted, waiting>>
        <3>1. \A k \in 1 .. Len(waiting) : \E j \in 1 .. Len(waiting) : waiting[k] = waiting[j]
            OBVIOUS
        <3>2. IdsOK(Append(stream, e), waiting, minted)
            BY <1>1, <1>2, <2>4, <3>1, IdsOfLine
        <3>. QED  BY <1>2, <1>3, <2>4, <3>2
    <2>. QED  BY <2>1, <2>2, <2>3, <2>4 DEF Written
<1>6. overtaken' \subseteq 1 .. minted'
    <2>1. overtaken \subseteq 1 .. minted /\ \A c \in compacting : c.upto \in 1 .. minted
        BY <1>2, ShownIsMinted DEF LogInv
    <2>2. minted <= minted'
        BY <1>2 DEF Written
    <2>3. 1 .. minted \subseteq 1 .. minted'
        BY <1>2, <1>5, <2>2
    <2>. QED  BY <2>1, <2>3 DEF Written, Overtakes
<1>7. ASSUME NEW c \in compacting'
      PROVE  c.upto \in (ShownIds \cup overtaken)' /\ c.idle \in BOOLEAN
    <2>1. c.upto \in ShownIds \cup overtaken /\ c.idle \in BOOLEAN /\ overtaken \subseteq overtaken'
        BY <1>7 DEF Written, Overtakes, LogInv
    <2>2. CASE c.upto \in overtaken
        BY <2>1, <2>2
    <2>3. CASE c.upto \in ShownIds /\ (e.type # "message.truncated" \/ c.upto < e.fromMessageId)
        BY <1>1, <1>2, <1>3, <2>1, <2>3, ShownStay
    <2>4. CASE c.upto \in ShownIds /\ e.type = "message.truncated" /\ ~(c.upto < e.fromMessageId)
        <3>1. c.upto \in Nat /\ e.fromMessageId \in Nat
            BY <1>1, <1>2, <2>4, ShownIsMinted, EventFields
        <3>2. e.fromMessageId <= c.upto
            BY <2>4, <3>1
        <3>. QED  BY <1>7, <2>1, <2>4, <3>2 DEF Written, Overtakes
    <2>. QED  BY <2>1, <2>2, <2>3, <2>4
<1>. QED  BY <1>1, <1>5, <1>6, <1>7, RecordedIsTyped DEF LogInv

LEMMA LeftKeeps ==
    ASSUME LogInv, Left
    PROVE  LogInv'
<1>1. stream \in Seq(Event) /\ minted \in Nat /\ MaxIds \in Nat /\ minted <= MaxIds
      /\ QueueOK(waiting, minted) /\ IdsOK(stream, waiting, minted)
    BY BoundAssumption DEF LogInv
<1>2. stream' = stream /\ torn' \in BOOLEAN /\ running' \in BOOLEAN
    BY DEF Left, Quiet
<1>3. /\ metaFile' \in Projection \cup {Nothing}
      /\ metaFile' # Nothing => metaFile'.chainLength <= Len(stream')
    <2>1. Len(stream) <= Len(stream)
        BY <1>1
    <2>2. CASE metaFile' = metaFile
        BY <1>2, <2>2 DEF LogInv
    <2>3. CASE metaFile' = Nothing
        BY <2>3
    <2>4. CASE metaFile' = Rebuilt
        BY <1>2, <2>1, <2>4, MetaIsTyped
    <2>. QED  BY <2>2, <2>3, <2>4 DEF Left, Quiet
<1>4. minted' \in 0 .. MaxIds /\ QueueOK(waiting', minted') /\ IdsOK(stream, waiting', minted')
    <2>1. CASE minted < MaxIds /\ minted' = minted + 1 /\ waiting' = Append(waiting, minted')
        BY <1>1, <2>1, QueueGrows, IdsOfMinting
    <2>2. CASE waiting # <<>> /\ waiting' = Tail(waiting) /\ minted' = minted
        <3>1. /\ QueueOK(Tail(waiting), minted)
              /\ \A k \in 1 .. Len(Tail(waiting)) :
                   k + 1 \in 1 .. Len(waiting) /\ Tail(waiting)[k] = waiting[k + 1]
            BY <1>1, <2>2, QueueShrinks
        <3>2. IdsOK(stream, Tail(waiting), minted)
            BY <1>1, <3>1 DEF IdsOK
        <3>. QED  BY <1>1, <2>2, <3>1, <3>2
    <2>3. CASE UNCHANGED <<minted, waiting>>
        BY <1>1, <2>3
    <2>. QED  BY <2>1, <2>2, <2>3 DEF Left
<1>5. overtaken' \subseteq 1 .. minted'
    <2>1. 1 .. minted \subseteq 1 .. minted'
        BY <1>1, <1>4 DEF Left
    <2>. QED  BY <2>1 DEF Left, LogInv
<1>6. \A c \in compacting' : c.upto \in (ShownIds \cup overtaken)' /\ c.idle \in BOOLEAN
    BY <1>2, ShownUnchanged DEF Left, LogInv
<1>. QED  BY <1>1, <1>2, <1>3, <1>4, <1>5, <1>6 DEF LogInv

LEMMA StutterIsLeft ==
    ASSUME LogInv, UNCHANGED logVars
    PROVE  Left
BY DEF LogInv, logVars, Left, Quiet

LEMMA InvKept == LogInv /\ [LogNext]_logVars => LogInv'
BY StepWrites, StutterIsLeft, WrittenKeeps, LeftKeeps

(* A message is minted before it lands and lands once, the projection is   *)
(* never ahead of the log, and what waits was minted.                      *)
THEOREM LogIsTyped == LogSpec => []LogTypeOK
<1>. QED  BY InvInit, InvKept, InvIsTyped, PTL DEF LogSpec

-----------------------------------------------------------------------------
(* The properties. *)

LEMMA StaysHidden ==
    ASSUME LogInv, [LogNext]_logVars
    PROVE  \A i \in 1 .. Len(stream) : i \notin Shown => i \notin Shown'
<1>1. CASE Left
    <2>1. stream' = stream
        BY <1>1 DEF Left, Quiet
    <2>. QED  BY <2>1, ReadingIsIn
<1>2. ASSUME NEW e, Written(e)  PROVE \A i \in 1 .. Len(stream) : i \notin Shown => i \notin Shown'
    <2>1. stream' = Append(stream, e) /\ e \in Event /\ stream \in Seq(Event)
        BY <1>2 DEF Written, Recorded, LogInv
    <2>. QED  BY <2>1, ReadingIsIn, ShownOfAppend
<1>. QED  BY <1>1, <1>2, StepWrites, StutterIsLeft

(* What a truncation hid stays hidden, whatever is appended after it:      *)
(* readMessages lets the first marker after a line govern it.              *)
THEOREM NothingReappears == LogSpec => HiddenStaysHidden
<1>1. LogInv /\ [LogNext]_logVars => (\A i \in 1 .. Len(stream) : i \notin Shown => i \notin Shown')
    BY StaysHidden
<1>. QED  BY InvInit, InvKept, <1>1, PTL DEF LogSpec, HiddenStaysHidden

LEMMA AnchorKept ==
    ASSUME LogInv, AnchorIsVisible, [LogNext]_logVars
    PROVE  AnchorIsVisible'
<1> DEFINE a == Fold(stream).compaction
<1>1. stream \in Seq(Event) /\ Fold(stream) \in Proj
    BY FoldIsTyped DEF LogInv
<1>2. CASE Left
    <2>1. stream' = stream /\ overtaken' = overtaken
        BY <1>2 DEF Left, Quiet
    <2>2. ShownIds' = ShownIds
        BY <2>1, ShownUnchanged
    <2>. QED  BY <2>1, <2>2 DEF AnchorIsVisible
<1>3. ASSUME NEW e, Written(e)  PROVE AnchorIsVisible'
    <2>1. stream' = Append(stream, e) /\ e \in Event
        BY <1>3 DEF Written, Recorded
    <2>2. Fold(stream') = applyEvent(Fold(stream), e)
        BY <1>1, <2>1, FoldOfAppend
    <2>3. Overtakes(e) /\ overtaken \subseteq overtaken'
        BY <1>3 DEF Written, Overtakes
    <2>4. ASSUME NEW b \in ShownIds, e.type # "message.truncated" \/ b < e.fromMessageId
          PROVE  b \in ShownIds'
        BY <1>1, <2>1, <2>4, ShownStay
    <2>5. SUFFICES ASSUME Fold(stream').compaction # Nothing
                   PROVE  Fold(stream').compaction \in (ShownIds \cup overtaken)'
        BY DEF AnchorIsVisible
    <2>6. CASE e.type = "compaction"
        <3>1. Fold(stream').compaction = e.upto
            BY <1>1, <2>2, <2>6 DEF applyEvent, Proj
        <3>2. e.upto \in ShownIds \cup overtaken
            BY <1>3, <2>6 DEF Written
        <3>. QED  BY <2>3, <2>4, <2>6, <3>1, <3>2
    <2>7. CASE e.type = "message.truncated"
        <3>1. ~Clears(a, e.fromMessageId) /\ Fold(stream').compaction = a
            BY <1>1, <2>2, <2>5, <2>7 DEF applyEvent, Proj
        <3>2. a # Nothing /\ a \in Nat /\ e.fromMessageId \in Nat
            BY <1>1, <2>1, <2>5, <2>7, <3>1, EventFields DEF Proj
        <3>3. a < e.fromMessageId
            BY <3>1, <3>2 DEF Clears
        <3>4. a \in ShownIds \cup overtaken
            BY <3>2 DEF AnchorIsVisible
        <3>. QED  BY <2>3, <2>4, <3>1, <3>3, <3>4
    <2>8. CASE e.type \notin {"compaction", "message.truncated"}
        <3>1. Fold(stream').compaction = a
            BY <1>1, <2>2, <2>8 DEF applyEvent, Proj
        <3>2. a \in ShownIds \cup overtaken
            BY <2>5, <3>1 DEF AnchorIsVisible
        <3>. QED  BY <2>3, <2>4, <2>8, <3>1, <3>2
    <2>. QED  BY <2>6, <2>7, <2>8
<1>. QED  BY <1>2, <1>3, StepWrites, StutterIsLeft

(* The anchor of the current summary is always among the messages a run    *)
(* would read: a compaction is anchored to one, and a truncation that      *)
(* takes it away clears the compaction with it.  The exception is an idle  *)
(* /compact in flight, whose anchor a retry may hide before it is appended.*)
THEOREM AnchorStaysVisible == LogSpec => []AnchorIsVisible
<1>1. LogInit => AnchorIsVisible
    BY FoldOfNone DEF LogInit, AnchorIsVisible, Fresh
<1>. QED  BY InvInit, InvKept, AnchorKept, <1>1, PTL DEF LogSpec

LEMMA StepHeals ==
    ASSUME LogInv, ProjectionIsFold, [LogNext]_logVars,
           stream' # stream => stream'[Len(stream')].type # "session.set"
    PROVE  ProjectionIsFold'
<1>1. stream \in Seq(Event) /\ Len(stream) \in Nat /\ Fold(stream) \in Proj
    BY FoldIsTyped DEF LogInv
<1>2. CASE Left
    <2>1. stream' = stream /\ metaFile' \in {metaFile, Nothing, Rebuilt}
        BY <1>2 DEF Left, Quiet
    <2>. QED  BY <2>1, MetaIsTyped DEF ProjectionIsFold
<1>3. ASSUME NEW e, Written(e)  PROVE ProjectionIsFold'
    <2>1. stream' = Append(stream, e) /\ e \in Event /\ Recorded(e)
        BY <1>3 DEF Written, Recorded
    <2>2. stream' # stream /\ Len(stream') = Len(stream) + 1 /\ stream'[Len(stream')] = e
        BY <1>1, <2>1
    <2>3. Fold(stream') = applyEvent(Fold(stream), e)
        BY <1>1, <2>1, FoldOfAppend
    <2>4. CASE metaFile' = Projected(applyEvent(Base, e), Len(stream) + 1)
        <3>1. metaFile' = Projected(Fold(stream'), Len(stream) + 1)
            BY <2>3, <2>4, BaseIsTyped
        <3>. QED  BY <3>1 DEF Projected, ProjectionIsFold
    <2>5. CASE metaFile' = Healed
        <3>1. Healed # Nothing => Healed.chainLength \in Nat /\ Healed.chainLength <= Len(stream)
            BY MetaIsTyped DEF Projection
        <3>2. Healed # Nothing => Healed.chainLength # Len(stream')
            BY <1>1, <2>2, <3>1
        <3>. QED  BY <2>5, <3>2 DEF ProjectionIsFold
    <2>. QED  BY <2>1, <2>2, <2>4, <2>5 DEF Recorded
<1>. QED  BY <1>2, <1>3, StepWrites, StutterIsLeft

(* Whatever a crash kept out of meta.json is folded in by the next append, *)
(* unless updateMeta makes it.                                             *)
THEOREM NextAppendHeals == LogSpec => AppendsHeal
<1>1. LogInv /\ [LogNext]_logVars =>
        (ProjectionIsFold /\ (stream' # stream => stream'[Len(stream')].type # "session.set")
           => ProjectionIsFold')
    BY StepHeals
<1>. QED  BY InvInit, InvKept, <1>1, PTL DEF LogSpec, AppendsHeal
=============================================================================
