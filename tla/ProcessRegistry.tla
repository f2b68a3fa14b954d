---------------------------- MODULE ProcessRegistry ----------------------------
(***************************************************************************)
(* The registry of background commands (core/src/process/registry.ts): the *)
(* entries in memory, the journal <home>/process-notices.jsonl, and the    *)
(* hand-off of a finished command's notice to the run queue of its session *)
(* (server/src/daemon.ts).  Commands outlive the daemon; the next one      *)
(* adopts them from the journal.                                           *)
(*                                                                         *)
(* The commands are those of one session, each spawned at most once.  The  *)
(* journal is the set of its lines: the registry finds them by process.    *)
(* A fragment that no one can parse is no line; what is appended right     *)
(* behind one joins it, and counts as an append that failed.               *)
(***************************************************************************)
EXTENDS Naturals, FiniteSets

CONSTANTS
    Proc,        \* background commands
    MaxRunning,  \* running entries allowed
    MaxFaults,   \* bound on crashes and failed writes of the journal
    None

ASSUME BoundAssumption == MaxRunning \in Nat /\ MaxFaults \in Nat
ASSUME NoneAssumption == None \notin {"watched", "probed", "settled"}

VARIABLES
    up,       \* the daemon runs
    os,       \* each command's process id: what a zero signal would find
    entry,    \* its entry in memory, and how its end will be noticed
    journal,  \* the lines of the journal
    handed,   \* commands handed off whose lines are still to be removed
    todo,     \* lines the adoption at boot has chosen and not yet dealt with
    adopting, \* it goes on
    told,     \* how often the queue took the command's notice
    exposed,  \* ghost: commands that are or were in the registry but in no line
    faults

vars == <<up, os, entry, journal, handed, todo, adopting, told, exposed, faults>>

Kind == {"running", "ended", "killed"}
Line == [proc : Proc, kind : Kind]

LinesOf(p) == {l \in journal : l.proc = p}

Running(p) == entry[p] \in {"watched", "probed"}

(* The zero signal cannot tell a command from a stranger with its pid. *)
PidAlive(p) == os[p] \in {"alive", "reused"}

Init ==
    /\ up = TRUE
    /\ os = [p \in Proc |-> "unborn"]
    /\ entry = [p \in Proc |-> None]
    /\ journal = {} /\ handed = {} /\ todo = {} /\ adopting = FALSE
    /\ told = [p \in Proc |-> 0]
    /\ exposed = {} /\ faults = 0

Fault == faults < MaxFaults /\ faults' = faults + 1

(* The daemon dies: what it had in memory is gone. *)
Dies ==
    /\ Fault
    /\ up' = FALSE
    /\ entry' = [p \in Proc |-> None]
    /\ handed' = {} /\ todo' = {} /\ adopting' = FALSE

Crash ==
    /\ up
    /\ Dies
    /\ UNCHANGED <<os, journal, told, exposed>>

-----------------------------------------------------------------------------
(* A command starts: the entry first, then its running line. *)
Register(p) ==
    /\ up /\ os[p] = "unborn"
    /\ Cardinality({q \in Proc : Running(q)}) < MaxRunning
    /\ os' = [os EXCEPT ![p] = "alive"]
    /\ \/ /\ entry' = [entry EXCEPT ![p] = "watched"]
          /\ journal' = journal \cup {[proc |-> p, kind |-> "running"]}
          /\ UNCHANGED <<up, handed, todo, adopting, exposed, faults>>
       \/ /\ entry' = [entry EXCEPT ![p] = "watched"]      \* the append fails
          /\ Fault
          /\ exposed' = exposed \cup {p}
          /\ UNCHANGED <<up, journal, handed, todo, adopting>>
       \/ /\ Dies                                          \* spawned, no line
          /\ exposed' = exposed \cup {p}
          /\ UNCHANGED journal
    /\ UNCHANGED told

(* At the cap the tool kills what it has just spawned. *)
RegisterRefused(p) ==
    /\ up /\ os[p] = "unborn"
    /\ Cardinality({q \in Proc : Running(q)}) >= MaxRunning
    /\ os' = [os EXCEPT ![p] = "refused"]
    /\ UNCHANGED <<up, entry, journal, handed, todo, adopting, told, exposed, faults>>

(* A command exits, or process_kill ends whatever has its pid. *)
Exits(p) ==
    /\ PidAlive(p)
    /\ os' = [os EXCEPT ![p] = "gone"]
    /\ UNCHANGED <<up, entry, journal, handed, todo, adopting, told, exposed, faults>>

PidIsReused(p) ==
    /\ os[p] = "gone"
    /\ os' = [os EXCEPT ![p] = "reused"]
    /\ UNCHANGED <<up, entry, journal, handed, todo, adopting, told, exposed, faults>>

-----------------------------------------------------------------------------
(* The exit event ends a spawned entry, the poll an adopted one. *)
SeesEnd(p, kind) ==
    CASE entry[p] = "watched" -> os[p] \in {"gone", "reused"}
      [] entry[p] = "probed" -> ~PidAlive(p) /\ kind = "ended"
      [] OTHER -> FALSE

Told(p) == [told EXCEPT ![p] = @ + 1]

\* Faulty: the lines go even if the queue refused.
HandOffDropping(p, lines) ==
    \/ told' = Told(p) /\ handed' = handed \cup {p} /\ journal' = lines
    \/ UNCHANGED <<told, handed>> /\ journal' = {l \in lines : l.proc # p}

(* onNotice puts a run into the queue, or throws when the queue is full:   *)
(* then the lines stay for the next boot.                                  *)
HandOff(p, lines) ==
    \/ told' = Told(p) /\ handed' = handed \cup {p} /\ journal' = lines
    \/ UNCHANGED <<told, handed>> /\ journal' = lines

(* #settle and the first half of #deliver: the notice is appended and      *)
(* handed off, unless the daemon dies in between.                          *)
Settle(p) ==
    \E kind \in {"ended", "killed"} :
      LET with == journal \cup {[proc |-> p, kind |-> kind]} IN
      /\ up /\ SeesEnd(p, kind)
      /\ \/ /\ entry' = [entry EXCEPT ![p] = "settled"]
            /\ HandOff(p, with)
            /\ UNCHANGED <<up, todo, adopting, exposed, faults>>
         \/ /\ entry' = [entry EXCEPT ![p] = "settled"]    \* the append fails
            /\ HandOff(p, journal)
            /\ Fault
            /\ UNCHANGED <<up, todo, adopting, exposed>>
         \/ /\ Dies
            /\ journal' = with
            /\ UNCHANGED <<told, exposed>>
      /\ UNCHANGED os

(* Lines are dropped by writing the others anew, in place: the file is     *)
(* read, truncated and written.  A rewrite that fails leaves the file as   *)
(* it was or short of any of the others, and the daemon goes on (Boot      *)
(* drops line by line: some are gone then, some not); one that a crash     *)
(* interrupts leaves it short.  A command that loses its lines so is       *)
(* exposed.                                                                *)
Owners(lines) == {l.proc : l \in lines}

Bereft(lines, kept) == Owners(journal \ lines) \ Owners(kept)

Rewrites(lines) ==
    {kept \in SUBSET journal : kept \cap lines = {} \/ journal \ lines \subseteq kept}

(* back: what is appended again at once; bare: who is exposed in any case. *)
Drop(lines, back, bare) ==
    \E kept \in Rewrites(lines) :
      /\ journal' = kept \cup back
      /\ exposed' = exposed \cup bare \cup Bereft(lines, kept)
      /\ Fault \/ (kept = journal \ lines /\ UNCHANGED faults)

DiesDropping(lines, bare) ==
    /\ Dies
    /\ \E kept \in SUBSET (journal \ lines) :
         journal' = kept /\ exposed' = exposed \cup bare \cup Bereft(lines, kept)

(* The second half of #deliver. *)
Rewrite(p) ==
    /\ p \in handed
    /\ \/ /\ handed' = handed \ {p}
          /\ Drop(LinesOf(p), {}, {})
          /\ UNCHANGED <<up, entry, todo, adopting>>
       \/ DiesDropping(LinesOf(p), {})
    /\ UNCHANGED <<os, told>>

-----------------------------------------------------------------------------
\* Faulty: the lines are not told apart by process.
ChosenEvery == {journal}

(* Boot: one line of each process is chosen, a notice before the running   *)
(* line; the others are dropped at once.                                   *)
Chosen ==
    {c \in SUBSET journal :
       /\ \A p \in Proc : LinesOf(p) # {} =>
            \E l \in c : c \cap LinesOf(p) = {l}
       /\ \A l \in c : l.kind = "running" => LinesOf(l.proc) = {l}}

Boot ==
    /\ ~up /\ up' = TRUE
    /\ adopting' = TRUE
    /\ todo' \in Chosen
    /\ Drop(journal \ todo', {}, {})
    /\ UNCHANGED <<os, entry, handed, told>>

BootDies ==
    /\ ~up
    /\ \E c \in Chosen : DiesDropping(journal \ c, {})
    /\ UNCHANGED <<os, told>>

Reaches(l) == adopting /\ l \in todo

Adopted(l) == PidAlive(l.proc) /\ l.kind # "killed"

(* A live pid is taken for the command: it is listed again and polled.     *)
(* Its running line stays; a notice is dropped as no longer due.           *)
AdoptLive(l) ==
    /\ Reaches(l) /\ Adopted(l)
    /\ \/ /\ todo' = todo \ {l}
          /\ entry' = [entry EXCEPT ![l.proc] = "probed"]
          /\ \/ l.kind = "running" /\ UNCHANGED <<journal, exposed, faults>>
             \/ l.kind = "ended" /\ Drop({l}, {}, {l.proc})
          /\ UNCHANGED <<up, handed, adopting>>
       \/ l.kind = "ended" /\ DiesDropping({l}, {l.proc})
    /\ UNCHANGED <<os, told>>

(* The others are dropped first and handed off then: a full queue brings   *)
(* the line back, a crash in between does not.  If it cannot be appended   *)
(* again the adoption ends there; if it is appended to a fragment, which a *)
(* torn rewrite left, the adoption goes on and the line is lost.           *)
AdoptDead(l) ==
    /\ Reaches(l) /\ ~Adopted(l)
    /\ \/ /\ Drop({l}, {}, {})
          /\ told' = Told(l.proc)
          /\ todo' = todo \ {l}
          /\ UNCHANGED <<up, entry, handed, adopting>>
       \/ /\ Drop({l}, {l}, {})
          /\ todo' = todo \ {l}
          /\ UNCHANGED <<up, entry, handed, adopting, told>>
       \/ /\ Fault /\ Drop({l}, {}, {l.proc})
          /\ adopting' \in BOOLEAN
          /\ todo' = todo \ {l}
          /\ UNCHANGED <<up, entry, handed, told>>
       \/ /\ DiesDropping({l}, {l.proc})
          /\ UNCHANGED told
    /\ UNCHANGED os

Next ==
    \/ \E p \in Proc :
         Register(p) \/ RegisterRefused(p) \/ Exits(p) \/ PidIsReused(p) \/ Settle(p) \/ Rewrite(p)
    \/ \E l \in Line : AdoptLive(l) \/ AdoptDead(l)
    \/ Boot \/ BootDies \/ Crash

Spec == Init /\ [][Next]_vars
-----------------------------------------------------------------------------
(* The types of the registry, its journal and the ghosts. *)
TypeOK ==
    /\ up \in BOOLEAN /\ adopting \in BOOLEAN
    /\ os \in [Proc -> {"unborn", "alive", "gone", "reused", "refused"}]
    /\ entry \in [Proc -> {None, "watched", "probed", "settled"}]
    /\ journal \subseteq Line /\ handed \subseteq Proc /\ todo \subseteq Line
    /\ told \in [Proc -> Nat]
    /\ exposed \subseteq Proc /\ faults \in 0 .. MaxFaults

Taken(p) == os[p] \notin {"unborn", "refused"}

(* No command is forgotten unless it is exposed: one whose session was not *)
(* told is in the journal, and one that still runs is listed once the      *)
(* adoption is through.  Exposed are those that a failed append, a crash   *)
(* right before a line is written or right after it is dropped, or a       *)
(* reused pid left without a line; and those whose lines a rewrite for the *)
(* sake of another command lost, because it failed or the daemon died in   *)
(* it.                                                                     *)
NoneIsForgotten ==
    \A p \in Proc \ exposed :
      /\ Taken(p) /\ told[p] = 0 => LinesOf(p) # {}
      /\ up /\ todo = {} /\ os[p] = "alive" => Running(p)

(* A session is told of a command once, and once more for every crash or   *)
(* failed write at most.                                                   *)
TwiceOnlyAfterFault == \A p \in Proc : told[p] <= 1 + faults
=============================================================================
