------------------------- MODULE ProcessRegistryProofs -------------------------
(***************************************************************************)
(* Proofs about ProcessRegistry: for any number of commands, crashes and   *)
(* failed writes, no command is forgotten unless it is exposed, and a      *)
(* session is told again only after a fault.                               *)
(*                                                                         *)
(* The argument for the second: a command that may still be told of (it is *)
(* listed as running, or its line is still to be adopted) has been told of *)
(* at most once per fault, since whatever made it due again was a fault;   *)
(* being listed and being up for adoption exclude each other.              *)
(***************************************************************************)
EXTENDS ProcessRegistry, TLAPS

Listed(p) == \E l \in todo : l.proc = p

(* A line, and a telling, is about a command that was started; a notice    *)
(* and a telling, about one that has ended.                                *)
Grounded ==
    /\ \A l \in journal \cup todo : Taken(l.proc)
    /\ \A l \in journal \cup todo : l.kind # "running" => os[l.proc] # "alive"
    /\ \A p \in Proc : told[p] > 0 => os[p] \in {"gone", "reused"}
    /\ \A p \in handed : told[p] > 0
    /\ \A p \in Proc : Running(p) => Taken(p)

(* A command is due in one way at a time, and only while the daemon is up. *)
Apart ==
    /\ ~up => todo = {} /\ \A p \in Proc : ~Running(p)
    /\ \A l, m \in todo : l.proc = m.proc => l = m
    /\ \A p \in Proc : Running(p) => ~Listed(p)

(* What is or may become due has been told of once per fault at most.      *)
Spare ==
    /\ \A p \in Proc : told[p] <= 1 + faults
    /\ \A p \in Proc : ~up \/ Running(p) \/ Listed(p) => told[p] <= faults

(* NoneIsForgotten with the adoption under way.                            *)
Remembered ==
    \A p \in Proc \ exposed :
      /\ Taken(p) /\ told[p] = 0 => LinesOf(p) # {}
      /\ up /\ os[p] = "alive" => Running(p) \/ Listed(p)

IInv == TypeOK /\ Grounded /\ Apart /\ Spare /\ Remembered

-----------------------------------------------------------------------------
(* The initial state satisfies the invariant. *)
LEMMA InitIInv == Init => IInv
<1> SUFFICES ASSUME Init PROVE IInv
  OBVIOUS
<1>1. TypeOK
  <2>1. faults \in 0 .. MaxFaults
    BY BoundAssumption DEF Init
  <2>2. journal \subseteq Line /\ handed \subseteq Proc /\ todo \subseteq Line /\ exposed \subseteq Proc
    BY DEF Init
  <2>3. told \in [Proc -> Nat]
    BY DEF Init
  <2> QED
    BY <2>1, <2>2, <2>3 DEF Init, TypeOK
<1>2. \A p \in Proc : ~Running(p) /\ ~Taken(p)
  BY NoneAssumption DEF Init, Running, Taken
<1>3. Grounded
  BY <1>2 DEF Init, Grounded
<1>4. Apart
  BY <1>2 DEF Init, Apart, Listed
<1>5. Spare
  BY <1>2 DEF Init, Spare, Listed
<1>6. Remembered
  <2> SUFFICES ASSUME NEW p \in Proc \ exposed PROVE ~Taken(p) /\ os[p] # "alive"
    BY DEF Remembered
  <2> QED
    BY <1>2 DEF Init
<1> QED
  BY <1>1, <1>3, <1>4, <1>5, <1>6 DEF IInv

(* A crash keeps the types of what it changes. *)
LEMMA DiesTypes ==
  ASSUME TypeOK, Dies
  PROVE  /\ up' \in BOOLEAN /\ adopting' \in BOOLEAN
         /\ entry' \in [Proc -> {None, "watched", "probed", "settled"}]
         /\ handed' \subseteq Proc /\ todo' \subseteq Line
         /\ faults' \in 0 .. MaxFaults
<1>1. faults' \in 0 .. MaxFaults
  BY BoundAssumption DEF TypeOK, Dies, Fault
<1> QED
  BY <1>1 DEF Dies

(* So does a failed write. *)
LEMMA FaultTypes == ASSUME TypeOK, Fault PROVE faults' \in 0 .. MaxFaults
  BY BoundAssumption DEF TypeOK, Fault

(* And a line that is added. *)
LEMMA LineTypes ==
  ASSUME TypeOK, NEW p \in Proc, NEW kind \in Kind
  PROVE  journal \cup {[proc |-> p, kind |-> kind]} \subseteq Line
  BY DEF TypeOK, Line

(* And a hand-off. *)
LEMMA HandOffTypes ==
  ASSUME TypeOK, NEW p \in Proc, NEW lines \in SUBSET Line, HandOff(p, lines)
  PROVE  told' \in [Proc -> Nat] /\ handed' \subseteq Proc /\ journal' \subseteq Line
  BY DEF TypeOK, HandOff, Told

(* And lines that are dropped. *)
LEMMA DropTypes ==
  ASSUME TypeOK, NEW lines, NEW back \in SUBSET Line, NEW bare \in SUBSET Proc
  PROVE  /\ Drop(lines, back, bare) =>
              /\ journal' \subseteq Line /\ exposed' \subseteq Proc /\ faults' \in 0 .. MaxFaults
         /\ DiesDropping(lines, bare) =>
              Dies /\ journal' \subseteq Line /\ exposed' \subseteq Proc
<1>1. Owners(journal \ lines) \subseteq Proc
  BY DEF Owners, TypeOK, Line
<1>2. ASSUME Drop(lines, back, bare)
      PROVE  journal' \subseteq Line /\ exposed' \subseteq Proc /\ faults' \in 0 .. MaxFaults
  <2>1. faults' \in 0 .. MaxFaults
    BY <1>2, FaultTypes DEF Drop, TypeOK
  <2>2. journal' \subseteq Line /\ exposed' \subseteq Proc
    BY <1>1, <1>2 DEF Drop, Rewrites, Bereft, TypeOK
  <2> QED
    BY <2>1, <2>2
<1>3. ASSUME DiesDropping(lines, bare)
      PROVE  Dies /\ journal' \subseteq Line /\ exposed' \subseteq Proc
  BY <1>1, <1>3 DEF DiesDropping, Bereft, TypeOK
<1> QED
  BY <1>2, <1>3

(* A rewrite adds nothing but what is appended again; and the command of   *)
(* a line that was to be kept has one still, or is exposed.                *)
LEMMA Dropping ==
  ASSUME NEW lines, NEW back, NEW bare, Drop(lines, back, bare)
  PROVE  /\ journal' \subseteq journal \cup back
         /\ back \subseteq journal' /\ exposed \cup bare \subseteq exposed'
         /\ faults' = faults \/ Fault
         /\ \A l \in journal \ lines : l.proc \in exposed' \/ \E m \in journal' : m.proc = l.proc
  BY DEF Drop, Rewrites, Bereft, Owners

LEMMA DyingDropping ==
  ASSUME NEW lines, NEW bare, DiesDropping(lines, bare)
  PROVE  /\ Dies
         /\ journal' \subseteq journal
         /\ exposed \cup bare \subseteq exposed'
         /\ \A l \in journal \ lines : l.proc \in exposed' \/ \E m \in journal' : m.proc = l.proc
  BY DEF DiesDropping, Bereft, Owners

(* Types are kept by every step. *)
LEMMA TypeStep == TypeOK /\ [Next]_vars => TypeOK'
<1> SUFFICES ASSUME TypeOK, [Next]_vars PROVE TypeOK'
  OBVIOUS
<1>1. ASSUME NEW p \in Proc, Register(p) PROVE TypeOK'
  <2>1. os' \in [Proc -> {"unborn", "alive", "gone", "reused", "refused"}] /\ UNCHANGED told
    BY <1>1 DEF Register, TypeOK
  <2>2. journal' \subseteq Line /\ exposed' \subseteq Proc
    BY <1>1, LineTypes DEF Register, TypeOK, Kind
  <2>3. CASE Dies
    BY <2>1, <2>2, <2>3, DiesTypes DEF TypeOK
  <2>4. CASE entry' = [entry EXCEPT ![p] = "watched"] /\ UNCHANGED <<up, handed, todo, adopting>>
    BY <1>1, <2>1, <2>2, <2>4, FaultTypes DEF TypeOK, Register, Dies
  <2> QED
    BY <1>1, <2>3, <2>4 DEF Register
<1>2. ASSUME NEW p \in Proc, RegisterRefused(p) \/ Exits(p) \/ PidIsReused(p) PROVE TypeOK'
  BY <1>2 DEF RegisterRefused, Exits, PidIsReused, TypeOK
<1>3. ASSUME NEW p \in Proc, Settle(p) PROVE TypeOK'
  <2> PICK kind \in {"ended", "killed"} :
        LET with == journal \cup {[proc |-> p, kind |-> kind]} IN
        /\ \/ /\ entry' = [entry EXCEPT ![p] = "settled"]
              /\ HandOff(p, with)
              /\ UNCHANGED <<up, todo, adopting, exposed, faults>>
           \/ /\ entry' = [entry EXCEPT ![p] = "settled"]
              /\ HandOff(p, journal)
              /\ Fault
              /\ UNCHANGED <<up, todo, adopting, exposed>>
           \/ /\ Dies
              /\ journal' = with
              /\ UNCHANGED <<told, exposed>>
        /\ UNCHANGED os
    BY <1>3 DEF Settle
  <2> DEFINE with == journal \cup {[proc |-> p, kind |-> kind]}
  <2>1. with \in SUBSET Line /\ journal \in SUBSET Line
    BY LineTypes DEF Kind, TypeOK
  <2>2. CASE Dies /\ journal' = with /\ UNCHANGED <<told, exposed>>
    BY <2>1, <2>2, DiesTypes DEF TypeOK
  <2>3. CASE /\ entry' = [entry EXCEPT ![p] = "settled"]
             /\ HandOff(p, with)
             /\ UNCHANGED <<up, todo, adopting, exposed, faults>>
    <3> HIDE DEF with
    <3> QED
      BY <2>1, <2>3, HandOffTypes DEF TypeOK
  <2>4. CASE /\ entry' = [entry EXCEPT ![p] = "settled"]
             /\ HandOff(p, journal)
             /\ Fault
             /\ UNCHANGED <<up, todo, adopting, exposed>>
    BY <2>1, <2>4, HandOffTypes, FaultTypes DEF TypeOK
  <2> QED
    BY <2>2, <2>3, <2>4
<1>4. ASSUME NEW p \in Proc, Rewrite(p) PROVE TypeOK'
  <2>1. CASE DiesDropping(LinesOf(p), {})
    BY <1>4, <2>1, DropTypes, DiesTypes DEF Rewrite, TypeOK
  <2>2. CASE /\ handed' = handed \ {p}
             /\ Drop(LinesOf(p), {}, {})
             /\ UNCHANGED <<up, entry, todo, adopting>>
    BY <1>4, <2>2, DropTypes DEF Rewrite, TypeOK
  <2> QED
    BY <1>4, <2>1, <2>2 DEF Rewrite
<1>5. ASSUME NEW l \in Line, AdoptLive(l) PROVE TypeOK'
  <2>1. l.proc \in Proc
    BY DEF Line
  <2>2. CASE DiesDropping({l}, {l.proc})
    BY <1>5, <2>1, <2>2, DropTypes, DiesTypes DEF AdoptLive, TypeOK
  <2>3. CASE ~DiesDropping({l}, {l.proc})
    <3>1. journal' \subseteq Line /\ faults' \in 0 .. MaxFaults /\ exposed' \subseteq Proc
      BY <1>5, <2>1, <2>3, DropTypes DEF AdoptLive, TypeOK
    <3> QED
      BY <1>5, <2>1, <2>3, <3>1 DEF AdoptLive, TypeOK
  <2> QED
    BY <2>2, <2>3
<1>6. ASSUME NEW l \in Line, AdoptDead(l) PROVE TypeOK'
  <2>1. l.proc \in Proc
    BY DEF Line
  <2>2. told' \in [Proc -> Nat]
    BY <1>6, <2>1 DEF AdoptDead, TypeOK, Told
  <2>3. CASE DiesDropping({l}, {l.proc})
    BY <1>6, <2>1, <2>2, <2>3, DropTypes, DiesTypes DEF AdoptDead, TypeOK
  <2>4. CASE ~DiesDropping({l}, {l.proc})
    <3>1. journal' \subseteq Line /\ faults' \in 0 .. MaxFaults /\ exposed' \subseteq Proc
      BY <1>6, <2>1, <2>4, DropTypes DEF AdoptDead
    <3> QED
      BY <1>6, <2>2, <2>4, <3>1 DEF AdoptDead, TypeOK
  <2> QED
    BY <2>3, <2>4
<1>7. CASE Boot
  <2>1. todo' \subseteq Line
    BY <1>7 DEF Boot, Chosen, TypeOK
  <2> QED
    BY <1>7, <2>1, DropTypes DEF Boot, TypeOK
<1>10. CASE BootDies
  BY <1>10, DropTypes, DiesTypes DEF BootDies, TypeOK
<1>8. CASE Crash
  BY <1>8, DiesTypes DEF Crash, TypeOK
<1>9. CASE UNCHANGED vars
  BY <1>9 DEF vars, TypeOK
<1> QED
  BY <1>1, <1>2, <1>3, <1>4, <1>5, <1>6, <1>7, <1>8, <1>9, <1>10 DEF Next

(* What the steps that write the journal anew come to: whoever had a line  *)
(* has one still, is told or is exposed.                                   *)
Kept(m) == m.proc \in exposed' \/ \E k \in journal' : k.proc = m.proc

Counts == faults' = faults \/ Fault

RewriteDoes(p) ==
  /\ p \in handed /\ UNCHANGED <<os, told>>
  /\ journal' \subseteq journal /\ exposed \subseteq exposed'
  /\ \A m \in journal : m.proc # p => Kept(m)
  /\ \/ Dies
     \/ handed' = handed \ {p} /\ UNCHANGED <<up, entry, todo, adopting>> /\ Counts

AdoptLiveDoes(l) ==
  /\ adopting /\ l \in todo /\ Adopted(l) /\ UNCHANGED <<os, told>>
  /\ journal' \subseteq journal /\ exposed \subseteq exposed'
  /\ \A m \in journal : Kept(m)
  /\ \/ Dies
     \/ /\ todo' = todo \ {l} /\ entry' = [entry EXCEPT ![l.proc] = "probed"]
        /\ UNCHANGED <<up, handed, adopting>> /\ Counts

AdoptDeadDoes(l) ==
  /\ adopting /\ l \in todo /\ ~Adopted(l) /\ UNCHANGED os
  /\ journal' \subseteq journal \cup {l} /\ exposed \subseteq exposed'
  /\ \A m \in journal : Kept(m) \/ (m = l /\ told' = Told(l.proc))
  /\ \/ Dies /\ UNCHANGED told
     \/ /\ todo' = todo \ {l} /\ told' \in {told, Told(l.proc)}
        /\ UNCHANGED <<up, entry, handed>> /\ Counts

BootDoes ==
  /\ ~up /\ up' /\ todo' \in Chosen /\ UNCHANGED <<os, entry, handed, told>>
  /\ journal' \subseteq journal /\ exposed \subseteq exposed'
  /\ \A m \in todo' : Kept(m)
  /\ Counts

BootDiesDoes ==
  /\ ~up /\ Dies /\ UNCHANGED <<os, told>>
  /\ journal' \subseteq journal /\ exposed \subseteq exposed'
  /\ \E c \in Chosen : \A m \in c : Kept(m)

LEMMA Shapes ==
  /\ \A p \in Proc : Rewrite(p) => RewriteDoes(p)
  /\ \A l \in Line : AdoptLive(l) => AdoptLiveDoes(l)
  /\ \A l \in Line : AdoptDead(l) => AdoptDeadDoes(l)
  /\ Boot => BootDoes
  /\ BootDies => BootDiesDoes
<1>1. ASSUME NEW p \in Proc, Rewrite(p) PROVE RewriteDoes(p)
  <2>1. \A m \in journal : m.proc # p => m \in journal \ LinesOf(p)
    BY DEF LinesOf
  <2>2. CASE DiesDropping(LinesOf(p), {})
    BY <1>1, <2>1, <2>2, DyingDropping DEF Rewrite, RewriteDoes, Kept
  <2>3. CASE /\ handed' = handed \ {p}
             /\ Drop(LinesOf(p), {}, {})
             /\ UNCHANGED <<up, entry, todo, adopting>>
    BY <1>1, <2>1, <2>3, Dropping DEF Rewrite, RewriteDoes, Kept, Counts
  <2> QED
    BY <1>1, <2>2, <2>3 DEF Rewrite
<1>2. ASSUME NEW l \in Line, AdoptLive(l) PROVE AdoptLiveDoes(l)
  <2>1. adopting /\ l \in todo /\ Adopted(l) /\ UNCHANGED <<os, told>>
    BY <1>2 DEF AdoptLive, Reaches
  <2>2. CASE DiesDropping({l}, {l.proc})
    <3>1. Dies /\ journal' \subseteq journal /\ exposed \cup {l.proc} \subseteq exposed'
      BY <2>2, DyingDropping
    <3>2. \A m \in journal \ {l} : Kept(m)
      BY <2>2, DyingDropping DEF Kept
    <3>3. Kept(l)
      BY <3>1 DEF Kept
    <3> QED
      BY <2>1, <3>1, <3>2, <3>3 DEF AdoptLiveDoes
  <2>3. CASE /\ UNCHANGED <<journal, exposed, faults>>
             /\ todo' = todo \ {l} /\ entry' = [entry EXCEPT ![l.proc] = "probed"]
             /\ UNCHANGED <<up, handed, adopting>>
    BY <2>1, <2>3 DEF AdoptLiveDoes, Kept, Counts
  <2>4. CASE /\ Drop({l}, {}, {l.proc})
             /\ todo' = todo \ {l} /\ entry' = [entry EXCEPT ![l.proc] = "probed"]
             /\ UNCHANGED <<up, handed, adopting>>
    BY <2>1, <2>4, Dropping DEF AdoptLiveDoes, Kept, Counts
  <2> QED
    BY <1>2, <2>2, <2>3, <2>4 DEF AdoptLive
<1>3. ASSUME NEW l \in Line, AdoptDead(l) PROVE AdoptDeadDoes(l)
  <2>1. adopting /\ l \in todo /\ ~Adopted(l) /\ UNCHANGED os
    BY <1>3 DEF AdoptDead, Reaches
  <2>2. CASE DiesDropping({l}, {l.proc}) /\ UNCHANGED told
    BY <2>1, <2>2, DyingDropping DEF AdoptDeadDoes, Kept
  <2>3. CASE /\ Drop({l}, {}, {}) /\ told' = Told(l.proc)
             /\ todo' = todo \ {l} /\ UNCHANGED <<up, entry, handed>>
    BY <2>1, <2>3, Dropping DEF AdoptDeadDoes, Kept, Counts
  <2>4. CASE /\ Drop({l}, {l}, {}) /\ told' = told
             /\ todo' = todo \ {l} /\ UNCHANGED <<up, entry, handed>>
    BY <2>1, <2>4, Dropping DEF AdoptDeadDoes, Kept, Counts
  <2>5. CASE /\ Drop({l}, {}, {l.proc}) /\ told' = told
             /\ todo' = todo \ {l} /\ UNCHANGED <<up, entry, handed>>
    BY <2>1, <2>5, Dropping DEF AdoptDeadDoes, Kept, Counts
  <2> QED
    BY <1>3, <2>2, <2>3, <2>4, <2>5 DEF AdoptDead
<1>4. ASSUME Boot PROVE BootDoes
  <2>1. todo' \in Chosen /\ todo' \subseteq journal
    BY <1>4 DEF Boot, Chosen
  <2> QED
    BY <1>4, <2>1, Dropping DEF Boot, BootDoes, Kept, Counts
<1>5. ASSUME BootDies PROVE BootDiesDoes
  <2>1. PICK c \in Chosen : DiesDropping(journal \ c, {})
    BY <1>5 DEF BootDies
  <2>2. c \subseteq journal
    BY DEF Chosen
  <2>3. \A m \in c : Kept(m)
    BY <2>1, <2>2, DyingDropping DEF Kept
  <2> QED
    BY <1>5, <2>1, <2>3, DyingDropping DEF BootDies, BootDiesDoes
<1> QED
  BY <1>1, <1>2, <1>3, <1>4, <1>5

(* Nothing that ended comes back to life, and what was started stays so.   *)
LEMMA Ending ==
  ASSUME TypeOK, [Next]_vars, NEW p \in Proc
  PROVE  /\ os[p] \in {"gone", "reused"} => os'[p] \in {"gone", "reused"}
         /\ Taken(p) => Taken(p)'
         /\ os[p] # "alive" /\ os'[p] = "alive" => os[p] = "unborn" /\ Register(p)
<1>1. ASSUME NEW q \in Proc, Register(q)
      PROVE  os[q] = "unborn" /\ os' = [os EXCEPT ![q] = "alive"]
  BY <1>1 DEF Register
<1>2. ASSUME NEW q \in Proc, RegisterRefused(q) \/ Exits(q) \/ PidIsReused(q)
      PROVE  \/ os[q] = "unborn" /\ os' = [os EXCEPT ![q] = "refused"]
             \/ os[q] \in {"alive", "reused"} /\ os' = [os EXCEPT ![q] = "gone"]
             \/ os[q] = "gone" /\ os' = [os EXCEPT ![q] = "reused"]
  BY <1>2 DEF RegisterRefused, Exits, PidIsReused, PidAlive
<1>3. \/ \E q \in Proc : Register(q)
      \/ \E q \in Proc : RegisterRefused(q) \/ Exits(q) \/ PidIsReused(q)
      \/ UNCHANGED os
  BY Shapes DEF Next, Settle, RewriteDoes, AdoptLiveDoes, AdoptDeadDoes, BootDoes, BootDiesDoes, Crash, vars
<1> QED
  BY <1>1, <1>2, <1>3 DEF TypeOK, Taken

(* What is seen to end has ended. *)
LEMMA SeenEnds ==
  ASSUME TypeOK, Grounded, NEW p \in Proc, NEW kind, SeesEnd(p, kind)
  PROVE  os[p] \in {"gone", "reused"} /\ Running(p)
  BY DEF SeesEnd, Grounded, Running, Taken, PidAlive, TypeOK

(* Where a line of the journal, or one to be adopted, comes from. *)
LEMMA LinesComeFrom ==
  ASSUME TypeOK, Grounded, [Next]_vars, NEW l \in (journal \cup todo)'
  PROVE  \/ l \in journal \cup todo
         \/ \E p \in Proc : Register(p) /\ l = [proc |-> p, kind |-> "running"]
         \/ \E p \in Proc : os[p] \in {"gone", "reused"} /\ l.proc = p
<1> DEFINE Origin ==
         \/ l \in journal \cup todo
         \/ \E p \in Proc : Register(p) /\ l = [proc |-> p, kind |-> "running"]
         \/ \E p \in Proc : os[p] \in {"gone", "reused"} /\ l.proc = p
<1>1. ASSUME NEW p \in Proc, Register(p) PROVE Origin
  BY <1>1 DEF Register, Dies
<1>2. ASSUME NEW p \in Proc, Settle(p) PROVE Origin
  <2> PICK kind \in {"ended", "killed"} :
         /\ SeesEnd(p, kind)
         /\ journal' \subseteq journal \cup {[proc |-> p, kind |-> kind]}
         /\ todo' \subseteq todo
    BY <1>2 DEF Settle, HandOff, Dies
  <2> QED
    BY SeenEnds
<1>3. CASE journal' \cup todo' \subseteq journal \cup todo
  BY <1>3
<1>4. ASSUME NEW p \in Proc, RegisterRefused(p) \/ Exits(p) \/ PidIsReused(p) \/ Rewrite(p) PROVE Origin
  BY <1>4, <1>3, Shapes DEF RegisterRefused, Exits, PidIsReused, RewriteDoes, Dies
<1>5. ASSUME NEW m \in Line, AdoptLive(m) \/ AdoptDead(m) PROVE Origin
  BY <1>5, <1>3, Shapes DEF AdoptLiveDoes, AdoptDeadDoes, Dies
<1>6. CASE Boot \/ BootDies \/ Crash \/ UNCHANGED vars
  BY <1>6, <1>3, Shapes DEF BootDoes, BootDiesDoes, Crash, Dies, vars, Chosen
<1> QED
  BY <1>1, <1>2, <1>4, <1>5, <1>6 DEF Next

(* Who is told in a step: a command seen to end, or one whose line is      *)
(* adopted.                                                                *)
LEMMA WhoIsTold ==
  ASSUME TypeOK, Grounded, Apart, [Next]_vars, NEW p \in Proc, told'[p] # told[p]
  PROVE  /\ told'[p] = told[p] + 1 /\ os[p] \in {"gone", "reused"} /\ UNCHANGED os /\ up
         /\ \/ Settle(p) /\ Running(p)
            \/ \E l \in todo : l.proc = p /\ AdoptDead(l)
<1>1. ASSUME NEW q \in Proc, Settle(q), told' # told
      PROVE  told' = Told(q) /\ UNCHANGED os /\ up /\ Running(q) /\ os[q] \in {"gone", "reused"}
  <2> PICK kind \in {"ended", "killed"} : SeesEnd(q, kind)
    BY <1>1 DEF Settle
  <2> QED
    BY <1>1, SeenEnds DEF Settle, HandOff
<1>2. ASSUME NEW l \in Line, AdoptDead(l), told' # told
      PROVE  told' = Told(l.proc) /\ UNCHANGED os /\ adopting /\ l \in todo /\ ~Adopted(l)
  BY <1>2, Shapes DEF AdoptDeadDoes
<1>3. ASSUME NEW l \in Line, AdoptDead(l), told' # told
      PROVE  os[l.proc] \in {"gone", "reused"}
  BY <1>2, <1>3 DEF Adopted, PidAlive, Grounded, TypeOK, Taken, Line
<1>4. \/ \E q \in Proc : Settle(q)
      \/ \E l \in Line : AdoptDead(l)
  BY Shapes DEF Next, Register, RegisterRefused, Exits, PidIsReused, RewriteDoes, AdoptLiveDoes, BootDoes, BootDiesDoes, Crash, vars
<1>5. told' # told
  OBVIOUS
<1>6. ASSUME NEW q \in Proc, Settle(q)
      PROVE  q = p /\ told'[p] = told[p] + 1
  BY <1>1, <1>5, <1>6 DEF Told, TypeOK
<1>7. ASSUME NEW l \in Line, AdoptDead(l)
      PROVE  l.proc = p /\ told'[p] = told[p] + 1
  BY <1>2, <1>5, <1>7 DEF Told, TypeOK, Line
<1>8. ASSUME NEW q \in Proc, Settle(q)
      PROVE  up /\ UNCHANGED os /\ os[p] \in {"gone", "reused"} /\ Settle(p) /\ Running(p)
  BY <1>1, <1>5, <1>6, <1>8
<1>9. ASSUME NEW l \in Line, AdoptDead(l)
      PROVE  up /\ UNCHANGED os /\ os[p] \in {"gone", "reused"} /\ l \in todo /\ l.proc = p
  BY <1>2, <1>3, <1>5, <1>7, <1>9 DEF Apart
<1> QED
  BY <1>4, <1>6, <1>7, <1>8, <1>9

(* Lines and tellings stay grounded. *)
LEMMA GroundedStep == TypeOK /\ Grounded /\ Apart /\ [Next]_vars => Grounded'
<1> SUFFICES ASSUME TypeOK, Grounded, Apart, [Next]_vars PROVE Grounded'
  OBVIOUS
<1>1. ASSUME NEW l \in (journal \cup todo)'
      PROVE  Taken(l.proc)' /\ (l.kind # "running" => os'[l.proc] # "alive")
  <2>1. CASE l \in journal \cup todo
    <3>1. l.proc \in Proc /\ Taken(l.proc) /\ (l.kind # "running" => os[l.proc] # "alive")
      BY <2>1 DEF Grounded, TypeOK, Line
    <3> QED
      BY <3>1, Ending DEF Taken
  <2>2. ASSUME NEW p \in Proc, Register(p), l = [proc |-> p, kind |-> "running"]
        PROVE  Taken(l.proc)' /\ l.kind = "running"
    BY <2>2 DEF Register, Taken, TypeOK
  <2>3. ASSUME NEW p \in Proc, os[p] \in {"gone", "reused"}, l.proc = p
        PROVE  Taken(l.proc)' /\ os'[l.proc] # "alive"
    BY <2>3, Ending DEF Taken
  <2> QED
    BY <2>1, <2>2, <2>3, LinesComeFrom
<1>2. ASSUME NEW p \in Proc, told'[p] > 0 PROVE os'[p] \in {"gone", "reused"}
  <2>1. CASE told'[p] # told[p]
    BY <2>1, WhoIsTold
  <2>2. CASE told'[p] = told[p]
    BY <1>2, <2>2, Ending DEF Grounded
  <2> QED
    BY <2>1, <2>2
<1>3. ASSUME NEW p \in handed' PROVE told'[p] > 0
  <2>1. TypeOK'
    BY TypeStep
  <2>2. p \in Proc /\ told[p] \in Nat /\ told'[p] \in Nat
    BY <2>1 DEF TypeOK
  <2>3. CASE p \in handed
    BY <2>2, <2>3, WhoIsTold DEF Grounded
  <2>4. CASE p \notin handed
    <3>1. PICK q \in Proc : Settle(q)
      BY <1>3, <2>4, Shapes DEF Next, Register, RegisterRefused, Exits, PidIsReused, RewriteDoes, AdoptLiveDoes, AdoptDeadDoes, BootDoes, BootDiesDoes, Crash, Dies, vars
    <3>2. q = p /\ told' = Told(q)
      BY <1>3, <2>4, <3>1 DEF Settle, HandOff, Dies
    <3> QED
      BY <2>2, <3>2 DEF Told, TypeOK
  <2> QED
    BY <2>3, <2>4
<1>4. ASSUME NEW p \in Proc, Running(p)' PROVE Taken(p)'
  <2>1. CASE Running(p)
    BY <2>1, Ending DEF Grounded
  <2>2. ASSUME NEW q \in Proc, Register(q), ~Running(p) PROVE Taken(p)'
    BY <1>4, <2>2, NoneAssumption DEF Register, Dies, Running, Taken, TypeOK
  <2>3. ASSUME NEW l \in Line, AdoptLive(l), ~Running(p) PROVE Taken(p)'
    <3>1. l.proc = p /\ l \in todo
      BY <1>4, <2>3, NoneAssumption, Shapes DEF AdoptLiveDoes, Dies, Running, TypeOK, Line
    <3> QED
      BY <3>1, Ending DEF Grounded
  <2>4. ASSUME NEW q \in Proc, Settle(q), ~Running(p) PROVE FALSE
    <3>1. q = p \/ entry'[p] \in {entry[p], None}
      BY <2>4 DEF Settle, Dies, TypeOK
    <3>2. q # p
      BY <2>4, SeenEnds DEF Settle
    <3> QED
      BY <1>4, <2>4, <3>1, <3>2, NoneAssumption DEF Running
  <2>5. CASE UNCHANGED entry
    BY <1>4, <2>1, <2>5 DEF Running
  <2>6. CASE entry' = [q \in Proc |-> None]
    BY <1>4, <2>6, NoneAssumption DEF Running
  <2>7. ASSUME NEW l \in Line, AdoptDead(l) PROVE UNCHANGED entry \/ entry' = [q \in Proc |-> None]
    BY <2>7, Shapes DEF AdoptDeadDoes, Dies
  <2> QED
    BY <2>1, <2>2, <2>3, <2>4, <2>5, <2>6, <2>7, Shapes
    DEF Next, RegisterRefused, Exits, PidIsReused, RewriteDoes, BootDoes, BootDiesDoes, Crash, Dies, vars
<1> QED
  BY <1>1, <1>2, <1>3, <1>4 DEF Grounded

-----------------------------------------------------------------------------
(* A command becomes listed as running when it is registered or adopted.   *)
LEMMA BecomesRunning ==
  ASSUME TypeOK, Grounded, [Next]_vars, NEW p \in Proc, Running(p)', ~Running(p)
  PROVE  (Register(p) /\ up) \/ \E l \in todo : l.proc = p /\ AdoptLive(l)
<1>1. ASSUME NEW q \in Proc, Register(q) PROVE q = p /\ up
  BY <1>1, NoneAssumption DEF Register, Dies, Running, TypeOK
<1>2. ASSUME NEW l \in Line, AdoptLive(l) PROVE l.proc = p /\ l \in todo
  BY <1>2, NoneAssumption, Shapes DEF AdoptLiveDoes, Dies, Running, TypeOK, Line
<1>3. ASSUME NEW q \in Proc, Settle(q) PROVE FALSE
  <2>1. \/ entry' = [entry EXCEPT ![q] = "settled"]
        \/ entry' = [r \in Proc |-> None]
    BY <1>3 DEF Settle, Dies
  <2> QED
    BY <2>1, NoneAssumption DEF Running, TypeOK
<1>4. entry' # entry /\ entry' # [r \in Proc |-> None]
  BY NoneAssumption DEF Running
<1> QED
  BY <1>1, <1>2, <1>3, <1>4, Shapes
  DEF Next, RegisterRefused, Exits, PidIsReused, RewriteDoes, AdoptDeadDoes, BootDoes, BootDiesDoes, Crash, Dies, vars

(* It ceases to be when it settles or the daemon dies. *)
LEMMA StaysRunning ==
  ASSUME TypeOK, [Next]_vars, NEW p \in Proc, Running(p), ~Running(p)'
  PROVE  ~up' \/ Settle(p)
<1>1. ASSUME NEW q \in Proc, Register(q) PROVE ~up'
  BY <1>1 DEF Register, Dies, Running, TypeOK
<1>2. ASSUME NEW l \in Line, AdoptLive(l) PROVE ~up'
  BY <1>2, NoneAssumption, Shapes DEF AdoptLiveDoes, Dies, Running, TypeOK, Line
<1>3. ASSUME NEW q \in Proc, Settle(q) PROVE ~up' \/ q = p
  BY <1>3 DEF Settle, Dies, Running, TypeOK
<1>4. entry' # entry
  BY DEF Running
<1> QED
  BY <1>1, <1>2, <1>3, <1>4, Shapes
  DEF Next, RegisterRefused, Exits, PidIsReused, RewriteDoes, AdoptDeadDoes, BootDoes, BootDiesDoes, Crash, Dies, vars

(* Lines are put up for adoption at boot only. *)
LEMMA ToBeAdopted ==
  ASSUME [Next]_vars
  PROVE  todo' \subseteq todo \/ Boot
  BY Shapes DEF Next, Register, RegisterRefused, Exits, PidIsReused, Settle, RewriteDoes, AdoptLiveDoes, AdoptDeadDoes, BootDiesDoes, Crash, Dies, vars

(* The daemon dies by a fault, and comes up by a boot. *)
LEMMA UpAndDown ==
  ASSUME TypeOK, [Next]_vars
  PROVE  /\ up /\ ~up' => Dies /\ UNCHANGED told
         /\ ~up /\ up' => Boot
         /\ faults' >= faults
<1>1. up /\ ~up' => Dies /\ UNCHANGED told
  <2> SUFFICES ASSUME up, ~up' PROVE Dies /\ UNCHANGED told
    OBVIOUS
  <2>1. ASSUME NEW p \in Proc, Register(p) PROVE Dies /\ UNCHANGED told
    BY <2>1 DEF Register
  <2>2. ASSUME NEW p \in Proc, Settle(p) PROVE Dies /\ UNCHANGED told
    BY <2>2 DEF Settle
  <2>3. ASSUME NEW l \in Line, AdoptDead(l) PROVE Dies /\ UNCHANGED told
    BY <2>3, Shapes DEF AdoptDeadDoes
  <2> QED
    BY <2>1, <2>2, <2>3, Shapes DEF Next, RegisterRefused, Exits, PidIsReused, RewriteDoes, AdoptLiveDoes, BootDoes, BootDiesDoes, Crash, vars
<1>2. ~up /\ up' => Boot
  BY Shapes DEF Next, Register, RegisterRefused, Exits, PidIsReused, Settle, RewriteDoes, AdoptLiveDoes, AdoptDeadDoes, BootDiesDoes, Crash, Dies, vars
<1>3. faults' = faults \/ Fault
  BY Shapes DEF Next, Register, RegisterRefused, Exits, PidIsReused, Settle, RewriteDoes, AdoptLiveDoes, AdoptDeadDoes, BootDoes, BootDiesDoes, Counts, Crash, Dies, vars
<1> QED
  BY <1>1, <1>2, <1>3 DEF Fault, TypeOK

(* A command stays due in one way at a time. *)
LEMMA ApartStep == TypeOK /\ Grounded /\ Apart /\ [Next]_vars => Apart'
<1> SUFFICES ASSUME TypeOK, Grounded, Apart, [Next]_vars PROVE Apart'
  OBVIOUS
<1>1. ASSUME ~up' PROVE todo' = {} /\ \A p \in Proc : ~Running(p)'
  <2>1. CASE up
    BY <1>1, <2>1, UpAndDown, NoneAssumption DEF Dies, Running
  <2>2. CASE ~up
    <3>1. todo' = {}
      BY <1>1, <2>2, ToBeAdopted, Shapes DEF Apart, BootDoes
    <3>2. ASSUME NEW p \in Proc, Running(p)' PROVE FALSE
      BY <2>2, <3>2, BecomesRunning DEF Apart
    <3> QED
      BY <3>1, <3>2
  <2> QED
    BY <2>1, <2>2
<1>2. ASSUME NEW l \in todo', NEW m \in todo', l.proc = m.proc PROVE l = m
  <2>1. CASE Boot
    <3>1. l \in journal /\ m \in journal /\ l.proc \in Proc
      BY <2>1, Shapes DEF BootDoes, Chosen, TypeOK, Line
    <3>2. PICK k \in todo' : todo' \cap LinesOf(l.proc) = {k}
      BY <2>1, <3>1, Shapes DEF BootDoes, Chosen, LinesOf
    <3> QED
      BY <1>2, <3>1, <3>2 DEF LinesOf
  <2> QED
    BY <1>2, <2>1, ToBeAdopted DEF Apart
<1>3. ASSUME NEW p \in Proc, Running(p)', NEW l \in todo', l.proc = p PROVE FALSE
  <2>1. CASE Boot
    BY <1>3, <2>1, BecomesRunning, Shapes DEF BootDoes, Apart, Running
  <2>2. CASE ~Boot /\ Running(p)
    BY <1>3, <2>2, ToBeAdopted DEF Apart, Listed
  <2>3. CASE ~Boot /\ ~Running(p)
    <3>1. l \in todo
      BY <1>3, <2>3, ToBeAdopted
    <3>2. ~Register(p)
      BY <1>3, <3>1 DEF Register, Grounded, Taken
    <3>3. PICK m \in todo : m.proc = p /\ AdoptLive(m)
      BY <1>3, <2>3, <3>2, BecomesRunning
    <3>4. m = l
      BY <1>3, <3>1, <3>3 DEF Apart
    <3> QED
      BY <1>3, <3>3, <3>4, Shapes DEF AdoptLiveDoes, Dies, TypeOK
  <2> QED
    BY <2>1, <2>2, <2>3
<1> QED
  BY <1>1, <1>2, <1>3 DEF Apart, Listed

(* What is or becomes due was told of once per fault at most. *)
LEMMA SpareStep == TypeOK /\ Grounded /\ Apart /\ Spare /\ [Next]_vars => Spare'
<1> SUFFICES ASSUME TypeOK, Grounded, Apart, Spare, [Next]_vars PROVE Spare'
  OBVIOUS
<1>1. faults \in Nat /\ faults' \in Nat /\ faults' >= faults
  BY TypeStep, UpAndDown, BoundAssumption DEF TypeOK
<1>2. ASSUME NEW p \in Proc PROVE told[p] \in Nat
  BY DEF TypeOK
<1>3. ASSUME NEW p \in Proc, told'[p] # told[p]
      PROVE  told'[p] = told[p] + 1 /\ told[p] <= faults
  BY <1>3, WhoIsTold DEF Spare, Listed
<1>4. ASSUME NEW p \in Proc PROVE told'[p] <= 1 + faults'
  BY <1>1, <1>2, <1>3 DEF Spare
<1>5. ASSUME NEW p \in Proc, ~up' PROVE told'[p] <= faults'
  <2>1. CASE up
    <3>1. told' = told /\ faults' = faults + 1
      BY <1>5, <2>1, UpAndDown DEF Dies, Fault
    <3> QED
      BY <1>1, <1>2, <3>1 DEF Spare
  <2>2. CASE ~up
    <3>1. told'[p] = told[p]
      BY <2>2, WhoIsTold
    <3> QED
      BY <1>1, <1>2, <2>2, <3>1 DEF Spare
  <2> QED
    BY <2>1, <2>2
<1>6. ASSUME NEW p \in Proc, Running(p)', up' PROVE told'[p] <= faults'
  <2>1. CASE Running(p)
    <3>1. told'[p] = told[p]
      <4> SUFFICES ASSUME told'[p] # told[p] PROVE FALSE
        OBVIOUS
      <4>1. Settle(p)
        BY <2>1, WhoIsTold DEF Apart, Listed
      <4>2. entry' = [entry EXCEPT ![p] = "settled"]
        BY <1>6, <4>1 DEF Settle, Dies
      <4> QED
        BY <1>6, <4>2 DEF Running, TypeOK
    <3> QED
      BY <1>1, <1>2, <2>1, <3>1 DEF Spare
  <2>2. CASE ~Running(p) /\ Register(p)
    <3>1. told[p] = 0 /\ told' = told
      BY <1>2, <2>2 DEF Register, Grounded
    <3> QED
      BY <1>1, <3>1
  <2>3. CASE ~Running(p) /\ \E l \in todo : l.proc = p /\ AdoptLive(l)
    <3>1. told' = told /\ Listed(p)
      BY <2>3, Shapes DEF AdoptLiveDoes, Listed, TypeOK
    <3> QED
      BY <1>1, <1>2, <3>1 DEF Spare
  <2> QED
    BY <1>6, <2>1, <2>2, <2>3, BecomesRunning
<1>7. ASSUME NEW p \in Proc, Listed(p)', up' PROVE told'[p] <= faults'
  <2>1. CASE Boot
    BY <1>1, <1>2, <2>1, Shapes DEF BootDoes, Spare
  <2>2. CASE ~Boot
    <3>1. PICK l \in todo' : l.proc = p /\ l \in todo
      BY <1>7, <2>2, ToBeAdopted DEF Listed
    <3>2. told'[p] = told[p]
      <4> SUFFICES ASSUME told'[p] # told[p] PROVE FALSE
        OBVIOUS
      <4>1. PICK m \in todo : m.proc = p /\ AdoptDead(m)
        BY <3>1, WhoIsTold DEF Apart, Listed
      <4>2. m = l
        BY <3>1, <4>1 DEF Apart
      <4> QED
        BY <3>1, <4>1, <4>2, Shapes DEF AdoptDeadDoes, Dies, TypeOK
    <3> QED
      BY <1>1, <1>2, <3>1, <3>2 DEF Spare, Listed
  <2> QED
    BY <2>1, <2>2
<1> QED
  BY <1>4, <1>5, <1>6, <1>7 DEF Spare

(* No command leaves the journal unless its session is told, or it is      *)
(* exposed.                                                                *)
LEMMA LineStep ==
  ASSUME TypeOK, Grounded, Apart, Remembered, [Next]_vars,
         NEW p \in Proc, p \notin exposed', Taken(p)', told'[p] = 0
  PROVE  LinesOf(p)' # {}
<1> SUFFICES \E l \in journal' : l.proc = p
  BY DEF LinesOf
<1>1. told[p] = 0 /\ p \notin exposed
  <2>1. exposed \subseteq exposed'
    BY Shapes DEF Next, Register, RegisterRefused, Exits, PidIsReused, Settle, RewriteDoes, AdoptLiveDoes, AdoptDeadDoes, BootDoes, BootDiesDoes, Crash, Dies, vars
  <2>2. told[p] = 0
    BY WhoIsTold DEF TypeOK
  <2> QED
    BY <2>1, <2>2
<1>2. CASE ~Taken(p)
  <2>1. ASSUME NEW q \in Proc, Register(q) PROVE \E l \in journal' : l.proc = p
    <3>1. q = p
      BY <1>2, <2>1 DEF Register, Taken, TypeOK
    <3>2. journal' = journal \cup {[proc |-> p, kind |-> "running"]}
      BY <2>1, <3>1 DEF Register
    <3>3. [proc |-> p, kind |-> "running"] \in journal'
      BY <3>2
    <3> QED
      BY <3>3
  <2>2. ASSUME NEW q \in Proc, RegisterRefused(q) \/ Exits(q) \/ PidIsReused(q) PROVE FALSE
    BY <1>2, <2>2 DEF RegisterRefused, Exits, PidIsReused, PidAlive, Taken, TypeOK
  <2>3. os' # os
    BY <1>2 DEF Taken
  <2> QED
    BY <2>1, <2>2, <2>3, Shapes DEF Next, Settle, RewriteDoes, AdoptLiveDoes, AdoptDeadDoes, BootDoes, BootDiesDoes, Crash, vars
<1>3. CASE Taken(p)
  <2> USE DEF Kept
  <2> PICK l \in journal : l.proc = p
    BY <1>1, <1>3 DEF Remembered, LinesOf
  <2> DEFINE Has == \E k \in journal' : k.proc = p
  <2>1. ASSUME NEW q \in Proc, Rewrite(q) PROVE Has
    <3>1. q # p
      BY <1>1, <2>1, Shapes DEF RewriteDoes, Grounded
    <3> QED
      BY <2>1, <3>1, Shapes DEF RewriteDoes
  <2>2. ASSUME NEW m \in Line, AdoptLive(m) PROVE Has
    BY <2>2, Shapes DEF AdoptLiveDoes
  <2>3. ASSUME NEW m \in Line, AdoptDead(m) PROVE Has
    <3>1. told' # Told(p)
      BY <1>1 DEF Told, TypeOK
    <3>2. Kept(l) \/ (l = m /\ told' = Told(m.proc))
      BY <2>3, Shapes DEF AdoptDeadDoes
    <3> QED
      BY <3>1, <3>2
  <2>4. CASE Boot
    <3>1. PICK k \in todo' : todo' \cap LinesOf(p) = {k}
      BY <2>4, Shapes DEF BootDoes, Chosen, LinesOf
    <3>2. k.proc = p
      BY <3>1 DEF LinesOf
    <3> QED
      BY <2>4, <3>1, <3>2, Shapes DEF BootDoes
  <2>6. CASE BootDies
    <3>1. PICK c \in Chosen : \A m \in c : Kept(m)
      BY <2>6, Shapes DEF BootDiesDoes
    <3>2. PICK k \in c : c \cap LinesOf(p) = {k}
      BY DEF Chosen, LinesOf
    <3>3. k.proc = p
      BY <3>2 DEF LinesOf
    <3> QED
      BY <3>1, <3>2, <3>3
  <2>5. ASSUME NEW q \in Proc, Register(q) \/ Settle(q) PROVE Has
    BY <2>5 DEF Register, Settle, HandOff, Dies
  <2> QED
    BY <2>1, <2>2, <2>3, <2>4, <2>5, <2>6 DEF Next, RegisterRefused, Exits, PidIsReused, Crash, Dies, vars
<1> QED
  BY <1>2, <1>3

(* A live command is listed, or about to be adopted, while the daemon is   *)
(* up, unless it is exposed.                                               *)
LEMMA ListStep ==
  ASSUME TypeOK, Grounded, Apart, Remembered, [Next]_vars,
         NEW p \in Proc, p \notin exposed', up', os'[p] = "alive"
  PROVE  Running(p)' \/ Listed(p)'
<1>1. p \notin exposed
  BY Shapes DEF Next, Register, RegisterRefused, Exits, PidIsReused, Settle, RewriteDoes, AdoptLiveDoes, AdoptDeadDoes, BootDoes, BootDiesDoes, Crash, Dies, vars
<1>2. CASE os[p] # "alive"
  <2>1. Register(p)
    BY <1>2, Ending
  <2> QED
    BY <2>1 DEF Register, Dies, Running, TypeOK
<1>3. CASE os[p] = "alive" /\ ~up
  <2>1. Boot
    BY <1>3, UpAndDown
  <2>2. told[p] = 0 /\ Taken(p)
    BY <1>3 DEF Grounded, Taken, TypeOK
  <2>3. LinesOf(p) # {}
    BY <1>1, <2>2 DEF Remembered
  <2>4. PICK k \in todo' : todo' \cap LinesOf(p) = {k}
    BY <2>1, <2>3, Shapes DEF BootDoes, Chosen
  <2> QED
    BY <2>4 DEF LinesOf, Listed
<1>4. CASE os[p] = "alive" /\ up /\ Running(p)
  <2>1. ~Settle(p)
    BY <1>4, SeenEnds DEF Settle
  <2> QED
    BY <1>4, <2>1, StaysRunning
<1>5. CASE os[p] = "alive" /\ up /\ Listed(p)
  <2> PICK l \in todo : l.proc = p
    BY <1>5 DEF Listed
  <2>1. ASSUME AdoptLive(l) PROVE Running(p)'
    BY <2>1, Shapes DEF AdoptLiveDoes, Dies, Running, TypeOK
  <2>2. ASSUME AdoptDead(l) PROVE FALSE
    BY <1>5, <2>2, Shapes DEF AdoptDeadDoes, Adopted, PidAlive, Grounded, TypeOK
  <2>3. ASSUME NEW m \in Line, AdoptLive(m), m # l PROVE l \in todo'
    BY <2>3, Shapes DEF AdoptLiveDoes, Dies
  <2>4. ASSUME NEW m \in Line, AdoptDead(m), m # l PROVE l \in todo'
    BY <2>4, Shapes DEF AdoptDeadDoes, Dies
  <2>5. ASSUME NEW q \in Proc, Register(q) \/ RegisterRefused(q) \/ Exits(q) \/ PidIsReused(q) \/ Settle(q) \/ Rewrite(q)
        PROVE  l \in todo'
    BY <2>5, Shapes DEF Register, RegisterRefused, Exits, PidIsReused, Settle, RewriteDoes, Dies
  <2>6. ASSUME Boot \/ BootDies \/ Crash PROVE FALSE
    BY <1>5, <2>6, Shapes DEF BootDoes, BootDiesDoes, Crash, Dies
  <2>7. ASSUME UNCHANGED vars PROVE l \in todo'
    BY <2>7 DEF vars
  <2>8. ASSUME NEW m \in Line, AdoptLive(m) \/ AdoptDead(m) PROVE Running(p)' \/ l \in todo'
    BY <2>1, <2>2, <2>3, <2>4, <2>8
  <2>9. Running(p)' \/ l \in todo'
    BY <2>5, <2>6, <2>7, <2>8 DEF Next
  <2> QED
    BY <2>9 DEF Listed
<1> QED
  BY <1>1, <1>2, <1>3, <1>4, <1>5 DEF Remembered

(* Every step keeps the invariant. *)
LEMMA NextIInv == IInv /\ [Next]_vars => IInv'
<1> SUFFICES ASSUME IInv, [Next]_vars PROVE IInv'
  OBVIOUS
<1>1. Remembered'
  BY LineStep, ListStep DEF IInv, Remembered
<1> QED
  BY <1>1, TypeStep, GroundedStep, ApartStep, SpareStep DEF IInv

(* The invariant holds throughout. *)
LEMMA AlwaysIInv == Spec => []IInv
  BY InitIInv, NextIInv, PTL DEF Spec

(* The registry's state, the journal and the ghosts keep their types.      *)
THEOREM RegistryIsTyped == Spec => []TypeOK
<1>1. IInv => TypeOK
  BY DEF IInv
<1> QED
  BY <1>1, AlwaysIInv, PTL

(* No command is forgotten by the registry and its journal, for any number *)
(* of commands, crashes, refusals and failed writes, unless it is exposed: *)
(* it got no line, its line was dropped a moment before a crash, or a      *)
(* rewrite for another command's sake lost it.                             *)
THEOREM NothingIsForgotten == Spec => []NoneIsForgotten
<1>1. IInv => NoneIsForgotten
  BY DEF IInv, Remembered, NoneIsForgotten, Listed
<1> QED
  BY <1>1, AlwaysIInv, PTL

(* Every further notice of the same command is paid for by a crash or a    *)
(* failed write, however many commands there are.                          *)
THEOREM RepeatsArePaidFor == Spec => []TwiceOnlyAfterFault
<1>1. IInv => TwiceOnlyAfterFault
  BY DEF IInv, Spare, TwiceOnlyAfterFault
<1> QED
  BY <1>1, AlwaysIInv, PTL
=============================================================================
