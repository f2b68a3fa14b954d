--------------------------- MODULE CronTickProofs ---------------------------
(* Proofs about CronTick, for every set of crons, every number of sweeps   *)
(* and every bound on the points in time.                                  *)
EXTENDS CronTick, FiniteSetTheorems, SequenceTheorems, WellFoundedInduction, TLAPS

(* A non-empty set of numbers has a least one: NextOf names a position.    *)
LEMMA LeastElement ==
  ASSUME NEW S \in SUBSET Nat, S # {}
  PROVE  \E i \in S : \A j \in S : i <= j
<1> DEFINE R == {ss \in Nat \X Nat : ss[1] < ss[2]}
<1>1. IsWellFoundedOn(R, Nat)
  BY NatLessThanWellFounded DEF OpToRel
<1>2. \E i \in S : \A j \in S : <<j, i>> \notin R
  <2> HIDE DEF R
  <2> QED BY <1>1, WFMin
<1>3. ASSUME NEW i \in S, NEW j \in S, <<j, i>> \notin R
      PROVE  i <= j
  BY <1>3
<1> QED BY <1>2, <1>3

(* The position NextOf finds is one of the list, and its cron is free.     *)
LEMMA NextIsFree ==
  ASSUME NEW list \in Seq(Cron), NEW busy
  PROVE  /\ NextOf(list, busy) \in Nat
         /\ NextOf(list, busy) > 0 =>
              /\ NextOf(list, busy) \in 1 .. Len(list)
              /\ list[NextOf(list, busy)] \in Cron \ busy
<1> DEFINE free == {i \in DOMAIN list : FreeToFire(list[i], busy)}
<1>1. CASE free = {}
  BY <1>1 DEF NextOf
<1>2. CASE free # {}
  <2>1. free \in SUBSET Nat
    OBVIOUS
  <2>2. \E i \in free : \A j \in free : i <= j
    <3> HIDE DEF free
    <3> QED BY <1>2, <2>1, LeastElement
  <2>3. NextOf(list, busy) \in free
    BY <1>2, <2>2 DEF NextOf
  <2> QED BY <2>3 DEF FreeToFire
<1> QED BY <1>1, <1>2

(* What is left of a list is a list.                                       *)
LEMMA RestIsList ==
  ASSUME NEW list \in Seq(Cron), NEW i \in Nat
  PROVE  SubSeq(list, i + 1, Len(list)) \in Seq(Cron)
<1>1. \A k \in i + 1 .. Len(list) : list[k] \in Cron
  OBVIOUS
<1> QED BY <1>1, SubSeqProperties

LEMMA OrdersAreLists ==
  ASSUME NEW D \in SUBSET Cron, NEW list \in Orders(D)
  PROVE  list \in Seq(Cron)
<1>1. Cardinality(D) \in Nat
  BY CronTickAssumption, FS_Subset, FS_CardinalityType
<1>2. list \in [1 .. Cardinality(D) -> Cron]
  BY DEF Orders
<1> QED BY <1>1, <1>2

-----------------------------------------------------------------------------
(* The crons of a list; no cron is in a list twice.                        *)
Among(c, list) == \E i \in DOMAIN list : list[i] = c

Distinct(list) == \A i, j \in DOMAIN list : list[i] = list[j] => i = j

LEMMA OrdersAreDistinct ==
  ASSUME NEW D \in SUBSET Cron, NEW list \in Orders(D)
  PROVE  Distinct(list) /\ \A c : Among(c, list) <=> c \in D
<1>1. IsFiniteSet(D)
  BY CronTickAssumption, FS_Subset
<1>2. Cardinality(D) \in Nat
  BY <1>1, FS_CardinalityType
<1>3. list \in [1 .. Cardinality(D) -> D] /\ {list[i] : i \in DOMAIN list} = D
  BY DEF Orders
<1>4. list \in Surjection(1 .. Cardinality(D), D)
  BY <1>3 DEF Surjection
<1>5. IsFiniteSet(1 .. Cardinality(D)) /\ Cardinality(1 .. Cardinality(D)) = Cardinality(D)
  BY <1>2, FS_Interval
<1>6. list \in Injection(1 .. Cardinality(D), D)
  BY <1>1, <1>4, <1>5, FS_SurjSameCardinalityImpliesInj
<1>7. Distinct(list)
  BY <1>3, <1>6 DEF Distinct, Injection, IsInjective
<1>8. ASSUME NEW c PROVE Among(c, list) <=> c \in D
  BY <1>3 DEF Among
<1> QED BY <1>7, <1>8

(* What one pass of sweep s through the rest of its list may do, stated    *)
(* once for the sweep that starts and for the one that goes on.            *)
Fires(s, list, busy, c, rest) ==
  /\ daemon = "up"
  /\ sweep' = [sweep EXCEPT ![s] = [at |-> c, todo |-> rest]]
  /\ inFlight' = busy \cup {c}
  /\ fired' = [fired EXCEPT ![c] = @ + 1]
  /\ Among(c, list)
  /\ \A d : Among(d, rest) => Among(d, list)
  /\ Distinct(list) => Distinct(rest) /\ ~ Among(c, rest)

Returns(s, busy) ==
  /\ sweep' = [sweep EXCEPT ![s] = None]
  /\ inFlight' = busy
  /\ fired' = fired

Passes(s, list, busy) ==
  \/ \E c \in Cron \ busy, rest \in Seq(Cron) : Fires(s, list, busy, c, rest)
  \/ Returns(s, busy)

(* What is left of a list after its i-th cron.                             *)
LEMMA RestOfList ==
  ASSUME NEW list \in Seq(Cron), NEW i \in 1 .. Len(list)
  PROVE  LET rest == SubSeq(list, i + 1, Len(list)) IN
         /\ \A d : Among(d, rest) => Among(d, list)
         /\ Distinct(list) => Distinct(rest) /\ ~ Among(list[i], rest)
<1> DEFINE rest == SubSeq(list, i + 1, Len(list))
<1>1. \A k \in i + 1 .. Len(list) : list[k] \in Cron
  OBVIOUS
<1>2. /\ rest \in Seq(Cron)
      /\ Len(rest) = IF i + 1 <= Len(list) THEN Len(list) - (i + 1) + 1 ELSE 0
      /\ \A k \in 1 .. Len(list) - (i + 1) + 1 : rest[k] = list[i + 1 + k - 1]
  BY <1>1, SubSeqProperties
<1>3. \A k \in DOMAIN rest : k \in Nat /\ i + k \in DOMAIN list /\ rest[k] = list[i + k]
  <2> HIDE DEF rest
  <2> QED BY <1>2
<1> HIDE DEF rest
<1>4. \A d : Among(d, rest) => Among(d, list)
  BY <1>3 DEF Among
<1>5. ASSUME Distinct(list) PROVE Distinct(rest)
  BY <1>3, <1>5 DEF Distinct
<1>6. ASSUME Distinct(list) PROVE ~ Among(list[i], rest)
  BY <1>3, <1>6 DEF Distinct, Among
<1> QED BY <1>4, <1>5, <1>6 DEF rest

LEMMA ProceedsPasses ==
  ASSUME NEW s, NEW list \in Seq(Cron), NEW busy, Proceeds(s, list, busy)
  PROVE  Passes(s, list, busy)
<1> DEFINE i == NextOf(list, busy)
           rest == SubSeq(list, i + 1, Len(list))
<1>1. CASE GoesOn /\ i > 0
  <2>1. list[i] \in Cron \ busy /\ i \in 1 .. Len(list)
    BY <1>1, NextIsFree
  <2>2. rest \in Seq(Cron)
    BY <2>1, RestIsList
  <2>3. /\ \A d : Among(d, rest) => Among(d, list)
        /\ Distinct(list) => Distinct(rest) /\ ~ Among(list[i], rest)
    <3> HIDE DEF i
    <3> QED BY <2>1, RestOfList
  <2>4. /\ sweep' = [sweep EXCEPT ![s] = [at |-> list[i], todo |-> rest]]
        /\ inFlight' = busy \cup {list[i]}
        /\ fired' = [fired EXCEPT ![list[i]] = @ + 1]
    BY <1>1 DEF Proceeds
  <2>5. daemon = "up"
    BY <1>1 DEF GoesOn
  <2>6. Among(list[i], list)
    BY <2>1 DEF Among
  <2> HIDE DEF i, rest
  <2>7. Fires(s, list, busy, list[i], rest)
    BY <2>3, <2>4, <2>5, <2>6 DEF Fires
  <2> QED BY <2>1, <2>2, <2>7 DEF Passes
<1>2. CASE ~(GoesOn /\ i > 0)
  BY <1>2 DEF Proceeds, Passes, Returns
<1> QED BY <1>1, <1>2

-----------------------------------------------------------------------------
LEMMA PatchedIsRow ==
  ASSUME NEW r \in Row, NEW kind \in Kind \cup {None}, NEW enabled \in BOOLEAN \cup {None}
  PROVE  Patched(r, kind, enabled) \in Row
BY DEF Patched, Row, Kind

LEMMA ClaimedIsRow ==
  ASSUME NEW r \in Row
  PROVE  Claimed(r) \in Row
BY DEF Claimed, Row

LEMMA PointsAreNumbers ==
  ASSUME NEW rows, TypeOK, Reached(rows)
  PROVE  points' \in [Cron -> Nat]
BY DEF Reached, TypeOK

(* The table keeps its type whatever is created, edited, removed or due.   *)
LEMMA EditsKeepType ==
  ASSUME TypeOK, Edits
  PROVE  TypeOK'
<1>1. ASSUME NEW rows \in [Cron -> Row \cup {None, Gone}], Writes(rows)
      PROVE  TypeOK'
  <2>1. points' \in [Cron -> Nat]
    BY <1>1, PointsAreNumbers DEF Writes
  <2> QED BY <1>1, <2>1 DEF Writes, TypeOK
<1> SUFFICES ASSUME NEW c \in Cron,
                    \/ \E kind \in Kind : Create(c, kind)
                    \/ \E kind \in Kind \cup {None}, enabled \in BOOLEAN \cup {None} :
                         Update(c, kind, enabled)
                    \/ Remove(c)
                    \/ Elapse(c)
             PROVE  TypeOK'
  BY DEF Edits
<1>2. CASE \E kind \in Kind : Create(c, kind)
  <2>1. PICK kind \in Kind : Create(c, kind)
    BY <1>2
  <2>2. [kind |-> kind, enabled |-> TRUE, past |-> FALSE] \in Row
    BY DEF Row
  <2> QED BY <1>1, <2>1, <2>2 DEF Create, TypeOK
<1>3. CASE \E kind \in Kind \cup {None}, enabled \in BOOLEAN \cup {None} : Update(c, kind, enabled)
  <2>1. PICK kind \in Kind \cup {None}, enabled \in BOOLEAN \cup {None} : Update(c, kind, enabled)
    BY <1>3
  <2>2. row[c] \in Row
    BY <2>1 DEF Update, Exists, TypeOK
  <2>3. Patched(row[c], kind, enabled) \in Row
    BY <2>2, PatchedIsRow
  <2> QED BY <1>1, <2>1, <2>3 DEF Update, TypeOK
<1>4. CASE Remove(c)
  BY <1>1, <1>4 DEF Remove, TypeOK
<1>5. CASE Elapse(c)
  <2>1. row[c] \in Row
    BY <1>5 DEF Elapse, Exists, TypeOK
  <2>2. [row[c] EXCEPT !.past = TRUE] \in Row
    BY <2>1 DEF Row
  <2> QED BY <1>1, <1>5, <2>2 DEF Elapse, TypeOK
<1> QED BY <1>2, <1>3, <1>4, <1>5

LEMMA PassesKeepType ==
  ASSUME TypeOK, NEW s \in Sweep, NEW list, NEW busy \in SUBSET Cron, Passes(s, list, busy)
  PROVE  /\ sweep' \in [Sweep -> Waiting \cup {None}]
         /\ inFlight' \subseteq Cron
         /\ fired' \in [Cron -> Nat]
<1>1. ASSUME NEW c \in Cron \ busy, NEW rest \in Seq(Cron), Fires(s, list, busy, c, rest)
      PROVE  /\ sweep' \in [Sweep -> Waiting \cup {None}]
             /\ inFlight' \subseteq Cron
             /\ fired' \in [Cron -> Nat]
  <2>1. [at |-> c, todo |-> rest] \in Waiting
    BY DEF Waiting
  <2>2. sweep' \in [Sweep -> Waiting \cup {None}]
    BY <1>1, <2>1 DEF Fires, TypeOK
  <2>3. fired[c] + 1 \in Nat
    BY DEF TypeOK
  <2>4. fired' \in [Cron -> Nat]
    BY <1>1, <2>3 DEF Fires, TypeOK
  <2> QED BY <1>1, <2>2, <2>4 DEF Fires
<1>2. CASE Returns(s, busy)
  BY <1>2 DEF Returns, TypeOK
<1> QED BY <1>1, <1>2 DEF Passes

(* A sweep of the tick passes through the list it claimed.                 *)
LEMMA TickPasses ==
  ASSUME NEW s, Tick(s)
  PROVE  \E list \in Seq(Cron) :
           /\ Distinct(list) /\ \A c : Among(c, list) <=> c \in DueSet
           /\ Passes(s, list, inFlight)
<1>1. PICK list \in Orders(DueSet) : Proceeds(s, list, inFlight)
  BY DEF Tick
<1>2. DueSet \in SUBSET Cron
  BY DEF DueSet
<1>3. list \in Seq(Cron)
  BY <1>2, OrdersAreLists
<1>4. Distinct(list) /\ \A c : Among(c, list) <=> c \in DueSet
  BY <1>2, OrdersAreDistinct
<1> QED BY <1>1, <1>3, <1>4, ProceedsPasses

(* The end of a run frees its slot before its sweep passes on.             *)
LEMMA SettlesPasses ==
  ASSUME TypeOK, NEW s \in Sweep, NEW ok, Settles(s, ok)
  PROVE  /\ sweep[s].todo \in Seq(Cron)
         /\ Passes(s, sweep[s].todo, inFlight \ {sweep[s].at})
<1>1. sweep[s] \in Waiting
  BY DEF Settles, TypeOK
<1>2. sweep[s].todo \in Seq(Cron)
  BY <1>1 DEF Waiting
<1> QED BY <1>2, ProceedsPasses DEF Settles, Freed

LEMMA TypeIsInvariant == Spec => []TypeOK
<1>1. Init => TypeOK
  BY DEF Init, TypeOK
<1>2. TypeOK /\ [Next]_vars => TypeOK'
  <2> SUFFICES ASSUME TypeOK, [Next]_vars PROVE TypeOK'
    OBVIOUS
  <2>1. CASE Edits
    BY <2>1, EditsKeepType
  <2>2. CASE Ticks
    <3>1. PICK s \in Sweep : Tick(s)
      BY <2>2 DEF Ticks
    <3>2. PICK list \in Seq(Cron) : Passes(s, list, inFlight)
      BY <3>1, TickPasses
    <3>3. row' \in [Cron -> Row \cup {None, Gone}]
      <4>1. \A c \in DueSet : Claimed(row[c]) \in Row
        BY ClaimedIsRow DEF DueSet, Due, TypeOK
      <4> QED BY <3>1, <4>1 DEF Tick, TypeOK
    <3>4. points' \in [Cron -> Nat]
      BY <3>1, PointsAreNumbers DEF Tick
    <3>5. inFlight \in SUBSET Cron
      BY DEF TypeOK
    <3>6. /\ sweep' \in [Sweep -> Waiting \cup {None}]
          /\ inFlight' \subseteq Cron
          /\ fired' \in [Cron -> Nat]
      BY <3>2, <3>5, PassesKeepType
    <3>7. UNCHANGED <<daemon, awaited>>
      BY <3>1 DEF Tick
    <3> QED BY <3>3, <3>4, <3>6, <3>7 DEF TypeOK
  <2>3. CASE Outcomes
    <3>1. PICK s \in Sweep, ok \in BOOLEAN : Settles(s, ok)
      BY <2>3 DEF Outcomes
    <3>2. Passes(s, sweep[s].todo, inFlight \ {sweep[s].at})
      BY <3>1, SettlesPasses
    <3>3. inFlight \ {sweep[s].at} \in SUBSET Cron
      BY DEF TypeOK
    <3>4. /\ sweep' \in [Sweep -> Waiting \cup {None}]
          /\ inFlight' \subseteq Cron
          /\ fired' \in [Cron -> Nat]
      BY <3>2, <3>3, PassesKeepType
    <3> QED BY <3>1, <3>4 DEF Settles, TypeOK
  <2>4. CASE Stops
    BY <2>4 DEF Stops, Stop, StopReturns, Restart, TypeOK
  <2>5. CASE UNCHANGED vars
    BY <2>5 DEF vars, TypeOK
  <2> QED BY <2>1, <2>2, <2>3, <2>4, <2>5 DEF Next
<1> QED BY <1>1, <1>2, PTL DEF Spec

-----------------------------------------------------------------------------
(* One pass of a sweep keeps the runs apart, if the slots it starts from   *)
(* are those of the other sweeps.                                          *)
LEMMA PassesKeepApart ==
  ASSUME TypeOK, OneRunPerCron, NEW s \in Sweep, NEW list, NEW busy \in SUBSET Cron,
         busy = {sweep[t].at : t \in {u \in Sweep : u # s /\ sweep[u] # None}},
         Passes(s, list, busy)
  PROVE  OneRunPerCron'
<1> DEFINE others == {u \in Sweep : u # s /\ sweep[u] # None}
<1>1. \A t \in Sweep : t # s => sweep'[t] = sweep[t]
  BY DEF Passes, Fires, Returns, TypeOK
<1>2. {sweep'[t].at : t \in others} = busy
  BY <1>1
<1>3. CASE Returns(s, busy)
  <2>1. sweep'[s] = None /\ inFlight' = busy
    BY <1>3 DEF Returns, TypeOK
  <2>2. {t \in Sweep : sweep'[t] # None} = others
    BY <1>1, <2>1
  <2>3. inFlight' = {sweep'[t].at : t \in {u \in Sweep : sweep'[u] # None}}
    BY <1>2, <2>1, <2>2
  <2> QED BY <1>1, <2>1, <2>3 DEF OneRunPerCron
<1>4. ASSUME NEW c \in Cron \ busy, NEW rest \in Seq(Cron), Fires(s, list, busy, c, rest)
      PROVE  OneRunPerCron'
  <2>1. sweep'[s] = [at |-> c, todo |-> rest] /\ inFlight' = busy \cup {c}
    BY <1>4 DEF Fires, TypeOK
  <2>2. [at |-> c, todo |-> rest] \in Waiting
    BY DEF Waiting
  <2>3. sweep'[s] # None /\ sweep'[s].at = c
    BY <2>1, <2>2, CronTickAssumption
  <2>4. {t \in Sweep : sweep'[t] # None} = others \cup {s}
    BY <1>1, <2>3
  <2>5. inFlight' = {sweep'[t].at : t \in {u \in Sweep : sweep'[u] # None}}
    BY <1>2, <2>1, <2>3, <2>4
  <2>6. \A t \in Sweep : t # s /\ sweep[t] # None => sweep[t].at \in busy
    OBVIOUS
  <2>7. ASSUME NEW t \in Sweep, NEW u \in Sweep, t # u, sweep'[t] # None, sweep'[u] # None
        PROVE  sweep'[t].at # sweep'[u].at
    <3>1. CASE t = s
      BY <1>1, <2>3, <2>6, <2>7, <3>1
    <3>2. CASE u = s
      BY <1>1, <2>3, <2>6, <2>7, <3>2
    <3>3. CASE t # s /\ u # s
      BY <1>1, <2>7, <3>3 DEF OneRunPerCron
    <3> QED BY <3>1, <3>2, <3>3
  <2> QED BY <2>5, <2>7 DEF OneRunPerCron
<1> QED BY <1>3, <1>4 DEF Passes

(* However sweeps overlap, no cron runs twice at once, and the in-flight   *)
(* set of scheduler-tick.ts holds just the crons whose runs are awaited:   *)
(* no slot is lost or left behind.                                         *)
THEOREM NeverTwiceAtOnce == Spec => []OneRunPerCron
<1>1. Init => OneRunPerCron
  BY DEF Init, OneRunPerCron
<1>2. TypeOK /\ OneRunPerCron /\ [Next]_vars => OneRunPerCron'
  <2> SUFFICES ASSUME TypeOK, OneRunPerCron, [Next]_vars PROVE OneRunPerCron'
    OBVIOUS
  <2>1. CASE Edits \/ UNCHANGED vars
    BY <2>1 DEF Edits, Create, Update, Remove, Elapse, Writes, vars, OneRunPerCron
  <2>2. CASE Ticks
    <3>1. PICK s \in Sweep : Tick(s)
      BY <2>2 DEF Ticks
    <3>2. inFlight = {sweep[t].at : t \in {u \in Sweep : u # s /\ sweep[u] # None}}
      BY <3>1 DEF Tick, OneRunPerCron
    <3>3. inFlight \in SUBSET Cron
      BY DEF TypeOK
    <3> QED BY <3>1, <3>2, <3>3, TickPasses, PassesKeepApart
  <2>3. CASE Outcomes
    <3>1. PICK s \in Sweep, ok \in BOOLEAN : Settles(s, ok)
      BY <2>3 DEF Outcomes
    <3>2. inFlight \ {sweep[s].at} = {sweep[t].at : t \in {u \in Sweep : u # s /\ sweep[u] # None}}
      BY <3>1 DEF Settles, OneRunPerCron
    <3>3. inFlight \ {sweep[s].at} \in SUBSET Cron
      BY DEF TypeOK
    <3> QED BY <3>1, <3>2, <3>3, SettlesPasses, PassesKeepApart
  <2>4. CASE Stop \/ StopReturns
    BY <2>4 DEF Stop, StopReturns, OneRunPerCron
  <2>5. CASE Restart
    BY <2>5 DEF Restart, OneRunPerCron
  <2> QED BY <2>1, <2>2, <2>3, <2>4, <2>5 DEF Next, Stops
<1> QED BY <1>1, <1>2, TypeIsInvariant, PTL DEF Spec

-----------------------------------------------------------------------------
(* While stop() waits, whoever still waits for a run is waited for.        *)
StopWaits ==
  /\ daemon = "stopping" => \A s \in Sweep : sweep[s] # None => s \in awaited
  /\ daemon = "down" => \A s \in Sweep : sweep[s] = None

(* stop() promises a daemon that starts nothing any more: the sweeps it    *)
(* interrupted do not go on with their lists.                              *)
THEOREM StoppedStartsNothing == Spec => []StoppedIsQuiet
<1>1. Init => StopWaits
  BY DEF Init, StopWaits
<1>2. TypeOK /\ StopWaits /\ [Next]_vars => StopWaits'
  <2> SUFFICES ASSUME TypeOK, StopWaits, [Next]_vars PROVE StopWaits'
    OBVIOUS
  <2>1. CASE Edits \/ UNCHANGED vars
    BY <2>1 DEF Edits, Create, Update, Remove, Elapse, Writes, vars, StopWaits
  <2>2. CASE Ticks
    BY <2>2 DEF Ticks, Tick, StopWaits
  <2>3. CASE Outcomes
    <3>1. PICK s \in Sweep, ok \in BOOLEAN : Settles(s, ok)
      BY <2>3 DEF Outcomes
    <3>2. Passes(s, sweep[s].todo, inFlight \ {sweep[s].at})
      BY <3>1, SettlesPasses
    <3>3. daemon # "up" => sweep' = [sweep EXCEPT ![s] = None]
      BY <3>2 DEF Passes, Fires, Returns
    <3>4. daemon' = daemon /\ awaited' = awaited \ {s} /\ sweep[s] # None
      BY <3>1 DEF Settles
    <3> QED BY <3>3, <3>4 DEF StopWaits, TypeOK
  <2>4. CASE Stop
    BY <2>4 DEF Stop, StopWaits
  <2>5. CASE StopReturns
    BY <2>5 DEF StopReturns, StopWaits
  <2>6. CASE Restart
    BY <2>6 DEF Restart, StopWaits
  <2> QED BY <2>1, <2>2, <2>3, <2>4, <2>5, <2>6 DEF Next, Stops
<1>3. StopWaits /\ OneRunPerCron => StoppedIsQuiet
  BY DEF StopWaits, OneRunPerCron, StoppedIsQuiet
<1> QED BY <1>1, <1>2, <1>3, TypeIsInvariant, NeverTwiceAtOnce, PTL DEF Spec
-----------------------------------------------------------------------------
(* The sweeps that still have c in their list: each owes it a run.         *)
Owed(c) == {s \in Sweep : sweep[s] # None /\ Among(c, sweep[s].todo)}

(* The points in time of a cron are spent on its runs, on the lists it     *)
(* waits in and on the row that is due and not claimed yet.                *)
Spent(c) == fired[c] + Cardinality(Owed(c)) + (IF Due(row[c]) THEN 1 ELSE 0)

Accounts ==
  /\ \A s \in Sweep : sweep[s] # None => Distinct(sweep[s].todo)
  /\ \A c \in Cron : Spent(c) <= points[c]

LEMMA SweepsAreFinite ==
  ASSUME NEW S \in SUBSET Sweep
  PROVE  IsFiniteSet(S) /\ Cardinality(S) \in Nat
<1>1. MaxSweeps \in Nat
  BY CronTickAssumption
<1>2. IsFiniteSet(Sweep)
  BY <1>1, FS_Interval DEF Sweep
<1>3. IsFiniteSet(S)
  BY <1>2, FS_Subset
<1> QED BY <1>3, FS_CardinalityType

LEMMA OwedIsFinite ==
  ASSUME NEW c
  PROVE  /\ IsFiniteSet(Owed(c)) /\ Cardinality(Owed(c)) \in Nat
         /\ \A s : IsFiniteSet(Owed(c) \ {s}) /\ Cardinality(Owed(c) \ {s}) \in Nat
<1>1. Owed(c) \in SUBSET Sweep
  BY DEF Owed
<1>2. \A s : Owed(c) \ {s} \in SUBSET Sweep
  BY <1>1
<1> QED BY <1>1, <1>2, SweepsAreFinite

(* One pass of a sweep spends at most what its list owed.                  *)
LEMMA PassesSpend ==
  ASSUME TypeOK, NEW s \in Sweep, NEW list \in Seq(Cron), Distinct(list),
         NEW busy, Passes(s, list, busy), NEW c \in Cron
  PROVE  fired'[c] + Cardinality(Owed(c)') <=
           fired[c] + Cardinality(Owed(c) \ {s}) + (IF Among(c, list) THEN 1 ELSE 0)
<1> DEFINE others == Owed(c) \ {s}
<1>1. \A t \in Sweep : t # s => sweep'[t] = sweep[t]
  BY DEF Passes, Fires, Returns, TypeOK
<1>2. Owed(c)' \ {s} = others
  BY <1>1 DEF Owed
<1>3. IsFiniteSet(others) /\ Cardinality(others) \in Nat
  BY OwedIsFinite
<1>4. fired[c] \in Nat
  BY DEF TypeOK
<1>5. CASE Returns(s, busy)
  <2>1. Owed(c)' = others
    BY <1>2, <1>5 DEF Returns, Owed, TypeOK
  <2>2. fired'[c] = fired[c]
    BY <1>5 DEF Returns
  <2> QED BY <1>3, <1>4, <2>1, <2>2
<1>6. ASSUME NEW d \in Cron \ busy, NEW rest \in Seq(Cron), Fires(s, list, busy, d, rest)
      PROVE  fired'[c] + Cardinality(Owed(c)') <=
               fired[c] + Cardinality(others) + (IF Among(c, list) THEN 1 ELSE 0)
  <2>1. sweep'[s] = [at |-> d, todo |-> rest]
    BY <1>6 DEF Fires, TypeOK
  <2>2. fired'[c] = fired[c] + (IF c = d THEN 1 ELSE 0)
    BY <1>4, <1>6 DEF Fires, TypeOK
  <2>3. ~ Among(d, rest) /\ Among(d, list) /\ (Among(c, rest) => Among(c, list))
    BY <1>6 DEF Fires
  <2>4. CASE Among(c, rest)
    <3> DEFINE more == others \cup {s}
    <3>1. s \notin others
      OBVIOUS
    <3>2. Owed(c)' = others \/ Owed(c)' = more
      BY <1>2
    <3> HIDE DEF others
    <3>3. Cardinality(more) = Cardinality(others) + 1
      BY <1>3, <3>1, FS_AddElement
    <3> HIDE DEF more
    <3>4. Cardinality(Owed(c)') <= Cardinality(others) + 1
      BY <1>3, <3>2, <3>3
    <3>5. Cardinality(Owed(c)') \in Nat
      BY <1>3, <3>2, <3>3
    <3>6. c # d /\ Among(c, list)
      BY <2>3, <2>4
    <3> QED BY <1>3, <1>4, <2>2, <3>4, <3>5, <3>6
  <2>5. CASE ~ Among(c, rest)
    <3>1. Owed(c)' = others
      BY <1>2, <2>1, <2>5 DEF Owed
    <3> QED BY <1>3, <1>4, <2>2, <2>3, <3>1
  <2> QED BY <2>4, <2>5
<1> QED BY <1>5, <1>6 DEF Passes

LEMMA PassesKeepDistinct ==
  ASSUME TypeOK, Accounts, NEW s \in Sweep, NEW list \in Seq(Cron), Distinct(list),
         NEW busy, Passes(s, list, busy)
  PROVE  \A t \in Sweep : sweep'[t] # None => Distinct(sweep'[t].todo)
<1>1. \A t \in Sweep : t # s => sweep'[t] = sweep[t]
  BY DEF Passes, Fires, Returns, TypeOK
<1>2. sweep'[s] # None => Distinct(sweep'[s].todo)
  BY DEF Passes, Fires, Returns, TypeOK
<1> QED BY <1>1, <1>2 DEF Accounts

(* An edit, or the clock, makes a row due at the price of a new point.     *)
LEMMA WritesKeepAccounts ==
  ASSUME TypeOK, Accounts, NEW rows, Writes(rows)
  PROVE  Accounts'
<1> SUFFICES ASSUME NEW c \in Cron PROVE (Spent(c) <= points[c])'
  BY DEF Writes, Accounts
<1>1. Owed(c)' = Owed(c) /\ fired' = fired
  BY DEF Writes, Owed
<1>2. points'[c] = points[c] + (IF Due(row'[c]) /\ ~Due(row[c]) THEN 1 ELSE 0)
  BY DEF Writes, Reached
<1>3. points[c] \in Nat /\ fired[c] \in Nat /\ Cardinality(Owed(c)) \in Nat
  BY OwedIsFinite DEF TypeOK
<1>4. Spent(c) <= points[c]
  BY DEF Accounts
<1>5. Spent(c)' = fired[c] + Cardinality(Owed(c)) + (IF Due(row'[c]) THEN 1 ELSE 0)
  BY <1>1 DEF Spent, Due
<1> QED BY <1>2, <1>3, <1>4, <1>5 DEF Spent

(* claimDue: what is claimed is not due any more.                          *)
LEMMA ClaimedIsNotDue ==
  ASSUME NEW r \in Row
  PROVE  ~ Due(Claimed(r))
BY DEF Claimed, Due, Row, Kind

LEMMA TickKeepsAccounts ==
  ASSUME TypeOK, Accounts, NEW s \in Sweep, Tick(s)
  PROVE  Accounts'
<1>1. PICK list \in Seq(Cron) :
        /\ Distinct(list) /\ \A c : Among(c, list) <=> c \in DueSet
        /\ Passes(s, list, inFlight)
  BY TickPasses
<1>2. ASSUME NEW c \in Cron PROVE (Spent(c) <= points[c])'
  <2>1. fired'[c] + Cardinality(Owed(c)') <=
          fired[c] + Cardinality(Owed(c) \ {s}) + (IF Among(c, list) THEN 1 ELSE 0)
    BY <1>1, PassesSpend
  <2>2. Cardinality(Owed(c) \ {s}) = Cardinality(Owed(c))
    <3>1. s \notin Owed(c)
      BY DEF Tick, Owed
    <3> QED BY <3>1, OwedIsFinite, FS_RemoveElement
  <2>3. Among(c, list) <=> Due(row[c])
    BY <1>1 DEF DueSet
  <2>4. ~ Due(row'[c])
    <3>1. CASE Due(row[c])
      <4>1. row[c] \in Row
        BY <3>1 DEF Due, TypeOK
      <4>2. row'[c] = Claimed(row[c])
        BY <3>1 DEF Tick, DueSet
      <4> QED BY <4>1, <4>2, ClaimedIsNotDue
    <3>2. CASE ~ Due(row[c])
      BY <3>2 DEF Tick, DueSet
    <3> QED BY <3>1, <3>2
  <2>5. points'[c] = points[c]
    BY <2>4 DEF Tick, Reached, TypeOK
  <2>6. Spent(c) <= points[c]
    BY DEF Accounts
  <2>7. Spent(c)' = fired'[c] + Cardinality(Owed(c)') + 0
    BY <2>4 DEF Spent, Due
  <2>8. /\ points[c] \in Nat /\ fired[c] \in Nat /\ Cardinality(Owed(c)) \in Nat
        /\ fired'[c] \in Nat /\ Cardinality(Owed(c)') \in Nat
    <3>1. Owed(c)' \in SUBSET Sweep
      BY DEF Owed
    <3>2. inFlight \in SUBSET Cron
      BY DEF TypeOK
    <3>3. fired' \in [Cron -> Nat]
      BY <1>1, <3>2, PassesKeepType
    <3>4. points[c] \in Nat /\ fired[c] \in Nat
      BY DEF TypeOK
    <3>5. Cardinality(Owed(c)') \in Nat
      BY <3>1, SweepsAreFinite
    <3>6. Cardinality(Owed(c)) \in Nat
      BY OwedIsFinite
    <3> QED BY <3>3, <3>4, <3>5, <3>6
  <2> QED BY <2>1, <2>2, <2>3, <2>5, <2>6, <2>7, <2>8 DEF Spent
<1>3. \A t \in Sweep : sweep'[t] # None => Distinct(sweep'[t].todo)
  BY <1>1, PassesKeepDistinct
<1> QED BY <1>2, <1>3 DEF Accounts

LEMMA SettlesKeepsAccounts ==
  ASSUME TypeOK, Accounts, NEW s \in Sweep, NEW ok, Settles(s, ok)
  PROVE  Accounts'
<1> DEFINE list == sweep[s].todo
<1>1. list \in Seq(Cron) /\ Passes(s, list, inFlight \ {sweep[s].at})
  BY SettlesPasses
<1>2. Distinct(list)
  BY DEF Settles, Accounts
<1>3. ASSUME NEW c \in Cron PROVE (Spent(c) <= points[c])'
  <2>1. fired'[c] + Cardinality(Owed(c)') <=
          fired[c] + Cardinality(Owed(c) \ {s}) + (IF Among(c, list) THEN 1 ELSE 0)
    BY <1>1, <1>2, PassesSpend
  <2>2. Among(c, list) <=> s \in Owed(c)
    BY DEF Settles, Owed
  <2>3. Cardinality(Owed(c) \ {s}) =
          IF s \in Owed(c) THEN Cardinality(Owed(c)) - 1 ELSE Cardinality(Owed(c))
    BY OwedIsFinite, FS_RemoveElement
  <2>4. points' = points /\ row' = row
    BY DEF Settles
  <2>5. Spent(c) <= points[c]
    BY DEF Accounts
  <2>6. Spent(c)' = fired'[c] + Cardinality(Owed(c)') + (IF Due(row[c]) THEN 1 ELSE 0)
    BY <2>4 DEF Spent, Due
  <2>7. /\ points[c] \in Nat /\ fired[c] \in Nat /\ Cardinality(Owed(c)) \in Nat
        /\ fired'[c] \in Nat /\ Cardinality(Owed(c)') \in Nat
    <3>1. Owed(c)' \in SUBSET Sweep
      BY DEF Owed
    <3>2. inFlight \ {sweep[s].at} \in SUBSET Cron
      BY DEF TypeOK
    <3>3. fired' \in [Cron -> Nat]
      BY <1>1, <3>2, PassesKeepType
    <3> QED BY <3>1, <3>3, SweepsAreFinite, OwedIsFinite DEF TypeOK
  <2> HIDE DEF list
  <2> QED BY <2>1, <2>2, <2>3, <2>4, <2>5, <2>6, <2>7 DEF Spent
<1>4. \A t \in Sweep : sweep'[t] # None => Distinct(sweep'[t].todo)
  BY <1>1, <1>2, PassesKeepDistinct
<1> QED BY <1>3, <1>4 DEF Accounts

(* A claim is written before its run starts: whatever sweeps overlap and   *)
(* wherever the daemon stops or dies, no point in time of a cron is        *)
(* answered by two runs.                                                   *)
THEOREM NeverTwiceForOnePoint == Spec => []FiresOnce
<1>1. Init => Accounts
  <2> SUFFICES ASSUME Init PROVE Accounts
    OBVIOUS
  <2>1. ASSUME NEW c \in Cron PROVE Spent(c) = 0
    <3>1. Owed(c) = {}
      BY DEF Init, Owed
    <3> QED BY <3>1, FS_EmptySet DEF Init, Spent, Due
  <2> QED BY <2>1 DEF Init, Accounts
<1>2. TypeOK /\ Accounts /\ [Next]_vars => Accounts'
  <2> SUFFICES ASSUME TypeOK, Accounts, [Next]_vars PROVE Accounts'
    OBVIOUS
  <2>1. CASE Edits
    <3>1. \E rows : Writes(rows)
      BY <2>1 DEF Edits, Create, Update, Remove, Elapse
    <3> QED BY <3>1, WritesKeepAccounts
  <2>2. CASE Ticks
    BY <2>2, TickKeepsAccounts DEF Ticks
  <2>3. CASE Outcomes
    BY <2>3, SettlesKeepsAccounts DEF Outcomes
  <2>4. CASE Stop \/ StopReturns \/ UNCHANGED vars
    BY <2>4 DEF Stop, StopReturns, vars, Accounts, Spent, Owed, Due
  <2>5. CASE Restart
    <3> SUFFICES ASSUME NEW c \in Cron PROVE (Spent(c) <= points[c])'
      BY <2>5 DEF Restart, Accounts
    <3>1. Owed(c)' = {}
      BY <2>5 DEF Restart, Owed
    <3>2. Spent(c)' = fired[c] + 0 + (IF Due(row[c]) THEN 1 ELSE 0)
      BY <2>5, <3>1, FS_EmptySet DEF Restart, Spent, Due
    <3>3. Spent(c) <= points[c] /\ points'[c] = points[c]
      BY <2>5 DEF Restart, Accounts
    <3>4. points[c] \in Nat /\ fired[c] \in Nat /\ Cardinality(Owed(c)) \in Nat
      BY OwedIsFinite DEF TypeOK
    <3> QED BY <3>2, <3>3, <3>4 DEF Spent
  <2> QED BY <2>1, <2>2, <2>3, <2>4, <2>5 DEF Next, Stops
<1>3. TypeOK /\ Accounts => FiresOnce
  <2> SUFFICES ASSUME TypeOK, Accounts, NEW c \in Cron PROVE fired[c] <= points[c]
    BY DEF FiresOnce
  <2>1. points[c] \in Nat /\ fired[c] \in Nat /\ Cardinality(Owed(c)) \in Nat
    BY OwedIsFinite DEF TypeOK
  <2> QED BY <2>1 DEF Accounts, Spent
<1> QED BY <1>1, <1>2, <1>3, TypeIsInvariant, PTL DEF Spec
=============================================================================
