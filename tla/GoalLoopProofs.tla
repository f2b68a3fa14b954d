--------------------------- MODULE GoalLoopProofs ---------------------------
(***************************************************************************)
(* Proofs about GoalLoop, for all limits, any queue and any number of acts *)
(* of users and throwing checks.                                           *)
(***************************************************************************)
EXTENDS GoalLoop, FiniteSetTheorems, FunctionTheorems, SequenceTheorems, TLAPS

Trigger == {"user", "goal"}

GoalPlaces(p) == {i \in DOMAIN p : p[i] = "goal"}

-----------------------------------------------------------------------------
(* How the operations on the queue change its number of goal rounds.       *)

LEMMA GoalsType ==
  ASSUME NEW p \in Seq(Trigger)
  PROVE  /\ IsFiniteSet(GoalPlaces(p)) /\ GoalsIn(p) \in Nat
         /\ GoalsIn(p) = Cardinality(GoalPlaces(p))
         /\ p = <<>> => GoalsIn(p) = 0
<1>1. DOMAIN p = 1 .. Len(p) /\ Len(p) \in Nat  OBVIOUS
<1>2. IsFiniteSet(1 .. Len(p))  BY <1>1, FS_Interval
<1>3. IsFiniteSet(GoalPlaces(p))  BY <1>1, <1>2, FS_Subset DEF GoalPlaces
<1>4. GoalsIn(p) = Cardinality(GoalPlaces(p))  BY DEF GoalsIn, GoalPlaces
<1>5. p = <<>> => GoalPlaces(p) = {}  BY <1>1 DEF GoalPlaces
<1> QED  BY <1>3, <1>4, <1>5, FS_CardinalityType, FS_EmptySet

LEMMA GoalsAppend ==
  ASSUME NEW p \in Seq(Trigger), NEW e \in Trigger
  PROVE  /\ Append(p, e) \in Seq(Trigger) /\ Append(p, e) # <<>>
         /\ GoalsIn(Append(p, e)) = GoalsIn(p) + (IF e = "goal" THEN 1 ELSE 0)
<1> DEFINE q == Append(p, e)
<1>1. /\ q \in Seq(Trigger) /\ Len(p) \in Nat /\ Len(q) = Len(p) + 1
      /\ DOMAIN p = 1 .. Len(p) /\ DOMAIN q = 1 .. Len(p) + 1
      /\ \A i \in 1 .. Len(p) : q[i] = p[i]
      /\ q[Len(p) + 1] = e
  OBVIOUS
<1>2. q # <<>>  BY <1>1, EmptySeq
<1> HIDE DEF q
<1>3. Len(p) + 1 \notin GoalPlaces(p)  BY <1>1 DEF GoalPlaces
<1>4. CASE e = "goal"
  <2>1. GoalPlaces(q) = GoalPlaces(p) \cup {Len(p) + 1}  BY <1>1, <1>4 DEF GoalPlaces
  <2>2. Cardinality(GoalPlaces(q)) = Cardinality(GoalPlaces(p)) + 1
    BY <1>3, <2>1, GoalsType, FS_AddElement
  <2>3. GoalsIn(q) = GoalsIn(p) + 1  BY <1>1, <2>2, GoalsType
  <2> QED  BY <1>1, <1>2, <1>4, <2>3 DEF q
<1>5. CASE e # "goal"
  <2>1. GoalPlaces(q) = GoalPlaces(p)  BY <1>1, <1>5 DEF GoalPlaces
  <2>2. GoalsIn(q) = GoalsIn(p)  BY <1>1, <2>1, GoalsType
  <2>3. GoalsIn(p) \in Nat  BY GoalsType
  <2> QED  BY <1>1, <1>2, <1>5, <2>2, <2>3 DEF q
<1> QED  BY <1>4, <1>5

LEMMA GoalsTail ==
  ASSUME NEW p \in Seq(Trigger), p # <<>>
  PROVE  /\ Head(p) \in Trigger /\ Tail(p) \in Seq(Trigger)
         /\ GoalsIn(p) = GoalsIn(Tail(p)) + (IF Head(p) = "goal" THEN 1 ELSE 0)
<1> DEFINE q == Tail(p)
<1>1. /\ Head(p) \in Trigger /\ q \in Seq(Trigger) /\ Len(p) \in Nat \ {0} /\ Head(p) = p[1]
      /\ DOMAIN p = 1 .. Len(p) /\ DOMAIN q = 1 .. Len(p) - 1
      /\ \A i \in 1 .. Len(p) - 1 : q[i] = p[i + 1]
  BY HeadTailProperties, EmptySeq, LenProperties
<1> HIDE DEF q
<1> DEFINE rest == GoalPlaces(p) \ {1}
           f == [i \in GoalPlaces(q) |-> i + 1]
<1>2. f \in Bijection(GoalPlaces(q), rest)
  <2>1. \A i \in GoalPlaces(q) : i + 1 \in rest  BY <1>1 DEF GoalPlaces
  <2>2. \A i, j \in GoalPlaces(q) : i + 1 = j + 1 => i = j  BY <1>1 DEF GoalPlaces
  <2>3. ASSUME NEW k \in rest  PROVE  k - 1 \in GoalPlaces(q) /\ (k - 1) + 1 = k
    <3>1. k \in 1 .. Len(p) /\ k # 1 /\ p[k] = "goal"  BY <1>1 DEF GoalPlaces
    <3>2. k - 1 \in 1 .. Len(p) - 1 /\ (k - 1) + 1 = k  BY <1>1, <3>1
    <3>3. q[k - 1] = p[(k - 1) + 1]  BY <1>1, <3>2
    <3> QED  BY <1>1, <3>1, <3>2, <3>3 DEF GoalPlaces
  <2>4. f \in [GoalPlaces(q) -> rest]  BY <2>1
  <2> QED  BY <2>2, <2>3, <2>4, Fun_IsBij
<1>3. IsFiniteSet(GoalPlaces(q)) /\ ExistsBijection(GoalPlaces(q), rest)
  BY <1>1, <1>2, GoalsType DEF ExistsBijection
<1>4. Cardinality(rest) = GoalsIn(q)  BY <1>1, <1>3, FS_Bijection, GoalsType
<1>5. Cardinality(rest) = IF 1 \in GoalPlaces(p) THEN GoalsIn(p) - 1 ELSE GoalsIn(p)
  BY GoalsType, FS_RemoveElement
<1>6. 1 \in GoalPlaces(p) <=> Head(p) = "goal"  BY <1>1 DEF GoalPlaces
<1> QED  BY <1>1, <1>4, <1>5, <1>6, GoalsType DEF q

LEMMA GoalsRemove ==
  ASSUME NEW p \in Seq(Trigger), NEW i \in DOMAIN p
  PROVE  RemoveAt(p, i) \in Seq(Trigger) /\ GoalsIn(RemoveAt(p, i)) <= GoalsIn(p)
<1> DEFINE l == SubSeq(p, 1, i - 1)
           r == SubSeq(p, i + 1, Len(p))
           q == l \o r
<1>1. /\ Len(p) \in Nat /\ i \in 1 .. Len(p) /\ DOMAIN p = 1 .. Len(p)
      /\ \A j \in 1 .. Len(p) : p[j] \in Trigger
  OBVIOUS
<1>2. l \in Seq(Trigger) /\ Len(l) = i - 1 /\ \A j \in 1 .. i - 1 : l[j] = p[j]
  BY <1>1, SubSeqProperties
<1>3. r \in Seq(Trigger) /\ Len(r) = Len(p) - i /\ \A j \in 1 .. Len(p) - i : r[j] = p[i + j]
  BY <1>1, SubSeqProperties
<1> HIDE DEF l, r
<1>4. /\ q \in Seq(Trigger) /\ Len(q) = Len(p) - 1 /\ DOMAIN q = 1 .. Len(p) - 1
      /\ \A j \in 1 .. i - 1 : q[j] = l[j]
      /\ \A j \in 1 .. Len(p) - i : q[Len(l) + j] = r[j]
  <2>1. q \in Seq(Trigger) /\ Len(q) = Len(l) + Len(r)  BY <1>2, <1>3, ConcatProperties
  <2>2. Len(q) = Len(p) - 1 /\ Len(q) \in Nat  BY <1>1, <1>2, <1>3, <2>1
  <2>3. \A j \in 1 .. Len(q) : q[j] = IF j <= Len(l) THEN l[j] ELSE r[j - Len(l)]
    BY <1>2, <1>3, ConcatProperties
  <2>4. \A j \in 1 .. i - 1 : j \in 1 .. Len(q) /\ j <= Len(l)  BY <1>1, <1>2, <2>2
  <2>5. ASSUME NEW j \in 1 .. Len(p) - i  PROVE  q[Len(l) + j] = r[j]
    <3>1. Len(l) + j \in 1 .. Len(q) /\ ~(Len(l) + j <= Len(l)) /\ Len(l) + j - Len(l) = j
      BY <1>1, <1>2, <2>2
    <3> HIDE DEF q
    <3> QED  BY <2>3, <3>1
  <2>6. DOMAIN q = 1 .. Len(q)  BY <2>1
  <2> HIDE DEF q
  <2> QED  BY <2>1, <2>2, <2>3, <2>4, <2>5, <2>6
<1> HIDE DEF q
<1>5. ASSUME NEW j \in 1 .. Len(p) - 1, j >= i  PROVE  q[j] = p[j + 1]
  <2>1. j - i + 1 \in 1 .. Len(p) - i /\ Len(l) + (j - i + 1) = j /\ i + (j - i + 1) = j + 1
    BY <1>1, <1>2, <1>5
  <2>2. q[Len(l) + (j - i + 1)] = r[j - i + 1] /\ r[j - i + 1] = p[i + (j - i + 1)]
    BY <1>3, <1>4, <2>1
  <2> QED  BY <2>1, <2>2
<1> DEFINE f == [j \in GoalPlaces(q) |-> IF j < i THEN j ELSE j + 1]
<1>6. f \in Injection(GoalPlaces(q), GoalPlaces(p))
  <2>1. ASSUME NEW j \in GoalPlaces(q)  PROVE  f[j] \in GoalPlaces(p)
    <3>1. j \in 1 .. Len(p) - 1 /\ q[j] = "goal"  BY <1>4 DEF GoalPlaces
    <3>2. CASE j < i
      <4>1. j \in 1 .. i - 1 /\ j \in DOMAIN p  BY <1>1, <3>1, <3>2
      <4> QED  BY <1>2, <1>4, <3>1, <3>2, <4>1 DEF GoalPlaces
    <3>3. CASE j >= i
      <4>1. j + 1 \in DOMAIN p /\ q[j] = p[j + 1] /\ ~(j < i)  BY <1>1, <1>5, <3>1, <3>3
      <4> QED  BY <3>1, <4>1 DEF GoalPlaces
    <3> QED  BY <1>1, <3>1, <3>2, <3>3
  <2>2. GoalPlaces(q) \subseteq Int  BY <1>4 DEF GoalPlaces
  <2>3. \A j, k \in GoalPlaces(q) : f[j] = f[k] => j = k  BY <1>1, <2>2
  <2>4. f \in [GoalPlaces(q) -> GoalPlaces(p)]  BY <2>1
  <2> QED  BY <2>3, <2>4, Fun_IsInj
<1>7. Cardinality(GoalPlaces(q)) <= Cardinality(GoalPlaces(p))
  BY <1>6, GoalsType, FS_Injection
<1> QED  BY <1>4, <1>7, GoalsType DEF RemoveAt, q, l, r

-----------------------------------------------------------------------------
(* What the counters of deriveGoalLoop become, and what a check decides.   *)

LEMMA UpToBounds ==
  ASSUME NEW limit \in Nat, NEW n \in Nat
  PROVE  UpTo(limit, n) \in 0 .. limit
BY DEF UpTo

LEMMA ZeroFacts == Zero \in Counters /\ Zero.rounds = 0
<1>1. {MaxRounds, TokenBudget, TimeoutRounds} \subseteq Nat  BY GoalAssumption
<1> QED  BY <1>1 DEF Zero, Counters, Limit

LEMMA AfterRunFacts ==
  ASSUME NEW loop \in Counters, NEW run \in Run, NEW errored \in BOOLEAN, NEW timeout \in BOOLEAN
  PROVE  /\ AfterRun(loop, run, errored, timeout) \in Counters
         /\ AfterRun(loop, run, errored, timeout).rounds =
              IF run.phase = "unpaired" THEN loop.rounds
              ELSE IF run.trigger = "user" THEN 0 ELSE UpTo(MaxRounds, loop.rounds + 1)
<1>1. /\ MaxRounds \in Nat /\ TokenBudget \in Nat /\ TimeoutRounds \in Nat /\ RunCost \in Nat
  BY GoalAssumption
<1>2. /\ loop.rounds \in Nat /\ loop.spent \in Nat /\ loop.timeouts \in Nat
      /\ loop.rounds \in 0 .. MaxRounds /\ loop.timeouts \in 0 .. TimeoutRounds
  BY <1>1 DEF Counters
<1>3. /\ UpTo(TokenBudget, loop.spent + RunCost) \in 0 .. TokenBudget
      /\ UpTo(MaxRounds, loop.rounds + 1) \in 0 .. MaxRounds
      /\ UpTo(TimeoutRounds, loop.timeouts + 1) \in 0 .. TimeoutRounds
  <2>1. {loop.spent + RunCost, loop.rounds + 1, loop.timeouts + 1} \subseteq Nat  BY <1>1, <1>2
  <2> QED  BY <1>1, <2>1, UpToBounds
<1> DEFINE paid == [loop EXCEPT !.spent = UpTo(TokenBudget, @ + RunCost)]
<1>4. paid \in Counters /\ paid.rounds = loop.rounds /\ paid.timeouts = loop.timeouts
  BY <1>3 DEF Counters
<1>5. CASE run.phase = "unpaired"
  BY <1>4, <1>5 DEF AfterRun
<1>6. CASE run.phase # "unpaired"
  <2> DEFINE r == IF run.trigger = "user" THEN 0 ELSE UpTo(MaxRounds, loop.rounds + 1)
             t == IF timeout THEN UpTo(TimeoutRounds, loop.timeouts + 1) ELSE 0
             after == [paid EXCEPT !.rounds = r, !.timeouts = t, !.errored = errored]
  <2>1. r \in 0 .. MaxRounds /\ t \in 0 .. TimeoutRounds  BY <1>1, <1>3
  <2>2. AfterRun(loop, run, errored, timeout) = after  BY <1>4, <1>6 DEF AfterRun
  <2> HIDE DEF r, t, paid
  <2>3. after \in Counters /\ after.rounds = r  BY <1>4, <2>1 DEF Counters
  <2> HIDE DEF after
  <2> QED  BY <1>6, <2>2, <2>3 DEF r
<1> QED  BY <1>5, <1>6

LEMMA LimitType == \A kind \in DOMAIN Limit : Limit[kind] \in Nat
BY GoalAssumption DEF Limit

LEMMA AfterCheckFacts ==
  ASSUME NEW loop \in Counters, NEW result \in Results
  PROVE  AfterCheck(loop, result) \in Counters /\ AfterCheck(loop, result).rounds = loop.rounds
<1>1. TokenBudget \in Nat /\ JudgeCost \in Nat  BY GoalAssumption
<1>2. CostOf(result) \in Nat  BY <1>1 DEF CostOf
<1>3. loop.spent \in Nat /\ loop.streak \in Nat  BY <1>1 DEF Counters
<1>4. UpTo(TokenBudget, loop.spent + CostOf(result)) \in 0 .. TokenBudget
  <2>1. loop.spent + CostOf(result) \in Nat  BY <1>2, <1>3
  <2> QED  BY <1>1, <2>1, UpToBounds
<1> DEFINE kind == IF result \in DOMAIN Limit THEN result ELSE "none"
           streak == IF result \in DOMAIN Limit
                     THEN UpTo(Limit[result], Streak(loop, result) + 1) ELSE 0
<1>5. kind \in DOMAIN Limit \cup {"none"}  OBVIOUS
<1>6. Streak(loop, result) + 1 \in Nat  BY <1>3 DEF Streak
<1>7. streak \in Nat  BY <1>6, LimitType, UpToBounds
<1>8. AfterCheck(loop, result) =
        [loop EXCEPT !.spent = UpTo(TokenBudget, loop.spent + CostOf(result)),
                     !.kind = kind, !.streak = streak]
  BY DEF AfterCheck
<1> HIDE DEF kind, streak
<1> QED  BY <1>4, <1>5, <1>7, <1>8 DEF Counters

(* A wrap-up is granted once, and a round only below the limit.            *)
LEMMA DecisionFacts ==
  ASSUME NEW loop \in Counters, NEW result \in Results, NEW w
  PROVE  LET d == decideGoalRound(loop, result, w)
         IN  /\ d.kind \in {"complete", "stop", "winddown", "continue"}
             /\ d.kind \in {"winddown", "continue"} => w # "yes"
             /\ d.kind = "continue" => loop.rounds + 1 <= MaxRounds
<1> DEFINE spent == [loop EXCEPT !.spent = @ + CostOf(result)]
<1>1. spent.rounds = loop.rounds  BY DEF Counters
<1>2. MaxRounds \in Nat /\ loop.rounds \in Nat  BY GoalAssumption DEF Counters
<1>3. /\ continueGate(spent).kind \in {"stop", "winddown", "continue"}
      /\ continueGate(spent).kind = "continue" => loop.rounds + 1 <= MaxRounds
  BY <1>1, <1>2 DEF continueGate, Stop, Round
<1> HIDE DEF spent
<1> DEFINE d == decideGoalRound(loop, result, w)
<1>4. \/ d.kind \in {"complete", "stop"}
      \/ d = continueGate(spent) /\ w # "yes"
  BY DEF decideGoalRound, Stop, spent
<1> QED  BY <1>3, <1>4

-----------------------------------------------------------------------------
(* The inductive invariant.                                                *)

Kicked == armed = "yes" /\ windDown = "no"

(* The rounds that were accepted and have not started: those of the queue, *)
(* and the one that is assembled.                                          *)
Waits(run) ==
  IF run # None /\ run.trigger = "goal" /\ run.phase = "assembling" THEN 1 ELSE 0

Ahead(p, run) == GoalsIn(p) + Waits(run)

(* The goal runs since a human acted, and those that may still come        *)
(* without a new decision of the loop's own check.                         *)
Account == autoRuns + Ahead(pending, running) + Cardinality(stray)

(* A goal that is gone has neither an armed runtime nor a check of its own. *)
Quiet == state = "none" => armed = "no" /\ check = None

(* Every clear pays for a stray check or a round it left in the queue; a   *)
(* check finds the account at the counter it began with, and the round     *)
(* limit and the wrap-up round bound the account from there.               *)
Paid ==
  /\ Cardinality(stray) <= clears
  /\ Ahead(pending, running) + Cardinality(stray) + (IF check = None THEN 0 ELSE 1) <= 1 + clears
  /\ state = "none" => Ahead(pending, running) + Cardinality(stray) <= clears

Counts ==
  /\ Account <= MaxRounds + 1 + clears
  /\ Kicked => Account <= MaxRounds + clears
  /\ Kicked /\ check # None /\ check.rounds < MaxRounds => Account <= check.rounds + clears

(* While the loop is armed its counter of rounds keeps up with the goal    *)
(* runs, up to the one that has started and not ended.                     *)
Scored(run) == run # None /\ run.trigger = "goal" /\ run.phase = "paired"

Played ==
  /\ running # None /\ running.trigger = "user" /\ running.phase # "assembling" => autoRuns = 0
  /\ armed = "yes" /\ derived.rounds < MaxRounds =>
       autoRuns <= derived.rounds + (IF Scored(running) THEN 1 ELSE 0)

(* A wrap-up round is granted, or may be by the loop or a stray check.     *)
Granted == wraps + Cardinality(stray) + (IF Kicked THEN 1 ELSE 0) <= 1 + clears

Sane == TypeOK /\ IsFiniteSet(stray)
IInv == Sane /\ Quiet /\ Paid /\ Counts /\ Played /\ Granted /\ NeverStalls

LEMMA WaitsType == \A run : Waits(run) \in {0, 1}
BY DEF Waits

LEMMA AheadType ==
  ASSUME NEW p \in Seq(Trigger), NEW run
  PROVE  Ahead(p, run) \in Nat /\ GoalsIn(p) \in Nat /\ Ahead(p, run) = GoalsIn(p) + Waits(run)
<1>1. GoalsIn(p) \in Nat  BY GoalsType
<1> QED  BY <1>1, WaitsType DEF Ahead

LEMMA Types ==
  ASSUME Sane
  PROVE  /\ state \in {"none", "active", "paused", "blocked", "complete"}
         /\ armed \in {"yes", "no"} /\ windDown \in {"yes", "no"} /\ last \in {"yes", "no"}
         /\ running \in Run \cup {None} /\ pending \in Seq(Trigger)
         /\ derived \in Counters /\ check \in Counters \cup {None}
         /\ stray \subseteq [loop : Counters, armed : {"yes", "no"}, windDown : {"yes", "no"}]
BY DEF Sane, TypeOK, Trigger

LEMMA Numbers ==
  ASSUME Sane
  PROVE  /\ GoalsIn(pending) \in Nat /\ Cardinality(stray) \in Nat
         /\ Ahead(pending, running) \in Nat
         /\ autoRuns \in Nat /\ wraps \in Nat /\ clears \in Nat /\ MaxRounds \in Nat \ {0}
         /\ derived.rounds \in Nat /\ derived.rounds <= MaxRounds
         /\ check # None => check.rounds \in Nat
         /\ pending = <<>> => GoalsIn(pending) = 0
         /\ stray = {} <=> Cardinality(stray) = 0
<1>1. pending \in Seq(Trigger)  BY Types
<1>2. GoalsIn(pending) \in Nat /\ (pending = <<>> => GoalsIn(pending) = 0)  BY <1>1, GoalsType
<1>3. Cardinality(stray) \in Nat /\ (stray = {} <=> Cardinality(stray) = 0)
  BY FS_CardinalityType, FS_EmptySet DEF Sane
<1>4. MaxRounds \in Nat \ {0}  BY GoalAssumption
<1>5. \A c \in Counters : c.rounds \in 0 .. MaxRounds  BY DEF Counters
<1>6. derived.rounds \in 0 .. MaxRounds /\ (check # None => check.rounds \in 0 .. MaxRounds)
  BY <1>5, Types
<1>7. autoRuns \in Nat /\ wraps \in Nat /\ clears \in Nat  BY DEF Sane, TypeOK
<1>8. Ahead(pending, running) \in Nat  BY <1>1, AheadType
<1> QED  BY <1>2, <1>3, <1>4, <1>6, <1>7, <1>8

LEMMA InitInv == Init => IInv
<1> SUFFICES ASSUME Init  PROVE IInv  OBVIOUS
<1>1. MaxRounds \in Nat  BY GoalAssumption
<1>2. Sane
  <2>1. IsFiniteSet({})  BY FS_EmptySet
  <2> QED  BY <2>1, ZeroFacts DEF Init, Sane, TypeOK
<1>3. GoalsIn(pending) = 0 /\ Cardinality(stray) = 0  BY <1>2, Numbers DEF Init
<1>4. Ahead(pending, running) = 0  BY <1>3 DEF Init, Ahead, Waits
<1> QED  BY <1>1, <1>2, <1>3, <1>4 DEF Init, IInv, Quiet, Paid, Counts, Played, Granted, Kicked, Account,
                                       Scored, NeverStalls

-----------------------------------------------------------------------------
(* What the shared parts of the actions do.                                *)

LEMMA CountedBounds == ASSUME NEW n \in Nat  PROVE Counted(n) \in Nat /\ Counted(n) <= n
<1>1. MaxRounds + MaxActs + 2 \in Nat  BY GoalAssumption
<1> QED  BY <1>1 DEF Counted, UpTo

LEMMA BeginsFacts ==
  ASSUME NEW trigger \in Trigger, Begins(trigger)
  PROVE  /\ running' \in Run /\ running' # None
         /\ running'.trigger = trigger /\ running'.phase = "assembling"
         /\ Waits(running') = IF trigger = "goal" THEN 1 ELSE 0
<1>1. running' \in Run /\ running'.trigger = trigger /\ running'.phase = "assembling"
  BY DEF Begins, Run, Trigger
<1>2. running' # None  BY <1>1, NoneAssumption
<1> QED  BY <1>1, <1>2 DEF Waits

(* The head of the queue is taken, and its run assembled.                  *)
Advances == pending # <<>> /\ Begins(Head(pending)) /\ pending' = Tail(pending)

LEMMA NextBegins ==
  ASSUME Sane, Advances
  PROVE  /\ pending' \in Seq(Trigger) /\ GoalsIn(pending') \in Nat
         /\ Ahead(pending', running') \in Nat
         /\ Ahead(pending', running') = GoalsIn(pending)
         /\ Ahead(pending', running') <= Ahead(pending, running)
         /\ running' \in Run /\ running' # None /\ running'.phase = "assembling"
         /\ GoalsIn(pending') + (IF running'.trigger = "goal" THEN 1 ELSE 0) = GoalsIn(pending)
<1>1. pending \in Seq(Trigger)  BY Types
<1>2. /\ Head(pending) \in Trigger /\ pending' \in Seq(Trigger)
      /\ GoalsIn(pending) = GoalsIn(pending') + (IF Head(pending) = "goal" THEN 1 ELSE 0)
  BY <1>1, GoalsTail DEF Advances
<1> DEFINE h == Head(pending)
<1>3. Begins(h) /\ h \in Trigger  BY <1>2 DEF Advances
<1>4. GoalsIn(pending) = GoalsIn(pending') + (IF h = "goal" THEN 1 ELSE 0)  BY <1>2
<1> HIDE DEF h
<1>5. /\ running' \in Run /\ running' # None
      /\ running'.trigger = h /\ running'.phase = "assembling"
      /\ Waits(running') = IF h = "goal" THEN 1 ELSE 0
  BY <1>3, BeginsFacts
<1>6. /\ Ahead(pending', running') \in Nat /\ GoalsIn(pending') \in Nat
      /\ Ahead(pending', running') = GoalsIn(pending') + Waits(running')
  BY <1>2, AheadType
<1>7. /\ Ahead(pending, running) = GoalsIn(pending) + Waits(running)
      /\ GoalsIn(pending) \in Nat /\ Waits(running) \in {0, 1}
  BY <1>1, AheadType, WaitsType
<1>8. Ahead(pending', running') = GoalsIn(pending)  BY <1>4, <1>5, <1>6
<1>9. Ahead(pending', running') <= Ahead(pending, running)  BY <1>7, <1>8
<1> QED  BY <1>2, <1>4, <1>5, <1>6, <1>8, <1>9

(* A message is submitted.                                                 *)
LEMMA SubmitsFacts ==
  ASSUME Sane, NEW trigger \in Trigger, Submits(trigger)
  PROVE  /\ pending' \in Seq(Trigger) /\ running' \in Run \cup {None}
         /\ running' # None \/ pending' # <<>>
         /\ Ahead(pending', running') = Ahead(pending, running) + (IF trigger = "goal" THEN 1 ELSE 0)
         /\ \/ running = None /\ running' # None /\ running'.phase = "assembling"
            \/ running' = running
         /\ trigger = "user" => ~(GoalWork' > GoalWork)
<1>1. /\ pending \in Seq(Trigger) /\ running \in Run \cup {None} /\ GoalsIn(pending) \in Nat
      /\ Ahead(pending, running) = GoalsIn(pending) + Waits(running) /\ Waits(running) \in {0, 1}
  BY Numbers, Types, AheadType, WaitsType
<1>2. CASE ~Busy
  <2>1. Begins(trigger) /\ pending' = pending /\ running = None
    BY <1>2 DEF Submits, Busy
  <2>2. GoalsIn(pending') = GoalsIn(pending) /\ Waits(running) = 0  BY <2>1 DEF Waits
  <2>3. /\ running' \in Run /\ running' # None
        /\ running'.trigger = trigger /\ running'.phase = "assembling"
        /\ Waits(running') = IF trigger = "goal" THEN 1 ELSE 0
    BY <2>1, BeginsFacts
  <2>4. Ahead(pending', running') = GoalsIn(pending') + Waits(running')  BY DEF Ahead
  <2>5. Ahead(pending', running') = Ahead(pending, running) + (IF trigger = "goal" THEN 1 ELSE 0)
    BY <1>1, <2>2, <2>3, <2>4
  <2>6. trigger = "user" => ~(GoalWork' > GoalWork)
    BY <1>1, <2>1, <2>2, <2>3 DEF GoalWork
  <2> QED  BY <1>1, <2>1, <2>3, <2>5, <2>6
<1>3. CASE Busy
  <2>1. pending' = Append(pending, trigger) /\ running' = running
    BY <1>3 DEF Submits
  <2>2. /\ pending' \in Seq(Trigger) /\ pending' # <<>>
        /\ GoalsIn(pending') = GoalsIn(pending) + (IF trigger = "goal" THEN 1 ELSE 0)
    BY <1>1, <2>1, GoalsAppend
  <2>3. Ahead(pending', running') = GoalsIn(pending') + Waits(running)  BY <2>1 DEF Ahead
  <2>4. Ahead(pending', running') = Ahead(pending, running) + (IF trigger = "goal" THEN 1 ELSE 0)
    BY <1>1, <2>2, <2>3
  <2>5. trigger = "user" => ~(GoalWork' > GoalWork)
    <3>1. trigger = "user" => GoalsIn(pending') = GoalsIn(pending)  BY <1>1, <2>2
    <3> QED  BY <1>1, <2>1, <3>1 DEF GoalWork
  <2> QED  BY <1>1, <2>1, <2>2, <2>4, <2>5
<1> QED  BY <1>2, <1>3

LEMMA UserSubmits ==
  ASSUME Sane, Submits("user")
  PROVE  /\ pending' \in Seq(Trigger) /\ running' \in Run \cup {None}
         /\ running' # None \/ pending' # <<>>
         /\ Ahead(pending', running') = Ahead(pending, running)
         /\ \/ running = None /\ running' # None /\ running'.phase = "assembling"
            \/ running' = running
         /\ ~(GoalWork' > GoalWork)
<1>1. "user" \in Trigger /\ "user" # "goal"  BY DEF Trigger
<1>2. Ahead(pending, running) + 0 = Ahead(pending, running)  BY Numbers
<1> QED  BY <1>1, <1>2, SubmitsFacts

LEMMA GoalSubmits ==
  ASSUME Sane, Submits("goal")
  PROVE  /\ pending' \in Seq(Trigger) /\ running' \in Run \cup {None}
         /\ running' # None \/ pending' # <<>>
         /\ Ahead(pending', running') \in Nat
         /\ Ahead(pending', running') = Ahead(pending, running) + 1
         /\ \/ running = None /\ running' # None /\ running'.phase = "assembling"
            \/ running' = running
<1>1. "goal" \in Trigger  BY DEF Trigger
<1>2. Ahead(pending', running') = Ahead(pending, running) + 1  BY <1>1, SubmitsFacts
<1>3. Ahead(pending', running') \in Nat  BY <1>2, Numbers
<1> QED  BY <1>1, <1>2, <1>3, SubmitsFacts

(* A round is enqueued, or finds the queue full and stops the goal.        *)
LEMMA EnqueueFacts ==
  ASSUME NEW s, NEW reason, NEW a, NEW w, EnqueueRound(s, reason, a, w)
  PROVE  \/ /\ state' = s /\ armed' = a /\ windDown' = w /\ last' = "yes"
            /\ Submits("goal")
         \/ /\ state' \in {"blocked", "paused"} /\ armed' = "no" /\ windDown' = "no"
            /\ running' = running /\ pending' = pending /\ last' = last
BY DEF EnqueueRound, Stops

(* The loop is kicked: nothing, a stop, or a check.                        *)
LEMMA KickFacts ==
  ASSUME NEW s, NEW reason, NEW a, NEW w, NEW loop, NEW busy, Kick(s, reason, a, w, loop, busy)
  PROVE  \/ /\ state' = s /\ armed' = a /\ windDown' = w /\ check' = check
            /\ a = "yes" /\ s = "active" => check # None \/ busy
         \/ /\ state' \in {"blocked", "paused"} /\ armed' = "no" /\ windDown' = "no"
            /\ check' = check
         \/ /\ a = "yes" /\ s = "active" /\ check = None /\ ~busy
            /\ state' = s /\ armed' = a /\ windDown' = w /\ check' = loop
BY DEF Kick, Stops

-----------------------------------------------------------------------------
(* One lemma per action: it keeps the invariant, and adds a round to the   *)
(* session's work only for an armed loop of an active goal.                *)

Unbidden ==
  GoalWork' > GoalWork => state' = "active" /\ (armed' = "yes" \/ stray' # stray)
Keeps == IInv' /\ Unbidden

LEMMA WorkFacts ==
  ASSUME Sane
  PROVE  /\ GoalWork \in Nat
         /\ GoalWork = GoalsIn(pending) + (IF running # None /\ running.trigger = "goal" THEN 1 ELSE 0)
BY Numbers DEF GoalWork

LEMMA UserMessageKeeps ==
  ASSUME IInv, UserMessage  PROVE Keeps
<1>1. Sane  BY DEF IInv
<1>2. /\ UNCHANGED <<state, why, armed, windDown, last, check, stray, derived, autoRuns, wraps, clears>>
      /\ Submits("user")
  BY DEF UserMessage, host, ghost
<1>3. /\ pending' \in Seq(Trigger) /\ running' \in Run \cup {None}
      /\ running' # None \/ pending' # <<>>
      /\ Ahead(pending', running') = Ahead(pending, running)
      /\ \/ running = None /\ running' # None /\ running'.phase = "assembling"
         \/ running' = running
      /\ ~(GoalWork' > GoalWork)
  BY <1>1, <1>2, UserSubmits
<1>4. Sane'  BY <1>1, <1>2, <1>3 DEF Sane, TypeOK, Trigger
<1>5. Quiet'  BY <1>2 DEF IInv, Quiet
<1>6. Counts'  BY <1>2, <1>3 DEF IInv, Counts, Account, Kicked
<1>7. Paid'  BY <1>2, <1>3 DEF IInv, Paid
<1>8. Played'  BY <1>2, <1>3 DEF IInv, Played, Scored
<1>9. Granted'  BY <1>2 DEF IInv, Granted, Kicked
<1>10. NeverStalls'  BY <1>3 DEF NeverStalls, Busy
<1>11. Unbidden  BY <1>3 DEF Unbidden
<1> QED  BY <1>4, <1>5, <1>6, <1>7, <1>8, <1>9, <1>10, <1>11 DEF Keeps, IInv

(* Whatever disarms the loop and adds nothing keeps the invariant.         *)
Disarms ==
  /\ armed' = "no" /\ clears' = clears
  /\ wraps' + Cardinality(stray') <= wraps + Cardinality(stray) + (IF Kicked THEN 1 ELSE 0)
  /\ autoRuns' <= autoRuns
  /\ Ahead(pending', running') <= Ahead(pending, running)
  /\ Cardinality(stray') <= Cardinality(stray)
  /\ check' \in {check, None}
  /\ state' = "none" => state = "none"
  /\ running' # None /\ running'.trigger = "user" /\ running'.phase # "assembling" => autoRuns' = 0

LEMMA DisarmsKeeps ==
  ASSUME IInv, Sane', Disarms  PROVE IInv'
<1>1. Sane  BY DEF IInv
<1>2. /\ Ahead(pending', running') \in Nat /\ Cardinality(stray') \in Nat /\ autoRuns' \in Nat
  <2>1. pending' \in Seq(Trigger) /\ IsFiniteSet(stray') /\ autoRuns' \in Nat
    BY DEF Sane, TypeOK, Trigger
  <2> QED  BY <2>1, AheadType, FS_CardinalityType
<1>3. ~Kicked'  BY DEF Kicked, Disarms
<1>4. Account' <= Account /\ Account' \in Nat /\ Account \in Nat
  <2>1. /\ autoRuns' <= autoRuns /\ Ahead(pending', running') <= Ahead(pending, running)
        /\ Cardinality(stray') <= Cardinality(stray)
    BY DEF Disarms
  <2> QED  BY <1>1, <1>2, <2>1, Numbers DEF Account
<1>5. Quiet'  BY DEF Quiet, Disarms, IInv
<1>6. Paid'  BY <1>1, <1>2, Numbers DEF Paid, Disarms, IInv, Quiet
<1>7. Counts'
  <2>1. clears' = clears  BY DEF Disarms
  <2> QED  BY <1>1, <1>3, <1>4, <2>1, Numbers DEF Counts, IInv
<1>8. Played'  BY DEF Played, Disarms
<1>9. Granted'
  <2>1. /\ wraps' + Cardinality(stray') <= wraps + Cardinality(stray) + (IF Kicked THEN 1 ELSE 0)
        /\ clears' = clears /\ wraps' \in Nat
    BY DEF Disarms, Sane, TypeOK
  <2>2. wraps + Cardinality(stray) + (IF Kicked THEN 1 ELSE 0) <= 1 + clears
    BY DEF IInv, Granted
  <2>3. wraps' + Cardinality(stray') + 0 <= 1 + clears'
    BY <1>1, <1>2, <2>1, <2>2, Numbers DEF Kicked
  <2> QED  BY <1>3, <2>3 DEF Granted
<1>10. NeverStalls'  BY DEF NeverStalls, Disarms
<1> QED  BY <1>5, <1>6, <1>7, <1>8, <1>9, <1>10 DEF IInv

LEMMA NoRounds ==
  ASSUME Sane, UNCHANGED running, GoalsIn(pending') <= GoalsIn(pending), GoalsIn(pending') \in Nat
  PROVE  Unbidden /\ Ahead(pending', running') <= Ahead(pending, running)
<1>1. ~(GoalWork' > GoalWork)  BY Numbers DEF GoalWork
<1>2. Ahead(pending', running') <= Ahead(pending, running)
  <2>1. Waits(running) \in {0, 1} /\ GoalsIn(pending) \in Nat  BY Numbers, WaitsType
  <2>2. Ahead(pending', running') = GoalsIn(pending') + Waits(running)  BY DEF Ahead
  <2> QED  BY <2>1, <2>2 DEF Ahead
<1> QED  BY <1>1, <1>2 DEF Unbidden

LEMMA PauseKeeps ==
  ASSUME IInv, Pause  PROVE Keeps
<1>1. Sane  BY DEF IInv
<1>2. /\ state' = "paused" /\ armed' = "no"
      /\ UNCHANGED <<why, windDown, last, pending, clears, check, stray, derived, running, autoRuns, wraps>>
  BY DEF Pause, Unmoved
<1>3. Sane'  BY <1>1, <1>2 DEF Sane, TypeOK
<1>4. Disarms  BY <1>1, <1>2, Numbers DEF Disarms, IInv, Played
<1>5. Unbidden  BY <1>1, <1>2, Numbers, NoRounds
<1> QED  BY <1>3, <1>4, <1>5, DisarmsKeeps DEF Keeps

LEMMA UserStopKeeps ==
  ASSUME IInv, UserStop  PROVE Keeps
<1>1. Sane  BY DEF IInv
<1>2. /\ state # "none" /\ pending' = <<>>
      /\ state' \in {state, "paused"}
      /\ armed' = "no" /\ windDown' = "no"
      /\ UNCHANGED <<last, clears, check, stray, derived, running, autoRuns, wraps>>
  BY DEF UserStop, Unmoved
<1>3. pending' \in Seq(Trigger)  BY <1>2
<1>4. GoalsIn(pending') = 0 /\ GoalsIn(pending') <= GoalsIn(pending)
  <2>1. GoalsIn(pending') = 0  BY <1>2, <1>3, GoalsType
  <2> QED  BY <1>1, <2>1, Numbers
<1>5. Sane'  BY <1>1, <1>2, <1>3 DEF Sane, TypeOK, Trigger
<1>6. Unbidden /\ Ahead(pending', running') <= Ahead(pending, running)
  BY <1>1, <1>2, <1>4, NoRounds
<1>7. Disarms  BY <1>1, <1>2, <1>6, Numbers DEF Disarms, IInv, Played
<1> QED  BY <1>5, <1>6, <1>7, DisarmsKeeps DEF Keeps

LEMMA RestartKeeps ==
  ASSUME IInv, Restart  PROVE Keeps
<1>1. Sane  BY DEF IInv
<1>2. /\ armed' = "no" /\ windDown' = "no" /\ last' = "no" /\ check' = None /\ stray' = {}
      /\ UNCHANGED <<state, why, derived, autoRuns, wraps, clears>>
      /\ \/ Advances
         \/ running' = None /\ pending' = pending
  BY DEF Restart, Advances, ghost
<1>3. Cardinality(stray') = 0 /\ IsFiniteSet(stray')  BY <1>2, FS_EmptySet
<1>4. /\ pending' \in Seq(Trigger) /\ running' \in Run \cup {None}
      /\ Ahead(pending', running') <= Ahead(pending, running)
      /\ running' # None => running'.phase = "assembling"
      /\ GoalsIn(pending') \in Nat
      /\ GoalsIn(pending') + (IF running' # None /\ running'.trigger = "goal" THEN 1 ELSE 0)
           <= GoalsIn(pending)
  <2>1. CASE Advances  BY <1>1, <2>1, NextBegins, Numbers
  <2>2. CASE running' = None /\ pending' = pending
    <3>1. Waits(running') = 0 /\ Waits(running) \in {0, 1} /\ GoalsIn(pending) \in Nat
      BY <1>1, <2>2, WaitsType, Numbers DEF Waits
    <3>2. Ahead(pending', running') <= Ahead(pending, running)  BY <2>2, <3>1 DEF Ahead
    <3>3. pending' \in Seq(Trigger)  BY <1>1, <2>2, Types
    <3>4. GoalsIn(pending') = GoalsIn(pending)  BY <2>2
    <3> QED  BY <2>2, <3>1, <3>2, <3>3, <3>4
  <2> QED  BY <1>2, <2>1, <2>2
<1>5. Sane'  BY <1>1, <1>2, <1>3, <1>4 DEF Sane, TypeOK, Trigger
<1>6. Disarms  BY <1>1, <1>2, <1>3, <1>4, Numbers DEF Disarms
<1>7. Unbidden
  <2>1. ~(GoalWork' > GoalWork)  BY <1>1, <1>4, Numbers DEF GoalWork
  <2> QED  BY <2>1 DEF Unbidden
<1> QED  BY <1>5, <1>6, <1>7, DisarmsKeeps DEF Keeps

LEMMA ClearKeeps ==
  ASSUME IInv, Clear  PROVE Keeps
<1>1. Sane  BY DEF IInv
<1>2. /\ state # "none" /\ pending' = Withdrawn
      /\ state' = "none" /\ armed' = "no" /\ windDown' = "no" /\ last' = "no"
      /\ check' = None /\ derived' = Zero
      /\ running' = IF running # None /\ running.phase = "paired"
                    THEN [running EXCEPT !.phase = "unpaired"] ELSE running
      /\ clears' = clears + 1 /\ UNCHANGED <<autoRuns, wraps>>
  BY DEF Clear
<1>3. pending' \in Seq(Trigger) /\ GoalsIn(pending') \in Nat /\ GoalsIn(pending') <= GoalsIn(pending)
  <2>1. CASE pending' = pending  BY <1>1, <2>1, Types, Numbers
  <2>2. CASE pending' # pending
    <3>1. PICK i \in DOMAIN pending : pending' = RemoveAt(pending, i)
      BY <1>2, <2>2 DEF Withdrawn, LastRound
    <3>2. RemoveAt(pending, i) \in Seq(Trigger) /\ GoalsIn(RemoveAt(pending, i)) <= GoalsIn(pending)
      BY <1>1, Types, GoalsRemove
    <3> QED  BY <3>1, <3>2, GoalsType
  <2> QED  BY <2>1, <2>2
<1>4. /\ running' \in Run \cup {None}
      /\ running' # None => running # None /\ running'.trigger = running.trigger
      /\ running' # None /\ running # None =>
           (running'.phase = "assembling" <=> running.phase = "assembling")
  <2>1. CASE running # None /\ running.phase = "paired"
    <3>1. running \in Run /\ running' = [running EXCEPT !.phase = "unpaired"]
      BY <1>1, <1>2, <2>1, Types
    <3> QED  BY <2>1, <3>1 DEF Run
  <2>2. CASE ~(running # None /\ running.phase = "paired")  BY <1>1, <1>2, <2>2, Types
  <2> QED  BY <2>1, <2>2
<1>4a. /\ Ahead(pending', running') \in Nat
       /\ Ahead(pending', running') <= Ahead(pending, running)
  <2>1. Waits(running') <= Waits(running)  BY <1>4 DEF Waits
  <2>2. Waits(running) \in {0, 1} /\ Waits(running') \in {0, 1}  BY WaitsType
  <2>3. GoalsIn(pending) \in Nat  BY <1>1, Numbers
  <2>4. GoalsIn(pending') + Waits(running') <= GoalsIn(pending) + Waits(running)
    BY <1>3, <2>1, <2>2, <2>3
  <2> QED  BY <1>3, <2>4, AheadType DEF Ahead
<1> DEFINE H == IF check = None THEN 0 ELSE 1
<1>5. /\ IsFiniteSet(stray') /\ Cardinality(stray') \in Nat
      /\ Cardinality(stray') <= Cardinality(stray) + H
      /\ stray' \subseteq [loop : Counters, armed : {"yes", "no"}, windDown : {"yes", "no"}]
  <2>1. CASE check = None
    <3>1. stray' = stray  BY <2>1 DEF Clear
    <3> QED  BY <1>1, <2>1, <3>1, Types, Numbers DEF Sane
  <2>2. CASE check # None
    <3> DEFINE gone == [loop |-> check, armed |-> armed, windDown |-> windDown]
    <3>1. stray' = stray \cup {gone}  BY <2>2 DEF Clear
    <3>2. gone \in [loop : Counters, armed : {"yes", "no"}, windDown : {"yes", "no"}]
      BY <1>1, <2>2, Types
    <3> HIDE DEF gone
    <3>3. /\ IsFiniteSet(stray')
          /\ Cardinality(stray') = IF gone \in stray THEN Cardinality(stray) ELSE Cardinality(stray) + 1
      BY <1>1, <3>1, FS_AddElement DEF Sane
    <3> QED  BY <1>1, <2>2, <3>1, <3>2, <3>3, Types, Numbers
  <2> QED  BY <2>1, <2>2
<1>6. Sane'  BY <1>1, <1>2, <1>3, <1>4, <1>5, ZeroFacts DEF Sane, TypeOK, Trigger
<1>7. Quiet'  BY <1>2 DEF Quiet
<1>8. /\ Ahead(pending, running) + Cardinality(stray) + H <= 1 + clears
      /\ Cardinality(stray) <= clears
  BY DEF IInv, Paid
<1>9. H \in {0, 1}  OBVIOUS
<1> HIDE DEF H
<1>10. Paid'
  <2>1. /\ Ahead(pending', running') + Cardinality(stray') <= clears'
        /\ Cardinality(stray') <= clears'
    BY <1>1, <1>2, <1>4a, <1>5, <1>8, <1>9, Numbers
  <2> QED  BY <1>1, <1>2, <1>4a, <1>5, <2>1, Numbers DEF Paid
<1>11. ~Kicked'  BY <1>2 DEF Kicked
<1>12. Counts'
  <2>1. autoRuns + Ahead(pending, running) + Cardinality(stray) <= MaxRounds + 1 + clears
    BY DEF IInv, Counts, Account
  <2>2. autoRuns' + Ahead(pending', running') + Cardinality(stray') <= MaxRounds + 1 + clears'
    BY <1>1, <1>2, <1>4a, <1>5, <1>9, <2>1, Numbers
  <2> QED  BY <1>11, <2>2 DEF Counts, Account
<1>13. Played'  BY <1>2, <1>4 DEF IInv, Played
<1>14. Granted'
  <2>1. wraps + Cardinality(stray) <= 1 + clears  BY <1>1, Numbers DEF IInv, Granted
  <2>2. wraps' + Cardinality(stray') + 0 <= 1 + clears'
    BY <1>1, <1>2, <1>5, <1>9, <2>1, Numbers
  <2> QED  BY <1>11, <2>2 DEF Granted
<1>15. NeverStalls'  BY <1>2 DEF NeverStalls
<1>16. Unbidden
  <2>1. ~(GoalWork' > GoalWork)  BY <1>1, <1>3, <1>4, Numbers DEF GoalWork
  <2> QED  BY <2>1 DEF Unbidden
<1> QED  BY <1>6, <1>7, <1>10, <1>12, <1>13, <1>14, <1>15, <1>16 DEF Keeps, IInv

LEMMA CheckThrowsKeeps ==
  ASSUME IInv, CheckThrows  PROVE Keeps
<1>1. Sane  BY DEF IInv
<1>2. /\ check' \in {check, None} /\ UNCHANGED <<last, running, pending, autoRuns, wraps, clears>>
      /\ \/ state # "none" /\ state' \in {"blocked", "paused"} /\ armed' = "no" /\ windDown' = "no"
         \/ state = "none" /\ UNCHANGED <<state, armed, windDown>>
         \/ armed' = (IF check' # check THEN "no" ELSE armed) /\ UNCHANGED <<state, windDown>>
  BY DEF CheckThrows, Stops, queue, ghost
<1>3. stray' \subseteq stray  BY DEF CheckThrows
<1>4. IsFiniteSet(stray') /\ Cardinality(stray') \in Nat /\ Cardinality(stray') <= Cardinality(stray)
  BY <1>1, <1>3, FS_Subset, FS_CardinalityType DEF Sane
<1>5. /\ derived' \in Counters /\ derived'.rounds \in Nat
      /\ state # "none" => derived'.rounds = derived.rounds
  <2>1. \/ derived' = derived
        \/ \E result \in Results : derived' = Logged(AfterCheck(derived, result))
    BY DEF CheckThrows
  <2>2. CASE derived' = derived  BY <1>1, <2>2, Types, Numbers
  <2>3. ASSUME NEW result \in Results, derived' = Logged(AfterCheck(derived, result))
        PROVE  /\ derived' \in Counters /\ derived'.rounds \in Nat
               /\ state # "none" => derived'.rounds = derived.rounds
    <3>1. AfterCheck(derived, result) \in Counters /\ AfterCheck(derived, result).rounds = derived.rounds
      BY <1>1, Types, AfterCheckFacts
    <3>2. derived' \in Counters /\ (state # "none" => derived'.rounds = derived.rounds)
      BY <2>3, <3>1, ZeroFacts DEF Logged
    <3> QED  BY <3>2 DEF Counters
  <2> QED  BY <2>1, <2>2, <2>3
<1>6. Sane'  BY <1>1, <1>2, <1>3, <1>4, <1>5 DEF Sane, TypeOK
<1>7. Unbidden /\ Ahead(pending', running') <= Ahead(pending, running)
  BY <1>1, <1>2, Numbers, NoRounds
<1>8. CASE armed' = "no" /\ (state' = "none" => state = "none")
  <2>1. /\ running' # None /\ running'.trigger = "user" /\ running'.phase # "assembling" => autoRuns' = 0
    BY <1>2 DEF IInv, Played
  <2>2. wraps' + Cardinality(stray') <= wraps + Cardinality(stray) + (IF Kicked THEN 1 ELSE 0)
    BY <1>1, <1>2, <1>4, Numbers
  <2>3. Disarms  BY <1>1, <1>2, <1>4, <1>7, <1>8, <2>1, <2>2, Numbers DEF Disarms
  <2> QED  BY <1>6, <1>7, <2>3, DisarmsKeeps DEF Keeps
<1>9. CASE UNCHANGED <<state, armed, windDown, check>>
  <2>1. Quiet'  BY <1>9 DEF IInv, Quiet
  <2>2. Ahead(pending', running') = Ahead(pending, running)  BY <1>2
  <2>3. Paid'
    <3>1. Paid  BY DEF IInv
    <3> QED  BY <1>1, <1>2, <1>4, <1>9, <2>2, <3>1, Numbers DEF Paid
  <2>4. Counts'
    <3>1. Account' <= Account /\ Account' \in Nat /\ Account \in Nat
      BY <1>1, <1>2, <1>4, <2>2, Numbers DEF Account
    <3>2. (Kicked <=> Kicked') /\ Counts  BY <1>9 DEF Kicked, IInv
    <3> QED  BY <1>1, <1>2, <1>9, <3>1, <3>2, Numbers DEF Counts
  <2>5. Played'
    <3>1. Played /\ Quiet  BY DEF IInv
    <3> QED  BY <1>2, <1>5, <1>9, <3>1 DEF Quiet, Played
  <2>6. Granted'
    <3>1. wraps + Cardinality(stray) + (IF Kicked THEN 1 ELSE 0) <= 1 + clears  BY DEF IInv, Granted
    <3>2. (Kicked <=> Kicked') /\ wraps' = wraps  BY <1>2, <1>9 DEF Kicked
    <3>3. wraps' + Cardinality(stray') + (IF Kicked THEN 1 ELSE 0) <= 1 + clears'
      BY <1>1, <1>2, <1>4, <3>1, <3>2, Numbers
    <3> QED  BY <3>2, <3>3 DEF Granted
  <2>7. NeverStalls'  BY <1>2, <1>9 DEF IInv, NeverStalls, Busy
  <2> QED  BY <1>6, <1>7, <2>1, <2>3, <2>4, <2>5, <2>6, <2>7 DEF Keeps, IInv
<1>10. \/ armed' = "no" /\ (state' = "none" => state = "none")
       \/ UNCHANGED <<state, armed, windDown, check>>
  BY <1>2 DEF IInv, Quiet
<1> QED  BY <1>8, <1>9, <1>10

(* A run starts: what was accepted is now counted.                         *)
LEMMA RunStartsKeeps ==
  ASSUME IInv, RunStarts  PROVE Keeps
<1>1. Sane  BY DEF IInv
<1> DEFINE phase == IF state # "none" THEN "paired" ELSE "unpaired"
<1>2. /\ running # None /\ running.phase = "assembling"
      /\ running' = [running EXCEPT !.phase = phase]
      /\ autoRuns' = (IF running.trigger = "user" THEN 0 ELSE Counted(autoRuns + 1))
      /\ UNCHANGED <<state, why, armed, windDown, last, check, stray, derived, pending, wraps, clears>>
  BY DEF RunStarts, host
<1>3. running \in Run /\ phase \in {"paired", "unpaired"}  BY <1>1, <1>2, Types
<1> HIDE DEF phase
<1>4. /\ running' \in Run /\ running'.trigger = running.trigger /\ running'.phase = phase
      /\ running.trigger \in {"user", "goal"}
  BY <1>2, <1>3 DEF Run
<1>5. running' # None  BY <1>4, NoneAssumption
<1>6. Waits(running') = 0 /\ Waits(running) = IF running.trigger = "goal" THEN 1 ELSE 0
  BY <1>2, <1>3, <1>4 DEF Waits
<1>7. /\ autoRuns' \in Nat /\ autoRuns' <= autoRuns + 1
      /\ running.trigger = "user" => autoRuns' = 0
  <2>1. autoRuns + 1 \in Nat /\ autoRuns \in Nat  BY <1>1, Numbers
  <2>2. Counted(autoRuns + 1) \in Nat /\ Counted(autoRuns + 1) <= autoRuns + 1
    BY <2>1, CountedBounds
  <2> QED  BY <1>2, <2>1, <2>2
<1>8. /\ Ahead(pending', running') \in Nat
      /\ Ahead(pending', running') <= Ahead(pending, running)
      /\ autoRuns' + Ahead(pending', running') <= autoRuns + Ahead(pending, running)
  <2>1. GoalsIn(pending) \in Nat /\ autoRuns \in Nat  BY <1>1, Numbers
  <2>2. /\ Ahead(pending', running') = GoalsIn(pending) + 0
        /\ Ahead(pending, running) = GoalsIn(pending) + Waits(running)
    BY <1>2, <1>6 DEF Ahead
  <2> QED  BY <1>4, <1>6, <1>7, <2>1, <2>2
<1>9. Sane'  BY <1>1, <1>2, <1>4, <1>7 DEF Sane, TypeOK
<1>10. Quiet'  BY <1>2 DEF IInv, Quiet
<1>11. Paid'
  <2>1. Paid  BY DEF IInv
  <2> QED  BY <1>1, <1>2, <1>8, <2>1, Numbers DEF Paid
<1>12. Counts'
  <2>1. Account' <= Account /\ Account' \in Nat /\ Account \in Nat
    <3>1. /\ autoRuns \in Nat /\ Ahead(pending, running) \in Nat /\ Cardinality(stray) \in Nat
          /\ autoRuns' \in Nat /\ Cardinality(stray') = Cardinality(stray)
      BY <1>1, <1>2, <1>7, Numbers
    <3> QED  BY <1>8, <3>1 DEF Account
  <2>2. (Kicked <=> Kicked') /\ Counts  BY <1>2 DEF Kicked, IInv
  <2> QED  BY <1>1, <1>2, <2>1, <2>2, Numbers DEF Counts
<1>13. Played'
  <2>1. CASE running.trigger = "user"
    <3>1. autoRuns' = 0 /\ derived'.rounds \in Nat  BY <1>1, <1>2, <1>7, <2>1, Numbers
    <3> QED  BY <3>1 DEF Played
  <2>2. CASE running.trigger = "goal"
    <3>1. ~Scored(running)  BY <1>2 DEF Scored
    <3>2. armed = "yes" /\ derived.rounds < MaxRounds => autoRuns <= derived.rounds + 0
      BY <3>1 DEF IInv, Played
    <3>3. armed' = "yes" => Scored(running')
      BY <1>2, <1>4, <1>5, <2>2 DEF IInv, Quiet, Scored, phase
    <3>4. armed' = "yes" /\ derived'.rounds < MaxRounds => autoRuns' <= derived'.rounds + 1
      BY <1>1, <1>2, <1>7, <3>2, Numbers
    <3> QED  BY <1>4, <2>2, <3>3, <3>4 DEF Played
  <2> QED  BY <1>4, <2>1, <2>2
<1>14. Granted'  BY <1>2 DEF IInv, Granted, Kicked
<1>15. NeverStalls'  BY <1>5 DEF NeverStalls, Busy
<1>16. Unbidden
  <2>1. ~(GoalWork' > GoalWork)  BY <1>1, <1>2, <1>4, <1>5, Numbers DEF GoalWork
  <2> QED  BY <2>1 DEF Unbidden
<1> QED  BY <1>9, <1>10, <1>11, <1>12, <1>13, <1>14, <1>15, <1>16 DEF Keeps, IInv

LEMMA CreateKeeps ==
  ASSUME IInv, Create  PROVE Keeps
<1>1. Sane  BY DEF IInv
<1>2. /\ state = "none" /\ derived' = Zero /\ autoRuns' = 0 /\ wraps' = 0
      /\ UNCHANGED <<check, stray, clears>>
      /\ EnqueueRound("active", "none", "yes", "no")
  BY DEF Create
<1>3. armed = "no" /\ check = None  BY <1>2 DEF IInv, Quiet
<1>4. Ahead(pending, running) + Cardinality(stray) <= clears /\ Cardinality(stray) <= clears
  BY <1>2 DEF IInv, Paid
<1>5. CASE /\ state' = "active" /\ armed' = "yes" /\ windDown' = "no" /\ last' = "yes"
           /\ Submits("goal")
  <2>1. /\ pending' \in Seq(Trigger) /\ running' \in Run \cup {None}
        /\ running' # None \/ pending' # <<>>
        /\ Ahead(pending', running') \in Nat
        /\ Ahead(pending', running') = Ahead(pending, running) + 1
    BY <1>1, <1>5, GoalSubmits
  <2>2. Sane'  BY <1>1, <1>2, <1>3, <1>5, <2>1, ZeroFacts DEF Sane, TypeOK, Trigger
  <2>3. Quiet'  BY <1>5 DEF Quiet
  <2>4. Paid'  BY <1>1, <1>2, <1>3, <1>4, <1>5, <2>1, Numbers DEF Paid
  <2>5. Counts'
    <3>1. autoRuns' + Ahead(pending', running') + Cardinality(stray') <= MaxRounds + clears'
      BY <1>1, <1>2, <1>4, <2>1, Numbers
    <3>2. autoRuns' + Ahead(pending', running') + Cardinality(stray') <= MaxRounds + 1 + clears'
      BY <1>1, <1>2, <1>4, <2>1, Numbers
    <3> QED  BY <1>2, <1>3, <3>1, <3>2 DEF Counts, Account
  <2>6. Played'
    <3>1. derived'.rounds = 0  BY <1>2, ZeroFacts
    <3> QED  BY <1>2, <3>1 DEF Played
  <2>7. Granted'
    <3>1. wraps' + Cardinality(stray') + 1 <= 1 + clears'  BY <1>1, <1>2, <1>4, Numbers
    <3> QED  BY <1>5, <3>1 DEF Granted, Kicked
  <2>8. NeverStalls'  BY <2>1 DEF NeverStalls, Busy
  <2>9. Unbidden  BY <1>5 DEF Unbidden
  <2> QED  BY <2>2, <2>3, <2>4, <2>5, <2>6, <2>7, <2>8, <2>9 DEF Keeps, IInv
<1>6. CASE /\ state' \in {"blocked", "paused"} /\ armed' = "no" /\ windDown' = "no"
           /\ running' = running /\ pending' = pending /\ last' = last
  <2>1. Sane'  BY <1>1, <1>2, <1>6, ZeroFacts DEF Sane, TypeOK
  <2>2. wraps' + Cardinality(stray') <= wraps + Cardinality(stray) + (IF Kicked THEN 1 ELSE 0)
    BY <1>1, <1>2, Numbers
  <2>3. Disarms  BY <1>1, <1>2, <1>6, <2>2, Numbers DEF Disarms
  <2>4. Unbidden  BY <1>1, <1>6, Numbers, NoRounds
  <2> QED  BY <2>1, <2>3, <2>4, DisarmsKeeps DEF Keeps
<1> QED  BY <1>2, <1>5, <1>6, EnqueueFacts

LEMMA RearmKeeps ==
  ASSUME IInv, Rearm, state # "none"  PROVE Keeps
<1>1. Sane  BY DEF IInv
<1>2. /\ Kick("active", "none", "yes", "no", derived, Busy)
      /\ autoRuns' = 0 /\ wraps' = 0
      /\ UNCHANGED <<last, stray, derived, running, pending, clears>>
  BY DEF Rearm, queue
<1>3. /\ Ahead(pending, running) + Cardinality(stray) + (IF check = None THEN 0 ELSE 1) <= 1 + clears
      /\ Cardinality(stray) <= clears
  BY DEF IInv, Paid
<1>4. wraps' + Cardinality(stray') <= wraps + Cardinality(stray) + (IF Kicked THEN 1 ELSE 0)
  BY <1>1, <1>2, Numbers
<1>5. CASE /\ state' \in {"blocked", "paused"} /\ armed' = "no" /\ windDown' = "no"
           /\ check' = check
  <2>1. Sane'  BY <1>1, <1>2, <1>5 DEF Sane, TypeOK
  <2>2. Disarms  BY <1>1, <1>2, <1>4, <1>5, Numbers DEF Disarms
  <2>3. Unbidden  BY <1>1, <1>2, Numbers, NoRounds
  <2> QED  BY <2>1, <2>2, <2>3, DisarmsKeeps DEF Keeps
<1>6. CASE /\ state' = "active" /\ armed' = "yes" /\ windDown' = "no"
           /\ \/ check' = check /\ (check # None \/ Busy)
              \/ check = None /\ ~Busy /\ check' = derived
  <2>1. derived \in Counters /\ derived # None  BY <1>1, Types, NoneAssumption
  <2>2. Sane'  BY <1>1, <1>2, <1>6, <2>1 DEF Sane, TypeOK
  <2>3. Quiet'  BY <1>6 DEF Quiet
  <2>4. ~Busy => Ahead(pending, running) = 0  BY <1>1, Numbers DEF Busy, Ahead, Waits
  <2>5. Paid'
    <3>1. CASE check' = check  BY <1>2, <1>3, <1>6, <3>1 DEF Paid
    <3>2. CASE check = None /\ ~Busy /\ check' = derived
      BY <1>1, <1>2, <1>3, <1>6, <2>1, <2>4, <3>2, Numbers DEF Paid
    <3> QED  BY <1>6, <3>1, <3>2
  <2>6. Counts'
    <3>1. autoRuns' + Ahead(pending', running') + Cardinality(stray') <= MaxRounds + clears'
      BY <1>1, <1>2, <1>3, Numbers
    <3>2. autoRuns' + Ahead(pending', running') + Cardinality(stray') <= MaxRounds + 1 + clears'
      BY <1>1, <1>2, <1>3, Numbers
    <3>3. check' # None => /\ check'.rounds \in Nat
                           /\ Ahead(pending, running) + Cardinality(stray) <= clears
      BY <1>1, <1>3, <1>6, <2>4, Numbers
    <3>4. check' # None =>
            autoRuns' + Ahead(pending', running') + Cardinality(stray') <= check'.rounds + clears'
      BY <1>1, <1>2, <3>3, Numbers
    <3> QED  BY <3>1, <3>2, <3>4 DEF Counts, Account
  <2>7. Played'  BY <1>1, <1>2, Numbers DEF Played
  <2>8. Granted'
    <3>1. wraps' + Cardinality(stray') + 1 <= 1 + clears'  BY <1>1, <1>2, <1>3, Numbers
    <3> QED  BY <1>6, <3>1 DEF Granted, Kicked
  <2>9. NeverStalls'  BY <1>2, <1>6, <2>1 DEF NeverStalls, Busy
  <2>10. Unbidden  BY <1>6 DEF Unbidden
  <2> QED  BY <2>2, <2>3, <2>5, <2>6, <2>7, <2>8, <2>9, <2>10 DEF Keeps, IInv
<1> QED  BY <1>2, <1>5, <1>6, KickFacts

(* The end of a run: the counter catches up with the account.              *)
LEMMA LoopAfterRun ==
  ASSUME IInv, running # None, running.phase # "assembling",
         NEW errored \in BOOLEAN, NEW timeout \in BOOLEAN
  PROVE  LET after == Logged(AfterRun(derived, running, errored, timeout))
         IN  /\ after \in Counters
             /\ armed = "yes" /\ after.rounds < MaxRounds => autoRuns <= after.rounds
<1> DEFINE scan == AfterRun(derived, running, errored, timeout)
           after == Logged(scan)
<1>1. Sane  BY DEF IInv
<1>2. derived \in Counters /\ running \in Run  BY <1>1, Types
<1>3. scan \in Counters
  BY <1>2, AfterRunFacts
<1>4. scan.rounds = IF running.phase = "unpaired" THEN derived.rounds
                    ELSE IF running.trigger = "user" THEN 0 ELSE UpTo(MaxRounds, derived.rounds + 1)
  BY <1>2, AfterRunFacts
<1> HIDE DEF scan
<1>5. after \in Counters  BY <1>3, ZeroFacts DEF Logged
<1>6. \A c \in Counters : c.rounds \in Nat  BY DEF Counters
<1>7. after.rounds \in Nat  BY <1>5, <1>6
<1>8. ASSUME armed = "yes", after.rounds < MaxRounds  PROVE autoRuns <= after.rounds
  <2>1. after = scan  BY <1>8 DEF IInv, Quiet, Logged
  <2>2. /\ running.trigger = "user" => autoRuns = 0
        /\ derived.rounds < MaxRounds =>
             autoRuns <= derived.rounds + (IF Scored(running) THEN 1 ELSE 0)
    BY <1>8 DEF IInv, Played
  <2>3. running.trigger \in {"user", "goal"} /\ running.phase \in {"paired", "unpaired"}
    BY <1>2 DEF Run
  <2>4. CASE running.trigger = "user"
    <3>1. autoRuns = 0  BY <2>2, <2>4
    <3> QED  BY <1>7, <3>1
  <2>5. CASE running.trigger = "goal" /\ running.phase = "unpaired"
    <3>1. after.rounds = derived.rounds /\ ~Scored(running)  BY <1>4, <2>1, <2>5 DEF Scored
    <3> QED  BY <1>1, <1>8, <2>2, <3>1, Numbers
  <2>6. CASE running.trigger = "goal" /\ running.phase = "paired"
    <3>1. after.rounds = UpTo(MaxRounds, derived.rounds + 1)  BY <1>4, <2>1, <2>6
    <3>2. derived.rounds < MaxRounds /\ after.rounds = derived.rounds + 1
      BY <1>1, <1>8, <3>1, Numbers DEF UpTo
    <3>3. IF Scored(running) THEN TRUE ELSE FALSE  BY <2>6 DEF Scored
    <3> QED  BY <1>1, <2>2, <3>2, <3>3, Numbers
  <2> QED  BY <2>3, <2>4, <2>5, <2>6
<1> QED  BY <1>5, <1>8 DEF scan

(* The driver goes on with a counter that has caught up.                   *)
LEMMA DriverKeeps ==
  ASSUME IInv, NEW loop \in Counters, running # None, DriverGoesOn(loop),
         armed = "yes" /\ loop.rounds < MaxRounds => autoRuns <= loop.rounds
  PROVE  Keeps
<1>1. Sane  BY DEF IInv
<1>2. UNCHANGED <<last, stray, autoRuns, wraps, clears>> /\ derived' = loop
  BY DEF DriverGoesOn, ghost
<1>3. \/ UNCHANGED <<state, why, armed, windDown, check>> /\ Advances
      \/ /\ pending = <<>> /\ running' = None /\ pending' = pending
         /\ Kick(state, why, armed, windDown, loop, FALSE)
  BY DEF DriverGoesOn, Advances
<1>4. loop.rounds \in Nat  BY DEF Counters
<1>5. armed = "yes" /\ derived'.rounds < MaxRounds => autoRuns <= derived'.rounds  BY <1>2
<1>6. CASE UNCHANGED <<state, why, armed, windDown, check>> /\ Advances
  <2>1. /\ pending' \in Seq(Trigger) /\ GoalsIn(pending') \in Nat
        /\ Ahead(pending', running') \in Nat
        /\ Ahead(pending', running') = GoalsIn(pending)
        /\ Ahead(pending', running') <= Ahead(pending, running)
        /\ running' \in Run /\ running' # None /\ running'.phase = "assembling"
        /\ GoalsIn(pending') + (IF running'.trigger = "goal" THEN 1 ELSE 0) = GoalsIn(pending)
    BY <1>1, <1>6, NextBegins
  <2>2. Sane'  BY <1>1, <1>2, <1>6, <2>1 DEF Sane, TypeOK, Trigger
  <2>3. Quiet'  BY <1>6 DEF IInv, Quiet
  <2>4. /\ Ahead(pending', running') \in Nat
        /\ Ahead(pending', running') <= Ahead(pending, running)
        /\ UNCHANGED <<stray, clears, check, state, autoRuns>>
    BY <1>2, <1>6, <2>1
  <2>5. Paid'
    <3>1. Paid  BY DEF IInv
    <3> QED  BY <1>1, <2>4, <3>1, Numbers DEF Paid
  <2>6. Counts'
    <3>1. Account' <= Account /\ Account' \in Nat /\ Account \in Nat
      BY <1>1, <2>4, Numbers DEF Account
    <3>2. (Kicked <=> Kicked') /\ Counts  BY <1>6 DEF Kicked, IInv
    <3> QED  BY <1>1, <2>4, <3>1, <3>2, Numbers DEF Counts
  <2>7. Played'
    <3>1. ~Scored(running')  BY <2>1 DEF Scored
    <3>2. armed' = "yes" /\ derived'.rounds < MaxRounds => autoRuns' <= derived'.rounds + 0
      BY <1>2, <1>4, <1>5, <1>6
    <3> QED  BY <2>1, <3>1, <3>2 DEF Played
  <2>8. Granted'  BY <1>2, <1>6 DEF IInv, Granted, Kicked
  <2>9. NeverStalls'  BY <2>1 DEF NeverStalls, Busy
  <2>10. Unbidden
    <3>1. ~(GoalWork' > GoalWork)  BY <1>1, <2>1, Numbers DEF GoalWork
    <3> QED  BY <3>1 DEF Unbidden
  <2> QED  BY <2>2, <2>3, <2>5, <2>6, <2>7, <2>8, <2>9, <2>10 DEF Keeps, IInv
<1>7. CASE /\ pending = <<>> /\ running' = None /\ pending' = pending
           /\ Kick(state, why, armed, windDown, loop, FALSE)
  <2>1. /\ GoalsIn(pending) = 0 /\ Ahead(pending', running') = 0
        /\ Ahead(pending', running') <= Ahead(pending, running)
    <3>1. GoalsIn(pending) = 0 /\ Ahead(pending, running) \in Nat  BY <1>1, <1>7, Numbers
    <3>2. Waits(running') = 0  BY <1>7 DEF Waits
    <3>3. Ahead(pending', running') = 0  BY <1>7, <3>1, <3>2 DEF Ahead
    <3> QED  BY <3>1, <3>3
  <2>2. Unbidden
    <3>1. running' = None /\ GoalsIn(pending') = 0  BY <1>7, <2>1
    <3>2. GoalWork' = 0  BY <3>1 DEF GoalWork
    <3>3. GoalWork \in Nat  BY <1>1, WorkFacts
    <3>4. ~(GoalWork' > GoalWork)  BY <3>2, <3>3
    <3> QED  BY <3>4 DEF Unbidden
  <2>3. \/ /\ state' = state /\ armed' = armed /\ windDown' = windDown /\ check' = check
           /\ armed = "yes" /\ state = "active" => check # None
        \/ /\ state' \in {"blocked", "paused"} /\ armed' = "no" /\ windDown' = "no"
           /\ check' = check
        \/ /\ armed = "yes" /\ state = "active" /\ check = None
           /\ state' = state /\ armed' = armed /\ windDown' = windDown /\ check' = loop
    <3>1. Kick(state, why, armed, windDown, loop, FALSE)  BY <1>7
    <3>2. \/ /\ state' = state /\ armed' = armed /\ windDown' = windDown /\ check' = check
             /\ armed = "yes" /\ state = "active" => check # None \/ FALSE
          \/ /\ state' \in {"blocked", "paused"} /\ armed' = "no" /\ windDown' = "no"
             /\ check' = check
          \/ /\ armed = "yes" /\ state = "active" /\ check = None /\ ~FALSE
             /\ state' = state /\ armed' = armed /\ windDown' = windDown /\ check' = loop
      BY <3>1, KickFacts
    <3> QED  BY <3>2
  <2>4. CASE /\ state' \in {"blocked", "paused"} /\ armed' = "no" /\ windDown' = "no"
             /\ check' = check
    <3>1. Sane'  BY <1>1, <1>2, <1>7, <2>4 DEF Sane, TypeOK
    <3>2. wraps' + Cardinality(stray') <= wraps + Cardinality(stray) + (IF Kicked THEN 1 ELSE 0)
      BY <1>1, <1>2, Numbers
    <3>3. Disarms  BY <1>1, <1>2, <1>7, <2>1, <2>4, <3>2, Numbers DEF Disarms
    <3> QED  BY <2>2, <3>1, <3>3, DisarmsKeeps DEF Keeps
  <2>5. CASE /\ state' = state /\ armed' = armed /\ windDown' = windDown
             /\ \/ check' = check /\ (armed = "yes" /\ state = "active" => check # None)
                \/ armed = "yes" /\ state = "active" /\ check = None /\ check' = loop
    <3>1. loop # None  BY NoneAssumption
    <3>2. Sane'  BY <1>1, <1>2, <1>7, <2>5 DEF Sane, TypeOK
    <3>3. Quiet'  BY <2>5 DEF IInv, Quiet
    <3>4. /\ UNCHANGED <<autoRuns, stray, clears>> /\ (Kicked' <=> Kicked)
          /\ Account' <= Account /\ Account' \in Nat /\ Account \in Nat
      BY <1>1, <1>2, <2>1, <2>5, Numbers DEF Account, Kicked
    <3>5. Paid'
      <4>1. Paid  BY DEF IInv
      <4> QED  BY <1>1, <2>1, <2>5, <3>1, <3>4, <4>1, Numbers DEF Paid
    <3>6. armed = "yes" /\ loop.rounds < MaxRounds => Account' <= loop.rounds + clears'
      <4>1. Cardinality(stray) <= clears  BY DEF IInv, Paid
      <4> QED  BY <1>1, <1>4, <2>1, <3>4, <4>1, Numbers DEF Account
    <3>7. Counts'
      <4>1. Counts  BY DEF IInv
      <4>2. CASE check' = check  BY <1>1, <3>4, <4>1, <4>2, Numbers DEF Counts
      <4>3. CASE armed = "yes" /\ check' = loop
        <5>1. check' # None /\ check'.rounds < MaxRounds => Account' <= check'.rounds + clears'
          BY <3>6, <4>3
        <5>2. /\ Account' <= MaxRounds + 1 + clears'
              /\ Kicked' => Account' <= MaxRounds + clears'
          BY <1>1, <3>4, <4>1, Numbers DEF Counts
        <5> QED  BY <5>1, <5>2 DEF Counts
      <4> QED  BY <2>5, <4>2, <4>3
    <3>8. Played'
      <4>1. ~Scored(running')  BY <1>7 DEF Scored
      <4>2. armed' = "yes" /\ derived'.rounds < MaxRounds => autoRuns' <= derived'.rounds + 0
        BY <1>2, <1>4, <1>5, <2>5
      <4> QED  BY <1>7, <4>1, <4>2 DEF Played
    <3>9. Granted'  BY <1>2, <3>4 DEF IInv, Granted
    <3>10. NeverStalls'  BY <2>5, <3>1 DEF NeverStalls
    <3> QED  BY <2>2, <3>2, <3>3, <3>5, <3>7, <3>8, <3>9, <3>10 DEF Keeps, IInv
  <2> QED  BY <2>3, <2>4, <2>5
<1> QED  BY <1>3, <1>6, <1>7

LEMMA EndRunKeeps ==
  ASSUME IInv, EndRun  PROVE Keeps
<1>1. PICK errored \in BOOLEAN, timeout \in BOOLEAN :
        DriverGoesOn(Logged(AfterRun(derived, running, errored, timeout)))
  BY DEF EndRun
<1> DEFINE loop == Logged(AfterRun(derived, running, errored, timeout))
<1>2. running # None /\ running.phase # "assembling"  BY DEF EndRun
<1>3. /\ loop \in Counters /\ DriverGoesOn(loop)
      /\ armed = "yes" /\ loop.rounds < MaxRounds => autoRuns <= loop.rounds
  BY <1>1, <1>2, LoopAfterRun
<1> HIDE DEF loop
<1> QED  BY <1>2, <1>3, DriverKeeps

(* A run that never started leaves the counter where it was, and it had    *)
(* caught up.                                                              *)
LEMMA AssemblyFailsKeeps ==
  ASSUME IInv, AssemblyFails  PROVE Keeps
<1>1. Sane  BY DEF IInv
<1>2. running # None /\ running.phase = "assembling" /\ DriverGoesOn(derived)
  BY DEF AssemblyFails
<1>3. ~Scored(running)  BY <1>2 DEF Scored
<1>4. armed = "yes" /\ derived.rounds < MaxRounds => autoRuns <= derived.rounds + 0
  BY <1>3 DEF IInv, Played
<1>5. armed = "yes" /\ derived.rounds < MaxRounds => autoRuns <= derived.rounds
  BY <1>1, <1>4, Numbers
<1>6. derived \in Counters  BY <1>1, Types
<1> QED  BY <1>2, <1>5, <1>6, DriverKeeps

(* What a check does when its awaits are over.                             *)
LEMMA FinishesFacts ==
  ASSUME Sane, NEW c \in Counters, NEW result \in Results, NEW a, NEW w, NEW own \in BOOLEAN,
         Finishes(c, result, a, w, own)
  PROVE  /\ derived' \in Counters /\ (state # "none" => derived'.rounds = derived.rounds)
         /\ wraps' \in Nat
         /\ \/ /\ ~Alive(a)
               /\ UNCHANGED <<state, armed, windDown, last, running, pending, wraps>>
            \/ /\ Alive(a)
               /\ state' \in {"complete", "blocked", "paused"} /\ armed' = "no" /\ windDown' = "no"
               /\ UNCHANGED <<last, running, pending>>
               /\ wraps' <= wraps + 1
               /\ w = "yes" => wraps' <= wraps
            \/ /\ Alive(a) /\ w # "yes"
               /\ state' = state /\ armed' = armed /\ last' = "yes"
               /\ Submits("goal")
               /\ wraps' <= wraps + 1
               /\ ~own => windDown' = windDown
               /\ own => \/ windDown' = "yes"
                         \/ windDown' = w /\ wraps' <= wraps /\ c.rounds + 1 <= MaxRounds
<1> DEFINE d == decideGoalRound(c, result, w)
           wrapping == IF ~own THEN windDown ELSE IF d.kind = "winddown" THEN Marked(w) ELSE w
           scan == AfterCheck(derived, result)
<1>1. derived \in Counters /\ wraps \in Nat  BY Types, Numbers
<1>2. scan \in Counters /\ scan.rounds = derived.rounds  BY <1>1, AfterCheckFacts
<1>3. derived' = Logged(scan)  BY DEF Finishes
<1>4. /\ d.kind \in {"complete", "stop", "winddown", "continue"}
      /\ d.kind \in {"winddown", "continue"} => w # "yes"
      /\ d.kind = "continue" => c.rounds + 1 <= MaxRounds
  BY DecisionFacts
<1>5. \/ /\ ~Alive(a)
         /\ UNCHANGED <<state, armed, windDown, last, running, pending, wraps>>
      \/ /\ Alive(a) /\ d.kind \in {"complete", "stop"}
         /\ state' \in {"complete", "blocked", "paused"} /\ armed' = "no" /\ windDown' = "no"
         /\ UNCHANGED <<last, running, pending, wraps>>
      \/ /\ Alive(a) /\ d.kind \in {"winddown", "continue"}
         /\ EnqueueRound(state, why, armed, wrapping)
         /\ wraps' = Counted(wraps + (IF d.kind = "winddown" THEN 1 ELSE 0))
  BY DEF Finishes, Stops, queue
<1> HIDE DEF d, scan
<1>6. derived' \in Counters /\ (state # "none" => derived'.rounds = derived.rounds)
  BY <1>2, <1>3, ZeroFacts DEF Logged
<1>7. CASE d.kind \in {"winddown", "continue"} /\ Alive(a)
           /\ EnqueueRound(state, why, armed, wrapping)
           /\ wraps' = Counted(wraps + (IF d.kind = "winddown" THEN 1 ELSE 0))
  <2>1. /\ wraps' \in Nat /\ wraps' <= wraps + 1
        /\ d.kind = "continue" => wraps' <= wraps
    <3>1. wraps + 0 \in Nat /\ wraps + 1 \in Nat /\ wraps + 0 = wraps  BY <1>1
    <3>2. /\ d.kind = "winddown" => wraps' = Counted(wraps + 1)
          /\ d.kind = "continue" => wraps' = Counted(wraps + 0)
      BY <1>7
    <3>3. /\ Counted(wraps + 1) \in Nat /\ Counted(wraps + 1) <= wraps + 1
          /\ Counted(wraps + 0) \in Nat /\ Counted(wraps + 0) <= wraps
      BY <3>1, CountedBounds
    <3>4. Counted(wraps + 0) <= wraps + 1  BY <1>1, <3>3
    <3> QED  BY <1>7, <3>2, <3>3, <3>4
  <2>2. /\ ~own => wrapping = windDown
        /\ own /\ d.kind = "winddown" => wrapping = "yes"
        /\ own /\ d.kind = "continue" => wrapping = w
    BY DEF Marked
  <2> HIDE DEF wrapping
  <2>3. w # "yes"  BY <1>4, <1>7
  <2>4. CASE /\ state' = state /\ armed' = armed /\ windDown' = wrapping /\ last' = "yes"
             /\ Submits("goal")
    BY <1>4, <1>6, <1>7, <2>1, <2>2, <2>3, <2>4
  <2>5. CASE /\ state' \in {"blocked", "paused"} /\ armed' = "no" /\ windDown' = "no"
             /\ running' = running /\ pending' = pending /\ last' = last
    BY <1>6, <1>7, <2>1, <2>3, <2>5
  <2> QED  BY <1>7, <2>4, <2>5, EnqueueFacts
<1>8. CASE ~Alive(a)
           /\ UNCHANGED <<state, armed, windDown, last, running, pending, wraps>>
  BY <1>1, <1>6, <1>8
<1>9. CASE Alive(a)
           /\ state' \in {"complete", "blocked", "paused"} /\ armed' = "no" /\ windDown' = "no"
           /\ UNCHANGED <<last, running, pending, wraps>>
  <2>1. wraps' \in Nat /\ wraps' <= wraps /\ wraps' <= wraps + 1  BY <1>1, <1>9
  <2> QED  BY <1>6, <1>9, <2>1
<1> QED  BY <1>5, <1>7, <1>8, <1>9

(* The counter, as one more round is submitted.                            *)
LEMMA PlayedOn ==
  ASSUME IInv, Sane', Submits("goal"), autoRuns' = autoRuns,
         armed' = armed, derived'.rounds = derived.rounds
  PROVE  Played'
<1>1. Sane /\ Played  BY DEF IInv
<1>2. \/ running = None /\ running' # None /\ running'.phase = "assembling"
      \/ running' = running
  BY <1>1, GoalSubmits
<1>3. CASE running' = running  BY <1>1, <1>3 DEF Played, Scored
<1>4. CASE running = None /\ running'.phase = "assembling"
  <2>1. ~Scored(running') /\ ~Scored(running)  BY <1>4 DEF Scored
  <2> QED  BY <1>1, <1>4, <2>1 DEF Played
<1> QED  BY <1>2, <1>3, <1>4

LEMMA CheckEndsKeeps ==
  ASSUME IInv, CheckEnds  PROVE Keeps
<1>1. Sane  BY DEF IInv
<1>2. check # None /\ check' = None /\ UNCHANGED <<stray, autoRuns, clears>>  BY DEF CheckEnds
<1>3. PICK result \in Results : Finishes(check, result, armed, windDown, TRUE)  BY DEF CheckEnds
<1>4. check \in Counters  BY <1>1, <1>2, Types
<1>5. /\ derived' \in Counters /\ (state # "none" => derived'.rounds = derived.rounds)
      /\ wraps' \in Nat
      /\ \/ /\ ~Alive(armed)
            /\ UNCHANGED <<state, armed, windDown, last, running, pending, wraps>>
         \/ /\ Alive(armed)
            /\ state' \in {"complete", "blocked", "paused"} /\ armed' = "no" /\ windDown' = "no"
            /\ UNCHANGED <<last, running, pending>>
            /\ wraps' <= wraps + 1
            /\ windDown = "yes" => wraps' <= wraps
         \/ /\ Alive(armed) /\ windDown # "yes"
            /\ state' = state /\ armed' = armed /\ last' = "yes"
            /\ Submits("goal")
            /\ wraps' <= wraps + 1
            /\ \/ windDown' = "yes"
               \/ windDown' = windDown /\ wraps' <= wraps /\ check.rounds + 1 <= MaxRounds
  BY <1>1, <1>3, <1>4, FinishesFacts
<1>6. CASE /\ ~Alive(armed)
           /\ UNCHANGED <<state, armed, windDown, last, running, pending, wraps>>
  <2>1. Sane'  BY <1>1, <1>2, <1>5, <1>6 DEF Sane, TypeOK
  <2>2. Quiet'  BY <1>2, <1>6 DEF IInv, Quiet
  <2>3. Paid'  BY <1>1, <1>2, <1>6, Numbers DEF IInv, Paid
  <2>4. Counts'  BY <1>2, <1>6 DEF IInv, Counts, Account, Kicked
  <2>5. Played'
    <3>1. Played /\ Quiet  BY DEF IInv
    <3> QED  BY <1>2, <1>5, <1>6, <3>1 DEF Quiet, Played
  <2>6. Granted'  BY <1>2, <1>6 DEF IInv, Granted, Kicked
  <2>7. NeverStalls'  BY <1>6 DEF NeverStalls, Alive
  <2>8. Unbidden  BY <1>1, <1>6, Numbers, NoRounds
  <2> QED  BY <2>1, <2>2, <2>3, <2>4, <2>5, <2>6, <2>7, <2>8 DEF Keeps, IInv
<1>7. CASE /\ Alive(armed)
           /\ state' \in {"complete", "blocked", "paused"} /\ armed' = "no" /\ windDown' = "no"
           /\ UNCHANGED <<last, running, pending>>
           /\ wraps' <= wraps + 1
           /\ windDown = "yes" => wraps' <= wraps
  <2>1. Sane'  BY <1>1, <1>2, <1>5, <1>7 DEF Sane, TypeOK
  <2>2. wraps' + Cardinality(stray') <= wraps + Cardinality(stray) + (IF Kicked THEN 1 ELSE 0)
    <3>1. CASE windDown = "yes"  BY <1>1, <1>2, <1>5, <1>7, <3>1, Numbers
    <3>2. CASE windDown # "yes"
      <4>1. windDown = "no" /\ armed = "yes"  BY <1>1, <1>7, <3>2, Types DEF Alive
      <4> QED  BY <1>1, <1>2, <1>5, <1>7, <4>1, Numbers DEF Kicked
    <3> QED  BY <3>1, <3>2
  <2>3. running' # None /\ running'.trigger = "user" /\ running'.phase # "assembling" => autoRuns' = 0
    BY <1>2, <1>7 DEF IInv, Played
  <2>4. Disarms  BY <1>1, <1>2, <1>7, <2>2, <2>3, Numbers DEF Disarms
  <2>5. Unbidden  BY <1>1, <1>7, Numbers, NoRounds
  <2> QED  BY <2>1, <2>4, <2>5, DisarmsKeeps DEF Keeps
<1>8. CASE /\ Alive(armed) /\ windDown # "yes"
           /\ state' = state /\ armed' = armed /\ last' = "yes"
           /\ Submits("goal")
           /\ wraps' <= wraps + 1
           /\ \/ windDown' = "yes"
              \/ windDown' = windDown /\ wraps' <= wraps /\ check.rounds + 1 <= MaxRounds
  <2>1. state = "active" /\ state' = "active" /\ armed = "yes" /\ armed' = "yes" /\ windDown = "no"
    BY <1>1, <1>8, Types DEF Alive
  <2>2. /\ pending' \in Seq(Trigger) /\ running' \in Run \cup {None}
        /\ running' # None \/ pending' # <<>>
        /\ Ahead(pending', running') \in Nat
        /\ Ahead(pending', running') = Ahead(pending, running) + 1
    BY <1>1, <1>8, Numbers, GoalSubmits
  <2>3. windDown' \in {"yes", "no"} /\ (Kicked' => wraps' <= wraps /\ check.rounds < MaxRounds)
    <3>1. check.rounds + 1 <= MaxRounds => check.rounds < MaxRounds  BY <1>1, <1>2, Numbers
    <3> QED  BY <1>8, <2>1, <3>1 DEF Kicked
  <2>4. Sane'  BY <1>1, <1>2, <1>5, <1>8, <2>1, <2>2, <2>3 DEF Sane, TypeOK, Trigger
  <2>5. Quiet'  BY <2>1 DEF Quiet
  <2>5a. /\ autoRuns' = autoRuns /\ Ahead(pending', running') \in Nat
         /\ Ahead(pending', running') = Ahead(pending, running) + 1
    BY <1>2, <2>2
  <2>5b. /\ Ahead(pending, running) \in Nat /\ Cardinality(stray) \in Nat
         /\ autoRuns \in Nat /\ clears \in Nat /\ MaxRounds \in Nat
    BY <1>1, Numbers
  <2>6. Paid'
    <3>1. /\ Cardinality(stray) <= clears
          /\ Ahead(pending, running) + Cardinality(stray) + 1 <= 1 + clears
      BY <1>2 DEF IInv, Paid
    <3>2. Ahead(pending', running') + Cardinality(stray') + 0 <= 1 + clears'
      BY <1>2, <2>5a, <2>5b, <3>1
    <3> QED  BY <1>2, <2>1, <3>1, <3>2 DEF Paid
  <2>7. Counts'
    <3>1. /\ autoRuns + Ahead(pending, running) + Cardinality(stray) <= MaxRounds + clears
          /\ check.rounds < MaxRounds =>
               autoRuns + Ahead(pending, running) + Cardinality(stray) <= check.rounds + clears
      BY <1>2, <2>1 DEF IInv, Counts, Account, Kicked
    <3>2. autoRuns' + Ahead(pending', running') + Cardinality(stray') <= MaxRounds + 1 + clears'
      BY <1>2, <2>5a, <2>5b, <3>1
    <3>3. ASSUME check.rounds < MaxRounds
          PROVE  autoRuns' + Ahead(pending', running') + Cardinality(stray') <= MaxRounds + clears'
      <4>1. check.rounds \in Nat /\ check.rounds + 1 <= MaxRounds  BY <1>1, <1>2, <2>5b, <3>3, Numbers
      <4>2. autoRuns + Ahead(pending, running) + Cardinality(stray) <= check.rounds + clears
        BY <3>1, <3>3
      <4>3. clears' = clears /\ Cardinality(stray') = Cardinality(stray)  BY <1>2
      <4> QED  BY <2>5a, <2>5b, <4>1, <4>2, <4>3
    <3> QED  BY <1>2, <2>3, <3>2, <3>3 DEF Counts, Account
  <2>8. Played'  BY <1>2, <1>5, <1>8, <2>1, <2>4, PlayedOn
  <2>9. Granted'
    <3>1. wraps + Cardinality(stray) + 1 <= 1 + clears  BY <2>1 DEF IInv, Granted, Kicked
    <3>2. /\ wraps' + Cardinality(stray') + 0 <= 1 + clears'
          /\ Kicked' => wraps' + Cardinality(stray') + 1 <= 1 + clears'
      BY <1>1, <1>2, <1>5, <1>8, <2>3, <3>1, Numbers
    <3> QED  BY <3>2 DEF Granted
  <2>10. NeverStalls'  BY <2>2 DEF NeverStalls, Busy
  <2>11. Unbidden  BY <2>1 DEF Unbidden
  <2> QED  BY <2>4, <2>5, <2>6, <2>7, <2>8, <2>9, <2>10, <2>11 DEF Keeps, IInv
<1> QED  BY <1>5, <1>6, <1>7, <1>8

(* A check whose goal was cleared: the round it may still add is paid for. *)
LEMMA StrayEndsKeeps ==
  ASSUME IInv, StrayEnds  PROVE Keeps
<1>1. Sane  BY DEF IInv
<1>2. UNCHANGED <<check, autoRuns, clears>>  BY DEF StrayEnds
<1>3. PICK s \in stray, result \in Results :
        Finishes(s.loop, result, s.armed, s.windDown, FALSE) /\ stray' = stray \ {s}
  BY DEF StrayEnds
<1>4. s.loop \in Counters  BY <1>1, Types
<1>5. /\ derived' \in Counters /\ (state # "none" => derived'.rounds = derived.rounds)
      /\ wraps' \in Nat
      /\ \/ /\ ~Alive(s.armed)
            /\ UNCHANGED <<state, armed, windDown, last, running, pending, wraps>>
         \/ /\ Alive(s.armed)
            /\ state' \in {"complete", "blocked", "paused"} /\ armed' = "no" /\ windDown' = "no"
            /\ UNCHANGED <<last, running, pending>>
            /\ wraps' <= wraps + 1
         \/ /\ Alive(s.armed)
            /\ state' = state /\ armed' = armed /\ last' = "yes" /\ windDown' = windDown
            /\ Submits("goal")
            /\ wraps' <= wraps + 1
  BY <1>1, <1>3, <1>4, FinishesFacts
<1>6. /\ IsFiniteSet(stray') /\ stray' \subseteq stray
      /\ Cardinality(stray') \in Nat /\ Cardinality(stray') + 1 = Cardinality(stray)
  <2>1. IsFiniteSet(stray') /\ Cardinality(stray') = Cardinality(stray) - 1
    BY <1>1, <1>3, FS_RemoveElement DEF Sane
  <2>2. Cardinality(stray') \in Nat  BY <2>1, FS_CardinalityType
  <2> QED  BY <1>1, <1>3, <2>1, <2>2, Numbers
<1>7. CASE /\ ~Alive(s.armed)
           /\ UNCHANGED <<state, armed, windDown, last, running, pending, wraps>>
  <2>1. Sane'  BY <1>1, <1>2, <1>5, <1>6, <1>7 DEF Sane, TypeOK
  <2>2. Quiet'  BY <1>2, <1>6, <1>7 DEF IInv, Quiet
  <2>3. Paid'
    <3>1. Paid  BY DEF IInv
    <3> QED  BY <1>1, <1>2, <1>6, <1>7, <3>1, Numbers DEF Paid
  <2>4. Counts'
    <3>1. Account' <= Account /\ Account' \in Nat /\ Account \in Nat
      BY <1>1, <1>2, <1>6, <1>7, Numbers DEF Account
    <3>2. (Kicked <=> Kicked')  BY <1>7 DEF Kicked
    <3>3. Counts  BY DEF IInv
    <3> QED  BY <1>1, <1>2, <3>1, <3>2, <3>3, Numbers DEF Counts
  <2>5. Played'
    <3>1. Played /\ Quiet  BY DEF IInv
    <3> QED  BY <1>2, <1>5, <1>7, <3>1 DEF Quiet, Played
  <2>6. Granted'
    <3>1. wraps + Cardinality(stray) + (IF Kicked THEN 1 ELSE 0) <= 1 + clears  BY DEF IInv, Granted
    <3>2. (Kicked <=> Kicked') /\ wraps' = wraps /\ clears' = clears  BY <1>2, <1>7 DEF Kicked
    <3>3. wraps \in Nat /\ clears \in Nat  BY <1>1, Numbers
    <3>4. Cardinality(stray') \in Nat /\ Cardinality(stray') + 1 = Cardinality(stray)  BY <1>6
    <3>5. wraps' + Cardinality(stray') + (IF Kicked THEN 1 ELSE 0) <= 1 + clears'
      BY <3>1, <3>2, <3>3, <3>4
    <3> QED  BY <3>2, <3>5 DEF Granted
  <2>7. NeverStalls'  BY <1>2, <1>7 DEF IInv, NeverStalls, Busy
  <2>8. Unbidden  BY <1>1, <1>7, Numbers, NoRounds
  <2> QED  BY <2>1, <2>2, <2>3, <2>4, <2>5, <2>6, <2>7, <2>8 DEF Keeps, IInv
<1>8. CASE /\ Alive(s.armed)
           /\ state' \in {"complete", "blocked", "paused"} /\ armed' = "no" /\ windDown' = "no"
           /\ UNCHANGED <<last, running, pending>>
           /\ wraps' <= wraps + 1
  <2>1. Sane'  BY <1>1, <1>2, <1>5, <1>6, <1>8 DEF Sane, TypeOK
  <2>2. wraps' + Cardinality(stray') <= wraps + Cardinality(stray) + (IF Kicked THEN 1 ELSE 0)
    BY <1>1, <1>5, <1>6, <1>8, Numbers
  <2>3. running' # None /\ running'.trigger = "user" /\ running'.phase # "assembling" => autoRuns' = 0
    BY <1>2, <1>8 DEF IInv, Played
  <2>4. Disarms  BY <1>1, <1>2, <1>6, <1>8, <2>2, <2>3, Numbers DEF Disarms
  <2>5. Unbidden  BY <1>1, <1>8, Numbers, NoRounds
  <2> QED  BY <2>1, <2>4, <2>5, DisarmsKeeps DEF Keeps
<1>9. CASE /\ Alive(s.armed)
           /\ state' = state /\ armed' = armed /\ last' = "yes" /\ windDown' = windDown
           /\ Submits("goal")
           /\ wraps' <= wraps + 1
  <2>1. state = "active" /\ state' = "active" /\ stray' # stray
    BY <1>3, <1>9 DEF Alive
  <2>2. /\ pending' \in Seq(Trigger) /\ running' \in Run \cup {None}
        /\ running' # None \/ pending' # <<>>
        /\ Ahead(pending', running') \in Nat
        /\ Ahead(pending', running') = Ahead(pending, running) + 1
    BY <1>1, <1>9, Numbers, GoalSubmits
  <2>3. Sane'  BY <1>1, <1>2, <1>5, <1>6, <1>9, <2>2 DEF Sane, TypeOK, Trigger
  <2>4. Quiet'  BY <2>1 DEF Quiet
  <2>4a. /\ autoRuns' = autoRuns /\ Ahead(pending', running') \in Nat
         /\ Ahead(pending', running') = Ahead(pending, running) + 1
    BY <1>2, <2>2
  <2>4b. /\ Ahead(pending, running) \in Nat /\ Cardinality(stray) \in Nat
         /\ autoRuns \in Nat /\ clears \in Nat /\ MaxRounds \in Nat
    BY <1>1, Numbers
  <2>4c. Cardinality(stray') \in Nat /\ Cardinality(stray') + 1 = Cardinality(stray)
    BY <1>6
  <2>5. Paid'
    <3>1. /\ Cardinality(stray) <= clears
          /\ Ahead(pending, running) + Cardinality(stray) + (IF check = None THEN 0 ELSE 1) <= 1 + clears
      BY DEF IInv, Paid
    <3>2. Cardinality(stray') <= clears'  BY <1>1, <1>2, <1>6, <3>1, Numbers
    <3>3. Ahead(pending', running') + Cardinality(stray') + (IF check = None THEN 0 ELSE 1) <= 1 + clears'
      BY <1>2, <2>4a, <2>4b, <2>4c, <3>1
    <3> QED  BY <1>2, <2>1, <3>2, <3>3 DEF Paid
  <2>6. Counts'
    <3>1. Account' <= Account /\ Account' \in Nat /\ Account \in Nat
      BY <2>4a, <2>4b, <2>4c DEF Account
    <3>2. (Kicked <=> Kicked')  BY <1>9 DEF Kicked
    <3>3. Counts  BY DEF IInv
    <3> QED  BY <1>1, <1>2, <3>1, <3>2, <3>3, Numbers DEF Counts
  <2>7. Played'  BY <1>2, <1>5, <1>9, <2>1, <2>3, PlayedOn
  <2>8. Granted'
    <3>1. wraps + Cardinality(stray) + (IF Kicked THEN 1 ELSE 0) <= 1 + clears  BY DEF IInv, Granted
    <3>2. Kicked <=> Kicked'  BY <1>9 DEF Kicked
    <3>3. wraps' \in Nat /\ wraps' <= wraps + 1  BY <1>5, <1>9
    <3>4. wraps \in Nat /\ clears' = clears  BY <1>1, <1>2, Numbers
    <3>5. wraps' + Cardinality(stray') + (IF Kicked THEN 1 ELSE 0) <= 1 + clears'
      BY <2>4b, <2>4c, <3>1, <3>3, <3>4
    <3> QED  BY <3>2, <3>5 DEF Granted
  <2>9. NeverStalls'  BY <2>2 DEF NeverStalls, Busy
  <2>10. Unbidden  BY <2>1 DEF Unbidden
  <2> QED  BY <2>3, <2>4, <2>5, <2>6, <2>7, <2>8, <2>9, <2>10 DEF Keeps, IInv
<1> QED  BY <1>5, <1>7, <1>8, <1>9

LEMMA StutterKeeps ==
  ASSUME IInv, UNCHANGED vars  PROVE Keeps
<1>1. Sane  BY DEF IInv
<1>2. /\ UNCHANGED <<state, why, armed, windDown, last, check, stray, derived, running, pending>>
      /\ UNCHANGED <<autoRuns, wraps, clears>>
  BY DEF vars, host, queue, ghost
<1>3. IInv'
  BY <1>2 DEF IInv, Sane, TypeOK, Quiet, Paid, Counts, Account, Kicked, Played, Scored, Granted,
              NeverStalls, Busy
<1>4. Unbidden  BY <1>1, <1>2, Numbers, NoRounds
<1> QED  BY <1>3, <1>4 DEF Keeps

LEMMA NextKeeps ==
  ASSUME IInv, [Next]_vars  PROVE Keeps
<1>1. CASE Edit  BY <1>1, RearmKeeps DEF Edit
<1>2. CASE Resume  BY <1>2, RearmKeeps DEF Resume
<1> QED
  BY <1>1, <1>2, UserMessageKeeps, CreateKeeps, PauseKeeps, UserStopKeeps, ClearKeeps,
     RunStartsKeeps, AssemblyFailsKeeps, EndRunKeeps, CheckEndsKeeps, StrayEndsKeeps, CheckThrowsKeeps, RestartKeeps, StutterKeeps DEF Next
-----------------------------------------------------------------------------
(* The loop's state has its types, whatever the limits.                    *)
THEOREM GoalIsTyped == Spec => []TypeOK
<1>1. IInv => TypeOK  BY DEF IInv, Sane
<1>2. IInv /\ [Next]_vars => IInv'  BY NextKeeps DEF Keeps
<1> QED  BY <1>1, <1>2, InitInv, PTL DEF Spec

(* The goal runs that started since a human last acted stay within the     *)
(* round limit, the wrap-up round and one round for every clear.           *)
THEOREM AutonomyBounded == Spec => []AutonomyIsBounded
<1>1. IInv => AutonomyIsBounded
  <2>1. IInv => Sane /\ autoRuns + Ahead(pending, running) + Cardinality(stray) <= MaxRounds + 1 + clears
    BY DEF IInv, Counts, Account
  <2> QED  BY <2>1, Numbers DEF AutonomyIsBounded
<1>2. IInv /\ [Next]_vars => IInv'  BY NextKeeps DEF Keeps
<1> QED  BY <1>1, <1>2, InitInv, PTL DEF Spec

(* Over budget, the loop grants one wrap-up round until a human acts, and  *)
(* one for every clear.                                                    *)
THEOREM WindsDownAtMostOnce == Spec => []WindsDownOnce
<1>1. IInv => WindsDownOnce
  <2>1. IInv => Sane /\ wraps + Cardinality(stray) + (IF Kicked THEN 1 ELSE 0) <= 1 + clears
    BY DEF IInv, Granted
  <2> QED  BY <2>1, Numbers DEF WindsDownOnce
<1>2. IInv /\ [Next]_vars => IInv'  BY NextKeeps DEF Keeps
<1> QED  BY <1>1, <1>2, InitInv, PTL DEF Spec

(* While the loop is armed for an active goal, a run, a queued entry or a  *)
(* check of its own is there to carry it on.                               *)
THEOREM LoopCarriesOn == Spec => []NeverStalls
<1>1. IInv => NeverStalls  BY DEF IInv
<1>2. IInv /\ [Next]_vars => IInv'  BY NextKeeps DEF Keeps
<1> QED  BY <1>1, <1>2, InitInv, PTL DEF Spec

(* No step of anyone adds a goal round unless the goal is active and the   *)
(* loop armed, but a check whose goal was cleared under it: that asks only *)
(* whether there is an active goal.                                        *)
THEOREM NothingUnbidden == Spec => RoundsOnlyWhileArmed
<1>1. IInv /\ [Next]_vars => IInv'  BY NextKeeps DEF Keeps
<1>2. IInv /\ [Next]_vars => [GoalWork' > GoalWork =>
                               state' = "active" /\ (armed' = "yes" \/ stray' # stray)]_vars
  BY NextKeeps DEF Keeps, Unbidden
<1> QED  BY <1>1, <1>2, InitInv, PTL DEF Spec, RoundsOnlyWhileArmed
=============================================================================
