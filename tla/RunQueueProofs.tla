--------------------------- MODULE RunQueueProofs ---------------------------
(***************************************************************************)
(* Proofs about RunQueue, for every set of messages, every queue limit and *)
(* wake budget, and any number of failed writes and crashes.               *)
(***************************************************************************)
EXTENDS RunQueue, SequenceTheorems, FiniteSetTheorems, TLAPS
-----------------------------------------------------------------------------
(***************************************************************************)
(* Facts about sequences without repetition: what each operation on a      *)
(* queue does to the set of its elements and to their being distinct.      *)
(***************************************************************************)
(* A sequence's elements, by position. *)
LEMMA RangeDef ==
  ASSUME NEW S, NEW s \in Seq(S)
  PROVE  /\ Range(s) = {s[i] : i \in 1 .. Len(s)}
         /\ Range(s) \subseteq S
         /\ \A i \in 1 .. Len(s) : s[i] \in Range(s)
BY DEF Range

(* The empty sequence has no elements. *)
LEMMA EmptyFacts == Range(<<>>) = {} /\ IsInjective(<<>>)
BY DEF Range, IsInjective

(* Concatenation unites the elements; it is free of repetition exactly     *)
(* when both parts are and they share nothing.                             *)
LEMMA ConcatFacts ==
  ASSUME NEW S, NEW s \in Seq(S), NEW t \in Seq(S)
  PROVE  /\ s \o t \in Seq(S)
         /\ Range(s \o t) = Range(s) \cup Range(t)
         /\ IsInjective(s \o t) <=>
              IsInjective(s) /\ IsInjective(t) /\ Range(s) \cap Range(t) = {}
<1> DEFINE u == s \o t
<1>1. /\ u \in Seq(S) /\ Len(u) = Len(s) + Len(t)
      /\ DOMAIN u = 1 .. Len(s) + Len(t)
      /\ DOMAIN s = 1 .. Len(s) /\ DOMAIN t = 1 .. Len(t)
      /\ Len(s) \in Nat /\ Len(t) \in Nat
  OBVIOUS
<1>2. \A i \in 1 .. Len(s) : u[i] = s[i]
  OBVIOUS
<1>3. \A j \in 1 .. Len(t) : u[Len(s) + j] = t[j] /\ Len(s) + j \in DOMAIN u
  OBVIOUS
<1>4. Range(u) = Range(s) \cup Range(t)
  BY RangeConcatenation
<1>5. ASSUME IsInjective(u)
      PROVE  IsInjective(s) /\ IsInjective(t) /\ Range(s) \cap Range(t) = {}
  <2>1. \A i \in 1 .. Len(s) : u[i] = s[i] /\ i \in DOMAIN u
    BY <1>1, <1>2
  <2>2. IsInjective(s)
    BY <1>1, <1>5, <2>1 DEF IsInjective
  <2>3. ASSUME NEW i \in 1 .. Len(t), NEW j \in 1 .. Len(t), t[i] = t[j]
        PROVE  i = j
    <3>1. Len(s) + i = Len(s) + j
      BY <1>3, <1>5, <2>3 DEF IsInjective
    <3> QED BY <1>1, <3>1
  <2>4. \A i \in 1 .. Len(s), j \in 1 .. Len(t) : s[i] # t[j]
    <3> SUFFICES ASSUME NEW i \in 1 .. Len(s), NEW j \in 1 .. Len(t), s[i] = t[j]
                 PROVE  FALSE
      OBVIOUS
    <3>1. i = Len(s) + j
      BY <1>3, <1>5, <2>1 DEF IsInjective
    <3> QED BY <1>1, <3>1
  <2> QED BY <1>1, <2>2, <2>3, <2>4 DEF IsInjective, Range
<1>6. ASSUME IsInjective(s), IsInjective(t), Range(s) \cap Range(t) = {}
      PROVE  IsInjective(u)
  <2> SUFFICES ASSUME NEW a \in DOMAIN u, NEW b \in DOMAIN u, u[a] = u[b]
               PROVE  a = b
    BY DEF IsInjective
  <2>1. \A i \in 1 .. Len(s), j \in 1 .. Len(t) : s[i] # t[j]
    BY <1>1, <1>6 DEF Range
  <2>2. \A k \in DOMAIN u : k \in 1 .. Len(s) \/ k - Len(s) \in 1 .. Len(t)
    BY <1>1
  <2>3. CASE a \in 1 .. Len(s) /\ b \in 1 .. Len(s)
    BY <1>1, <1>2, <1>6, <2>3 DEF IsInjective
  <2>4. CASE a - Len(s) \in 1 .. Len(t) /\ b - Len(s) \in 1 .. Len(t)
    <3>1. u[a] = t[a - Len(s)] /\ u[b] = t[b - Len(s)]
      BY <1>1, <1>3, <2>4
    <3>2. a - Len(s) = b - Len(s)
      BY <1>1, <1>6, <2>4, <3>1 DEF IsInjective
    <3> QED BY <1>1, <3>2
  <2>5. CASE a \in 1 .. Len(s) /\ b - Len(s) \in 1 .. Len(t)
    BY <1>1, <1>2, <1>3, <2>1, <2>5
  <2>6. CASE b \in 1 .. Len(s) /\ a - Len(s) \in 1 .. Len(t)
    BY <1>1, <1>2, <1>3, <2>1, <2>6
  <2> QED BY <2>2, <2>3, <2>4, <2>5, <2>6
<1> QED BY <1>1, <1>4, <1>5, <1>6

(* Taking the head off. *)
LEMMA HeadTailFacts ==
  ASSUME NEW S, NEW s \in Seq(S), s # <<>>
  PROVE  /\ Head(s) \in S /\ Tail(s) \in Seq(S)
         /\ Range(s) = {Head(s)} \cup Range(Tail(s))
         /\ IsInjective(s) => IsInjective(Tail(s)) /\ Head(s) \notin Range(Tail(s))
<1>1. /\ Head(s) \in S /\ Tail(s) \in Seq(S) /\ Len(Tail(s)) = Len(s) - 1
      /\ Len(s) \in Nat \ {0} /\ Head(s) = s[1]
      /\ \A i \in 1 .. Len(s) - 1 : Tail(s)[i] = s[i + 1]
      /\ DOMAIN s = 1 .. Len(s) /\ DOMAIN Tail(s) = 1 .. Len(s) - 1
  BY HeadTailProperties, EmptySeq, LenProperties
<1>2. Range(Tail(s)) \subseteq Range(s) /\ Head(s) \in Range(s)
  BY <1>1 DEF Range
<1>3. ASSUME NEW i \in 1 .. Len(s) PROVE s[i] \in {Head(s)} \cup Range(Tail(s))
  <2>1. CASE i = 1
    BY <1>1, <2>1
  <2>2. CASE i # 1
    <3>1. i - 1 \in 1 .. Len(s) - 1 /\ s[i] = Tail(s)[i - 1]
      BY <1>1, <1>3, <2>2
    <3> QED BY <1>1, <3>1 DEF Range
  <2> QED BY <2>1, <2>2
<1>4. ASSUME IsInjective(s)
      PROVE  IsInjective(Tail(s)) /\ Head(s) \notin Range(Tail(s))
  <2>1. \A i \in DOMAIN Tail(s) : i + 1 \in DOMAIN s /\ i + 1 # 1 /\ Tail(s)[i] = s[i + 1]
    BY <1>1
  <2>2. IsInjective(Tail(s))
    BY <1>1, <1>4, <2>1 DEF IsInjective
  <2>3. \A i \in DOMAIN Tail(s) : Tail(s)[i] # s[1]
    BY <1>1, <1>4, <2>1 DEF IsInjective
  <2> QED BY <1>1, <2>2, <2>3 DEF Range
<1>5. Range(s) = {Head(s)} \cup Range(Tail(s))
  BY <1>1, <1>2, <1>3, RangeDef
<1> QED BY <1>1, <1>4, <1>5

(* One element is a sequence without repetition. *)
LEMMA SingletonFacts ==
  ASSUME NEW S, NEW e \in S
  PROVE  <<e>> \in Seq(S) /\ Range(<<e>>) = {e} /\ IsInjective(<<e>>) /\ Len(<<e>>) = 1
<1>1. <<e>> \in Seq(S) /\ Len(<<e>>) = 1 /\ <<e>>[1] = e /\ DOMAIN <<e>> = 1 .. 1
  OBVIOUS
<1> QED BY <1>1 DEF Range, IsInjective

(* Adding an element at either end. *)
LEMMA AddFacts ==
  ASSUME NEW S, NEW s \in Seq(S), NEW e \in S
  PROVE  /\ Append(s, e) \in Seq(S) /\ Append(s, e) # <<>>
         /\ <<e>> \o s \in Seq(S) /\ <<e>> \o s # <<>>
         /\ Range(Append(s, e)) = Range(s) \cup {e}
         /\ Range(<<e>> \o s) = Range(s) \cup {e}
         /\ IsInjective(s) /\ e \notin Range(s) =>
              IsInjective(Append(s, e)) /\ IsInjective(<<e>> \o s)
         /\ Len(Append(s, e)) = Len(s) + 1 /\ Len(<<e>> \o s) = Len(s) + 1
<1>1. <<e>> \in Seq(S) /\ Len(<<e>>) = 1
  BY SingletonFacts
<1>2. Range(<<e>>) = {e} /\ IsInjective(<<e>>)
  BY SingletonFacts
<1>3. Append(s, e) = s \o <<e>>
  BY AppendIsConcat
<1>4. Len(s) \in Nat /\ Len(s \o <<e>>) = Len(s) + 1 /\ Len(<<e>> \o s) = Len(s) + 1
  BY <1>1, ConcatProperties, LenProperties
<1>5. s \o <<e>> # <<>> /\ <<e>> \o s # <<>>
  BY <1>4, EmptySeq
<1> DEFINE one == <<e>>
<1>6. /\ one \in Seq(S) /\ Range(one) = {e} /\ IsInjective(one)
  BY <1>1, <1>2
<1> HIDE DEF one
<1>7. /\ s \o one \in Seq(S) /\ Range(s \o one) = Range(s) \cup {e}
      /\ IsInjective(s) /\ e \notin Range(s) => IsInjective(s \o one)
  BY <1>6, ConcatFacts
<1>8. /\ one \o s \in Seq(S) /\ Range(one \o s) = Range(s) \cup {e}
      /\ IsInjective(s) /\ e \notin Range(s) => IsInjective(one \o s)
  BY <1>6, ConcatFacts
<1> QED BY <1>3, <1>4, <1>5, <1>7, <1>8 DEF one

(* Removing one element of a sequence without repetition. *)
LEMMA RemoveAtFacts ==
  ASSUME NEW S, NEW s \in Seq(S), NEW i \in DOMAIN s, IsInjective(s)
  PROVE  /\ RemoveAt(s, i) \in Seq(S)
         /\ Range(RemoveAt(s, i)) = Range(s) \ {s[i]}
         /\ IsInjective(RemoveAt(s, i))
         /\ Len(RemoveAt(s, i)) = Len(s) - 1
<1> DEFINE l == SubSeq(s, 1, i - 1)
           r == SubSeq(s, i + 1, Len(s))
<1>1. /\ Len(s) \in Nat /\ i \in 1 .. Len(s) /\ DOMAIN s = 1 .. Len(s)
      /\ \A j \in 1 .. Len(s) : s[j] \in S
  OBVIOUS
<1>2. l \in Seq(S) /\ Len(l) = i - 1 /\ \A j \in 1 .. i - 1 : l[j] = s[j]
  BY <1>1, SubSeqProperties
<1>3. r \in Seq(S) /\ Len(r) = Len(s) - i /\ \A j \in 1 .. Len(s) - i : r[j] = s[i + j]
  BY <1>1, SubSeqProperties
<1>4. DOMAIN l = 1 .. i - 1 /\ DOMAIN r = 1 .. Len(s) - i
  BY <1>2, <1>3
<1>5. Range(l) = {s[j] : j \in 1 .. i - 1}
  BY <1>2, <1>4 DEF Range
<1>6. Range(r) = {s[j] : j \in i + 1 .. Len(s)}
  <2>1. \A j \in 1 .. Len(s) - i : i + j \in i + 1 .. Len(s)
    BY <1>1
  <2>2. ASSUME NEW j \in i + 1 .. Len(s)
        PROVE  j - i \in 1 .. Len(s) - i /\ r[j - i] = s[j]
    <3>1. j - i \in 1 .. Len(s) - i /\ i + (j - i) = j
      BY <1>1
    <3> HIDE DEF r
    <3> QED BY <1>3, <3>1
  <2>3. \A k \in 1 .. Len(s) - i : r[k] \in {s[j] : j \in i + 1 .. Len(s)}
    BY <1>3, <2>1
  <2>4. \A j \in i + 1 .. Len(s) : s[j] \in {r[k] : k \in 1 .. Len(s) - i}
    BY <2>2
  <2>5. Range(r) = {r[k] : k \in 1 .. Len(s) - i}
    BY <1>4 DEF Range
  <2> HIDE DEF r
  <2> QED BY <2>3, <2>4, <2>5
<1>7. IsInjective(l)
  BY <1>1, <1>2, <1>4 DEF IsInjective
<1>8. IsInjective(r)
  <2> SUFFICES ASSUME NEW a \in 1 .. Len(s) - i, NEW b \in 1 .. Len(s) - i, r[a] = r[b]
               PROVE  a = b
    BY <1>4 DEF IsInjective
  <2>1. i + a = i + b
    BY <1>1, <1>3 DEF IsInjective
  <2> QED BY <1>1, <2>1
<1>9. Range(l) \cap Range(r) = {}
  BY <1>1, <1>5, <1>6 DEF IsInjective
<1>10. Range(l) \cup Range(r) = Range(s) \ {s[i]}
  <2>1. \A j \in 1 .. Len(s) : j # i => s[j] # s[i]
    BY <1>1 DEF IsInjective
  <2>3. Range(s) = {s[j] : j \in 1 .. Len(s)}
    BY <1>1 DEF Range
  <2> HIDE DEF l, r
  <2>4. Range(l) \cup Range(r) \subseteq Range(s) \ {s[i]}
    BY <1>1, <1>5, <1>6, <2>1, <2>3
  <2>5. ASSUME NEW x \in Range(s) \ {s[i]}
        PROVE  x \in Range(l) \cup Range(r)
    <3>1. PICK j \in 1 .. Len(s) : x = s[j]
      BY <2>3
    <3>2. j \in 1 .. i - 1 \/ j \in i + 1 .. Len(s)
      BY <1>1, <2>5, <3>1
    <3> QED BY <1>5, <1>6, <3>1, <3>2
  <2> QED BY <2>4, <2>5
<1>11. Len(l \o r) = Len(s) - 1
  BY <1>1, <1>2, <1>3, ConcatProperties
<1>12. l \o r \in Seq(S) /\ Range(l \o r) = Range(s) \ {s[i]} /\ IsInjective(l \o r)
  <2> HIDE DEF l, r
  <2> QED BY <1>2, <1>3, <1>7, <1>8, <1>9, <1>10, ConcatFacts
<1> QED BY <1>11, <1>12 DEF RemoveAt
-----------------------------------------------------------------------------
Outcomes == [Msg -> {"none", "pending", "resolved", "rejected"}]

(* Promise bookkeeping keeps the type of the outcome table. *)
LEMMA OutcomeTypes ==
  ASSUME NEW o \in Outcomes, NEW S
  PROVE  /\ Pending(o, S) \in Outcomes
         /\ \A v \in {"none", "resolved", "rejected"} : Settle(o, S, v) \in Outcomes
BY DEF Outcomes, Pending, Settle

DriveTyped ==
  /\ queue' \in Seq(Msg) /\ steerBuf' = <<>> /\ disk' \in Seq(Msg)
  /\ signal' = "live" /\ driver' \in {"absent", "assembling"}
  /\ node' \in Msg \cup {NoMsg} /\ (driver' = "absent" <=> node' = NoMsg)
  /\ wake' \in 0 .. WakeBudget /\ outcome' \in Outcomes
  /\ faults' \in 0 .. MaxFaults /\ reported' \subseteq Msg
  /\ started' \subseteq Msg /\ agentRuns' \in Nat

(* What a beat of the driver leaves, as far as types go. *)
LEMMA DriveType ==
  ASSUME TypeOK, NEW q \in Seq(Msg), NEW s \in Seq(Msg), NEW d \in Seq(Msg),
         NEW o \in Outcomes, NEW w \in 0 .. WakeBudget, Drive(q, s, d, o, w)
  PROVE  DriveTyped
<1> DEFINE all == Demoted(q, s)
           demotedO == Pending(o, Range(s))
           afterDemote == IF s = <<>> THEN d ELSE all
<1> USE RunQueueAssumption
<1>1. all \in Seq(Msg) /\ afterDemote \in Seq(Msg)
  BY DEF Demoted
<1>2. demotedO \in Outcomes
  BY OutcomeTypes
<1>3. Shown \subseteq Msg
  BY DEF Shown, TypeOK
<1>4. /\ steerBuf' = <<>> /\ signal' = "live"
      /\ \/ all = <<>> /\ DriverDies(<<>>, o, w) /\ PersistOk(d) /\ reported' = Shown
         \/ all # <<>> /\ Dequeue(all, demotedO, w)
         \/ s # <<>> /\ DriverDies(all, demotedO, w) /\ PersistFails(d) /\ reported' = Shown
         \/ /\ all # <<>>
            /\ DriverDies(all, Settle(demotedO, {Head(all)}, "rejected"), w)
            /\ PersistFails(afterDemote) /\ reported' = Shown \cup {Head(all)}
  BY DEF Drive
<1>5. Settle(demotedO, {Head(all)}, "rejected") \in Outcomes
  BY <1>2, OutcomeTypes
<1>6. all # <<>> => Head(all) \in Msg /\ Tail(all) \in Seq(Msg)
  BY <1>1, HeadTailFacts
<1> HIDE DEF all, demotedO, afterDemote
<1>7. CASE all = <<>> /\ DriverDies(<<>>, o, w) /\ PersistOk(d) /\ reported' = Shown
  BY <1>3, <1>4, <1>7 DEF DriveTyped, DriverDies, PersistOk, TypeOK
<1>8. CASE all # <<>> /\ Dequeue(all, demotedO, w)
  BY <1>2, <1>3, <1>4, <1>6, <1>8 DEF DriveTyped, Dequeue, PersistOk, LeavesOnDisk, TypeOK
<1>9. CASE s # <<>> /\ DriverDies(all, demotedO, w) /\ PersistFails(d) /\ reported' = Shown
  BY <1>1, <1>2, <1>3, <1>4, <1>9 DEF DriveTyped, DriverDies, PersistFails, TypeOK
<1>10. CASE /\ all # <<>>
            /\ DriverDies(all, Settle(demotedO, {Head(all)}, "rejected"), w)
            /\ PersistFails(afterDemote) /\ reported' = Shown \cup {Head(all)}
  BY <1>1, <1>3, <1>4, <1>5, <1>6, <1>10 DEF DriveTyped, DriverDies, PersistFails, TypeOK
<1> QED BY <1>4, <1>7, <1>8, <1>9, <1>10

(* A write of queue.jsonl, done or failed. *)
LEMMA PersistType ==
  ASSUME TypeOK, NEW d, PersistOk(d) \/ PersistFails(d)
  PROVE  disk' = d /\ faults' \in 0 .. MaxFaults
<1>1. faults \in 0 .. MaxFaults /\ MaxFaults \in Nat
  BY RunQueueAssumption DEF TypeOK
<1>2. disk' = d /\ (faults' = faults \/ (faults < MaxFaults /\ faults' = faults + 1))
  BY DEF PersistOk, PersistFails
<1> QED BY <1>1, <1>2

\* The steps of a run that is being prepared and may come to nothing.
Starting == RunStarts \/ AssemblyFails \/ HookFails

(* Every handler keeps the types. *)
LEMMA TypeStep == TypeOK /\ [Next]_vars => TypeOK'
<1> SUFFICES ASSUME TypeOK, [Next]_vars PROVE TypeOK'
  OBVIOUS
<1> USE RunQueueAssumption
<1>0. outcome \in Outcomes /\ wake \in 0 .. WakeBudget
  BY DEF TypeOK, Outcomes
<1>1. ASSUME NEW m \in Msg, Submit(m) PROVE TypeOK'
  <2>1. /\ Up /\ daemon' = daemon /\ transit' = transit /\ injected' = injected /\ history' = history
        /\ crashes' = crashes /\ cancelled' = cancelled /\ broken' = broken
        /\ submitted' = submitted \cup {m} /\ Admits(m)
    BY <1>1 DEF Submit
  <2>2. WakeAfter(m) \in 0 .. WakeBudget
    BY <1>0, <2>1 DEF WakeAfter, Admits
  <2>3. Pending(outcome, {m}) \in Outcomes
    BY <1>0, OutcomeTypes
  <2>4. CASE SubmitDirect(m)
    <3>1. <<m>> \in Seq(Msg)
      OBVIOUS
    <3>2. steerBuf \in Seq(Msg) /\ disk \in Seq(Msg)
      BY DEF TypeOK
    <3>3. DriveTyped /\ acked' = acked \cup {m}
      BY <2>2, <2>3, <2>4, <3>1, <3>2, DriveType DEF SubmitDirect
    <3> QED BY <2>1, <3>3 DEF DriveTyped, TypeOK, Outcomes, DriverStates, Up
  <2>5. CASE SubmitSteer(m)
    <3>1. Append(steerBuf, m) \in Seq(Msg) /\ queue \o Append(steerBuf, m) \in Seq(Msg)
      BY AddFacts, ConcatProperties DEF TypeOK
    <3>2. /\ queue' = queue /\ steerBuf' \in Seq(Msg) /\ driver' = driver /\ node' = node
          /\ signal' = signal /\ outcome' = outcome /\ reported' = reported
          /\ started' = started /\ agentRuns' = agentRuns
          /\ wake' \in 0 .. WakeBudget
      BY <2>2, <2>5, <3>1 DEF SubmitSteer
    <3>3. disk' \in Seq(Msg) /\ faults' \in 0 .. MaxFaults
      <4>1. disk \in Seq(Msg)
        BY DEF TypeOK
      <4>2. PersistOk(queue \o steerBuf') \/ PersistFails(disk)
        BY <2>5 DEF SubmitSteer
      <4>3. queue \o steerBuf' \in Seq(Msg)
        BY <2>5, <3>1 DEF SubmitSteer
      <4>4. CASE PersistOk(queue \o steerBuf')
        BY <4>3, <4>4, PersistType
      <4>5. CASE PersistFails(disk)
        BY <4>1, <4>5, PersistType
      <4> QED BY <4>2, <4>4, <4>5
    <3>4. acked' \subseteq submitted'
      BY <2>1, <2>5 DEF SubmitSteer, TypeOK
    <3> QED BY <2>1, <3>2, <3>3, <3>4 DEF TypeOK, Up
  <2>6. ASSUME NEW disposition \in Dispositions(m), SubmitQueued(m, disposition)
        PROVE  TypeOK'
    <3>1. AtHead(m, disposition) \in Seq(Msg)
      BY AddFacts DEF AtHead, TypeOK
    <3>2. AtHead(m, disposition) \o steerBuf \in Seq(Msg)
      BY <3>1 DEF TypeOK
    <3>3. CASE /\ driver = "absent"
               /\ Drive(AtHead(m, disposition), steerBuf, AtHead(m, disposition) \o steerBuf,
                        Pending(outcome, {m}), WakeAfter(m))
               /\ acked' = acked \cup {m}
      <4>1. steerBuf \in Seq(Msg)
        BY DEF TypeOK
      <4>2. DriveTyped
        BY <2>2, <2>3, <3>1, <3>2, <3>3, <4>1, DriveType
      <4> QED BY <2>1, <3>3, <4>2 DEF DriveTyped, TypeOK, Outcomes, DriverStates, Up
    <3>4. CASE /\ Enqueue(m, disposition)
               /\ \/ PersistOk(queue' \o steerBuf) /\ acked' = acked \cup {m}
                  \/ PersistFails(disk) /\ UNCHANGED acked
      <4>1. /\ queue' \in Seq(Msg) /\ steerBuf' = steerBuf /\ driver' = driver /\ node' = node
            /\ signal' \in {"live", "aborted"} /\ outcome' \in Outcomes
            /\ reported' = reported /\ started' = started /\ agentRuns' = agentRuns
            /\ wake' \in 0 .. WakeBudget /\ queue' \o steerBuf \in Seq(Msg)
        BY <2>2, <2>3, <3>1, <3>2, <3>4 DEF Enqueue, TypeOK
      <4>2. disk' \in Seq(Msg) /\ faults' \in 0 .. MaxFaults
        <5>1. disk \in Seq(Msg)
          BY DEF TypeOK
        <5>2. CASE PersistOk(queue' \o steerBuf)
          BY <4>1, <5>2 DEF PersistOk, TypeOK
        <5>3. CASE PersistFails(disk)
          BY <5>1, <5>3, PersistType
        <5> QED BY <3>4, <5>2, <5>3
      <4>3. acked' \subseteq submitted'
        BY <2>1, <3>4 DEF TypeOK
      <4> QED BY <2>1, <4>1, <4>2, <4>3 DEF TypeOK, Outcomes, Up
    <3> QED BY <2>6, <3>3, <3>4 DEF SubmitQueued
  <2> QED BY <1>1, <2>4, <2>5, <2>6 DEF Submit
<1>2. CASE Land
  BY <1>2 DEF Land, StartUnchanged, RunUnchanged, TypeOK, DriverStates, Up
<1>3. CASE Starting
  BY <1>3 DEF Starting, RunStarts, AssemblyFails, HookFails, StartUnchanged, RunUnchanged, TypeOK, DriverStates, Up
<1>4. CASE EndRun
  BY <1>4 DEF EndRun, LoopEnds, StartUnchanged, RunUnchanged, TypeOK, DriverStates, Up
<1>5. CASE DrainSteer
  <2>1. MarkInjected(steerBuf) \in Seq(Msg)
    <3> DEFINE t == injected \o steerBuf
               two == 2 * QueueLimit
               n == IF Len(t) > two THEN Len(t) - two ELSE 0
    <3>1. t \in Seq(Msg) /\ Len(t) \in Nat /\ DOMAIN t = 1 .. Len(t)
      BY ConcatProperties, LenProperties DEF TypeOK
    <3>2. two \in Nat
      OBVIOUS
    <3>3. \A i \in 1 .. Len(t) : t[i] \in Msg
      BY <3>1
    <3> HIDE DEF t, two
    <3>4. n \in Nat
      BY <3>1, <3>2
    <3>5. \A i \in n + 1 .. Len(t) : t[i] \in Msg
      BY <3>1, <3>3, <3>4
    <3> HIDE DEF n
    <3>6. SubSeq(t, n + 1, Len(t)) \in Seq(Msg)
      BY <3>1, <3>4, <3>5, SubSeqProperties
    <3>7. MarkInjected(steerBuf) = SubSeq(t, n + 1, Len(t))
      BY DEF MarkInjected, t, n, two
    <3> QED BY <3>6, <3>7
  <2>2. Range(steerBuf) \subseteq Msg
    BY RangeOfSeq DEF TypeOK
  <2>3. /\ queue \in Seq(Msg) /\ steerBuf \in Seq(Msg) /\ disk \in Seq(Msg)
        /\ injected \in Seq(Msg) /\ transit \in Seq(Msg) /\ <<>> \in Seq(Msg)
    BY DEF TypeOK
  <2>4. /\ steerBuf' \in Seq(Msg) /\ disk' \in Seq(Msg) /\ transit' \in Seq(Msg)
        /\ injected' \in Seq(Msg) /\ faults' \in 0 .. MaxFaults
    <3>1. /\ \/ steerBuf' = <<>> /\ transit' = steerBuf /\ injected' = MarkInjected(steerBuf)
             \/ steerBuf' \in {steerBuf, <<>>} /\ transit' = transit /\ injected' = injected
          /\ PersistOk(queue) \/ PersistFails(disk) \/ PersistOk(disk)
      BY <1>5 DEF DrainSteer, BufferAfterDrain, AfterDrain, PersistOk
    <3>2. disk' \in Seq(Msg) /\ faults' \in 0 .. MaxFaults
      BY <2>3, <3>1, PersistType
    <3> QED BY <2>1, <2>3, <3>1, <3>2
  <2>5. /\ driver' \in {"injecting", "settled", "failed"} /\ driver = "looping"
        /\ wake' \in 0 .. WakeBudget /\ agentRuns' \in Nat /\ started' \subseteq Msg
    BY <1>0, <1>5, <2>2 DEF DrainSteer, LoopEnds, TypeOK
  <2> QED BY <1>5, <2>4, <2>5 DEF DrainSteer, RunUnchanged, TypeOK, DriverStates, Up
<1>6. CASE Inject
  <2>1. ASSUME NEW k \in 0 .. Len(transit) - 1 PROVE SubSeq(transit, 1, k) \in Seq(Msg)
    BY SubSeqProperties DEF TypeOK
  <2>2. \/ history' = history \o transit /\ driver' = "looping" /\ faults' = faults
        \/ \E k \in 0 .. Len(transit) - 1 :
             /\ faults < MaxFaults /\ faults' = faults + 1
             /\ history' = history \o SubSeq(transit, 1, k) /\ driver' \in {"settled", "failed"}
    BY <1>6 DEF Inject, LoopEnds
  <2>3. history' \in Seq(Msg) /\ driver' \in {"looping", "settled", "failed"}
    <3>1. history \in Seq(Msg) /\ transit \in Seq(Msg)
      BY DEF TypeOK
    <3>2. CASE history' = history \o transit /\ driver' = "looping"
      BY <3>1, <3>2, ConcatProperties
    <3>3. ASSUME NEW k \in 0 .. Len(transit) - 1,
                 history' = history \o SubSeq(transit, 1, k), driver' \in {"settled", "failed"}
          PROVE  history' \in Seq(Msg) /\ driver' \in {"looping", "settled", "failed"}
      BY <2>1, <3>1, <3>3, ConcatProperties
    <3> QED BY <2>2, <3>2, <3>3
  <2>4. faults' \in 0 .. MaxFaults
    <3>1. faults' = faults \/ (faults < MaxFaults /\ faults' = faults + 1)
      BY <2>2
    <3>2. faults \in 0 .. MaxFaults /\ MaxFaults \in Nat
      BY DEF TypeOK
    <3> QED BY <3>1, <3>2
  <2> QED BY <1>6, <2>3, <2>4 DEF Inject, RunUnchanged, TypeOK, DriverStates, Up
<1>7. CASE DriverResumes
  <2>1. Settle(outcome, {node}, IF driver = "failed" THEN "rejected" ELSE "resolved") \in Outcomes
    BY <1>0, OutcomeTypes
  <2>2. queue \in Seq(Msg) /\ steerBuf \in Seq(Msg) /\ disk \in Seq(Msg)
    BY DEF TypeOK
  <2>3. DriveTyped
    BY <1>0, <1>7, <2>1, <2>2, DriveType DEF DriverResumes
  <2>4. Up
    BY <1>7 DEF DriverResumes, TypeOK
  <2> QED BY <1>7, <2>3, <2>4 DEF DriverResumes, DriveTyped, TypeOK, Outcomes, DriverStates, Up
<1>8. ASSUME NEW id \in Msg \cup {NoMsg}, Cancel(id) PROVE TypeOK'
  BY <1>8 DEF Cancel, TypeOK, ghosts, Up
<1>9. ASSUME NEW m \in Msg, QueueCancelOne(m) PROVE TypeOK'
  <2>1. \A i \in DOMAIN queue : RemoveAt(queue, i) \in Seq(Msg)
    BY SubSeqProperties DEF TypeOK, RemoveAt
  <2>2. \A i \in DOMAIN steerBuf : RemoveAt(steerBuf, i) \in Seq(Msg)
    BY SubSeqProperties DEF TypeOK, RemoveAt
  <2>3. Settle(outcome, {m}, "rejected") \in Outcomes
    BY <1>0, OutcomeTypes
  <2>4. queue' \in Seq(Msg) /\ steerBuf' \in Seq(Msg) /\ outcome' \in Outcomes
    BY <1>0, <1>9, <2>1, <2>2, <2>3 DEF QueueCancelOne, TypeOK
  <2>5. queue' \o steerBuf' \in Seq(Msg)
    BY <2>4, ConcatProperties
  <2>6. disk' \in Seq(Msg) /\ faults' \in 0 .. MaxFaults /\ cancelled' \subseteq Msg
    <3>1. disk \in Seq(Msg) /\ cancelled \subseteq Msg
      BY DEF TypeOK
    <3>2. \/ PersistOk(queue' \o steerBuf') /\ cancelled' = cancelled \cup {m}
          \/ PersistFails(disk) /\ cancelled' = cancelled
      BY <1>9 DEF QueueCancelOne, Remaining
    <3> QED BY <2>5, <3>1, <3>2, PersistType
  <2>7. signal' = signal /\ CancelUnchanged
    BY <1>9 DEF QueueCancelOne
  <2> QED BY <2>4, <2>6, <2>7 DEF CancelUnchanged, TypeOK, Outcomes, Up
<1>10. ASSUME NEW stop \in BOOLEAN, QueueCancelAll(stop) PROVE TypeOK'
  <2>1. Settle(outcome, Range(queue), "rejected") \in Outcomes
    BY <1>0, OutcomeTypes
  <2>2. Range(Entries) \subseteq Msg
    BY RangeOfSeq, ConcatProperties DEF TypeOK, Entries
  <2>3. /\ queue' = <<>> /\ steerBuf' = <<>> /\ outcome' \in Outcomes
        /\ signal' \in {"live", "aborted"} /\ CancelUnchanged
    BY <1>10, <2>1 DEF QueueCancelAll, TypeOK
  <2>4. disk' \in Seq(Msg) /\ faults' \in 0 .. MaxFaults /\ cancelled' \subseteq Msg
    <3>1. disk \in Seq(Msg) /\ cancelled \subseteq Msg /\ <<>> \in Seq(Msg)
      BY DEF TypeOK
    <3>2. \/ PersistOk(<<>>) /\ cancelled' = cancelled \cup Range(Entries)
          \/ PersistFails(disk) /\ cancelled' = cancelled
      BY <1>10 DEF QueueCancelAll
    <3> QED BY <2>2, <3>1, <3>2, PersistType
  <2> QED BY <2>3, <2>4 DEF CancelUnchanged, TypeOK, Outcomes, Up
<1>11. CASE Crash
  <2>1. Settle(outcome, Msg, "none") \in Outcomes
    BY <1>0, OutcomeTypes
  <2> QED BY <1>11, <2>1 DEF Crash, TypeOK, Outcomes, DriverStates, Up
<1>12. CASE RecoverQueues
  <2>1. /\ Pending(outcome, Range(disk)) \in Outcomes
        /\ disk \in Seq(Msg) /\ <<>> \in Seq(Msg) /\ 0 \in 0 .. WakeBudget
    BY <1>0, OutcomeTypes DEF TypeOK
  <2>2. UNCHANGED <<transit, injected, history, crashes, submitted, acked, cancelled, broken>>
    BY <1>12 DEF RecoverQueues
  <2>3. CASE daemon' = "up" /\ Drive(disk, <<>>, disk, Pending(outcome, Range(disk)), 0)
    <3>1. DriveTyped
      BY <2>1, <2>3, DriveType
    <3> QED BY <2>2, <2>3, <3>1 DEF DriveTyped, TypeOK, Outcomes, DriverStates, Up
  <2>4. CASE /\ PersistFails(disk)
             /\ UNCHANGED <<daemon, queue, steerBuf, driver, node, signal, wake, outcome,
                            reported, started, agentRuns>>
    <3>1. disk' = disk /\ faults' \in 0 .. MaxFaults
      BY <2>4, PersistType
    <3> QED BY <2>2, <2>4, <3>1 DEF TypeOK, Up
  <2> QED BY <1>12, <2>3, <2>4 DEF RecoverQueues, Recovered
<1>13. CASE UNCHANGED vars
  BY <1>13 DEF vars, memory, ghosts, TypeOK, Up
<1> QED BY <1>1, <1>2, <1>3, <1>4, <1>5, <1>6, <1>7, <1>8, <1>9, <1>10, <1>11, <1>12, <1>13
        DEF Next, Starting

(* The queue's state is well typed in every reachable state.               *)
THEOREM TypeCorrect == Spec => []TypeOK
<1>1. Init => TypeOK
  BY RunQueueAssumption DEF Init, TypeOK, DriverStates, Up
<1> QED BY <1>1, TypeStep, PTL DEF Spec
-----------------------------------------------------------------------------
(***************************************************************************)
(* At most once.  The invariant that is inductive says more than the two   *)
(* it is for: whatever waits, in memory or in queue.jsonl, waits once, was *)
(* submitted, and neither started nor was withdrawn.  Without "was         *)
(* submitted" a fresh id could already wait; without the file, a failed    *)
(* write followed by a crash could bring back what had started.            *)
(***************************************************************************)
Clean(entries, file, st, ca, su) ==
  /\ IsInjective(entries) /\ IsInjective(file)
  /\ (Range(entries) \cup Range(file)) \cap (st \cup ca) = {}
  /\ st \cap ca = {}
  /\ Range(entries) \cup Range(file) \cup st \cup ca \subseteq su

Separated == Clean(Entries, disk, started, cancelled, submitted)

(* Fewer entries and an older or a newer file are as clean. *)
LEMMA CleanShrinks ==
  ASSUME NEW e, NEW d, NEW st, NEW ca, NEW su, Clean(e, d, st, ca, su)
  PROVE  /\ Clean(e, e, st, ca, su) /\ Clean(d, d, st, ca, su)
         /\ Clean(<<>>, d, st, ca, su) /\ Clean(<<>>, <<>>, st, ca, su)
BY EmptyFacts DEF Clean

(* A beat of the driver keeps waiting and started messages apart. *)
LEMMA DriveClean ==
  ASSUME NEW q \in Seq(Msg), NEW s \in Seq(Msg), NEW d \in Seq(Msg), NEW o, NEW w, NEW su,
         Clean(q \o s, d, started, cancelled, su), Drive(q, s, d, o, w)
  PROVE  Clean(Entries', disk', started', cancelled, su)
<1> DEFINE all == Demoted(q, s)
           afterDemote == IF s = <<>> THEN d ELSE all
<1>1. all \in Seq(Msg) /\ all = q \o s
  BY ConcatProperties DEF Demoted
<1>2. /\ steerBuf' = <<>>
      /\ \/ queue' = <<>> /\ disk' = d /\ started' = started
         \/ /\ all # <<>> /\ queue' = Tail(all) /\ disk' = Tail(all)
            /\ started' = started \cup {Head(all)}
         \/ queue' = all /\ disk' \in {d, all} /\ started' = started
  BY DEF Drive, DriverDies, Dequeue, PersistOk, PersistFails, LeavesOnDisk
<1> HIDE DEF all
<1>3. queue' \in Seq(Msg)
  <2>1. <<>> \in Seq(Msg)
    OBVIOUS
  <2>2. all # <<>> => Tail(all) \in Seq(Msg)
    BY <1>1, HeadTailFacts
  <2> QED BY <1>1, <1>2, <2>1, <2>2
<1>4. Entries' = queue'
  BY <1>2, <1>3, ConcatEmptySeq DEF Entries
<1>5. CASE queue' = <<>> /\ disk' = d /\ started' = started
  BY <1>4, <1>5, EmptyFacts DEF Clean
<1>6. CASE /\ all # <<>> /\ queue' = Tail(all) /\ disk' = Tail(all)
           /\ started' = started \cup {Head(all)}
  <2>1. /\ Range(all) = {Head(all)} \cup Range(Tail(all))
        /\ IsInjective(Tail(all)) /\ Head(all) \notin Range(Tail(all))
    BY <1>1, <1>6, HeadTailFacts DEF Clean
  <2> QED BY <1>1, <1>4, <1>6, <2>1 DEF Clean
<1>7. CASE queue' = all /\ disk' \in {d, all} /\ started' = started
  BY <1>1, <1>4, <1>7 DEF Clean
<1> QED BY <1>2, <1>5, <1>6, <1>7

(* Every handler keeps waiting, started and withdrawn messages apart.      *)
LEMMA SeparatedStep == TypeOK /\ Separated /\ [Next]_vars => Separated'
<1> SUFFICES ASSUME TypeOK, Separated, [Next]_vars PROVE Separated'
  OBVIOUS
<1>0. /\ queue \in Seq(Msg) /\ steerBuf \in Seq(Msg) /\ disk \in Seq(Msg)
      /\ Entries \in Seq(Msg) /\ Range(Entries) = Range(queue) \cup Range(steerBuf)
      /\ IsInjective(queue) /\ IsInjective(steerBuf)
      /\ Range(queue) \cap Range(steerBuf) = {}
  BY ConcatFacts DEF TypeOK, Entries, Separated, Clean
<1>1. ASSUME NEW m \in Msg, Submit(m) PROVE Separated'
  <2>1. /\ m \notin submitted /\ submitted' = submitted \cup {m} /\ cancelled' = cancelled
    BY <1>1 DEF Submit
  <2>2. m \notin Range(Entries) /\ m \notin started /\ m \notin cancelled
    BY <2>1 DEF Separated, Clean
  <2>3. CASE SubmitDirect(m)
    <3>1. queue = <<>> /\ Drive(<<m>>, steerBuf, disk, Pending(outcome, {m}), WakeAfter(m))
      BY <2>3 DEF SubmitDirect, Idle
    <3>2. <<m>> \in Seq(Msg)
      OBVIOUS
    <3>3. /\ IsInjective(<<m>> \o steerBuf)
          /\ Range(<<m>> \o steerBuf) = Range(Entries) \cup {m}
      BY <1>0, <2>2, <3>1, AddFacts, EmptyFacts
    <3>4. Clean(<<m>> \o steerBuf, disk, started, cancelled, submitted \cup {m})
      BY <2>1, <2>2, <3>3 DEF Separated, Clean
    <3> QED BY <1>0, <2>1, <3>1, <3>2, <3>4, DriveClean DEF Separated
  <2>4. CASE SubmitSteer(m)
    <3>1. /\ queue' = queue /\ steerBuf' = Append(steerBuf, m) /\ started' = started
          /\ disk' \in {disk, queue \o Append(steerBuf, m)}
      BY <2>4 DEF SubmitSteer, PersistOk, PersistFails
    <3>2. /\ Append(steerBuf, m) \in Seq(Msg) /\ IsInjective(Append(steerBuf, m))
          /\ Range(Append(steerBuf, m)) = Range(steerBuf) \cup {m}
      <4>1. m \notin Range(steerBuf) /\ steerBuf \in Seq(Msg) /\ IsInjective(steerBuf)
        BY <1>0, <2>2
      <4>2. Append(steerBuf, m) = steerBuf \o <<m>>
        BY <4>1, AppendIsConcat
      <4>3. /\ <<m>> \in Seq(Msg) /\ Range(<<m>>) = {m} /\ IsInjective(<<m>>)
        BY SingletonFacts
      <4> DEFINE one == <<m>>
      <4>4. /\ one \in Seq(Msg) /\ Range(one) = {m} /\ IsInjective(one)
            /\ Append(steerBuf, m) = steerBuf \o one
        BY <4>2, <4>3
      <4> HIDE DEF one
      <4>5. /\ steerBuf \o one \in Seq(Msg) /\ IsInjective(steerBuf \o one)
            /\ Range(steerBuf \o one) = Range(steerBuf) \cup Range(one)
        BY <4>1, <4>4, ConcatFacts
      <4> QED BY <4>4, <4>5
    <3>3. /\ Entries' = queue \o Append(steerBuf, m)
          /\ IsInjective(Entries') /\ Range(Entries') = Range(Entries) \cup {m}
      <4> DEFINE b == Append(steerBuf, m)
      <4>1. Range(queue) \cap Range(b) = {} /\ b \in Seq(Msg) /\ IsInjective(b)
        BY <1>0, <2>2, <3>2
      <4>2. Entries' = queue \o b /\ Range(Entries) \cup {m} = Range(queue) \cup Range(b)
        BY <1>0, <3>1, <3>2 DEF Entries
      <4> HIDE DEF b
      <4>3. IsInjective(queue \o b) /\ Range(queue \o b) = Range(queue) \cup Range(b)
        BY <1>0, <4>1, ConcatFacts
      <4> QED BY <4>2, <4>3 DEF b
    <3> QED BY <2>1, <2>2, <3>1, <3>3 DEF Separated, Clean
  <2>5. ASSUME NEW disposition \in Dispositions(m), SubmitQueued(m, disposition)
        PROVE  Separated'
    <3> DEFINE q == AtHead(m, disposition)
    <3>1. q \in Seq(Msg) /\ IsInjective(q) /\ Range(q) = Range(queue) \cup {m}
      BY <1>0, <2>2, AddFacts DEF AtHead
    <3>2. /\ q \o steerBuf \in Seq(Msg) /\ IsInjective(q \o steerBuf)
          /\ Range(q \o steerBuf) = Range(Entries) \cup {m}
      BY <1>0, <2>2, <3>1, ConcatFacts
    <3>3. /\ Clean(q \o steerBuf, q \o steerBuf, started, cancelled, submitted \cup {m})
          /\ Clean(q \o steerBuf, disk, started, cancelled, submitted \cup {m})
      BY <2>1, <2>2, <3>2 DEF Separated, Clean
    <3>4. \/ /\ queue' = q /\ steerBuf' = steerBuf /\ started' = started
             /\ disk' \in {disk, q \o steerBuf}
          \/ Drive(q, steerBuf, q \o steerBuf, Pending(outcome, {m}), WakeAfter(m))
      BY <2>5 DEF SubmitQueued, Enqueue, PersistOk, PersistFails
    <3> HIDE DEF q
    <3>5. CASE /\ queue' = q /\ steerBuf' = steerBuf /\ started' = started
               /\ disk' \in {disk, q \o steerBuf}
      BY <2>1, <3>3, <3>5 DEF Separated, Entries
    <3>6. CASE Drive(q, steerBuf, q \o steerBuf, Pending(outcome, {m}), WakeAfter(m))
      BY <1>0, <2>1, <3>1, <3>2, <3>3, <3>6, DriveClean DEF Separated
    <3> QED BY <3>4, <3>5, <3>6
  <2> QED BY <1>1, <2>3, <2>4, <2>5 DEF Submit
<1>2. CASE Starting \/ Land \/ EndRun \/ Inject
  BY <1>2 DEF Starting, RunStarts, AssemblyFails, HookFails, Land, EndRun, Inject, StartUnchanged, RunUnchanged, Separated, Entries
<1>3. CASE DrainSteer
  <2>1. /\ queue' = queue /\ cancelled' = cancelled /\ submitted' = submitted
        /\ \/ /\ steerBuf' = <<>> /\ disk' = queue
              /\ started' = started \cup Range(steerBuf)
           \/ steerBuf' \in {steerBuf, <<>>} /\ disk' = disk /\ started' = started
    BY <1>3 DEF DrainSteer, RunUnchanged, BufferAfterDrain, AfterDrain, PersistOk, PersistFails
  <2>2. queue \o <<>> = queue
    BY <1>0, ConcatEmptySeq
  <2> QED BY <1>0, <2>1, <2>2 DEF Separated, Clean, Entries
<1>4. CASE DriverResumes
  <2>1. /\ cancelled' = cancelled /\ submitted' = submitted
        /\ \E o : Drive(queue, steerBuf, disk, o, wake)
    BY <1>4 DEF DriverResumes
  <2> QED BY <1>0, <2>1, DriveClean DEF Separated, Entries
<1>5. ASSUME NEW id \in Msg \cup {NoMsg}, Cancel(id) PROVE Separated'
  BY <1>5 DEF Cancel, ghosts, Separated, Entries
<1>6. ASSUME NEW m \in Msg, QueueCancelOne(m) PROVE Separated'
  <2>1. /\ started' = started /\ submitted' = submitted
        /\ \/ disk' = queue' \o steerBuf' /\ cancelled' = cancelled \cup {m}
           \/ disk' = disk /\ cancelled' = cancelled
    BY <1>6 DEF QueueCancelOne, CancelUnchanged, Remaining, PersistOk, PersistFails
  <2>2. /\ queue' \in Seq(Msg) /\ steerBuf' \in Seq(Msg)
        /\ IsInjective(queue') /\ IsInjective(steerBuf')
        /\ Range(queue') \cup Range(steerBuf') = Range(Entries) \ {m}
        /\ Range(queue') \cap Range(steerBuf') = {}
        /\ m \in Range(Entries)
    <3>1. CASE \E i \in DOMAIN queue : /\ queue[i] = m /\ queue' = RemoveAt(queue, i)
                                       /\ steerBuf' = steerBuf
      <4>1. PICK i \in DOMAIN queue : queue[i] = m /\ queue' = RemoveAt(queue, i) /\ steerBuf' = steerBuf
        BY <3>1
      <4>2. /\ queue' \in Seq(Msg) /\ IsInjective(queue')
            /\ Range(queue') = Range(queue) \ {m} /\ m \in Range(queue)
        BY <1>0, <4>1, RemoveAtFacts, RangeDef
      <4> QED BY <1>0, <4>1, <4>2
    <3>2. CASE /\ m \notin Range(queue) /\ queue' = queue
               /\ \E i \in DOMAIN steerBuf : steerBuf[i] = m /\ steerBuf' = RemoveAt(steerBuf, i)
      <4>1. PICK i \in DOMAIN steerBuf : steerBuf[i] = m /\ steerBuf' = RemoveAt(steerBuf, i)
        BY <3>2
      <4>2. /\ steerBuf' \in Seq(Msg) /\ IsInjective(steerBuf')
            /\ Range(steerBuf') = Range(steerBuf) \ {m} /\ m \in Range(steerBuf)
        BY <1>0, <4>1, RemoveAtFacts, RangeDef
      <4> QED BY <1>0, <3>2, <4>2
    <3> QED BY <1>6, <3>1, <3>2 DEF QueueCancelOne
  <2>3. /\ IsInjective(Entries') /\ Range(Entries') = Range(Entries) \ {m}
        /\ Entries' = queue' \o steerBuf'
    BY <2>2, ConcatFacts DEF Entries
  <2> QED BY <2>1, <2>2, <2>3 DEF Separated, Clean
<1>7. ASSUME NEW stop \in BOOLEAN, QueueCancelAll(stop) PROVE Separated'
  <2>1. /\ started' = started /\ submitted' = submitted
        /\ queue' = <<>> /\ steerBuf' = <<>>
        /\ \/ disk' = <<>> /\ cancelled' = cancelled \cup Range(Entries)
           \/ disk' = disk /\ cancelled' = cancelled
    BY <1>7 DEF QueueCancelAll, CancelUnchanged, PersistOk, PersistFails
  <2>2. Entries' = <<>>
    BY <2>1 DEF Entries
  <2> QED BY <2>1, <2>2, EmptyFacts DEF Separated, Clean
<1>8. CASE Crash
  <2>1. /\ started' = started /\ submitted' = submitted /\ cancelled' = cancelled
        /\ queue' = <<>> /\ steerBuf' = <<>> /\ disk' = disk
    BY <1>8 DEF Crash
  <2>2. Entries' = <<>>
    BY <2>1 DEF Entries
  <2> QED BY <2>1, <2>2, CleanShrinks DEF Separated
<1>9. CASE RecoverQueues
  <2>1. /\ cancelled' = cancelled /\ submitted' = submitted
        /\ \/ \E o : Drive(disk, <<>>, disk, o, 0)
           \/ disk' = disk /\ UNCHANGED <<queue, steerBuf, started>>
    BY <1>9 DEF RecoverQueues, Recovered, PersistFails
  <2>2. disk \o <<>> = disk /\ <<>> \in Seq(Msg)
    BY <1>0, ConcatEmptySeq
  <2>3. Clean(disk \o <<>>, disk, started, cancelled, submitted)
    BY <2>2, CleanShrinks DEF Separated
  <2>4. CASE disk' = disk /\ UNCHANGED <<queue, steerBuf, started>>
    BY <2>1, <2>4 DEF Separated, Entries
  <2> QED BY <1>0, <2>1, <2>2, <2>3, <2>4, DriveClean DEF Separated
<1>10. CASE UNCHANGED vars
  BY <1>10 DEF vars, memory, ghosts, Separated, Entries
<1> QED BY <1>1, <1>2, <1>3, <1>4, <1>5, <1>6, <1>7, <1>8, <1>9, <1>10 DEF Next, Starting

(* The inductive invariant holds in every reachable state. *)
LEMMA AlwaysSeparated == Spec => [](TypeOK /\ Separated)
<1>1. Init => TypeOK /\ Separated
  BY RunQueueAssumption, EmptyFacts DEF Init, TypeOK, DriverStates, Up, Separated, Clean, Entries
<1> QED BY <1>1, TypeStep, SeparatedStep, PTL DEF Spec

(* However many writes fail and however often the daemon crashes, a        *)
(* message that was executed or injected waits nowhere any more, and       *)
(* nothing waits twice: run.ts executes each message at most once.         *)
THEOREM RunsAtMostOnce == Spec => []AtMostOnce
<1>1. Separated => AtMostOnce
  BY DEF Separated, Clean, AtMostOnce
<1> QED BY <1>1, AlwaysSeparated, PTL

(* A withdrawal that queueCancel confirmed is never undone.                *)
THEOREM WithdrawalIsFinal == Spec => []CancelIsFinal
<1>1. Separated => CancelIsFinal
  BY DEF Separated, Clean, CancelIsFinal
<1> QED BY <1>1, AlwaysSeparated, PTL
-----------------------------------------------------------------------------
(***************************************************************************)
(* Nobody is forgotten.  While no write has failed, queue.jsonl is what    *)
(* waits, whoever waits has a driver, and whoever was acknowledged or      *)
(* started can be accounted for: the conjuncts need each other, since a    *)
(* crash makes the file the queue and a beat of the driver moves messages  *)
(* from one account to the next.                                           *)
(***************************************************************************)
Waits == Range(IF Up THEN Entries ELSE disk)

Visible == Range(history) \cup Range(transit) \cup reported \cup broken \cup {node}

Accounts ==
  /\ driver = "absent" => queue = <<>>
  /\ Up => disk = Entries
  /\ acked \subseteq started \cup cancelled \cup Waits

Showing ==
  /\ started \subseteq Visible
  /\ driver \in {"looping", "injecting", "settled"} =>
       node \in Range(history) \cup reported \cup broken

Kept ==
  /\ driver = "absent" => steerBuf = <<>>
  /\ driver # "injecting" => transit = <<>>
  /\ ~Up => crashes # 0 /\ queue = <<>>
  /\ faults = 0 => Accounts
  /\ faults = 0 /\ crashes = 0 => Showing

(* A beat of the driver that writes what it has to: it moves the head from *)
(* waiting to started, in memory and on disk, or finds nothing to do.      *)
LEMMA DriveBeat ==
  ASSUME NEW q \in Seq(Msg), NEW s \in Seq(Msg), NEW d, NEW o, NEW w,
         Drive(q, s, d, o, w), faults \in Nat
  PROVE  /\ steerBuf' = <<>> /\ driver' \in {"absent", "assembling"}
         /\ faults' \in Nat /\ (faults' = 0 => faults = 0)
         /\ faults' = 0 =>
              /\ reported' = Shown
              /\ \/ /\ q \o s = <<>> /\ driver' = "absent" /\ queue' = <<>> /\ disk' = d
                    /\ started' = started
                 \/ /\ q \o s # <<>> /\ driver' = "assembling" /\ node' = Head(q \o s)
                    /\ queue' = Tail(q \o s) /\ disk' = queue' /\ queue' \in Seq(Msg)
                    /\ started' = started \cup {node'}
                    /\ Range(q \o s) = {node'} \cup Range(queue')
<1> DEFINE all == q \o s
<1>1. all \in Seq(Msg) /\ Demoted(q, s) = all
  BY ConcatProperties DEF Demoted
<1>2. all # <<>> => Tail(all) \in Seq(Msg) /\ Range(all) = {Head(all)} \cup Range(Tail(all))
  BY <1>1, HeadTailFacts
<1>3. /\ steerBuf' = <<>>
      /\ \/ /\ all = <<>> /\ DriverDies(<<>>, o, w) /\ PersistOk(d) /\ reported' = Shown
         \/ /\ all # <<>> /\ Dequeue(all, Pending(o, Range(s)), w)
         \/ /\ driver' = "absent" /\ faults' = faults + 1
  BY <1>1 DEF Drive, DriverDies, PersistFails
<1> HIDE DEF all
<1>4. CASE all = <<>> /\ DriverDies(<<>>, o, w) /\ PersistOk(d) /\ reported' = Shown
  BY <1>3, <1>4 DEF DriverDies, PersistOk, all
<1>5. CASE all # <<>> /\ Dequeue(all, Pending(o, Range(s)), w)
  <2>1. /\ queue' = Tail(all) /\ driver' = "assembling" /\ node' = Head(all)
        /\ started' = started \cup {Head(all)} /\ disk' = Tail(all) /\ faults' = faults
        /\ reported' = Shown
    BY <1>5 DEF Dequeue, PersistOk, LeavesOnDisk
  <2> QED BY <1>2, <1>3, <1>5, <2>1 DEF all
<1>6. CASE driver' = "absent" /\ faults' = faults + 1
  BY <1>3, <1>6
<1> QED BY <1>3, <1>4, <1>5, <1>6

(* What a beat leaves, for whoever began it: the run that ended, a         *)
(* submission on an idle session, or the recovery.                         *)
LEMMA DriveKept ==
  ASSUME TypeOK, NEW q \in Seq(Msg), NEW s \in Seq(Msg), NEW d, NEW o, NEW w,
         Drive(q, s, d, o, w), Up', driver # "injecting" => transit = <<>>,
         driver \in {"absent", "settled", "failed"},
         UNCHANGED <<transit, history, crashes, broken>>, cancelled' = cancelled,
         faults = 0 => /\ acked' \subseteq started \cup cancelled \cup Range(q \o s)
                       /\ q \o s = <<>> => d = <<>>,
         faults = 0 /\ crashes = 0 => Showing
  PROVE  Kept'
<1>1. /\ faults \in Nat /\ NoMsg \notin started
  BY RunQueueAssumption DEF TypeOK
<1>2. /\ steerBuf' = <<>> /\ driver' \in {"absent", "assembling"}
      /\ faults' = 0 => faults = 0
      /\ faults' = 0 =>
           /\ reported' = Shown
           /\ \/ /\ q \o s = <<>> /\ driver' = "absent" /\ queue' = <<>> /\ disk' = d
                 /\ started' = started
              \/ /\ q \o s # <<>> /\ driver' = "assembling" /\ node' = Head(q \o s)
                 /\ queue' = Tail(q \o s) /\ disk' = queue' /\ queue' \in Seq(Msg)
                 /\ started' = started \cup {node'}
                 /\ Range(q \o s) = {node'} \cup Range(queue')
  BY <1>1, DriveBeat
<1>3. transit = <<>>
  OBVIOUS
<1>4. ASSUME faults' = 0 PROVE Accounts'
  <2>1. CASE /\ q \o s = <<>> /\ driver' = "absent" /\ queue' = <<>> /\ disk' = d
             /\ started' = started
    <3>1. Entries' = <<>> /\ disk' = <<>>
      BY <1>2, <1>4, <2>1 DEF Entries
    <3>2. acked' \subseteq started' \cup cancelled'
      BY <1>2, <1>4, <2>1, EmptyFacts
    <3> QED BY <2>1, <3>1, <3>2 DEF Accounts
  <2>2. CASE /\ driver' = "assembling" /\ disk' = queue' /\ queue' \in Seq(Msg)
             /\ started' = started \cup {node'}
             /\ Range(q \o s) = {node'} \cup Range(queue')
    <3>1. Entries' = queue' \o <<>> /\ queue' \o <<>> = queue'
      BY <1>2, <2>2, ConcatEmptySeq DEF Entries
    <3>2. Waits' = Range(queue')
      BY <3>1 DEF Waits
    <3>3. acked' \subseteq started' \cup cancelled' \cup Range(queue')
      BY <1>2, <1>4, <2>2
    <3> QED BY <2>2, <3>1, <3>2, <3>3 DEF Accounts
  <2> QED BY <1>2, <1>4, <2>1, <2>2
<1>5. ASSUME faults' = 0, crashes' = 0 PROVE Showing'
  <2>1. Showing /\ reported' = Shown
    BY <1>2, <1>5
  <2>2. Range(transit) = {}
    BY <1>3, EmptyFacts
  <2>3. started \subseteq Range(history) \cup reported' \cup broken
    <3>1. CASE driver = "absent"
      BY <1>1, <2>1, <2>2, <3>1 DEF Showing, Visible, Shown, TypeOK
    <3>2. CASE driver = "settled"
      BY <2>1, <2>2, <3>2 DEF Showing, Visible, Shown
    <3>3. CASE driver = "failed"
      BY <2>1, <2>2, <3>3 DEF Showing, Visible, Shown
    <3> QED BY <3>1, <3>2, <3>3
  <2>4. started' \subseteq started \cup {node'}
    BY <1>2, <1>5
  <2> QED BY <1>2, <2>3, <2>4 DEF Showing, Visible
<1> QED BY <1>2, <1>3, <1>4, <1>5 DEF Kept

(* What a message appended to the history or the buffer adds. *)
LEMMA AppendRange ==
  \A s \in Seq(Msg), e \in Msg :
    Append(s, e) \in Seq(Msg) /\ Range(Append(s, e)) = Range(s) \cup {e}
<1> SUFFICES ASSUME NEW s \in Seq(Msg), NEW e \in Msg
             PROVE  Append(s, e) \in Seq(Msg) /\ Range(Append(s, e)) = Range(s) \cup {e}
  OBVIOUS
<1>1. Append(s, e) = s \o <<e>>
  BY AppendIsConcat
<1> DEFINE one == <<e>>
<1>2. one \in Seq(Msg) /\ Range(one) = {e} /\ Append(s, e) = s \o one
  BY <1>1, SingletonFacts
<1> HIDE DEF one
<1> QED BY <1>2, ConcatFacts

(* Every handler keeps every message accounted for.                        *)
LEMMA KeptStep == TypeOK /\ Separated /\ Kept /\ [Next]_vars => Kept'
<1> SUFFICES ASSUME TypeOK, Separated, Kept, [Next]_vars PROVE Kept'
  OBVIOUS
<1>0. /\ queue \in Seq(Msg) /\ steerBuf \in Seq(Msg) /\ disk \in Seq(Msg)
      /\ history \in Seq(Msg) /\ transit \in Seq(Msg)
      /\ Range(Entries) = Range(queue) \cup Range(steerBuf)
      /\ IsInjective(queue) /\ IsInjective(steerBuf)
      /\ faults \in Nat /\ crashes \in Nat
  BY RunQueueAssumption, ConcatFacts DEF TypeOK, Entries, Separated, Clean
<1>1. ASSUME NEW m \in Msg, Submit(m) PROVE Kept'
  <2>1. /\ Up /\ Up' /\ UNCHANGED <<transit, history, crashes, cancelled, broken>>
    BY <1>1 DEF Submit, Up
  <2>2. CASE SubmitDirect(m)
    <3>1. /\ driver = "absent" /\ queue = <<>> /\ acked' = acked \cup {m}
          /\ Drive(<<m>>, steerBuf, disk, Pending(outcome, {m}), WakeAfter(m))
      BY <2>2 DEF SubmitDirect, Idle
    <3>2. <<m>> \in Seq(Msg)
      OBVIOUS
    <3>3. <<m>> \o steerBuf # <<>> /\ Range(<<m>> \o steerBuf) = Range(steerBuf) \cup {m}
      BY <1>0, AddFacts
    <3>4. faults = 0 => acked \subseteq started \cup cancelled \cup Range(steerBuf)
      BY <1>0, <2>1, <3>1, EmptyFacts DEF Kept, Accounts, Waits
    <3>5. faults = 0 /\ crashes = 0 => Showing
      BY DEF Kept
    <3>6. driver # "injecting" => transit = <<>>
      BY DEF Kept
    <3>7. faults = 0 => acked' \subseteq started \cup cancelled \cup Range(<<m>> \o steerBuf)
      BY <3>1, <3>3, <3>4
    <3> QED BY <1>0, <2>1, <3>1, <3>2, <3>3, <3>5, <3>6, <3>7, DriveKept
  <2>3. CASE SubmitSteer(m)
    <3>1. /\ driver \in {"assembling", "starting", "looping", "injecting"} /\ UNCHANGED <<queue, driver, node, reported, started>>
          /\ steerBuf' = Append(steerBuf, m)
          /\ \/ disk' = queue \o Append(steerBuf, m) /\ faults' = faults /\ acked' = acked \cup {m}
             \/ faults' = faults + 1
      BY <2>3 DEF SubmitSteer, Steers, Active, PersistOk, PersistFails
    <3> DEFINE b == Append(steerBuf, m)
    <3>2. b \in Seq(Msg) /\ Range(b) = Range(steerBuf) \cup {m}
      BY <1>0, AppendRange
    <3>3. Entries' = queue \o b /\ steerBuf' = b
      BY <3>1 DEF Entries
    <3>8. \/ disk' = queue \o b /\ faults' = faults /\ acked' = acked \cup {m}
          \/ faults' = faults + 1
      BY <3>1
    <3> HIDE DEF b
    <3>4. Range(queue \o b) = Range(queue) \cup Range(b)
      BY <1>0, <3>2, ConcatFacts
    <3>5. Waits = Range(Entries) /\ Waits' = Range(queue \o b)
      BY <2>1, <3>3 DEF Waits
    <3>6. ASSUME faults' = 0 PROVE Accounts'
      <4>1. Accounts /\ disk' = queue \o b /\ acked' = acked \cup {m} /\ driver' # "absent"
        <5>1. faults = 0 /\ disk' = queue \o b /\ acked' = acked \cup {m}
          BY <1>0, <3>6, <3>8
        <5>2. driver' # "absent"
          BY <3>1
        <5> QED BY <5>1, <5>2 DEF Kept
      <4>2. UNCHANGED <<started, cancelled>>
        BY <2>1, <3>1
      <4> QED BY <1>0, <2>1, <3>2, <3>3, <3>4, <3>5, <4>1, <4>2 DEF Accounts
    <3>7. ASSUME faults' = 0, crashes' = 0 PROVE Showing'
      BY <1>0, <2>1, <3>1, <3>7 DEF Kept, Showing, Visible
    <3> QED BY <2>1, <3>1, <3>6, <3>7 DEF Kept
  <2>4. ASSUME NEW disposition \in Dispositions(m), SubmitQueued(m, disposition)
        PROVE  Kept'
    <3> DEFINE q == AtHead(m, disposition)
    <3>1. q \in Seq(Msg) /\ Range(q) = Range(queue) \cup {m}
      BY <1>0, AddFacts DEF AtHead
    <3>2. \/ /\ driver # "absent" /\ UNCHANGED <<steerBuf, driver, node, reported, started>>
             /\ queue' = q /\ disk' = q \o steerBuf /\ faults' = faults /\ acked' = acked \cup {m}
          \/ /\ driver = "absent" /\ acked' = acked \cup {m}
             /\ Drive(q, steerBuf, q \o steerBuf, Pending(outcome, {m}), WakeAfter(m))
          \/ UNCHANGED <<steerBuf, driver, node>> /\ faults' = faults + 1
      BY <2>4 DEF SubmitQueued, Enqueue, PersistOk, PersistFails
    <3> HIDE DEF q
    <3>3. Range(q \o steerBuf) = Range(Entries) \cup {m}
      BY <1>0, <3>1, ConcatFacts
    <3>4. faults = 0 => acked \cup {m} \subseteq started \cup cancelled \cup Range(q \o steerBuf)
      BY <2>1, <3>3 DEF Kept, Accounts, Waits
    <3>5. CASE /\ driver # "absent" /\ UNCHANGED <<steerBuf, driver, node, reported, started>>
               /\ queue' = q /\ disk' = q \o steerBuf /\ faults' = faults /\ acked' = acked \cup {m}
      <4>1. Entries' = q \o steerBuf /\ Waits' = Range(q \o steerBuf)
        BY <2>1, <3>5 DEF Entries, Waits
      <4>2. faults' = 0 => Accounts'
        BY <2>1, <3>4, <3>5, <4>1 DEF Accounts
      <4>3. faults' = 0 /\ crashes' = 0 => Showing'
        BY <2>1, <3>5 DEF Kept, Showing, Visible
      <4> QED BY <2>1, <3>5, <4>2, <4>3 DEF Kept
    <3>6. CASE /\ driver = "absent" /\ acked' = acked \cup {m}
               /\ Drive(q, steerBuf, q \o steerBuf, Pending(outcome, {m}), WakeAfter(m))
      <4>1. faults = 0 /\ crashes = 0 => Showing
        BY DEF Kept
      <4>2. driver # "injecting" => transit = <<>>
        BY DEF Kept
      <4>3. faults = 0 => acked' \subseteq started \cup cancelled \cup Range(q \o steerBuf)
        BY <3>4, <3>6
      <4> QED BY <1>0, <2>1, <3>1, <3>6, <4>1, <4>2, <4>3, DriveKept
    <3>7. CASE UNCHANGED <<steerBuf, driver, node>> /\ faults' = faults + 1
      BY <1>0, <2>1, <3>7 DEF Kept
    <3> QED BY <3>2, <3>5, <3>6, <3>7
  <2> QED BY <1>1, <2>2, <2>3, <2>4 DEF Submit
<1>2. CASE Land
  <2>1. /\ driver = "starting" /\ driver' = "looping" /\ history' = Append(history, node)
        /\ UNCHANGED <<daemon, queue, steerBuf, disk, node, transit, faults, crashes,
                       acked, cancelled, broken, reported, started>>
    BY <1>2 DEF Land, StartUnchanged, RunUnchanged
  <2>2. node \in Msg
    BY <2>1 DEF TypeOK
  <2>3. Range(history') = Range(history) \cup {node}
    BY <1>0, <2>1, <2>2, AppendRange
  <2>4. Accounts => Accounts'
    BY <2>1 DEF Accounts, Waits, Entries, Up
  <2>5. Showing => Showing'
    BY <2>1, <2>3 DEF Showing, Visible
  <2> QED BY <2>1, <2>4, <2>5 DEF Kept, Up
<1>3. CASE Starting \/ EndRun
  <2>1. /\ \/ driver = "assembling" /\ driver' = "starting" /\ broken' = broken
           \/ driver = "starting" /\ driver' = "settled" /\ broken' = broken \cup {node}
           \/ driver \in {"assembling", "starting"} /\ driver' = "failed" /\ broken' = broken
           \/ driver = "looping" /\ driver' \in {"settled", "failed"} /\ broken' = broken
        /\ UNCHANGED <<daemon, queue, steerBuf, disk, history, node, transit, faults, crashes,
                       acked, cancelled, reported, started>>
    BY <1>3 DEF Starting, RunStarts, AssemblyFails, HookFails, EndRun, LoopEnds, StartUnchanged, RunUnchanged
  <2>2. Accounts => Accounts'
    BY <2>1 DEF Accounts, Waits, Entries, Up
  <2>3. Showing => Showing'
    BY <2>1 DEF Showing, Visible
  <2> QED BY <2>1, <2>2, <2>3 DEF Kept, Up
<1>4. CASE Inject
  <2>1. /\ driver = "injecting" /\ transit' = <<>> /\ driver' \in {"looping", "settled", "failed"}
        /\ \/ history' = history \o transit /\ faults' = faults
           \/ faults' = faults + 1
        /\ UNCHANGED <<daemon, queue, steerBuf, disk, node, crashes, acked, cancelled,
                       broken, reported, started>>
    BY <1>4 DEF Inject, LoopEnds, RunUnchanged
  <2>2. Range(history \o transit) = Range(history) \cup Range(transit)
    BY <1>0, ConcatFacts
  <2>3. Accounts => Accounts'
    BY <2>1 DEF Accounts, Waits, Entries, Up
  <2>4. Showing /\ history' = history \o transit => Showing'
    BY <2>1, <2>2 DEF Showing, Visible
  <2> QED BY <1>0, <2>1, <2>3, <2>4 DEF Kept, Up
<1>5. CASE DrainSteer
  <2>1. /\ driver = "looping"
        /\ UNCHANGED <<daemon, queue, node, history, crashes, acked, cancelled, broken, reported>>
        /\ \/ /\ driver' = "injecting" /\ steerBuf' = <<>> /\ disk' = queue /\ faults' = faults
              /\ transit' = steerBuf /\ started' = started \cup Range(steerBuf)
           \/ /\ driver' \in {"settled", "failed"} /\ UNCHANGED <<steerBuf, disk, faults, transit, started>>
           \/ driver' \in {"settled", "failed"} /\ faults' = faults + 1 /\ transit' = transit
    BY <1>5 DEF DrainSteer, LoopEnds, RunUnchanged, BufferAfterDrain, AfterDrain, PersistOk, PersistFails
  <2>2. transit = <<>> /\ Range(transit) = {}
    BY <2>1, EmptyFacts DEF Kept
  <2>3. CASE /\ driver' = "injecting" /\ steerBuf' = <<>> /\ disk' = queue /\ faults' = faults
             /\ transit' = steerBuf /\ started' = started \cup Range(steerBuf)
    <3>1. Entries' = queue
      BY <1>0, <2>1, <2>3, ConcatEmptySeq DEF Entries
    <3>2. Up
      BY <2>1 DEF TypeOK
    <3>3. Accounts => Accounts'
      BY <1>0, <2>1, <2>3, <3>1, <3>2 DEF Accounts, Waits, Up
    <3>4. Showing => Showing'
      BY <2>1, <2>2, <2>3 DEF Showing, Visible
    <3> QED BY <2>1, <2>3, <3>3, <3>4 DEF Kept, Up
  <2>4. CASE driver' \in {"settled", "failed"} /\ UNCHANGED <<steerBuf, disk, faults, transit, started>>
    <3>1. Accounts => Accounts'
      BY <2>1, <2>4 DEF Accounts, Waits, Entries, Up
    <3>2. Showing => Showing'
      BY <2>1, <2>4 DEF Showing, Visible
    <3> QED BY <2>1, <2>2, <2>4, <3>1, <3>2 DEF Kept, Up
  <2>5. CASE driver' \in {"settled", "failed"} /\ faults' = faults + 1 /\ transit' = transit
    BY <1>0, <2>1, <2>2, <2>5 DEF Kept, Up
  <2> QED BY <2>1, <2>3, <2>4, <2>5
<1>6. CASE DriverResumes
  <2>1. /\ driver \in {"settled", "failed"} /\ \E o : Drive(queue, steerBuf, disk, o, wake)
        /\ UNCHANGED <<daemon, transit, history, crashes, acked, cancelled, broken>>
    BY <1>6 DEF DriverResumes
  <2>2. Up /\ Up'
    BY <2>1 DEF TypeOK, Up
  <2>3. driver # "injecting" => transit = <<>>
    BY DEF Kept
  <2>4. faults = 0 => /\ acked' \subseteq started \cup cancelled \cup Range(queue \o steerBuf)
                      /\ queue \o steerBuf = <<>> => disk = <<>>
    BY <2>1, <2>2 DEF Kept, Accounts, Waits, Entries
  <2>5. faults = 0 /\ crashes = 0 => Showing
    BY DEF Kept
  <2> QED BY <1>0, <2>1, <2>2, <2>3, <2>4, <2>5, DriveKept
<1>7. ASSUME NEW id \in Msg \cup {NoMsg}, Cancel(id) PROVE Kept'
  BY <1>7 DEF Cancel, ghosts, Kept, Accounts, Showing, Visible, Waits, Entries, Up
<1>8. ASSUME NEW m \in Msg, QueueCancelOne(m) PROVE Kept'
  <2>1. /\ Up /\ Up'
        /\ UNCHANGED <<daemon, driver, node, transit, history, crashes, acked, broken, reported, started>>
        /\ \/ /\ disk' = queue' \o steerBuf' /\ faults' = faults /\ cancelled' = cancelled \cup {m}
           \/ faults' = faults + 1
    BY <1>8 DEF QueueCancelOne, CancelUnchanged, Remaining, PersistOk, PersistFails, Up
  <2>2. /\ queue' \in Seq(Msg) /\ steerBuf' \in Seq(Msg)
        /\ Range(queue') \cup Range(steerBuf') \cup {m} = Range(Entries)
        /\ queue = <<>> => queue' = <<>>
        /\ steerBuf = <<>> => steerBuf' = <<>>
    <3>1. CASE \E i \in DOMAIN queue : /\ queue[i] = m /\ queue' = RemoveAt(queue, i)
                                       /\ steerBuf' = steerBuf
      <4>1. PICK i \in DOMAIN queue : queue[i] = m /\ queue' = RemoveAt(queue, i) /\ steerBuf' = steerBuf
        BY <3>1
      <4>2. /\ queue' \in Seq(Msg) /\ Range(queue') = Range(queue) \ {m} /\ m \in Range(queue)
        BY <1>0, <4>1, RemoveAtFacts, RangeDef
      <4>3. queue # <<>>
        BY <4>2, EmptyFacts
      <4> QED BY <1>0, <4>1, <4>2, <4>3
    <3>2. CASE /\ queue' = queue
               /\ \E i \in DOMAIN steerBuf : steerBuf[i] = m /\ steerBuf' = RemoveAt(steerBuf, i)
      <4>1. PICK i \in DOMAIN steerBuf : steerBuf[i] = m /\ steerBuf' = RemoveAt(steerBuf, i)
        BY <3>2
      <4>2. /\ steerBuf' \in Seq(Msg) /\ Range(steerBuf') = Range(steerBuf) \ {m}
            /\ m \in Range(steerBuf)
        BY <1>0, <4>1, RemoveAtFacts, RangeDef
      <4>3. steerBuf # <<>>
        BY <4>2, EmptyFacts
      <4> QED BY <1>0, <3>2, <4>2, <4>3
    <3> QED BY <1>8, <3>1, <3>2 DEF QueueCancelOne
  <2>3. Range(Entries') \cup {m} = Range(Entries) /\ Entries' = queue' \o steerBuf'
    BY <2>2, ConcatFacts DEF Entries
  <2>4. CASE disk' = queue' \o steerBuf' /\ faults' = faults /\ cancelled' = cancelled \cup {m}
    <3>1. Accounts => Accounts'
      BY <2>1, <2>2, <2>3, <2>4 DEF Accounts, Waits
    <3>2. Showing => Showing'
      BY <2>1 DEF Showing, Visible
    <3> QED BY <2>1, <2>2, <2>4, <3>1, <3>2 DEF Kept
  <2>5. CASE faults' = faults + 1
    BY <1>0, <2>1, <2>2, <2>5 DEF Kept
  <2> QED BY <2>1, <2>4, <2>5
<1>9. ASSUME NEW stop \in BOOLEAN, QueueCancelAll(stop) PROVE Kept'
  <2>1. /\ Up /\ Up' /\ queue' = <<>> /\ steerBuf' = <<>>
        /\ UNCHANGED <<daemon, driver, node, transit, history, crashes, acked, broken, reported, started>>
        /\ \/ disk' = <<>> /\ faults' = faults /\ cancelled' = cancelled \cup Range(Entries)
           \/ faults' = faults + 1
    BY <1>9 DEF QueueCancelAll, CancelUnchanged, PersistOk, PersistFails, Up
  <2>2. Entries' = <<>>
    BY <2>1 DEF Entries
  <2>3. CASE disk' = <<>> /\ faults' = faults /\ cancelled' = cancelled \cup Range(Entries)
    <3>1. Accounts => Accounts'
      BY <2>1, <2>2, <2>3 DEF Accounts, Waits
    <3>2. Showing => Showing'
      BY <2>1 DEF Showing, Visible
    <3> QED BY <2>1, <2>3, <3>1, <3>2 DEF Kept
  <2>4. CASE faults' = faults + 1
    BY <1>0, <2>1, <2>4 DEF Kept
  <2> QED BY <2>1, <2>3, <2>4
<1>10. CASE Crash
  <2>1. /\ Up /\ ~Up' /\ crashes' = crashes + 1 /\ driver' = "absent"
        /\ queue' = <<>> /\ steerBuf' = <<>> /\ transit' = <<>>
        /\ UNCHANGED <<disk, faults, acked, cancelled, started>>
    BY <1>10 DEF Crash, Up
  <2>2. Accounts => Accounts'
    BY <2>1 DEF Accounts, Waits
  <2>3. crashes' # 0
    BY <1>0, <2>1
  <2> QED BY <2>1, <2>2, <2>3 DEF Kept
<1>11. CASE RecoverQueues
  <2>1. /\ ~Up /\ UNCHANGED <<transit, history, crashes, acked, cancelled, broken>>
        /\ \/ Up' /\ \E o : Drive(disk, <<>>, disk, o, 0)
           \/ faults' = faults + 1 /\ UNCHANGED <<daemon, queue, steerBuf, driver>>
    BY <1>11 DEF RecoverQueues, Recovered, PersistFails, Up
  <2>2. disk \o <<>> = disk /\ <<>> \in Seq(Msg)
    BY <1>0, ConcatEmptySeq
  <2>3. driver = "absent" /\ crashes # 0 /\ transit = <<>>
    BY <2>1 DEF Kept, TypeOK
  <2>4. faults = 0 => /\ acked' \subseteq started \cup cancelled \cup Range(disk \o <<>>)
                      /\ disk \o <<>> = <<>> => disk = <<>>
    BY <2>1, <2>2 DEF Kept, Accounts, Waits
  <2>5. CASE faults' = faults + 1 /\ UNCHANGED <<daemon, queue, steerBuf, driver>>
    BY <1>0, <2>1, <2>5 DEF Kept, Up
  <2> QED BY <1>0, <2>1, <2>2, <2>3, <2>4, <2>5, DriveKept
<1>12. CASE UNCHANGED vars
  BY <1>12 DEF vars, memory, ghosts, Kept, Accounts, Showing, Visible, Waits, Entries, Up
<1> QED BY <1>1, <1>2, <1>3, <1>4, <1>5, <1>6, <1>7, <1>8, <1>9, <1>10, <1>11, <1>12 DEF Next, Starting

(* In every reachable state every message is accounted for. *)
LEMMA AlwaysKept == Spec => [](TypeOK /\ Kept)
<1>1. Init => Kept
  BY EmptyFacts DEF Init, Kept, Accounts, Showing, Visible, Waits, Entries, Up
<1>2. Spec => [](TypeOK /\ Separated)
  BY AlwaysSeparated
<1> QED BY <1>1, <1>2, KeptStep, TypeCorrect, PTL DEF Spec

(* Unless a write failed, an acknowledged message waits, has started or    *)
(* was withdrawn, across any number of crashes.                            *)
THEOREM NoAckedIsLost == Spec => []AckedIsKept
<1>1. Kept => AckedIsKept
  BY DEF Kept, Accounts, Waits, AckedIsKept
<1> QED BY <1>1, AlwaysKept, PTL

(* Unless a write failed, queue.jsonl is what waits in memory, in order.   *)
THEOREM FileIsTheQueue == Spec => []DiskMirrorsMemory
<1>1. Kept => DiskMirrorsMemory
  BY DEF Kept, Accounts, DiskMirrorsMemory
<1> QED BY <1>1, AlwaysKept, PTL

(* A steer message never waits without a driver, and an entry does only    *)
(* after a failed write.                                                   *)
THEOREM NobodyWaitsAlone == Spec => []SomeoneDrives
<1>1. Kept => SomeoneDrives
  BY DEF Kept, Accounts, SomeoneDrives
<1> QED BY <1>1, AlwaysKept, PTL

(* Without failed writes and crashes, what started is in the history or    *)
(* about to be, or its failure was announced: by its id when executeRun    *)
(* rejected, by the run that had shown it when a run-before hook threw.    *)
THEOREM NothingStartsUnseen == Spec => []StartedIsVisible
<1>1. Kept => StartedIsVisible
  BY DEF Kept, Showing, Visible, StartedIsVisible
<1> QED BY <1>1, AlwaysKept, PTL
-----------------------------------------------------------------------------
(***************************************************************************)
(* The queue implements MessageLife.  What a step does to where messages   *)
(* are: nothing turns up that was not there or just submitted, and nothing *)
(* goes away unstarted and unwithdrawn unless a write has failed.          *)
(***************************************************************************)
Known == Range(Entries) \cup Range(disk)

Moved ==
  /\ started \subseteq started' /\ cancelled \subseteq cancelled' /\ submitted \subseteq submitted'
  /\ Known' \cup started' \subseteq Known \cup started \cup (submitted' \ submitted)
  /\ cancelled' \subseteq cancelled \cup Known
  /\ submitted' \ submitted \subseteq Known' \cup started'
  /\ faults # 0 => faults' # 0
  /\ faults' = 0 => Known \subseteq Known' \cup started' \cup cancelled'

(* Where a beat of the driver leaves the messages it was given. *)
LEMMA DriveMoves ==
  ASSUME NEW q \in Seq(Msg), NEW s \in Seq(Msg), NEW d \in Seq(Msg), NEW o, NEW w,
         Drive(q, s, d, o, w), faults \in Nat
  PROVE  /\ Known' \subseteq Range(q \o s) \cup Range(d)
         /\ started \subseteq started' /\ started' \subseteq started \cup Range(q \o s)
         /\ Range(q \o s) \subseteq Known' \cup started'
         /\ faults # 0 => faults' # 0
<1> DEFINE all == q \o s
<1>1. all \in Seq(Msg) /\ Demoted(q, s) = all
  BY ConcatProperties DEF Demoted
<1>2. all # <<>> => Tail(all) \in Seq(Msg) /\ Range(all) = {Head(all)} \cup Range(Tail(all))
  BY <1>1, HeadTailFacts
<1>3. /\ steerBuf' = <<>> /\ (faults' = faults \/ faults' = faults + 1)
      /\ \/ queue' = <<>> /\ all = <<>> /\ disk' = d /\ started' = started
         \/ /\ all # <<>> /\ queue' = Tail(all) /\ disk' = Tail(all)
            /\ started' = started \cup {Head(all)}
         \/ queue' = all /\ disk' \in {d, all} /\ started' = started
  BY <1>1 DEF Drive, DriverDies, Dequeue, PersistOk, PersistFails, LeavesOnDisk
<1> HIDE DEF all
<1>4. queue' \in Seq(Msg)
  BY <1>1, <1>2, <1>3
<1>5. Entries' = queue'
  BY <1>3, <1>4, ConcatEmptySeq DEF Entries
<1>6. Known' = Range(queue') \cup Range(disk')
  BY <1>5 DEF Known
<1>7. /\ Known' \subseteq Range(all) \cup Range(d)
      /\ started \subseteq started' /\ started' \subseteq started \cup Range(all)
      /\ Range(all) \subseteq Known' \cup started'
  <2>1. CASE queue' = <<>> /\ all = <<>> /\ disk' = d /\ started' = started
    BY <1>6, <2>1, EmptyFacts
  <2>2. CASE /\ all # <<>> /\ queue' = Tail(all) /\ disk' = Tail(all)
             /\ started' = started \cup {Head(all)}
    BY <1>2, <1>6, <2>2
  <2>3. CASE queue' = all /\ disk' \in {d, all} /\ started' = started
    BY <1>6, <2>3
  <2> QED BY <1>3, <2>1, <2>2, <2>3
<1> QED BY <1>3, <1>7 DEF all

(* Every handler moves messages only so. *)
LEMMA MovedStep == TypeOK /\ Separated /\ Kept /\ Next => Moved
<1> SUFFICES ASSUME TypeOK, Separated, Kept, Next PROVE Moved
  OBVIOUS
<1>0. /\ queue \in Seq(Msg) /\ steerBuf \in Seq(Msg) /\ disk \in Seq(Msg)
      /\ Range(Entries) = Range(queue) \cup Range(steerBuf)
      /\ IsInjective(queue) /\ IsInjective(steerBuf)
      /\ faults \in Nat
  BY RunQueueAssumption, ConcatFacts DEF TypeOK, Entries, Separated, Clean
<1>00. faults = 0 => Known \subseteq Waits
  <2>1. CASE Up
    BY <2>1 DEF Kept, Accounts, Known, Waits
  <2>2. CASE ~Up /\ faults = 0
    <3>1. queue = <<>> /\ steerBuf = <<>>
      BY <2>2 DEF Kept, Accounts, TypeOK
    <3>2. Range(Entries) = {}
      BY <1>0, <3>1, EmptyFacts
    <3> QED BY <2>2, <3>2 DEF Known, Waits
  <2> QED BY <2>1, <2>2
<1>1. ASSUME NEW m \in Msg, Submit(m) PROVE Moved
  <2>1. /\ Up /\ UNCHANGED cancelled /\ m \notin submitted /\ submitted' = submitted \cup {m}
    BY <1>1 DEF Submit
  <2>2. CASE SubmitDirect(m)
    <3>1. Drive(<<m>>, steerBuf, disk, Pending(outcome, {m}), WakeAfter(m)) /\ queue = <<>>
      BY <2>2 DEF SubmitDirect, Idle
    <3>2. <<m>> \in Seq(Msg)
      OBVIOUS
    <3>3. Range(<<m>> \o steerBuf) = Range(Entries) \cup {m}
      BY <1>0, <3>1, AddFacts, EmptyFacts
    <3>4. /\ Known' \subseteq Range(Entries) \cup {m} \cup Range(disk)
          /\ started \subseteq started' /\ started' \subseteq started \cup Range(Entries) \cup {m}
          /\ Range(Entries) \cup {m} \subseteq Known' \cup started'
          /\ faults # 0 => faults' # 0
      BY <1>0, <3>1, <3>2, <3>3, DriveMoves
    <3>5. faults = 0 => Known \subseteq Range(Entries)
      BY <1>00, <2>1 DEF Waits
    <3> QED BY <2>1, <3>4, <3>5 DEF Moved, Known
  <2>3. CASE SubmitSteer(m)
    <3>1. /\ UNCHANGED <<queue, started>> /\ steerBuf' = Append(steerBuf, m)
          /\ disk' \in {disk, queue \o steerBuf'}
          /\ faults' \in {faults, faults + 1}
      BY <2>3 DEF SubmitSteer, PersistOk, PersistFails
    <3> DEFINE b == Append(steerBuf, m)
    <3>2. b \in Seq(Msg) /\ Range(b) = Range(steerBuf) \cup {m} /\ steerBuf' = b
      BY <1>0, <3>1, AppendRange
    <3> HIDE DEF b
    <3>3. Entries' = queue \o b /\ Range(queue \o b) = Range(Entries) \cup {m}
      BY <1>0, <3>1, <3>2, ConcatFacts DEF Entries
    <3>4. disk' = disk \/ disk' = Entries'
      BY <3>1, <3>2, <3>3
    <3>5. Known' \subseteq Known \cup {m} /\ Range(Entries) \cup {m} \subseteq Known'
      BY <3>3, <3>4 DEF Known
    <3>6. faults = 0 => Known \subseteq Range(Entries)
      BY <1>00, <2>1 DEF Waits
    <3>7. (faults # 0 => faults' # 0) /\ started' = started
      BY <1>0, <3>1
    <3> QED BY <2>1, <3>5, <3>6, <3>7 DEF Moved
  <2>4. ASSUME NEW disposition \in Dispositions(m), SubmitQueued(m, disposition)
        PROVE  Moved
    <3> DEFINE q == AtHead(m, disposition)
    <3>1. q \in Seq(Msg) /\ Range(q) = Range(queue) \cup {m}
      BY <1>0, AddFacts DEF AtHead
    <3>2. \/ /\ UNCHANGED <<steerBuf, started>> /\ faults' \in {faults, faults + 1}
             /\ queue' = q /\ disk' \in {disk, q \o steerBuf}
          \/ Drive(q, steerBuf, q \o steerBuf, Pending(outcome, {m}), WakeAfter(m))
      BY <2>4 DEF SubmitQueued, Enqueue, PersistOk, PersistFails
    <3> HIDE DEF q
    <3>3. Range(q \o steerBuf) = Range(Entries) \cup {m} /\ q \o steerBuf \in Seq(Msg)
      BY <1>0, <3>1, ConcatFacts
    <3>4. faults = 0 => Known \subseteq Range(Entries)
      BY <1>00, <2>1 DEF Waits
    <3>5. CASE /\ UNCHANGED <<steerBuf, started>> /\ faults' \in {faults, faults + 1}
               /\ queue' = q /\ disk' \in {disk, q \o steerBuf}
      <4>1. Entries' = q \o steerBuf
        BY <3>5 DEF Entries
      <4>2. Known' \subseteq Known \cup {m} /\ Range(Entries) \cup {m} \subseteq Known'
        BY <3>3, <3>5, <4>1 DEF Known
      <4>3. faults # 0 => faults' # 0
        BY <1>0, <3>5
      <4> QED BY <2>1, <3>4, <3>5, <4>2, <4>3 DEF Moved
    <3>6. CASE Drive(q, steerBuf, q \o steerBuf, Pending(outcome, {m}), WakeAfter(m))
      <4>1. /\ Known' \subseteq Range(Entries) \cup {m}
            /\ started \subseteq started' /\ started' \subseteq started \cup Range(Entries) \cup {m}
            /\ Range(Entries) \cup {m} \subseteq Known' \cup started'
            /\ faults # 0 => faults' # 0
        BY <1>0, <3>1, <3>3, <3>6, DriveMoves
      <4> QED BY <2>1, <3>4, <4>1 DEF Moved, Known
    <3> QED BY <3>2, <3>5, <3>6
  <2> QED BY <1>1, <2>2, <2>3, <2>4 DEF Submit
<1>2. CASE Starting \/ Land \/ EndRun \/ Inject
  <2>1. /\ UNCHANGED <<queue, steerBuf, disk, started, cancelled, submitted>>
        /\ faults' \in {faults, faults + 1}
    BY <1>2 DEF Starting, RunStarts, AssemblyFails, HookFails, Land, EndRun, Inject, StartUnchanged, RunUnchanged
  <2>2. Known' = Known
    BY <2>1 DEF Known, Entries
  <2> QED BY <1>0, <2>1, <2>2 DEF Moved
<1>3. CASE DrainSteer
  <2>1. /\ UNCHANGED <<queue, cancelled, submitted>> /\ driver = "looping"
        /\ \/ /\ steerBuf' = <<>> /\ disk' = queue /\ faults' = faults
              /\ started' = started \cup Range(steerBuf)
           \/ UNCHANGED <<steerBuf, disk, faults, started>>
           \/ steerBuf' = <<>> /\ disk' = disk /\ faults' = faults + 1 /\ started' = started
    BY <1>3 DEF DrainSteer, RunUnchanged, BufferAfterDrain, AfterDrain, PersistOk, PersistFails
  <2>2. faults = 0 => Known \subseteq Range(queue) \cup Range(steerBuf)
    <3>1. Up
      BY <2>1 DEF TypeOK
    <3> QED BY <1>0, <1>00, <3>1 DEF Waits
  <2>3. steerBuf' = <<>> => Entries' = queue
    BY <1>0, <2>1, ConcatEmptySeq DEF Entries
  <2>4. CASE /\ steerBuf' = <<>> /\ disk' = queue /\ faults' = faults
             /\ started' = started \cup Range(steerBuf)
    BY <1>0, <2>1, <2>2, <2>3, <2>4 DEF Moved, Known
  <2>5. CASE UNCHANGED <<steerBuf, disk, faults, started>>
    BY <2>1, <2>5 DEF Moved, Known, Entries
  <2>6. CASE steerBuf' = <<>> /\ disk' = disk /\ faults' = faults + 1 /\ started' = started
    BY <1>0, <2>1, <2>3, <2>6 DEF Moved, Known
  <2> QED BY <2>1, <2>4, <2>5, <2>6
<1>4. CASE DriverResumes
  <2>1. /\ \E o : Drive(queue, steerBuf, disk, o, wake)
        /\ UNCHANGED <<cancelled, submitted>> /\ driver # "absent"
    BY <1>4 DEF DriverResumes
  <2>2. faults = 0 => Known \subseteq Range(Entries)
    BY <1>00, <2>1 DEF Waits, TypeOK
  <2>3. /\ Known' \subseteq Known
        /\ started \subseteq started' /\ started' \subseteq started \cup Known
        /\ Range(Entries) \subseteq Known' \cup started'
        /\ faults # 0 => faults' # 0
    BY <1>0, <2>1, DriveMoves DEF Known, Entries
  <2> QED BY <2>1, <2>2, <2>3 DEF Moved
<1>5. ASSUME NEW id \in Msg \cup {NoMsg}, Cancel(id) PROVE Moved
  BY <1>5 DEF Cancel, ghosts, Moved, Known, Entries
<1>6. ASSUME NEW m \in Msg, QueueCancelOne(m) PROVE Moved
  <2>1. /\ Up /\ UNCHANGED <<started, submitted>>
        /\ \/ /\ disk' = queue' \o steerBuf' /\ cancelled' = cancelled \cup {m}
              /\ faults' = faults
           \/ disk' = disk /\ cancelled' = cancelled /\ faults' = faults + 1
    BY <1>6 DEF QueueCancelOne, CancelUnchanged, Remaining, PersistOk, PersistFails
  <2>2. /\ queue' \in Seq(Msg) /\ steerBuf' \in Seq(Msg)
        /\ Range(queue') \cup Range(steerBuf') \cup {m} = Range(Entries)
    <3>1. CASE \E i \in DOMAIN queue : /\ queue[i] = m /\ queue' = RemoveAt(queue, i)
                                       /\ steerBuf' = steerBuf
      <4>1. PICK i \in DOMAIN queue : queue[i] = m /\ queue' = RemoveAt(queue, i) /\ steerBuf' = steerBuf
        BY <3>1
      <4>2. /\ queue' \in Seq(Msg) /\ Range(queue') = Range(queue) \ {m} /\ m \in Range(queue)
        BY <1>0, <4>1, RemoveAtFacts, RangeDef
      <4> QED BY <1>0, <4>1, <4>2
    <3>2. CASE /\ queue' = queue
               /\ \E i \in DOMAIN steerBuf : steerBuf[i] = m /\ steerBuf' = RemoveAt(steerBuf, i)
      <4>1. PICK i \in DOMAIN steerBuf : steerBuf[i] = m /\ steerBuf' = RemoveAt(steerBuf, i)
        BY <3>2
      <4>2. /\ steerBuf' \in Seq(Msg) /\ Range(steerBuf') = Range(steerBuf) \ {m}
            /\ m \in Range(steerBuf)
        BY <1>0, <4>1, RemoveAtFacts, RangeDef
      <4> QED BY <1>0, <3>2, <4>2
    <3> QED BY <1>6, <3>1, <3>2 DEF QueueCancelOne
  <2>3. Range(Entries') \cup {m} = Range(Entries) /\ Entries' = queue' \o steerBuf'
    BY <2>2, ConcatFacts DEF Entries
  <2>4. faults = 0 => Known \subseteq Range(Entries)
    BY <1>00, <2>1 DEF Waits
  <2>5. CASE disk' = queue' \o steerBuf' /\ cancelled' = cancelled \cup {m} /\ faults' = faults
    BY <2>1, <2>3, <2>4, <2>5 DEF Moved, Known
  <2>6. CASE disk' = disk /\ cancelled' = cancelled /\ faults' = faults + 1
    BY <1>0, <2>1, <2>3, <2>6 DEF Moved, Known
  <2> QED BY <2>1, <2>5, <2>6
<1>7. ASSUME NEW stop \in BOOLEAN, QueueCancelAll(stop) PROVE Moved
  <2>1. /\ Up /\ queue' = <<>> /\ steerBuf' = <<>> /\ UNCHANGED <<started, submitted>>
        /\ \/ /\ disk' = <<>> /\ faults' = faults
              /\ cancelled' = cancelled \cup Range(Entries)
           \/ disk' = disk /\ faults' = faults + 1 /\ cancelled' = cancelled
    BY <1>7 DEF QueueCancelAll, CancelUnchanged, PersistOk, PersistFails
  <2>2. Entries' = <<>> /\ Range(<<>>) = {}
    BY <2>1, EmptyFacts DEF Entries
  <2>3. faults = 0 => Known \subseteq Range(Entries)
    BY <1>00, <2>1 DEF Waits
  <2>4. CASE disk' = <<>> /\ faults' = faults /\ cancelled' = cancelled \cup Range(Entries)
    BY <2>1, <2>2, <2>3, <2>4 DEF Moved, Known
  <2>5. CASE disk' = disk /\ faults' = faults + 1 /\ cancelled' = cancelled
    BY <1>0, <2>1, <2>2, <2>5 DEF Moved, Known
  <2> QED BY <2>1, <2>4, <2>5
<1>8. CASE Crash
  <2>1. /\ Up /\ queue' = <<>> /\ steerBuf' = <<>>
        /\ UNCHANGED <<disk, faults, started, cancelled, submitted>>
    BY <1>8 DEF Crash
  <2>2. Entries' = <<>> /\ Range(<<>>) = {}
    BY <2>1, EmptyFacts DEF Entries
  <2>3. Known' = Range(disk) /\ (faults = 0 => disk = Entries)
    BY <2>1, <2>2 DEF Known, Kept, Accounts
  <2> QED BY <2>1, <2>3 DEF Moved, Known
<1>9. CASE RecoverQueues
  <2>1. /\ ~Up /\ UNCHANGED <<cancelled, submitted>>
        /\ \/ \E o : Drive(disk, <<>>, disk, o, 0)
           \/ faults' = faults + 1 /\ UNCHANGED <<queue, steerBuf, disk, started>>
    BY <1>9 DEF RecoverQueues, Recovered, PersistFails
  <2>2. disk \o <<>> = disk /\ <<>> \in Seq(Msg)
    BY <1>0, ConcatEmptySeq
  <2>3. CASE \E o : Drive(disk, <<>>, disk, o, 0)
    <3>1. /\ Known' \subseteq Range(disk)
          /\ started \subseteq started' /\ started' \subseteq started \cup Range(disk)
          /\ Range(disk) \subseteq Known' \cup started'
          /\ faults # 0 => faults' # 0
      BY <1>0, <2>2, <2>3, DriveMoves
    <3>2. faults = 0 => Known \subseteq Range(disk)
      BY <1>00, <2>1 DEF Waits
    <3> QED BY <2>1, <3>1, <3>2 DEF Moved, Known
  <2>4. CASE faults' = faults + 1 /\ UNCHANGED <<queue, steerBuf, disk, started>>
    <3>1. Known' = Known
      BY <2>4 DEF Known, Entries
    <3> QED BY <1>0, <2>1, <2>4, <3>1 DEF Moved
  <2> QED BY <2>1, <2>3, <2>4
<1> QED BY <1>1, <1>2, <1>3, <1>4, <1>5, <1>6, <1>7, <1>8, <1>9 DEF Next, Starting

(* A step of the queue is a step of every message's life, or none. *)
LEMMA LifeStep ==
  TypeOK /\ Separated /\ Kept /\ Separated' /\ TypeOK' /\ [Next]_vars => [Life!Next]_(Life!vars)
<1> SUFFICES ASSUME TypeOK, Separated, Kept, Separated', TypeOK', [Next]_vars
             PROVE  [Life!Next]_(Life!vars)
  OBVIOUS
<1>1. CASE Next
  <2>1. Moved
    BY <1>1, MovedStep
  <2>2. \A m \in Msg : LifeOf(m) \in Life!Stages /\ LifeOf(m)' \in Life!Stages
    BY DEF LifeOf, Life!Stages
  <2>3. [m \in Msg |-> LifeOf(m)'] \in [Msg -> Life!Stages]
    BY <2>2
  <2>4. faults > 0 <=> faults # 0
    BY RunQueueAssumption DEF TypeOK
  <2>5. faults' > 0 <=> faults' # 0
    BY RunQueueAssumption DEF TypeOK
  <2>6. ASSUME NEW m \in Msg
        PROVE  \/ LifeOf(m)' = LifeOf(m)
               \/ <<LifeOf(m), LifeOf(m)'>> \in Life!Moves
               \/ faults' # 0 /\ LifeOf(m) = "waiting" /\ LifeOf(m)' = "lost"
    <3>1. /\ LifeOf(m) = IF m \in started THEN "started"
                         ELSE IF m \in Known THEN "waiting"
                         ELSE IF m \in cancelled THEN "cancelled"
                         ELSE IF m \in submitted THEN "lost" ELSE "new"
          /\ LifeOf(m)' = IF m \in started' THEN "started"
                          ELSE IF m \in Known' THEN "waiting"
                          ELSE IF m \in cancelled' THEN "cancelled"
                          ELSE IF m \in submitted' THEN "lost" ELSE "new"
      BY DEF LifeOf, Known
    <3>2. /\ Known \cup started \cup cancelled \subseteq submitted
          /\ Known' \cup started' \cup cancelled' \subseteq submitted'
      BY DEF Separated, Clean, Known
    <3>3. CASE m \in started
      BY <2>1, <3>1, <3>3 DEF Moved
    <3>4. CASE m \notin started /\ m \in Known
      BY <2>1, <3>1, <3>2, <3>4 DEF Moved, Life!Moves
    <3>5. CASE m \notin started /\ m \notin Known /\ m \in submitted
      BY <2>1, <3>1, <3>2, <3>5 DEF Moved, Life!Moves
    <3>6. CASE m \notin submitted
      BY <2>1, <3>1, <3>2, <3>6 DEF Moved, Life!Moves
    <3> QED BY <3>3, <3>4, <3>5, <3>6
  <2>7. \A m \in Msg : Life!MayMove(m)
    BY <2>5, <2>6 DEF Life!MayMove
  <2> QED BY <2>1, <2>3, <2>4, <2>5, <2>7 DEF Life!Next, Moved
<1>2. CASE UNCHANGED vars
  <2>1. \A m \in Msg : LifeOf(m)' = LifeOf(m)
    BY <1>2 DEF vars, memory, ghosts, LifeOf, Entries
  <2> QED BY <1>2, <2>1 DEF vars, Life!vars
<1> QED BY <1>1, <1>2

(* The queue, its driver and its file keep what MessageLife promises about *)
(* each message: the detailed specification implements the abstract one.   *)
THEOREM QueueImplementsLife == Spec => ImplementsLife
<1>1. Init => Life!Init
  <2> SUFFICES ASSUME Init PROVE Life!Init
    OBVIOUS
  <2>1. \A m \in Msg : LifeOf(m) = "new"
    BY EmptyFacts DEF Init, LifeOf, Entries
  <2> QED BY <2>1 DEF Init, Life!Init
<1>2. Spec => [](TypeOK /\ Separated)
  BY AlwaysSeparated
<1>3. Spec => [](TypeOK /\ Kept)
  BY AlwaysKept
<1> QED BY <1>1, <1>2, <1>3, LifeStep, PTL DEF Spec, ImplementsLife, Life!Spec
-----------------------------------------------------------------------------
(***************************************************************************)
(* The order of execution.  Every handler builds the new sequence from the *)
(* old one by joining, cutting and adding, so what these do to Precedes is *)
(* all that is needed.                                                     *)
(***************************************************************************)

(* What precedes what in a sequence made of two. *)
LEMMA JoinedOrder ==
  ASSUME NEW s \in Seq(Msg), NEW t \in Seq(Msg), NEW a, NEW b
  PROVE  Precedes(s \o t, a, b) <=>
           Precedes(s, a, b) \/ Precedes(t, a, b) \/ (a \in Range(s) /\ b \in Range(t))
<1> DEFINE u == s \o t
<1>1. /\ Len(s) \in Nat /\ Len(t) \in Nat
      /\ DOMAIN s = 1 .. Len(s) /\ DOMAIN t = 1 .. Len(t) /\ DOMAIN u = 1 .. Len(s) + Len(t)
      /\ \A i \in 1 .. Len(s) : u[i] = s[i]
      /\ \A i \in 1 .. Len(t) : u[Len(s) + i] = t[i]
      /\ \A i \in Len(s) + 1 .. Len(s) + Len(t) : u[i] = t[i - Len(s)]
  BY ConcatProperties, LenProperties
<1>2. /\ a \in Range(s) <=> \E i \in 1 .. Len(s) : s[i] = a
      /\ b \in Range(t) <=> \E i \in 1 .. Len(t) : t[i] = b
  BY RangeDef
<1> HIDE DEF u
<1>3. ASSUME Precedes(u, a, b)
      PROVE  Precedes(s, a, b) \/ Precedes(t, a, b) \/ (a \in Range(s) /\ b \in Range(t))
  <2>1. PICK i, j \in 1 .. Len(s) + Len(t) : i < j /\ u[i] = a /\ u[j] = b
    BY <1>1, <1>3 DEF Precedes
  <2>2. CASE j <= Len(s)
    BY <1>1, <2>1, <2>2 DEF Precedes
  <2>3. CASE i > Len(s)
    <3>1. /\ i - Len(s) \in 1 .. Len(t) /\ j - Len(s) \in 1 .. Len(t) /\ i - Len(s) < j - Len(s)
          /\ t[i - Len(s)] = a /\ t[j - Len(s)] = b
      BY <1>1, <2>1, <2>3
    <3> QED BY <1>1, <3>1 DEF Precedes
  <2>4. CASE i <= Len(s) /\ j > Len(s)
    <3>1. /\ i \in 1 .. Len(s) /\ s[i] = a
          /\ j - Len(s) \in 1 .. Len(t) /\ t[j - Len(s)] = b
      BY <1>1, <2>1, <2>4
    <3> QED BY <1>2, <3>1
  <2> QED BY <1>1, <2>1, <2>2, <2>3, <2>4
<1>4. ASSUME Precedes(s, a, b) PROVE Precedes(u, a, b)
  <2>1. PICK i, j \in 1 .. Len(s) : i < j /\ s[i] = a /\ s[j] = b
    BY <1>1, <1>4 DEF Precedes
  <2>2. i \in DOMAIN u /\ j \in DOMAIN u /\ u[i] = a /\ u[j] = b
    BY <1>1, <2>1
  <2> QED BY <2>1, <2>2 DEF Precedes
<1>5. ASSUME Precedes(t, a, b) PROVE Precedes(u, a, b)
  <2>1. PICK i, j \in 1 .. Len(t) : i < j /\ t[i] = a /\ t[j] = b
    BY <1>1, <1>5 DEF Precedes
  <2>2. /\ Len(s) + i \in DOMAIN u /\ Len(s) + j \in DOMAIN u /\ Len(s) + i < Len(s) + j
        /\ u[Len(s) + i] = a /\ u[Len(s) + j] = b
    BY <1>1, <2>1
  <2> QED BY <2>2 DEF Precedes
<1>6. ASSUME a \in Range(s), b \in Range(t) PROVE Precedes(u, a, b)
  <2>1. PICK i \in 1 .. Len(s) : s[i] = a
    BY <1>2, <1>6
  <2>2. PICK j \in 1 .. Len(t) : t[j] = b
    BY <1>2, <1>6
  <2>3. /\ i \in DOMAIN u /\ Len(s) + j \in DOMAIN u /\ i < Len(s) + j
        /\ u[i] = a /\ u[Len(s) + j] = b
    BY <1>1, <2>1, <2>2
  <2> QED BY <2>3 DEF Precedes
<1> QED BY <1>3, <1>4, <1>5, <1>6 DEF u

(* Order speaks of what is there, one way only where nothing repeats. *)
LEMMA OrderFacts ==
  ASSUME NEW s \in Seq(Msg), NEW a, NEW b, Precedes(s, a, b)
  PROVE  /\ a \in Range(s) /\ b \in Range(s)
         /\ IsInjective(s) => ~Precedes(s, b, a)
<1>1. PICK i, j \in DOMAIN s : i < j /\ s[i] = a /\ s[j] = b
  BY DEF Precedes
<1>2. DOMAIN s = 1 .. Len(s)
  BY LenProperties
<1>3. a \in Range(s) /\ b \in Range(s)
  BY <1>1, <1>2, RangeDef
<1>4. ASSUME IsInjective(s), Precedes(s, b, a) PROVE FALSE
  <2>1. PICK k, l \in DOMAIN s : k < l /\ s[k] = b /\ s[l] = a
    BY <1>4 DEF Precedes
  <2>2. k = j /\ l = i
    BY <1>1, <1>4, <2>1 DEF IsInjective
  <2> QED BY <1>1, <1>2, <2>1, <2>2
<1> QED BY <1>3, <1>4

(* A single message precedes nothing. *)
LEMMA AloneInOrder ==
  ASSUME NEW e \in Msg, NEW a, NEW b
  PROVE  ~Precedes(<<e>>, a, b) /\ ~Precedes(<<>>, a, b)
BY DEF Precedes

(* Taking one out leaves the order of the others. *)
LEMMA OrderWithout ==
  ASSUME NEW s \in Seq(Msg), NEW i \in DOMAIN s, NEW a, NEW b, Precedes(RemoveAt(s, i), a, b)
  PROVE  Precedes(s, a, b)
<1> DEFINE p == SubSeq(s, 1, i - 1)
           r == SubSeq(s, i + 1, Len(s))
<1>1. Len(s) \in Nat /\ DOMAIN s = 1 .. Len(s) /\ i \in 1 .. Len(s)
  BY LenProperties
<1>2. /\ p \in Seq(Msg) /\ Len(p) = i - 1 /\ DOMAIN p = 1 .. i - 1
      /\ \A k \in 1 .. i - 1 : p[k] = s[k]
  BY <1>1, SubSeqProperties
<1>3. /\ r \in Seq(Msg) /\ Len(r) = Len(s) - i /\ DOMAIN r = 1 .. Len(s) - i
      /\ \A k \in 1 .. Len(s) - i : r[k] = s[k + i]
  BY <1>1, SubSeqProperties
<1>4. RemoveAt(s, i) = p \o r
  BY DEF RemoveAt
<1> HIDE DEF p, r
<1>5. Precedes(p, a, b) \/ Precedes(r, a, b) \/ (a \in Range(p) /\ b \in Range(r))
  BY <1>2, <1>3, <1>4, JoinedOrder
<1>6. CASE Precedes(p, a, b)
  <2>1. PICK k, l \in 1 .. i - 1 : k < l /\ p[k] = a /\ p[l] = b
    BY <1>2, <1>6 DEF Precedes
  <2> QED BY <1>1, <1>2, <2>1 DEF Precedes
<1>7. CASE Precedes(r, a, b)
  <2>1. PICK k, l \in 1 .. Len(s) - i : k < l /\ r[k] = a /\ r[l] = b
    BY <1>3, <1>7 DEF Precedes
  <2>2. k + i \in DOMAIN s /\ l + i \in DOMAIN s /\ k + i < l + i /\ s[k + i] = a /\ s[l + i] = b
    BY <1>1, <1>3, <2>1
  <2> QED BY <2>2 DEF Precedes
<1>8. CASE a \in Range(p) /\ b \in Range(r)
  <2>1. PICK k \in 1 .. i - 1 : p[k] = a
    BY <1>2, <1>8, RangeDef
  <2>2. PICK l \in 1 .. Len(s) - i : r[l] = b
    BY <1>3, <1>8, RangeDef
  <2>3. k \in DOMAIN s /\ l + i \in DOMAIN s /\ k < l + i /\ s[k] = a /\ s[l + i] = b
    BY <1>1, <1>2, <1>3, <2>1, <2>2
  <2> QED BY <2>3 DEF Precedes
<1> QED BY <1>5, <1>6, <1>7, <1>8

InOrder ==
  \A a, b \in Msg : Precedes(Entries, a, b) =>
    /\ ~Precedes(Entries', b, a)
    /\ node' = b /\ node # b => a \notin Range(Entries')

(* A beat of the driver takes the first: what it leaves waiting stood in   *)
(* the same order and behind it.                                           *)
LEMMA DriveInOrder ==
  ASSUME NEW q \in Seq(Msg), NEW s \in Seq(Msg), NEW d, NEW o, NEW w, Drive(q, s, d, o, w),
         \A a, b \in Msg : Precedes(Entries, a, b) => ~Precedes(q \o s, b, a)
  PROVE  InOrder
<1> USE RunQueueAssumption
<1> DEFINE all == q \o s
<1>1. all \in Seq(Msg) /\ Demoted(q, s) = all
  BY ConcatProperties DEF Demoted
<1>2. /\ steerBuf' = <<>>
      /\ \/ queue' = <<>> /\ node' = NoMsg
         \/ all # <<>> /\ queue' = Tail(all) /\ node' = Head(all)
         \/ queue' = all /\ node' = NoMsg
  BY <1>1 DEF Drive, DriverDies, Dequeue
<1> HIDE DEF all
<1>3. ASSUME all # <<>>
      PROVE  /\ Tail(all) \in Seq(Msg) /\ Head(all) \in Msg
             /\ \A a, b : Precedes(Tail(all), a, b) => Precedes(all, a, b)
             /\ \A a \in Range(Tail(all)) : Precedes(all, Head(all), a)
  <2> DEFINE h == Head(all)
             one == <<h>>
             t == Tail(all)
  <2>1. h \in Msg /\ t \in Seq(Msg)
    BY <1>1, <1>3, HeadTailFacts
  <2>2. all = one \o t
    BY <1>1, <1>3
  <2>3. one \in Seq(Msg) /\ h \in Range(one)
    BY <2>1, SingletonFacts
  <2> HIDE DEF h, one, t
  <2>4. /\ \A a, b : Precedes(t, a, b) => Precedes(one \o t, a, b)
        /\ \A a \in Range(t) : Precedes(one \o t, h, a)
    BY <2>1, <2>3, JoinedOrder
  <2> QED BY <2>1, <2>2, <2>4 DEF h, t
<1>4. queue' \in Seq(Msg)
  <2>1. <<>> \in Seq(Msg)
    OBVIOUS
  <2>2. queue' = <<>> \/ (all # <<>> /\ queue' = Tail(all)) \/ queue' = all
    BY <1>2
  <2>3. all # <<>> => Tail(all) \in Seq(Msg)
    BY <1>3
  <2> QED BY <1>1, <2>1, <2>2, <2>3
<1>5. Entries' = queue'
  BY <1>2, <1>4, ConcatEmptySeq DEF Entries
<1> SUFFICES ASSUME NEW a \in Msg, NEW b \in Msg, Precedes(Entries, a, b)
             PROVE  ~Precedes(queue', b, a) /\ (node' = b => a \notin Range(queue'))
  BY <1>5 DEF InOrder
<1>6. ~Precedes(all, b, a)
  BY DEF all
<1>7. CASE queue' = <<>> /\ node' = NoMsg
  BY <1>7, AloneInOrder
<1>8. CASE all # <<>> /\ queue' = Tail(all) /\ node' = Head(all)
  BY <1>3, <1>6, <1>8
<1>9. CASE queue' = all /\ node' = NoMsg
  BY <1>6, <1>9
<1> QED BY <1>2, <1>7, <1>8, <1>9

(* Every handler keeps the order. *)
LEMMA OrderStep == TypeOK /\ Separated /\ Kept /\ [Next]_vars => InOrder
<1> SUFFICES ASSUME TypeOK, Separated, Kept, [Next]_vars PROVE InOrder
  OBVIOUS
<1> USE RunQueueAssumption
<1>0. /\ queue \in Seq(Msg) /\ steerBuf \in Seq(Msg) /\ disk \in Seq(Msg)
      /\ Entries \in Seq(Msg) /\ Range(Entries) = Range(queue) \cup Range(steerBuf)
      /\ IsInjective(Entries) /\ Entries = queue \o steerBuf
  BY ConcatFacts DEF TypeOK, Entries, Separated, Clean
<1>00. \A a, b : Precedes(Entries, a, b) =>
         a \in Range(Entries) /\ b \in Range(Entries) /\ ~Precedes(Entries, b, a)
  BY <1>0, OrderFacts
<1>1. ASSUME NEW m \in Msg, Submit(m) PROVE InOrder
  <2>1. m \notin Range(Entries)
    BY <1>1 DEF Submit, Separated, Clean
  <2>2. CASE SubmitDirect(m)
    <3>1. /\ Drive(<<m>>, steerBuf, disk, Pending(outcome, {m}), WakeAfter(m))
          /\ queue = <<>> /\ driver = "absent"
      BY <2>2 DEF SubmitDirect, Idle
    <3>2. <<m>> \in Seq(Msg)
      OBVIOUS
    <3>3. Entries = <<>>
      BY <1>0, <3>1 DEF Kept
    <3>4. \A a, b : ~Precedes(Entries, a, b)
      BY <3>3, AloneInOrder
    <3> QED BY <1>0, <3>1, <3>2, <3>4, DriveInOrder
  <2>3. CASE SubmitSteer(m)
    <3>1. queue' = queue /\ node' = node /\ steerBuf' = Append(steerBuf, m)
      BY <2>3 DEF SubmitSteer
    <3> DEFINE one == <<m>>
    <3>2. one \in Seq(Msg) /\ steerBuf' = steerBuf \o one /\ Range(one) = {m}
      BY <1>0, <3>1, AppendIsConcat, SingletonFacts
    <3>3. \A a, b : ~Precedes(one, a, b)
      BY AloneInOrder
    <3> HIDE DEF one
    <3>4. Entries' = queue \o (steerBuf \o one) /\ steerBuf \o one \in Seq(Msg)
      BY <1>0, <3>1, <3>2, ConcatFacts DEF Entries
    <3>5. Entries' = Entries \o one
      BY <1>0, <3>2, <3>4, ConcatAssociative
    <3>6. \A a, b : Precedes(Entries \o one, b, a) => Precedes(Entries, b, a) \/ a = m
      BY <1>0, <3>2, <3>3, JoinedOrder
    <3> QED BY <1>00, <2>1, <3>1, <3>5, <3>6 DEF InOrder
  <2>4. ASSUME NEW disposition \in Dispositions(m), SubmitQueued(m, disposition)
        PROVE  InOrder
    <3> DEFINE q == AtHead(m, disposition)
               one == <<m>>
    <3>1. q \in Seq(Msg) /\ one \in Seq(Msg) /\ Range(one) = {m} /\ Range(q) = Range(queue) \cup {m}
      BY <1>0, AddFacts, SingletonFacts DEF AtHead
    <3>2. q = queue \o one \/ q = one \o queue
      BY <1>0, AppendIsConcat DEF AtHead
    <3>3. \A a, b : ~Precedes(one, a, b)
      BY AloneInOrder
    <3>4. \/ queue' = q /\ steerBuf' = steerBuf /\ node' = node
          \/ Drive(q, steerBuf, q \o steerBuf, Pending(outcome, {m}), WakeAfter(m))
      BY <2>4 DEF SubmitQueued, Enqueue
    <3> HIDE DEF q, one
    <3>5. \A a, b : Precedes(q, b, a) => Precedes(queue, b, a) \/ a = m \/ b = m
      <4>1. CASE q = queue \o one
        <5>1. \A a, b : Precedes(queue \o one, b, a) => Precedes(queue, b, a) \/ a = m
          BY <1>0, <3>1, <3>3, JoinedOrder
        <5> QED BY <4>1, <5>1
      <4>2. CASE q = one \o queue
        <5>1. \A a, b : Precedes(one \o queue, b, a) <=>
                 Precedes(one, b, a) \/ Precedes(queue, b, a) \/ (b \in Range(one) /\ a \in Range(queue))
          BY <1>0, <3>1, JoinedOrder
        <5>2. \A a, b : Precedes(one \o queue, b, a) => Precedes(queue, b, a) \/ b = m
          BY <3>1, <3>3, <5>1
        <5> QED BY <4>2, <5>2
      <4> QED BY <3>2, <4>1, <4>2
    <3>6. \A a, b : Precedes(q \o steerBuf, b, a) => Precedes(Entries, b, a) \/ a = m \/ b = m
      BY <1>0, <3>1, <3>5, JoinedOrder
    <3>7. \A a, b : Precedes(Entries, a, b) => ~Precedes(q \o steerBuf, b, a)
      BY <1>00, <2>1, <3>6
    <3>8. CASE queue' = q /\ steerBuf' = steerBuf /\ node' = node
      BY <3>7, <3>8 DEF InOrder, Entries
    <3>9. CASE Drive(q, steerBuf, q \o steerBuf, Pending(outcome, {m}), WakeAfter(m))
      BY <1>0, <3>1, <3>7, <3>9, DriveInOrder
    <3> QED BY <3>4, <3>8, <3>9
  <2> QED BY <1>1, <2>2, <2>3, <2>4 DEF Submit
<1>2. CASE UNCHANGED <<queue, steerBuf, node>>
  BY <1>00, <1>2 DEF InOrder, Entries
<1>3. CASE DrainSteer
  <2>1. queue' = queue /\ node' = node /\ (steerBuf' = <<>> \/ steerBuf' = steerBuf)
    BY <1>3 DEF DrainSteer, RunUnchanged, BufferAfterDrain
  <2>2. Entries' = queue \/ Entries' = Entries
    BY <1>0, <2>1, ConcatEmptySeq DEF Entries
  <2>3. \A a, b : Precedes(queue, b, a) => Precedes(Entries, b, a)
    BY <1>0, JoinedOrder
  <2> QED BY <1>00, <2>1, <2>2, <2>3 DEF InOrder
<1>4. CASE DriverResumes
  <2>1. \E o : Drive(queue, steerBuf, disk, o, wake)
    BY <1>4 DEF DriverResumes
  <2>2. \A a, b \in Msg : Precedes(Entries, a, b) => ~Precedes(queue \o steerBuf, b, a)
    BY <1>0, <1>00
  <2> QED BY <1>0, <2>1, <2>2, DriveInOrder
<1>5. ASSUME NEW m \in Msg, QueueCancelOne(m) PROVE InOrder
  <2>1. node' = node
    BY <1>5 DEF QueueCancelOne, CancelUnchanged
  <2>2. \A a, b : Precedes(Entries', b, a) => Precedes(Entries, b, a)
    <3>1. CASE \E i \in DOMAIN queue : queue' = RemoveAt(queue, i) /\ steerBuf' = steerBuf
      <4>1. PICK i \in DOMAIN queue : queue' = RemoveAt(queue, i) /\ steerBuf' = steerBuf
        BY <3>1
      <4>2. /\ queue' \in Seq(Msg) /\ Range(queue') \subseteq Range(queue)
            /\ \A a, b : Precedes(queue', a, b) => Precedes(queue, a, b)
        BY <1>0, <4>1, RemoveAtFacts, OrderWithout, ConcatFacts
      <4>3. Entries' = queue' \o steerBuf
        BY <4>1 DEF Entries
      <4> QED BY <1>0, <4>2, <4>3, JoinedOrder
    <3>2. CASE \E i \in DOMAIN steerBuf : steerBuf' = RemoveAt(steerBuf, i) /\ queue' = queue
      <4>1. PICK i \in DOMAIN steerBuf : steerBuf' = RemoveAt(steerBuf, i) /\ queue' = queue
        BY <3>2
      <4>2. /\ steerBuf' \in Seq(Msg) /\ Range(steerBuf') \subseteq Range(steerBuf)
            /\ \A a, b : Precedes(steerBuf', a, b) => Precedes(steerBuf, a, b)
        BY <1>0, <4>1, RemoveAtFacts, OrderWithout, ConcatFacts
      <4>3. Entries' = queue \o steerBuf'
        BY <4>1 DEF Entries
      <4> QED BY <1>0, <4>2, <4>3, JoinedOrder
    <3> QED BY <1>5, <3>1, <3>2 DEF QueueCancelOne
  <2> QED BY <1>00, <2>1, <2>2 DEF InOrder
<1>6. CASE Entries' = <<>> /\ (node' = node \/ node' = NoMsg)
  BY <1>6, AloneInOrder, EmptyFacts DEF InOrder
<1>7. CASE RecoverQueues
  <2>1. ~Up /\ \/ \E o : Drive(disk, <<>>, disk, o, 0)
               \/ UNCHANGED <<queue, steerBuf, node>>
    BY <1>7 DEF RecoverQueues, Recovered
  <2>2. queue = <<>> /\ steerBuf = <<>> /\ <<>> \in Seq(Msg)
    BY <2>1 DEF Kept, TypeOK
  <2>3. \A a, b : ~Precedes(Entries, a, b)
    <3>1. Range(Entries) = {}
      BY <1>0, <2>2, EmptyFacts
    <3> QED BY <1>00, <3>1
  <2>4. CASE UNCHANGED <<queue, steerBuf, node>>
    BY <1>00, <2>4 DEF InOrder, Entries
  <2> QED BY <1>0, <2>1, <2>2, <2>3, <2>4, DriveInOrder
<1>8. \A stop \in BOOLEAN : QueueCancelAll(stop) => Entries' = <<>> /\ node' = node
  BY DEF QueueCancelAll, CancelUnchanged, Entries
<1>9. Crash => Entries' = <<>> /\ node' = NoMsg
  BY DEF Crash, Entries
<1>10. Starting \/ Land \/ EndRun \/ Inject => UNCHANGED <<queue, steerBuf, node>>
  BY DEF Starting, RunStarts, AssemblyFails, HookFails, Land, EndRun, Inject, StartUnchanged, RunUnchanged
<1>11. /\ \A id \in Msg \cup {NoMsg} : Cancel(id) => UNCHANGED <<queue, steerBuf, node>>
       /\ UNCHANGED vars => UNCHANGED <<queue, steerBuf, node>>
  BY DEF Cancel, vars, memory
<1> QED BY <1>1, <1>2, <1>3, <1>4, <1>5, <1>6, <1>7, <1>8, <1>9, <1>10, <1>11 DEF Next, Starting

(* run.ts never lets a message overtake another that already waits, except *)
(* an interrupt, which is placed in front as it is submitted.              *)
THEOREM NobodyOvertakes == Spec => OrderIsKept
<1>1. TypeOK /\ Separated /\ Kept /\ [Next]_vars => [InOrder]_vars
  BY OrderStep
<1>2. Spec => [](TypeOK /\ Separated) /\ [](TypeOK /\ Kept)
  BY AlwaysSeparated, AlwaysKept, PTL
<1> QED BY <1>1, <1>2, PTL DEF Spec, OrderIsKept, InOrder
-----------------------------------------------------------------------------
(***************************************************************************)
(* The wake budget.  Every machine-woken run since the counter was cleared *)
(* either was in the backlog then or has been counted at the door, so the  *)
(* runs and what is left of the backlog are at most QUEUE_LIMIT plus what  *)
(* has been counted; the door keeps the count within WAKE_BUDGET.  A       *)
(* backlog is within QUEUE_LIMIT in memory and, for a daemon that starts   *)
(* from it, in the file.                                                   *)
(***************************************************************************)
Agents(entries) == {m \in Range(entries) : TriggerOf[m] = "agent"}

Metered(entries, file, runs, w) ==
  /\ Len(entries) <= QueueLimit /\ Len(file) <= QueueLimit
  /\ ~IsChild => runs + Cardinality(Agents(entries)) <= QueueLimit + w

Budgeted == Metered(Entries, disk, agentRuns, wake) /\ (~Up => agentRuns = 0)

(* A queue holds at most as many agent messages as it has entries.         *)
LEMMA FewAgents ==
  ASSUME NEW s \in Seq(Msg)
  PROVE  /\ IsFiniteSet(Agents(s)) /\ Cardinality(Agents(s)) \in Nat
         /\ Cardinality(Agents(s)) <= Len(s) /\ Len(s) \in Nat
<1>1. /\ Len(s) \in Nat /\ DOMAIN s = 1 .. Len(s) /\ s \in [1 .. Len(s) -> Msg]
  OBVIOUS
<1>2. IsFiniteSet(1 .. Len(s)) /\ Cardinality(1 .. Len(s)) = Len(s)
  BY <1>1, FS_Interval
<1>3. s \in Surjection(1 .. Len(s), Range(s))
  BY <1>1 DEF Range, Surjection
<1>4. IsFiniteSet(Range(s)) /\ Cardinality(Range(s)) <= Len(s)
  BY <1>2, <1>3, FS_Surjection
<1>5. Agents(s) \in SUBSET Range(s)
  BY DEF Agents
<1>6. /\ IsFiniteSet(Agents(s)) /\ Cardinality(Agents(s)) <= Cardinality(Range(s))
  BY <1>4, <1>5, FS_Subset
<1>7. Cardinality(Agents(s)) \in Nat /\ Cardinality(Range(s)) \in Nat
  BY <1>4, <1>6, FS_CardinalityType
<1> QED BY <1>1, <1>4, <1>6, <1>7

(* A withdrawal, a drain or a dequeue leaves no more of them; a submission *)
(* adds one if it is an agent's.                                           *)
LEMMA FewerAgents ==
  ASSUME NEW s \in Seq(Msg), NEW t \in Seq(Msg), Range(t) \subseteq Range(s)
  PROVE  Cardinality(Agents(t)) <= Cardinality(Agents(s))
<1>1. Agents(t) \in SUBSET Agents(s)
  BY DEF Agents
<1> QED BY <1>1, FewAgents, FS_Subset

LEMMA OneMoreAgent ==
  ASSUME NEW s \in Seq(Msg), NEW t \in Seq(Msg), NEW m, Range(t) = Range(s) \cup {m}
  PROVE  /\ Cardinality(Agents(t)) <= Cardinality(Agents(s)) + 1
         /\ TriggerOf[m] # "agent" => Cardinality(Agents(t)) = Cardinality(Agents(s))
<1>1. CASE TriggerOf[m] = "agent"
  <2>1. Agents(t) = Agents(s) \cup {m}
    BY <1>1 DEF Agents
  <2>2. IsFiniteSet(Agents(s)) /\ Cardinality(Agents(s)) \in Nat
    BY FewAgents
  <2>3. /\ Cardinality(Agents(s) \cup {m}) =
             IF m \in Agents(s) THEN Cardinality(Agents(s)) ELSE Cardinality(Agents(s)) + 1
    BY <2>2, FS_AddElement
  <2> QED BY <1>1, <2>1, <2>2, <2>3
<1>2. CASE TriggerOf[m] # "agent"
  <2>1. Agents(t) = Agents(s)
    BY <1>2 DEF Agents
  <2> QED BY <1>2, <2>1, FewAgents
<1> QED BY <1>1, <1>2

(* What waits shrinks, or a message that the door admits joins it, at      *)
(* either end or in the middle.                                            *)
LEMMA StillMetered ==
  ASSUME NEW e \in Seq(Msg), NEW f \in Seq(Msg), NEW d, NEW r \in Nat, NEW w \in Nat,
         Metered(e, d, r, w), Len(f) <= Len(e), Range(f) \subseteq Range(e), IsInjective(f)
  PROVE  Metered(f, d, r, w) /\ Metered(f, f, r, w)
<1>1. /\ Cardinality(Agents(f)) <= Cardinality(Agents(e))
      /\ Cardinality(Agents(e)) \in Nat /\ Cardinality(Agents(f)) \in Nat
      /\ Len(e) \in Nat /\ Len(f) \in Nat
  BY FewAgents, FewerAgents
<1> QED BY <1>1, RunQueueAssumption DEF Metered

LEMMA Admitted ==
  ASSUME TypeOK, NEW m \in Msg, Admits(m), NEW f \in Seq(Msg),
         Budgeted, Len(f) = Len(Entries) + 1, Range(f) = Range(Entries) \cup {m}
  PROVE  /\ WakeAfter(m) \in 0 .. WakeBudget
         /\ Metered(f, disk, agentRuns, WakeAfter(m)) /\ Metered(f, f, agentRuns, WakeAfter(m))
<1> DEFINE a == Cardinality(Agents(Entries))
           b == Cardinality(Agents(f))
<1>1. /\ queue \in Seq(Msg) /\ steerBuf \in Seq(Msg) /\ wake \in Nat /\ agentRuns \in Nat
      /\ wake <= WakeBudget
  BY RunQueueAssumption DEF TypeOK
<1>2. Entries \in Seq(Msg) /\ Len(Entries) = Len(queue) + Len(steerBuf)
  BY <1>1, ConcatProperties DEF Entries
<1>3. a \in Nat /\ b \in Nat /\ b <= a + 1 /\ (TriggerOf[m] # "agent" => b = a)
  BY <1>2, FewAgents, OneMoreAgent
<1>4. Len(f) <= QueueLimit
  BY <1>1, <1>2, RunQueueAssumption DEF Admits
<1>5. /\ Len(disk) <= QueueLimit
      /\ ~IsChild => agentRuns + a <= QueueLimit + wake
  BY DEF Budgeted, Metered
<1>6. /\ WakeAfter(m) \in Nat /\ WakeAfter(m) <= WakeBudget
      /\ ~IsChild => b + wake <= a + WakeAfter(m)
  BY <1>1, <1>3, RunQueueAssumption DEF WakeAfter, Counted, Admits
<1> HIDE DEF a, b
<1>7. ~IsChild => agentRuns + b <= QueueLimit + WakeAfter(m)
  BY <1>1, <1>3, <1>5, <1>6, RunQueueAssumption
<1> QED BY <1>4, <1>5, <1>6, <1>7, RunQueueAssumption DEF Metered, b

(* A beat of the driver moves at most one of the backlog to the runs.      *)
LEMMA DriveMetered ==
  ASSUME TypeOK, NEW q \in Seq(Msg), NEW s \in Seq(Msg), NEW d, NEW o,
         NEW w \in 0 .. WakeBudget, Drive(q, s, d, o, w), IsInjective(q \o s),
         Metered(q \o s, d, agentRuns, w)
  PROVE  Metered(Entries', disk', agentRuns', wake')
<1> DEFINE all == q \o s
           m == Head(all)
           rest == Tail(all)
<1>1. all \in Seq(Msg) /\ Demoted(q, s) = all /\ w \in Nat /\ agentRuns \in Nat
  BY ConcatProperties DEF Demoted, TypeOK
<1>2. /\ steerBuf' = <<>>
      /\ \/ queue' = all /\ agentRuns' = agentRuns /\ wake' = w /\ disk' \in {d, all}
         \/ all # <<>> /\ Dequeue(all, Pending(o, Range(s)), w)
  BY <1>1 DEF Drive, DriverDies, PersistOk, PersistFails
<1> HIDE DEF all
<1>3. CASE queue' = all /\ agentRuns' = agentRuns /\ wake' = w /\ disk' \in {d, all}
  <2>1. Entries' = all
    BY <1>1, <1>2, <1>3, ConcatEmptySeq DEF Entries
  <2> QED BY <1>3, <2>1 DEF Metered, all
<1>4. CASE all # <<>> /\ Dequeue(all, Pending(o, Range(s)), w)
  <2>1. /\ m \in Msg /\ rest \in Seq(Msg) /\ Range(all) = {m} \cup Range(rest)
        /\ m \notin Range(rest) /\ IsInjective(rest) /\ Len(rest) = Len(all) - 1
    BY <1>1, <1>4, HeadTailFacts, HeadTailProperties DEF all
  <2>2. /\ queue' = rest /\ disk' = rest
        /\ wake' = IF ClearsWake(m) THEN 0 ELSE w
        /\ agentRuns' = IF ClearsWake(m) THEN 0
                        ELSE IF TriggerOf[m] = "agent" THEN agentRuns + 1 ELSE agentRuns
    BY <1>4 DEF Dequeue, PersistOk, LeavesOnDisk
  <2> HIDE DEF m, rest
  <2>3. Entries' = rest /\ disk' = rest
    BY <1>2, <2>1, <2>2, ConcatEmptySeq DEF Entries
  <2> DEFINE a == Cardinality(Agents(all))
             b == Cardinality(Agents(rest))
  <2>4. /\ a \in Nat /\ b \in Nat /\ b <= Len(rest) /\ Len(rest) \in Nat /\ Len(all) \in Nat
        /\ TriggerOf[m] = "agent" => a = b + 1
        /\ TriggerOf[m] # "agent" => a = b
    <3>1. TriggerOf[m] = "agent" => Agents(all) = Agents(rest) \cup {m} /\ m \notin Agents(rest)
      BY <2>1 DEF Agents
    <3>2. TriggerOf[m] # "agent" => Agents(all) = Agents(rest)
      BY <2>1 DEF Agents
    <3> QED BY <1>1, <2>1, <3>1, <3>2, FewAgents, FS_AddElement
  <2>5. /\ Len(all) <= QueueLimit
        /\ ~IsChild => agentRuns + a <= QueueLimit + w
    BY DEF Metered, all
  <2> HIDE DEF a, b
  <2>6. Len(rest) <= QueueLimit /\ b <= QueueLimit
    BY <2>1, <2>4, <2>5, RunQueueAssumption
  <2>7. ~IsChild => agentRuns' + b <= QueueLimit + wake'
    <3>1. CASE ClearsWake(m)
      BY <2>2, <2>4, <2>6, <3>1, RunQueueAssumption
    <3>2. CASE ~ClearsWake(m) /\ TriggerOf[m] = "agent"
      BY <1>1, <2>2, <2>4, <2>5, <3>2, RunQueueAssumption
    <3>3. CASE ~ClearsWake(m) /\ TriggerOf[m] # "agent"
      BY <1>1, <2>2, <2>4, <2>5, <3>3, RunQueueAssumption
    <3> QED BY <3>1, <3>2, <3>3
  <2> QED BY <2>3, <2>6, <2>7 DEF Metered, b
<1> QED BY <1>2, <1>3, <1>4

(* No handler lets more than the budget through.                           *)
LEMMA BudgetStep == TypeOK /\ Separated /\ Budgeted /\ [Next]_vars => Budgeted'
<1> SUFFICES ASSUME TypeOK, Separated, Budgeted, [Next]_vars  PROVE Budgeted'
  OBVIOUS
<1>0. /\ queue \in Seq(Msg) /\ steerBuf \in Seq(Msg) /\ disk \in Seq(Msg)
      /\ Entries \in Seq(Msg) /\ Len(Entries) = Len(queue) + Len(steerBuf)
      /\ Range(Entries) = Range(queue) \cup Range(steerBuf)
      /\ IsInjective(Entries) /\ IsInjective(disk) /\ IsInjective(queue)
      /\ wake \in Nat /\ wake \in 0 .. WakeBudget /\ agentRuns \in Nat
      /\ Metered(Entries, disk, agentRuns, wake)
  BY ConcatFacts, ConcatProperties, RunQueueAssumption
  DEF TypeOK, Entries, Separated, Clean, Budgeted
<1>1. TypeOK' /\ Separated'
  BY TypeStep, SeparatedStep
<1>2. /\ queue' \in Seq(Msg) /\ steerBuf' \in Seq(Msg) /\ Entries' \in Seq(Msg)
      /\ Len(Entries') = Len(queue') + Len(steerBuf')
      /\ IsInjective(Entries')
      /\ Range(Entries') = Range(queue') \cup Range(steerBuf')
  <2>1. queue' \in Seq(Msg) /\ steerBuf' \in Seq(Msg) /\ Entries' = queue' \o steerBuf'
    BY <1>1 DEF TypeOK, Entries
  <2>2. IsInjective(Entries')
    BY <1>1 DEF Separated, Clean
  <2> QED BY <2>1, <2>2, ConcatFacts, ConcatProperties
<1>3. Len(<<>>) = 0 /\ Len(disk) \in Nat /\ Len(Entries) \in Nat /\ Len(<<>>) <= Len(Entries)
  BY <1>0, LenProperties
<1>4. ASSUME NEW m \in Msg, Submit(m)  PROVE Budgeted'
  <2>1. Admits(m) /\ Up /\ Up' /\ m \notin Range(Entries)
    <3>1. Admits(m) /\ Up /\ Up' /\ m \notin submitted
      BY <1>4 DEF Submit, Up
    <3> QED BY <3>1 DEF Separated, Clean
  <2>2. CASE SubmitDirect(m)
    <3> DEFINE f == <<m>> \o steerBuf
    <3>1. /\ queue = <<>> /\ Drive(<<m>>, steerBuf, disk, Pending(outcome, {m}), WakeAfter(m))
          /\ <<m>> \in Seq(Msg)
      BY <2>2 DEF SubmitDirect, Idle
    <3>2. Entries = steerBuf
      BY <1>0, <3>1, ConcatEmptySeq DEF Entries
    <3>3. /\ f \in Seq(Msg) /\ Len(f) = Len(Entries) + 1 /\ IsInjective(f)
          /\ Range(f) = Range(Entries) \cup {m}
      BY <1>0, <2>1, <3>2, AddFacts
    <3>4. WakeAfter(m) \in 0 .. WakeBudget /\ Metered(f, disk, agentRuns, WakeAfter(m))
      BY <2>1, <3>3, Admitted
    <3> QED BY <1>0, <2>1, <3>1, <3>3, <3>4, DriveMetered DEF Budgeted
  <2>3. CASE SubmitSteer(m)
    <3>1. /\ queue' = queue /\ steerBuf' = Append(steerBuf, m) /\ agentRuns' = agentRuns
          /\ wake' = WakeAfter(m) /\ disk' \in {disk, Entries'}
      BY <2>3 DEF SubmitSteer, PersistOk, PersistFails, Entries
    <3>2. Len(Entries') = Len(Entries) + 1 /\ Range(Entries') = Range(Entries) \cup {m}
      <4>1. Len(steerBuf') = Len(steerBuf) + 1 /\ Range(steerBuf') = Range(steerBuf) \cup {m}
        <5>1. steerBuf \in Seq(Msg) /\ steerBuf' = Append(steerBuf, m)
          BY <1>0, <3>1
        <5>2. Len(steerBuf') = Len(steerBuf) + 1
          BY <5>1
        <5> QED BY <5>1, <5>2, AppendRange
      <4>2. Len(steerBuf) \in Nat /\ Len(queue) \in Nat
        BY <1>0, LenProperties
      <4>3. Len(Entries') = Len(Entries) + 1
        BY <1>0, <1>2, <3>1, <4>1, <4>2
      <4> QED BY <1>0, <1>2, <3>1, <4>1, <4>3
    <3> QED BY <1>2, <2>1, <3>1, <3>2, Admitted DEF Budgeted
  <2>4. ASSUME NEW disposition \in Dispositions(m), SubmitQueued(m, disposition)
        PROVE  Budgeted'
    <3> DEFINE q == AtHead(m, disposition)
               f == q \o steerBuf
    <3>1. q \in Seq(Msg) /\ Range(q) = Range(queue) \cup {m} /\ Len(q) = Len(queue) + 1
          /\ IsInjective(q)
      BY <1>0, <2>1, AddFacts DEF AtHead
    <3>2. /\ f \in Seq(Msg) /\ Len(f) = Len(Entries) + 1 /\ Range(f) = Range(Entries) \cup {m}
          /\ IsInjective(f)
      <4>1. IsInjective(steerBuf) /\ Range(queue) \cap Range(steerBuf) = {} /\ m \notin Range(steerBuf)
        BY <1>0, <2>1, ConcatFacts DEF Entries
      <4>2. Range(q) \cap Range(steerBuf) = {}
        BY <3>1, <4>1
      <4> HIDE DEF q
      <4>3. Len(q) \in Nat /\ Len(steerBuf) \in Nat /\ Len(queue) \in Nat /\ Len(f) = Len(q) + Len(steerBuf)
        BY <1>0, <3>1, ConcatProperties, LenProperties
      <4>4. Len(f) = Len(Entries) + 1
        BY <1>0, <3>1, <4>3
      <4> QED BY <1>0, <3>1, <4>1, <4>2, <4>4, ConcatFacts
    <3>3. /\ WakeAfter(m) \in 0 .. WakeBudget
          /\ Metered(f, disk, agentRuns, WakeAfter(m)) /\ Metered(f, f, agentRuns, WakeAfter(m))
      BY <2>1, <3>2, Admitted
    <3>4. \/ /\ queue' = q /\ steerBuf' = steerBuf /\ disk' \in {disk, f}
             /\ agentRuns' = agentRuns /\ wake' = WakeAfter(m)
          \/ Drive(q, steerBuf, f, Pending(outcome, {m}), WakeAfter(m))
      BY <2>4 DEF SubmitQueued, Enqueue, PersistOk, PersistFails
    <3>5. CASE /\ queue' = q /\ steerBuf' = steerBuf /\ disk' \in {disk, f}
               /\ agentRuns' = agentRuns /\ wake' = WakeAfter(m)
      <4>1. Entries' = f
        BY <3>5 DEF Entries
      <4> HIDE DEF f
      <4> QED BY <2>1, <3>3, <3>5, <4>1 DEF Budgeted
    <3>6. CASE Drive(q, steerBuf, f, Pending(outcome, {m}), WakeAfter(m))
      <4> HIDE DEF q
      <4> QED BY <1>0, <2>1, <3>1, <3>2, <3>3, <3>6, DriveMetered DEF Budgeted
    <3> QED BY <3>4, <3>5, <3>6
  <2> QED BY <1>4, <2>2, <2>3, <2>4 DEF Submit
<1>5. CASE Starting \/ Land \/ EndRun \/ Inject
  BY <1>5 DEF Starting, RunStarts, AssemblyFails, HookFails, Land, EndRun, Inject, StartUnchanged, RunUnchanged, Budgeted, Entries, Up
<1>6. CASE DrainSteer
  <2>1. /\ Up' = Up /\ queue' = queue
        /\ \/ /\ steerBuf' = <<>> /\ disk' = queue /\ wake' = 0 /\ agentRuns' = 0
           \/ /\ steerBuf' \in {steerBuf, <<>>} /\ disk' = disk
              /\ wake' = wake /\ agentRuns' = agentRuns
    BY <1>6 DEF DrainSteer, RunUnchanged, BufferAfterDrain, AfterDrain, PersistOk, PersistFails, Up
  <2>2. /\ Len(queue) \in Nat /\ Len(steerBuf) \in Nat /\ Len(<<>>) = 0
        /\ Range(queue) \subseteq Range(Entries) /\ Len(queue) <= Len(Entries)
        /\ queue \o <<>> = queue
    BY <1>0, ConcatEmptySeq, LenProperties
  <2>3. Metered(queue, disk, agentRuns, wake)
    BY <1>0, <2>2, StillMetered
  <2>4. Metered(queue, queue, 0, 0)
    BY <1>0, <2>2, <2>3, FewAgents, RunQueueAssumption DEF Metered
  <2>5. ~Up' => agentRuns' = 0
    BY <2>1 DEF Budgeted
  <2>6. CASE steerBuf' = <<>> /\ disk' = queue /\ wake' = 0 /\ agentRuns' = 0
    <3>1. Entries' = queue
      BY <2>1, <2>2, <2>6 DEF Entries
    <3> QED BY <2>4, <2>5, <2>6, <3>1 DEF Budgeted
  <2>7. CASE /\ steerBuf' \in {steerBuf, <<>>} /\ disk' = disk
             /\ wake' = wake /\ agentRuns' = agentRuns
    <3>1. Entries' \in {queue, Entries}
      BY <2>1, <2>2, <2>7 DEF Entries
    <3> QED BY <1>0, <2>3, <2>5, <2>7, <3>1 DEF Budgeted
  <2> QED BY <2>1, <2>6, <2>7
<1>7. CASE DriverResumes
  <2>1. Up
    BY <1>7 DEF DriverResumes, TypeOK
  <2>2. Up' /\ \E o : Drive(queue, steerBuf, disk, o, wake)
    BY <1>7, <2>1 DEF DriverResumes, Up
  <2>3. PICK o : Drive(queue, steerBuf, disk, o, wake)
    BY <2>2
  <2>4. IsInjective(queue \o steerBuf) /\ Metered(queue \o steerBuf, disk, agentRuns, wake)
    BY <1>0 DEF Entries
  <2> QED BY <1>0, <2>2, <2>3, <2>4, DriveMetered DEF Budgeted
<1>8. ASSUME NEW id \in Msg \cup {NoMsg}, Cancel(id)  PROVE Budgeted'
  BY <1>8 DEF Cancel, ghosts, Budgeted, Entries, Up
<1>9. ASSUME NEW m \in Msg, QueueCancelOne(m)  PROVE Budgeted'
  <2>1. /\ Up' = Up /\ wake' = wake /\ agentRuns' = agentRuns /\ disk' \in {disk, Entries'}
    BY <1>9 DEF QueueCancelOne, CancelUnchanged, Remaining, PersistOk, PersistFails, Entries, Up
  <2>2. IsInjective(steerBuf)
    BY <1>0, ConcatFacts DEF Entries
  <2>3. /\ Range(queue') \subseteq Range(queue) /\ Len(queue') <= Len(queue)
        /\ Range(steerBuf') \subseteq Range(steerBuf) /\ Len(steerBuf') <= Len(steerBuf)
    <3>1. /\ Len(queue) \in Nat /\ Len(steerBuf) \in Nat
      BY <1>0, LenProperties
    <3>2. CASE \E i \in DOMAIN queue : queue' = RemoveAt(queue, i) /\ steerBuf' = steerBuf
      <4> PICK i \in DOMAIN queue : queue' = RemoveAt(queue, i) /\ steerBuf' = steerBuf
        BY <3>2
      <4>1. Range(queue') = Range(queue) \ {queue[i]} /\ Len(queue') = Len(queue) - 1
        BY <1>0, RemoveAtFacts
      <4> QED BY <3>1, <4>1
    <3>3. CASE \E i \in DOMAIN steerBuf : steerBuf' = RemoveAt(steerBuf, i) /\ queue' = queue
      <4> PICK i \in DOMAIN steerBuf : steerBuf' = RemoveAt(steerBuf, i) /\ queue' = queue
        BY <3>3
      <4>1. Range(steerBuf') = Range(steerBuf) \ {steerBuf[i]} /\ Len(steerBuf') = Len(steerBuf) - 1
        BY <1>0, <2>2, RemoveAtFacts
      <4> QED BY <3>1, <4>1
    <3> QED BY <1>9, <3>2, <3>3 DEF QueueCancelOne
  <2>4. Len(queue') \in Nat /\ Len(steerBuf') \in Nat /\ Len(queue) \in Nat /\ Len(steerBuf) \in Nat
    BY <1>0, <1>2, LenProperties
  <2>5. Len(Entries') <= Len(Entries)
    BY <1>0, <1>2, <2>3, <2>4
  <2>6. Range(Entries') \subseteq Range(Entries)
    BY <1>0, <1>2, <2>3
  <2>7. Metered(Entries', disk, agentRuns, wake) /\ Metered(Entries', Entries', agentRuns, wake)
    BY <1>0, <1>2, <2>5, <2>6, StillMetered
  <2> QED BY <2>1, <2>7 DEF Budgeted
<1>10. ASSUME NEW stop \in BOOLEAN, QueueCancelAll(stop)  PROVE Budgeted'
  <2>1. /\ Up' = Up /\ wake' = wake /\ agentRuns' = agentRuns /\ disk' \in {disk, <<>>}
        /\ Entries' = <<>>
    BY <1>10 DEF QueueCancelAll, CancelUnchanged, PersistOk, PersistFails, Entries, Up
  <2>2. Metered(<<>>, disk, agentRuns, wake) /\ Metered(<<>>, <<>>, agentRuns, wake)
    <3>1. <<>> \in Seq(Msg) /\ Range(<<>>) \subseteq Range(Entries) /\ IsInjective(<<>>)
      BY EmptyFacts
    <3> QED BY <1>0, <1>3, <3>1, StillMetered
  <2> QED BY <2>1, <2>2 DEF Budgeted
<1>11. CASE Crash
  <2>1. /\ Entries' = <<>> /\ agentRuns' = 0 /\ wake' = 0 /\ disk' = disk
    BY <1>11 DEF Crash, Entries
  <2>2. Cardinality(Agents(<<>>)) = 0
    <3>1. Agents(<<>>) = {}
      BY EmptyFacts DEF Agents
    <3> QED BY <3>1, FS_EmptySet
  <2>3. Metered(<<>>, disk, 0, 0)
    BY <1>0, <1>3, <2>2, RunQueueAssumption DEF Metered
  <2> QED BY <2>1, <2>3 DEF Budgeted
<1>12. CASE RecoverQueues
  <2>1. /\ ~Up /\ agentRuns = 0
        /\ \/ Up' /\ \E o : Drive(disk, <<>>, disk, o, 0)
           \/ UNCHANGED <<daemon, queue, steerBuf, disk, wake, agentRuns>>
    BY <1>12 DEF RecoverQueues, Recovered, PersistFails, Up, Budgeted
  <2>3. disk \o <<>> = disk /\ <<>> \in Seq(Msg)
    BY <1>0, ConcatEmptySeq
  <2>4. Metered(disk, disk, 0, 0)
    BY <1>0, <1>3, FewAgents, RunQueueAssumption DEF Metered
  <2>5. 0 \in 0 .. WakeBudget
    BY RunQueueAssumption
  <2>6. IsInjective(disk \o <<>>) /\ Metered(disk \o <<>>, disk, agentRuns, 0)
    BY <1>0, <2>1, <2>3, <2>4
  <2>7. CASE UNCHANGED <<daemon, queue, steerBuf, disk, wake, agentRuns>>
    BY <2>7 DEF Budgeted, Entries, Up
  <2>8. CASE Up' /\ \E o : Drive(disk, <<>>, disk, o, 0)
    <3>1. PICK o : Drive(disk, <<>>, disk, o, 0)
      BY <2>8
    <3> QED BY <1>0, <2>3, <2>5, <2>6, <2>8, <3>1, DriveMetered DEF Budgeted
  <2> QED BY <2>1, <2>7, <2>8
<1>13. CASE UNCHANGED vars
  BY <1>13 DEF vars, memory, ghosts, Budgeted, Entries, Up
<1> QED BY <1>4, <1>5, <1>6, <1>7, <1>8, <1>9, <1>10, <1>11, <1>12, <1>13 DEF Next, Starting

(* An agent that wakes itself up stops after the backlog and the budget,   *)
(* until somebody speaks to the session, whatever fails on the way.        *)
THEOREM WakingIsBounded == Spec => []WakeIsBounded
<1>1. Init => Budgeted
  <2>1. Agents(<<>>) = {}
    BY EmptyFacts DEF Agents
  <2>2. Cardinality(Agents(<<>>)) = 0 /\ Len(<<>>) = 0 /\ <<>> \o <<>> = <<>>
    BY <2>1, FS_EmptySet
  <2>3. Metered(<<>>, <<>>, 0, 0)
    BY <2>2, RunQueueAssumption DEF Metered
  <2> QED BY <2>2, <2>3 DEF Init, Budgeted, Entries
<1>2. TypeOK /\ Budgeted => WakeIsBounded
  <2> SUFFICES ASSUME TypeOK, Budgeted, ~IsChild  PROVE agentRuns <= QueueLimit + WakeBudget
    BY DEF WakeIsBounded
  <2>1. queue \in Seq(Msg) /\ steerBuf \in Seq(Msg) /\ agentRuns \in Nat /\ wake \in 0 .. WakeBudget
    BY DEF TypeOK
  <2>2. Entries \in Seq(Msg)
    BY <2>1, ConcatProperties DEF Entries
  <2> DEFINE a == Cardinality(Agents(Entries))
  <2>3. a \in Nat /\ agentRuns + a <= QueueLimit + wake
    BY <2>2, FewAgents DEF Budgeted, Metered
  <2> HIDE DEF a
  <2> QED BY <2>1, <2>3, RunQueueAssumption
<1> QED BY <1>1, <1>2, BudgetStep, AlwaysSeparated, PTL DEF Spec
=============================================================================
