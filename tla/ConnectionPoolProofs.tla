------------------------- MODULE ConnectionPoolProofs -------------------------
(***************************************************************************)
(* Proofs about ConnectionPool, for every set of entries, records and      *)
(* attempts.  The inductive invariant Sound is a relation between records  *)
(* R, attempts T and the raced records X, so that an action which first    *)
(* retires a record, then makes another and then connects it is a chain of *)
(* three lemmas.                                                           *)
(***************************************************************************)
EXTENDS ConnectionPool, TLAPS

Flying == {"connecting", "listing", "closing", "dropping"}

(* An attempt that still does something, or whose transport is open. *)
Busy(T, a) == T[a].stage \in Flying \/ T[a].open

Typed(R, T, X) == R \in [Rec -> Record] /\ T \in [Att -> Attempt] /\ X \subseteq Rec

(* Attempts belong to records that were made, records that were not have   *)
(* done nothing.                                                           *)
Grown(R, T) ==
    /\ \A a \in Att : T[a].stage = "unborn" => T[a].rec = None /\ ~T[a].open
    /\ \A a \in Att : T[a].stage # "unborn" => T[a].rec \in Rec /\ R[T[a].rec].key # None
    /\ \A r \in Rec : R[r].key = None => R[r] = Unborn

(* A retired record holds nothing, and only such records drop a client.    *)
Quiet(R, T) ==
    /\ \A r \in Rec : R[r].stopped => R[r].client = None /\ ~R[r].timer
    /\ \A a \in Att : T[a].stage = "dropping" => R[T[a].rec].stopped

(* A client is the transport of an attempt of its record. *)
Owned(R, T) == \A r \in Rec : R[r].client # None => T[R[r].client].rec = r

(* Without a race a record has one attempt at a time. *)
Alone(T, X) ==
    \A a, b \in Att : /\ T[a].rec = T[b].rec /\ T[a].rec # None /\ T[a].rec \notin X
                      /\ Busy(T, a) /\ Busy(T, b)
                      => a = b

(* An open transport past its connect is the client of its record. *)
Held(R, T, X) ==
    \A a \in Att : /\ T[a].open /\ T[a].stage \in {"listing", "done"} /\ T[a].rec \notin X
                   => R[T[a].rec].client = a /\ ~R[T[a].rec].stopped

Serves(R, T, r) ==
    /\ R[r].had /\ R[r].client # None
    /\ T[R[r].client].open /\ T[R[r].client].stage = "done"

Serving(R, T, X) ==
    \A r \in Rec \ X : ~R[r].stopped /\ R[r].state = "connected" => Serves(R, T, r)

Pending(R, T, r) == R[r].timer \/ \E a \in Att : T[a].rec = r /\ T[a].stage \in Flying

Waiting(R, T, X) ==
    \A r \in Rec \ X : ~R[r].stopped /\ R[r].state = "connecting" => Pending(R, T, r)

Sound(R, T, X) ==
    /\ Typed(R, T, X) /\ Grown(R, T) /\ Quiet(R, T) /\ Owned(R, T)
    /\ Alone(T, X) /\ Held(R, T, X) /\ Serving(R, T, X) /\ Waiting(R, T, X)

(* The record of an entry is one that was made for it. *)
Pooled(P, R) ==
    /\ P \in [Key -> Rec \cup {None}]
    /\ \A k \in Key : P[k] # None => R[P[k]].key = k

IInv == enabled \subseteq Key /\ Pooled(pool, rec) /\ Sound(rec, att, raced)

-----------------------------------------------------------------------------
(* Making a record changes nothing for the others. *)
LEMMA FreshKeeps ==
  ASSUME NEW R, NEW T, NEW X, Sound(R, T, X), NEW r \in Rec, R[r].key = None, NEW k \in Key
  PROVE  Sound([R EXCEPT ![r] = Fresh(k)], T, X)
<1> DEFINE Q == [R EXCEPT ![r] = Fresh(k)]
<1>0. Typed(R, T, X) /\ Grown(R, T) /\ Quiet(R, T) /\ Owned(R, T)
      /\ Alone(T, X) /\ Held(R, T, X) /\ Serving(R, T, X) /\ Waiting(R, T, X)
  BY DEF Sound
<1>1. k # None /\ 0 \in 0 .. MaxReconnects  BY NoneAssumption, BoundAssumption
<1>2. /\ Fresh(k).key = k /\ Fresh(k).state = "disconnected" /\ Fresh(k).client = None
      /\ Fresh(k).timer = FALSE /\ Fresh(k).stopped = FALSE
  BY DEF Fresh, Unborn
<1>3. Fresh(k) \in Record
  <2>1. Unborn \in Record  BY <1>1 DEF Unborn, Record, Live
  <2> QED BY <2>1 DEF Fresh, Record
<1>4. Typed(Q, T, X)  BY <1>0, <1>3 DEF Typed
<1>5. Q[r] = Fresh(k) /\ \A s \in Rec : s # r => Q[s] = R[s]  BY <1>0 DEF Typed
<1>6. \A a \in Att : T[a].rec # r  BY <1>0, NoneAssumption DEF Grown
<1>7. Grown(Q, T)  BY <1>0, <1>1, <1>2, <1>5, <1>6 DEF Grown
<1>8. Quiet(Q, T)
  <2>1. \A a \in Att : T[a].stage = "dropping" => T[a].rec \in Rec  BY <1>0 DEF Grown
  <2> QED BY <1>0, <1>2, <1>5, <1>6, <2>1 DEF Quiet
<1>9. Owned(Q, T)  BY <1>0, <1>2, <1>5 DEF Owned
<1>10. Held(Q, T, X)
  <2>1. \A a \in Att : T[a].open => T[a].rec \in Rec  BY <1>0 DEF Grown
  <2> QED BY <1>0, <1>5, <1>6, <2>1 DEF Held
<1>11. Serving(Q, T, X)  BY <1>0, <1>2, <1>5 DEF Serving, Serves
<1>12. Waiting(Q, T, X)  BY <1>0, <1>2, <1>5 DEF Waiting, Pending
<1> QED BY <1>0, <1>4, <1>7, <1>8, <1>9, <1>10, <1>11, <1>12 DEF Sound

(* A record that is not live may fail, forget its timer or its attempts.   *)
LEMMA CalmKeeps ==
  ASSUME NEW R, NEW T, NEW X, Sound(R, T, X), NEW r \in Rec, R[r].key # None,
         NEW x \in Record, x.key = R[r].key, x.client = R[r].client, x.stopped = R[r].stopped,
         x.state \notin Live, x.timer => R[r].timer
  PROVE  Sound([R EXCEPT ![r] = x], T, X)
<1> DEFINE Q == [R EXCEPT ![r] = x]
<1>0. Typed(R, T, X) /\ Grown(R, T) /\ Quiet(R, T) /\ Owned(R, T)
      /\ Alone(T, X) /\ Held(R, T, X) /\ Serving(R, T, X) /\ Waiting(R, T, X)
  BY DEF Sound
<1>1. Typed(Q, T, X)  BY <1>0 DEF Typed
<1>2. Q[r] = x /\ \A s \in Rec : s # r => Q[s] = R[s]  BY <1>0 DEF Typed
<1>3. Grown(Q, T)  BY <1>0, <1>2 DEF Grown
<1>4. Quiet(Q, T)
  <2>1. \A a \in Att : T[a].stage = "dropping" => T[a].rec \in Rec  BY <1>0 DEF Grown
  <2> QED BY <1>0, <1>2, <2>1 DEF Quiet
<1>5. Owned(Q, T)  BY <1>0, <1>2 DEF Owned
<1>6. Held(Q, T, X)
  <2>1. \A a \in Att : T[a].open => T[a].rec \in Rec  BY <1>0 DEF Grown
  <2> QED BY <1>0, <1>2, <2>1 DEF Held
<1>7. Serving(Q, T, X)  BY <1>0, <1>2 DEF Serving, Serves, Live
<1>8. Waiting(Q, T, X)  BY <1>0, <1>2 DEF Waiting, Pending, Live
<1> QED BY <1>0, <1>1, <1>3, <1>4, <1>5, <1>6, <1>7, <1>8 DEF Sound

(* An attempt begins: a race is noted, otherwise it is alone. *)
LEMMA BeginKeeps ==
  ASSUME NEW R, NEW T, NEW X, Sound(R, T, X), NEW r \in Rec, R[r].key # None,
         NEW x \in Record, x.key = R[r].key, x.client = R[r].client, x.stopped = R[r].stopped,
         x.had = R[r].had, x.state = "connecting", x.timer => R[r].timer,
         NEW a \in Att, T[a].stage = "unborn", NEW retry \in BOOLEAN,
         NEW Y, Y = X \/ Y = X \cup {r},
         r \notin Y => \A b \in Att : T[b].rec = r => ~Busy(T, b)
  PROVE  Sound([R EXCEPT ![r] = x],
               [T EXCEPT ![a] = [stage |-> "connecting", rec |-> r, retry |-> retry, open |-> TRUE]], Y)
<1> DEFINE Q == [R EXCEPT ![r] = x]
           n == [stage |-> "connecting", rec |-> r, retry |-> retry, open |-> TRUE]
           U == [T EXCEPT ![a] = n]
<1>0. Typed(R, T, X) /\ Grown(R, T) /\ Quiet(R, T) /\ Owned(R, T)
      /\ Alone(T, X) /\ Held(R, T, X) /\ Serving(R, T, X) /\ Waiting(R, T, X)
  BY DEF Sound
<1>1. Y \subseteq Rec /\ X \subseteq Y  BY <1>0 DEF Typed
<1>4. n \in Attempt  BY DEF Attempt
<1>5. Typed(Q, U, Y)  BY <1>0, <1>1, <1>4 DEF Typed
<1>6. Q[r] = x /\ \A s \in Rec : s # r => Q[s] = R[s]  BY <1>0 DEF Typed
<1>7. U[a] = n /\ \A b \in Att : b # a => U[b] = T[b]  BY <1>0 DEF Typed
<1>8. n.stage = "connecting" /\ n.rec = r /\ n.open  OBVIOUS
<1>9. None \notin Rec  BY NoneAssumption
<1>10. \A s \in Rec : R[s].client # None => R[s].client \in Att /\ R[s].client # a
  <2>1. T[a].rec = None  BY <1>0 DEF Grown
  <2> QED BY <1>0, <1>9, <2>1 DEF Owned, Typed, Record
<1>11. Grown(Q, U)  BY <1>0, <1>6, <1>7, <1>8 DEF Grown
<1>12. Quiet(Q, U)
  <2>1. \A b \in Att : T[b].stage = "dropping" => T[b].rec \in Rec  BY <1>0 DEF Grown
  <2> QED BY <1>0, <1>6, <1>7, <1>8, <2>1 DEF Quiet
<1>13. Owned(Q, U)  BY <1>0, <1>6, <1>7, <1>10 DEF Owned
<1>14. Alone(U, Y)
  <2> SUFFICES ASSUME NEW b \in Att, NEW c \in Att, U[b].rec = U[c].rec, U[b].rec # None,
                      U[b].rec \notin Y, Busy(U, b), Busy(U, c)
               PROVE  b = c
    BY DEF Alone
  <2>1. CASE b # a /\ c # a  BY <1>0, <1>1, <1>7, <2>1 DEF Alone, Busy
  <2>2. CASE b = a  BY <1>7, <1>8, <2>2 DEF Busy
  <2>3. CASE c = a  BY <1>7, <1>8, <2>3 DEF Busy
  <2> QED BY <2>1, <2>2, <2>3
<1>15. Held(Q, U, Y)
  <2>1. \A b \in Att : T[b].open => T[b].rec \in Rec  BY <1>0 DEF Grown
  <2> QED BY <1>0, <1>1, <1>6, <1>7, <1>8, <2>1 DEF Held
<1>16. Serving(Q, U, Y)
  <2> SUFFICES ASSUME NEW s \in Rec \ Y, ~Q[s].stopped, Q[s].state = "connected"  PROVE Serves(Q, U, s)
    BY DEF Serving
  <2>1. s # r /\ Q[s] = R[s]  BY <1>6
  <2>2. Serves(R, T, s)  BY <1>0, <1>1, <2>1 DEF Serving
  <2> QED BY <1>7, <1>10, <2>1, <2>2 DEF Serves
<1>17. Waiting(Q, U, Y)
  <2> SUFFICES ASSUME NEW s \in Rec \ Y, ~Q[s].stopped, Q[s].state = "connecting"  PROVE Pending(Q, U, s)
    BY DEF Waiting
  <2>1. CASE s = r  BY <1>7, <1>8, <2>1 DEF Pending, Flying
  <2>2. CASE s # r
    <3>1. Q[s] = R[s]  BY <1>6, <2>2
    <3>2. Pending(R, T, s)  BY <1>0, <1>1, <3>1 DEF Waiting
    <3>3. \A b \in Att : T[b].stage \in Flying => b # a  BY DEF Flying
    <3> QED BY <1>7, <3>1, <3>2, <3>3 DEF Pending
  <2> QED BY <2>1, <2>2
<1> QED BY <1>5, <1>11, <1>12, <1>13, <1>14, <1>15, <1>16, <1>17 DEF Sound

(* A busy attempt goes on and takes its record with it. *)
LEMMA MoveKeeps ==
  ASSUME NEW R, NEW T, NEW X, Sound(R, T, X), NEW a \in Att, Busy(T, a), NEW r, r = T[a].rec,
         NEW n \in Attempt, n.rec = r, n.stage # "unborn",
         NEW x \in Record, x.key = R[r].key, x.stopped = R[r].stopped,
         x.client \in {None, a, R[r].client}, x.stopped => x.client = None /\ ~x.timer,
         n.stage = "dropping" => x.stopped,
         r \notin X /\ n.open /\ n.stage \in {"listing", "done"} => x.client = a /\ ~x.stopped,
         r \notin X /\ ~x.stopped /\ x.state = "connected" =>
           x.had /\ x.client = a /\ n.open /\ n.stage = "done",
         r \notin X /\ ~x.stopped /\ x.state = "connecting" => x.timer \/ n.stage \in Flying
  PROVE  Sound([R EXCEPT ![r] = x], [T EXCEPT ![a] = n], X)
<1> DEFINE Q == [R EXCEPT ![r] = x]
           U == [T EXCEPT ![a] = n]
<1>0. Typed(R, T, X) /\ Grown(R, T) /\ Quiet(R, T) /\ Owned(R, T)
      /\ Alone(T, X) /\ Held(R, T, X) /\ Serving(R, T, X) /\ Waiting(R, T, X)
  BY DEF Sound
<1>1. r \in Rec /\ R[r].key # None  BY <1>0 DEF Grown, Busy, Flying
<1>2. Q[r] = x /\ \A s \in Rec : s # r => Q[s] = R[s]  BY <1>0, <1>1 DEF Typed
<1>3. U[a] = n /\ \A b \in Att : b # a => U[b] = T[b]  BY <1>0 DEF Typed
<1>4. \A b \in Att : U[b].rec = T[b].rec  BY <1>3
<1>5. \A s \in Rec : R[s].client # None => R[s].client \in Att  BY <1>0 DEF Typed, Record
<1>6. None \notin Rec  BY NoneAssumption
<1>7. \A b \in Att : r \notin X /\ b # a /\ T[b].rec = r => ~Busy(T, b)  BY <1>0, <1>1, <1>6 DEF Alone
<1>8. \A b \in Att : T[b].open \/ T[b].stage # "unborn" => T[b].rec \in Rec  BY <1>0 DEF Grown
<1>9. Typed(Q, U, X)  BY <1>0, <1>1 DEF Typed
<1>10. Grown(Q, U)  BY <1>0, <1>1, <1>2, <1>3 DEF Grown
<1>11. Quiet(Q, U)  BY <1>0, <1>1, <1>2, <1>3, <1>8 DEF Quiet
<1>12. Owned(Q, U)  BY <1>0, <1>1, <1>2, <1>3, <1>5 DEF Owned
<1>13. Alone(U, X)
  <2>1. \A b \in Att : Busy(U, b) => Busy(T, b)  BY <1>3 DEF Busy
  <2> QED BY <1>0, <1>4, <2>1 DEF Alone
<1>14. Held(Q, U, X)
  <2> SUFFICES ASSUME NEW b \in Att, U[b].open, U[b].stage \in {"listing", "done"}, U[b].rec \notin X
               PROVE  Q[U[b].rec].client = b /\ ~Q[U[b].rec].stopped
    BY DEF Held
  <2>1. CASE b = a  BY <1>2, <1>3, <2>1
  <2>2. CASE b # a
    <3>1. T[b].rec # r  BY <1>3, <1>7, <2>2 DEF Busy
    <3> QED BY <1>0, <1>2, <1>3, <1>8, <2>2, <3>1 DEF Held
  <2> QED BY <2>1, <2>2
<1>15. Serving(Q, U, X)
  <2> SUFFICES ASSUME NEW s \in Rec \ X, ~Q[s].stopped, Q[s].state = "connected"  PROVE Serves(Q, U, s)
    BY DEF Serving
  <2>1. CASE s = r  BY <1>2, <1>3, <2>1, NoneAssumption DEF Serves
  <2>2. CASE s # r
    <3>1. Q[s] = R[s] /\ Serves(R, T, s)  BY <1>0, <1>2, <2>2 DEF Serving
    <3>2. R[s].client # a  BY <1>0, <2>2, <3>1 DEF Owned, Serves
    <3> QED BY <1>3, <1>5, <3>1, <3>2 DEF Serves
  <2> QED BY <2>1, <2>2
<1>16. Waiting(Q, U, X)
  <2> SUFFICES ASSUME NEW s \in Rec \ X, ~Q[s].stopped, Q[s].state = "connecting"  PROVE Pending(Q, U, s)
    BY DEF Waiting
  <2>1. CASE s = r  BY <1>2, <1>3, <2>1 DEF Pending
  <2>2. CASE s # r
    <3>1. Q[s] = R[s] /\ Pending(R, T, s)  BY <1>0, <1>2, <2>2 DEF Waiting
    <3>2. \A b \in Att : T[b].rec = s => b # a  BY <2>2
    <3> QED BY <1>3, <3>1, <3>2 DEF Pending
  <2> QED BY <2>1, <2>2
<1> QED BY <1>9, <1>10, <1>11, <1>12, <1>13, <1>14, <1>15, <1>16 DEF Sound

(* Retiring a set of records closes their clients and nothing else. *)
Retires(R, T, S, Q, U) ==
    /\ S \subseteq Rec /\ \A r \in S : R[r].key # None
    /\ Q \in [Rec -> Record] /\ U \in [Att -> Attempt]
    /\ \A r \in Rec \ S : Q[r] = R[r]
    /\ \A r \in S : Q[r].key = R[r].key /\ Q[r].stopped /\ Q[r].client = None /\ ~Q[r].timer
    /\ \A a \in Att : U[a].stage = T[a].stage /\ U[a].rec = T[a].rec
    /\ \A a \in Att : U[a].open = (T[a].open /\ ~\E r \in S : R[r].client = a)

LEMMA RetireKeeps ==
  ASSUME NEW R, NEW T, NEW X, Sound(R, T, X), NEW S, NEW Q, NEW U, Retires(R, T, S, Q, U)
  PROVE  Sound(Q, U, X)
<1> USE DEF Retires
<1>0. Typed(R, T, X) /\ Grown(R, T) /\ Quiet(R, T) /\ Owned(R, T)
      /\ Alone(T, X) /\ Held(R, T, X) /\ Serving(R, T, X) /\ Waiting(R, T, X)
  BY DEF Sound
<1>1. Typed(Q, U, X)  BY <1>0 DEF Typed
<1>2. \A a \in Att : U[a].open => T[a].open  OBVIOUS
<1>3. \A a \in Att : T[a].open \/ T[a].stage # "unborn" => T[a].rec \in Rec  BY <1>0 DEF Grown
<1>4. \A r \in Rec : R[r].client # None => R[r].client \in Att  BY <1>0 DEF Typed, Record
<1>5. Grown(Q, U)  BY <1>0, <1>2 DEF Grown
<1>6. Quiet(Q, U)
  <2>1. \A r \in Rec : R[r].stopped => Q[r].stopped  OBVIOUS
  <2> QED BY <1>0, <1>3, <2>1 DEF Quiet
<1>7. Owned(Q, U)  BY <1>0, <1>4 DEF Owned
<1>8. Alone(U, X)
  <2>1. \A b \in Att : Busy(U, b) => Busy(T, b)  BY <1>2 DEF Busy
  <2> QED BY <1>0, <2>1 DEF Alone
<1>9. Held(Q, U, X)
  <2> SUFFICES ASSUME NEW a \in Att, U[a].open, U[a].stage \in {"listing", "done"}, U[a].rec \notin X
               PROVE  Q[U[a].rec].client = a /\ ~Q[U[a].rec].stopped
    BY DEF Held
  <2>1. T[a].rec \in Rec /\ R[T[a].rec].client = a /\ ~R[T[a].rec].stopped  BY <1>0, <1>2, <1>3 DEF Held
  <2>2. T[a].rec \notin S  BY <2>1
  <2> QED BY <2>1, <2>2
<1>10. Serving(Q, U, X)
  <2> SUFFICES ASSUME NEW s \in Rec \ X, ~Q[s].stopped, Q[s].state = "connected"  PROVE Serves(Q, U, s)
    BY DEF Serving
  <2>1. s \notin S /\ Q[s] = R[s] /\ Serves(R, T, s)  BY <1>0 DEF Serving
  <2>2. R[s].client \in Att /\ T[R[s].client].rec = s  BY <1>0, <1>4, <2>1 DEF Owned, Serves
  <2>3. ~\E r \in S : R[r].client = R[s].client
    <3> SUFFICES ASSUME NEW r \in S, R[r].client = R[s].client  PROVE FALSE
      OBVIOUS
    <3>1. R[r].client # None  BY <2>1 DEF Serves
    <3>2. T[R[r].client].rec = r  BY <1>0, <3>1 DEF Owned
    <3> QED BY <2>1, <2>2, <3>2
  <2> QED BY <2>1, <2>2, <2>3 DEF Serves
<1>11. Waiting(Q, U, X)  BY <1>0 DEF Waiting, Pending
<1> QED BY <1>1, <1>5, <1>6, <1>7, <1>8, <1>9, <1>10, <1>11 DEF Sound

-----------------------------------------------------------------------------
(* The steps of one record and its attempts. *)
LEMMA ScheduledFacts ==
  ASSUME NEW x \in Record
  PROVE  /\ Scheduled(x) \in Record
         /\ Scheduled(x).key = x.key /\ Scheduled(x).client = x.client
         /\ Scheduled(x).stopped = x.stopped /\ Scheduled(x).had = x.had
         /\ Scheduled(x).state \in {x.state, "failed"}
         /\ x.stopped => Scheduled(x) = x
         /\ ~x.stopped => Scheduled(x).timer \/ Scheduled(x).state = "failed"
<1>1. CASE x.stopped \/ x.timer  BY <1>1 DEF Scheduled
<1>2. CASE ~(x.stopped \/ x.timer) /\ x.attempts >= MaxReconnects  BY <1>2 DEF Scheduled, Record
<1>3. CASE ~(x.stopped \/ x.timer) /\ ~(x.attempts >= MaxReconnects)
  <2>1. x.attempts + 1 \in 0 .. MaxReconnects  BY <1>3, BoundAssumption DEF Record
  <2> QED BY <1>3, <2>1 DEF Scheduled, Record
<1> QED BY <1>1, <1>2, <1>3

LEMMA BeginStep ==
  ASSUME NEW R, NEW T, Sound(R, T, raced), NEW r \in Rec, R[r].key # None,
         NEW y \in Record, y.key = R[r].key, y.client = R[r].client, y.stopped = R[r].stopped,
         y.had = R[r].had, y.timer => R[r].timer,
         \A b \in Att : T[b].rec = r /\ Busy(T, b) => att[b].rec = r /\ Busy(att, b),
         \A b \in Att : att[b].stage = "unborn" => T[b].stage = "unborn",
         NEW retry \in BOOLEAN, Begin([R EXCEPT ![r] = y], T, r, retry)
  PROVE  Sound(rec', att', raced') /\ \A s \in Rec : rec'[s].key = R[s].key
<1> DEFINE x == [y EXCEPT !.state = "connecting"]
<1>1. PICK a \in Att :
        /\ att[a].stage = "unborn"
        /\ att' = [T EXCEPT ![a] = [stage |-> "connecting", rec |-> r, retry |-> retry, open |-> TRUE]]
        /\ rec' = [[R EXCEPT ![r] = y] EXCEPT ![r] = [@ EXCEPT !.state = "connecting"]]
        /\ raced' = IF Beside(r) THEN raced \cup {r} ELSE raced
  BY DEF Begin
<1>2. R \in [Rec -> Record]  BY DEF Sound, Typed
<1>3. rec' = [R EXCEPT ![r] = x]  BY <1>1, <1>2
<1>4. /\ x \in Record /\ x.key = y.key /\ x.client = y.client /\ x.stopped = y.stopped
      /\ x.had = y.had /\ x.timer = y.timer /\ x.state = "connecting"
  BY DEF Record, Live
<1>5. r \notin raced' => \A b \in Att : T[b].rec = r => ~Busy(T, b)
  BY <1>1 DEF Beside, Busy, InFlight, Flying
<1>6. raced' = raced \/ raced' = raced \cup {r}  BY <1>1
<1>7. T[a].stage = "unborn"  BY <1>1
<1> HIDE DEF x
<1>8. Sound([R EXCEPT ![r] = x],
            [T EXCEPT ![a] = [stage |-> "connecting", rec |-> r, retry |-> retry, open |-> TRUE]], raced')
  BY <1>4, <1>5, <1>6, <1>7, BeginKeeps
<1> QED BY <1>1, <1>2, <1>3, <1>4, <1>8

LEMMA KickKeeps ==
  ASSUME NEW R, NEW T, Sound(R, T, raced), NEW r \in Rec, R[r].key # None,
         \A b \in Att : T[b].rec = r /\ Busy(T, b) => att[b].rec = r /\ Busy(att, b),
         \A b \in Att : att[b].stage = "unborn" => T[b].stage = "unborn",
         NEW retry \in BOOLEAN, Kick(R, T, r, retry)
  PROVE  Sound(rec', att', raced') /\ \A s \in Rec : rec'[s].key = R[s].key
<1>1. R \in [Rec -> Record] /\ R[r] \in Record  BY DEF Sound, Typed
<1>2. CASE /\ rec' = [R EXCEPT ![r] = [@ EXCEPT !.state = "failed"]]
           /\ att' = T /\ raced' = raced
  <2> DEFINE x == [R[r] EXCEPT !.state = "failed"]
  <2>1. /\ x \in Record /\ x.key = R[r].key /\ x.client = R[r].client /\ x.stopped = R[r].stopped
        /\ x.timer = R[r].timer /\ x.state \notin Live
    BY <1>1 DEF Record, Live
  <2>2. rec' = [R EXCEPT ![r] = x]  BY <1>2
  <2> HIDE DEF x
  <2>3. Sound([R EXCEPT ![r] = x], T, raced)  BY <2>1, CalmKeeps
  <2> QED BY <1>1, <1>2, <2>1, <2>2, <2>3
<1>3. CASE Begin([R EXCEPT ![r] = [@ EXCEPT !.attempts = 0]], T, r, retry)
  <2> DEFINE y == [R[r] EXCEPT !.attempts = 0]
  <2>1. /\ y \in Record /\ y.key = R[r].key /\ y.client = R[r].client /\ y.stopped = R[r].stopped
        /\ y.timer = R[r].timer /\ y.had = R[r].had
    <3>1. 0 \in 0 .. MaxReconnects  BY BoundAssumption
    <3> QED BY <1>1, <3>1 DEF Record
  <2>2. Begin([R EXCEPT ![r] = y], T, r, retry)  BY <1>3
  <2> HIDE DEF y
  <2> QED BY <2>1, <2>2, BeginStep
<1> QED BY <1>2, <1>3 DEF Kick

LEMMA MadeForItsEntry ==
  ASSUME IInv, NEW k \in Key, pool[k] # None
  PROVE  pool[k] \in Rec /\ rec[pool[k]].key = k /\ k # None
BY NoneAssumption DEF IInv, Pooled

(* record(): what the caller gets is the entry's own record. *)
LEMMA ObtainedFacts ==
  ASSUME IInv, NEW k \in Key, NEW r \in Rec, Obtained(k, r, Fresher(k, r))
  PROVE  /\ Sound(Fresher(k, r), att, raced)
         /\ Fresher(k, r)[r].key = k /\ ~Fresher(k, r)[r].stopped
         /\ Pooled(pool', Fresher(k, r))
<1> DEFINE Q == Fresher(k, r)
<1>0. Sound(rec, att, raced) /\ Pooled(pool, rec) /\ rec \in [Rec -> Record]  BY DEF IInv, Sound, Typed
<1>1. k # None  BY NoneAssumption
<1>2. CASE pool[k] # None /\ ~rec[pool[k]].stopped /\ r = pool[k] /\ Q = rec /\ UNCHANGED pool
  <2>1. Q = rec /\ pool' = pool /\ pool[k] = r /\ ~rec[r].stopped  BY <1>2
  <2>2. rec[r].key = k  BY <1>0, <1>2 DEF Pooled
  <2> HIDE DEF Q
  <2>3. Sound(Q, att, raced) /\ Q[r].key = k /\ ~Q[r].stopped /\ Pooled(pool', Q)  BY <1>0, <2>1, <2>2
  <2> QED BY <2>3 DEF Q
<1>3. CASE rec[r].key = None /\ Q = [rec EXCEPT ![r] = Fresh(k)] /\ pool' = [pool EXCEPT ![k] = r]
  <2>1. Sound(Q, att, raced)
    <3>1. Sound([rec EXCEPT ![r] = Fresh(k)], att, raced)  BY <1>0, <1>3, FreshKeeps
    <3> QED BY <1>3, <3>1
  <2>2. Q[r].key = k /\ ~Q[r].stopped  BY <1>0, <1>3 DEF Fresh, Unborn
  <2>3. \A s \in Rec : s # r => Q[s] = rec[s]  BY <1>0, <1>3
  <2>4. \A j \in Key : pool[j] # None => pool[j] \in Rec /\ pool[j] # r
    BY <1>0, <1>3, NoneAssumption DEF Pooled
  <2>5. Pooled(pool', Q)
    <3>1. pool' \in [Key -> Rec \cup {None}]  BY <1>0, <1>3 DEF Pooled
    <3>2. \A j \in Key : pool'[j] # None => Q[pool'[j]].key = j
      <4> SUFFICES ASSUME NEW j \in Key, pool'[j] # None  PROVE Q[pool'[j]].key = j
        OBVIOUS
      <4>1. CASE j = k  BY <1>0, <1>3, <2>2, <4>1 DEF Pooled
      <4>2. CASE j # k
        <5>1. pool'[j] = pool[j]  BY <1>0, <1>3, <4>2 DEF Pooled
        <5> QED BY <1>0, <2>3, <2>4, <5>1 DEF Pooled
      <4> QED BY <4>1, <4>2
    <3> QED BY <3>1, <3>2 DEF Pooled
  <2> QED BY <2>1, <2>2, <2>5
<1>5. (pool[k] # None /\ ~rec[pool[k]].stopped /\ r = pool[k] /\ Q = rec /\ UNCHANGED pool)
      \/ (rec[r].key = None /\ Q = [rec EXCEPT ![r] = Fresh(k)] /\ pool' = [pool EXCEPT ![k] = r])
  BY DEF Obtained
<1> QED BY <1>2, <1>3, <1>5

(* Retiring the record of an entry, as every change of it does. *)
LEMMA DroppedKeeps ==
  ASSUME IInv, NEW k \in Key
  PROVE  /\ Sound(Dropped(k), ClosedWith(k), raced)
         /\ \A r \in Rec : Dropped(k)[r].key = rec[r].key
         /\ \A a \in Att : ClosedWith(k)[a].stage = att[a].stage /\ ClosedWith(k)[a].rec = att[a].rec
         /\ \A a \in Att : ClosedWith(k)[a].open => att[a].open
<1>0. Sound(rec, att, raced) /\ rec \in [Rec -> Record] /\ att \in [Att -> Attempt]  BY DEF IInv, Sound, Typed
<1>1. CASE pool[k] = None \/ rec[pool[k]].stopped  BY <1>0, <1>1 DEF Dropped, ClosedWith
<1>2. CASE ~(pool[k] = None \/ rec[pool[k]].stopped)
  <2> DEFINE p == pool[k]
             Q == [rec EXCEPT ![p] = Retired(@, "disconnected")]
             U == ClosedBy(p)
  <2>1. p \in Rec /\ rec[p].key # None  BY <1>2, MadeForItsEntry
  <2>2. Dropped(k) = Q /\ ClosedWith(k) = U  BY <1>2 DEF Dropped, ClosedWith
  <2>3. /\ Retired(rec[p], "disconnected") \in Record
        /\ Retired(rec[p], "disconnected").key = rec[p].key /\ Retired(rec[p], "disconnected").stopped
        /\ Retired(rec[p], "disconnected").client = None /\ ~Retired(rec[p], "disconnected").timer
    <3>1. rec[p] \in Record  BY <1>0, <2>1
    <3> HIDE DEF p
    <3> QED BY <3>1 DEF Retired, Record, Live
  <2>4. Q \in [Rec -> Record] /\ Q[p] = Retired(rec[p], "disconnected") /\ \A r \in Rec \ {p} : Q[r] = rec[r]
    BY <1>0, <2>1, <2>3
  <2>5. U \in [Att -> Attempt]  BY <1>0 DEF ClosedBy, Attempt
  <2>6. \A a \in Att : /\ U[a].stage = att[a].stage /\ U[a].rec = att[a].rec
                       /\ U[a].open = (att[a].open /\ ~(rec[p].client = a))
    BY <1>0 DEF ClosedBy, Attempt
  <2> HIDE DEF Q, U, p
  <2>7. Sound(Q, U, raced)
    <3>1. \A a \in Att : U[a].open = (att[a].open /\ ~\E r \in {p} : rec[r].client = a)  BY <2>6
    <3>2. {p} \in SUBSET Rec /\ \A r \in {p} : rec[r].key # None  BY <2>1
    <3>3. \A r \in {p} : Q[r].key = rec[r].key /\ Q[r].stopped /\ Q[r].client = None /\ ~Q[r].timer  BY <2>3, <2>4
    <3>4. \A a \in Att : U[a].stage = att[a].stage /\ U[a].rec = att[a].rec  BY <2>6
    <3>5. Retires(rec, att, {p}, Q, U)  BY <2>4, <2>5, <3>1, <3>2, <3>3, <3>4 DEF Retires
    <3> QED BY <1>0, <3>5, RetireKeeps
  <2> QED BY <2>2, <2>3, <2>4, <2>6, <2>7
<1> QED BY <1>1, <1>2

LEMMA RetireStep ==
  ASSUME IInv, NEW r \in Rec, rec[r].key # None, NEW next \in {"disconnected", "failed"}, Retire(r, next)
  PROVE  IInv'
<1>0. Sound(rec, att, raced) /\ rec \in [Rec -> Record] /\ att \in [Att -> Attempt]  BY DEF IInv, Sound, Typed
<1>1. /\ Retired(rec[r], next) \in Record
      /\ Retired(rec[r], next).key = rec[r].key /\ Retired(rec[r], next).stopped
      /\ Retired(rec[r], next).client = None /\ ~Retired(rec[r], next).timer
  BY <1>0 DEF Retired, Record, Live
<1>2. rec' \in [Rec -> Record] /\ rec'[r] = Retired(rec[r], next) /\ \A s \in Rec \ {r} : rec'[s] = rec[s]
  BY <1>0, <1>1 DEF Retire
<1>3. att' \in [Att -> Attempt]  BY <1>0 DEF Retire, ClosedBy, Attempt
<1>4. \A a \in Att : att'[a].stage = att[a].stage /\ att'[a].rec = att[a].rec
  BY <1>0 DEF Retire, ClosedBy, Attempt
<1>5. \A a \in Att : att'[a].open = (att[a].open /\ ~\E s \in {r} : rec[s].client = a)
  BY <1>0 DEF Retire, ClosedBy, Attempt
<1>6. {r} \in SUBSET Rec /\ \A s \in {r} : rec[s].key # None  OBVIOUS
<1>7. \A s \in {r} : rec'[s].key = rec[s].key /\ rec'[s].stopped /\ rec'[s].client = None /\ ~rec'[s].timer
  BY <1>1, <1>2
<1>8. Sound(rec', att', raced)
  <2>1. Retires(rec, att, {r}, rec', att')  BY <1>2, <1>3, <1>4, <1>5, <1>6, <1>7 DEF Retires
  <2> QED BY <1>0, <2>1, RetireKeeps
<1>9. enabled' = enabled /\ pool' = pool /\ raced' = raced  BY DEF Retire
<1>10. Pooled(pool', rec')  BY <1>1, <1>2, <1>9 DEF IInv, Pooled
<1> QED BY <1>8, <1>9, <1>10 DEF IInv

-----------------------------------------------------------------------------
(* One lemma per action. *)
LEMMA InitSound == Init => IInv
<1> SUFFICES ASSUME Init  PROVE IInv
  OBVIOUS
<1>1. Unborn \in Record
  <2>1. 0 \in 0 .. MaxReconnects  BY BoundAssumption
  <2> QED BY <2>1 DEF Unborn, Record, Live
<1>2. [stage |-> "unborn", rec |-> None, retry |-> FALSE, open |-> FALSE] \in Attempt  BY DEF Attempt
<1>3. \A r \in Rec : rec[r] = Unborn  BY DEF Init
<1>4. \A a \in Att : att[a].stage = "unborn" /\ att[a].rec = None /\ ~att[a].open  BY DEF Init
<1>5. Unborn.state = "disconnected" /\ Unborn.client = None /\ ~Unborn.timer /\ ~Unborn.stopped  BY DEF Unborn
<1>6. Typed(rec, att, raced)  BY <1>1, <1>2 DEF Init, Typed
<1>7. Grown(rec, att) /\ Quiet(rec, att) /\ Owned(rec, att)  BY <1>3, <1>4, <1>5 DEF Grown, Quiet, Owned
<1>8. Alone(att, raced) /\ Held(rec, att, raced)  BY <1>4 DEF Alone, Held
<1>9. Serving(rec, att, raced) /\ Waiting(rec, att, raced)  BY <1>3, <1>5 DEF Serving, Waiting
<1>10. enabled \subseteq Key /\ Pooled(pool, rec)  BY DEF Init, Pooled
<1> QED BY <1>6, <1>7, <1>8, <1>9, <1>10 DEF IInv, Sound

LEMMA PooledByKeys ==
  ASSUME NEW P, NEW R, NEW Q, Pooled(P, R), \A r \in Rec : Q[r].key = R[r].key
  PROVE  Pooled(P, Q)
BY DEF Pooled

LEMMA UseStep == ASSUME IInv, NEW k \in Key, Use(k)  PROVE IInv'
<1>1. PICK r \in Rec : Obtained(k, r, Fresher(k, r)) /\ Kick(Fresher(k, r), att, r, TRUE)  BY DEF Use
<1> DEFINE Q == Fresher(k, r)
<1>2. Sound(Q, att, raced) /\ Q[r].key = k /\ ~Q[r].stopped /\ Pooled(pool', Q)  BY <1>1, ObtainedFacts
<1>3. k # None  BY NoneAssumption
<1>4. Kick(Q, att, r, TRUE)  BY <1>1
<1> HIDE DEF Q
<1>5. Sound(rec', att', raced') /\ \A s \in Rec : rec'[s].key = Q[s].key  BY <1>2, <1>3, <1>4, KickKeeps
<1>6. Pooled(pool', rec')  BY <1>2, <1>5, PooledByKeys
<1>7. enabled' \subseteq Key  BY DEF Use, IInv
<1> QED BY <1>5, <1>6, <1>7 DEF IInv

LEMMA ConnectStep == ASSUME IInv, NEW k \in Key, Connect(k)  PROVE IInv'
<1>1. PICK r \in Rec :
        LET recs == Fresher(k, r)
            calm == [recs EXCEPT ![r] = [@ EXCEPT !.timer = FALSE]]
        IN /\ Obtained(k, r, recs)
           /\ recs[r].state \notin Live
           /\ \/ /\ Active(recs, pool') >= MaxConnections
                 /\ rec' = calm /\ UNCHANGED <<att, raced>>
              \/ /\ Active(recs, pool') < MaxConnections
                 /\ Begin([calm EXCEPT ![r] = [@ EXCEPT !.attempts = 0]], att, r, FALSE)
  BY DEF Connect
<1> DEFINE Q == Fresher(k, r)
           x == [Q[r] EXCEPT !.timer = FALSE]
           y == [x EXCEPT !.attempts = 0]
<1>2. Sound(Q, att, raced) /\ Q[r].key = k /\ ~Q[r].stopped /\ Pooled(pool', Q)  BY <1>1, ObtainedFacts
<1>3. k # None /\ 0 \in 0 .. MaxReconnects  BY NoneAssumption, BoundAssumption
<1>4. /\ Q[r].state \notin Live
      /\ \/ rec' = [Q EXCEPT ![r] = [@ EXCEPT !.timer = FALSE]] /\ UNCHANGED <<att, raced>>
         \/ Begin([[Q EXCEPT ![r] = [@ EXCEPT !.timer = FALSE]] EXCEPT ![r] = [@ EXCEPT !.attempts = 0]], att, r, FALSE)
  BY <1>1
<1> HIDE DEF Q
<1>5. Q \in [Rec -> Record] /\ Q[r] \in Record  BY <1>2 DEF Sound, Typed
<1>6. /\ x \in Record /\ x.key = k /\ x.client = Q[r].client /\ x.stopped = Q[r].stopped
      /\ x.had = Q[r].had /\ x.timer = FALSE /\ x.state = Q[r].state
  BY <1>2, <1>5 DEF Record
<1>7. [Q EXCEPT ![r] = [@ EXCEPT !.timer = FALSE]] = [Q EXCEPT ![r] = x]  BY <1>5
<1> HIDE DEF x
<1>8. /\ y \in Record /\ y.key = k /\ y.client = Q[r].client /\ y.stopped = Q[r].stopped
      /\ y.had = Q[r].had /\ y.timer = FALSE
  BY <1>3, <1>6 DEF Record
<1>9. [[Q EXCEPT ![r] = x] EXCEPT ![r] = [@ EXCEPT !.attempts = 0]] = [Q EXCEPT ![r] = y]  BY <1>5
<1> HIDE DEF y
<1>10. Sound(rec', att', raced') /\ \A s \in Rec : rec'[s].key = Q[s].key
  <2>1. CASE rec' = [Q EXCEPT ![r] = [@ EXCEPT !.timer = FALSE]] /\ UNCHANGED <<att, raced>>
    <3>1. rec' = [Q EXCEPT ![r] = x] /\ att' = att /\ raced' = raced  BY <1>7, <2>1
    <3>2. Sound([Q EXCEPT ![r] = x], att, raced)  BY <1>2, <1>3, <1>4, <1>6, CalmKeeps
    <3> QED BY <1>2, <1>5, <1>6, <3>1, <3>2
  <2>2. CASE Begin([[Q EXCEPT ![r] = [@ EXCEPT !.timer = FALSE]] EXCEPT ![r] = [@ EXCEPT !.attempts = 0]], att, r, FALSE)
    <3>1. Begin([Q EXCEPT ![r] = y], att, r, FALSE)  BY <1>7, <1>9, <2>2
    <3> QED BY <1>2, <1>3, <1>8, <3>1, BeginStep
  <2> QED BY <1>4, <2>1, <2>2
<1>11. Pooled(pool', rec')  BY <1>2, <1>10, PooledByKeys
<1>12. enabled' \subseteq Key  BY DEF Connect, IInv
<1> QED BY <1>10, <1>11, <1>12 DEF IInv

LEMMA FiresStep == ASSUME IInv, NEW r \in Rec, Fires(r)  PROVE IInv'
<1> DEFINE y == [rec[r] EXCEPT !.timer = FALSE]
<1>1. Sound(rec, att, raced) /\ rec \in [Rec -> Record] /\ rec[r] \in Record  BY DEF IInv, Sound, Typed
<1>2. rec[r].timer /\ Begin([rec EXCEPT ![r] = y], att, r, TRUE) /\ UNCHANGED <<enabled, pool>>  BY DEF Fires
<1>3. rec[r].key # None
  <2>1. rec[r] # Unborn  BY <1>2 DEF Unborn
  <2> QED BY <1>1, <2>1 DEF Sound, Grown
<1>4. /\ y \in Record /\ y.key = rec[r].key /\ y.client = rec[r].client /\ y.stopped = rec[r].stopped
      /\ y.had = rec[r].had /\ y.timer = FALSE
  BY <1>1 DEF Record
<1> HIDE DEF y
<1>5. Sound(rec', att', raced') /\ \A s \in Rec : rec'[s].key = rec[s].key
  BY <1>1, <1>2, <1>3, <1>4, BeginStep
<1>6. Pooled(pool', rec')  BY <1>2, <1>5, PooledByKeys DEF IInv
<1> QED BY <1>2, <1>5, <1>6 DEF IInv

(* What the attempts of a record in use say about it. *)
LEMMA AttemptFacts ==
  ASSUME IInv, NEW a \in Att, Busy(att, a), NEW r, r = att[a].rec
  PROVE  /\ r \in Rec /\ rec[r] \in Record /\ att[a] \in Attempt
         /\ rec[r].key # None
         /\ rec[r].stopped => rec[r].client = None /\ ~rec[r].timer
         /\ r \notin raced => \A b \in Att : att[b].rec = r /\ Busy(att, b) => b = a
         /\ r \notin raced /\ ~rec[r].stopped /\ rec[r].state = "connected" =>
              rec[r].had /\ rec[r].client = a /\ att[a].open /\ att[a].stage = "done"
         /\ r \notin raced /\ ~rec[r].stopped /\ rec[r].state = "connecting" =>
              rec[r].timer \/ att[a].stage \in Flying
<1>0. Typed(rec, att, raced) /\ Grown(rec, att) /\ Quiet(rec, att) /\ Owned(rec, att)
      /\ Alone(att, raced) /\ Held(rec, att, raced) /\ Serving(rec, att, raced) /\ Waiting(rec, att, raced)
  BY DEF IInv, Sound
<1>1. r \in Rec /\ rec[r] \in Record /\ att[a] \in Attempt /\ rec[r].key # None
  BY <1>0 DEF Grown, Typed, Busy, Flying
<1>2. rec[r].stopped => rec[r].client = None /\ ~rec[r].timer  BY <1>0, <1>1 DEF Quiet
<1>3. r \notin raced => \A b \in Att : att[b].rec = r /\ Busy(att, b) => b = a
  BY <1>0, <1>1, NoneAssumption DEF Alone
<1>4. ASSUME r \notin raced, ~rec[r].stopped, rec[r].state = "connected"
      PROVE  rec[r].had /\ rec[r].client = a /\ att[a].open /\ att[a].stage = "done"
  <2>1. Serves(rec, att, r)  BY <1>0, <1>1, <1>4 DEF Serving
  <2>2. rec[r].client \in Att /\ att[rec[r].client].rec = r /\ Busy(att, rec[r].client)
    BY <1>0, <1>1, <2>1 DEF Serves, Record, Owned, Busy
  <2>3. rec[r].client = a  BY <1>3, <1>4, <2>2
  <2> QED BY <2>1, <2>3 DEF Serves
<1>5. ASSUME r \notin raced, ~rec[r].stopped, rec[r].state = "connecting"
      PROVE  rec[r].timer \/ att[a].stage \in Flying
  <2>1. Pending(rec, att, r)  BY <1>0, <1>1, <1>5 DEF Waiting
  <2> QED BY <1>3, <1>5, <2>1 DEF Pending, Busy
<1> QED BY <1>1, <1>2, <1>3, <1>4, <1>5

(* The invariant after a step of an attempt and its record. *)
LEMMA MoveStep ==
  ASSUME IInv, NEW a \in Att, NEW r, r = att[a].rec, r \in Rec,
         NEW n, NEW x \in Record, x.key = rec[r].key,
         Sound([rec EXCEPT ![r] = x], [att EXCEPT ![a] = n], raced),
         rec' = [rec EXCEPT ![r] = x], att' = [att EXCEPT ![a] = n], UNCHANGED <<enabled, pool, raced>>
  PROVE  IInv'
<1>1. rec \in [Rec -> Record]  BY DEF IInv, Sound, Typed
<1>2. \A s \in Rec : rec'[s].key = rec[s].key  BY <1>1
<1>3. Pooled(pool, rec) /\ pool' = pool  BY DEF IInv
<1>4. Pooled(pool, rec')  BY <1>2, <1>3 DEF Pooled
<1> QED BY <1>3, <1>4 DEF IInv

LEMMA ConnectsStep == ASSUME IInv, NEW a \in Att, Connects(a)  PROVE IInv'
<1> DEFINE r == att[a].rec
<1>1. Busy(att, a) /\ att[a].stage = "connecting" /\ att[a].open  BY DEF Connects, Busy, Flying
<1>2. /\ r \in Rec /\ rec[r] \in Record /\ att[a] \in Attempt
      /\ rec[r].stopped => rec[r].client = None /\ ~rec[r].timer
      /\ r \notin raced /\ ~rec[r].stopped => rec[r].state # "connected"
  BY <1>1, AttemptFacts
<1>3. Sound(rec, att, raced) /\ rec \in [Rec -> Record] /\ UNCHANGED <<enabled, pool, raced>>
  BY DEF IInv, Sound, Typed, Connects
<1>4. CASE rec[r].stopped /\ att' = [att EXCEPT ![a] = [@ EXCEPT !.stage = "dropping"]] /\ rec' = rec
  <2> DEFINE n == [att[a] EXCEPT !.stage = "dropping"]
  <2>1. n \in Attempt /\ n.rec = r /\ n.stage = "dropping" /\ n.open  BY <1>1, <1>2 DEF Attempt
  <2>2. att' = [att EXCEPT ![a] = n] /\ rec' = [rec EXCEPT ![r] = rec[r]]  BY <1>3, <1>4
  <2> HIDE DEF n, r
  <2>3. Sound([rec EXCEPT ![r] = rec[r]], [att EXCEPT ![a] = n], raced)
    BY <1>1, <1>2, <1>3, <1>4, <2>1, MoveKeeps DEF r
  <2> QED BY <1>2, <1>3, <2>2, <2>3, MoveStep DEF r
<1>5. CASE /\ ~rec[r].stopped /\ att' = [att EXCEPT ![a] = [@ EXCEPT !.stage = "listing"]]
           /\ rec' = [rec EXCEPT ![r] = [@ EXCEPT !.client = a]]
  <2> DEFINE n == [att[a] EXCEPT !.stage = "listing"]
             x == [rec[r] EXCEPT !.client = a]
  <2>1. n \in Attempt /\ n.rec = r /\ n.stage = "listing" /\ n.open  BY <1>1, <1>2 DEF Attempt
  <2>2. /\ x \in Record /\ x.key = rec[r].key /\ x.stopped = rec[r].stopped /\ x.client = a
        /\ x.state = rec[r].state
    BY <1>2 DEF Record
  <2>3. att' = [att EXCEPT ![a] = n] /\ rec' = [rec EXCEPT ![r] = x]  BY <1>5
  <2>4. n.stage \in Flying  BY <2>1 DEF Flying
  <2> HIDE DEF n, x, r
  <2>5. Sound([rec EXCEPT ![r] = x], [att EXCEPT ![a] = n], raced)
    BY <1>1, <1>2, <1>3, <1>5, <2>1, <2>2, <2>4, MoveKeeps DEF r
  <2> QED BY <1>2, <1>3, <2>2, <2>3, <2>5, MoveStep DEF r
<1> QED BY <1>4, <1>5 DEF Connects

LEMMA ListsStep == ASSUME IInv, NEW a \in Att, Lists(a)  PROVE IInv'
<1> DEFINE r == att[a].rec
           n == [att[a] EXCEPT !.stage = "done"]
           x == Listed(rec[r])
<1>1. Busy(att, a) /\ att[a].stage = "listing" /\ att[a].open  BY DEF Lists, Busy, Flying
<1>2. /\ r \in Rec /\ rec[r] \in Record /\ att[a] \in Attempt
      /\ rec[r].stopped => rec[r].client = None /\ ~rec[r].timer
  BY <1>1, AttemptFacts
<1>3. Sound(rec, att, raced) /\ UNCHANGED <<enabled, pool, raced>>  BY DEF IInv, Lists
<1>4. r \notin raced => rec[r].client = a /\ ~rec[r].stopped  BY <1>1, <1>3 DEF Sound, Held
<1>5. n \in Attempt /\ n.rec = r /\ n.stage = "done" /\ n.open  BY <1>1, <1>2 DEF Attempt
<1>6. /\ x \in Record /\ x.key = rec[r].key /\ x.stopped = rec[r].stopped /\ x.client = rec[r].client
      /\ x.state = "connected" /\ x.had /\ x.timer = rec[r].timer
  <2>1. 0 \in 0 .. MaxReconnects  BY BoundAssumption
  <2> HIDE DEF r
  <2> QED BY <1>2, <2>1 DEF Listed, Record, Live
<1>7. att' = [att EXCEPT ![a] = n] /\ rec' = [rec EXCEPT ![r] = x]  BY DEF Lists
<1> HIDE DEF n, x, r
<1>8. Sound([rec EXCEPT ![r] = x], [att EXCEPT ![a] = n], raced)
  BY <1>1, <1>2, <1>3, <1>4, <1>5, <1>6, MoveKeeps DEF r
<1> QED BY <1>2, <1>3, <1>6, <1>7, <1>8, MoveStep DEF r

(* The catch of #connectServer, whoever stopped the record meanwhile. *)
LEMMA FailedFacts ==
  ASSUME NEW x \in Record, NEW retry \in BOOLEAN, x.stopped => ~x.timer
  PROVE  /\ Failed(x, retry) \in Record /\ Failed(x, retry).key = x.key
         /\ Failed(x, retry).stopped = x.stopped /\ Failed(x, retry).client = None
         /\ Failed(x, retry).state = "failed"
         /\ x.stopped => ~Failed(x, retry).timer
<1> DEFINE y == [x EXCEPT !.state = "failed", !.client = None]
<1>1. /\ y \in Record /\ y.key = x.key /\ y.stopped = x.stopped /\ y.client = None
      /\ y.state = "failed" /\ y.timer = x.timer
  BY DEF Record, Live
<1>2. Failed(x, retry) = IF retry THEN Scheduled(y) ELSE y  BY DEF Failed
<1> HIDE DEF y
<1> QED BY <1>1, <1>2, ScheduledFacts

LEMMA FailsStep == ASSUME IInv, NEW a \in Att, Fails(a)  PROVE IInv'
<1> DEFINE r == att[a].rec
<1>1. Busy(att, a) /\ att[a].stage \in {"connecting", "listing"}  BY DEF Fails, Busy, Flying
<1>2. /\ r \in Rec /\ rec[r] \in Record /\ att[a] \in Attempt
      /\ rec[r].stopped => rec[r].client = None /\ ~rec[r].timer
      /\ r \notin raced /\ ~rec[r].stopped => rec[r].state # "connected"
  BY <1>1, AttemptFacts
<1>3. Sound(rec, att, raced) /\ rec \in [Rec -> Record] /\ UNCHANGED <<enabled, pool, raced>>
  BY DEF IInv, Sound, Typed, Fails
<1>4. CASE att[a].open /\ att' = [att EXCEPT ![a] = [@ EXCEPT !.stage = "closing"]] /\ rec' = rec
  <2> DEFINE n == [att[a] EXCEPT !.stage = "closing"]
  <2>1. n \in Attempt /\ n.rec = r /\ n.stage = "closing"  BY <1>2 DEF Attempt
  <2>2. att' = [att EXCEPT ![a] = n] /\ rec' = [rec EXCEPT ![r] = rec[r]]  BY <1>3, <1>4
  <2>3. n.stage \in Flying  BY <2>1 DEF Flying
  <2> HIDE DEF n, r
  <2>4. Sound([rec EXCEPT ![r] = rec[r]], [att EXCEPT ![a] = n], raced)
    BY <1>1, <1>2, <1>3, <2>1, <2>3, MoveKeeps DEF r
  <2> QED BY <1>2, <1>3, <2>2, <2>4, MoveStep DEF r
<1>5. CASE /\ ~att[a].open /\ att' = [att EXCEPT ![a] = [@ EXCEPT !.stage = "done"]]
           /\ rec' = [rec EXCEPT ![r] = Failed(@, att[a].retry)]
  <2> DEFINE n == [att[a] EXCEPT !.stage = "done"]
             x == Failed(rec[r], att[a].retry)
  <2>1. n \in Attempt /\ n.rec = r /\ n.stage = "done" /\ ~n.open  BY <1>2, <1>5 DEF Attempt
  <2>2. att[a].retry \in BOOLEAN  BY <1>2 DEF Attempt
  <2>3. /\ x \in Record /\ x.key = rec[r].key /\ x.stopped = rec[r].stopped /\ x.client = None
        /\ x.state = "failed" /\ (x.stopped => ~x.timer)
    BY <1>2, <2>2, FailedFacts
  <2>4. att' = [att EXCEPT ![a] = n] /\ rec' = [rec EXCEPT ![r] = x]  BY <1>5
  <2> HIDE DEF n, x, r
  <2>5. Sound([rec EXCEPT ![r] = x], [att EXCEPT ![a] = n], raced)
    BY <1>1, <1>2, <1>3, <2>1, <2>3, MoveKeeps DEF r
  <2> QED BY <1>2, <1>3, <2>3, <2>4, <2>5, MoveStep DEF r
<1> QED BY <1>4, <1>5 DEF Fails

LEMMA ClosesStep == ASSUME IInv, NEW a \in Att, Closes(a)  PROVE IInv'
<1> DEFINE r == att[a].rec
           n == [att[a] EXCEPT !.stage = "done", !.open = FALSE]
           x == IF att[a].stage = "dropping" THEN rec[r] ELSE Failed(rec[r], att[a].retry)
<1>1. Busy(att, a) /\ att[a].stage \in {"closing", "dropping"}  BY DEF Closes, Busy, Flying
<1>2. /\ r \in Rec /\ rec[r] \in Record /\ att[a] \in Attempt
      /\ rec[r].stopped => rec[r].client = None /\ ~rec[r].timer
  BY <1>1, AttemptFacts
<1>3. Sound(rec, att, raced) /\ rec \in [Rec -> Record] /\ UNCHANGED <<enabled, pool, raced>>
  BY DEF IInv, Sound, Typed, Closes
<1>4. att[a].stage = "dropping" => rec[r].stopped  BY <1>3 DEF Sound, Quiet
<1>5. n \in Attempt /\ n.rec = r /\ n.stage = "done" /\ ~n.open  BY <1>2 DEF Attempt
<1>6. att[a].retry \in BOOLEAN  BY <1>2 DEF Attempt
<1>7. /\ x \in Record /\ x.key = rec[r].key /\ x.stopped = rec[r].stopped
      /\ x.client = None /\ (x.stopped => ~x.timer) /\ (~x.stopped => x.state = "failed")
  <2>1. CASE att[a].stage = "dropping"  BY <1>2, <1>4, <2>1
  <2>2. CASE att[a].stage # "dropping"  BY <1>2, <1>6, <2>2, FailedFacts
  <2> QED BY <2>1, <2>2
<1>8. att' = [att EXCEPT ![a] = n]  BY DEF Closes
<1>9. rec' = [rec EXCEPT ![r] = x]  BY <1>3 DEF Closes
<1> HIDE DEF n, x, r
<1>10. Sound([rec EXCEPT ![r] = x], [att EXCEPT ![a] = n], raced)
  BY <1>1, <1>2, <1>3, <1>5, <1>7, MoveKeeps DEF r
<1> QED BY <1>2, <1>3, <1>7, <1>8, <1>9, <1>10, MoveStep DEF r

LEMMA TransportClosesStep == ASSUME IInv, NEW a \in Att, TransportCloses(a)  PROVE IInv'
<1> DEFINE r == att[a].rec
           n == [att[a] EXCEPT !.open = FALSE]
           x == Lost(rec[r])
<1>1. Busy(att, a) /\ att[a].stage \in {"connecting", "listing", "done"}  BY DEF TransportCloses, Busy
<1>2. /\ r \in Rec /\ rec[r] \in Record /\ att[a] \in Attempt
      /\ rec[r].stopped => rec[r].client = None /\ ~rec[r].timer
      /\ r \notin raced /\ ~rec[r].stopped /\ rec[r].state = "connected" => rec[r].had
      /\ r \notin raced /\ ~rec[r].stopped /\ rec[r].state = "connecting" =>
           rec[r].timer \/ att[a].stage \in Flying
  BY <1>1, AttemptFacts
<1>3. Sound(rec, att, raced) /\ UNCHANGED <<enabled, pool, raced>>  BY DEF IInv, TransportCloses
<1>4. n \in Attempt /\ n.rec = r /\ n.stage = att[a].stage /\ ~n.open  BY <1>2 DEF Attempt
<1>5. /\ x \in Record /\ x.key = rec[r].key /\ x.stopped = rec[r].stopped
      /\ x.client \in {None, rec[r].client} /\ (x.stopped => x.client = None /\ ~x.timer)
      /\ ~x.stopped => (x = rec[r] /\ ~rec[r].had) \/ x.timer \/ x.state = "failed"
      /\ ~x.stopped => (x = rec[r] /\ ~rec[r].had) \/ x.state # "connected"
  <2>1. CASE rec[r].stopped \/ ~rec[r].had
    <3>1. x = rec[r]  BY <2>1 DEF Lost
    <3> HIDE DEF x, r
    <3> QED BY <1>2, <2>1, <3>1
  <2>2. CASE ~(rec[r].stopped \/ ~rec[r].had)
    <3> DEFINE z == [rec[r] EXCEPT !.state = "connecting", !.client = None]
    <3>1. x = Scheduled(z)  BY <2>2 DEF Lost
    <3> HIDE DEF x, r
    <3>2. /\ z \in Record /\ z.key = rec[r].key /\ z.stopped = rec[r].stopped /\ z.client = None
          /\ z.state = "connecting"
      BY <1>2 DEF Record, Live
    <3> HIDE DEF z
    <3> QED BY <2>2, <3>1, <3>2, ScheduledFacts
  <2> QED BY <2>1, <2>2
<1>6. att' = [att EXCEPT ![a] = n] /\ rec' = [rec EXCEPT ![r] = x]  BY DEF TransportCloses
<1> HIDE DEF n, x, r
<1>7. r \notin raced /\ ~x.stopped /\ x.state = "connecting" => x.timer \/ n.stage \in Flying
  BY <1>2, <1>4, <1>5
<1>8. r \notin raced /\ ~x.stopped => x.state # "connected"  BY <1>2, <1>5
<1>9. n.stage # "dropping" /\ n.stage # "unborn"  BY <1>1, <1>4
<1>10. Sound([rec EXCEPT ![r] = x], [att EXCEPT ![a] = n], raced)
  BY <1>1, <1>2, <1>3, <1>4, <1>5, <1>7, <1>8, <1>9, MoveKeeps DEF r
<1> QED BY <1>2, <1>3, <1>5, <1>6, <1>10, MoveStep DEF r

LEMMA SweepStep == ASSUME IInv, NEW k \in Key, Sweep(k)  PROVE IInv'
BY MadeForItsEntry, RetireStep DEF Sweep

LEMMA ToolTimeoutStep == ASSUME IInv, NEW k \in Key, ToolTimeout(k)  PROVE IInv'
BY MadeForItsEntry, RetireStep DEF ToolTimeout

LEMMA ForgetStep == ASSUME IInv, NEW k \in Key, NEW on \in BOOLEAN, Forget(k, on)  PROVE IInv'
<1>1. Sound(rec', att', raced') /\ \A r \in Rec : rec'[r].key = rec[r].key  BY DroppedKeeps DEF Forget
<1>2. Pooled(pool', rec)  BY DEF IInv, Pooled, Forget
<1>3. Pooled(pool', rec')  BY <1>1, <1>2, PooledByKeys
<1>4. enabled' \subseteq Key  BY DEF IInv, Forget
<1> QED BY <1>1, <1>3, <1>4 DEF IInv

LEMMA RenewStep == ASSUME IInv, NEW k \in Key, Renew(k)  PROVE IInv'
<1>1. PICK r \in Rec : /\ rec[r].key = None
                       /\ pool' = [pool EXCEPT ![k] = r]
                       /\ Kick([Dropped(k) EXCEPT ![r] = Fresh(k)], ClosedWith(k), r, FALSE)
  BY DEF Renew
<1> DEFINE D == Dropped(k)
           U == ClosedWith(k)
           Q == [D EXCEPT ![r] = Fresh(k)]
<1>2. /\ Sound(D, U, raced) /\ \A s \in Rec : D[s].key = rec[s].key
      /\ \A a \in Att : U[a].stage = att[a].stage /\ U[a].rec = att[a].rec
      /\ \A a \in Att : U[a].open => att[a].open
  BY DroppedKeeps
<1>3. Kick(Q, U, r, FALSE)  BY <1>1
<1> HIDE DEF D, U
<1>4. D \in [Rec -> Record]  BY <1>2 DEF Sound, Typed
<1>5. Sound(Q, U, raced)  BY <1>1, <1>2, FreshKeeps
<1>6. Q[r].key = k /\ \A s \in Rec : s # r => Q[s].key = rec[s].key  BY <1>2, <1>4 DEF Fresh, Unborn
<1>7. k # None  BY NoneAssumption
<1> HIDE DEF Q
<1>8. \A b \in Att : U[b].rec = r /\ Busy(U, b) => att[b].rec = r /\ Busy(att, b)  BY <1>2 DEF Busy
<1>9. \A b \in Att : att[b].stage = "unborn" => U[b].stage = "unborn"  BY <1>2
<1>10. Sound(rec', att', raced') /\ \A s \in Rec : rec'[s].key = Q[s].key
  BY <1>3, <1>5, <1>6, <1>7, <1>8, <1>9, KickKeeps
<1>11. Pooled(pool', Q)
  <2>1. pool \in [Key -> Rec \cup {None}] /\ \A j \in Key : pool[j] # None => rec[pool[j]].key = j
    BY DEF IInv, Pooled
  <2>2. pool' \in [Key -> Rec \cup {None}]  BY <1>1, <2>1
  <2>3. \A j \in Key : pool'[j] # None => Q[pool'[j]].key = j
    <3> SUFFICES ASSUME NEW j \in Key, pool'[j] # None  PROVE Q[pool'[j]].key = j
      OBVIOUS
    <3>1. CASE j = k  BY <1>1, <1>6, <2>1, <3>1
    <3>2. CASE j # k
      <4>1. pool'[j] = pool[j]  BY <1>1, <2>1, <3>2
      <4>2. pool[j] \in Rec /\ rec[pool[j]].key = j /\ j # None  BY <2>1, <4>1, NoneAssumption
      <4> QED BY <1>1, <1>6, <4>1, <4>2
    <3> QED BY <3>1, <3>2
  <2> QED BY <2>2, <2>3 DEF Pooled
<1>12. Pooled(pool', rec')  BY <1>10, <1>11, PooledByKeys
<1>13. enabled' \subseteq Key  BY DEF IInv, Renew
<1> QED BY <1>10, <1>12, <1>13 DEF IInv

LEMMA StopAllStep == ASSUME IInv, StopAll  PROVE IInv'
<1> DEFINE S == {r \in Rec : \E k \in Key : pool[k] = r}
<1>0. Sound(rec, att, raced) /\ rec \in [Rec -> Record] /\ att \in [Att -> Attempt]  BY DEF IInv, Sound, Typed
<1>1. \A r \in S : rec[r].key # None  BY MadeForItsEntry, NoneAssumption
<1>2. \A r \in Rec : rec'[r] = IF r \in S THEN Retired(rec[r], "disconnected") ELSE rec[r]  BY DEF StopAll
<1>3. \A r \in Rec : /\ Retired(rec[r], "disconnected") \in Record
                     /\ Retired(rec[r], "disconnected").key = rec[r].key
                     /\ Retired(rec[r], "disconnected").stopped
                     /\ Retired(rec[r], "disconnected").client = None
                     /\ ~Retired(rec[r], "disconnected").timer
  <2> TAKE r \in Rec
  <2>1. rec[r] \in Record  BY <1>0
  <2> QED BY <2>1 DEF Retired, Record, Live
<1>4. rec' \in [Rec -> Record]
  <2>1. \A r \in Rec : (IF r \in S THEN Retired(rec[r], "disconnected") ELSE rec[r]) \in Record  BY <1>0, <1>3
  <2>2. rec' = [r \in Rec |-> IF r \in S THEN Retired(rec[r], "disconnected") ELSE rec[r]]  BY DEF StopAll
  <2> QED BY <2>1, <2>2
<1>5. \A a \in Att : (\E k \in Key : pool[k] # None /\ rec[pool[k]].client = a) <=> \E r \in S : rec[r].client = a
  BY MadeForItsEntry, NoneAssumption
<1>6. \A a \in Att : att'[a] = IF \E r \in S : rec[r].client = a THEN [att[a] EXCEPT !.open = FALSE] ELSE att[a]
  BY <1>5 DEF StopAll
<1>7. \A a \in Att : /\ att'[a].stage = att[a].stage /\ att'[a].rec = att[a].rec
                     /\ att'[a].open = (att[a].open /\ ~\E r \in S : rec[r].client = a)
  <2> HIDE DEF S
  <2> TAKE a \in Att
  <2>1. att[a] \in Attempt  BY <1>0
  <2>2. CASE \E r \in S : rec[r].client = a
    <3>1. att'[a] = [att[a] EXCEPT !.open = FALSE]  BY <1>6, <2>2
    <3> QED BY <2>1, <2>2, <3>1 DEF Attempt
  <2>3. CASE ~\E r \in S : rec[r].client = a
    <3>1. att'[a] = att[a]  BY <1>6, <2>3
    <3> QED BY <2>1, <2>3, <3>1 DEF Attempt
  <2> QED BY <2>2, <2>3
<1>8. att' \in [Att -> Attempt]
  <2>1. \A a \in Att : att[a] \in Attempt /\ [att[a] EXCEPT !.open = FALSE] \in Attempt  BY <1>0 DEF Attempt
  <2>2. att' = [a \in Att |-> IF \E k \in Key : pool[k] # None /\ rec[pool[k]].client = a
                             THEN [att[a] EXCEPT !.open = FALSE] ELSE att[a]]
    BY DEF StopAll
  <2> QED BY <2>1, <2>2
<1>9. S \subseteq Rec  OBVIOUS
<1> HIDE DEF S
<1>10. Retires(rec, att, S, rec', att')  BY <1>1, <1>2, <1>3, <1>4, <1>7, <1>8, <1>9 DEF Retires
<1>11. Sound(rec', att', raced)  BY <1>0, <1>10, RetireKeeps
<1>12. pool' = pool /\ enabled' = enabled /\ raced' = raced  BY DEF StopAll
<1>13. \A r \in Rec : rec'[r].key = rec[r].key  BY <1>2, <1>3
<1>14. Pooled(pool', rec')  BY <1>12, <1>13 DEF IInv, Pooled
<1> QED BY <1>11, <1>12, <1>14 DEF IInv

LEMMA Unmoved == ASSUME IInv, UNCHANGED vars  PROVE IInv'
BY DEF IInv, vars

LEMMA Stays == IInv /\ [Next]_vars => IInv'
<1> SUFFICES ASSUME IInv, [Next]_vars  PROVE IInv'
  OBVIOUS
<1>1. ASSUME NEW k \in Key, Use(k) \/ Connect(k) \/ Sweep(k) \/ ToolTimeout(k) \/ Renew(k)  PROVE IInv'
  BY <1>1, UseStep, ConnectStep, SweepStep, ToolTimeoutStep, RenewStep
<1>2. ASSUME NEW k \in Key, NEW on \in BOOLEAN, Forget(k, on)  PROVE IInv'
  BY <1>2, ForgetStep
<1>3. ASSUME NEW r \in Rec, Fires(r)  PROVE IInv'
  BY <1>3, FiresStep
<1>4. ASSUME NEW a \in Att, Connects(a) \/ Lists(a) \/ Fails(a) \/ Closes(a) \/ TransportCloses(a)  PROVE IInv'
  BY <1>4, ConnectsStep, ListsStep, FailsStep, ClosesStep, TransportClosesStep
<1>5. CASE StopAll  BY <1>5, StopAllStep
<1>6. CASE UNCHANGED vars  BY <1>6, Unmoved
<1> QED BY <1>1, <1>2, <1>3, <1>4, <1>5, <1>6 DEF Next

-----------------------------------------------------------------------------
LEMMA AlwaysSound == Spec => []IInv
BY InitSound, Stays, PTL DEF Spec

(* The pool, its records and its attempts are well typed, whatever is      *)
(* configured and however many connections, attempts and retries there are.*)
THEOREM PoolIsTyped == Spec => []TypeOK
<1>1. IInv => TypeOK  BY DEF IInv, Sound, Typed, Pooled, TypeOK
<1> QED BY <1>1, AlwaysSound, PTL

(* No transport is left open behind the back of its record, whenever it is *)
(* retired: a connect still under way will close what it opened, any other *)
(* open transport is the client of a record in use.                        *)
THEOREM TransportsAreOwned == Spec => []NothingLeaks
<1>1. IInv => NothingLeaks
  <2> SUFFICES ASSUME IInv, NEW a \in Att, att[a].open, att[a].rec \notin raced, ~InFlight(a)
               PROVE  rec[att[a].rec].client = a /\ ~rec[att[a].rec].stopped
    BY DEF NothingLeaks
  <2>1. att[a] \in Attempt /\ Grown(rec, att) /\ Held(rec, att, raced)  BY DEF IInv, Sound, Typed
  <2>2. att[a].stage = "done"  BY <2>1 DEF Attempt, InFlight, Grown
  <2> QED BY <2>1, <2>2 DEF Held
<1> QED BY <1>1, AlwaysSound, PTL

(* No record in use gets stuck: connected means an open client, connecting *)
(* means an attempt or a timer that will decide.                           *)
THEOREM RecordsMove == Spec => []NeverStuck
<1>1. IInv => NeverStuck
  <2> SUFFICES ASSUME IInv, NEW r \in Rec \ raced, ~rec[r].stopped
               PROVE  /\ rec[r].state = "connected" => \E a \in Att : rec[r].client = a /\ att[a].open
                      /\ rec[r].state = "connecting" => rec[r].timer \/ \E a \in Att : att[a].rec = r /\ InFlight(a)
    BY DEF NeverStuck
  <2>1. /\ rec[r].client \in Att \cup {None}
        /\ Serving(rec, att, raced) /\ Waiting(rec, att, raced)
    BY DEF IInv, Sound, Typed, Record
  <2>2. rec[r].state = "connected" => rec[r].client \in Att /\ att[rec[r].client].open
    BY <2>1 DEF Serving, Serves
  <2>3. rec[r].state = "connecting" => rec[r].timer \/ \E a \in Att : att[a].rec = r /\ InFlight(a)
    BY <2>1 DEF Waiting, Pending, Flying, InFlight
  <2> QED BY <2>2, <2>3
<1> QED BY <1>1, AlwaysSound, PTL
=============================================================================
