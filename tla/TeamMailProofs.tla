--------------------------- MODULE TeamMailProofs ---------------------------
(* Proofs about TeamMail, for every number of members, every cap, and any  *)
(* number of messages, inputs, tasks and failures.                         *)
EXTENDS TeamMail, SequenceTheorems, FiniteSetTheorems, WellFoundedInduction, TLAPS

Hosts == [ run : [Target -> Runs \cup {None}], running : SUBSET Target,
           inFlight : SUBSET Nat, offered : SUBSET Member ]

Mail == [to : Target, status : {"pending", "delivered"}]

(* A live run of t that shows and keeps its input in this order, and       *)
(* carries only mail to t.                                                 *)
RunOK(h, box, t) ==
  LET r == h.run[t] IN
  r # None =>
    /\ r.kept => r.shown
    /\ r.kind = "user" => r.ids = {}
    /\ r.ids \subseteq {k \in DOMAIN box : box[k].to = t}

Carries(h, box, k) == h.run[box[k].to] # None /\ k \in h.run[box[k].to].ids

(* Where a message can be: what its status, the flight ledger, the flip    *)
(* under way and its receiver's run say of it at the same time, and how    *)
(* often it can have been kept by then.  loose: what the dispatch whose    *)
(* run has just ended is about to release.                                 *)
Placed(h, box, kp, fl, fa, ex, loose, k) ==
  LET r  == h.run[box[k].to]
      in == Carries(h, box, k)
  IN
  /\ kp[k] \in Nat /\ kp[k] <= 1 + fa
  /\ box[k].status = "delivered" \/ k \in fl => kp[k] > 0 \/ k \in ex \/ (in /\ r.shown)
  /\ in /\ r.kept => kp[k] > 0
  /\ in /\ ~r.kept => kp[k] <= fa
  /\ in /\ r.shown /\ k \in h.inFlight => k \in fl
  /\ in /\ ~r.shown => k \in h.inFlight /\ k \notin fl
  /\ in => k \notin loose
  /\ k \in fl => k \in h.inFlight /\ k \notin loose
  /\ k \in h.inFlight => in \/ k \in fl \/ k \in loose
  /\ k \in loose => k \in h.inFlight /\ kp[k] <= fa
  /\ box[k].status = "pending" /\ k \notin h.inFlight =>
       kp[k] <= fa /\ (in /\ ~r.kept => kp[k] + 1 <= fa)

Sound(h, box, kp, fl, fa, ex, loose) ==
  /\ box \in Seq(Mail) /\ kp \in Seq(Nat) /\ Len(kp) = Len(box) /\ fa \in Nat
  /\ h \in Hosts /\ h.inFlight \subseteq DOMAIN box /\ fl \subseteq DOMAIN box
  /\ \A t \in Target : RunOK(h, box, t)
  /\ \A k \in DOMAIN box : Placed(h, box, kp, fl, fa, ex, loose, k)

(* Who is on the ledger of running sessions runs for the host; but for     *)
(* leaving, whose run has just ended.                                      *)
Ledger(h, leaving) ==
  \A t \in h.running \ leaving : h.run[t] # None /\ h.run[t].kind # "user"

(* The runs of h go on in s. *)
GoOn(h, s) == \A t \in Target : h.run[t] # None => s.run[t] # None
-----------------------------------------------------------------------------
(* startRun, by what it makes of each ledger. *)
Started(h, s, t, kind, ids) ==
  /\ s \in Hosts
  /\ s.offered = h.offered
  /\ t \in gone => s.run = h.run /\ s.running = h.running \ {t} /\ s.inFlight = h.inFlight \ ids
  /\ t \notin gone => /\ s.run = [h.run EXCEPT ![t] = Run(kind, ids)]
                      /\ s.running = h.running \cup {t}
                      /\ s.inFlight = h.inFlight \cup ids

LEMMA StartRun ==
  ASSUME NEW h \in Hosts, NEW t \in Target, NEW kind \in {"mail", "offer"}, NEW ids \in SUBSET Nat
  PROVE  Started(h, startRun(h, t, kind, ids), t, kind, ids)
<1> DEFINE s == startRun(h, t, kind, ids)
<1>1. Run(kind, ids) \in Runs
  BY DEF Run, Runs
<1>2. CASE t \in gone
  <2>1. s = [h EXCEPT !.running = @ \ {t}, !.inFlight = @ \ ids]
    BY <1>2 DEF startRun
  <2> HIDE DEF s
  <2>2. s \in Hosts
    BY <2>1 DEF Hosts
  <2>3. s.run = h.run /\ s.running = h.running \ {t} /\ s.inFlight = h.inFlight \ ids /\ s.offered = h.offered
    BY <2>1 DEF Hosts
  <2> QED BY <1>2, <2>2, <2>3 DEF Started, s
<1>3. CASE t \notin gone
  <2> DEFINE run == Run(kind, ids)
  <2>1. s = [h EXCEPT !.running = @ \cup {t}, !.inFlight = @ \cup ids, !.run[t] = run]
    BY <1>3 DEF startRun
  <2> HIDE DEF s, run
  <2>2. run \in Runs
    BY <1>1 DEF run
  <2>3. /\ s.run = [h.run EXCEPT ![t] = run] /\ s.running = h.running \cup {t}
        /\ s.inFlight = h.inFlight \cup ids /\ s.offered = h.offered
    BY <2>1 DEF Hosts
  <2>4. s \in Hosts
    BY <2>1, <2>2 DEF Hosts
  <2> QED BY <1>3, <2>3, <2>4 DEF Started, s, run
<1> QED BY <1>2, <1>3

LEMMA MailFacts ==
  ASSUME NEW box \in Seq(Mail)
  PROVE  /\ DOMAIN box = 1 .. Len(box) /\ Len(box) \in Nat /\ DOMAIN box \subseteq Nat
         /\ \A k \in DOMAIN box : /\ box[k].to \in Target
                                  /\ box[k].status \in {"pending", "delivered"}
<1>1. \A k \in DOMAIN box : box[k] \in Mail
  OBVIOUS
<1>2. DOMAIN box = 1 .. Len(box) /\ Len(box) \in Nat
  OBVIOUS
<1> QED BY <1>1, <1>2 DEF Mail

(* A run of an idle session with fresh mail, or none, disturbs no message. *)
LEMMA StartKeeps ==
  ASSUME NEW h, NEW box, NEW kp, NEW fl, NEW fa, NEW ex, NEW loose, NEW leaving,
         Sound(h, box, kp, fl, fa, ex, loose), Ledger(h, leaving),
         NEW t \in Target, h.run[t] = None, NEW kind \in {"mail", "offer"},
         NEW ids \in SUBSET Fresh(h, box, t)
  PROVE  LET s == startRun(h, t, kind, ids)
         IN  /\ Sound(s, box, kp, fl, fa, ex, loose) /\ Ledger(s, leaving)
             /\ GoOn(h, s) /\ (t \notin gone => s.run[t] # None)
             /\ s.offered = h.offered
<1> DEFINE s == startRun(h, t, kind, ids)
           run == Run(kind, ids)
<1>1. ids \subseteq {k \in DOMAIN box : box[k].to = t /\ box[k].status = "pending"}
      /\ ids \cap h.inFlight = {}
  BY DEF Fresh, Pending
<1>2. /\ box \in Seq(Mail) /\ DOMAIN box \subseteq Nat
      /\ h \in Hosts /\ h.inFlight \subseteq DOMAIN box
      /\ \A u \in Target : RunOK(h, box, u)
      /\ \A k \in DOMAIN box : Placed(h, box, kp, fl, fa, ex, loose, k) /\ box[k].to \in Target
  BY MailFacts DEF Sound
<1>3. Started(h, s, t, kind, ids)
  BY <1>1, <1>2, StartRun
<1>4. run # None /\ run.kind = kind /\ run.ids = ids /\ run.shown = FALSE /\ run.kept = FALSE
  <2>1. run \in Runs
    BY <1>1, <1>2 DEF Run, Runs
  <2> QED BY <2>1, NoneAssumption DEF Run
<1>5. /\ h.run \in [Target -> Runs \cup {None}]
      /\ \A u \in Target \ {t} : s.run[u] = h.run[u]
      /\ t \in gone => s.run[t] = None
      /\ t \notin gone => s.run[t] = run
  BY <1>2, <1>3 DEF Started, Hosts
<1>6. /\ t \in gone => s.inFlight = h.inFlight
      /\ t \notin gone => s.inFlight = h.inFlight \cup ids
  BY <1>1, <1>3 DEF Started
<1> HIDE DEF s, run
<1>7. \A u \in Target : RunOK(s, box, u)
  <2> TAKE u \in Target
  <2>1. CASE s.run[u] = h.run[u]
    BY <1>2, <2>1 DEF RunOK
  <2>2. CASE s.run[u] = run /\ u = t
    BY <1>1, <1>4, <2>2 DEF RunOK
  <2>3. CASE s.run[u] = None
    BY <2>3 DEF RunOK
  <2> QED BY <1>5, <2>1, <2>2, <2>3
<1>8. ASSUME NEW k \in DOMAIN box  PROVE Placed(s, box, kp, fl, fa, ex, loose, k)
  <2>1. Placed(h, box, kp, fl, fa, ex, loose, k) /\ box[k].to \in Target
    BY <1>2
  <2>2. CASE s.run[box[k].to] = h.run[box[k].to] /\ k \notin ids
    <3>1. k \in s.inFlight <=> k \in h.inFlight
      BY <1>6, <2>2
    <3> QED BY <2>1, <2>2, <3>1 DEF Placed, Carries
  <2>3. CASE s.run[box[k].to] = None /\ t \in gone
    <3>1. h.run[box[k].to] = None /\ s.inFlight = h.inFlight
      BY <1>5, <1>6, <2>1, <2>3
    <3> QED BY <2>1, <2>3, <3>1 DEF Placed, Carries
  <2>4. CASE t \notin gone /\ box[k].to = t
    <3>1. h.run[box[k].to] = None /\ s.run[box[k].to] = run
      BY <1>5, <2>4
    <3>2. CASE k \in ids
      <4>1. k \in s.inFlight /\ k \notin h.inFlight /\ box[k].status = "pending"
        BY <1>1, <1>6, <2>4, <3>2
      <4> QED BY <1>4, <2>1, <3>1, <3>2, <4>1 DEF Placed, Carries
    <3>3. CASE k \notin ids
      <4>1. k \in s.inFlight <=> k \in h.inFlight
        BY <1>6, <3>3
      <4> QED BY <1>4, <2>1, <3>1, <3>3, <4>1 DEF Placed, Carries
    <3> QED BY <3>2, <3>3
  <2>5. CASE box[k].to # t
    <3>1. k \notin ids /\ s.run[box[k].to] = h.run[box[k].to]
      BY <1>1, <1>5, <2>1, <2>5
    <3> QED BY <2>2, <3>1
  <2> QED BY <1>5, <2>3, <2>4, <2>5
<1>9. Ledger(s, leaving)
  <2> SUFFICES ASSUME NEW u \in s.running \ leaving
               PROVE  s.run[u] # None /\ s.run[u].kind # "user"
    BY DEF Ledger
  <2>1. u \in Target /\ (u \in h.running \/ (u = t /\ t \notin gone))
    <3>1. s \in Hosts /\ s.running \in {h.running \ {t}, h.running \cup {t}}
          /\ (t \in gone => s.running = h.running \ {t})
      BY <1>3 DEF Started
    <3>2. s.running \subseteq Target
      BY <3>1 DEF Hosts
    <3> QED BY <3>1, <3>2
  <2>2. u \in h.running => h.run[u] # None /\ h.run[u].kind # "user"
    BY <2>1 DEF Ledger
  <2> QED BY <1>4, <1>5, <2>1, <2>2
<1>10. s.inFlight \subseteq DOMAIN box /\ s \in Hosts /\ s.offered = h.offered
  BY <1>1, <1>2, <1>3, <1>6 DEF Started
<1>11. GoOn(h, s) /\ (t \notin gone => s.run[t] # None)
  BY <1>4, <1>5 DEF GoOn
<1>12. Sound(s, box, kp, fl, fa, ex, loose)
  BY <1>2, <1>7, <1>8, <1>10 DEF Sound
<1> QED BY <1>9, <1>10, <1>11, <1>12 DEF s
-----------------------------------------------------------------------------
(* A non-empty set of numbers has a least one. *)
LEMMA LeastNumber ==
  ASSUME NEW S \in SUBSET Nat, S # {}
  PROVE  \E i \in S : \A j \in S : i <= j
<1> DEFINE R == {ss \in Nat \X Nat : ss[1] < ss[2]}
<1>1. IsWellFoundedOn(R, Nat)
  BY NatLessThanWellFounded DEF OpToRel
<1>2. \E i \in S : \A j \in S : <<j, i>> \notin R
  <2> HIDE DEF R
  <2> QED BY <1>1, WFMin
<1>3. ASSUME NEW i \in S, NEW j \in S, <<j, i>> \notin R
      PROVE  i <= j
  BY <1>3
<1> QED BY <1>2, <1>3

(* pumpIdle's loop, as the sequence of what each turn leaves. *)
Turns(f, h, box, board, n) ==
  /\ f[0] = [h |-> flushLeadInbox(h, box), over |-> FALSE]
  /\ \A m \in 1 .. n : f[m] = Visit(box, board, m, f[m - 1])

LEMMA TurnsExist ==
  ASSUME NEW h, NEW box, NEW board, NEW n \in Nat
  PROVE  \E f : Turns(f, h, box, board, n)
<1> DEFINE S == {i \in Nat : ~ \E f : Turns(f, h, box, board, i)}
<1> SUFFICES ASSUME S # {}  PROVE FALSE
  OBVIOUS
<1>1. PICK i \in S : \A j \in S : i <= j
  BY LeastNumber
<1>2. i \in Nat /\ ~ \E f : Turns(f, h, box, board, i)
  OBVIOUS
<1>3. CASE i = 0
  <2> DEFINE g == [m \in 0 .. 0 |-> [h |-> flushLeadInbox(h, box), over |-> FALSE]]
  <2>1. Turns(g, h, box, board, 0)
    BY DEF Turns
  <2> QED BY <1>2, <1>3, <2>1
<1>4. CASE i # 0
  <2>1. i - 1 \in Nat /\ i - 1 \notin S
    BY <1>1, <1>2, <1>4
  <2>2. PICK f : Turns(f, h, box, board, i - 1)
    BY <2>1
  <2> DEFINE g == [m \in 0 .. i |-> IF m = i THEN Visit(box, board, i, f[i - 1]) ELSE f[m]]
  <2>3. g[0] = f[0] /\ \A m \in 1 .. i - 1 : g[m] = f[m] /\ g[m - 1] = f[m - 1]
    BY <1>2, <1>4
  <2>4. g[i] = Visit(box, board, i, f[i - 1]) /\ g[i - 1] = f[i - 1]
    BY <1>2, <1>4
  <2> HIDE DEF g
  <2>5. ASSUME NEW m \in 1 .. i  PROVE g[m] = Visit(box, board, m, g[m - 1])
    <3>1. CASE m = i
      BY <2>4, <3>1
    <3>2. CASE m \in 1 .. i - 1
      BY <2>2, <2>3, <3>2 DEF Turns
    <3> QED BY <1>2, <3>1, <3>2
  <2>6. Turns(g, h, box, board, i)
    BY <2>2, <2>3, <2>5 DEF Turns
  <2> QED BY <1>2, <2>6
<1> QED BY <1>3, <1>4

LEMMA PumpUnfolds ==
  ASSUME NEW h, NEW box, NEW board
  PROVE  \E f : Turns(f, h, box, board, Members) /\ pumpIdle(h, box, board) = f[Members].h
<1>1. Members \in Nat
  BY TeamMailAssumption
<1> DEFINE first == [h |-> flushLeadInbox(h, box), over |-> FALSE]
           body(f) == [m \in 0 .. Members |-> IF m = 0 THEN first ELSE Visit(box, board, m, f[m - 1])]
           after == CHOOSE f : f = body(f)
<1>2. PICK f : Turns(f, h, box, board, Members)
  BY <1>1, TurnsExist
<1> DEFINE g == [m \in 0 .. Members |-> f[m]]
<1>3. g = body(g)
  BY <1>1, <1>2 DEF Turns
<1>4. after = body(after)
  <2> HIDE DEF body, g
  <2> QED BY <1>3
<1>5. pumpIdle(h, box, board) = after[Members].h
  BY DEF pumpIdle
<1>6. Turns(after, h, box, board, Members)
  <2> HIDE DEF after
  <2>1. after = [m \in 0 .. Members |-> IF m = 0 THEN first ELSE Visit(box, board, m, after[m - 1])]
    BY <1>4
  <2>2. after[0] = first
    BY <1>1, <2>1
  <2>3. ASSUME NEW m \in 1 .. Members  PROVE after[m] = Visit(box, board, m, after[m - 1])
    <3>1. m \in 0 .. Members /\ m # 0
      BY <1>1
    <3> QED BY <2>1, <3>1
  <2> QED BY <2>2, <2>3 DEF Turns
<1> QED BY <1>5, <1>6
-----------------------------------------------------------------------------
(* Whom an offer was made to concerns no message and no run. *)
LEMMA OffersAside ==
  ASSUME NEW h, NEW box, NEW kp, NEW fl, NEW fa, NEW ex, NEW loose, NEW leaving,
         Sound(h, box, kp, fl, fa, ex, loose), Ledger(h, leaving), NEW S \in SUBSET Member
  PROVE  LET s == [h EXCEPT !.offered = S]
         IN  /\ Sound(s, box, kp, fl, fa, ex, loose) /\ Ledger(s, leaving) /\ GoOn(h, s)
             /\ s.run = h.run /\ s.inFlight = h.inFlight /\ s.running = h.running /\ s.offered = S
<1> DEFINE s == [h EXCEPT !.offered = S]
<1>1. h \in Hosts
  BY DEF Sound
<1>2. s \in Hosts /\ s.run = h.run /\ s.inFlight = h.inFlight /\ s.running = h.running /\ s.offered = S
  BY <1>1 DEF Hosts
<1> HIDE DEF s
<1>3. Sound(s, box, kp, fl, fa, ex, loose)
  BY <1>2 DEF Sound, Placed, RunOK, Carries
<1>4. Ledger(s, leaving) /\ GoOn(h, s)
  BY <1>2 DEF Ledger, GoOn
<1> QED BY <1>2, <1>3, <1>4 DEF s

(* Mail delivery to a member or to the lead, if it delivers at all, starts *)
(* a run of an idle session with all its fresh mail.                       *)
Delivered(h, s, box, t) ==
  \/ s = h
  \/ h.run[t] = None /\ s = startRun(h, t, "mail", Fresh(h, box, t))

LEMMA Delivers ==
  ASSUME NEW h, NEW box
  PROVE  /\ Delivered(h, flushLeadInbox(h, box), box, Lead)
         /\ \A m \in Member : Delivered(h, deliverPendingMail(h, box, m), box, m)
BY DEF Delivered, flushLeadInbox, deliverPendingMail, Busy

LEMMA DeliveredKeeps ==
  ASSUME NEW h, NEW s, NEW box, NEW kp, NEW fl, NEW fa, NEW ex, NEW loose, NEW leaving,
         Sound(h, box, kp, fl, fa, ex, loose), Ledger(h, leaving), NEW t \in Target,
         Delivered(h, s, box, t)
  PROVE  /\ Sound(s, box, kp, fl, fa, ex, loose) /\ Ledger(s, leaving) /\ GoOn(h, s)
         /\ s.offered = h.offered /\ (s = h \/ t \in gone \/ s.run[t] # None)
<1>1. CASE s = h
  BY <1>1 DEF GoOn
<1>2. CASE h.run[t] = None /\ s = startRun(h, t, "mail", Fresh(h, box, t))
  BY <1>2, StartKeeps
<1> QED BY <1>1, <1>2 DEF Delivered

(* After the turns of the first n members nothing is disturbed; and if     *)
(* everybody rests still, everyone free so far has had the offer.          *)
Rest(h, board) ==
  /\ \A t \in Target : h.run[t] = None /\ t \notin waiting
  /\ gone = {} /\ MaxActive > 0 /\ board = Ready

Asked(h, box, n) == \A m \in 1 .. n : Pending(box, m) = {} => m \in h.offered

LoopOK(acc, h, box, kp, fl, fa, ex, loose, leaving, board, n) ==
  /\ acc \in [h : Hosts, over : BOOLEAN]
  /\ Sound(acc.h, box, kp, fl, fa, ex, loose) /\ Ledger(acc.h, leaving) /\ GoOn(h, acc.h)
  /\ leaving = {} /\ Rest(acc.h, board) => ~acc.over /\ Asked(acc.h, box, n)

LEMMA FirstTurn ==
  ASSUME NEW h, NEW box, NEW kp, NEW fl, NEW fa, NEW ex, NEW loose, NEW leaving, NEW board,
         Sound(h, box, kp, fl, fa, ex, loose), Ledger(h, leaving)
  PROVE  LoopOK([h |-> flushLeadInbox(h, box), over |-> FALSE],
                h, box, kp, fl, fa, ex, loose, leaving, board, 0)
<1> DEFINE s == flushLeadInbox(h, box)
<1>1. Delivered(h, s, box, Lead) /\ Lead \in Target
  BY Delivers DEF Target
<1> HIDE DEF s
<1>2. Sound(s, box, kp, fl, fa, ex, loose) /\ Ledger(s, leaving) /\ GoOn(h, s)
  BY <1>1, DeliveredKeeps
<1>3. s \in Hosts
  BY <1>2 DEF Sound
<1>4. Asked(s, box, 0)
  BY DEF Asked
<1> QED BY <1>2, <1>3, <1>4 DEF LoopOK, s

LEMMA NextTurn ==
  ASSUME NEW acc, NEW h, NEW box, NEW kp, NEW fl, NEW fa, NEW ex, NEW loose, NEW leaving,
         NEW board, NEW n \in 1 .. Members,
         LoopOK(acc, h, box, kp, fl, fa, ex, loose, leaving, board, n - 1)
  PROVE  LoopOK(Visit(box, board, n, acc), h, box, kp, fl, fa, ex, loose, leaving, board, n)
<1> DEFINE g == acc.h
           new == Visit(box, board, n, acc)
<1>1. /\ acc \in [h : Hosts, over : BOOLEAN] /\ g \in Hosts
      /\ Sound(g, box, kp, fl, fa, ex, loose) /\ Ledger(g, leaving) /\ GoOn(h, g)
      /\ leaving = {} /\ Rest(g, board) => ~acc.over /\ Asked(g, box, n - 1)
  BY DEF LoopOK
<1>2. n \in Member /\ n \in Target /\ Members \in Nat
  BY TeamMailAssumption DEF Member, Target
<1>3. leaving = {} /\ Rest(g, board) => runningMembers(g) = 0 /\ MaxActive > 0
  <2> SUFFICES ASSUME leaving = {}, Rest(g, board)
               PROVE  runningMembers(g) = 0 /\ MaxActive > 0
    OBVIOUS
  <2>1. g.running \subseteq Target
    BY <1>1 DEF Hosts
  <2>2. g.running \cap Member = {}
    BY <1>1, <2>1 DEF Ledger, Rest
  <2> QED BY <2>2, FS_EmptySet DEF runningMembers, Rest
<1>4. CASE acc.over \/ runningMembers(g) >= MaxActive
  <2>1. new = [acc EXCEPT !.over = TRUE]
    BY <1>4 DEF Visit
  <2> HIDE DEF new
  <2>2. new.h = g /\ new \in [h : Hosts, over : BOOLEAN]
    BY <1>1, <2>1
  <2>3. ~(leaving = {} /\ Rest(g, board))
    BY <1>1, <1>3, <1>4, TeamMailAssumption
  <2> HIDE DEF g
  <2> QED BY <1>1, <2>2, <2>3 DEF LoopOK, new
<1>5. CASE ~(acc.over \/ runningMembers(g) >= MaxActive) /\ Busy(g, n)
  <2>1. new = acc
    BY <1>5 DEF Visit
  <2>2. ~Rest(g, board)
    BY <1>2, <1>5 DEF Busy, Rest
  <2> HIDE DEF new
  <2> QED BY <1>1, <2>1, <2>2 DEF LoopOK, new
<1>6. CASE /\ ~(acc.over \/ runningMembers(g) >= MaxActive) /\ ~Busy(g, n)
           /\ Pending(box, n) # {}
  <2> DEFINE s == deliverPendingMail(g, box, n)
  <2>1. new = [acc EXCEPT !.h = s]
    BY <1>6 DEF Visit
  <2>2. Delivered(g, s, box, n)
    BY <1>2, Delivers
  <2> HIDE DEF new, s, g
  <2>3. /\ Sound(s, box, kp, fl, fa, ex, loose) /\ Ledger(s, leaving) /\ GoOn(g, s)
        /\ (s = g \/ n \in gone \/ s.run[n] # None)
    BY <1>1, <1>2, <2>2, DeliveredKeeps
  <2>4. new.h = s /\ new.over = acc.over /\ new \in [h : Hosts, over : BOOLEAN]
    BY <1>1, <2>1, <2>3 DEF Sound
  <2>5. GoOn(h, s)
    BY <1>1, <2>3 DEF GoOn
  <2>6. ASSUME leaving = {}, Rest(s, board)  PROVE ~acc.over /\ Asked(s, box, n)
    <3>1. s = g
      BY <1>2, <2>3, <2>6 DEF Rest
    <3>2. ~acc.over /\ Asked(s, box, n - 1)
      BY <1>1, <2>6, <3>1
    <3> QED BY <1>2, <1>6, <3>2 DEF Asked
  <2> QED BY <2>3, <2>4, <2>5, <2>6 DEF LoopOK, new
<1>7. CASE /\ ~(acc.over \/ runningMembers(g) >= MaxActive) /\ ~Busy(g, n)
           /\ Pending(box, n) = {} /\ Offerable(g, board, n)
  <2> DEFINE o == [g EXCEPT !.offered = @ \cup {n}]
             s == startRun(o, n, "offer", {})
             S == g.offered \cup {n}
  <2>1. new = [h |-> s, over |-> TRUE]
    BY <1>7 DEF Visit
  <2>2. S \in SUBSET Member /\ o = [g EXCEPT !.offered = S]
    BY <1>1, <1>2 DEF Hosts
  <2>3. g.run[n] = None
    BY <1>7 DEF Busy
  <2> HIDE DEF new, s, g, S, o
  <2>4. /\ Sound(o, box, kp, fl, fa, ex, loose) /\ Ledger(o, leaving) /\ GoOn(g, o)
        /\ o.run = g.run
    BY <1>1, <2>2, OffersAside
  <2>5. /\ Sound(s, box, kp, fl, fa, ex, loose) /\ Ledger(s, leaving) /\ GoOn(o, s)
        /\ (n \notin gone => s.run[n] # None)
    <3>1. {} \in SUBSET Fresh(o, box, n)
      OBVIOUS
    <3> QED BY <1>2, <2>3, <2>4, <3>1, StartKeeps DEF s
  <2>6. GoOn(h, s) /\ ~Rest(s, board) /\ s \in Hosts
    BY <1>1, <1>2, <2>4, <2>5 DEF GoOn, Rest, Sound
  <2> QED BY <2>1, <2>5, <2>6 DEF LoopOK, new
<1>8. CASE /\ ~(acc.over \/ runningMembers(g) >= MaxActive) /\ ~Busy(g, n)
           /\ Pending(box, n) = {} /\ ~Offerable(g, board, n)
  <2>1. new = acc
    BY <1>8 DEF Visit
  <2>2. ASSUME leaving = {}, Rest(g, board)  PROVE ~acc.over /\ Asked(g, box, n)
    <3>1. n \in g.offered
      BY <1>8, <2>2 DEF Offerable, Rest
    <3>2. ~acc.over /\ Asked(g, box, n - 1)
      BY <1>1, <2>2
    <3> QED BY <1>2, <3>1, <3>2 DEF Asked
  <2> HIDE DEF new
  <2> QED BY <1>1, <2>1, <2>2 DEF LoopOK, new
<1> QED BY <1>4, <1>5, <1>6, <1>7, <1>8

(* pumpIdle disturbs nothing, and leaves nobody free unasked. *)
LEMMA Pumped ==
  ASSUME NEW h, NEW box, NEW kp, NEW fl, NEW fa, NEW ex, NEW loose, NEW leaving, NEW board,
         Sound(h, box, kp, fl, fa, ex, loose), Ledger(h, leaving)
  PROVE  LET s == pumpIdle(h, box, board)
         IN  /\ Sound(s, box, kp, fl, fa, ex, loose) /\ Ledger(s, leaving) /\ GoOn(h, s)
             /\ leaving = {} /\ Rest(s, board) => Asked(s, box, Members)
<1>1. PICK f : Turns(f, h, box, board, Members) /\ pumpIdle(h, box, board) = f[Members].h
  BY PumpUnfolds
<1> DEFINE Good(m) == LoopOK(f[m], h, box, kp, fl, fa, ex, loose, leaving, board, m)
           Bad == {m \in 0 .. Members : ~Good(m)}
<1>2. Members \in Nat
  BY TeamMailAssumption
<1>3. Good(0)
  <2>1. f[0] = [h |-> flushLeadInbox(h, box), over |-> FALSE]
    BY <1>1 DEF Turns
  <2> QED BY <2>1, FirstTurn
<1>4. ASSUME NEW m \in 1 .. Members, Good(m - 1)  PROVE Good(m)
  <2>1. f[m] = Visit(box, board, m, f[m - 1])
    BY <1>1 DEF Turns
  <2> QED BY <1>4, <2>1, NextTurn
<1> HIDE DEF Good
<1>5. Bad = {}
  <2> SUFFICES ASSUME Bad # {}  PROVE FALSE
    OBVIOUS
  <2>1. Bad \in SUBSET Nat
    BY <1>2
  <2>2. PICK i \in Bad : \A j \in Bad : i <= j
    BY <2>1, LeastNumber
  <2>3. i \in 1 .. Members /\ ~Good(i)
    BY <1>2, <1>3, <2>2
  <2>4. i - 1 \in 0 .. Members /\ i - 1 \notin Bad
    BY <1>2, <2>2, <2>3
  <2> QED BY <1>4, <2>3, <2>4
<1>6. Good(Members)
  BY <1>2, <1>5
<1> QED BY <1>1, <1>6 DEF Good, LoopOK
-----------------------------------------------------------------------------
(* A flip whose run is over has its receiver among the overlooked. *)
Outlived == \A m \in Member : host.run[m] = None /\ Shown(m) # {} => m \in overlooked

(* Nothing is lost, pinned or missed: every message is where it can be,    *)
(* the ledger is of live runs, no offer is missed, and who has a flip that *)
(* outlived its run is known to be overlooked.                             *)
Served ==
  /\ Sound(host, mail, kept, flips, faults, exposed, {})
  /\ Ledger(host, {})
  /\ NoMissedOffer
  /\ Outlived


(* While a run goes on nobody can have missed an offer. *)
LEMMA BusyMissesNothing ==
  ASSUME NEW t \in Target, host'.run[t] # None  PROVE NoMissedOffer'
BY DEF NoMissedOffer, Busy

(* A flip outlives no run but one that ends. *)
LEMMA OutlivedStays ==
  ASSUME Outlived, GoOn(host, host'), overlooked' = overlooked,
         \A m \in Member : host.run[m] = None => Shown(m)' \subseteq Shown(m)
  PROVE  Outlived'
<1> SUFFICES ASSUME NEW m \in Member, host'.run[m] = None, Shown(m)' # {}
             PROVE  m \in overlooked'
  BY DEF Outlived
<1>1. host.run[m] = None
  BY DEF GoOn, Target
<1> QED BY <1>1 DEF Outlived

(* At the end of a run and at a change of the board the host looks anew. *)
LEMMA OutlivedAnew ==
  ASSUME Overlooks, UNCHANGED <<mail, flips>>  PROVE Outlived'
<1>1. ASSUME NEW m \in Member  PROVE Shown(m)' = Shown(m)
  BY DEF Shown
<1> QED BY <1>1 DEF Outlived, Overlooks

(* A run that shows its input has the flip of its mail under way. *)
LEMMA ShowKeeps ==
  ASSUME NEW h, NEW box, NEW kp, NEW fl, NEW fa, NEW ex,
         Sound(h, box, kp, fl, fa, ex, {}), Ledger(h, {}),
         NEW t \in Target, h.run[t] # None, ~h.run[t].shown
  PROVE  LET s == [h EXCEPT !.run[t].shown = TRUE]
         IN  Sound(s, box, kp, fl \cup h.run[t].ids, fa, ex, {}) /\ Ledger(s, {}) /\ GoOn(h, s)
<1> DEFINE r == h.run[t]
           new == [r EXCEPT !.shown = TRUE]
           s == [h EXCEPT !.run[t].shown = TRUE]
<1>1. /\ box \in Seq(Mail) /\ h \in Hosts /\ h.inFlight \subseteq DOMAIN box /\ fl \subseteq DOMAIN box
      /\ RunOK(h, box, t)
  BY DEF Sound
<1>2. r \in Runs
  BY <1>1 DEF Hosts
<1>3. /\ new \in Runs /\ new # None /\ new.shown /\ new.kept = r.kept /\ new.kind = r.kind
      /\ new.ids = r.ids /\ ~r.shown /\ r # None /\ ~r.kept
  BY <1>1, <1>2, NoneAssumption DEF Runs, RunOK
<1>4. s = [h EXCEPT !.run = [h.run EXCEPT ![t] = new]]
  BY <1>1, <1>2 DEF Hosts, Runs
<1> HIDE DEF new, s
<1>5. /\ s.inFlight = h.inFlight /\ s.running = h.running /\ s \in Hosts
      /\ s.run[t] = new /\ \A u \in Target \ {t} : s.run[u] = h.run[u]
  BY <1>1, <1>3, <1>4 DEF Hosts
<1>6. r.ids \subseteq {k \in DOMAIN box : box[k].to = t}
  BY <1>1, <1>3 DEF RunOK
<1>7. ASSUME NEW u \in Target  PROVE RunOK(s, box, u)
  <2>1. RunOK(h, box, u)
    BY DEF Sound
  <2> QED BY <1>3, <1>5, <2>1 DEF RunOK
<1>8. ASSUME NEW k \in DOMAIN box  PROVE Placed(s, box, kp, fl \cup r.ids, fa, ex, {}, k)
  <2>1. Placed(h, box, kp, fl, fa, ex, {}, k) /\ box[k].to \in Target
    BY <1>1, MailFacts DEF Sound
  <2>2. CASE box[k].to = t
    <3>1. h.run[box[k].to] = r /\ s.run[box[k].to] = new
      BY <1>5, <2>2
    <3> HIDE DEF r
    <3> QED BY <1>3, <1>5, <2>1, <3>1 DEF Placed, Carries
  <2>3. CASE box[k].to # t
    <3>1. s.run[box[k].to] = h.run[box[k].to] /\ k \notin r.ids
      BY <1>5, <1>6, <2>1, <2>3
    <3> HIDE DEF r
    <3> QED BY <1>5, <2>1, <3>1 DEF Placed, Carries
  <2> QED BY <2>2, <2>3
<1>9. Sound(s, box, kp, fl \cup r.ids, fa, ex, {})
  BY <1>1, <1>5, <1>6, <1>7, <1>8 DEF Sound
<1>10. Ledger(s, {}) /\ GoOn(h, s)
  <2>1. s.running \subseteq Target
    BY <1>5 DEF Hosts
  <2> QED BY <1>3, <1>5, <2>1 DEF Ledger, GoOn
<1> QED BY <1>9, <1>10 DEF s

(* A new message is pending, and nowhere yet. *)
LEMMA SentKeeps ==
  ASSUME NEW h, NEW box, NEW kp, NEW fl, NEW fa, NEW ex,
         Sound(h, box, kp, fl, fa, ex, {}), NEW t \in Target
  PROVE  LET b == Append(box, [to |-> t, status |-> "pending"])
         IN  /\ Sound(h, b, Append(kp, 0), fl, fa, ex, {})
             /\ \E n \in DOMAIN b : b[n].to = t /\ b[n].status = "pending" /\ n \notin h.inFlight
<1> DEFINE x == [to |-> t, status |-> "pending"]
           b == Append(box, x)
           c == Append(kp, 0)
           n == Len(box) + 1
<1>1. /\ box \in Seq(Mail) /\ kp \in Seq(Nat) /\ Len(kp) = Len(box) /\ fa \in Nat
      /\ h \in Hosts /\ h.inFlight \subseteq DOMAIN box /\ fl \subseteq DOMAIN box
  BY DEF Sound
<1>2. x \in Mail /\ x.to = t /\ x.status = "pending"
  BY DEF Mail
<1> HIDE DEF x
<1>3. /\ Len(box) \in Nat /\ DOMAIN box = 1 .. Len(box) /\ n \notin DOMAIN box
      /\ b \in Seq(Mail) /\ c \in Seq(Nat) /\ Len(c) = Len(b) /\ Len(b) = n
      /\ DOMAIN b = DOMAIN box \cup {n}
      /\ b[n] = x /\ \A k \in DOMAIN box : b[k] = box[k]
      /\ c[n] = 0 /\ \A k \in DOMAIN box : c[k] = kp[k]
  BY <1>1, <1>2
<1> HIDE DEF b, c, n
<1>4. \A u \in Target : RunOK(h, b, u)
  <2> TAKE u \in Target
  <2>1. RunOK(h, box, u)
    BY DEF Sound
  <2> QED BY <1>3, <2>1 DEF RunOK
<1>5. ASSUME NEW k \in DOMAIN box  PROVE Placed(h, b, c, fl, fa, ex, {}, k)
  <2>1. Placed(h, box, kp, fl, fa, ex, {}, k) /\ b[k] = box[k] /\ c[k] = kp[k]
    BY <1>3 DEF Sound
  <2> QED BY <2>1 DEF Placed, Carries
<1>6. Placed(h, b, c, fl, fa, ex, {}, n)
  <2>1. ~Carries(h, b, n)
    <3>1. RunOK(h, box, t) /\ b[n].to = t
      BY <1>2, <1>3 DEF Sound
    <3> QED BY <1>3, <3>1 DEF RunOK, Carries
  <2>2. n \notin fl /\ n \notin h.inFlight /\ c[n] = 0 /\ b[n].status = "pending"
    BY <1>1, <1>2, <1>3
  <2> QED BY <1>1, <2>1, <2>2 DEF Placed
<1>7. h.inFlight \subseteq DOMAIN b /\ fl \subseteq DOMAIN b
  BY <1>1, <1>3
<1>8. \A k \in DOMAIN b : Placed(h, b, c, fl, fa, ex, {}, k)
  BY <1>3, <1>5, <1>6
<1>9. n \in DOMAIN b /\ b[n].to = t /\ b[n].status = "pending" /\ n \notin h.inFlight
  BY <1>1, <1>2, <1>3
<1> QED BY <1>1, <1>3, <1>4, <1>7, <1>8, <1>9 DEF Sound, b, c, x
(* A message that is taken in and its receiver woken. *)
LEMMA EnqueuedKeeps ==
  ASSUME NEW h, NEW fl, Sound(h, mail, kept, fl, faults, exposed, {}), Ledger(h, {}),
         NEW t \in Target, Enqueued(t, h)
  PROVE  /\ Sound(host', mail', kept', fl, faults, exposed, {}) /\ Ledger(host', {})
         /\ GoOn(h, host')
         /\ t # Lead /\ Rest(h, Ready) => host'.run[t] # None
<1> DEFINE b == Append(mail, [to |-> t, status |-> "pending"])
           c == Append(kept, 0)
           g == Anew(h)
           none == {}
<1>1. /\ mail' = b /\ kept' = c
      /\ host' = IF t = Lead THEN flushLeadInbox(g, b) ELSE deliverPendingMail(g, b, t)
  BY DEF Enqueued
<1>2. /\ Sound(h, b, c, fl, faults, exposed, {})
      /\ \E n \in DOMAIN b : b[n].to = t /\ b[n].status = "pending" /\ n \notin h.inFlight
  BY SentKeeps
<1> HIDE DEF b, c
<1>3. /\ Sound(g, b, c, fl, faults, exposed, {}) /\ Ledger(g, {}) /\ GoOn(h, g)
      /\ g.run = h.run /\ g.inFlight = h.inFlight /\ g.running = h.running
  <2>1. none \in SUBSET Member /\ g = [h EXCEPT !.offered = none]
    BY DEF Anew
  <2> HIDE DEF g, none
  <2> QED BY <1>2, <2>1, OffersAside
<1> HIDE DEF g
<1>4. Delivered(g, host', b, t)
  <2>1. CASE t = Lead
    BY <1>1, <2>1, Delivers
  <2>2. CASE t # Lead
    <3>1. t \in Member
      BY <2>2 DEF Target
    <3> QED BY <1>1, <2>2, <3>1, Delivers
  <2> QED BY <2>1, <2>2
<1>5. /\ Sound(host', b, c, fl, faults, exposed, {}) /\ Ledger(host', {}) /\ GoOn(g, host')
      /\ (host' = g \/ t \in gone \/ host'.run[t] # None)
  BY <1>3, <1>4, DeliveredKeeps
<1>6. ASSUME t # Lead, Rest(h, Ready)  PROVE host'.run[t] # None
  <2>1. t \in Member /\ host' = deliverPendingMail(g, b, t)
    BY <1>1, <1>6 DEF Target
  <2>2. g.run[t] = None /\ t \notin waiting /\ gone = {} /\ MaxActive > 0
    BY <1>3, <1>6 DEF Rest
  <2>3. runningMembers(g) = 0
    <3>1. g.running \subseteq Target
      BY <1>3 DEF Sound, Hosts
    <3>2. g.running \cap Member = {}
      BY <1>3, <1>6, <3>1 DEF Ledger, Rest
    <3> QED BY <3>2, FS_EmptySet DEF runningMembers
  <2>4. Fresh(g, b, t) # {}
    BY <1>2, <1>3 DEF Fresh, Pending
  <2>5. host' = startRun(g, t, "mail", Fresh(g, b, t))
    <3>1. ~(runningMembers(g) >= MaxActive)
      BY <2>2, <2>3, TeamMailAssumption
    <3> QED BY <2>1, <2>2, <2>4, <3>1 DEF deliverPendingMail, Busy, HasNews
  <2>6. t \notin gone
    BY <2>2
  <2> QED BY <1>3, <2>2, <2>5, <2>6, StartKeeps
<1>7. GoOn(h, host')
  BY <1>3, <1>5 DEF GoOn
<1> QED BY <1>1, <1>5, <1>6, <1>7

(* The history has a run's input. *)
LEMMA KeepServed ==
  ASSUME Served, NEW t \in Target, Keep(t)  PROVE Served'
<1> DEFINE r == host.run[t]
           new == [r EXCEPT !.kept = TRUE]
<1>1. /\ r # None /\ r.shown /\ ~r.kept
      /\ host' = [host EXCEPT !.run[t].kept = TRUE]
      /\ kept' = [k \in Ids |-> IF k \in r.ids THEN kept[k] + 1 ELSE kept[k]]
      /\ UNCHANGED <<mail, flips, waiting, gone, task, spent, faults, exposed, overlooked>>
  BY DEF Keep
<1>2. /\ mail \in Seq(Mail) /\ host \in Hosts /\ host.inFlight \subseteq Ids /\ flips \subseteq Ids
      /\ kept \in Seq(Nat) /\ Len(kept) = Len(mail) /\ faults \in Nat
      /\ \A u \in Target : RunOK(host, mail, u)
      /\ \A k \in Ids : Placed(host, mail, kept, flips, faults, exposed, {}, k)
      /\ Ledger(host, {})
  BY DEF Served, Sound, Ids
<1>3. r \in Runs
  BY <1>1, <1>2 DEF Hosts
<1>4. /\ new \in Runs /\ new # None /\ new.kept /\ new.shown = r.shown /\ new.kind = r.kind
      /\ new.ids = r.ids
  BY <1>3, NoneAssumption DEF Runs
<1>5. host' = [host EXCEPT !.run = [host.run EXCEPT ![t] = new]]
  BY <1>1, <1>2, <1>3 DEF Hosts, Runs
<1> HIDE DEF new
<1>6. /\ host'.inFlight = host.inFlight /\ host'.running = host.running /\ host' \in Hosts
      /\ host'.run[t] = new /\ \A u \in Target \ {t} : host'.run[u] = host.run[u]
  BY <1>2, <1>4, <1>5 DEF Hosts
<1>7. r.ids \subseteq {k \in Ids : mail[k].to = t}
  BY <1>1, <1>2 DEF RunOK, Ids
<1>8. kept' \in Seq(Nat) /\ Len(kept') = Len(mail)
  BY <1>1, <1>2 DEF Ids
<1>9. ASSUME NEW u \in Target  PROVE RunOK(host', mail, u)
  <2>1. RunOK(host, mail, u)
    BY <1>2
  <2> QED BY <1>1, <1>4, <1>6, <2>1 DEF RunOK
<1>10. ASSUME NEW k \in Ids  PROVE Placed(host', mail, kept', flips, faults, exposed, {}, k)
  <2>1. Placed(host, mail, kept, flips, faults, exposed, {}, k) /\ mail[k].to \in Target
    BY <1>2, MailFacts DEF Ids
  <2>2. kept'[k] = IF k \in r.ids THEN kept[k] + 1 ELSE kept[k]
    BY <1>1
  <2>3. CASE k \in r.ids
    <3>1. mail[k].to = t /\ host.run[mail[k].to] = r /\ host'.run[mail[k].to] = new
      BY <1>6, <1>7, <2>3
    <3>2. kept'[k] = kept[k] + 1 /\ kept[k] \in Nat /\ kept[k] <= faults
      BY <1>1, <2>1, <2>2, <2>3, <3>1 DEF Placed, Carries
    <3>3. /\ k \in host.inFlight => k \in flips
          /\ k \in flips => k \in host.inFlight
          /\ mail[k].status = "pending" /\ k \notin host.inFlight => kept[k] + 1 <= faults
      BY <1>1, <2>1, <2>3, <3>1 DEF Placed, Carries
    <3> HIDE DEF r
    <3>4. Carries(host', mail, k) /\ new.shown /\ new.kept /\ k \notin {}
      BY <1>1, <1>4, <2>3, <3>1 DEF Carries
    <3>5. /\ kept'[k] \in Nat /\ kept'[k] <= 1 + faults /\ kept'[k] > 0
          /\ mail[k].status = "pending" /\ k \notin host.inFlight => kept'[k] <= faults
      BY <1>2, <3>2, <3>3
    <3> QED BY <1>4, <1>6, <3>1, <3>3, <3>4, <3>5 DEF Placed
  <2>4. CASE k \notin r.ids
    <3>1. kept'[k] = kept[k]
      BY <2>2, <2>4
    <3>2. CASE mail[k].to = t
      <4>1. host.run[mail[k].to] = r /\ host'.run[mail[k].to] = new
        BY <1>6, <3>2
      <4> HIDE DEF r
      <4> QED BY <1>1, <1>4, <1>6, <2>1, <2>4, <3>1, <4>1 DEF Placed, Carries
    <3>3. CASE mail[k].to # t
      <4>1. host'.run[mail[k].to] = host.run[mail[k].to]
        BY <1>6, <2>1, <3>3
      <4> QED BY <1>6, <2>1, <3>1, <4>1 DEF Placed, Carries
    <3> QED BY <3>2, <3>3
  <2> QED BY <2>3, <2>4
<1>11. Sound(host', mail, kept', flips, faults, exposed, {})
  BY <1>2, <1>6, <1>8, <1>9, <1>10 DEF Sound, Ids
<1>12. Ledger(host', {})
  <2>1. host.running \subseteq Target
    BY <1>2 DEF Hosts
  <2> QED BY <1>2, <1>4, <1>6, <2>1 DEF Ledger
<1>13. NoMissedOffer'
  BY <1>4, <1>6, BusyMissesNothing
<1>14. Outlived'
  <2>1. GoOn(host, host')
    BY <1>4, <1>6 DEF GoOn
  <2>2. ASSUME NEW m \in Member  PROVE Shown(m)' \subseteq Shown(m)
    BY <1>1 DEF Shown
  <2> QED BY <1>1, <2>1, <2>2, OutlivedStays DEF Served
<1> QED BY <1>1, <1>11, <1>12, <1>13, <1>14 DEF Served

(* A flip leaves no message half delivered: what it marks was shown by a   *)
(* run, kept, or is exposed.  One that fails releases its messages, at the *)
(* price of a fault.                                                       *)
LEMMA FlipServed ==
  ASSUME Served, NEW t \in Target, Flip(t) \/ FlipFails(t)  PROVE Served'
<1>1. PICK ids \in SUBSET Shown(t) :
      /\ ids # {} /\ flips' = flips \ ids
      /\ host' = [host EXCEPT !.inFlight = @ \ ids]
      /\ UNCHANGED <<kept, waiting, gone, task, spent, exposed, overlooked>>
      /\ \/ /\ mail' = [k \in Ids |-> IF k \in ids THEN [mail[k] EXCEPT !.status = "delivered"] ELSE mail[k]]
            /\ faults' = faults
         \/ mail' = mail /\ faults' = faults + 1
  BY DEF Flip, FlipFails, Marked, Fault
<1>2. /\ mail \in Seq(Mail) /\ host \in Hosts /\ host.inFlight \subseteq Ids /\ flips \subseteq Ids
      /\ kept \in Seq(Nat) /\ Len(kept) = Len(mail) /\ faults \in Nat
      /\ \A u \in Target : RunOK(host, mail, u)
      /\ \A k \in Ids : Placed(host, mail, kept, flips, faults, exposed, {}, k)
      /\ Ledger(host, {})
  BY DEF Served, Sound, Ids
<1>3. /\ mail' \in Seq(Mail) /\ Len(mail') = Len(mail) /\ DOMAIN mail' = Ids
      /\ \A k \in Ids :
           /\ mail'[k].to = mail[k].to
           /\ mail'[k].status = mail[k].status \/ (k \in ids /\ mail'[k].status = "delivered")
           /\ k \in ids => mail'[k].status = "delivered" \/ faults' = faults + 1
      /\ faults' \in {faults, faults + 1}
  <2>1. \A k \in Ids : mail[k] \in Mail
    BY <1>2 DEF Ids
  <2>2. CASE mail' = mail /\ faults' = faults + 1
    BY <1>2, <2>2 DEF Ids
  <2>3. CASE /\ mail' = [k \in Ids |-> IF k \in ids THEN [mail[k] EXCEPT !.status = "delivered"] ELSE mail[k]]
             /\ faults' = faults
    <3>1. ASSUME NEW k \in Ids
          PROVE  /\ mail'[k] \in Mail /\ mail'[k].to = mail[k].to
                 /\ mail'[k].status = IF k \in ids THEN "delivered" ELSE mail[k].status
      BY <2>1, <2>3 DEF Mail
    <3>2. Ids = 1 .. Len(mail) /\ Len(mail) \in Nat /\ DOMAIN mail' = Ids
      BY <1>2, <2>3 DEF Ids
    <3>3. mail' = [k \in 1 .. Len(mail) |-> mail'[k]]
      BY <2>3, <3>2
    <3>4. mail' \in [1 .. Len(mail) -> Mail]
      BY <3>1, <3>2, <3>3
    <3>5. mail' \in Seq(Mail) /\ Len(mail') = Len(mail)
      BY <3>2, <3>4
    <3> QED BY <2>3, <3>1, <3>2, <3>5
  <2> QED BY <1>1, <2>2, <2>3
<1>4. /\ host' \in Hosts /\ host'.run = host.run /\ host'.running = host.running
      /\ host'.inFlight = host.inFlight \ ids
  BY <1>1, <1>2 DEF Hosts
<1>5. \A k \in ids : k \in flips /\ mail[k].to = t
  BY DEF Shown
<1>6. ASSUME NEW u \in Target  PROVE RunOK(host', mail', u)
  <2>1. RunOK(host, mail, u)
    BY <1>2
  <2> QED BY <1>3, <1>4, <2>1 DEF RunOK, Ids
<1>7. ASSUME NEW k \in Ids  PROVE Placed(host', mail', kept, flips', faults', exposed, {}, k)
  <2>1. /\ Placed(host, mail, kept, flips, faults, exposed, {}, k)
        /\ kept[k] \in Nat /\ kept[k] <= 1 + faults
    BY <1>2 DEF Placed
  <2>2. /\ mail'[k].to = mail[k].to /\ host'.run[mail'[k].to] = host.run[mail[k].to]
        /\ Carries(host', mail', k) <=> Carries(host, mail, k)
        /\ k \in flips' <=> k \in flips /\ k \notin ids
        /\ k \in host'.inFlight <=> k \in host.inFlight /\ k \notin ids
    BY <1>1, <1>3, <1>4 DEF Carries
  <2>3. CASE k \in ids
    <3>1. k \in flips /\ k \in host.inFlight /\ k \notin flips' /\ k \notin host'.inFlight
      BY <1>5, <2>1, <2>2, <2>3 DEF Placed
    <3>2. CASE mail'[k].status = "delivered"
      BY <1>2, <1>3, <2>1, <2>2, <3>1, <3>2 DEF Placed
    <3>3. CASE mail'[k].status = mail[k].status /\ faults' = faults + 1
      BY <1>2, <2>1, <2>2, <3>1, <3>3 DEF Placed
    <3> QED BY <1>3, <2>3, <3>2, <3>3
  <2>4. CASE k \notin ids
    <3>1. mail'[k].status = mail[k].status
      BY <1>3, <2>4
    <3>2. faults' = faults \/ faults' = faults + 1
      BY <1>3
    <3> QED BY <1>2, <2>1, <2>2, <2>4, <3>1, <3>2 DEF Placed
  <2> QED BY <2>3, <2>4
<1>8. /\ host'.inFlight \subseteq DOMAIN mail' /\ flips' \subseteq DOMAIN mail' /\ faults' \in Nat
      /\ kept \in Seq(Nat) /\ Len(kept) = Len(mail')
  BY <1>1, <1>2, <1>3, <1>4
<1>9. \A k \in DOMAIN mail' : Placed(host', mail', kept, flips', faults', exposed, {}, k)
  BY <1>3, <1>7
<1>10. Sound(host', mail', kept, flips', faults', exposed, {})
  BY <1>3, <1>4, <1>6, <1>8, <1>9 DEF Sound
<1>11. Ledger(host', {})
  BY <1>2, <1>4 DEF Ledger
<1>12. Outlived'
  <2>1. GoOn(host, host')
    BY <1>4 DEF GoOn
  <2>2. ASSUME NEW m \in Member  PROVE Shown(m)' \subseteq Shown(m)
    BY <1>1, <1>2, <1>3 DEF Shown
  <2> QED BY <1>1, <2>1, <2>2, OutlivedStays DEF Served
<1>13. NoMissedOffer'
  <2> SUFFICES ASSUME \A u \in Target : ~Busy(host, u)', task' = Ready, gone' = {}, MaxActive > 0,
                      NEW m \in Member \ overlooked', Pending(mail', m) = {}
               PROVE  m \in host'.offered
    BY DEF NoMissedOffer
  <2>0. m \in Target /\ m \notin overlooked
    BY <1>1 DEF Target
  <2>1. /\ \A u \in Target : ~Busy(host, u)
        /\ task = Ready /\ gone = {}
    BY <1>1, <1>4 DEF Busy
  <2>2. m # t
    <3>1. PICK k \in ids : k \in Shown(t)
      BY <1>1
    <3>2. m = t => host.run[m] = None /\ Shown(m) # {}
      BY <2>0, <2>1, <3>1 DEF Busy
    <3> QED BY <2>0, <3>2 DEF Served, Outlived
  <2>3. Pending(mail, m) = {}
    <3> SUFFICES ASSUME NEW k \in Ids, mail[k].to = m, mail[k].status = "pending"  PROVE FALSE
      BY DEF Pending, Ids
    <3>1. k \notin ids
      BY <1>5, <2>2
    <3>2. mail'[k].to = m /\ mail'[k].status = "pending" /\ k \in DOMAIN mail'
      BY <1>3, <3>1
    <3> QED BY <3>2 DEF Pending
  <2>4. m \in host.offered
    BY <2>0, <2>1, <2>3 DEF Served, NoMissedOffer
  <2> QED BY <1>1, <1>2, <2>4 DEF Hosts
<1> QED BY <1>1, <1>10, <1>11, <1>12, <1>13 DEF Served
(* The run of t stops, or gives way to one of the user: the mail of a run  *)
(* that never showed its input is loose, and what it showed without        *)
(* keeping it is exposed.                                                  *)
LEMMA StopKeeps ==
  ASSUME Served, NEW t \in Target, host.run[t] # None,
         NEW fa, NEW ex,
         \/ host.run[t].kept /\ fa = faults /\ ex = exposed
         \/ /\ ~host.run[t].kept /\ fa = faults + 1
            /\ ex = IF host.run[t].shown THEN exposed \cup host.run[t].ids ELSE exposed,
         NEW next \in {None, Run("user", {})}
  PROVE  LET s == [host EXCEPT !.run[t] = next]
         IN  /\ Sound(s, mail, kept, flips, fa, ex, Released(host.run[t]))
             /\ Ledger(s, IF host.run[t].kind = "user" THEN {} ELSE {t})
             /\ s.run[t] = next
<1> DEFINE r == host.run[t]
           loose == Released(r)
           leaving == IF host.run[t].kind = "user" THEN {} ELSE {t}
           s == [host EXCEPT !.run[t] = next]
<1>1. /\ mail \in Seq(Mail) /\ host \in Hosts /\ host.inFlight \subseteq Ids /\ flips \subseteq Ids
      /\ kept \in Seq(Nat) /\ Len(kept) = Len(mail) /\ faults \in Nat
      /\ \A u \in Target : RunOK(host, mail, u)
      /\ \A k \in Ids : Placed(host, mail, kept, flips, faults, exposed, {}, k)
      /\ Ledger(host, {})
  BY DEF Served, Sound, Ids
<1>2. next \in Runs \cup {None} /\ (next # None => next.ids = {} /\ ~next.kept /\ ~next.shown /\ next.kind = "user")
  <2> DEFINE run == Run("user", {})
  <2>1. run \in Runs /\ run.ids = {} /\ ~run.kept /\ ~run.shown /\ run.kind = "user"
    BY DEF Run, Runs
  <2> HIDE DEF run
  <2>2. next \in {None, run}
    BY DEF run
  <2> QED BY <2>1, <2>2
<1>3. /\ s \in Hosts /\ s.inFlight = host.inFlight /\ s.running = host.running
      /\ s.run[t] = next /\ \A u \in Target \ {t} : s.run[u] = host.run[u]
  BY <1>1, <1>2 DEF Hosts
<1>4. /\ r.kept => r.shown
      /\ r.ids \subseteq {k \in Ids : mail[k].to = t}
      /\ loose = IF r.shown THEN {} ELSE r.ids
  BY <1>1 DEF RunOK, Released, Ids
<1> HIDE DEF s, loose
<1>5. ASSUME NEW u \in Target  PROVE RunOK(s, mail, u)
  <2>1. RunOK(host, mail, u)
    BY <1>1
  <2>2. CASE u = t
    BY <1>2, <1>3, <2>2 DEF RunOK
  <2>3. CASE u # t
    BY <1>3, <2>1, <2>3 DEF RunOK
  <2> QED BY <2>2, <2>3
<1>6. fa \in Nat /\ (fa = faults \/ fa = faults + 1) /\ exposed \subseteq ex
  BY <1>1
<1>7. ASSUME NEW k \in Ids  PROVE Placed(s, mail, kept, flips, fa, ex, loose, k)
  <2>1. /\ Placed(host, mail, kept, flips, faults, exposed, {}, k) /\ mail[k].to \in Target
        /\ kept[k] \in Nat /\ kept[k] <= 1 + faults
    BY <1>1, MailFacts DEF Ids, Placed
  <2>2. CASE mail[k].to = t
    <3>1. /\ host.run[mail[k].to] = r /\ s.run[mail[k].to] = next /\ ~Carries(s, mail, k)
          /\ Carries(host, mail, k) <=> k \in r.ids
      BY <1>2, <1>3, <2>2 DEF Carries
    <3>2. mail[k].status = "delivered" \/ k \in flips => kept[k] > 0 \/ k \in ex
      BY <1>6, <2>1, <3>1 DEF Placed
    <3>3. /\ k \in s.inFlight => k \in flips \/ k \in loose
          /\ k \in flips => k \in s.inFlight /\ k \notin loose
      BY <1>3, <1>4, <2>1, <3>1 DEF Placed
    <3>4. k \in loose => k \in s.inFlight /\ kept[k] <= fa
      BY <1>3, <1>4, <1>6, <1>1, <2>1, <3>1 DEF Placed
    <3>5. mail[k].status = "pending" /\ k \notin s.inFlight => kept[k] <= fa
      BY <1>1, <1>3, <1>6, <2>1 DEF Placed
    <3>6. kept[k] <= 1 + fa
      BY <1>1, <1>6, <2>1
    <3> QED BY <2>1, <3>1, <3>2, <3>3, <3>4, <3>5, <3>6 DEF Placed
  <2>3. CASE mail[k].to # t
    <3>1. /\ s.run[mail[k].to] = host.run[mail[k].to] /\ k \notin loose
          /\ Carries(s, mail, k) <=> Carries(host, mail, k)
      BY <1>3, <1>4, <2>1, <2>3 DEF Carries
    <3> HIDE DEF r
    <3> QED BY <1>1, <1>3, <1>6, <2>1, <3>1 DEF Placed
  <2> QED BY <2>2, <2>3
<1>8. Sound(s, mail, kept, flips, fa, ex, loose)
  BY <1>1, <1>3, <1>5, <1>6, <1>7 DEF Sound, Ids
<1>9. Ledger(s, leaving)
  <2> SUFFICES ASSUME NEW u \in s.running \ leaving  PROVE s.run[u] # None /\ s.run[u].kind # "user"
    BY DEF Ledger
  <2>1. u \in Target /\ u \in host.running /\ host.run[u] # None /\ host.run[u].kind # "user"
    BY <1>1, <1>3 DEF Ledger, Hosts
  <2>2. u # t
    BY <2>1
  <2> QED BY <1>3, <2>1, <2>2
<1> QED BY <1>3, <1>8, <1>9 DEF s, loose

(* The receiver leaves the ledger and its loose mail the air. *)
LEMMA ForgetKeeps ==
  ASSUME NEW t \in Target, NEW r, NEW h, NEW box, NEW kp, NEW fl, NEW fa, NEW ex,
         Sound(h, box, kp, fl, fa, ex, Released(r)), Ledger(h, {t})
  PROVE  /\ Sound(Forgotten(t, r, h), box, kp, fl, fa, ex, {})
         /\ Ledger(Forgotten(t, r, h), {}) /\ GoOn(h, Forgotten(t, r, h))
<1> DEFINE s == Forgotten(t, r, h)
           loose == Released(r)
<1>1. s = [h EXCEPT !.running = @ \ {t}, !.inFlight = @ \ loose]
  BY DEF Forgotten
<1> HIDE DEF s, loose
<1>2. Sound(h, box, kp, fl, fa, ex, loose) /\ h \in Hosts
  BY DEF Sound, loose
<1>3. /\ s \in Hosts /\ s.run = h.run /\ s.running = h.running \ {t}
      /\ s.inFlight = h.inFlight \ loose
  BY <1>1, <1>2 DEF Hosts
<1>4. ASSUME NEW k \in DOMAIN box  PROVE Placed(s, box, kp, fl, fa, ex, {}, k)
  <2>1. Placed(h, box, kp, fl, fa, ex, loose, k)
    BY <1>2 DEF Sound
  <2>2. /\ s.run[box[k].to] = h.run[box[k].to]
        /\ Carries(s, box, k) <=> Carries(h, box, k)
        /\ k \in s.inFlight <=> k \in h.inFlight /\ k \notin loose
    BY <1>3 DEF Carries
  <2> QED BY <2>1, <2>2 DEF Placed
<1>5. \A u \in Target : RunOK(s, box, u)
  BY <1>2, <1>3 DEF Sound, RunOK
<1>6. Sound(s, box, kp, fl, fa, ex, {})
  BY <1>2, <1>3, <1>4, <1>5 DEF Sound
<1>7. Ledger(s, {}) /\ GoOn(h, s)
  BY <1>3 DEF Ledger, GoOn
<1> QED BY <1>6, <1>7 DEF s

(* A run ends, or fails: the driver goes on and the host settles it. *)
LEMMA EndServed ==
  ASSUME Served, NEW t \in Target, EndRun(t) \/ RunFails(t)  PROVE Served'
<1> DEFINE r == host.run[t]
           next == IF t \in waiting THEN Run("user", {}) ELSE None
           leaving == IF host.run[t].kind = "user" THEN {} ELSE {t}
           h0 == [host EXCEPT !.run[t] = next]
           h1 == DriverGoesOn(t, host)
<1>1. /\ r # None /\ Overlooks
      /\ waiting' = waiting \ {t} /\ host' = Settled(t, r, h1)
      /\ UNCHANGED <<mail, kept, flips, gone, task>>
      /\ \/ r.kept /\ faults' = faults /\ exposed' = exposed
         \/ /\ ~r.kept /\ faults' = faults + 1
            /\ exposed' = IF r.shown THEN exposed \cup r.ids ELSE exposed
  BY DEF EndRun, RunFails, RunEnds, Acts, Fault
<1>2. /\ Sound(h0, mail, kept, flips, faults', exposed', Released(r)) /\ Ledger(h0, leaving)
      /\ h0.run[t] = next
  BY <1>1, StopKeeps
<1>3. h1 = IF t \in waiting THEN h0 ELSE pumpIdle(h0, mail, task)
  BY DEF DriverGoesOn
<1>4. Run("user", {}) # None
  <2>1. Run("user", {}) \in Runs
    BY DEF Run, Runs
  <2> QED BY <2>1, NoneAssumption
<1> HIDE DEF h0, h1
<1>5. /\ Sound(h1, mail, kept, flips, faults', exposed', Released(r)) /\ Ledger(h1, leaving)
      /\ GoOn(h0, h1)
      /\ leaving = {} /\ t \notin waiting /\ Rest(h1, task) => Asked(h1, mail, Members)
  <2>1. CASE t \in waiting
    BY <1>2, <1>3, <2>1 DEF GoOn
  <2>2. CASE t \notin waiting
    BY <1>2, <1>3, <2>2, Pumped
  <2> QED BY <2>1, <2>2
<1>6. t \in waiting => h1.run[t] # None
  BY <1>2, <1>4, <1>5 DEF GoOn
<1>7. /\ Sound(host', mail, kept, flips, faults', exposed', {}) /\ Ledger(host', {})
      /\ GoOn(h1, host')
      /\ t \notin waiting /\ Rest(host', task) => Asked(host', mail, Members)
  <2>1. CASE r.kind = "user"
    <3>1. Released(r) = {}
      BY <1>1, <2>1 DEF Served, Sound, RunOK, Released
    <3>2. host' = h1 /\ leaving = {}
      BY <1>1, <2>1 DEF Settled
    <3> QED BY <1>5, <3>1, <3>2 DEF GoOn
  <2>2. CASE r.kind # "user"
    <3> DEFINE h2 == Forgotten(t, r, h1)
    <3>1. Sound(h2, mail, kept, flips, faults', exposed', {}) /\ Ledger(h2, {}) /\ GoOn(h1, h2)
      BY <1>5, <2>2, ForgetKeeps
    <3>2. host' = pumpIdle(h2, mail, task)
      BY <1>1, <2>2 DEF Settled
    <3> HIDE DEF h2
    <3>3. /\ Sound(host', mail, kept, flips, faults', exposed', {}) /\ Ledger(host', {})
          /\ GoOn(h2, host') /\ (Rest(host', task) => Asked(host', mail, Members))
      BY <3>1, <3>2, Pumped
    <3> QED BY <3>1, <3>3 DEF GoOn
  <2> QED BY <2>1, <2>2
<1>8. NoMissedOffer'
  <2> SUFFICES ASSUME \A u \in Target : ~Busy(host, u)', task' = Ready, gone' = {}, MaxActive > 0,
                      NEW m \in Member \ overlooked', Pending(mail', m) = {}
               PROVE  m \in host'.offered
    BY DEF NoMissedOffer
  <2>1. \A u \in Target : host'.run[u] = None /\ u \notin waiting'
    BY DEF Busy
  <2>2. t \notin waiting
    BY <1>6, <1>7, <2>1 DEF GoOn
  <2>3. \A u \in Target : u \notin waiting
    BY <1>1, <2>1, <2>2
  <2>4. Rest(host', task)
    BY <1>1, <2>1, <2>3 DEF Rest
  <2>5. m \in 1 .. Members /\ Pending(mail, m) = {}
    BY <1>1 DEF Member
  <2> QED BY <1>7, <2>2, <2>4, <2>5 DEF Asked
<1>9. Outlived'
  BY <1>1, OutlivedAnew
<1> QED BY <1>1, <1>7, <1>8, <1>9 DEF Served
(* The board changes: a new situation for everybody. *)
LEMMA BoardServed ==
  ASSUME Served, NEW t \in Target, Acts(t), NEW board, BoardBecomes(board)  PROVE Served'
<1> DEFINE g == Anew(host)
           none == {}
<1>1. /\ host' = pumpIdle(g, mail, board) /\ host.run[t] # None
      /\ Overlooks /\ UNCHANGED <<mail, kept, flips, faults, exposed>>
  BY DEF BoardBecomes, Acts
<1>2. Sound(g, mail, kept, flips, faults, exposed, {}) /\ Ledger(g, {}) /\ GoOn(host, g)
  <2>1. none \in SUBSET Member /\ g = [host EXCEPT !.offered = none]
    BY DEF Anew
  <2> HIDE DEF g, none
  <2> QED BY <2>1, OffersAside DEF Served
<1> HIDE DEF g
<1>3. /\ Sound(host', mail, kept, flips, faults, exposed, {}) /\ Ledger(host', {}) /\ GoOn(g, host')
  BY <1>1, <1>2, Pumped
<1>4. host'.run[t] # None
  BY <1>1, <1>2, <1>3 DEF GoOn
<1> QED BY <1>1, <1>3, <1>4, OutlivedAnew, BusyMissesNothing DEF Served

(* No flip of a message under way is of one just sent. *)
LEMMA SentIsNotShown ==
  ASSUME NEW h, Sound(host, mail, kept, flips, faults, exposed, {}), NEW t \in Target, Enqueued(t, h)
  PROVE  \A k \in flips : mail'[k] = mail[k]
<1>1. /\ mail' = Append(mail, [to |-> t, status |-> "pending"])
      /\ mail \in Seq(Mail) /\ flips \subseteq DOMAIN mail
  BY DEF Enqueued, Sound
<1> QED BY <1>1

(* Messages, from the team or from the user. *)
LEMMA SendServed ==
  ASSUME Served, NEW from \in Target, NEW to \in Target, SendMessage(from, to)  PROVE Served'
<1>1. /\ host.run[from] # None /\ Enqueued(to, host)
      /\ UNCHANGED <<flips, faults, exposed, overlooked>>
  BY DEF SendMessage, Acts
<1>2. /\ Sound(host', mail', kept', flips, faults, exposed, {}) /\ Ledger(host', {})
      /\ GoOn(host, host')
  BY <1>1, EnqueuedKeeps DEF Served
<1>3. host'.run[from] # None
  BY <1>1, <1>2 DEF GoOn
<1>4. Outlived'
  <2>1. ASSUME NEW m \in Member  PROVE Shown(m)' \subseteq Shown(m)
    BY <1>1, SentIsNotShown DEF Served, Shown
  <2> QED BY <1>1, <1>2, <2>1, OutlivedStays DEF Served
<1> QED BY <1>1, <1>2, <1>3, <1>4, BusyMissesNothing DEF Served

LEMMA UserTellsServed ==
  ASSUME Served, NEW m \in Member, DeliverUserToMember(m)  PROVE Served'
<1> DEFINE r == host.run[Lead]
           taken == r # None /\ r.kind = "mail" /\ ~r.shown
           h == IF taken THEN [host EXCEPT !.run[Lead].shown = TRUE] ELSE host
<1>0. m \in Target /\ Lead \in Target /\ m # Lead
  BY TeamMailAssumption DEF Target, Lead, Member
<1>1. /\ Enqueued(m, h) /\ flips' = (IF taken THEN flips \cup r.ids ELSE flips)
      /\ UNCHANGED <<waiting, gone, task, faults, exposed, overlooked>>
  BY DEF DeliverUserToMember
<1>2. Sound(h, mail, kept, flips', faults, exposed, {}) /\ Ledger(h, {}) /\ GoOn(host, h)
  <2>1. CASE taken
    BY <1>0, <1>1, <2>1, ShowKeeps DEF Served
  <2>2. CASE ~taken
    BY <1>1, <2>2 DEF Served, GoOn
  <2> QED BY <2>1, <2>2
<1>3. (\A t \in Target : host.run[t] = None) => h = host
  BY <1>0
<1> HIDE DEF h
<1>4. /\ Sound(host', mail', kept', flips', faults, exposed, {}) /\ Ledger(host', {})
      /\ GoOn(h, host')
      /\ Rest(h, Ready) => host'.run[m] # None
  BY <1>0, <1>1, <1>2, EnqueuedKeeps
<1>5. NoMissedOffer'
  <2> SUFFICES ASSUME \A t \in Target : ~Busy(host, t)', gone' = {}, MaxActive > 0  PROVE FALSE
    BY DEF NoMissedOffer
  <2>1. \A t \in Target : host'.run[t] = None /\ t \notin waiting
    BY <1>1 DEF Busy
  <2>2. \A t \in Target : host.run[t] = None
    BY <1>2, <1>4, <2>1 DEF GoOn
  <2>3. Rest(h, Ready)
    BY <1>1, <1>3, <2>1, <2>2 DEF Rest
  <2> QED BY <1>0, <1>4, <2>1, <2>3
<1>6. Outlived'
  <2>1. GoOn(host, host')
    BY <1>2, <1>4 DEF GoOn
  <2>2. ASSUME NEW u \in Member, NEW k \in Shown(u)'  PROVE k \in Shown(u)
    <3>1. k \in flips' /\ mail'[k].to = u /\ u # Lead
      BY <2>2 DEF Shown, Member, Lead
    <3>2. k \in Ids /\ mail'[k] = mail[k]
      <4>1. /\ mail' = Append(mail, [to |-> m, status |-> "pending"])
            /\ mail \in Seq(Mail) /\ flips' \subseteq DOMAIN mail
        BY <1>1, <1>2 DEF Enqueued, Sound
      <4> QED BY <3>1, <4>1 DEF Ids
    <3>3. taken => \A j \in r.ids : mail[j].to = Lead
      BY <1>0 DEF Served, Sound, RunOK
    <3>4. k \in flips
      BY <1>1, <3>1, <3>2, <3>3
    <3> QED BY <3>1, <3>2, <3>4 DEF Shown
  <2> QED BY <1>1, <2>1, <2>2, OutlivedStays DEF Served
<1> QED BY <1>1, <1>4, <1>5, <1>6 DEF Served

(* The user writes to a session. *)
LEMMA InputServed ==
  ASSUME Served, NEW t \in Target, UserInput(t)  PROVE Served'
<1> DEFINE run == Run("user", {})
<1>1. run \in Runs /\ run # None /\ run.ids = {} /\ run.kept = FALSE /\ run.shown = FALSE
  <2>1. run \in Runs
    BY DEF Run, Runs
  <2> QED BY <2>1, NoneAssumption DEF Run
<1>2. /\ UNCHANGED <<mail, kept, flips, faults, exposed, overlooked>>
      /\ \/ host.run[t] = None /\ host' = [host EXCEPT !.run[t] = run]
         \/ host.run[t] # None /\ host' = host
  BY DEF UserInput
<1> HIDE DEF run
<1>3. CASE host.run[t] # None /\ host' = host
  <2>1. Outlived'
    BY <1>2, <1>3 DEF Served, Outlived, Shown
  <2> QED BY <1>2, <1>3, <2>1, BusyMissesNothing DEF Served
<1>4. CASE host.run[t] = None /\ host' = [host EXCEPT !.run[t] = run]
  <2>1. /\ mail \in Seq(Mail) /\ host \in Hosts
        /\ \A u \in Target : RunOK(host, mail, u)
        /\ \A k \in Ids : Placed(host, mail, kept, flips, faults, exposed, {}, k)
        /\ Ledger(host, {})
    BY DEF Served, Sound, Ids
  <2>2. /\ host' \in Hosts /\ host'.inFlight = host.inFlight /\ host'.running = host.running
        /\ host'.run[t] = run /\ \A u \in Target \ {t} : host'.run[u] = host.run[u]
    BY <1>1, <1>4, <2>1 DEF Hosts
  <2>3. ASSUME NEW u \in Target  PROVE RunOK(host', mail, u)
    BY <1>1, <2>1, <2>2 DEF RunOK
  <2>4. ASSUME NEW k \in Ids  PROVE Placed(host', mail, kept, flips, faults, exposed, {}, k)
    <3>1. Placed(host, mail, kept, flips, faults, exposed, {}, k) /\ mail[k].to \in Target
      BY <2>1, MailFacts DEF Ids
    <3>2. CASE mail[k].to = t
      <4>1. host'.run[mail[k].to] = run /\ host.run[mail[k].to] = None
        BY <1>4, <2>2, <3>2
      <4> QED BY <1>1, <2>2, <3>1, <4>1 DEF Placed, Carries
    <3>3. CASE mail[k].to # t
      <4>1. host'.run[mail[k].to] = host.run[mail[k].to]
        BY <2>2, <3>1, <3>3
      <4> QED BY <2>2, <3>1, <4>1 DEF Placed, Carries
    <3> QED BY <3>2, <3>3
  <2>5. Sound(host', mail, kept, flips, faults, exposed, {})
    BY <2>2, <2>3, <2>4 DEF Served, Sound, Ids
  <2>6. Ledger(host', {})
    <3>1. host.running \subseteq Target
      BY <2>1 DEF Hosts
    <3> QED BY <1>4, <2>1, <2>2, <3>1 DEF Ledger
  <2>7. NoMissedOffer'
    BY <1>1, <2>2, BusyMissesNothing
  <2>8. Outlived'
    <3>1. GoOn(host, host')
      BY <1>4, <2>2 DEF GoOn
    <3>2. ASSUME NEW m \in Member  PROVE Shown(m)' \subseteq Shown(m)
      BY <1>2 DEF Shown
    <3> QED BY <1>2, <3>1, <3>2, OutlivedStays DEF Served
  <2> QED BY <1>2, <2>5, <2>6, <2>7, <2>8 DEF Served
<1> QED BY <1>2, <1>3, <1>4

(* The daemon dies and starts again. *)
LEMMA RestartServed ==
  ASSUME Served, Restart  PROVE Served'
<1> DEFINE run == Run("user", {})
<1>1. run \in Runs /\ run # None /\ run.ids = {} /\ run.kept = FALSE /\ run.shown = FALSE
  <2>1. run \in Runs
    BY DEF Run, Runs
  <2> QED BY <2>1, NoneAssumption DEF Run
<1>2. /\ host' = [ run |-> [t \in Target |-> IF t \in waiting THEN run ELSE None],
                   running |-> {}, inFlight |-> {}, offered |-> {} ]
      /\ flips' = {} /\ overlooked' = Member /\ faults' = faults + 1
      /\ exposed' = exposed \cup
           { k \in Ids : \E t \in Target : host.run[t] # None /\ ~host.run[t].kept
                                           /\ host.run[t].shown /\ k \in host.run[t].ids }
      /\ UNCHANGED <<mail, kept>>
  BY DEF Restart, Fault
<1> HIDE DEF run
<1>3. /\ mail \in Seq(Mail) /\ kept \in Seq(Nat) /\ Len(kept) = Len(mail) /\ faults \in Nat
      /\ \A k \in Ids : Placed(host, mail, kept, flips, faults, exposed, {}, k) /\ mail[k].to \in Target
  BY MailFacts DEF Served, Sound, Ids
<1>4. /\ host' \in Hosts /\ host'.inFlight = {} /\ host'.running = {}
      /\ \A t \in Target : host'.run[t] \in {run, None}
  BY <1>1, <1>2 DEF Hosts
<1>5. ASSUME NEW t \in Target  PROVE RunOK(host', mail, t)
  BY <1>1, <1>4 DEF RunOK
<1>6. ASSUME NEW k \in Ids  PROVE Placed(host', mail, kept, {}, faults', exposed', {}, k)
  <2>1. Placed(host, mail, kept, flips, faults, exposed, {}, k) /\ mail[k].to \in Target
    BY <1>3
  <2>2. ~Carries(host', mail, k)
    BY <1>1, <1>4, <2>1 DEF Carries
  <2>3. kept[k] \in Nat /\ kept[k] <= faults'
    BY <1>2, <1>3, <2>1 DEF Placed
  <2>4. mail[k].status = "delivered" => kept[k] > 0 \/ k \in exposed'
    BY <1>2, <2>1 DEF Placed, Carries
  <2>5. faults' \in Nat /\ kept[k] <= 1 + faults'
    BY <1>2, <1>3, <2>3
  <2> QED BY <1>4, <2>2, <2>3, <2>4, <2>5 DEF Placed
<1>7. Sound(host', mail, kept, {}, faults', exposed', {})
  <2>1. faults' \in Nat /\ host'.inFlight \subseteq Ids /\ {} \subseteq Ids
    BY <1>2, <1>3, <1>4
  <2> QED BY <1>3, <1>4, <1>5, <1>6, <2>1 DEF Sound, Ids
<1>8. Ledger(host', {}) /\ NoMissedOffer' /\ Outlived'
  BY <1>2, <1>4 DEF Ledger, NoMissedOffer, Outlived
<1> QED BY <1>2, <1>7, <1>8 DEF Served

(* Every step keeps every message where it can be and misses no offer.     *)
LEMMA ServedStep == Served /\ [Next]_vars => Served'
<1> SUFFICES ASSUME Served, [Next]_vars  PROVE Served'
  OBVIOUS
<1>0. Member \subseteq Target
  BY DEF Target
<1>1. ASSUME NEW t \in Target, Show(t)  PROVE Served'
  <2> DEFINE s == [host EXCEPT !.run[t].shown = TRUE]
  <2>1. /\ host.run[t] # None /\ ~host.run[t].shown /\ host' = s
        /\ flips' = flips \cup host.run[t].ids
        /\ UNCHANGED <<mail, kept, waiting, gone, task, spent, faults, exposed, overlooked>>
    BY <1>1 DEF Show
  <2>2. Sound(s, mail, kept, flips', faults, exposed, {}) /\ Ledger(s, {}) /\ GoOn(host, s)
    BY <2>1, ShowKeeps DEF Served
  <2> HIDE DEF s
  <2>3. host'.run[t] # None
    BY <2>1, <2>2 DEF GoOn
  <2>4. Outlived'
    <3>1. \A k \in host.run[t].ids : mail[k].to = t
      BY <2>1 DEF Served, Sound, RunOK
    <3>2. ASSUME NEW m \in Member, host.run[m] = None  PROVE Shown(m)' \subseteq Shown(m)
      BY <2>1, <3>1, <3>2 DEF Shown
    <3> QED BY <2>1, <2>2, <3>2, OutlivedStays DEF Served
  <2> QED BY <2>1, <2>2, <2>3, <2>4, BusyMissesNothing DEF Served
<1>2. ASSUME NEW t \in Target, RunGoesOn(t)  PROVE Served'
  BY <1>1, <1>2, KeepServed, FlipServed, EndServed DEF RunGoesOn
<1>3. ASSUME NEW t \in Target, UserInput(t) \/ FlipFails(t) \/ RunFails(t)  PROVE Served'
  BY <1>3, InputServed, FlipServed, EndServed
<1>4. ASSUME NEW t \in Target, LoseSession(t)  PROVE Served'
  <2>1. /\ faults' = faults + 1 /\ gone' # {}
        /\ UNCHANGED <<mail, kept, host, flips, exposed, overlooked>>
    BY <1>4 DEF LoseSession, Fault
  <2>2. faults \in Nat /\ faults' \in Nat
    BY <2>1 DEF Served, Sound
  <2>3. ASSUME NEW k \in Ids  PROVE Placed(host, mail, kept, flips, faults', exposed, {}, k)
    <3>1. Placed(host, mail, kept, flips, faults, exposed, {}, k)
      BY DEF Served, Sound, Ids
    <3> QED BY <2>1, <2>2, <3>1 DEF Placed
  <2>4. Sound(host, mail, kept, flips, faults', exposed, {})
    BY <2>2, <2>3 DEF Served, Sound, Ids
  <2> QED BY <2>1, <2>4 DEF Served, NoMissedOffer, Outlived, Shown
<1>5. ASSUME NEW t \in Target, CreateTask(t) \/ ClaimTask(t) \/ CompleteTask(t)  PROVE Served'
  BY <1>5, BoardServed DEF CreateTask, ClaimTask, CompleteTask
<1>6. CASE UNCHANGED vars
  BY <1>6 DEF vars, Served, NoMissedOffer, Busy, Pending, Outlived, Shown
<1> QED BY <1>0, <1>2, <1>3, <1>4, <1>5, <1>6, SendServed, UserTellsServed, RestartServed DEF Next
-----------------------------------------------------------------------------
LEMMA AlwaysServed == Spec => []Served
<1>1. Init => Served
  <2> SUFFICES ASSUME Init  PROVE Served
    OBVIOUS
  <2> DEFINE run == [Run("user", {}) EXCEPT !.shown = TRUE, !.kept = TRUE]
  <2>1. run \in Runs /\ run # None /\ run.shown /\ run.ids = {}
    <3>1. run \in Runs
      BY DEF Run, Runs
    <3> QED BY <3>1, NoneAssumption DEF Run
  <2>2. /\ mail = <<>> /\ kept = <<>> /\ flips = {} /\ faults = 0 /\ exposed = {}
        /\ host = [ run |-> [t \in Target |-> IF t = Lead THEN run ELSE None],
                    running |-> {}, inFlight |-> {}, offered |-> {} ]
    BY DEF Init
  <2> HIDE DEF run
  <2>3. /\ host \in Hosts /\ host.inFlight = {} /\ host.running = {}
        /\ \A t \in Target : host.run[t] \in {run, None}
        /\ host.run[Lead] = run /\ Lead \in Target
    BY <2>1, <2>2 DEF Hosts, Target
  <2>4. \A t \in Target : RunOK(host, mail, t)
    BY <2>1, <2>3 DEF RunOK
  <2>5. Sound(host, mail, kept, flips, faults, exposed, {})
    BY <2>2, <2>3, <2>4 DEF Sound
  <2>6. Ledger(host, {})
    BY <2>3 DEF Ledger
  <2>7. NoMissedOffer
    BY <2>1, <2>3 DEF NoMissedOffer, Busy
  <2>8. Outlived
    BY <2>2 DEF Outlived, Shown
  <2> QED BY <2>5, <2>6, <2>7, <2>8 DEF Served
<1> QED BY <1>1, ServedStep, PTL DEF Spec

(* A message of the team that the store calls delivered is in its          *)
(* receiver's history or in the live run that appends it, unless that run  *)
(* died between showing its input and appending it.                        *)
THEOREM NoMailIsLost == Spec => []MailIsKept
<1>1. Served => MailIsKept
  <2> SUFFICES ASSUME Served, NEW k \in Ids, mail[k].status = "delivered"
               PROVE  kept[k] > 0 \/ InRun(k) \/ k \in exposed
    BY DEF MailIsKept
  <2>1. Placed(host, mail, kept, flips, faults, exposed, {}, k) /\ mail[k].to \in Target
    BY MailFacts DEF Served, Sound, Ids
  <2> QED BY <2>1 DEF Placed, Carries, InRun
<1> QED BY <1>1, AlwaysServed, PTL

(* A message reaches its receiver's history at most once, and once more    *)
(* for each failure or crash.                                              *)
THEOREM MailComesOnce == Spec => []TwiceOnlyAfterFault
<1>1. Served => TwiceOnlyAfterFault
  BY DEF Served, Sound, Ids, Placed, TwiceOnlyAfterFault
<1> QED BY <1>1, AlwaysServed, PTL

(* What is in flight is in a live run that will land or release it, or its *)
(* flip is under way.                                                      *)
THEOREM NoMailIsPinned == Spec => []NothingIsPinned
<1>1. Served => NothingIsPinned
  <2> SUFFICES ASSUME Served, NEW k \in host.inFlight  PROVE InRun(k) \/ k \in flips
    BY DEF NothingIsPinned
  <2>1. k \in Ids
    BY DEF Served, Sound, Ids
  <2>2. Placed(host, mail, kept, flips, faults, exposed, {}, k) /\ mail[k].to \in Target
    BY <2>1, MailFacts DEF Served, Sound, Ids
  <2> QED BY <2>2 DEF Placed, Carries, InRun
<1> QED BY <1>1, AlwaysServed, PTL

(* A team at rest has asked everybody who is free about the ready task, if *)
(* the last pump saw all flips made.                                       *)
THEOREM NoOfferIsMissed == Spec => []NoMissedOffer
BY AlwaysServed, PTL DEF Served
=============================================================================
