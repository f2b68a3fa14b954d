------------------------------ MODULE TeamMail ------------------------------
(* The team host (server/src/team.ts): mail between the lead and the       *)
(* members, and offers of ready tasks, as runs of the receiver's session.  *)
(* Around it, as far as the host sees them: the inbox files of TeamStore,  *)
(* the sessions' drivers (RunQueue has them in full), the point at which a *)
(* run shows its input (message.created) and the point at which it appends *)
(* it to the history, and a board of one task at a time (TaskBoard).       *)
(*                                                                         *)
(* What happens in one turn of the event loop is one action: when a run    *)
(* ends, the driver's idle hook pumps first, and the continuation of the   *)
(* dispatch's outcome strikes the run from the ledger and pumps again.     *)
EXTENDS Integers, Sequences, FiniteSets

CONSTANTS Members,    \* number of members; member m is the m-th of the roster
          MaxActive,  \* team.maxActive
          MaxUnread,  \* team.mailbox.maxUnreadPerTarget
          None, Ready,
          MaxMails,   \* bound: messages sent
          MaxInputs,  \* bound: messages of the user to a session
          MaxTasks,   \* bound: tasks created
          MaxFaults   \* bound: crashes, failed writes, failed runs, lost sessions

ASSUME TeamMailAssumption ==
  {Members, MaxActive, MaxUnread, MaxMails, MaxInputs, MaxTasks, MaxFaults} \subseteq Nat

Lead   == 0
Member == 1 .. Members
Target == {Lead} \cup Member

VARIABLES
  mail,      \* the inbox files: all messages, in the order they were sent
  kept,      \* per message, how many times it was appended to a history
  host,      \* the state of the host and the sessions' live runs
  flips,     \* messages shown to their target, flip to delivered under way
  waiting,   \* the sessions whose queue holds a message of the user
  gone,      \* the sessions that refuse every submission
  task,      \* the board: None, Ready, or the member that executes it
  spent,     \* bounds used up: inputs, tasks
  faults,
  exposed,   \* ghost: flipped messages whose run died before its append
  overlooked \* ghost: to whom a flip was under way when the host last pumped

vars == <<mail, kept, host, flips, waiting, gone, task, spent, faults, exposed, overlooked>>

Ids == DOMAIN mail

(* A live run: of the user, of a task offer or nudge, or carrying mail.    *)
(* shown: its land watcher saw message.created; kept: the input is in the  *)
(* history.                                                                *)
Runs == [kind : {"user", "mail", "offer"}, ids : SUBSET Nat, shown : BOOLEAN, kept : BOOLEAN]
Run(kind, ids) == [kind |-> kind, ids |-> ids, shown |-> FALSE, kept |-> FALSE]

ASSUME NoneAssumption == None \notin Runs

(* The user's run in which the lead has just set up the team. *)
Init ==
  /\ mail = <<>> /\ kept = <<>>
  /\ host = [ run |-> [t \in Target |-> IF t = Lead THEN [Run("user", {}) EXCEPT !.shown = TRUE, !.kept = TRUE]
                                       ELSE None],
             running |-> {}, inFlight |-> {}, offered |-> {} ]
  /\ flips = {} /\ waiting = {} /\ gone = {}
  /\ task = None
  /\ spent = [inputs |-> 0, tasks |-> 0]
  /\ faults = 0 /\ exposed = {} /\ overlooked = {}
-----------------------------------------------------------------------------
\* pendingInbox, of the inbox files box.
Pending(box, t) == {k \in DOMAIN box : box[k].to = t /\ box[k].status = "pending"}

Busy(h, t) == h.run[t] # None \/ t \in waiting

\* startRun: submit takes the input of an idle session as a run of its own,
\* or throws and the host forgets the attempt.
startRun(h, t, kind, ids) ==
  IF t \in gone
  THEN [h EXCEPT !.running = @ \ {t}, !.inFlight = @ \ ids]
  ELSE [h EXCEPT !.running = @ \cup {t}, !.inFlight = @ \cup ids, !.run[t] = Run(kind, ids)]

runningMembers(h) == Cardinality(h.running \cap Member)

Fresh(h, box, t) == Pending(box, t) \ h.inFlight

HasNews(ids) == ids # {}

deliverPendingMail(h, box, m) ==
  IF runningMembers(h) >= MaxActive \/ Busy(h, m) \/ ~HasNews(Fresh(h, box, m)) THEN h
  ELSE startRun(h, m, "mail", Fresh(h, box, m))

flushLeadInbox(h, box) ==
  IF Busy(h, Lead) \/ ~HasNews(Fresh(h, box, Lead)) THEN h
  ELSE startRun(h, Lead, "mail", Fresh(h, box, Lead))

\* Does m get the ready task, or a nudge about the one it executes?  Once per
\* state of board and mail.
Offerable(h, board, m) == board \in {Ready, m} /\ m \notin h.offered

\* One member's turn in the loop of pumpIdle; over: the loop returned.
Visit(box, board, m, acc) ==
  IF acc.over \/ runningMembers(acc.h) >= MaxActive THEN [acc EXCEPT !.over = TRUE]
  ELSE IF Busy(acc.h, m) THEN acc
  ELSE IF Pending(box, m) # {} THEN [acc EXCEPT !.h = deliverPendingMail(@, box, m)]
  ELSE IF Offerable(acc.h, board, m)
       THEN [h |-> startRun([acc.h EXCEPT !.offered = @ \cup {m}], m, "offer", {}), over |-> TRUE]
  ELSE acc

\* The lead's inbox first, then the roster in its order.
pumpIdle(h, box, board) ==
  LET after[m \in 0 .. Members] ==
        IF m = 0 THEN [h |-> flushLeadInbox(h, box), over |-> FALSE]
        ELSE Visit(box, board, m, after[m - 1])
  IN after[Members].h

\* A new situation: mail and changes of the board bump offerEpoch.
Anew(h) == [h EXCEPT !.offered = {}]
-----------------------------------------------------------------------------
\* A run that acts on the team: its input is in its history.
Acts(t) == host.run[t] # None /\ host.run[t].kept

\* enqueueMail, and the wake of its receiver alone.
Enqueued(t, h) ==
  /\ Len(mail) < MaxMails
  /\ Cardinality(Pending(mail, t)) < MaxUnread
  /\ mail' = Append(mail, [to |-> t, status |-> "pending"])
  /\ kept' = Append(kept, 0)
  /\ host' = IF t = Lead THEN flushLeadInbox(Anew(h), mail') ELSE deliverPendingMail(Anew(h), mail', t)

SendMessage(from, to) ==
  /\ Acts(from) /\ from # to
  /\ Enqueued(to, host)
  /\ UNCHANGED <<flips, waiting, gone, task, spent, faults, exposed, overlooked>>

\* deliverUserToMember: what the user tells a member appears in the lead's
\* history too, and a run of the lead that is being assembled takes this
\* message.created for its own.
DeliverUserToMember(m) ==
  LET r     == host.run[Lead]
      taken == r # None /\ r.kind = "mail" /\ ~r.shown
  IN
  /\ spent.inputs < MaxInputs /\ spent' = [spent EXCEPT !.inputs = @ + 1]
  /\ Enqueued(m, IF taken THEN [host EXCEPT !.run[Lead].shown = TRUE] ELSE host)
  /\ flips' = IF taken THEN flips \cup r.ids ELSE flips
  /\ UNCHANGED <<waiting, gone, task, faults, exposed, overlooked>>

\* The user writes to a session: a run, or an entry in the queue of a busy one.
UserInput(t) ==
  /\ spent.inputs < MaxInputs /\ t \notin gone /\ t \notin waiting
  /\ spent' = [spent EXCEPT !.inputs = @ + 1]
  /\ IF host.run[t] = None
     THEN host' = [host EXCEPT !.run[t] = Run("user", {})] /\ UNCHANGED waiting
     ELSE waiting' = waiting \cup {t} /\ UNCHANGED host
  /\ UNCHANGED <<mail, kept, flips, gone, task, faults, exposed, overlooked>>

\* message.created: the land watcher sends the flip on its way.
Show(t) ==
  /\ host.run[t] # None /\ ~host.run[t].shown
  /\ host' = [host EXCEPT !.run[t].shown = TRUE]
  /\ flips' = flips \cup host.run[t].ids
  /\ UNCHANGED <<mail, kept, waiting, gone, task, spent, faults, exposed, overlooked>>

\* The run-before hook appends the input to the history.
Keep(t) ==
  /\ host.run[t] # None /\ host.run[t].shown /\ ~host.run[t].kept
  /\ host' = [host EXCEPT !.run[t].kept = TRUE]
  /\ kept' = [k \in Ids |-> IF k \in host.run[t].ids THEN kept[k] + 1 ELSE kept[k]]
  /\ UNCHANGED <<mail, flips, waiting, gone, task, spent, faults, exposed, overlooked>>

\* flipDelivered: which of the batch are marked.
\* Faulty: the first of them; or all that the inbox holds by now.
MarkedFirst(t, ids) == {k \in ids : \A j \in ids : k <= j}
MarkedInbox(t, ids) == Pending(mail, t)
Marked(t, ids) == ids

\* Mail to t whose flip is under way.  The watcher does not wait for it: the
\* run may be over by then, and the next one may have shown its mail.
Shown(t) == {k \in flips : mail[k].to = t}

\* markDeliveredMany of a batch, then the release of what was in flight.  Any
\* part of what is under way may be the batch.
Flip(t) == \E ids \in SUBSET Shown(t) :
  /\ ids # {}
  /\ mail' = [k \in Ids |-> IF k \in Marked(t, ids) THEN [mail[k] EXCEPT !.status = "delivered"] ELSE mail[k]]
  /\ flips' = flips \ ids
  /\ host' = [host EXCEPT !.inFlight = @ \ ids]
  /\ UNCHANGED <<kept, waiting, gone, task, spent, faults, exposed, overlooked>>

Fault == faults < MaxFaults /\ faults' = faults + 1

FlipFails(t) == \E ids \in SUBSET Shown(t) :
  /\ ids # {} /\ Fault
  /\ flips' = flips \ ids
  /\ host' = [host EXCEPT !.inFlight = @ \ ids]
  /\ UNCHANGED <<mail, kept, waiting, gone, task, spent, exposed, overlooked>>

\* Mail whose flip is under way is unread still, and nothing fresh: pumpIdle
\* passes its receiver over, and no flip pumps.
Overlooks == overlooked' = {m \in Member : Shown(m) # {}}

\* The driver after a run of t: the next entry of the queue, or the idle hook.
DriverGoesOn(t, h) ==
  IF t \in waiting THEN [h EXCEPT !.run[t] = Run("user", {})]
  ELSE pumpIdle([h EXCEPT !.run[t] = None], mail, task)

\* The continuation of a dispatch's outcome: mail that did not land is
\* released, the receiver leaves the ledger, and the host pumps.
\* Faulty: it stays in flight.
ReleasedNothing(r) == {}
Released(r) == IF r.shown THEN {} ELSE r.ids

Forgotten(t, r, h) == [h EXCEPT !.running = @ \ {t}, !.inFlight = @ \ Released(r)]

\* Faulty: without the pump.
SettledQuietly(t, r, h) == IF r.kind = "user" THEN h ELSE Forgotten(t, r, h)
Settled(t, r, h) == IF r.kind = "user" THEN h ELSE pumpIdle(Forgotten(t, r, h), mail, task)

RunEnds(t) ==
  /\ waiting' = waiting \ {t}
  /\ \E h \in {DriverGoesOn(t, host)} : host' = Settled(t, host.run[t], h)
  /\ Overlooks

EndRun(t) ==
  /\ Acts(t) /\ RunEnds(t)
  /\ UNCHANGED <<mail, kept, flips, gone, task, spent, faults, exposed>>

\* A run that fails before its input is in the history.
RunFails(t) ==
  /\ host.run[t] # None /\ ~host.run[t].kept /\ Fault /\ RunEnds(t)
  /\ exposed' = IF host.run[t].shown THEN exposed \cup host.run[t].ids ELSE exposed
  /\ UNCHANGED <<mail, kept, flips, gone, task, spent>>

\* A session goes away: every submission throws from now on.
LoseSession(t) ==
  /\ Fault /\ host.run[t] = None /\ t \notin gone
  /\ gone' = gone \cup {t}
  /\ UNCHANGED <<mail, kept, host, flips, waiting, task, spent, exposed, overlooked>>

\* The daemon dies and starts again: the files stay, recoverQueues drives the
\* queues that hold something, and nothing pumps yet.
Restart ==
  /\ Fault
  /\ host' = [ run |-> [t \in Target |-> IF t \in waiting THEN Run("user", {}) ELSE None],
               running |-> {}, inFlight |-> {}, offered |-> {} ]
  /\ flips' = {} /\ waiting' = {} /\ overlooked' = Member
  /\ exposed' = exposed \cup
       { k \in Ids : \E t \in Target : host.run[t] # None /\ ~host.run[t].kept
                                       /\ host.run[t].shown /\ k \in host.run[t].ids }
  /\ UNCHANGED <<mail, kept, gone, task, spent>>
-----------------------------------------------------------------------------
\* The board, as the facade changes it: a new situation, and a pump.
BoardBecomes(board) ==
  /\ task' = board
  /\ host' = pumpIdle(Anew(host), mail, board)
  /\ Overlooks
  /\ UNCHANGED <<mail, kept, flips, waiting, gone, faults, exposed>>

CreateTask(t) ==
  /\ Acts(t) /\ task = None /\ spent.tasks < MaxTasks
  /\ spent' = [spent EXCEPT !.tasks = @ + 1]
  /\ BoardBecomes(Ready)

ClaimTask(m)    == Acts(m) /\ task = Ready /\ BoardBecomes(m) /\ UNCHANGED spent
CompleteTask(m) == Acts(m) /\ task = m /\ BoardBecomes(None) /\ UNCHANGED spent

(* What has begun in t's session goes on: a run is assembled, shows its    *)
(* input, appends it, works and ends; beside it, flips are made.           *)
RunGoesOn(t) == Show(t) \/ Keep(t) \/ Flip(t) \/ EndRun(t)

Next ==
  \/ \E t \in Target :
       \/ RunGoesOn(t)
       \/ UserInput(t) \/ CreateTask(t)
       \/ FlipFails(t) \/ RunFails(t) \/ LoseSession(t)
       \/ \E to \in Target : SendMessage(t, to)
  \/ \E m \in Member : DeliverUserToMember(m) \/ ClaimTask(m) \/ CompleteTask(m)
  \/ Restart

Spec == Init /\ [][Next]_vars

Progress == \A t \in Target : WF_vars(RunGoesOn(t))

LiveSpec == Spec /\ Progress
-----------------------------------------------------------------------------
InRun(k) == \E t \in Target : host.run[t] # None /\ k \in host.run[t].ids

(* A message counts as delivered only when it is in the receiver's history *)
(* or in the live run that appends it, unless that run died between        *)
(* showing its input and appending it.                                     *)
MailIsKept == \A k \in Ids : mail[k].status = "delivered" => kept[k] > 0 \/ InRun(k) \/ k \in exposed

(* A message is delivered a second time only after a crash or a failure:   *)
(* one for each extra time.                                                *)
TwiceOnlyAfterFault == \A k \in Ids : kept[k] <= 1 + faults

(* What is in flight is in a live run that will land or release it, or its *)
(* flip is under way: nothing stays pinned.                                *)
NothingIsPinned == \A k \in host.inFlight : InRun(k) \/ k \in flips

(* When everything has come to rest, every member free to take the ready   *)
(* task has been offered it since the board and the mail last changed; but *)
(* for a member whose flip was still under way when the last run ended, or *)
(* everybody if none has ended since the daemon started.                   *)
NoMissedOffer ==
  /\ \A t \in Target : ~Busy(host, t)
  /\ task = Ready /\ gone = {} /\ MaxActive > 0
  => \A m \in Member \ overlooked : Pending(mail, m) = {} => m \in host.offered

(* While nothing fails, every message sent reaches its receiver's history, *)
(* and as many as may be sent meanwhile do.                                *)
MailArrives ==
  (\E k \in Ids : kept[k] = 0) ~> (\A k \in Ids : kept[k] > 0) \/ faults > 0
=============================================================================
