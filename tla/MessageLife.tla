----------------------------- MODULE MessageLife -----------------------------
(***************************************************************************)
(* What the run queue promises about one message, with no queue, driver or *)
(* file in sight: it waits, then it starts or is withdrawn; what started   *)
(* never waits again, a confirmed withdrawal is final, and a waiting       *)
(* message is dropped only once a write to disk has failed.                *)
(***************************************************************************)
CONSTANT Msg
VARIABLES life, writeFailed
vars == <<life, writeFailed>>

Stages == {"new", "waiting", "started", "cancelled", "lost"}

Moves == { <<"new", "waiting">>, <<"new", "started">>,
           <<"waiting", "started">>, <<"waiting", "cancelled">> }

Init == life = [m \in Msg |-> "new"] /\ writeFailed = FALSE

MayMove(m) ==
  \/ life'[m] = life[m]
  \/ <<life[m], life'[m]>> \in Moves
  \/ writeFailed' /\ life[m] = "waiting" /\ life'[m] = "lost"

Next ==
  /\ life' \in [Msg -> Stages]
  /\ writeFailed => writeFailed'
  /\ \A m \in Msg : MayMove(m)

Spec == Init /\ [][Next]_vars
=============================================================================
