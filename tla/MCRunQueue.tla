----------------------------- MODULE MCRunQueue -----------------------------
(* Instances of RunQueue for TLC: user, agent and team messages.           *)
EXTENDS RunQueue, TLC
CONSTANTS u1, u2, a1, a2, a3, t1

MCTriggerOf ==
  [m \in Msg |-> CASE m \in {u1, u2} -> "user"
                   [] m \in {a1, a2, a3} -> "agent"
                   [] OTHER -> "team"]

UserSymmetry == Permutations({u1, u2})
=============================================================================
