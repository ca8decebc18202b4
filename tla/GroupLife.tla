------------------------------ MODULE GroupLife ------------------------------
(***************************************************************************)
(* What the bot service promises about an account group, whatever happens  *)
(* to its messages and its process: groups are created in the order of     *)
(* their ids, a group only moves forward, its row goes before its accounts *)
(* are released, and a released group never comes back.                    *)
(***************************************************************************)
EXTENDS Naturals

CONSTANT Group   \* a set of ids, natural numbers

VARIABLE stage

Stage == {"absent",    \* not created yet
          "running",   \* its row is live
          "marked",    \* its row is marked deleted
          "erased",    \* its row is gone, its accounts still refer to it
          "released"}  \* its accounts are back in the pool

Init == stage = [g \in Group |-> "absent"]

Move(g, s) == stage' = [stage EXCEPT ![g] = s]

Create(g) ==
    /\ stage[g] = "absent"
    /\ \A h \in Group : h < g => stage[h] # "absent"
    /\ Move(g, "running")

Mark(g) == stage[g] = "running" /\ Move(g, "marked")

\* A stop may reach a group that was never marked.
Erase(g) == stage[g] \in {"running", "marked"} /\ Move(g, "erased")

Release(g) == stage[g] = "erased" /\ Move(g, "released")

Next == \E g \in Group : Create(g) \/ Mark(g) \/ Erase(g) \/ Release(g)

Spec == Init /\ [][Next]_stage
=============================================================================
