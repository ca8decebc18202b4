------------------------------ MODULE Delivery ------------------------------
(***************************************************************************)
(* What the handlers of a message may count on.  A published message waits *)
(* for its handler, or it is lost at once.  It is acknowledged only after  *)
(* its own handler is through with it, and then it never comes back.       *)
(* Until then an interruption may return it, or lose it with the broker.   *)
(***************************************************************************)
CONSTANT Message

VARIABLE stage

Stage == {"unsent", "waiting", "taken", "ended", "acknowledged", "lost"}

Init == stage = [m \in Message |-> "unsent"]

Move(m, from, to) ==
    /\ stage[m] = from
    /\ stage' = [stage EXCEPT ![m] = to]

Publish(m)     == Move(m, "unsent", "waiting")
Take(m)        == Move(m, "waiting", "taken")
End(m)         == Move(m, "taken", "ended")
Acknowledge(m) == Move(m, "ended", "acknowledged")

\* A connection, the process or the broker goes down: what was not yet
\* acknowledged is back, or lost.
Interrupt ==
    /\ stage' \in [Message -> Stage]
    /\ \A m \in Message :
          \/ stage'[m] = stage[m]
          \/ stage[m] \in {"taken", "ended"} /\ stage'[m] = "waiting"
          \/ stage[m] # "acknowledged" /\ stage'[m] = "lost"

Next ==
    \/ \E m \in Message : Publish(m) \/ Take(m) \/ End(m) \/ Acknowledge(m)
    \/ Interrupt

Spec == Init /\ [][Next]_stage
=============================================================================
