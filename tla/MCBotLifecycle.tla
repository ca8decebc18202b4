--------------------------- MODULE MCBotLifecycle ---------------------------
(* Instances of BotLifecycle for TLC. *)
EXTENDS BotLifecycle, TLC

\* handlers and requests are interchangeable
Symmetry == Permutations(Worker) \cup Permutations(Stopper)
=============================================================================
