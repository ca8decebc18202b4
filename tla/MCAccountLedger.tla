--------------------------- MODULE MCAccountLedger ---------------------------
(* An instance of AccountLedger for TLC. *)
EXTENDS AccountLedger, TLC

\* Ids with a gap at 3
MCAccount == {1, 2, 4}

\* Three groups, of which one or two are still to come: their requests may
\* read the same accounts.
MCGroup == {1, 2, 3}

\* A group, the admin and another account, free or in the group; two groups of
\* a single account; the admin drafted into a group whose ids lie on both
\* sides of the other's
MCGroupings ==
    {1 :> 0 @@ 2 :> 1 @@ 4 :> 0, 1 :> 0 @@ 2 :> 1 @@ 4 :> 1,
     1 :> 0 @@ 2 :> 1 @@ 4 :> 2, 1 :> 2 @@ 2 :> 1 @@ 4 :> 2}

\* Charges that one transfer does not use up, and for coins one whose text is
\* not in the order of the numbers
MCCharge == [COIN |-> 10, TOKEN |-> 4]
MCPrice  == [COIN |-> {1, 2}, TOKEN |-> {3}]

Symmetry == Permutations(Worker)
=============================================================================
