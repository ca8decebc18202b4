---------------------------- MODULE ChainTransfer ----------------------------
(***************************************************************************)
(* Transfers on the chain (web3-service-v2.service.ts).  A COIN handler    *)
(* calls `transaction`, which makes one attempt; a TOKEN handler and a     *)
(* DELETE call `transferTokenToAdminOrAccount`, whose sendToken tries      *)
(* again after an error and, when no attempt is left, returns nothing and  *)
(* does not throw.  An attempt reads a nonce from the node, signs and      *)
(* sends, and waits for the receipt.                                       *)
(*                                                                         *)
(* Nothing keeps two handlers from sending for one account at a time, and  *)
(* an answer that fails to arrive does not undo a transaction.  Senders    *)
(* share no nonces, so the module has one.  Amounts are left out.          *)
(***************************************************************************)
EXTENDS Naturals, FiniteSets

CONSTANTS
    Call,        \* calls of the two operations
    NoCall,      \* the owner of a nonce nobody has used
    RetryCount,  \* attempts of sendToken after the first (3 in the code)
    MaxNonce     \* bound: nonces 0 .. MaxNonce-1 may be used

ASSUME CallAssumption  == IsFiniteSet(Call) /\ NoCall \notin Call
ASSUME RetryAssumption == RetryCount \in Nat
ASSUME NonceAssumption == MaxNonce \in Nat

VARIABLES
    owner,     \* the node: the call whose transaction has each nonce
    mined,     \* the node: transactions mined, those of the lowest nonces
    reverted,  \* the node: nonces whose transaction was mined without effect
    call       \* the attempt each call is at

vars == <<owner, mined, reverted, call>>

-----------------------------------------------------------------------------
Nonce == 0 .. MaxNonce - 1
Count == 0 .. MaxNonce

\* `lost` counts the transactions of a call that the node has taken and whose
\* answer the call has not got, `faulty` is set by any error but a nonce that
\* is taken; the two are history.
CallState ==
    [pc     : {"new", "latest", "pending", "send", "receipt", "wait",
               "returned", "failed"},
     kind   : {"COIN", "TOKEN"},
     retry  : 0 .. RetryCount,
     nonce  : Count,
     lost   : Nat,
     faulty : BOOLEAN]

\* getTransactionCount(sender, 'pending'): the first nonce that is free
PendingCount ==
    CHOOSE n \in Count : /\ n >= mined
                         /\ n \in Nonce => owner[n] = NoCall
                         /\ \A k \in mined .. n - 1 : owner[k] # NoCall

\* The transactions of a call that were or may still be mined with effect.
Paid(c) == {n \in Nonce \ reverted : owner[n] = c}

Ended(c) == call[c].pc \in {"returned", "failed"}

Goto(c, pc) == call' = [call EXCEPT ![c].pc = pc]

\* mutant: sendToken waits after every error
ErrorAlwaysWaits(c, nonceTaken, sent) ==
    call' = [call EXCEPT
        ![c].pc     = IF call[c].kind = "TOKEN" THEN "wait" ELSE "failed",
        ![c].lost   = IF sent THEN @ + 1 ELSE @,
        ![c].faulty = @ \/ ~nonceTaken]

\* An attempt of the call ends with an error, which may be of the nonce, and
\* may come after the node took the transaction.  `transaction` throws.  The
\* catch of sendToken waits if an attempt is left; else it returns undefined.
Error(c, nonceTaken, sent) ==
    call' = [call EXCEPT
        ![c].pc     = IF call[c].kind = "TOKEN" /\ call[c].retry > 0
                      THEN "wait" ELSE "failed",
        ![c].lost   = IF sent THEN @ + 1 ELSE @,
        ![c].faulty = @ \/ ~nonceTaken]

-----------------------------------------------------------------------------
(* The service                                                             *)

\* transaction and transferTokenToAdminOrAccount are called.
Start(c, kind) ==
    /\ call[c].pc = "new"
    /\ call' = [call EXCEPT ![c].pc = "latest", ![c].kind = kind]
    /\ UNCHANGED <<owner, mined, reverted>>

\* mutant: every attempt reads the mined transactions only
ReadLatestOnly(c) ==
    /\ call[c].pc = "latest"
    /\ call' = [call EXCEPT ![c].nonce = mined, ![c].pc = "send"]
    /\ UNCHANGED <<owner, mined, reverted>>

\* The nonce is the count of mined transactions; sendToken reads another one
\* when this is not its first attempt.
ReadLatest(c) ==
    /\ call[c].pc = "latest"
    /\ call' = [call EXCEPT
          ![c].nonce = mined,
          ![c].pc    = IF call[c].kind = "TOKEN" /\ call[c].retry < RetryCount
                       THEN "pending" ELSE "send"]
    /\ UNCHANGED <<owner, mined, reverted>>

\* mutant: the next nonce is counted from the one read last
ReadPendingNext(c) ==
    /\ call[c].pc = "pending"
    /\ PendingCount < MaxNonce
    /\ call' = [call EXCEPT ![c].nonce = PendingCount + 1, ![c].pc = "send"]
    /\ UNCHANGED <<owner, mined, reverted>>

\* The pending transactions count too.
ReadPending(c) ==
    /\ call[c].pc = "pending"
    /\ call' = [call EXCEPT ![c].nonce = PendingCount, ![c].pc = "send"]
    /\ UNCHANGED <<owner, mined, reverted>>

\* signTransaction and sendSignedTransaction.  The node takes a nonce once:
\* another transaction at the same gas price does not replace the first.
Send(c) ==
    /\ call[c].pc = "send"
    /\ call[c].nonce < MaxNonce
    /\ \/ /\ owner[call[c].nonce] = NoCall
          /\ owner' = [owner EXCEPT ![call[c].nonce] = c]
          /\ Goto(c, "receipt")
       \/ /\ owner[call[c].nonce] # NoCall
          /\ Error(c, TRUE, FALSE)
          /\ UNCHANGED owner
    /\ UNCHANGED <<mined, reverted>>

\* mutant: the status in the receipt is not looked at
ReceiveAnything(c) ==
    /\ call[c].pc = "receipt"
    /\ call[c].nonce < mined
    /\ Goto(c, "returned")
    /\ UNCHANGED <<owner, mined, reverted>>

\* The receipt arrives; that of a transaction without effect is an error.
Receive(c) ==
    /\ call[c].pc = "receipt"
    /\ call[c].nonce < mined
    /\ IF call[c].nonce \in reverted
       THEN Error(c, FALSE, FALSE)
       ELSE Goto(c, "returned")
    /\ UNCHANGED <<owner, mined, reverted>>

\* The wait for the receipt ends with an error: a timeout, a lost connection.
LoseReceipt(c) ==
    /\ call[c].pc = "receipt"
    /\ Error(c, FALSE, TRUE)
    /\ UNCHANGED <<owner, mined, reverted>>

\* The node does not answer, or refuses for another reason, before it takes the
\* transaction.
FailAttempt(c) ==
    /\ call[c].pc \in {"latest", "pending", "send"}
    /\ Error(c, FALSE, FALSE)
    /\ UNCHANGED <<owner, mined, reverted>>

\* mutant: the count of attempts starts again
RetryAgain(c) ==
    /\ call[c].pc = "wait"
    /\ Goto(c, "latest")
    /\ UNCHANGED <<owner, mined, reverted>>

\* sendToken calls itself after the wait.
Retry(c) ==
    /\ call[c].pc = "wait"
    /\ call' = [call EXCEPT ![c].pc = "latest", ![c].retry = @ - 1]
    /\ UNCHANGED <<owner, mined, reverted>>

-----------------------------------------------------------------------------
(* The chain                                                               *)

\* The pending transaction of the lowest nonce is mined.  Only one with a
\* contract call, a TOKEN transfer, may be without effect.
Mine ==
    /\ mined < MaxNonce
    /\ owner[mined] # NoCall
    /\ mined' = mined + 1
    /\ \/ UNCHANGED reverted
       \/ /\ call[owner[mined]].kind = "TOKEN"
          /\ reverted' = reverted \cup {mined}
    /\ UNCHANGED <<owner, call>>

-----------------------------------------------------------------------------
Init ==
    /\ owner = [n \in Nonce |-> NoCall]
    /\ mined = 0
    /\ reverted = {}
    /\ call = [c \in Call |-> [pc |-> "new", kind |-> "COIN", retry |-> RetryCount,
                               nonce |-> 0, lost |-> 0, faulty |-> FALSE]]

\* One step of a call in progress, or an error in its place
Step(c) ==
    \/ ReadLatest(c) \/ ReadPending(c) \/ Send(c) \/ Receive(c)
    \/ LoseReceipt(c) \/ FailAttempt(c) \/ Retry(c)

Next ==
    \/ \E c \in Call : (\E kind \in {"COIN", "TOKEN"} : Start(c, kind)) \/ Step(c)
    \/ Mine

Spec == Init /\ [][Next]_vars

\* An await ends, with a result or an error: the node answers, or web3 gives up
\* waiting, and the timer between attempts fires.  Nothing is asked of the chain.
Fairness == \A c \in Call : WF_vars(Step(c))

FairSpec == Spec /\ Fairness

-----------------------------------------------------------------------------
(* Properties                                                              *)

\* Every variable has its type.
TypeOK ==
    /\ owner \in [Nonce -> Call \cup {NoCall}]
    /\ mined \in Count
    /\ reverted \subseteq Nonce
    /\ call \in [Call -> CallState]

\* No transaction waits for a nonce that nobody sends: whatever attempts
\* overlap, the nonces in use have no gap, and the chain can mine them all.
NoNonceGap ==
    \A n \in Nonce :
        owner[n] # NoCall => \A k \in 0 .. n : owner[k] # NoCall

\* What a call reports is what has happened, as long as it got the answer to
\* every transaction the node took: it paid once if it returned a hash, never
\* if it failed, and at no time twice.  With answers lost a hash is still that
\* of a transaction mined with effect.
PaidAsReported ==
    \A c \in Call :
        /\ call[c].pc = "returned" => \E n \in Paid(c) : n < mined
        /\ call[c].lost = 0 =>
              /\ \A m, n \in Paid(c) : m = n
              /\ call[c].pc = "failed" => Paid(c) = {}

Attempts(c) == IF call[c].kind = "COIN" THEN 1 ELSE 1 + RetryCount

\* However answers get lost, a call does not pay more often than it has
\* attempts: up to four times for a TOKEN transfer, once for a COIN transfer.
CopiesBound == \A c \in Call : Cardinality(Paid(c)) <= Attempts(c)

\* Calls that send for one account at a time get out of each other's way: one
\* that met no error but nonces that were taken gives up only after as many
\* transactions of other calls as it has attempts.
ConflictsResolved ==
    \A c \in Call :
        call[c].pc = "failed" /\ ~call[c].faulty =>
            Cardinality({n \in Nonce : owner[n] \notin {c, NoCall}})
                >= Attempts(c)

\* Every call comes to an end: no error, however often it returns, keeps a
\* handler waiting in sendToken for ever.
CallEnds == \A c \in Call : call[c].pc # "new" ~> Ended(c)
=============================================================================
