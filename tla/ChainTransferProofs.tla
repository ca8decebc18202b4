------------------------- MODULE ChainTransferProofs -------------------------
(***************************************************************************)
(* Theorems about ChainTransfer, for any finite set of calls and any       *)
(* number of attempts.                                                     *)
(***************************************************************************)
EXTENDS ChainTransfer, FiniteSetTheorems, WellFoundedInduction, TLAPS

-----------------------------------------------------------------------------
(* The nonce read from the node                                            *)

\* The pending count is a count, it is a free nonce unless there is none, and
\* the nonces from the mined ones to it are taken.
LEMMA PendingCountIsFirstFree ==
    ASSUME mined \in Count
    PROVE  /\ PendingCount \in Count
           /\ PendingCount \in Nonce => owner[PendingCount] = NoCall
           /\ \A k \in mined .. PendingCount - 1 : owner[k] # NoCall
<1> DEFINE R == {ss \in Nat \X Nat : ss[1] < ss[2]}
           Free(n) == n \in Nonce => owner[n] = NoCall
           F == {n \in Count : n >= mined /\ Free(n)}
<1>1. F \subseteq Nat
  BY NonceAssumption DEF Count
<1>2. MaxNonce \in F
  BY NonceAssumption DEF Count, Nonce
<1>3. IsWellFoundedOn(R, Nat)
  BY NatLessThanWellFounded DEF OpToRel
<1>4. \E x \in F : \A y \in F : ~(<<y, x>> \in R)
  <2> HIDE DEF R, F
  <2> QED BY <1>1, <1>2, <1>3, WFMin
<1>5. PICK x \in F : \A y \in F : ~(<<y, x>> \in R)
  BY <1>4
<1>6. \A k \in mined .. x - 1 : owner[k] # NoCall
  <2> SUFFICES ASSUME NEW k \in mined .. x - 1, owner[k] = NoCall
               PROVE  FALSE
    OBVIOUS
  <2>1. /\ k \in Nat /\ x \in Nat /\ k < x /\ k >= mined /\ k \in Count
    BY <1>1, <1>5, NonceAssumption DEF Count
  <2>2. k \in F
    BY <2>1
  <2> QED BY <1>5, <2>1, <2>2
<1>7. x \in Count /\ x >= mined /\ (x \in Nonce => owner[x] = NoCall)
  BY <1>5
<1> HIDE DEF R, Free, F
<1>8. \E n \in Count : /\ n >= mined
                       /\ n \in Nonce => owner[n] = NoCall
                       /\ \A k \in mined .. n - 1 : owner[k] # NoCall
  BY <1>6, <1>7
<1> QED BY <1>8 DEF PendingCount

\* Every nonce below the pending count is taken, provided the mined ones are.
LEMMA BelowPendingCount ==
    ASSUME mined \in Count, \A k \in Nonce : k < mined => owner[k] # NoCall
    PROVE  \A k \in Nonce : k < PendingCount => owner[k] # NoCall
<1> SUFFICES ASSUME NEW k \in Nonce, k < PendingCount
             PROVE  owner[k] # NoCall
  OBVIOUS
<1>1. PendingCount \in Count
  BY PendingCountIsFirstFree
<1>2. k \in Int /\ mined \in Int /\ PendingCount \in Int
  BY <1>1, NonceAssumption DEF Count, Nonce
<1>3. CASE k < mined
  BY <1>3
<1>4. CASE ~(k < mined)
  <2>1. k \in mined .. PendingCount - 1
    BY <1>2, <1>4
  <2> QED BY <2>1, PendingCountIsFirstFree
<1> QED BY <1>3, <1>4

-----------------------------------------------------------------------------
(* Types, and the nonces in use                                            *)

LEMMA ErrorType ==
    ASSUME call \in [Call -> CallState], NEW c \in Call,
           NEW t \in BOOLEAN, NEW s \in BOOLEAN, Error(c, t, s)
    PROVE  call' \in [Call -> CallState]
<1> DEFINE p == IF call[c].kind = "TOKEN" /\ call[c].retry > 0 THEN "wait" ELSE "failed"
           l == IF s THEN call[c].lost + 1 ELSE call[c].lost
           f == call[c].faulty \/ ~t
           new == [call[c] EXCEPT !.pc = p, !.lost = l, !.faulty = f]
<1>1. call[c] \in CallState
  OBVIOUS
<1>2. call' = [call EXCEPT ![c] = new]
  BY DEF Error
<1>3. p \in {"wait", "failed"} /\ l \in Nat
  BY <1>1 DEF CallState
<1>4. f \in BOOLEAN
  OBVIOUS
<1> HIDE DEF p, l, f
<1>5. new \in CallState
  BY <1>1, <1>3, <1>4 DEF CallState
<1> QED BY <1>2, <1>5

\* Mined nonces are taken, only they can be without effect, and a call reads no
\* nonce beyond the first free one.
NoncesOk ==
    /\ \A k \in Nonce : k < mined => owner[k] # NoCall
    /\ \A k \in reverted : k < mined
    /\ \A c \in Call : \A k \in Nonce : k < call[c].nonce => owner[k] # NoCall

NonceInv == TypeOK /\ NoNonceGap /\ NoncesOk

LEMMA NonceInvInit == Init => NonceInv
BY NonceAssumption, RetryAssumption
   DEF Init, NonceInv, TypeOK, NoNonceGap, NoncesOk, CallState, Nonce, Count

\* A step that leaves the node alone keeps what is said of it.
LEMMA CallStepNonces ==
    ASSUME NonceInv, UNCHANGED <<owner, mined, reverted>>,
           call' \in [Call -> CallState],
           \A c \in Call : \/ call'[c].nonce = call[c].nonce
                           \/ \A k \in Nonce : k < call'[c].nonce => owner[k] # NoCall
    PROVE  NonceInv'
BY DEF NonceInv, TypeOK, NoNonceGap, NoncesOk

LEMMA ErrorNonces ==
    ASSUME NonceInv, UNCHANGED <<owner, mined, reverted>>, NEW c \in Call,
           NEW t \in BOOLEAN, NEW s \in BOOLEAN, Error(c, t, s)
    PROVE  NonceInv'
<1>1. call \in [Call -> CallState]
  BY DEF NonceInv, TypeOK
<1>2. call' \in [Call -> CallState]
  BY <1>1, ErrorType
<1>3. \A d \in Call : call'[d].nonce = call[d].nonce
  BY <1>1 DEF Error, CallState
<1> QED BY <1>2, <1>3, CallStepNonces

\* sendToken waits only with an attempt left, and `transaction` uses none up.
RetryOk ==
    \A c \in Call :
        /\ call[c].pc = "wait" => call[c].kind = "TOKEN" /\ call[c].retry > 0
        /\ call[c].pc = "failed" /\ call[c].kind = "TOKEN" => call[c].retry = 0
        /\ call[c].kind = "COIN" \/ call[c].pc = "new" => call[c].retry = RetryCount

LEMMA RetryOkStep == TypeOK /\ RetryOk /\ [Next]_vars => RetryOk'
<1> SUFFICES ASSUME TypeOK, RetryOk, [Next]_vars PROVE RetryOk'
  OBVIOUS
<1>a. call \in [Call -> CallState]
  BY DEF TypeOK
<1>1. ASSUME NEW c \in Call, NEW kind \in {"COIN", "TOKEN"}, Start(c, kind)
      PROVE  RetryOk'
  BY <1>1, <1>a DEF Start, RetryOk, CallState
<1>2. ASSUME NEW c \in Call, ReadLatest(c) \/ ReadPending(c)
      PROVE  RetryOk'
  BY <1>2, <1>a DEF ReadLatest, ReadPending, RetryOk, CallState
<1>3. ASSUME NEW c \in Call, call[c].pc # "new",
             NEW t \in BOOLEAN, NEW s \in BOOLEAN, Error(c, t, s)
      PROVE  RetryOk'
  BY <1>3, <1>a DEF Error, RetryOk, CallState
<1>4. ASSUME NEW c \in Call, NEW pc \in {"receipt", "returned"},
             call[c].pc # "new", Goto(c, pc)
      PROVE  RetryOk'
  BY <1>4, <1>a DEF Goto, RetryOk, CallState
<1>5. ASSUME NEW c \in Call, Send(c) \/ Receive(c) \/ LoseReceipt(c) \/ FailAttempt(c)
      PROVE  RetryOk'
  <2>1. call[c].pc # "new"
    BY <1>5 DEF Send, Receive, LoseReceipt, FailAttempt
  <2> QED BY <1>3, <1>4, <1>5, <2>1 DEF Send, Receive, LoseReceipt, FailAttempt
<1>6. ASSUME NEW c \in Call, Retry(c)
      PROVE  RetryOk'
  BY <1>6, <1>a DEF Retry, RetryOk, CallState
<1>7. CASE Mine \/ UNCHANGED vars
  BY <1>7 DEF Mine, vars, RetryOk
<1> QED BY <1>1, <1>2, <1>5, <1>6, <1>7 DEF Next, Step

LEMMA NonceInvStep == NonceInv /\ RetryOk /\ [Next]_vars => NonceInv'
<1> SUFFICES ASSUME NonceInv, RetryOk, [Next]_vars PROVE NonceInv'
  OBVIOUS
<1>a. /\ owner \in [Nonce -> Call \cup {NoCall}]
      /\ mined \in Count
      /\ reverted \subseteq Nonce
      /\ call \in [Call -> CallState]
  BY DEF NonceInv, TypeOK
<1>1. ASSUME NEW c \in Call, NEW kind \in {"COIN", "TOKEN"}, Start(c, kind)
      PROVE  NonceInv'
  <2>1. call' \in [Call -> CallState]
    BY <1>1, <1>a DEF Start, CallState
  <2>2. \A d \in Call : call'[d].nonce = call[d].nonce
    BY <1>1, <1>a DEF Start, CallState
  <2> QED BY <1>1, <2>1, <2>2, CallStepNonces DEF Start
<1>2. ASSUME NEW c \in Call, ReadLatest(c)
      PROVE  NonceInv'
  <2>1. call' \in [Call -> CallState]
    BY <1>2, <1>a DEF ReadLatest, CallState
  <2>2. \A d \in Call : call'[d].nonce = call[d].nonce \/ call'[d].nonce = mined
    BY <1>2, <1>a DEF ReadLatest, CallState
  <2>3. \A k \in Nonce : k < mined => owner[k] # NoCall
    BY DEF NonceInv, NoncesOk
  <2> QED BY <1>2, <2>1, <2>2, <2>3, CallStepNonces DEF ReadLatest
<1>3. ASSUME NEW c \in Call, ReadPending(c)
      PROVE  NonceInv'
  <2>1. PendingCount \in Count
    BY <1>a, PendingCountIsFirstFree
  <2>2. call' = [call EXCEPT ![c].nonce = PendingCount, ![c].pc = "send"]
    BY <1>3 DEF ReadPending
  <2>3. \A k \in Nonce : k < PendingCount => owner[k] # NoCall
    BY <1>a, BelowPendingCount DEF NonceInv, NoncesOk
  <2> HIDE DEF PendingCount
  <2>4. call' \in [Call -> CallState]
    BY <1>a, <2>1, <2>2 DEF CallState
  <2>5. \A d \in Call : call'[d].nonce = call[d].nonce \/ call'[d].nonce = PendingCount
    BY <1>a, <2>2 DEF CallState
  <2> QED BY <1>3, <2>3, <2>4, <2>5, CallStepNonces DEF ReadPending
<1>4. ASSUME NEW c \in Call, Send(c)
      PROVE  NonceInv'
  <2>1. CASE Error(c, TRUE, FALSE) /\ UNCHANGED owner
    BY <1>4, <2>1, ErrorNonces DEF Send
  <2>2. CASE /\ owner[call[c].nonce] = NoCall
             /\ owner' = [owner EXCEPT ![call[c].nonce] = c]
             /\ Goto(c, "receipt")
    <3> DEFINE n == call[c].nonce
    <3>1. n \in Nonce
      BY <1>4, <1>a, NonceAssumption DEF Send, CallState, Count, Nonce
    <3>2. call' \in [Call -> CallState] /\ \A d \in Call : call'[d].nonce = call[d].nonce
      BY <1>a, <2>2 DEF Goto, CallState
    <3>3. UNCHANGED <<mined, reverted>>
      BY <1>4 DEF Send
    <3>4. \A k \in Nonce : owner'[k] = (IF k = n THEN c ELSE owner[k])
      BY <1>a, <2>2
    <3>5. c # NoCall
      BY CallAssumption
    <3>6. owner' \in [Nonce -> Call \cup {NoCall}]
      BY <1>a, <2>2
    <3>7. \A k \in Nonce : k < n => owner[k] # NoCall
      BY DEF NonceInv, NoncesOk
    <3> HIDE DEF n
    <3>8. NoNonceGap'
      <4> SUFFICES ASSUME NEW j \in Nonce, owner'[j] # NoCall, NEW k \in 0 .. j
                   PROVE  owner'[k] # NoCall
        BY DEF NoNonceGap
      <4>1. k \in Nonce /\ k \in Int /\ j \in Int
        BY NonceAssumption DEF Nonce
      <4>2. CASE j = n
        BY <3>4, <3>5, <3>7, <4>1, <4>2
      <4>3. CASE j # n
        <5>1. owner[k] # NoCall
          BY <3>4, <4>3 DEF NonceInv, NoNonceGap
        <5> QED BY <3>4, <3>5, <4>1, <5>1
      <4> QED BY <4>2, <4>3
    <3>9. NoncesOk'
      BY <3>2, <3>3, <3>4, <3>5 DEF NonceInv, NoncesOk
    <3>10. TypeOK'
      BY <1>a, <3>2, <3>3, <3>6 DEF TypeOK
    <3> QED BY <3>8, <3>9, <3>10 DEF NonceInv
  <2> QED BY <1>4, <2>1, <2>2 DEF Send
<1>5. ASSUME NEW c \in Call, Receive(c)
      PROVE  NonceInv'
  <2>1. CASE Error(c, FALSE, FALSE)
    BY <1>5, <2>1, ErrorNonces DEF Receive
  <2>2. CASE Goto(c, "returned")
    <3>1. call' \in [Call -> CallState] /\ \A d \in Call : call'[d].nonce = call[d].nonce
      BY <1>a, <2>2 DEF Goto, CallState
    <3> QED BY <1>5, <3>1, CallStepNonces DEF Receive
  <2> QED BY <1>5, <2>1, <2>2 DEF Receive
<1>6. ASSUME NEW c \in Call, LoseReceipt(c) \/ FailAttempt(c)
      PROVE  NonceInv'
  BY <1>6, ErrorNonces DEF LoseReceipt, FailAttempt
<1>7. ASSUME NEW c \in Call, Retry(c)
      PROVE  NonceInv'
  <2>1. call' \in [Call -> CallState] /\ \A d \in Call : call'[d].nonce = call[d].nonce
    BY <1>7, <1>a, RetryAssumption DEF Retry, RetryOk, CallState
  <2> QED BY <1>7, <2>1, CallStepNonces DEF Retry
<1>8. CASE Mine
  <2>1. mined' \in Count /\ mined \in Nonce /\ mined' = mined + 1
    BY <1>8, <1>a, NonceAssumption DEF Mine, Count, Nonce
  <2>2. reverted' \subseteq reverted \cup {mined} /\ UNCHANGED <<owner, call>>
    BY <1>8 DEF Mine
  <2>3. TypeOK'
    BY <1>a, <2>1, <2>2 DEF TypeOK
  <2>4. NoncesOk'
    <3>1. \A k \in Nonce : k < mined + 1 => k < mined \/ k = mined
      BY <2>1, NonceAssumption DEF Nonce
    <3>2. \A k \in reverted' : k < mined + 1
      <4> SUFFICES ASSUME NEW k \in reverted' PROVE k < mined + 1
        OBVIOUS
      <4>1. k = mined \/ (k \in Nonce /\ k < mined)
        BY <1>a, <2>2 DEF NonceInv, NoncesOk
      <4> QED BY <2>1, <4>1, NonceAssumption DEF Nonce
    <3> QED BY <1>8, <2>1, <2>2, <3>1, <3>2 DEF Mine, NonceInv, NoncesOk
  <2> QED BY <2>2, <2>3, <2>4 DEF NonceInv, NoNonceGap
<1>9. CASE UNCHANGED vars
  BY <1>9 DEF vars, NonceInv, TypeOK, NoNonceGap, NoncesOk
<1> QED BY <1>1, <1>2, <1>3, <1>4, <1>5, <1>6, <1>7, <1>8, <1>9 DEF Next, Step

-----------------------------------------------------------------------------
(* What a call reports                                                     *)

\* A call that waits for a receipt has sent the transaction, one that returned
\* has paid.  Without lost answers that is all it has paid.
PaidOk ==
    \A c \in Call :
        /\ call[c].pc = "receipt" => call[c].nonce \in Nonce /\ owner[call[c].nonce] = c
        /\ call[c].pc = "returned" => call[c].nonce \in Paid(c) /\ call[c].nonce < mined
        /\ call[c].lost = 0 =>
              \A n \in Paid(c) :
                  call[c].pc \in {"receipt", "returned"} /\ n = call[c].nonce

LEMMA PaidOkInit == Init => PaidOk
BY CallAssumption DEF Init, PaidOk, Paid

\* An error keeps PaidOk if the call has nothing on the chain, or loses count.
LEMMA ErrorPaid ==
    ASSUME TypeOK, PaidOk, UNCHANGED <<owner, mined, reverted>>, NEW c \in Call,
           NEW t \in BOOLEAN, NEW s \in BOOLEAN, Error(c, t, s),
           ~s /\ call[c].lost = 0 => Paid(c) = {}
    PROVE  PaidOk'
<1>1. call \in [Call -> CallState]
  BY DEF TypeOK
<1>2. /\ call'[c].pc \in {"wait", "failed"}
      /\ call'[c].lost = IF s THEN call[c].lost + 1 ELSE call[c].lost
      /\ call[c].lost \in Nat
      /\ \A d \in Call : d # c => call'[d] = call[d]
  BY <1>1 DEF Error, CallState
<1>3. \A d \in Call : Paid(d)' = Paid(d)
  BY DEF Paid
<1>4. call'[c].lost = 0 => Paid(c) = {}
  BY <1>2
<1> QED BY <1>2, <1>3, <1>4 DEF PaidOk

LEMMA PaidOkStep == NonceInv /\ PaidOk /\ [Next]_vars => PaidOk'
<1> SUFFICES ASSUME NonceInv, PaidOk, [Next]_vars PROVE PaidOk'
  OBVIOUS
<1>a. /\ owner \in [Nonce -> Call \cup {NoCall}]
      /\ mined \in Count
      /\ reverted \subseteq Nonce
      /\ call \in [Call -> CallState]
      /\ TypeOK
  BY DEF NonceInv, TypeOK
<1>1. ASSUME NEW c \in Call,
             \/ \E kind \in {"COIN", "TOKEN"} : Start(c, kind)
             \/ ReadLatest(c) \/ ReadPending(c) \/ Retry(c)
      PROVE  PaidOk'
  <2>1. /\ call[c].pc \notin {"receipt", "returned"}
        /\ call'[c].pc \notin {"receipt", "returned"}
        /\ call'[c].lost = call[c].lost
        /\ \A d \in Call : d # c => call'[d] = call[d]
        /\ UNCHANGED <<owner, mined, reverted>>
    BY <1>1, <1>a DEF Start, ReadLatest, ReadPending, Retry, CallState
  <2>2. \A d \in Call : Paid(d)' = Paid(d)
    BY <2>1 DEF Paid
  <2> QED BY <2>1, <2>2 DEF PaidOk
<1>2. ASSUME NEW c \in Call, Send(c)
      PROVE  PaidOk'
  <2>1. call[c].lost = 0 => Paid(c) = {}
    BY <1>2 DEF Send, PaidOk
  <2>2. CASE Error(c, TRUE, FALSE) /\ UNCHANGED owner
    BY <1>2, <1>a, <2>1, <2>2, ErrorPaid DEF Send
  <2>3. CASE /\ owner[call[c].nonce] = NoCall
             /\ owner' = [owner EXCEPT ![call[c].nonce] = c]
             /\ Goto(c, "receipt")
    <3> DEFINE n == call[c].nonce
    <3>1. n \in Nonce
      BY <1>2, <1>a, NonceAssumption DEF Send, CallState, Count, Nonce
    <3>2. /\ call'[c].pc = "receipt" /\ call'[c].nonce = n
          /\ call'[c].lost = call[c].lost
          /\ \A d \in Call : d # c => call'[d] = call[d]
      BY <1>a, <2>3 DEF Goto, CallState
    <3>3. UNCHANGED <<mined, reverted>>
      BY <1>2 DEF Send
    <3>4. \A k \in Nonce : owner'[k] = (IF k = n THEN c ELSE owner[k])
      BY <1>a, <2>3
    <3>5. owner[n] = NoCall
      BY <2>3
    <3> HIDE DEF n
    <3>6. \A d \in Call : d # c => Paid(d)' = Paid(d)
      BY <3>3, <3>4, <3>5, CallAssumption DEF Paid
    <3>7. \A k \in Paid(c)' : k = n \/ k \in Paid(c)
      BY <3>3, <3>4 DEF Paid
    <3>8. \A d \in Call : d # c =>
             /\ call[d].pc = "receipt" => call[d].nonce # n
      BY <3>5, CallAssumption DEF PaidOk
    <3> QED BY <2>1, <3>1, <3>2, <3>3, <3>4, <3>6, <3>7, <3>8 DEF PaidOk
  <2> QED BY <1>2, <2>2, <2>3 DEF Send
<1>3. ASSUME NEW c \in Call, Receive(c)
      PROVE  PaidOk'
  <2>1. /\ call[c].pc = "receipt" /\ UNCHANGED <<owner, mined, reverted>>
        /\ call[c].nonce \in Nonce /\ owner[call[c].nonce] = c /\ call[c].nonce < mined
    BY <1>3 DEF Receive, PaidOk
  <2>2. CASE call[c].nonce \in reverted /\ Error(c, FALSE, FALSE)
    <3>1. call[c].lost = 0 => Paid(c) = {}
      BY <2>2 DEF PaidOk, Paid
    <3> QED BY <1>a, <2>1, <2>2, <3>1, ErrorPaid
  <2>3. CASE call[c].nonce \notin reverted /\ Goto(c, "returned")
    <3>1. /\ call'[c].pc = "returned" /\ call'[c].nonce = call[c].nonce
          /\ call'[c].lost = call[c].lost
          /\ \A d \in Call : d # c => call'[d] = call[d]
      BY <1>a, <2>3 DEF Goto, CallState
    <3>2. call[c].nonce \in Paid(c)
      BY <2>1, <2>3 DEF Paid
    <3>3. \A d \in Call : Paid(d)' = Paid(d)
      BY <2>1 DEF Paid
    <3> QED BY <2>1, <3>1, <3>2, <3>3 DEF PaidOk
  <2> QED BY <1>3, <2>2, <2>3 DEF Receive
<1>4. ASSUME NEW c \in Call, LoseReceipt(c)
      PROVE  PaidOk'
  BY <1>4, <1>a, ErrorPaid DEF LoseReceipt
<1>5. ASSUME NEW c \in Call, FailAttempt(c)
      PROVE  PaidOk'
  <2>1. call[c].lost = 0 => Paid(c) = {}
    BY <1>5 DEF FailAttempt, PaidOk
  <2> QED BY <1>5, <1>a, <2>1, ErrorPaid DEF FailAttempt
<1>6. CASE Mine
  <2>1. /\ mined' = mined + 1 /\ mined \in Nat
        /\ reverted \subseteq reverted' /\ reverted' \subseteq reverted \cup {mined}
        /\ UNCHANGED <<owner, call>>
    BY <1>6, <1>a, NonceAssumption DEF Mine, Count
  <2>2. \A c \in Call : Paid(c)' \subseteq Paid(c)
    BY <2>1 DEF Paid
  <2>3. \A c \in Call : call[c].nonce \in Nat
    BY <1>a, NonceAssumption DEF CallState, Count
  <2>4. \A c \in Call : call[c].nonce \in Paid(c) /\ call[c].nonce < mined =>
           call[c].nonce \in Paid(c)' /\ call[c].nonce < mined'
    BY <2>1, <2>3 DEF Paid
  <2> QED BY <2>1, <2>2, <2>4 DEF PaidOk
<1>7. CASE UNCHANGED vars
  BY <1>7 DEF vars, PaidOk, Paid
<1> QED BY <1>1, <1>2, <1>3, <1>4, <1>5, <1>6, <1>7 DEF Next, Step

-----------------------------------------------------------------------------
(* How calls that overlap get on                                           *)

\* Attempts that have ended with an error and were followed by another
Used(c) == RetryCount - call[c].retry

\* A call that met only nonces that were taken has nothing on the chain, and
\* each of its attempts was refused a higher nonce than the one before.
ConflictOk ==
    \A c \in Call : ~call[c].faulty /\ call[c].pc \notin {"receipt", "returned"} =>
        /\ \A n \in Nonce : owner[n] # c
        /\ call[c].pc \in {"latest", "pending"} =>
              \A k \in 0 .. Used(c) - 1 : k \in Nonce /\ owner[k] # NoCall
        /\ call[c].pc = "send" => call[c].nonce >= Used(c)
        /\ call[c].pc \in {"wait", "failed"} =>
              /\ call[c].nonce >= Used(c)
              /\ call[c].nonce \in Nonce /\ owner[call[c].nonce] # NoCall

LEMMA ConflictOkInit == Init => ConflictOk
BY CallAssumption DEF Init, ConflictOk

\* What a step of one call leaves of the others
LEMMA OthersConflict ==
    ASSUME ConflictOk, NEW c \in Call,
           \A d \in Call : d # c => call'[d] = call[d],
           \A n \in Nonce : owner'[n] = owner[n] \/ (owner[n] = NoCall /\ owner'[n] = c)
    PROVE  \A d \in Call : d # c =>
             (~call'[d].faulty /\ call'[d].pc \notin {"receipt", "returned"} =>
                /\ \A n \in Nonce : owner'[n] # d
                /\ call'[d].pc \in {"latest", "pending"} =>
                      \A k \in 0 .. Used(d)' - 1 : k \in Nonce /\ owner'[k] # NoCall
                /\ call'[d].pc = "send" => call'[d].nonce >= Used(d)'
                /\ call'[d].pc \in {"wait", "failed"} =>
                      /\ call'[d].nonce >= Used(d)'
                      /\ call'[d].nonce \in Nonce /\ owner'[call'[d].nonce] # NoCall)
<1> SUFFICES ASSUME NEW d \in Call, d # c,
                    ~call'[d].faulty, call'[d].pc \notin {"receipt", "returned"}
             PROVE  /\ \A n \in Nonce : owner'[n] # d
                    /\ call'[d].pc \in {"latest", "pending"} =>
                          \A k \in 0 .. Used(d)' - 1 : k \in Nonce /\ owner'[k] # NoCall
                    /\ call'[d].pc = "send" => call'[d].nonce >= Used(d)'
                    /\ call'[d].pc \in {"wait", "failed"} =>
                          /\ call'[d].nonce >= Used(d)'
                          /\ call'[d].nonce \in Nonce /\ owner'[call'[d].nonce] # NoCall
  OBVIOUS
<1>1. call'[d] = call[d] /\ Used(d)' = Used(d)
  BY DEF Used
<1>2. c # NoCall
  BY CallAssumption
<1>3. \A n \in Nonce : owner[n] # NoCall => owner'[n] # NoCall
  BY <1>2
<1>4. \A n \in Nonce : owner[n] # d => owner'[n] # d
  OBVIOUS
<1>5. ~call[d].faulty /\ call[d].pc \notin {"receipt", "returned"}
  BY <1>1
<1> QED BY <1>1, <1>3, <1>4, <1>5 DEF ConflictOk

LEMMA ErrorConflict ==
    ASSUME TypeOK, ConflictOk, UNCHANGED <<owner, mined, reverted>>, NEW c \in Call,
           NEW t \in BOOLEAN, NEW s \in BOOLEAN, Error(c, t, s),
           t => /\ call[c].pc = "send"
                /\ call[c].nonce \in Nonce /\ owner[call[c].nonce] # NoCall
    PROVE  ConflictOk'
<1>1. call \in [Call -> CallState]
  BY DEF TypeOK
<1>2. /\ call'[c].pc \in {"wait", "failed"}
      /\ call'[c].nonce = call[c].nonce /\ call'[c].retry = call[c].retry
      /\ \A d \in Call : d # c => call'[d] = call[d]
  BY <1>1 DEF Error, CallState
<1>3. call'[c].faulty = (call[c].faulty \/ ~t)
  BY <1>1 DEF Error, CallState
<1>4. Used(c)' = Used(c)
  BY <1>2 DEF Used
<1>5. CASE ~t \/ call[c].faulty
  <2>1. call'[c].faulty
    BY <1>3, <1>5
  <2> QED BY <1>2, <2>1, OthersConflict DEF ConflictOk
<1>6. CASE t /\ ~call[c].faulty
  <2>1. /\ \A n \in Nonce : owner[n] # c
        /\ call[c].nonce >= Used(c)
    BY <1>6 DEF ConflictOk
  <2> QED BY <1>2, <1>4, <1>6, <2>1, OthersConflict DEF ConflictOk
<1> QED BY <1>5, <1>6

LEMMA ConflictOkStep ==
    NonceInv /\ RetryOk /\ ConflictOk /\ [Next]_vars => ConflictOk'
<1> SUFFICES ASSUME NonceInv, RetryOk, ConflictOk, [Next]_vars PROVE ConflictOk'
  OBVIOUS
<1>a. /\ owner \in [Nonce -> Call \cup {NoCall}]
      /\ mined \in Count
      /\ call \in [Call -> CallState]
      /\ TypeOK
  BY DEF NonceInv, TypeOK
<1>b. \A c \in Call : Used(c) \in Nat /\ call[c].nonce \in Nat
  BY <1>a, RetryAssumption, NonceAssumption DEF CallState, Count, Used
<1>1. ASSUME NEW c \in Call, NEW kind \in {"COIN", "TOKEN"}, Start(c, kind)
      PROVE  ConflictOk'
  <2>1. /\ call[c].pc = "new" /\ call'[c].pc = "latest"
        /\ call'[c].retry = RetryCount /\ call'[c].faulty = call[c].faulty
        /\ \A d \in Call : d # c => call'[d] = call[d]
        /\ UNCHANGED owner
    BY <1>1, <1>a DEF Start, RetryOk, CallState
  <2>2. Used(c)' = 0
    BY <2>1, RetryAssumption DEF Used
  <2> QED BY <2>1, <2>2, OthersConflict DEF ConflictOk
<1>2. ASSUME NEW c \in Call, ReadLatest(c)
      PROVE  ConflictOk'
  <2>1. /\ call[c].pc = "latest" /\ call'[c].retry = call[c].retry
        /\ call'[c].faulty = call[c].faulty /\ call'[c].nonce = mined
        /\ call'[c].pc = IF call[c].kind = "TOKEN" /\ call[c].retry < RetryCount
                          THEN "pending" ELSE "send"
        /\ \A d \in Call : d # c => call'[d] = call[d]
        /\ UNCHANGED owner
    BY <1>2, <1>a DEF ReadLatest, CallState
  <2>2. Used(c)' = Used(c)
    BY <2>1 DEF Used
  <2>3. call'[c].pc = "send" => Used(c) = 0
    <3>1. call[c].kind \in {"COIN", "TOKEN"} /\ call[c].retry \in 0 .. RetryCount
      BY <1>a DEF CallState
    <3> QED BY <2>1, <3>1, RetryAssumption DEF Used, RetryOk
  <2>4. mined \in Nat
    BY <1>a, NonceAssumption DEF Count
  <2> QED BY <2>1, <2>2, <2>3, <2>4, OthersConflict DEF ConflictOk
<1>3. ASSUME NEW c \in Call, ReadPending(c)
      PROVE  ConflictOk'
  <2> DEFINE n == PendingCount
  <2>1. /\ n \in Count
        /\ n \in Nonce => owner[n] = NoCall
    BY <1>a, PendingCountIsFirstFree
  <2>2. call' = [call EXCEPT ![c].nonce = n, ![c].pc = "send"] /\ UNCHANGED owner
    BY <1>3 DEF ReadPending
  <2> HIDE DEF n
  <2>3. /\ call'[c].retry = call[c].retry
        /\ call'[c].faulty = call[c].faulty /\ call'[c].nonce = n
        /\ call'[c].pc = "send"
        /\ \A d \in Call : d # c => call'[d] = call[d]
    BY <1>a, <2>2 DEF CallState
  <2>4. Used(c)' = Used(c) /\ call[c].pc = "pending"
    BY <1>3, <2>3 DEF Used, ReadPending
  <2>5. ASSUME ~call[c].faulty
        PROVE  n >= Used(c)
    <3>1. \A k \in 0 .. Used(c) - 1 : k \in Nonce /\ owner[k] # NoCall
      BY <2>4, <2>5 DEF ConflictOk
    <3>2. n \in Nat
      BY <2>1, NonceAssumption DEF Count
    <3>3. CASE n < Used(c)
      <4>1. n \in 0 .. Used(c) - 1
        BY <1>b, <3>2, <3>3
      <4> QED BY <2>1, <3>1, <4>1
    <3> QED BY <1>b, <3>2, <3>3
  <2> QED BY <2>2, <2>3, <2>4, <2>5, OthersConflict DEF ConflictOk
<1>4. ASSUME NEW c \in Call, Send(c)
      PROVE  ConflictOk'
  <2>1. call[c].nonce \in Nonce /\ call[c].pc = "send"
    BY <1>4, <1>a, NonceAssumption DEF Send, CallState, Count, Nonce
  <2>2. CASE owner[call[c].nonce] # NoCall /\ Error(c, TRUE, FALSE) /\ UNCHANGED owner
    BY <1>4, <1>a, <2>1, <2>2, ErrorConflict DEF Send
  <2>3. CASE /\ owner[call[c].nonce] = NoCall
             /\ owner' = [owner EXCEPT ![call[c].nonce] = c]
             /\ Goto(c, "receipt")
    <3>1. /\ call'[c].pc = "receipt"
          /\ \A d \in Call : d # c => call'[d] = call[d]
      BY <1>a, <2>3 DEF Goto, CallState
    <3>2. \A n \in Nonce : owner'[n] = owner[n] \/ (owner[n] = NoCall /\ owner'[n] = c)
      BY <1>a, <2>1, <2>3
    <3> QED BY <3>1, <3>2, OthersConflict DEF ConflictOk
  <2> QED BY <1>4, <2>2, <2>3 DEF Send
<1>5. ASSUME NEW c \in Call, Receive(c)
      PROVE  ConflictOk'
  <2>1. CASE Error(c, FALSE, FALSE)
    BY <1>5, <1>a, <2>1, ErrorConflict DEF Receive
  <2>2. CASE Goto(c, "returned")
    <3>1. /\ call'[c].pc = "returned" /\ UNCHANGED owner
          /\ \A d \in Call : d # c => call'[d] = call[d]
      BY <1>5, <1>a, <2>2 DEF Goto, Receive, CallState
    <3> QED BY <3>1, OthersConflict DEF ConflictOk
  <2> QED BY <1>5, <2>1, <2>2 DEF Receive
<1>6. ASSUME NEW c \in Call, LoseReceipt(c) \/ FailAttempt(c)
      PROVE  ConflictOk'
  BY <1>6, <1>a, ErrorConflict DEF LoseReceipt, FailAttempt
<1>7. ASSUME NEW c \in Call, Retry(c)
      PROVE  ConflictOk'
  <2>1. /\ call[c].pc = "wait" /\ call'[c].pc = "latest"
        /\ call'[c].retry = call[c].retry - 1 /\ call'[c].faulty = call[c].faulty
        /\ \A d \in Call : d # c => call'[d] = call[d]
        /\ UNCHANGED owner
    BY <1>7, <1>a DEF Retry, CallState
  <2>2. Used(c)' = Used(c) + 1
    <3>1. call[c].retry \in Int
      BY <1>a, RetryAssumption DEF CallState
    <3> QED BY <2>1, <3>1, RetryAssumption DEF Used
  <2>3. ASSUME ~call[c].faulty, NEW k \in 0 .. Used(c)
        PROVE  k \in Nonce /\ owner[k] # NoCall
    <3>1. /\ call[c].nonce >= Used(c)
          /\ call[c].nonce \in Nonce /\ owner[call[c].nonce] # NoCall
      BY <2>1, <2>3 DEF ConflictOk
    <3>2. k \in 0 .. call[c].nonce
      BY <1>b, <3>1
    <3>3. k \in Nonce
      BY <3>1, <3>2, NonceAssumption DEF Nonce
    <3> QED BY <3>1, <3>2, <3>3 DEF NonceInv, NoNonceGap
  <2>4. Used(c)' - 1 = Used(c)
    BY <1>b, <2>2
  <2> QED BY <2>1, <2>3, <2>4, OthersConflict DEF ConflictOk
<1>8. CASE Mine \/ UNCHANGED vars
  BY <1>8 DEF Mine, vars, ConflictOk, Used
<1> QED BY <1>1, <1>2, <1>3, <1>4, <1>5, <1>6, <1>7, <1>8 DEF Next, Step

-----------------------------------------------------------------------------
(* How often a call pays                                                   *)

Owned(c) == {n \in Nonce : owner[n] = c}

\* The attempt a call is at has sent its transaction, or ended.
AttemptOver(c) == call[c].pc \in {"receipt", "wait", "returned", "failed"}

\* A transaction needs an attempt: those followed by another, and the last.
CopiesOk ==
    \A c \in Call :
        Cardinality(Owned(c)) <= Used(c) + (IF AttemptOver(c) THEN 1 ELSE 0)

LEMMA OwnedFinite ==
    ASSUME NEW S \in SUBSET Nonce
    PROVE  IsFiniteSet(S) /\ Cardinality(S) \in Nat
<1>1. IsFiniteSet(Nonce)
  BY NonceAssumption, FS_Interval DEF Nonce
<1> QED BY <1>1, FS_Subset, FS_CardinalityType

LEMMA CopiesOkInit == Init => CopiesOk
<1> SUFFICES ASSUME Init, NEW c \in Call
             PROVE  Cardinality(Owned(c)) <= Used(c) + (IF AttemptOver(c) THEN 1 ELSE 0)
  BY DEF CopiesOk
<1>1. Owned(c) = {}
  BY CallAssumption DEF Init, Owned
<1>2. Cardinality(Owned(c)) = 0
  BY <1>1, FS_EmptySet
<1>3. Used(c) = 0
  BY RetryAssumption DEF Init, Used
<1> QED BY <1>2, <1>3

LEMMA CopiesOkStep == TypeOK /\ RetryOk /\ CopiesOk /\ [Next]_vars => CopiesOk'
<1> SUFFICES ASSUME TypeOK, RetryOk, CopiesOk, [Next]_vars PROVE CopiesOk'
  OBVIOUS
<1>a. /\ owner \in [Nonce -> Call \cup {NoCall}]
      /\ call \in [Call -> CallState]
  BY DEF TypeOK
<1>b. \A c \in Call : /\ Used(c) \in Nat /\ Cardinality(Owned(c)) \in Nat
                      /\ Cardinality(Owned(c)) <= Used(c) + (IF AttemptOver(c) THEN 1 ELSE 0)
  <2>1. \A c \in Call : Used(c) \in Nat
    BY <1>a, RetryAssumption DEF CallState, Used
  <2>2. \A c \in Call : Owned(c) \in SUBSET Nonce
    BY DEF Owned
  <2> QED BY <2>1, <2>2, OwnedFinite DEF CopiesOk
\* A step that leaves the chain alone keeps the bound if it ends the attempt, or
\* does not take back that it ended, or counts it.
<1>c. ASSUME UNCHANGED owner, NEW c \in Call,
             \A d \in Call : d # c => call'[d] = call[d],
             \/ Used(c)' = Used(c) /\ (AttemptOver(c) => AttemptOver(c)')
             \/ Used(c)' = Used(c) + 1
      PROVE  CopiesOk'
  <2> SUFFICES ASSUME NEW d \in Call
               PROVE  Cardinality(Owned(d)') <=
                         Used(d)' + (IF AttemptOver(d)' THEN 1 ELSE 0)
    BY DEF CopiesOk
  <2>1. Owned(d)' = Owned(d)
    BY <1>c DEF Owned
  <2>2. CASE d # c
    <3>1. Used(d)' = Used(d) /\ AttemptOver(d)' = AttemptOver(d)
      BY <1>c, <2>2 DEF Used, AttemptOver
    <3> QED BY <1>b, <2>1, <3>1
  <2>3. CASE d = c
    BY <1>b, <1>c, <2>1, <2>3
  <2> QED BY <2>2, <2>3
<1>1. ASSUME NEW c \in Call, NEW t \in BOOLEAN, NEW s \in BOOLEAN, Error(c, t, s),
             UNCHANGED owner
      PROVE  CopiesOk'
  <2>1. /\ call'[c].pc \in {"wait", "failed"} /\ call'[c].retry = call[c].retry
        /\ \A d \in Call : d # c => call'[d] = call[d]
    BY <1>1, <1>a DEF Error, CallState
  <2>2. Used(c)' = Used(c) /\ AttemptOver(c)'
    BY <2>1 DEF Used, AttemptOver
  <2> QED BY <1>1, <1>c, <2>1, <2>2
<1>2. ASSUME NEW c \in Call,
             \/ \E kind \in {"COIN", "TOKEN"} : Start(c, kind)
             \/ ReadLatest(c) \/ ReadPending(c)
      PROVE  CopiesOk'
  <2>1. /\ call[c].pc \in {"new", "latest", "pending"}
        /\ call'[c].retry = call[c].retry /\ UNCHANGED owner
        /\ \A d \in Call : d # c => call'[d] = call[d]
    BY <1>2, <1>a DEF Start, ReadLatest, ReadPending, CallState
  <2>2. Used(c)' = Used(c) /\ ~AttemptOver(c)
    BY <2>1 DEF Used, AttemptOver
  <2> QED BY <1>c, <2>1, <2>2
<1>3. ASSUME NEW c \in Call, Retry(c)
      PROVE  CopiesOk'
  <2>1. /\ call'[c].retry = call[c].retry - 1 /\ UNCHANGED owner
        /\ \A d \in Call : d # c => call'[d] = call[d]
    BY <1>3, <1>a DEF Retry, CallState
  <2>2. Used(c)' = Used(c) + 1
    <3>1. call[c].retry \in Int
      BY <1>a, RetryAssumption DEF CallState
    <3> QED BY <2>1, <3>1, RetryAssumption DEF Used
  <2> QED BY <1>c, <2>1, <2>2
<1>4. ASSUME NEW c \in Call, Send(c)
      PROVE  CopiesOk'
  <2>1. CASE Error(c, TRUE, FALSE) /\ UNCHANGED owner
    BY <1>1, <2>1
  <2>2. CASE /\ owner[call[c].nonce] = NoCall
             /\ owner' = [owner EXCEPT ![call[c].nonce] = c]
             /\ Goto(c, "receipt")
    <3> DEFINE n == call[c].nonce
    <3>1. n \in Nonce /\ call[c].pc = "send"
      BY <1>4, <1>a, NonceAssumption DEF Send, CallState, Count, Nonce
    <3>2. \A k \in Nonce : owner'[k] = (IF k = n THEN c ELSE owner[k])
      BY <1>a, <2>2
    <3>3. owner[n] = NoCall
      BY <2>2
    <3>4. /\ call'[c].pc = "receipt" /\ call'[c].retry = call[c].retry
          /\ \A d \in Call : d # c => call'[d] = call[d]
      BY <1>a, <2>2 DEF Goto, CallState
    <3> HIDE DEF n
    <3>5. Owned(c)' = Owned(c) \cup {n} /\ n \notin Owned(c)
      BY <3>1, <3>2, <3>3, CallAssumption DEF Owned
    <3>6. Cardinality(Owned(c)') = Cardinality(Owned(c)) + 1
      <4>1. IsFiniteSet(Owned(c))
        BY OwnedFinite DEF Owned
      <4> QED BY <3>5, <4>1, FS_AddElement
    <3>7. Used(c)' = Used(c) /\ ~AttemptOver(c) /\ AttemptOver(c)'
      BY <3>1, <3>4 DEF Used, AttemptOver
    <3>8. \A d \in Call : d # c =>
             Owned(d)' = Owned(d) /\ Used(d)' = Used(d) /\ AttemptOver(d)' = AttemptOver(d)
      BY <3>2, <3>3, <3>4, CallAssumption DEF Owned, Used, AttemptOver
    <3> SUFFICES ASSUME NEW d \in Call
                 PROVE  Cardinality(Owned(d)') <=
                           Used(d)' + (IF AttemptOver(d)' THEN 1 ELSE 0)
      BY DEF CopiesOk
    <3>9. CASE d = c
      BY <1>b, <3>6, <3>7, <3>9
    <3>10. CASE d # c
      BY <1>b, <3>8, <3>10
    <3> QED BY <3>9, <3>10
  <2> QED BY <1>4, <2>1, <2>2 DEF Send
<1>5. ASSUME NEW c \in Call, Receive(c)
      PROVE  CopiesOk'
  <2>1. CASE Error(c, FALSE, FALSE)
    BY <1>1, <1>5, <2>1 DEF Receive
  <2>2. CASE Goto(c, "returned")
    <3>1. /\ call'[c].pc = "returned" /\ call'[c].retry = call[c].retry
          /\ \A d \in Call : d # c => call'[d] = call[d]
      BY <1>a, <2>2 DEF Goto, CallState
    <3>2. Used(c)' = Used(c) /\ AttemptOver(c)' /\ UNCHANGED owner
      BY <1>5, <3>1 DEF Used, AttemptOver, Receive
    <3> QED BY <1>c, <3>1, <3>2
  <2> QED BY <1>5, <2>1, <2>2 DEF Receive
<1>6. ASSUME NEW c \in Call, LoseReceipt(c) \/ FailAttempt(c)
      PROVE  CopiesOk'
  BY <1>1, <1>6 DEF LoseReceipt, FailAttempt
<1>7. CASE Mine \/ UNCHANGED vars
  BY <1>7 DEF Mine, vars, CopiesOk, Owned, Used, AttemptOver
<1> QED BY <1>1, <1>2, <1>3, <1>4, <1>5, <1>6, <1>7 DEF Next, Step

-----------------------------------------------------------------------------
(* The theorems                                                            *)

Inv == NonceInv /\ RetryOk /\ PaidOk /\ ConflictOk /\ CopiesOk

LEMMA Inductive == Spec => []Inv
<1>1. Init => RetryOk
  BY DEF Init, RetryOk
<1>2. Init => Inv
  BY <1>1, NonceInvInit, PaidOkInit, ConflictOkInit, CopiesOkInit DEF Inv
<1>3. Inv /\ [Next]_vars => Inv'
  BY NonceInvStep, RetryOkStep, PaidOkStep, ConflictOkStep, CopiesOkStep
     DEF Inv, NonceInv
<1> QED BY <1>2, <1>3, PTL DEF Spec

\* Every reachable state is well typed.
THEOREM TypeCorrect == Spec => []TypeOK
<1>1. Inv => TypeOK
  BY DEF Inv, NonceInv
<1> QED BY <1>1, Inductive, PTL

\* The nonces that overlapping attempts use have no gap (getTransactionCount).
THEOREM NoNonceGapCorrect == Spec => []NoNonceGap
<1>1. Inv => NoNonceGap
  BY DEF Inv, NonceInv
<1> QED BY <1>1, Inductive, PTL

\* What sendToken and transaction report is what has happened, unless an answer
\* was lost.
THEOREM PaidAsReportedCorrect == Spec => []PaidAsReported
<1>1. Inv => PaidAsReported
  <2> SUFFICES ASSUME PaidOk PROVE PaidAsReported
    BY DEF Inv
  <2> QED BY DEF PaidOk, PaidAsReported
<1> QED BY <1>1, Inductive, PTL

\* A call pays at most once for each of its attempts (sendToken).
THEOREM CopiesBoundCorrect == Spec => []CopiesBound
<1>1. Inv => CopiesBound
  <2> SUFFICES ASSUME TypeOK, RetryOk, CopiesOk, NEW c \in Call
               PROVE  Cardinality(Paid(c)) <= Attempts(c)
    BY DEF Inv, NonceInv, CopiesBound
  <2>1. Paid(c) \in SUBSET Owned(c) /\ Owned(c) \in SUBSET Nonce
    BY DEF Paid, Owned
  <2>2. Cardinality(Paid(c)) <= Cardinality(Owned(c))
    BY <2>1, OwnedFinite, FS_Subset
  <2>3. /\ call[c].retry \in 0 .. RetryCount /\ call[c].kind \in {"COIN", "TOKEN"}
        /\ call[c].kind = "COIN" => call[c].retry = RetryCount
    BY DEF TypeOK, RetryOk, CallState
  <2>4. Used(c) + 1 <= Attempts(c) /\ Used(c) \in Nat /\ Attempts(c) \in Nat
    BY <2>3, RetryAssumption DEF Used, Attempts
  <2>5. Cardinality(Owned(c)) <= Used(c) + 1
    BY <2>1, <2>4, OwnedFinite DEF CopiesOk
  <2>6. Cardinality(Paid(c)) \in Nat /\ Cardinality(Owned(c)) \in Nat
    BY <2>1, OwnedFinite
  <2> QED BY <2>2, <2>4, <2>5, <2>6
<1> QED BY <1>1, Inductive, PTL

\* A call that met only nonces that were taken gives up only after as many
\* transactions of others as it has attempts (sendToken, the pending count).
THEOREM ConflictsResolvedCorrect == Spec => []ConflictsResolved
<1>1. Inv => ConflictsResolved
  <2> SUFFICES ASSUME NonceInv, RetryOk, ConflictOk, NEW c \in Call,
                      call[c].pc = "failed", ~call[c].faulty
               PROVE  Cardinality({n \in Nonce : owner[n] \notin {c, NoCall}})
                         >= Attempts(c)
    BY DEF Inv, ConflictsResolved
  <2> DEFINE Others == {n \in Nonce : owner[n] \notin {c, NoCall}}
             x == call[c].nonce
  <2>1. /\ x >= Used(c) /\ x \in Nonce /\ owner[x] # NoCall
        /\ \A n \in Nonce : owner[n] # c
    BY DEF ConflictOk
  <2>2. /\ call[c].retry \in 0 .. RetryCount /\ call[c].kind \in {"COIN", "TOKEN"}
        /\ call[c].kind = "COIN" => call[c].retry = RetryCount
        /\ call[c].kind = "TOKEN" => call[c].retry = 0
    BY DEF NonceInv, TypeOK, RetryOk, CallState
  <2>3. Attempts(c) = Used(c) + 1 /\ Used(c) \in Nat
    BY <2>2, RetryAssumption DEF Used, Attempts
  <2>4. x \in Nat /\ 0 .. x \subseteq Nonce
    BY <2>1, NonceAssumption DEF Nonce
  <2>5. 0 .. x \subseteq Others
    BY <2>1, <2>4 DEF NonceInv, NoNonceGap
  <2>6. IsFiniteSet(Others) /\ Cardinality(Others) \in Nat
    BY OwnedFinite
  <2> HIDE DEF Others, x
  <2>7. Cardinality(0 .. x) <= Cardinality(Others)
    BY <2>5, <2>6, FS_Subset
  <2>8. Cardinality(0 .. x) = x + 1
    BY <2>4, FS_Interval
  <2>9. Cardinality(Others) >= Attempts(c)
    BY <2>1, <2>3, <2>4, <2>6, <2>7, <2>8
  <2> QED BY <2>9 DEF Others
<1> QED BY <1>1, Inductive, PTL
=============================================================================
