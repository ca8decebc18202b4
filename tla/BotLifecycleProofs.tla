------------------------- MODULE BotLifecycleProofs -------------------------
(***************************************************************************)
(* Theorems about BotLifecycle, for any number of handlers, requests and   *)
(* groups and any bounds.                                                  *)
(***************************************************************************)
EXTENDS BotLifecycle, SumTheorems, WellFoundedInduction

-----------------------------------------------------------------------------
(* The operators the actions are built from                                *)

\* Flags as set() makes them stay within what set() makes.
LEMMA SetStopPublished ==
    ASSUME NEW f \in Published \cup {NoInstance}, NEW a \in AssetType
    PROVE  SetStop(f, TRUE, a) \in Published
BY DEF Published, NoInstance, SetStop, NewInstance, UpdateCoinAndToken,
       Instance, AssetType

LEMMA NoInstanceNotPublished == NoInstance \notin Published
BY DEF NoInstance, Published

LEMMA TxIsMsg == \A g \in Group, a \in AssetType : Tx(g, a) \in Msg
BY DEF Msg, TxMsg

LEMMA StopIsMsg ==
    \A g \in Group \cup {NullGroup}, i \in Published : Stop(g, i) \in Msg
BY DEF Msg, StopMsg

LEMMA MsgFields ==
    \A m \in Msg : /\ m.group \in Group \cup {NullGroup}
                   /\ m.kind \in AssetType \cup {"STOP"}
                   /\ m.kind \in AssetType => m \in TxMsg /\ m.group \in Group
                   /\ m.kind = "STOP" => m \in StopMsg
BY DEF Msg, TxMsg, StopMsg, Tx, Stop, AssetType

LEMMA HoldingType ==
    ASSUME NEW m, NEW W \in SUBSET Worker
    PROVE  Holding(m, W) \in Nat
<1>1. IsFiniteSet({w \in W : Busy(w) /\ job[w].msg = m})
  BY WorkerAssumption, FS_Subset
<1>2. QED BY <1>1, FS_CardinalityType DEF Holding

\* A set of group ids has a largest one.
LEMMA LastIdType ==
    ASSUME NEW S \in SUBSET Group
    PROVE  /\ LastId(S) \in Group \cup {NullGroup}
           /\ S # {} => LastId(S) \in S
<1>1. CASE S = {}
  BY <1>1 DEF LastId
<1>2. CASE S # {}
  <2> DEFINE R == {ss \in Nat \X Nat : ss[1] < ss[2]}
             T == {MaxGroups - g : g \in S}
  <2>1. T \subseteq Nat
    BY GroupsAssumption DEF Group
  <2>2. T # {}
    BY <1>2
  <2>3. IsWellFoundedOn(R, Nat)
    BY NatLessThanWellFounded DEF OpToRel
  <2>4. \E x \in T : \A y \in T : ~(<<y, x>> \in R)
    <3> HIDE DEF R, T
    <3> QED BY <2>1, <2>2, <2>3, WFMin
  <2>5. PICK x \in T : \A y \in T : ~(<<y, x>> \in R)
    BY <2>4
  <2>6. PICK g \in S : x = MaxGroups - g
    BY <2>5
  <2>7. \A h \in S : h <= g
    <3> SUFFICES ASSUME NEW h \in S PROVE h <= g
      OBVIOUS
    <3>1. ~(<<MaxGroups - h, MaxGroups - g>> \in R)
      BY <2>5, <2>6
    <3>2. /\ MaxGroups - h \in Nat
          /\ MaxGroups - g \in Nat
          /\ h \in Int
          /\ g \in Int
      BY GroupsAssumption DEF Group
    <3>3. ~(MaxGroups - h < MaxGroups - g)
      BY <3>1, <3>2
    <3> QED BY <3>2, <3>3, GroupsAssumption
  <2> QED BY <1>2, <2>6, <2>7 DEF LastId
<1>3. QED BY <1>1, <1>2

\* Publishing keeps the types of the queues and of the history of losses.
LEMMA SendMessageType ==
    ASSUME ready \in [Msg -> Nat], dropped \subseteq Msg,
           NEW m \in Msg, SendMessage(m)
    PROVE  ready' \in [Msg -> Nat] /\ dropped' \subseteq Msg
BY DEF SendMessage

LEMMA SendTwoMessagesType ==
    ASSUME ready \in [Msg -> Nat], dropped \subseteq Msg,
           NEW m \in Msg, NEW n \in Msg, SendTwoMessages(m, n)
    PROVE  ready' \in [Msg -> Nat] /\ dropped' \subseteq Msg
BY DEF SendTwoMessages

LEMMA SendAllExecuteType ==
    ASSUME ready \in [Msg -> Nat], dropped \subseteq Msg,
           NEW g \in Group, SendAllExecute(g)
    PROVE  ready' \in [Msg -> Nat] /\ dropped' \subseteq Msg
<1>1. Tx(g, "COIN") \in Msg /\ Tx(g, "TOKEN") \in Msg
  BY TxIsMsg DEF AssetType
<1>2. QED BY <1>1, SendTwoMessagesType DEF SendAllExecute

Flags == [Group \cup {NullGroup} -> Published \cup {NoInstance}]

\* What sendAllStopMessage publishes are messages of the queue, and the flag
\* it leaves is up.
LEMMA SendAllStopType ==
    ASSUME ready \in [Msg -> Nat], dropped \subseteq Msg, flag \in Flags,
           NEW g \in Group \cup {NullGroup}, SendAllStop(g)
    PROVE  /\ ready' \in [Msg -> Nat] /\ dropped' \subseteq Msg
           /\ flag' \in Flags
           /\ Stopped(g)'
           /\ \A h \in Group \cup {NullGroup} : Stopped(h) => Stopped(h)'
<1> DEFINE coin == SetStop(flag[g], TRUE, "COIN")
           both == SetStop(coin, TRUE, "TOKEN")
<1>1. coin \in Published
  BY SetStopPublished DEF Flags, AssetType
<1>2. both \in Published
  BY <1>1, SetStopPublished DEF AssetType
<1>3. Stop(g, coin) \in Msg /\ Stop(g, both) \in Msg
  BY <1>1, <1>2, StopIsMsg
<1>4. SendTwoMessages(Stop(g, coin), Stop(g, both)) /\ flag' = [flag EXCEPT ![g] = both]
  BY DEF SendAllStop
<1>5. both # NoInstance
  BY <1>2, NoInstanceNotPublished
<1> HIDE DEF coin, both
<1>6. ready' \in [Msg -> Nat] /\ dropped' \subseteq Msg
  BY <1>3, <1>4, SendTwoMessagesType
<1>7. flag' \in Flags
  BY <1>2, <1>4 DEF Flags
<1>8. Stopped(g)' /\ \A h \in Group \cup {NullGroup} : Stopped(h) => Stopped(h)'
  BY <1>4, <1>5 DEF Flags, Stopped, IsTransactionStopped
<1>9. QED BY <1>6, <1>7, <1>8

-----------------------------------------------------------------------------
(* Type correctness                                                        *)

JobType ==
    /\ job \in [Worker -> [pc : JobPc, msg : Msg \cup {NoMsg},
                           round : 0 .. PollRounds, try : 0 .. RetryCount,
                           held : BOOLEAN]]
    /\ \A w \in Worker : /\ Busy(w) => job[w].msg \in Msg
                         /\ job[w].held => Busy(w)

LEMMA GotoType ==
    ASSUME JobType, NEW w \in Worker, Busy(w), NEW p \in JobPc, p # "idle",
           Goto(w, p)
    PROVE  JobType'
BY DEF JobType, Busy, Goto

LEMMA FinishType ==
    ASSUME JobType, NEW w \in Worker, Finish(w)
    PROVE  JobType'
BY RoundsAssumption, RetryAssumption DEF JobType, Busy, Finish, Idle, JobPc

LEMMA ThrowType ==
    ASSUME JobType, dropped \subseteq Msg, NEW w \in Worker, Busy(w), Throw(w)
    PROVE  JobType' /\ dropped' \subseteq Msg
<1>1. CASE job[w].try < RetryCount
  BY <1>1, RoundsAssumption, RetryAssumption DEF JobType, Busy, Throw, JobPc
<1>2. CASE ~(job[w].try < RetryCount)
  <2>1. Finish(w) /\ dropped' = dropped \cup {m \in {job[w].msg} : job[w].held}
    BY <1>2 DEF Throw
  <2>2. job[w].msg \in Msg
    BY DEF JobType
  <2>3. QED BY <2>1, <2>2, FinishType
<1>3. QED BY <1>1, <1>2

\* A handler that starts its first wait, or its next one
LEMMA RoundType ==
    ASSUME JobType, NEW w \in Worker, Busy(w), NEW r \in 0 .. PollRounds,
           NEW p \in JobPc, p # "idle",
           job' = [job EXCEPT ![w].pc = p, ![w].round = r]
    PROVE  JobType'
BY DEF JobType, Busy

QueueType == ready \in [Msg -> Nat] /\ dropped \subseteq Msg

\* A handler's steps keep the types of what a handler writes.
LEMMA HandleType ==
    ASSUME JobType, QueueType, row \in [Group -> {"none", "live", "deleted"}],
           attached \in [Group -> BOOLEAN], NEW w \in Worker, Handle(w)
    PROVE  /\ JobType' /\ QueueType'
           /\ row' \in [Group -> {"none", "live", "deleted"}]
           /\ attached' \in [Group -> BOOLEAN]
<1> USE DEF QueueType
<1>0. Busy(w) /\ job[w].msg \in Msg
  BY DEF Handle, StartTx, Poll, LastWait, Load, Spend, StartStop, Settle,
         DeleteAccount, DetachAccounts, Busy, JobType
<1>r. 1 \in 0 .. PollRounds
  BY RoundsAssumption
<1>1. CASE StartTx(w)
  <2>1. JobType'
    BY <1>0, <1>1, <1>r, GotoType, RoundType DEF StartTx, JobPc
  <2>2. QED BY <1>1, <2>1 DEF StartTx, db, Elsewhere
<1>2. CASE Poll(w)
  <2>1. job[w].round + 1 \in 0 .. PollRounds
    BY <1>2, RoundsAssumption DEF Poll, JobType
  <2>2. CASE Stopped(JobGroup(w))
    BY <1>2, <2>2, FinishType DEF Poll, db
  <2>3. CASE ~Stopped(JobGroup(w))
    BY <1>2, <1>0, <2>1, <2>3 DEF Poll, db, JobType, Busy
  <2>4. QED BY <2>2, <2>3
<1>3. CASE LastWait(w)
  <2>1. CASE job[w].msg.kind = "COIN"
    BY <1>0, <1>3, <2>1, GotoType DEF LastWait, JobPc, db
  <2>2. CASE job[w].msg.kind # "COIN"
    BY <1>0, <1>3, <2>2, FinishType, SendMessageType DEF LastWait, db
  <2>3. QED BY <2>1, <2>2
<1>4. CASE Load(w)
  <2>1. CASE row[JobGroup(w)] = "none"
    BY <1>0, <1>4, <2>1, ThrowType DEF Load, db
  <2>2. CASE row[JobGroup(w)] # "none"
    BY <1>0, <1>4, <2>2, GotoType DEF Load, db, JobPc
  <2>3. QED BY <2>1, <2>2
<1>5. CASE Spend(w)
  <2>1. CASE Finish(w) /\ SendMessage(job[w].msg)
    BY <1>0, <1>5, <2>1, FinishType, SendMessageType DEF Spend, db
  <2>2. CASE Finish(w) /\ UNCHANGED <<ready, dropped>>
    BY <1>5, <2>2, FinishType DEF Spend, db
  <2>3. CASE /\ job' = [job EXCEPT ![w].pc = "wait", ![w].round = 1]
             /\ UNCHANGED <<ready, dropped>>
    BY <1>0, <1>5, <1>r, <2>3, RoundType DEF Spend, db, JobPc
  <2>4. QED BY <1>5, <2>1, <2>2, <2>3 DEF Spend
<1>6. CASE StartStop(w)
  <2>1. CASE Throw(w)
    BY <1>0, <1>6, <2>1, ThrowType DEF StartStop, db
  <2>2. CASE Goto(w, "settle") /\ UNCHANGED dropped
    BY <1>0, <1>6, <2>2, GotoType DEF StartStop, db, JobPc
  <2>3. CASE Finish(w) /\ UNCHANGED dropped
    BY <1>6, <2>3, FinishType DEF StartStop, db
  <2>4. QED BY <1>6, <2>1, <2>2, <2>3 DEF StartStop
<1>7. CASE Settle(w)
  <2>1. JobType'
    BY <1>0, <1>7, GotoType, FinishType DEF Settle, JobPc
  <2>2. QED BY <1>7, <2>1 DEF Settle, db
<1>8. CASE DeleteAccount(w)
  <2>1. JobType'
    BY <1>0, <1>8, GotoType DEF DeleteAccount, JobPc
  <2>2. QED BY <1>8, <2>1 DEF DeleteAccount
<1>9. CASE DetachAccounts(w)
  <2>1. JobType'
    BY <1>9, FinishType DEF DetachAccounts
  <2>2. QED BY <1>9, <2>1 DEF DetachAccounts
<1>10. QED BY <1>1, <1>2, <1>3, <1>4, <1>5, <1>6, <1>7, <1>8, <1>9 DEF Handle

\* Every reachable state is well typed, whatever the bounds.
THEOREM TypeCorrect == Spec => []TypeOK
<1>1. Init => TypeOK
  BY GroupsAssumption, RoundsAssumption, RetryAssumption, BoundsAssumption
     DEF Init, TypeOK, Idle, Busy, JobPc, Group
<1>2. TypeOK /\ [Next]_vars => TypeOK'
  <2> SUFFICES ASSUME TypeOK, [Next]_vars PROVE TypeOK'
    OBVIOUS
  <2> USE DEF budget
  <2>0. /\ JobType /\ QueueType /\ flag \in Flags
        /\ row \in [Group -> {"none", "live", "deleted"}]
        /\ attached \in [Group -> BOOLEAN]
    BY DEF TypeOK, JobType, QueueType, Flags
  <2>a. ASSUME JobType', QueueType', flag' \in Flags,
               row' \in [Group -> {"none", "live", "deleted"}],
               attached' \in [Group -> BOOLEAN],
               UNCHANGED <<nextId, Elsewhere>>
        PROVE  TypeOK'
    BY <2>a DEF TypeOK, JobType, QueueType, Flags, Elsewhere
  <2>1. CASE Start
    BY <2>1 DEF Start, TypeOK, db, Busy
  <2>2. CASE ConnectChannel
    BY <2>2 DEF ConnectChannel, TypeOK, db, Busy
  <2>3. CASE InitGroupIds
    BY <2>3 DEF InitGroupIds, TypeOK, db, Busy, LiveRows
  <2>4. CASE InitDeleteIds
    BY <2>4 DEF InitDeleteIds, TypeOK, db, Busy
  <2>5. CASE BootDone
    BY <2>5 DEF BootDone, TypeOK, db, Busy
  <2>6. ASSUME NEW g \in Group, SendStartupStop(g)
        PROVE  TypeOK'
    <3>1. QueueType' /\ flag' \in Flags
      BY <2>0, <2>6, SendAllStopType DEF SendStartupStop, QueueType
    <3>2. QED BY <2>6, <3>1 DEF SendStartupStop, TypeOK, db, Busy, QueueType, Flags
  <2>7. ASSUME NEW g \in Group, SendAllExecuteMessage(g)
        PROVE  TypeOK'
    <3>1. QueueType'
      BY <2>0, <2>7, SendAllExecuteType DEF SendAllExecuteMessage, QueueType
    <3>2. QED BY <2>7, <3>1 DEF SendAllExecuteMessage, TypeOK, db, Busy, QueueType
  <2>8. CASE CloseChannel
    BY <2>8, BoundsAssumption DEF CloseChannel, TypeOK, db, Busy
  <2>9. CASE ReopenChannel
    BY <2>9 DEF ReopenChannel, TypeOK, db, Busy
  <2>10. CASE Crash
    <3>1. ready' \in [Msg -> Nat]
      <4>1. PICK P, A \in SUBSET {w \in Worker : AtPublish(w)} :
               ready' = [m \in Msg |-> ready[m] + Holding(m, Held \ A)
                                               + Holding(m, P)]
        BY <2>10 DEF Crash
      <4>2. \A m \in Msg : Holding(m, Held \ A) \in Nat /\ Holding(m, P) \in Nat
        BY HoldingType DEF Held
      <4>3. \A m \in Msg : ready[m] + Holding(m, Held \ A) + Holding(m, P) \in Nat
        <5> SUFFICES ASSUME NEW m \in Msg
                     PROVE  ready[m] + Holding(m, Held \ A) + Holding(m, P) \in Nat
          OBVIOUS
        <5>1. ready[m] \in Nat
          BY <2>0 DEF QueueType
        <5>2. Holding(m, Held \ A) \in Nat /\ Holding(m, P) \in Nat
          BY <4>2
        <5>3. QED BY ONLY <5>1, <5>2
      <4>4. QED BY <4>1, <4>3
    <3>2. JobType'
      BY <2>10, RoundsAssumption, RetryAssumption
         DEF Crash, JobType, Idle, Busy, JobPc
    <3>3. crashes' \in 0 .. MaxCrashes
      BY <2>10, BoundsAssumption DEF Crash, TypeOK
    <3>4. QED BY <2>10, <3>1, <3>2, <3>3 DEF Crash, TypeOK, db, JobType
  <2>11. CASE CreateAccountGroup
    BY <2>11, GroupsAssumption DEF CreateAccountGroup, TypeOK, Busy, Group
  <2>12. ASSUME NEW s \in Stopper, GetLastGroupId(s)
         PROVE  TypeOK'
    <3>1. LastId(LiveRows) \in Group \cup {NullGroup}
      BY LastIdType DEF LiveRows
    <3>2. QED BY <2>12, <3>1, BoundsAssumption DEF GetLastGroupId, TypeOK, db, Busy
  <2>13. ASSUME NEW s \in Stopper, UpdateIsDeleted(s)
         PROVE  TypeOK'
    BY <2>13 DEF UpdateIsDeleted, TypeOK, Busy
  <2>14. ASSUME NEW s \in Stopper, FindStopGroup(s)
         PROVE  TypeOK'
    BY <2>14 DEF FindStopGroup, TypeOK, db, Busy
  <2>15. ASSUME NEW s \in Stopper, SendAllStopMessage(s)
         PROVE  TypeOK'
    <3>1. stopper[s].group \in Group \cup {NullGroup}
      BY DEF TypeOK
    <3>2. QueueType' /\ flag' \in Flags
      BY <2>0, <2>15, <3>1, SendAllStopType DEF SendAllStopMessage, QueueType
    <3>3. QED BY <2>15, <3>2 DEF SendAllStopMessage, TypeOK, db, Busy, QueueType, Flags
  <2>16. ASSUME NEW s \in Stopper, FailStop(s)
         PROVE  TypeOK'
    BY <2>16, BoundsAssumption DEF FailStop, TypeOK, db, Busy
  <2>17. ASSUME NEW w \in Worker, NEW m \in Msg, Deliver(w, m)
         PROVE  TypeOK'
    <3>1. QueueType'
      BY <2>0, <2>17 DEF Deliver, QueueType
    <3>2. JobType'
      BY <2>0, <2>17, RoundsAssumption, RetryAssumption DEF Deliver, JobType, Busy, JobPc
    <3>3. QED BY <2>17, <2>0, <3>1, <3>2, <2>a DEF Deliver, db, Elsewhere
  <2>18. ASSUME NEW w \in Worker, Handle(w)
         PROVE  TypeOK'
    <3>1. UNCHANGED <<nextId, flag, Elsewhere>>
      BY <2>18 DEF Handle, StartTx, Poll, LastWait, Load, Spend, StartStop,
                   Settle, DeleteAccount, DetachAccounts, db
    <3>2. QED BY <2>0, <2>18, <3>1, <2>a, HandleType
  <2>19. ASSUME NEW w \in Worker, Fail(w)
         PROVE  TypeOK'
    <3>1. JobType' /\ dropped' \subseteq Msg
      BY <2>0, <2>19, ThrowType DEF Fail, Busy, QueueType
    <3>2. fails' \in 0 .. MaxFails
      BY <2>19, BoundsAssumption DEF Fail, TypeOK
    <3>3. QED BY <2>19, <3>1, <3>2 DEF Fail, TypeOK, db, JobType
  <2>20. ASSUME NEW w \in Worker, ReturnToQueue(w)
         PROVE  TypeOK'
    <3>1. job[w].msg \in Msg /\ Busy(w)
      BY <2>20 DEF ReturnToQueue, TypeOK
    <3>2. QueueType'
      BY <2>0, <2>20, <3>1 DEF ReturnToQueue, QueueType
    <3>3. JobType'
      BY <2>0, <2>20, <3>1 DEF ReturnToQueue, JobType, Busy
    <3>4. returns' \in 0 .. MaxReturns
      BY <2>20, BoundsAssumption DEF ReturnToQueue, TypeOK
    <3>5. QED
      BY <2>20, <3>2, <3>3, <3>4 DEF ReturnToQueue, TypeOK, db, JobType, QueueType
  <2>21. CASE UNCHANGED vars
    BY <2>21 DEF vars, db, TypeOK, Busy
  <2>22. QED
    BY <2>1, <2>2, <2>3, <2>4, <2>5, <2>6, <2>7, <2>8, <2>9, <2>10, <2>11,
       <2>12, <2>13, <2>14, <2>15, <2>16, <2>17, <2>18, <2>19, <2>20, <2>21
       DEF Next, Boot, Request
<1>3. QED BY <1>1, <1>2, PTL DEF Spec

-----------------------------------------------------------------------------
(* The broker's copy of a message                                          *)

LEMMA HoldingPositive ==
    ASSUME NEW m, NEW W \in SUBSET Worker
    PROVE  Holding(m, W) > 0 <=> \E w \in W : Busy(w) /\ job[w].msg = m
<1> DEFINE H == {w \in W : Busy(w) /\ job[w].msg = m}
<1>1. IsFiniteSet(H)
  BY WorkerAssumption, FS_Subset
<1>2. Cardinality(H) \in Nat /\ (Cardinality(H) = 0 <=> H = {})
  BY <1>1, FS_CardinalityType, FS_EmptySet
<1>3. Holding(m, W) = Cardinality(H)
  BY DEF Holding
<1>4. H # {} <=> \E w \in W : Busy(w) /\ job[w].msg = m
  OBVIOUS
<1> HIDE DEF H
<1>5. QED BY <1>2, <1>3, <1>4

\* Publishing takes nothing from the queues, and what is published is there
\* or has been lost.
LEMMA SendMessageKeeps ==
    ASSUME QueueType, NEW n \in Msg, SendMessage(n)
    PROVE  /\ \A m \in Msg : ready[m] > 0 => ready'[m] > 0
           /\ \A m \in Msg : ready'[m] > 0 => ready[m] > 0 \/ m = n
           /\ dropped \subseteq dropped'
           /\ ready'[n] > 0 \/ n \in dropped'
<1>1. CASE channel = "open"
  BY <1>1 DEF QueueType, SendMessage
<1>2. CASE channel # "open"
  BY <1>2 DEF QueueType, SendMessage
<1>3. QED BY <1>1, <1>2

LEMMA SendTwoKeep ==
    ASSUME QueueType, NEW n \in Msg, NEW o \in Msg, SendTwoMessages(n, o)
    PROVE  /\ \A m \in Msg : ready[m] > 0 => ready'[m] > 0
           /\ \A m \in Msg : ready'[m] > 0 => ready[m] > 0 \/ m \in {n, o}
           /\ dropped \subseteq dropped'
           /\ ready'[n] > 0 \/ n \in dropped'
           /\ ready'[o] > 0 \/ o \in dropped'
<1>1. CASE channel = "open"
  BY <1>1 DEF QueueType, SendTwoMessages
<1>2. CASE channel # "open"
  BY <1>2 DEF QueueType, SendTwoMessages
<1>3. QED BY <1>1, <1>2

LEMMA SendAllStopKeeps ==
    ASSUME QueueType, flag \in Flags, NEW g \in Group \cup {NullGroup}, SendAllStop(g)
    PROVE  /\ \A m \in Msg : ready[m] > 0 => ready'[m] > 0
           /\ \A m \in Msg : ready'[m] > 0 => ready[m] > 0 \/ m.group = g
           /\ dropped \subseteq dropped'
<1> DEFINE coin == SetStop(flag[g], TRUE, "COIN")
           both == SetStop(coin, TRUE, "TOKEN")
<1>1. coin \in Published
  BY SetStopPublished DEF Flags, AssetType
<1>2. both \in Published
  BY <1>1, SetStopPublished DEF AssetType
<1>3. SendTwoMessages(Stop(g, coin), Stop(g, both))
  BY DEF SendAllStop
<1> HIDE DEF coin, both
<1>4. Stop(g, coin) \in Msg /\ Stop(g, both) \in Msg
  BY <1>1, <1>2, StopIsMsg
<1>5. Stop(g, coin).group = g /\ Stop(g, both).group = g
  BY DEF Stop
<1>6. QED BY <1>3, <1>4, <1>5, SendTwoKeep

\* A step of one handler that leaves the queues' messages where they are
\* can only give up the message that handler holds.
LEMMA OneHandlerKeeps ==
    ASSUME NEW w \in Worker, NEW m \in Msg, Carried(m),
           \A v \in Worker \ {w} : job'[v] = job[v],
           ready[m] > 0 => ready'[m] > 0
    PROVE  Carried(m)' \/ (job[w].held /\ job[w].msg = m)
BY DEF Carried

LEMMA GotoKeeps ==
    ASSUME JobType, NEW w \in Worker, NEW p, p # "idle", Goto(w, p)
    PROVE  /\ \A v \in Worker \ {w} : job'[v] = job[v]
           /\ Busy(w)' /\ job'[w].msg = job[w].msg /\ job'[w].pc = p
           /\ job'[w].held = job[w].held
BY DEF Goto, JobType, Busy

LEMMA FinishKeeps ==
    ASSUME JobType, NEW w \in Worker, Finish(w)
    PROVE  /\ \A v \in Worker \ {w} : job'[v] = job[v]
           /\ ~Busy(w)' /\ job'[w].pc = "idle"
BY DEF Finish, JobType, Busy, Idle

\* A handler that throws goes on with its message or leaves it in the history.
LEMMA ThrowKeeps ==
    ASSUME JobType, NEW w \in Worker, Throw(w)
    PROVE  /\ \A v \in Worker \ {w} : job'[v] = job[v]
           /\ dropped \subseteq dropped'
           /\ \/ /\ Busy(w)' /\ job'[w].msg = job[w].msg /\ job'[w].pc = "start"
                 /\ job'[w].held = job[w].held
              \/ /\ ~Busy(w)' /\ job'[w].pc = "idle"
                 /\ job[w].held => job[w].msg \in dropped'
<1>1. CASE job[w].try < RetryCount
  BY <1>1 DEF Throw, JobType, Busy
<1>2. CASE ~(job[w].try < RetryCount)
  BY <1>2, FinishKeeps DEF Throw
<1>3. QED BY <1>1, <1>2

-----------------------------------------------------------------------------
(* What a handler's step does to its message                               *)

\* Only chain messages wait, load and spend; one settles only under a flag; a
\* stop message gets past the test of isSafe only when it is safe.
HandlerOk(w) ==
    /\ job[w].pc \in {"wait", "load", "spend"} => job[w].msg.kind \in AssetType
    /\ job[w].pc = "settle" /\ job[w].msg.kind \in AssetType
           => Stopped(job[w].msg.group)
    /\ job[w].pc \in {"delete", "detach"}
           \/ (job[w].pc = "settle" /\ job[w].msg.kind = "STOP")
           => SafeStop(job[w].msg)

HandlersOk == \A w \in Worker : HandlerOk(w)

\* The reasons for which a handler may let go of its message for good
Ended(m) ==
    \/ m.kind \in AssetType /\ Stopped(m.group)
    \/ m.kind = "STOP" /\ (SafeStop(m) => ~attached'[m.group])

Ends(w) ==
    /\ \A v \in Worker \ {w} : job'[v] = job[v]
    /\ \A m \in Msg : ready[m] > 0 => ready'[m] > 0
    /\ \A m \in Msg : ready'[m] > 0 => ready[m] > 0 \/ m = job[w].msg
    /\ dropped \subseteq dropped'
    /\ \/ Busy(w)' /\ job'[w].msg = job[w].msg /\ job'[w].held = job[w].held
       \/ /\ ~Busy(w)'
          /\ \/ ~job[w].held
             \/ job[w].msg \in dropped'
             \/ ready'[job[w].msg] > 0
             \/ Ended(job[w].msg)
    /\ HandlerOk(w)'

LEMMA HandleEnds ==
    ASSUME TypeOK, HandlersOk, NEW w \in Worker, Handle(w) \/ Fail(w)
    PROVE  Ends(w) /\ Busy(w) /\ job[w].msg \in Msg
<1>0. JobType /\ QueueType
  BY DEF TypeOK, JobType, QueueType
<1>1. Busy(w) /\ job[w].msg \in Msg
  BY DEF Handle, StartTx, Poll, LastWait, Load, Spend, StartStop, Settle,
         DeleteAccount, DetachAccounts, Fail, Busy, TypeOK
<1>2. HandlerOk(w)
  BY DEF HandlersOk
<1>3. job[w].msg.kind \in AssetType \cup {"STOP"}
  BY <1>1, MsgFields
<1>4. ASSUME Throw(w), ready' = ready
      PROVE  Ends(w)
  <2>1. job'[w].pc \in {"start", "idle"}
    BY <1>0, <1>4, ThrowKeeps
  <2>2. HandlerOk(w)'
    BY <2>1 DEF HandlerOk
  <2>3. QED BY <1>0, <1>4, <2>2, ThrowKeeps DEF Ends
<1>5. ASSUME Finish(w), SendMessage(job[w].msg)
      PROVE  Ends(w)
  <2>1. HandlerOk(w)'
    BY <1>0, <1>5, FinishKeeps DEF HandlerOk
  <2>2. QED BY <1>0, <1>1, <1>5, <2>1, FinishKeeps, SendMessageKeeps DEF Ends
<1>6. ASSUME Finish(w), UNCHANGED <<ready, dropped>>, Ended(job[w].msg)
      PROVE  Ends(w)
  <2>1. HandlerOk(w)'
    BY <1>0, <1>6, FinishKeeps DEF HandlerOk
  <2>2. QED BY <1>0, <1>6, <2>1, FinishKeeps DEF Ends
<1>7. ASSUME NEW p \in {"load", "spend"}, Goto(w, p), UNCHANGED <<ready, dropped>>,
             job[w].msg.kind \in AssetType
      PROVE  Ends(w)
  <2>1. HandlerOk(w)'
    BY <1>0, <1>7, GotoKeeps DEF HandlerOk
  <2>2. QED BY <1>0, <1>7, <2>1, GotoKeeps DEF Ends
<1>8. ASSUME NEW r, job' = [job EXCEPT ![w].pc = "wait", ![w].round = r],
             UNCHANGED <<ready, dropped>>, job[w].msg.kind \in AssetType
      PROVE  Ends(w)
  BY <1>0, <1>8 DEF Ends, HandlerOk, JobType, Busy
<1>9. ASSUME Goto(w, "settle"), UNCHANGED <<ready, dropped, flag>>,
             \/ job[w].msg.kind \in AssetType /\ Stopped(job[w].msg.group)
             \/ SafeStop(job[w].msg)
      PROVE  Ends(w)
  <2>1. HandlerOk(w)'
    BY <1>0, <1>9, GotoKeeps DEF HandlerOk, SafeStop, Stopped, AssetType
  <2>2. QED BY <1>0, <1>9, <2>1, GotoKeeps DEF Ends
<1>10. ASSUME NEW p \in {"delete", "detach"}, Goto(w, p),
              UNCHANGED <<ready, dropped>>, SafeStop(job[w].msg)
      PROVE  Ends(w)
  <2>1. HandlerOk(w)'
    BY <1>0, <1>10, GotoKeeps DEF HandlerOk
  <2>2. QED BY <1>0, <1>10, <2>1, GotoKeeps DEF Ends
<1> SUFFICES Ends(w)
  BY <1>1
<1>11. CASE StartTx(w)
  <2>1. CASE Stopped(JobGroup(w))
    BY <1>11, <2>1, <1>9 DEF StartTx, JobGroup
  <2>2. CASE ~Stopped(JobGroup(w))
    BY <1>11, <2>2, <1>7, <1>8 DEF StartTx
  <2>3. QED BY <2>1, <2>2
<1>12. CASE Poll(w)
  <2>1. job[w].msg.kind \in AssetType
    BY <1>2, <1>12 DEF HandlerOk, Poll
  <2>2. CASE Stopped(JobGroup(w))
    BY <1>6, <1>12, <2>1, <2>2 DEF Poll, Ended, JobGroup
  <2>3. CASE ~Stopped(JobGroup(w))
    BY <1>0, <1>12, <2>1, <2>3 DEF Poll, Ends, HandlerOk, JobType, Busy
  <2>4. QED BY <2>2, <2>3
<1>13. CASE LastWait(w)
  <2>1. job[w].msg.kind \in AssetType
    BY <1>2, <1>13 DEF HandlerOk, LastWait
  <2>2. QED BY <1>5, <1>7, <1>13, <2>1 DEF LastWait
<1>14. CASE Load(w)
  <2>1. job[w].msg.kind \in AssetType
    BY <1>2, <1>14 DEF HandlerOk, Load
  <2>2. QED BY <1>4, <1>7, <1>14, <2>1 DEF Load
<1>15. CASE Spend(w)
  <2>1. job[w].msg.kind \in AssetType
    BY <1>2, <1>15 DEF HandlerOk, Spend
  <2>2. CASE Finish(w) /\ UNCHANGED <<ready, dropped>> /\ Stopped(JobGroup(w))
    BY <1>6, <2>1, <2>2 DEF Ended, JobGroup
  <2>3. QED BY <1>5, <1>8, <1>15, <2>1, <2>2 DEF Spend
<1>16. CASE StartStop(w)
  <2>1. CASE IsSafe(FromRawData(job[w].msg.inst)) /\ JobGroup(w) # NullGroup
    <3>1. SafeStop(job[w].msg)
      BY <1>16, <2>1 DEF StartStop, SafeStop, JobGroup
    <3>2. QED BY <1>9, <1>16, <2>1, <3>1 DEF StartStop
  <2>2. CASE ~IsSafe(FromRawData(job[w].msg.inst)) /\ JobGroup(w) # NullGroup
    <3>1. Ended(job[w].msg)
      BY <1>16, <2>2 DEF StartStop, SafeStop, Ended
    <3>2. QED BY <1>6, <1>16, <2>2, <3>1 DEF StartStop
  <2>3. CASE JobGroup(w) = NullGroup
    BY <1>4, <1>16, <2>3 DEF StartStop
  <2>4. QED BY <2>1, <2>2, <2>3
<1>17. CASE Settle(w)
  <2>1. CASE job[w].msg.kind = "STOP"
    BY <1>2, <1>10, <1>17, <2>1 DEF HandlerOk, Settle
  <2>2. CASE job[w].msg.kind # "STOP"
    <3>1. Ended(job[w].msg)
      BY <1>2, <1>3, <1>17, <2>2 DEF HandlerOk, Settle, Ended
    <3>2. QED BY <1>6, <1>17, <2>2, <3>1 DEF Settle
  <2>3. QED BY <2>1, <2>2
<1>18. CASE DeleteAccount(w)
  BY <1>2, <1>10, <1>18 DEF HandlerOk, DeleteAccount
<1>19. CASE DetachAccounts(w)
  <2>1. SafeStop(job[w].msg)
    BY <1>2, <1>19 DEF HandlerOk, DetachAccounts
  <2>2. job[w].msg.group \in Group
    BY <1>1, <2>1, MsgFields DEF SafeStop
  <2>3. ~attached'[job[w].msg.group]
    BY <1>19, <2>2 DEF DetachAccounts, JobGroup, TypeOK
  <2>4. Ended(job[w].msg)
    BY <2>1, <2>3 DEF Ended, SafeStop
  <2>5. QED BY <1>6, <1>19, <2>4 DEF DetachAccounts
<1>20. CASE Fail(w)
  BY <1>4, <1>20 DEF Fail
<1>21. QED
  BY <1>11, <1>12, <1>13, <1>14, <1>15, <1>16, <1>17, <1>18, <1>19, <1>20
     DEF Handle

-----------------------------------------------------------------------------
(* What any step but a crash does to messages and flags                    *)

FlagsKept == \A h \in Group \cup {NullGroup} : Stopped(h) => Stopped(h)'

MessagesKept ==
    /\ \A m \in Msg : Carried(m) => Carried(m)' \/ m \in dropped' \/ Ended(m)
    /\ \A m \in dropped : m.kind = "STOP" => m \in dropped'

\* job unchanged, flags and queues only growing
LEMMA QuietStep ==
    ASSUME TypeOK, HandlersOk, job' = job, FlagsKept,
           \A m \in Msg : ready[m] > 0 => ready'[m] > 0,
           \A m \in dropped : m.kind = "STOP" => m \in dropped'
    PROVE  HandlersOk' /\ MessagesKept
<1>1. \A m \in Msg : Carried(m) => Carried(m)'
  BY DEF Carried, Busy
<1>2. ASSUME NEW w \in Worker PROVE HandlerOk(w)'
  <2>1. HandlerOk(w)
    BY DEF HandlersOk
  <2>2. job[w].pc = "settle" => job[w].msg.group \in Group \cup {NullGroup}
    BY MsgFields DEF TypeOK, Busy
  <2>3. QED BY <2>1, <2>2 DEF HandlerOk, FlagsKept
<1>3. QED BY <1>1, <1>2 DEF HandlersOk, MessagesKept

\* A handler's step keeps every message but its own, and that one too unless
\* it has ended.
LEMMA HandlerStep ==
    ASSUME TypeOK, HandlersOk, NEW w \in Worker, Handle(w) \/ Fail(w)
    PROVE  HandlersOk' /\ FlagsKept /\ MessagesKept
<1>1. Ends(w) /\ Busy(w) /\ job[w].msg \in Msg
  BY HandleEnds
<1>2. flag' = flag
  BY DEF Handle, StartTx, Poll, LastWait, Load, Spend, StartStop, Settle,
         DeleteAccount, DetachAccounts, Fail
<1>3. FlagsKept
  BY <1>2 DEF FlagsKept, Stopped
<1>4. HandlersOk'
  <2>1. ASSUME NEW v \in Worker PROVE HandlerOk(v)'
    <3>1. CASE v = w
      BY <1>1, <3>1 DEF Ends
    <3>2. CASE v # w
      BY <1>1, <1>2, <3>2 DEF Ends, HandlersOk, HandlerOk, Stopped
    <3>3. QED BY <3>1, <3>2
  <2>2. QED BY <2>1 DEF HandlersOk
<1>5. ASSUME NEW m \in Msg, Carried(m)
      PROVE  Carried(m)' \/ m \in dropped' \/ Ended(m)
  <2>1. Carried(m)' \/ (job[w].held /\ job[w].msg = m)
    BY <1>1, <1>5, OneHandlerKeeps DEF Ends
  <2>2. CASE job[w].held /\ job[w].msg = m
    BY <1>1, <2>2 DEF Ends, Carried
  <2>3. QED BY <2>1, <2>2
<1>6. dropped \subseteq dropped'
  BY <1>1 DEF Ends
<1>7. QED BY <1>3, <1>4, <1>5, <1>6 DEF MessagesKept

LEMMA DeliverStep ==
    ASSUME TypeOK, HandlersOk, NEW w \in Worker, NEW n \in Msg, Deliver(w, n)
    PROVE  HandlersOk' /\ FlagsKept /\ MessagesKept
<1>1. /\ ~Busy(w) /\ job'[w].msg = n /\ job'[w].pc = "start" /\ Busy(w)'
      /\ ~job[w].held /\ job'[w].held
      /\ \A v \in Worker \ {w} : job'[v] = job[v]
      /\ \A m \in Msg \ {n} : ready'[m] = ready[m]
      /\ flag' = flag /\ dropped' = dropped
  BY DEF Deliver, TypeOK, Busy
<1>2. HandlersOk' /\ FlagsKept
  BY <1>1 DEF HandlersOk, HandlerOk, FlagsKept, Stopped
<1>3. \A m \in Msg : Carried(m) => Carried(m)'
  BY <1>1 DEF Carried
<1>4. QED BY <1>1, <1>2, <1>3 DEF MessagesKept

\* The broker has a message that went back as surely as before.
LEMMA ReturnStep ==
    ASSUME TypeOK, HandlersOk, NEW w \in Worker, ReturnToQueue(w)
    PROVE  HandlersOk' /\ FlagsKept /\ MessagesKept
<1>1. /\ job[w].msg \in Msg
      /\ \A v \in Worker : job'[v].pc = job[v].pc /\ job'[v].msg = job[v].msg
      /\ \A v \in Worker \ {w} : job'[v] = job[v]
      /\ flag' = flag /\ dropped' = dropped
  BY DEF ReturnToQueue, TypeOK, Busy
<1>2. /\ \A m \in Msg : ready[m] > 0 => ready'[m] > 0
      /\ ready'[job[w].msg] > 0
  BY <1>1 DEF ReturnToQueue, TypeOK
<1>3. HandlersOk' /\ FlagsKept
  BY <1>1 DEF HandlersOk, HandlerOk, FlagsKept, Stopped
<1>4. \A m \in Msg : Carried(m) => Carried(m)'
  BY <1>1, <1>2 DEF Carried
<1>5. QED BY <1>1, <1>3, <1>4 DEF MessagesKept

LEMMA CalmStep ==
    ASSUME TypeOK, HandlersOk, [Next]_vars, ~Crash
    PROVE  HandlersOk' /\ FlagsKept /\ MessagesKept
<1>0. QueueType /\ flag \in Flags
  BY DEF TypeOK, QueueType, Flags
<1>1. ASSUME UNCHANGED <<job, flag, ready>>, \A m \in dropped : m.kind = "STOP" => m \in dropped'
      PROVE  HandlersOk' /\ FlagsKept /\ MessagesKept
  <2>1. FlagsKept
    BY <1>1 DEF FlagsKept, Stopped
  <2>2. QED BY <1>1, <2>1, QuietStep
<1>2. CASE Start \/ ConnectChannel \/ InitGroupIds \/ InitDeleteIds \/ BootDone
  BY <1>1, <1>2 DEF Start, ConnectChannel, InitGroupIds, InitDeleteIds, BootDone
<1>3. CASE CloseChannel \/ ReopenChannel \/ CreateAccountGroup
  BY <1>1, <1>3 DEF CloseChannel, ReopenChannel, CreateAccountGroup
<1>4. ASSUME NEW s \in Stopper,
             \/ GetLastGroupId(s) \/ UpdateIsDeleted(s)
             \/ FindStopGroup(s) \/ FailStop(s)
      PROVE  HandlersOk' /\ FlagsKept /\ MessagesKept
  BY <1>1, <1>4 DEF GetLastGroupId, UpdateIsDeleted, FindStopGroup, FailStop
<1>5. ASSUME NEW g \in Group \cup {NullGroup}, SendAllStop(g), job' = job
      PROVE  HandlersOk' /\ FlagsKept /\ MessagesKept
  <2>1. FlagsKept
    BY <1>0, <1>5, SendAllStopType DEF QueueType, FlagsKept
  <2>2. QED BY <1>0, <1>5, <2>1, SendAllStopKeeps, QuietStep
<1>6. ASSUME NEW g \in Group, SendStartupStop(g)
      PROVE  HandlersOk' /\ FlagsKept /\ MessagesKept
  BY <1>5, <1>6 DEF SendStartupStop
<1>7. ASSUME NEW s \in Stopper, SendAllStopMessage(s)
      PROVE  HandlersOk' /\ FlagsKept /\ MessagesKept
  <2>1. stopper[s].group \in Group \cup {NullGroup}
    BY DEF TypeOK
  <2>2. QED BY <1>5, <1>7, <2>1 DEF SendAllStopMessage
<1>8. ASSUME NEW g \in Group, SendAllExecuteMessage(g)
      PROVE  HandlersOk' /\ FlagsKept /\ MessagesKept
  <2>1. Tx(g, "COIN") \in Msg /\ Tx(g, "TOKEN") \in Msg
    BY TxIsMsg DEF AssetType
  <2>2. FlagsKept
    BY <1>8 DEF SendAllExecuteMessage, FlagsKept, Stopped
  <2>3. QED
    BY <1>0, <1>8, <2>1, <2>2, SendTwoKeep, QuietStep
       DEF SendAllExecuteMessage, SendAllExecute
<1>9. CASE UNCHANGED vars
  BY <1>1, <1>9 DEF vars
<1>10. QED
  BY <1>2, <1>3, <1>4, <1>6, <1>7, <1>8, <1>9, HandlerStep, DeliverStep,
     ReturnStep
     DEF Next, Boot, Request

\* The broker has m, or a handler works on it.
Around(m) == ready[m] > 0 \/ \E w \in Worker : Busy(w) /\ job[w].msg = m

\* A crash keeps every stop message: one that a handler holds goes back.
LEMMA CrashStep ==
    ASSUME TypeOK, HandlersOk, Crash
    PROVE  /\ HandlersOk'
           /\ \A m \in Msg : m.kind = "STOP" /\ Carried(m) => Carried(m)'
           /\ \A m \in Msg : Around(m)' => Around(m)
           /\ dropped' = dropped
<1>1. \A w \in Worker : job'[w].pc = "idle" /\ ~job'[w].held
  BY DEF Crash, Idle
<1>2. HandlersOk'
  BY <1>1 DEF HandlersOk, HandlerOk
<1>3. PICK P, A \in SUBSET {w \in Worker : AtPublish(w)} :
         ready' = [m \in Msg |-> ready[m] + Holding(m, Held \ A) + Holding(m, P)]
  BY DEF Crash
<1>4. \A m \in Msg : /\ ready[m] \in Nat
                     /\ Holding(m, Held \ A) \in Nat
                     /\ Holding(m, P) \in Nat
  BY HoldingType DEF TypeOK, Held
<1>5. ASSUME NEW m \in Msg
      PROVE  ready'[m] > 0 <=> \/ ready[m] > 0
                               \/ Holding(m, Held \ A) > 0
                               \/ Holding(m, P) > 0
  <2>1. ready'[m] = ready[m] + Holding(m, Held \ A) + Holding(m, P)
    BY <1>3
  <2>2. /\ ready[m] \in Nat
        /\ Holding(m, Held \ A) \in Nat
        /\ Holding(m, P) \in Nat
    BY <1>4
  <2>3. QED BY ONLY <2>1, <2>2
<1>6. ASSUME NEW m \in Msg, m.kind = "STOP", Carried(m)
      PROVE  Carried(m)'
  <2>1. CASE ready[m] > 0
    BY <1>5, <2>1 DEF Carried
  <2>2. CASE \E w \in Worker : job[w].held /\ job[w].msg = m
    <3>1. PICK w \in Held : Busy(w) /\ job[w].msg = m
      BY <2>2 DEF Held, TypeOK
    <3>2. w \notin A
      BY <1>6, <3>1 DEF AtPublish
    <3>3. Holding(m, Held \ A) > 0
      BY <3>1, <3>2, HoldingPositive DEF Held
    <3>4. QED BY <1>5, <3>3 DEF Carried
  <2>3. QED BY <1>6, <2>1, <2>2 DEF Carried
<1>7. ASSUME NEW m \in Msg, Around(m)'
      PROVE  Around(m)
  <2>1. ready'[m] > 0
    BY <1>1, <1>7 DEF Around, Busy
  <2>2. \/ ready[m] > 0 \/ Holding(m, Held \ A) > 0 \/ Holding(m, P) > 0
    BY <1>5, <2>1
  <2>3. QED BY <2>2, HoldingPositive DEF Around, Held
<1>8. QED BY <1>2, <1>6, <1>7 DEF Crash

\* Handlers get past a test only as the test says: the strengthening the
\* next two theorems need.
THEOREM HandlersCorrect == Spec => []HandlersOk
<1>1. Init => HandlersOk
  BY DEF Init, HandlersOk, HandlerOk, Idle
<1>2. TypeOK /\ HandlersOk /\ [Next]_vars => HandlersOk'
  BY CalmStep, CrashStep
<1>3. QED BY <1>1, <1>2, TypeCorrect, PTL DEF Spec

-----------------------------------------------------------------------------
(* Chains stay alive                                                       *)

Resuming == phase \in {"readDeleted", "resume", "up"}

\* The chain of asset a of group g goes on or is known to be lost.
Alive(g, a) == Carried(Tx(g, a)) \/ g \in pending \/ Tx(g, a) \in dropped

LEMMA StaysAlive ==
    ASSUME TypeOK, HandlersOk, ChainAlive, [Next]_vars, ~Crash, Resuming,
           pending \subseteq pending', dropped \subseteq dropped',
           \A g \in Group : row'[g] = "live" => row[g] = "live"
    PROVE  ChainAlive'
<1> SUFFICES ASSUME NEW g \in Group, row'[g] = "live", ~Stopped(g)',
                    NEW a \in AssetType
             PROVE  Alive(g, a)'
  BY DEF ChainAlive, Alive
<1>1. MessagesKept /\ FlagsKept
  BY CalmStep
<1>2. row[g] = "live" /\ ~Stopped(g)
  BY <1>1 DEF FlagsKept
<1>3. Alive(g, a)
  BY <1>2 DEF ChainAlive, Alive, Resuming
<1>4. Tx(g, a) \in Msg /\ Tx(g, a).group = g /\ Tx(g, a).kind = a /\ a # "STOP"
  BY TxIsMsg DEF Tx, AssetType
<1>5. ~Ended(Tx(g, a))
  BY <1>2, <1>4 DEF Ended
<1>6. QED BY <1>1, <1>3, <1>4, <1>5 DEF Alive, MessagesKept

\* While the process runs, a group that has not been stopped keeps both its
\* chains, unless a message of theirs was lost for good.
THEOREM ChainAliveCorrect == Spec => []ChainAlive
<1>1. Init => ChainAlive
  BY DEF Init, ChainAlive
<1>2. TypeOK /\ HandlersOk /\ ChainAlive /\ [Next]_vars => ChainAlive'
  <2> SUFFICES ASSUME TypeOK, HandlersOk, ChainAlive, [Next]_vars
               PROVE  ChainAlive'
    OBVIOUS
  <2>1. CASE Crash \/ Start \/ ConnectChannel
    BY <2>1 DEF Crash, Start, ConnectChannel, ChainAlive
  <2>2. CASE InitGroupIds
    BY <2>2 DEF InitGroupIds, LiveRows, ChainAlive, db
  <2>3. CASE ~Resuming /\ ~Start /\ ~ConnectChannel /\ ~InitGroupIds /\ ~Crash
    <3>1. phase' = phase
      BY <2>3 DEF Next, Boot, Request, Resuming, InitDeleteIds, BootDone,
                  SendStartupStop, SendAllExecuteMessage, CloseChannel,
                  ReopenChannel, CreateAccountGroup, GetLastGroupId,
                  UpdateIsDeleted, FindStopGroup, SendAllStopMessage, FailStop,
                  Deliver, ReturnToQueue, Handle, StartTx, Poll, LastWait, Load, Spend,
                  StartStop, Settle, DeleteAccount, DetachAccounts, Fail,
                  Elsewhere, vars
    <3>2. QED BY <2>3, <3>1 DEF Resuming, ChainAlive
  <2>4. ASSUME NEW h \in Group, SendAllExecuteMessage(h), Resuming
        PROVE  ChainAlive'
    <3> SUFFICES ASSUME NEW g \in Group, row'[g] = "live", ~Stopped(g)',
                        NEW a \in AssetType
                 PROVE  Alive(g, a)'
      BY DEF ChainAlive, Alive
    <3>1. ~Crash
      BY <2>4 DEF SendAllExecuteMessage, Crash
    <3>2. MessagesKept
      BY <3>1, CalmStep
    <3>3. row[g] = "live" /\ ~Stopped(g)
      BY <2>4 DEF SendAllExecuteMessage, db, Stopped
    <3>4. Alive(g, a)
      BY <2>4, <3>3 DEF ChainAlive, Alive, Resuming
    <3>5. /\ \A b \in AssetType : Tx(h, b) \in Msg
          /\ Tx(g, a) \in Msg /\ Tx(g, a).group = g /\ Tx(g, a).kind = a /\ a # "STOP"
      BY TxIsMsg DEF Tx, AssetType
    <3>6. /\ dropped \subseteq dropped'
          /\ \A b \in AssetType : ready'[Tx(h, b)] > 0 \/ Tx(h, b) \in dropped'
      BY <2>4, <3>5, SendTwoKeep
         DEF SendAllExecuteMessage, SendAllExecute, QueueType, TypeOK, AssetType
    <3>7. CASE g = h
      BY <3>6, <3>7 DEF Alive, Carried
    <3>8. CASE g # h
      <4>1. g \in pending => g \in pending'
        BY <2>4, <3>8 DEF SendAllExecuteMessage
      <4>2. ~Ended(Tx(g, a))
        BY <3>3, <3>5 DEF Ended
      <4>3. QED BY <3>2, <3>4, <3>5, <3>6, <4>1, <4>2 DEF Alive, MessagesKept
    <3>9. QED BY <3>7, <3>8
  <2>5. CASE CreateAccountGroup /\ Resuming
    <3> SUFFICES ASSUME NEW g \in Group, row'[g] = "live", ~Stopped(g)',
                        NEW a \in AssetType
                 PROVE  Alive(g, a)'
      BY DEF ChainAlive, Alive
    <3>1. CASE g = nextId
      BY <2>5, <3>1 DEF CreateAccountGroup, Alive
    <3>2. CASE g # nextId
      <4>1. row[g] = "live" /\ ~Stopped(g)
        BY <2>5, <3>2 DEF CreateAccountGroup, Stopped, TypeOK
      <4>2. Alive(g, a)
        BY <2>5, <4>1 DEF ChainAlive, Alive, Resuming
      <4>3. QED BY <2>5, <4>2 DEF CreateAccountGroup, Alive, Carried, Busy
    <3>3. QED BY <3>1, <3>2
  <2>6. ASSUME Resuming,
               \/ InitDeleteIds \/ BootDone \/ CloseChannel \/ ReopenChannel
               \/ \E g \in Group : SendStartupStop(g)
               \/ \E s \in Stopper : \/ GetLastGroupId(s) \/ UpdateIsDeleted(s)
                                     \/ FindStopGroup(s) \/ SendAllStopMessage(s)
                                     \/ FailStop(s)
        PROVE  ChainAlive'
    <3>1. /\ UNCHANGED pending /\ ~Crash
          /\ \A g \in Group : row'[g] = "live" => row[g] = "live"
      BY <2>6 DEF InitDeleteIds, BootDone, CloseChannel, ReopenChannel,
                  SendStartupStop, GetLastGroupId, UpdateIsDeleted, FindStopGroup,
                  SendAllStopMessage, FailStop, Crash, db, budget, TypeOK
    <3>2. dropped \subseteq dropped'
      <4>1. QueueType /\ flag \in Flags
        BY DEF TypeOK, QueueType, Flags
      <4>2. \A s \in Stopper : stopper[s].group \in Group \cup {NullGroup}
        BY DEF TypeOK
      <4>3. \A g \in Group \cup {NullGroup} :
               SendAllStop(g) => dropped \subseteq dropped'
        BY <4>1, SendAllStopKeeps
      <4>4. QED
        BY <2>6, <4>2, <4>3
           DEF InitDeleteIds, BootDone, CloseChannel, ReopenChannel,
               SendStartupStop, GetLastGroupId, UpdateIsDeleted, FindStopGroup,
               SendAllStopMessage, FailStop
    <3>3. QED BY <2>6, <3>1, <3>2, StaysAlive
  <2>7. ASSUME Resuming, NEW w \in Worker,
               \/ Handle(w) \/ Fail(w) \/ ReturnToQueue(w)
               \/ \E m \in Msg : Deliver(w, m)
        PROVE  ChainAlive'
    <3>1. UNCHANGED <<pending, phase>> /\ ~Crash
      BY <2>7 DEF Handle, StartTx, Poll, LastWait, Load, Spend, StartStop,
                  Settle, DeleteAccount, DetachAccounts, Fail, Deliver,
                  ReturnToQueue, Elsewhere, budget, Crash
    <3>2. \A g \in Group : row'[g] = "live" => row[g] = "live"
      BY <2>7 DEF Handle, StartTx, Poll, LastWait, Load, Spend, StartStop,
                  Settle, DeleteAccount, DetachAccounts, Fail, Deliver,
                  ReturnToQueue, db, TypeOK
    <3>3. dropped \subseteq dropped'
      BY <2>7, HandleEnds DEF Ends, Deliver, ReturnToQueue
    <3>4. QED BY <2>7, <3>1, <3>2, <3>3, StaysAlive
  <2>8. CASE UNCHANGED vars
    BY <2>8 DEF vars, db, ChainAlive, Carried, Busy, Stopped
  <2>9. QED
    BY <2>1, <2>2, <2>3, <2>4, <2>5, <2>6, <2>7, <2>8 DEF Next, Boot, Request
<1>3. QED BY <1>1, <1>2, TypeCorrect, HandlersCorrect, PTL DEF Spec

-----------------------------------------------------------------------------
(* The groups implement GroupLife                                          *)

\* A row has its accounts, only ids that were given out are used anywhere,
\* and accounts are detached from a row that is gone.
LifeInv ==
    /\ \A g \in Group : row[g] # "none" => attached[g]
    /\ \A g \in Group : attached[g] => g < nextId
    /\ \A m \in Msg : m.kind = "STOP" /\ Around(m) => m.group < nextId
    /\ \A g \in toStop : g < nextId
    /\ \A s \in Stopper : stopper[s].group < nextId
    /\ \A w \in Worker : job[w].pc = "detach" => row[job[w].msg.group] = "none"

\* A step of a handler puts no stop message where there was none.
LEMMA HandlerCarriesNothingNew ==
    ASSUME TypeOK, HandlersOk, NEW w \in Worker, Handle(w) \/ Fail(w),
           NEW m \in Msg, Around(m)'
    PROVE  Around(m)
<1>1. Ends(w) /\ Busy(w)
  BY HandleEnds
<1>2. CASE ready'[m] > 0
  BY <1>1, <1>2 DEF Ends, Around
<1>3. CASE \E v \in Worker : Busy(v)' /\ job'[v].msg = m
  BY <1>1, <1>3 DEF Ends, Around, Busy
<1>4. QED BY <1>2, <1>3 DEF Around

\* Steps that write neither the rows nor the handlers' places
LEMMA LifeQuietStep ==
    ASSUME TypeOK, LifeInv, UNCHANGED <<db, job>>,
           \A m \in Msg : m.kind = "STOP" /\ ready'[m] > 0
                            => ready[m] > 0 \/ m.group < nextId,
           \A g \in toStop' : g < nextId,
           \A s \in Stopper : stopper'[s].group < nextId
    PROVE  LifeInv'
BY DEF LifeInv, db, Around, Busy

LEMMA LifeHandlerStep ==
    ASSUME TypeOK, HandlersOk, LifeInv, NEW w \in Worker, Handle(w) \/ Fail(w)
    PROVE  LifeInv'
<1>1. UNCHANGED <<nextId, toStop, stopper>>
  BY DEF Handle, StartTx, Poll, LastWait, Load, Spend, StartStop, Settle,
         DeleteAccount, DetachAccounts, Fail, db, Elsewhere
<1>2. \A m \in Msg : Around(m)' => Around(m)
  BY HandlerCarriesNothingNew
<1>3. Ends(w) /\ Busy(w) /\ job[w].msg \in Msg
  BY HandleEnds
<1>4. HandlerOk(w)
  BY DEF HandlersOk
<1>5. \A g \in Group : row'[g] # "none" => row[g] # "none"
  BY DEF Handle, StartTx, Poll, LastWait, Load, Spend, StartStop, Settle,
         DeleteAccount, DetachAccounts, Fail, db, TypeOK
<1>6. ASSUME NEW g \in Group
      PROVE  /\ attached'[g] => attached[g]
             /\ row'[g] # "none" => attached'[g]
  <2>1. CASE DetachAccounts(w)
    <3>1. row[job[w].msg.group] = "none" /\ row' = row
      BY <2>1 DEF DetachAccounts, LifeInv
    <3>2. QED BY <2>1, <3>1 DEF DetachAccounts, JobGroup, LifeInv, TypeOK
  <2>2. CASE ~DetachAccounts(w)
    <3>1. attached' = attached
      BY <2>2 DEF Handle, StartTx, Poll, LastWait, Load, Spend, StartStop,
                  Settle, DeleteAccount, Fail, db
    <3>2. QED BY <1>5, <3>1 DEF LifeInv
  <2>3. QED BY <2>1, <2>2
<1>7. ASSUME NEW v \in Worker, job'[v].pc = "detach"
      PROVE  row'[job'[v].msg.group] = "none"
  <2>1. CASE job[v].pc = "detach" /\ job'[v] = job[v]
    <3>1. row[job[v].msg.group] = "none" /\ job[v].msg.group \in Group
      BY <2>1, MsgFields DEF LifeInv, HandlersOk, HandlerOk, SafeStop, TypeOK, Busy
    <3>2. QED BY <2>1, <3>1, <1>5
  <2>2. CASE ~(job[v].pc = "detach" /\ job'[v] = job[v])
    <3>1. v = w
      BY <1>3, <1>7, <2>2 DEF Ends
    <3>2. job[w].msg.group \in Group \cup {NullGroup}
      BY <1>3, MsgFields
    <3>3. CASE DeleteAccount(w)
      <4>1. SafeStop(job[w].msg)
        BY <1>4, <3>3 DEF HandlerOk, DeleteAccount
      <4>2. job[w].msg.group \in Group
        BY <3>2, <4>1 DEF SafeStop
      <4>3. job'[w].msg = job[w].msg
        BY <3>3, GotoKeeps DEF DeleteAccount, TypeOK, JobType
      <4>4. QED BY <3>1, <3>3, <4>2, <4>3 DEF DeleteAccount, JobGroup, TypeOK
    <3>4. CASE ~DeleteAccount(w)
      <4>1. job'[w].pc # "detach"
        BY <3>4, RoundsAssumption
           DEF Handle, StartTx, Poll, LastWait, Load, Spend, StartStop, Settle,
               DetachAccounts, Fail, Goto, Finish, Throw, Idle, TypeOK
      <4>2. QED BY <1>7, <3>1, <4>1
    <3>5. QED BY <3>3, <3>4
  <2>3. QED BY <2>1, <2>2
<1>8. QED BY <1>1, <1>2, <1>6, <1>7 DEF LifeInv

\* what the refinement needs of the concrete state
THEOREM LifeInvCorrect == Spec => []LifeInv
<1>1. Init => LifeInv
  BY DEF Init, LifeInv, Around, Busy, Idle, NullGroup
<1>2. TypeOK /\ HandlersOk /\ LifeInv /\ [Next]_vars => LifeInv'
  <2> SUFFICES ASSUME TypeOK, HandlersOk, LifeInv, [Next]_vars
               PROVE  LifeInv'
    OBVIOUS
  <2>0. /\ QueueType /\ flag \in Flags /\ nextId \in Nat /\ NullGroup < nextId
        /\ \A s \in Stopper : stopper[s].group \in Group \cup {NullGroup}
    BY GroupsAssumption DEF TypeOK, QueueType, Flags, NullGroup
  <2>1. CASE \/ Start \/ ConnectChannel \/ InitGroupIds \/ BootDone
             \/ CloseChannel \/ ReopenChannel
    BY <2>1, LifeQuietStep
       DEF Start, ConnectChannel, InitGroupIds, BootDone, CloseChannel,
           ReopenChannel, LifeInv
  <2>2. CASE InitDeleteIds
    <3>1. \A g \in toStop' : g < nextId
      BY <2>2 DEF InitDeleteIds, LifeInv
    <3>2. QED BY <2>2, <3>1, LifeQuietStep DEF InitDeleteIds, LifeInv
  <2>3. ASSUME NEW g \in Group, SendStartupStop(g)
        PROVE  LifeInv'
    <3>1. g < nextId
      BY <2>3 DEF SendStartupStop, LifeInv
    <3>2. \A m \in Msg : ready'[m] > 0 => ready[m] > 0 \/ m.group = g
      BY <2>0, <2>3, SendAllStopKeeps DEF SendStartupStop
    <3>3. QED BY <2>3, <3>1, <3>2, LifeQuietStep DEF SendStartupStop, LifeInv
  <2>4. ASSUME NEW g \in Group, SendAllExecuteMessage(g)
        PROVE  LifeInv'
    <3>1. \A a \in AssetType : Tx(g, a) \in Msg /\ Tx(g, a).kind # "STOP"
      BY TxIsMsg DEF Tx, AssetType
    <3>2. \A m \in Msg : m.kind = "STOP" /\ ready'[m] > 0 => ready[m] > 0
      BY <2>0, <2>4, <3>1, SendTwoKeep
         DEF SendAllExecuteMessage, SendAllExecute, AssetType
    <3>3. QED BY <2>4, <3>2, LifeQuietStep DEF SendAllExecuteMessage, LifeInv
  <2>5. CASE Crash
    <3>1. \A m \in Msg : Around(m)' => Around(m)
      BY <2>5, CrashStep
    <3>2. \A w \in Worker : job'[w].pc = "idle"
      BY <2>5 DEF Crash, Idle
    <3>3. QED BY <2>5, <2>0, <3>1, <3>2 DEF Crash, LifeInv, db
  <2>6. CASE CreateAccountGroup
    <3>1. nextId' = nextId + 1 /\ UNCHANGED <<job, ready, toStop, stopper>>
      BY <2>6 DEF CreateAccountGroup
    <3>2. \A g \in Group : g < nextId => g < nextId'
      BY <2>0, <3>1 DEF Group
    <3>3. \A g \in Group : /\ row'[g] # "none" => attached'[g]
                           /\ attached'[g] => g < nextId'
      BY <2>6, <2>0, <3>2 DEF CreateAccountGroup, LifeInv, TypeOK, Group
    <3>4. ASSUME NEW m \in Msg, m.kind = "STOP", Around(m)'
          PROVE  m.group < nextId'
      <4>1. m.group < nextId
        BY <3>1, <3>4 DEF LifeInv, Around, Busy
      <4>2. m.group \in Int
        BY MsgFields, GroupsAssumption DEF Group, NullGroup
      <4>3. QED BY <4>1, <4>2, <2>0, <3>1
    <3>5. \A g \in toStop' : g < nextId'
      BY <3>1, <3>2 DEF LifeInv, TypeOK
    <3>6. \A s \in Stopper : stopper'[s].group < nextId'
      <4>1. \A s \in Stopper : stopper[s].group \in Int
        BY <2>0, GroupsAssumption DEF Group, NullGroup
      <4>2. QED BY <2>0, <3>1, <4>1 DEF LifeInv
    <3>7. ASSUME NEW w \in Worker, job'[w].pc = "detach"
          PROVE  row'[job'[w].msg.group] = "none"
      <4>1. /\ job[w].pc = "detach" /\ job[w].msg \in Msg
            /\ SafeStop(job[w].msg) /\ Around(job[w].msg)
        BY <3>1, <3>7 DEF HandlersOk, HandlerOk, TypeOK, Busy, Around
      <4>2. job[w].msg.group \in Group /\ job[w].msg.group < nextId
        BY <4>1, MsgFields DEF SafeStop, LifeInv
      <4>3. row[job[w].msg.group] = "none"
        BY <4>1 DEF LifeInv
      <4>4. QED BY <2>6, <2>0, <3>1, <4>2, <4>3 DEF CreateAccountGroup, TypeOK, Group
    <3>8. QED BY <3>3, <3>4, <3>5, <3>6, <3>7 DEF LifeInv
  <2>7. ASSUME NEW s \in Stopper, GetLastGroupId(s)
        PROVE  LifeInv'
    <3>1. LastId(LiveRows) < nextId
      <4>1. LiveRows \in SUBSET Group
        BY DEF LiveRows
      <4>2. CASE LiveRows = {}
        BY <2>0, <4>2 DEF LastId
      <4>3. CASE LiveRows # {}
        BY <4>1, <4>3, LastIdType DEF LiveRows, LifeInv
      <4>4. QED BY <4>2, <4>3
    <3>2. \A t \in Stopper : stopper'[t].group < nextId
      BY <2>7, <3>1 DEF GetLastGroupId, LifeInv, TypeOK
    <3>3. QED BY <2>7, <3>2, LifeQuietStep DEF GetLastGroupId, LifeInv
  <2>8. ASSUME NEW s \in Stopper, FindStopGroup(s) \/ FailStop(s)
        PROVE  LifeInv'
    <3>1. \A t \in Stopper : stopper'[t].group < nextId
      BY <2>8 DEF FindStopGroup, FailStop, LifeInv, TypeOK
    <3>2. QED BY <2>8, <3>1, LifeQuietStep DEF FindStopGroup, FailStop, LifeInv
  <2>9. ASSUME NEW s \in Stopper, UpdateIsDeleted(s)
        PROVE  LifeInv'
    <3>1. \A g \in Group : row'[g] = "none" <=> row[g] = "none"
      <4>1. Rows # {} => LastId(Rows) \in Rows
        BY LastIdType DEF Rows
      <4>2. QED BY <2>9, <4>1 DEF UpdateIsDeleted, Rows, TypeOK
    <3>2. \A t \in Stopper : stopper'[t].group = stopper[t].group
      BY <2>9 DEF UpdateIsDeleted, TypeOK
    <3>3. \A w \in Worker : job[w].pc = "detach" => job[w].msg.group \in Group
      BY MsgFields DEF HandlersOk, HandlerOk, SafeStop, TypeOK, Busy
    <3>4. QED BY <2>9, <3>1, <3>2, <3>3 DEF UpdateIsDeleted, LifeInv, Around, Busy
  <2>10. ASSUME NEW s \in Stopper, SendAllStopMessage(s)
         PROVE  LifeInv'
    <3>1. stopper[s].group < nextId
      BY DEF LifeInv
    <3>2. \A m \in Msg : ready'[m] > 0 => ready[m] > 0 \/ m.group = stopper[s].group
      BY <2>0, <2>10, SendAllStopKeeps DEF SendAllStopMessage
    <3>3. \A t \in Stopper : stopper'[t].group < nextId
      BY <2>10 DEF SendAllStopMessage, LifeInv, TypeOK
    <3>4. QED BY <2>10, <3>1, <3>2, <3>3, LifeQuietStep DEF SendAllStopMessage, LifeInv
  <2>11. ASSUME NEW w \in Worker, NEW n \in Msg, Deliver(w, n)
         PROVE  LifeInv'
    <3>1. /\ job'[w].msg = n /\ job'[w].pc = "start"
          /\ \A v \in Worker \ {w} : job'[v] = job[v]
          /\ \A m \in Msg \ {n} : ready'[m] = ready[m]
          /\ ready[n] > 0
      BY <2>11 DEF Deliver, TypeOK
    <3>2. \A m \in Msg : Around(m)' => Around(m)
      BY <3>1 DEF Around, Busy
    <3>3. QED BY <2>11, <3>1, <3>2 DEF Deliver, LifeInv, db
  <2>12. ASSUME NEW w \in Worker, Handle(w) \/ Fail(w)
         PROVE  LifeInv'
    BY <2>12, LifeHandlerStep
  <2>13. ASSUME NEW w \in Worker, ReturnToQueue(w)
         PROVE  LifeInv'
    <3>1. /\ \A v \in Worker : job'[v].pc = job[v].pc /\ job'[v].msg = job[v].msg
          /\ \A m \in Msg : ready'[m] > 0 => ready[m] > 0 \/ m = job[w].msg
          /\ Busy(w)
      BY <2>13 DEF ReturnToQueue, TypeOK
    <3>2. \A m \in Msg : Around(m)' => Around(m)
      BY <3>1 DEF Around, Busy
    <3>3. QED BY <2>13, <3>1, <3>2 DEF ReturnToQueue, LifeInv, db
  <2>14. CASE UNCHANGED vars
    BY <2>14, LifeQuietStep DEF vars, LifeInv
  <2>15. QED
    BY <2>1, <2>2, <2>3, <2>4, <2>5, <2>6, <2>7, <2>8, <2>9, <2>10, <2>11,
       <2>12, <2>13, <2>14 DEF Next, Boot, Request
<1>3. QED BY <1>1, <1>2, TypeCorrect, HandlersCorrect, PTL DEF Spec

-----------------------------------------------------------------------------
(* Orphaned accounts are covered                                           *)

\* g's accounts refer to a row that is gone.
Orphan(g) == row[g] = "none" /\ attached[g]

Covered(g) ==
    \E m \in StopMsg : m.group = g /\ SafeStop(m) /\ (Carried(m) \/ m \in dropped)

LEMMA StaysCovered ==
    ASSUME TypeOK, HandlersOk, OrphanCovered, [Next]_vars,
           \A g \in Group : Orphan(g)' => Orphan(g)
    PROVE  OrphanCovered'
<1> SUFFICES ASSUME NEW g \in Group, Orphan(g)'
             PROVE  Covered(g)'
  BY DEF OrphanCovered, Orphan, Covered
<1>1. PICK m \in StopMsg : m.group = g /\ SafeStop(m) /\ (Carried(m) \/ m \in dropped)
  BY DEF OrphanCovered, Orphan
<1>2. m \in Msg /\ m.kind = "STOP" /\ SafeStop(m)'
  BY <1>1 DEF Msg, SafeStop
<1>3. CASE Crash
  BY <1>1, <1>2, <1>3, CrashStep DEF Covered
<1>4. CASE ~Crash
  <2>1. MessagesKept
    BY <1>4, CalmStep
  <2>2. ~Ended(m)
    BY <1>1, <1>2 DEF Ended, Orphan, AssetType
  <2>3. QED BY <1>1, <1>2, <2>1, <2>2 DEF Covered, MessagesKept
<1>5. QED BY <1>3, <1>4

\* Whoever is settling a group, its own message or one like it stays until the
\* accounts are detached: a handler whose message went back is not alone.
Backed == \A w \in Worker :
    Busy(w) /\ SafeStop(job[w].msg) /\ attached[job[w].msg.group]
        => Carried(job[w].msg) \/ job[w].msg \in dropped

LEMMA SafeStopGroup ==
    ASSUME TypeOK, NEW w \in Worker, Busy(w), SafeStop(job[w].msg)
    PROVE  /\ job[w].msg \in Msg /\ job[w].msg.kind = "STOP"
           /\ job[w].msg.group \in Group
BY MsgFields DEF TypeOK, SafeStop

\* Where a handler's message comes from
LEMMA HandlerFrom ==
    ASSUME TypeOK, HandlersOk, [Next]_vars, NEW w \in Worker, Busy(w)'
    PROVE  job'[w].held \/ (Busy(w) /\ job'[w].msg = job[w].msg)
<1>1. CASE UNCHANGED job
  BY <1>1 DEF Busy
<1>2. ASSUME NEW v \in Worker, NEW m \in Msg, Deliver(v, m)
      PROVE  job'[w].held \/ (Busy(w) /\ job'[w].msg = job[w].msg)
  BY <1>2 DEF Deliver, Busy, TypeOK
<1>3. ASSUME NEW v \in Worker, ReturnToQueue(v)
      PROVE  job'[w].held \/ (Busy(w) /\ job'[w].msg = job[w].msg)
  BY <1>3 DEF ReturnToQueue, Busy, TypeOK
<1>4. ASSUME NEW v \in Worker, Handle(v) \/ Fail(v)
      PROVE  job'[w].held \/ (Busy(w) /\ job'[w].msg = job[w].msg)
  BY <1>4, HandleEnds DEF Ends, Busy
<1>5. ~Crash
  BY DEF Crash, Busy, Idle
<1>6. \/ UNCHANGED job
      \/ \E v \in Worker : \/ \E m \in Msg : Deliver(v, m)
                           \/ ReturnToQueue(v) \/ Handle(v) \/ Fail(v)
  BY <1>5 DEF Next, Boot, Request, Start, ConnectChannel, InitGroupIds,
              InitDeleteIds, BootDone, SendStartupStop, SendAllExecuteMessage,
              CloseChannel, ReopenChannel, CreateAccountGroup, GetLastGroupId,
              UpdateIsDeleted, FindStopGroup, SendAllStopMessage, FailStop, vars
<1>7. QED BY <1>1, <1>2, <1>3, <1>4, <1>6

\* Accounts are attached to a group only when it is created.
LEMMA AttachedFrom ==
    ASSUME TypeOK, [Next]_vars, NEW g \in Group, attached'[g], ~attached[g]
    PROVE  g = nextId
<1>1. CASE CreateAccountGroup
  BY <1>1 DEF CreateAccountGroup, TypeOK
<1>2. ASSUME NEW w \in Worker, DetachAccounts(w)
      PROVE  FALSE
  BY <1>2 DEF DetachAccounts, TypeOK
<1>3. \/ UNCHANGED attached \/ CreateAccountGroup
      \/ \E w \in Worker : DetachAccounts(w)
  BY DEF Next, Boot, Request, Start, ConnectChannel, InitGroupIds,
         InitDeleteIds, BootDone, SendStartupStop, SendAllExecuteMessage,
         CloseChannel, ReopenChannel, Crash, GetLastGroupId, UpdateIsDeleted,
         FindStopGroup, SendAllStopMessage, FailStop, Deliver, ReturnToQueue,
         Handle, StartTx, Poll, LastWait, Load, Spend, StartStop, Settle,
         DeleteAccount, Fail, vars, db
<1>4. QED BY <1>1, <1>2, <1>3

LEMMA BackedNext ==
    ASSUME TypeOK, HandlersOk, LifeInv, Backed, [Next]_vars
    PROVE  Backed'
<1> SUFFICES ASSUME NEW w \in Worker, Busy(w)', NEW m, m = job'[w].msg,
                    SafeStop(m), attached'[m.group]
             PROVE  Carried(m)' \/ m \in dropped'
  BY DEF Backed, SafeStop, Carried
<1>1. CASE job'[w].held
  BY <1>1 DEF Carried
<1>2. CASE Busy(w) /\ job'[w].msg = job[w].msg
  <2>1. m = job[w].msg /\ m \in Msg /\ m.kind = "STOP" /\ m.group \in Group
    BY <1>2, SafeStopGroup
  <2>2. m.group < nextId
    BY <1>2, <2>1 DEF LifeInv, Around
  <2>3. attached[m.group]
    <3>1. m.group # nextId
      BY <2>1, <2>2 DEF Group, TypeOK
    <3>2. QED BY <2>1, <3>1, AttachedFrom
  <2>4. Carried(m) \/ m \in dropped
    BY <1>2, <2>1, <2>3 DEF Backed
  <2>5. ~Crash
    BY DEF Crash, Busy, Idle
  <2>6. MessagesKept
    BY <2>5, CalmStep
  <2>7. ~Ended(m)
    BY <2>1 DEF Ended, AssetType
  <2>8. QED BY <2>1, <2>4, <2>6, <2>7 DEF MessagesKept
<1>3. QED BY <1>1, <1>2, HandlerFrom

THEOREM BackedCorrect == Spec => []Backed
<1>1. Init => Backed
  BY DEF Init, Backed, Busy, Idle
<1>2. TypeOK /\ HandlersOk /\ LifeInv /\ Backed /\ [Next]_vars => Backed'
  BY BackedNext
<1>3. QED BY <1>1, <1>2, TypeCorrect, HandlersCorrect, LifeInvCorrect, PTL DEF Spec

\* Between the two transactions of softDeleteAccount, and after a crash there,
\* a stop message that will detach the accounts is still to be handled.
THEOREM OrphanCoveredCorrect == Spec => []OrphanCovered
<1>1. Init => OrphanCovered
  BY DEF Init, OrphanCovered
<1>2. TypeOK /\ HandlersOk /\ LifeInv /\ Backed /\ OrphanCovered /\ [Next]_vars => OrphanCovered'
  <2> SUFFICES ASSUME TypeOK, HandlersOk, LifeInv, Backed, OrphanCovered, [Next]_vars
               PROVE  OrphanCovered'
    OBVIOUS
  <2>1. ASSUME NEW w \in Worker, DeleteAccount(w)
        PROVE  OrphanCovered'
    <3> SUFFICES ASSUME NEW g \in Group, Orphan(g)'
                 PROVE  Covered(g)'
      BY DEF OrphanCovered, Orphan, Covered
    <3>1. CASE Orphan(g)
      <4>1. PICK m \in StopMsg : /\ m.group = g /\ SafeStop(m)
                                /\ (Carried(m) \/ m \in dropped)
        BY <3>1 DEF OrphanCovered, Orphan
      <4>2. m \in Msg /\ m.kind = "STOP" /\ SafeStop(m)'
        BY <4>1 DEF Msg, SafeStop
      <4>3. MessagesKept
        BY <2>1, HandlerStep DEF Handle
      <4>4. ~Ended(m)
        BY <4>1, <4>2 DEF Ended, Orphan, AssetType
      <4>5. QED BY <4>1, <4>2, <4>3, <4>4 DEF Covered, MessagesKept
    <3>2. CASE ~Orphan(g)
      <4>1. g = JobGroup(w) /\ attached[g]
        BY <2>1, <3>2 DEF DeleteAccount, Orphan, TypeOK
      <4>2. Busy(w) /\ SafeStop(job[w].msg) /\ job[w].msg \in Msg
        BY <2>1 DEF DeleteAccount, HandlersOk, HandlerOk, TypeOK, Busy
      <4>3. PICK m \in Msg : m = job[w].msg
        BY <4>2
      <4>4. m \in StopMsg /\ SafeStop(m) /\ m.group = g
        BY <4>1, <4>2, <4>3, MsgFields DEF SafeStop, JobGroup
      <4>5. Carried(m) \/ m \in dropped
        BY <4>1, <4>2, <4>3, <4>4 DEF Backed
      <4>6. MessagesKept
        BY <2>1, HandlerStep DEF Handle
      <4>7. ~Ended(m)
        BY <4>4 DEF Ended, Orphan, AssetType, SafeStop
      <4>8. Carried(m)' \/ m \in dropped'
        BY <4>4, <4>5, <4>6, <4>7 DEF MessagesKept, SafeStop
      <4>9. QED BY <4>4, <4>8 DEF Covered, SafeStop
    <3>3. QED BY <3>1, <3>2
  <2>2. CASE ~(\E w \in Worker : DeleteAccount(w))
    <3>1. UNCHANGED db => \A g \in Group : Orphan(g)' => Orphan(g)
      BY DEF db, Orphan
    <3>2. /\ CreateAccountGroup => \A g \in Group : Orphan(g)' => Orphan(g)
          /\ \A s \in Stopper :
                UpdateIsDeleted(s) => \A g \in Group : Orphan(g)' => Orphan(g)
          /\ \A w \in Worker :
                DetachAccounts(w) => \A g \in Group : Orphan(g)' => Orphan(g)
      BY DEF CreateAccountGroup, UpdateIsDeleted, DetachAccounts, Orphan, TypeOK
    <3>3. \/ UNCHANGED db \/ CreateAccountGroup
          \/ (\E s \in Stopper : UpdateIsDeleted(s))
          \/ (\E w \in Worker : DetachAccounts(w))
      BY <2>2 DEF Next, Boot, Request, Start, ConnectChannel, InitGroupIds,
                  InitDeleteIds, BootDone, SendStartupStop, SendAllExecuteMessage,
                  CloseChannel, ReopenChannel, Crash, GetLastGroupId, FindStopGroup,
                  SendAllStopMessage, FailStop, Deliver, ReturnToQueue, Handle, StartTx, Poll,
                  LastWait, Load, Spend, StartStop, Settle, Fail, vars
    <3>4. QED BY <3>1, <3>2, <3>3, StaysCovered
  <2>3. QED BY <2>1, <2>2
<1>3. QED BY <1>1, <1>2, TypeCorrect, HandlersCorrect, LifeInvCorrect, BackedCorrect, PTL
     DEF Spec

-----------------------------------------------------------------------------
(* The refinement mapping                                                  *)

\* One group moves, the others stay: a step of GroupLife.
LEMMA LifeMove ==
    ASSUME NEW g \in Group, NEW s, Stage(g)' = s,
           \A h \in Group \ {g} : Stage(h)' = Stage(h)
    PROVE  Life!Move(g, s)
BY DEF Life!Move

LEMMA LifeStutter ==
    ASSUME \A h \in Group : Stage(h)' = Stage(h)
    PROVE  [Life!Next]_([g \in Group |-> Stage(g)])
OBVIOUS

LEMMA LifeStep ==
    ASSUME TypeOK, HandlersOk, LifeInv, [Next]_vars
    PROVE  [Life!Next]_([g \in Group |-> Stage(g)])
<1>0. nextId \in Nat /\ \A g \in Group : g \in Nat
  BY DEF TypeOK, Group
<1>1. CASE CreateAccountGroup
  <2>1. PICK g \in Group : g = nextId
    BY <1>1 DEF CreateAccountGroup
  <2>2. nextId' = g + 1
    BY <1>1, <2>1 DEF CreateAccountGroup
  <2>3. Stage(g) = "absent" /\ \A h \in Group : h < g => Stage(h) # "absent"
    BY <1>0, <2>1 DEF Stage
  <2>4. Stage(g)' = "running"
    BY <1>0, <1>1, <2>1, <2>2 DEF CreateAccountGroup, Stage, TypeOK
  <2>5. \A h \in Group \ {g} : Stage(h)' = Stage(h)
    BY <1>0, <1>1, <2>1, <2>2 DEF CreateAccountGroup, Stage, TypeOK
  <2>6. Life!Create(g)
    BY <2>3, <2>4, <2>5, LifeMove DEF Life!Create
  <2>7. QED BY <2>6 DEF Life!Next
<1>2. ASSUME NEW s \in Stopper, UpdateIsDeleted(s)
      PROVE  [Life!Next]_([g \in Group |-> Stage(g)])
  <2>1. CASE Rows = {}
    <3>1. UNCHANGED <<row, attached, nextId>>
      BY <1>2, <2>1 DEF UpdateIsDeleted
    <3>2. QED BY <3>1, LifeStutter DEF Stage
  <2>2. CASE Rows # {}
    <3>1. PICK g \in Group : g = LastId(Rows) /\ row[g] # "none"
      BY <2>2, LastIdType DEF Rows
    <3>2. /\ row' = [row EXCEPT ![g] = "deleted"]
          /\ UNCHANGED <<attached, nextId>>
      BY <1>2, <2>2, <3>1 DEF UpdateIsDeleted
    <3>3. row' \in [Group -> {"none", "live", "deleted"}] /\ g < nextId
      BY <3>1, <3>2 DEF TypeOK, LifeInv
    <3>4. \A h \in Group \ {g} : Stage(h)' = Stage(h)
      BY <3>2 DEF Stage, TypeOK
    <3>5. Stage(g)' = "marked"
      BY <1>0, <3>1, <3>2, <3>3 DEF Stage, TypeOK
    <3>6. CASE row[g] = "live"
      <4>1. Stage(g) = "running"
        BY <1>0, <3>1, <3>3, <3>6 DEF Stage
      <4>2. Life!Mark(g)
        BY <3>1, <3>4, <3>5, <4>1, LifeMove DEF Life!Mark
      <4>3. QED BY <3>1, <4>2 DEF Life!Next
    <3>7. CASE row[g] = "deleted"
      <4>1. Stage(g) = "marked"
        BY <1>0, <3>1, <3>3, <3>7 DEF Stage
      <4>2. QED BY <3>4, <3>5, <4>1, LifeStutter
    <3>8. QED BY <3>1, <3>6, <3>7 DEF TypeOK
  <2>3. QED BY <2>1, <2>2
<1>3. ASSUME NEW w \in Worker, DeleteAccount(w) \/ DetachAccounts(w)
      PROVE  /\ JobGroup(w) \in Group
             /\ JobGroup(w) < nextId
  <2>1. SafeStop(job[w].msg) /\ job[w].msg \in Msg /\ Around(job[w].msg)
    BY <1>3 DEF DeleteAccount, DetachAccounts, HandlersOk, HandlerOk, TypeOK,
                Busy, Around
  <2>2. QED BY <2>1, MsgFields DEF SafeStop, JobGroup, LifeInv
<1>4. ASSUME NEW w \in Worker, DeleteAccount(w)
      PROVE  [Life!Next]_([g \in Group |-> Stage(g)])
  <2>1. PICK g \in Group : g = JobGroup(w) /\ g < nextId
    BY <1>3, <1>4
  <2>2. row' = [row EXCEPT ![g] = "none"] /\ UNCHANGED <<attached, nextId>>
    BY <1>4, <2>1 DEF DeleteAccount
  <2>3. \A h \in Group \ {g} : Stage(h)' = Stage(h)
    BY <2>2 DEF Stage, TypeOK
  <2>4. CASE row[g] = "none"
    <3>1. Stage(g)' = Stage(g)
      BY <2>2, <2>4 DEF Stage, TypeOK
    <3>2. QED BY <2>3, <3>1, LifeStutter
  <2>5. CASE row[g] # "none"
    <3>1. attached[g]
      BY <2>5 DEF LifeInv
    <3>2. Stage(g)' = "erased"
      BY <1>0, <2>1, <2>2, <3>1 DEF Stage, TypeOK
    <3>3. Stage(g) \in {"running", "marked"}
      BY <1>0, <2>1, <2>5 DEF Stage, TypeOK
    <3>4. Life!Erase(g)
      BY <2>3, <3>2, <3>3, LifeMove DEF Life!Erase
    <3>5. QED BY <3>4 DEF Life!Next
  <2>6. QED BY <2>4, <2>5
<1>5. ASSUME NEW w \in Worker, DetachAccounts(w)
      PROVE  [Life!Next]_([g \in Group |-> Stage(g)])
  <2>1. PICK g \in Group : g = JobGroup(w) /\ g < nextId
    BY <1>3, <1>5
  <2>2. attached' = [attached EXCEPT ![g] = FALSE] /\ UNCHANGED <<row, nextId>>
    BY <1>5, <2>1 DEF DetachAccounts
  <2>3. \A h \in Group \ {g} : Stage(h)' = Stage(h)
    BY <2>2 DEF Stage, TypeOK
  <2>4. row[g] = "none"
    BY <1>5, <2>1 DEF DetachAccounts, JobGroup, LifeInv
  <2>5. Stage(g)' = "released"
    BY <1>0, <2>1, <2>2, <2>4 DEF Stage, TypeOK
  <2>6. CASE attached[g]
    <3>1. Stage(g) = "erased"
      BY <1>0, <2>1, <2>4, <2>6 DEF Stage
    <3>2. Life!Release(g)
      BY <2>3, <2>5, <3>1, LifeMove DEF Life!Release
    <3>3. QED BY <3>2 DEF Life!Next
  <2>7. CASE ~attached[g]
    <3>1. Stage(g) = "released"
      BY <1>0, <2>1, <2>4, <2>7 DEF Stage
    <3>2. QED BY <2>3, <2>5, <3>1, LifeStutter
  <2>8. QED BY <2>6, <2>7
<1>6. CASE UNCHANGED db
  BY <1>6, LifeStutter DEF db, Stage
<1>7. \/ UNCHANGED db \/ CreateAccountGroup
      \/ (\E s \in Stopper : UpdateIsDeleted(s))
      \/ (\E w \in Worker : DeleteAccount(w) \/ DetachAccounts(w))
  BY DEF Next, Boot, Request, Start, ConnectChannel, InitGroupIds, InitDeleteIds,
         BootDone, SendStartupStop, SendAllExecuteMessage, CloseChannel,
         ReopenChannel, Crash, GetLastGroupId, FindStopGroup, SendAllStopMessage,
         FailStop, Deliver, ReturnToQueue, Handle, StartTx, Poll, LastWait, Load, Spend,
         StartStop, Settle, Fail, vars
<1>8. QED BY <1>1, <1>2, <1>4, <1>5, <1>6, <1>7

\* The bot service implements GroupLife: ids are used in order and once, a
\* group's row goes before its accounts are released, and nothing comes back.
THEOREM ImplementsGroupLife == Spec => LifeSpec
<1>1. Init => Life!Init
  BY DEF Init, Life!Init, Stage, Group
<1>2. TypeOK /\ HandlersOk /\ LifeInv /\ [Next]_vars
        => [Life!Next]_([g \in Group |-> Stage(g)])
  BY LifeStep
<1>3. QED
  BY <1>1, <1>2, TypeCorrect, HandlersCorrect, LifeInvCorrect, PTL
     DEF Spec, LifeSpec, Life!Spec

-----------------------------------------------------------------------------
(* The number of copies of a chain                                         *)

IsDoubled(f) == f = [c \in 0 .. MaxCrashes |-> IF c = 0 THEN 1 ELSE 2 * f[c - 1]]

\* the same up to n
IsDoubledUpto(f, n) ==
    f = [c \in 0 .. MaxCrashes |->
           IF c = 0 THEN 1 ELSE IF c > n THEN 0 ELSE 2 * f[c - 1]]

LEMMA DoubledExists == \E f : IsDoubled(f)
<1> DEFINE B == {n \in Nat : \E f : IsDoubledUpto(f, n)}
<1>1. 0 \in B
  <2> DEFINE z == [c \in 0 .. MaxCrashes |-> IF c = 0 THEN 1 ELSE 0]
  <2>1. IsDoubledUpto(z, 0)
    <3>1. \A c \in 0 .. MaxCrashes : c = 0 \/ c > 0
      BY BoundsAssumption
    <3>2. z = [c \in 0 .. MaxCrashes |->
                 IF c = 0 THEN 1 ELSE IF c > 0 THEN 0 ELSE 2 * z[c - 1]]
      BY <3>1
    <3> QED BY <3>2 DEF IsDoubledUpto
  <2> QED BY <2>1
<1>2. ASSUME NEW n \in B
      PROVE  n + 1 \in B
  <2>1. PICK f : IsDoubledUpto(f, n)
    OBVIOUS
  <2> DEFINE h == [c \in 0 .. MaxCrashes |->
                     IF c = 0 THEN 1 ELSE IF c > n + 1 THEN 0 ELSE 2 * f[c - 1]]
  <2>2. \A c \in 0 .. MaxCrashes : c <= n => h[c] = f[c]
    BY <2>1, BoundsAssumption DEF IsDoubledUpto
  <2>3. \A c \in 0 .. MaxCrashes :
           c # 0 /\ ~(c > n + 1) => /\ c - 1 \in 0 .. MaxCrashes /\ c - 1 <= n
                                    /\ h[c - 1] = f[c - 1]
    <3> SUFFICES ASSUME NEW c \in 0 .. MaxCrashes, c # 0, ~(c > n + 1)
                 PROVE  /\ c - 1 \in 0 .. MaxCrashes /\ c - 1 <= n
                        /\ h[c - 1] = f[c - 1]
      OBVIOUS
    <3>1. c - 1 \in 0 .. MaxCrashes /\ c - 1 <= n
      BY BoundsAssumption
    <3> HIDE DEF h
    <3> QED BY <2>2, <3>1
  <2>4. h = [c \in 0 .. MaxCrashes |->
               IF c = 0 THEN 1 ELSE IF c > n + 1 THEN 0 ELSE 2 * h[c - 1]]
    BY <2>3
  <2>5. IsDoubledUpto(h, n + 1)
    BY <2>4 DEF IsDoubledUpto
  <2> QED BY <2>5
<1>3. B = Nat
  <2> HIDE DEF B
  <2>1. B \in SUBSET Nat
    BY DEF B
  <2> QED BY <1>1, <1>2, <2>1, NatCases
<1>4. PICK f : IsDoubledUpto(f, MaxCrashes)
  BY <1>3, BoundsAssumption
<1>5. \A c \in 0 .. MaxCrashes : ~(c > MaxCrashes)
  BY BoundsAssumption
<1>6. f = [c \in 0 .. MaxCrashes |-> IF c = 0 THEN 1 ELSE 2 * f[c - 1]]
  BY <1>4, <1>5 DEF IsDoubledUpto
<1> QED BY <1>6 DEF IsDoubled

LEMMA DoubledEquation ==
    /\ Doubled[0] = 1
    /\ \A c \in 0 .. MaxCrashes : c + 1 <= MaxCrashes
                                    => Doubled[c + 1] = 2 * Doubled[c]
<1>1. Doubled = CHOOSE f : IsDoubled(f)
  BY DEF Doubled, IsDoubled
<1>2. IsDoubled(Doubled)
  BY <1>1, DoubledExists
<1>3. Doubled = [c \in 0 .. MaxCrashes |-> IF c = 0 THEN 1 ELSE 2 * Doubled[c - 1]]
  BY <1>2 DEF IsDoubled
<1>4. \A c \in 0 .. MaxCrashes :
         Doubled[c] = IF c = 0 THEN 1 ELSE 2 * Doubled[c - 1]
  BY <1>3
<1>5. Doubled[0] = 1
  BY <1>4, BoundsAssumption
<1>6. ASSUME NEW c \in 0 .. MaxCrashes, c + 1 <= MaxCrashes
      PROVE  Doubled[c + 1] = 2 * Doubled[c]
  <2>1. c + 1 \in 0 .. MaxCrashes /\ c + 1 # 0 /\ (c + 1) - 1 = c
    BY <1>6, BoundsAssumption
  <2>2. Doubled[c + 1] = 2 * Doubled[(c + 1) - 1]
    BY <1>4, <2>1
  <2> QED BY <2>1, <2>2
<1> QED BY <1>5, <1>6

LEMMA DoubledPositive == \A c \in 0 .. MaxCrashes : Doubled[c] \in Nat \ {0}
<1> DEFINE B == {n \in Nat : n <= MaxCrashes => Doubled[n] \in Nat \ {0}}
<1>1. 0 \in B
  BY DoubledEquation
<1>2. ASSUME NEW n \in B
      PROVE  n + 1 \in B
  <2> SUFFICES ASSUME n + 1 <= MaxCrashes PROVE Doubled[n + 1] \in Nat \ {0}
    OBVIOUS
  <2>1. n \in 0 .. MaxCrashes
    BY BoundsAssumption
  <2>2. Doubled[n] \in Nat \ {0}
    BY <2>1
  <2>3. Doubled[n + 1] = 2 * Doubled[n]
    BY <2>1, DoubledEquation
  <2> QED BY <2>2, <2>3
<1>3. B = Nat
  <2> HIDE DEF B
  <2>1. B \in SUBSET Nat
    BY DEF B
  <2> QED BY <1>1, <1>2, <2>1, NatCases
<1> QED BY <1>3, BoundsAssumption

LEMMA HoldersFinite ==
    ASSUME NEW m, NEW W \in SUBSET Worker
    PROVE  IsFiniteSet({w \in W : Busy(w) /\ job[w].msg = m})
BY WorkerAssumption, FS_Subset

LEMMA HoldingMonotone ==
    ASSUME NEW m, NEW W \in SUBSET Worker
    PROVE  Holding(m, W) <= Holding(m, Worker)
<1> DEFINE H(U) == {w \in U : Busy(w) /\ job[w].msg = m}
<1>1. H(W) \subseteq H(Worker)
  OBVIOUS
<1>2. IsFiniteSet(H(Worker))
  BY HoldersFinite
<1> HIDE DEF H
<1>3. Cardinality(H(W)) <= Cardinality(H(Worker))
  BY <1>1, <1>2, FS_Subset
<1>4. Cardinality(H(W)) = Holding(m, W) /\ Cardinality(H(Worker)) = Holding(m, Worker)
  BY DEF H, Holding
<1> QED BY <1>3, <1>4

\* A handler that stays busy with its message holds as much as before, one
\* that ends holds one message less, one that begins one more.
LEMMA HoldingKept ==
    ASSUME NEW w \in Worker, \A v \in Worker \ {w} : job'[v] = job[v],
           Busy(w), Busy(w)', job'[w].msg = job[w].msg, NEW m
    PROVE  Holding(m, Worker)' = Holding(m, Worker)
<1>1. {v \in Worker : Busy(v)' /\ job'[v].msg = m}
        = {v \in Worker : Busy(v) /\ job[v].msg = m}
  BY DEF Busy
<1> QED BY <1>1 DEF Holding

LEMMA HoldingEnds ==
    ASSUME NEW w \in Worker, \A v \in Worker \ {w} : job'[v] = job[v],
           Busy(w), ~Busy(w)', NEW m
    PROVE  Holding(m, Worker)'
             = Holding(m, Worker) - (IF m = job[w].msg THEN 1 ELSE 0)
<1> DEFINE H == {v \in Worker : Busy(v) /\ job[v].msg = m}
           J == {v \in Worker : Busy(v)' /\ job'[v].msg = m}
<1>1. J = H \ {w} /\ (w \in H <=> m = job[w].msg)
  BY DEF Busy
<1>2. IsFiniteSet(H)
  BY HoldersFinite
<1>3. Holding(m, Worker) = Cardinality(H) /\ Holding(m, Worker)' = Cardinality(J)
  BY DEF Holding
<1>4. Holding(m, Worker) \in Nat
  BY HoldingType
<1> HIDE DEF H, J
<1>5. CASE w \in H
  BY <1>1, <1>2, <1>3, <1>5, FS_RemoveElement
<1>6. CASE w \notin H
  <2>1. J = H
    BY <1>1, <1>6
  <2>2. Holding(m, Worker)' = Holding(m, Worker) /\ m # job[w].msg
    BY <1>1, <1>3, <1>6, <2>1
  <2> QED BY <1>4, <2>2
<1> QED BY <1>5, <1>6

LEMMA HoldingBegins ==
    ASSUME NEW w \in Worker, \A v \in Worker \ {w} : job'[v] = job[v],
           ~Busy(w), Busy(w)', NEW m
    PROVE  Holding(m, Worker)'
             = Holding(m, Worker) + (IF m = job'[w].msg THEN 1 ELSE 0)
<1> DEFINE H == {v \in Worker : Busy(v) /\ job[v].msg = m}
           J == {v \in Worker : Busy(v)' /\ job'[v].msg = m}
<1>1. /\ w \notin H
      /\ m = job'[w].msg => J = H \cup {w}
      /\ m # job'[w].msg => J = H
  BY DEF Busy
<1>2. IsFiniteSet(H)
  BY HoldersFinite
<1>3. Holding(m, Worker) = Cardinality(H) /\ Holding(m, Worker)' = Cardinality(J)
  BY DEF Holding
<1>4. Holding(m, Worker) \in Nat
  BY HoldingType
<1> HIDE DEF H, J
<1>5. CASE m = job'[w].msg
  BY <1>1, <1>2, <1>3, <1>5, FS_AddElement
<1>6. CASE m # job'[w].msg
  BY <1>1, <1>3, <1>4, <1>6
<1> QED BY <1>5, <1>6

\* A handler keeps its message, or lets go of it and publishes it at most once.
LEMMA HandlerLetsGo ==
    ASSUME TypeOK, NEW w \in Worker, Handle(w) \/ Fail(w)
    PROVE  /\ Busy(w) /\ job[w].msg \in Msg
           /\ \A v \in Worker \ {w} : job'[v] = job[v]
           /\ \/ Busy(w)' /\ job'[w].msg = job[w].msg /\ ready' = ready
              \/ /\ ~Busy(w)'
                 /\ \/ ready' = ready
                    \/ ready' = [ready EXCEPT ![job[w].msg] = @ + 1]
<1>0. JobType
  BY DEF TypeOK, JobType
<1>1. Busy(w) /\ job[w].msg \in Msg
  BY DEF Handle, StartTx, Poll, LastWait, Load, Spend, StartStop, Settle,
         DeleteAccount, DetachAccounts, Fail, Busy, TypeOK
<1> SUFFICES /\ \A v \in Worker \ {w} : job'[v] = job[v]
             /\ \/ Busy(w)' /\ job'[w].msg = job[w].msg /\ ready' = ready
                \/ /\ ~Busy(w)'
                   /\ \/ ready' = ready
                      \/ ready' = [ready EXCEPT ![job[w].msg] = @ + 1]
  BY <1>1
<1>2. \/ \E p \in JobPc \ {"idle"} : Goto(w, p) /\ ready' = ready
      \/ \E r : job' = [job EXCEPT ![w].pc = "wait", ![w].round = r] /\ ready' = ready
      \/ Poll(w)
      \/ Throw(w) /\ ready' = ready
      \/ Finish(w) /\ (ready' = ready \/ SendMessage(job[w].msg))
  BY DEF Handle, StartTx, LastWait, Load, Spend, StartStop, Settle,
         DeleteAccount, DetachAccounts, Fail, JobPc
<1>3. CASE \E p \in JobPc \ {"idle"} : Goto(w, p) /\ ready' = ready
  BY <1>0, <1>3, GotoKeeps
<1>4. CASE \E r : job' = [job EXCEPT ![w].pc = "wait", ![w].round = r] /\ ready' = ready
  BY <1>0, <1>4 DEF JobType, Busy
<1>5. CASE Poll(w)
  <2>1. CASE Stopped(JobGroup(w))
    BY <1>0, <1>5, <2>1, FinishKeeps DEF Poll
  <2>2. CASE ~Stopped(JobGroup(w))
    BY <1>0, <1>1, <1>5, <2>2 DEF Poll, JobType, Busy
  <2> QED BY <2>1, <2>2
<1>6. CASE Throw(w) /\ ready' = ready
  BY <1>0, <1>6, ThrowKeeps
<1>7. CASE Finish(w) /\ (ready' = ready \/ SendMessage(job[w].msg))
  BY <1>0, <1>7, FinishKeeps DEF SendMessage
<1> QED BY <1>2, <1>3, <1>4, <1>5, <1>6, <1>7

LEMMA HandlerCopies ==
    ASSUME TypeOK, NEW w \in Worker, Handle(w) \/ Fail(w), NEW m \in Msg
    PROVE  Copies(m)' <= Copies(m)
<1>1. /\ Busy(w) /\ job[w].msg \in Msg
      /\ \A v \in Worker \ {w} : job'[v] = job[v]
  BY HandlerLetsGo
<1>2. ready[m] \in Nat /\ Holding(m, Worker) \in Nat
  BY HoldingType DEF TypeOK
<1>3. CASE Busy(w)' /\ job'[w].msg = job[w].msg /\ ready' = ready
  <2>1. Holding(m, Worker)' = Holding(m, Worker)
    BY <1>1, <1>3, HoldingKept
  <2> QED BY <1>2, <1>3, <2>1 DEF Copies
<1>4. CASE /\ ~Busy(w)'
           /\ ready' = ready \/ ready' = [ready EXCEPT ![job[w].msg] = @ + 1]
  <2>1. Holding(m, Worker)' = Holding(m, Worker) - (IF m = job[w].msg THEN 1 ELSE 0)
    BY <1>1, <1>4, HoldingEnds
  <2>2. ready'[m] <= ready[m] + (IF m = job[w].msg THEN 1 ELSE 0) /\ ready'[m] \in Nat
    BY <1>1, <1>2, <1>4 DEF TypeOK
  <2> QED BY <1>2, <2>1, <2>2 DEF Copies
<1> QED BY <1>3, <1>4, HandlerLetsGo

\* A message that is delivered moves from the queue to a handler.
LEMMA DeliverCopies ==
    ASSUME TypeOK, NEW w \in Worker, NEW n \in Msg, Deliver(w, n), NEW m \in Msg
    PROVE  Copies(m)' = Copies(m)
<1>1. /\ ~Busy(w) /\ job'[w].msg = n /\ Busy(w)'
      /\ \A v \in Worker \ {w} : job'[v] = job[v]
      /\ ready' = [ready EXCEPT ![n] = @ - 1]
  BY DEF Deliver, TypeOK, Busy
<1>2. ready[m] \in Nat /\ Holding(m, Worker) \in Nat
  BY HoldingType DEF TypeOK
<1>3. Holding(m, Worker)' = Holding(m, Worker) + (IF m = n THEN 1 ELSE 0)
  BY <1>1, HoldingBegins
<1>4. ready'[m] = ready[m] - (IF m = n THEN 1 ELSE 0)
  BY <1>1, <1>2 DEF TypeOK
<1> QED BY <1>2, <1>3, <1>4 DEF Copies

\* A crash leaves at most two messages of each that a handler held.
LEMMA CrashCopies ==
    ASSUME TypeOK, Crash, NEW m \in Msg
    PROVE  Copies(m)' <= 2 * Copies(m) /\ Copies(m)' \in Nat
<1>1. PICK P, A \in SUBSET {w \in Worker : AtPublish(w)} :
         ready' = [n \in Msg |-> ready[n] + Holding(n, Held \ A) + Holding(n, P)]
  BY DEF Crash
<1>2. /\ ready[m] \in Nat /\ Holding(m, Worker) \in Nat
      /\ Holding(m, Held \ A) \in Nat /\ Holding(m, P) \in Nat
      /\ Holding(m, Held \ A) <= Holding(m, Worker)
      /\ Holding(m, P) <= Holding(m, Worker)
  BY HoldingType, HoldingMonotone DEF TypeOK, Held
<1>3. Holding(m, Worker)' = 0
  <2>1. {w \in Worker : Busy(w)' /\ job'[w].msg = m} = {}
    BY DEF Crash, Busy, Idle
  <2> QED BY <2>1, FS_EmptySet DEF Holding
<1>4. ready'[m] = ready[m] + Holding(m, Held \ A) + Holding(m, P)
  BY <1>1
<1> QED BY <1>2, <1>3, <1>4 DEF Copies

\* A delivery whose connection is lost comes back; its handler goes on.
LEMMA ReturnCopies ==
    ASSUME TypeOK, NEW w \in Worker, ReturnToQueue(w), NEW m \in Msg
    PROVE  /\ Copies(m)' <= Copies(m) + 1 /\ Copies(m)' \in Nat
           /\ Copies(m) = 0 => Copies(m)' = 0
<1>1. /\ job[w].msg \in Msg /\ Busy(w)
      /\ \A v \in Worker : job'[v].pc = job[v].pc /\ job'[v].msg = job[v].msg
      /\ ready' = [ready EXCEPT ![job[w].msg] = @ + 1]
  BY DEF ReturnToQueue, TypeOK, Busy
<1>2. ready[m] \in Nat /\ Holding(m, Worker) \in Nat
  BY HoldingType DEF TypeOK
<1>3. Holding(m, Worker)' = Holding(m, Worker)
  <2>1. {v \in Worker : Busy(v)' /\ job'[v].msg = m}
          = {v \in Worker : Busy(v) /\ job[v].msg = m}
    BY <1>1 DEF Busy
  <2> QED BY <2>1 DEF Holding
<1>4. ready'[m] = ready[m] + (IF m = job[w].msg THEN 1 ELSE 0)
  BY <1>1, <1>2 DEF TypeOK
<1>5. m = job[w].msg => Holding(m, Worker) > 0
  BY <1>1, HoldingPositive
<1> QED BY <1>2, <1>3, <1>4, <1>5 DEF Copies

\* Until startup has read the rows nothing is about to be published, and the
\* place of the chain it will add is still free; a group that does not exist
\* has no messages.
Early == phase \in {"down", "boot", "readLive"}

Limit == IF Early THEN MaxCopies - 1 ELSE MaxCopies

CopiesInv ==
    /\ \A g \in Group, a \in AssetType : Count(g, a) <= Limit
    /\ \A g \in Group, a \in AssetType : Count(g, a) > 0 => g < nextId
    /\ Early => pending = {}

LEMMA CountType ==
    ASSUME TypeOK, NEW g \in Group, NEW a \in AssetType
    PROVE  /\ Copies(Tx(g, a)) \in Nat
           /\ Count(g, a) \in Nat
           /\ Count(g, a) = Copies(Tx(g, a)) + (IF g \in pending THEN 1 ELSE 0)
<1>1. ready[Tx(g, a)] \in Nat /\ Holding(Tx(g, a), Worker) \in Nat
  BY TxIsMsg, HoldingType DEF TypeOK
<1>2. Copies(Tx(g, a)) \in Nat
  BY <1>1 DEF Copies
<1> HIDE DEF Copies
<1> QED BY <1>2 DEF Count

LEMMA MaxCopiesType == ASSUME TypeOK PROVE MaxCopies \in Nat \ {0}
<1>1. Doubled[crashes] \in Nat \ {0} /\ returns \in Nat
  BY DoubledPositive, BoundsAssumption DEF TypeOK
<1>2. \A d \in Nat \ {0}, n \in Nat : d * (n + 2) - 1 \in Nat \ {0}
  <2> SUFFICES ASSUME NEW d \in Nat \ {0}, NEW n \in Nat
               PROVE  d * (n + 2) - 1 \in Nat \ {0}
    OBVIOUS
  <2>1. d * (n + 2) = d * n + 2 * d /\ d * n \in Nat
    OBVIOUS
  <2> QED BY <2>1
<1> QED BY <1>1, <1>2 DEF MaxCopies

\* What a crash and a lost connection add to the bound
LEMMA MaxCopiesCrash ==
    ASSUME TypeOK, returns' = returns, crashes' = crashes + 1, crashes + 1 <= MaxCrashes
    PROVE  MaxCopies' = 2 * MaxCopies + 1
<1>1. Doubled[crashes] \in Nat /\ returns \in Nat
  BY DoubledPositive, BoundsAssumption DEF TypeOK
<1>2. Doubled[crashes + 1] = 2 * Doubled[crashes]
  BY DoubledEquation DEF TypeOK
<1>3. \A d, n \in Nat : (2 * d) * (n + 2) - 1 = 2 * (d * (n + 2) - 1) + 1
  OBVIOUS
<1>4. MaxCopies' = (2 * Doubled[crashes]) * (returns + 2) - 1
  BY <1>2 DEF MaxCopies
<1> QED BY <1>1, <1>3, <1>4 DEF MaxCopies

LEMMA MaxCopiesReturn ==
    ASSUME TypeOK, returns' = returns + 1, crashes' = crashes
    PROVE  MaxCopies' >= MaxCopies + 1 /\ MaxCopies' \in Nat
<1>1. Doubled[crashes] \in Nat \ {0} /\ returns \in Nat
  BY DoubledPositive, BoundsAssumption DEF TypeOK
<1>2. \A d \in Nat \ {0}, n \in Nat : d * ((n + 1) + 2) - 1 = (d * (n + 2) - 1) + d
  OBVIOUS
<1>3. MaxCopies' = Doubled[crashes] * ((returns + 1) + 2) - 1
  BY DEF MaxCopies
<1>4. MaxCopies' = MaxCopies + Doubled[crashes]
  BY <1>1, <1>2, <1>3 DEF MaxCopies
<1> QED BY <1>1, <1>4, MaxCopiesType

LEMMA LimitType == ASSUME TypeOK PROVE Limit \in Nat /\ MaxCopies \in Nat \ {0}
<1>1. MaxCopies \in Nat \ {0}
  BY MaxCopiesType
<1> HIDE DEF Early, MaxCopies
<1> QED BY <1>1 DEF Limit

\* Steps after which no chain has more messages than before
LEMMA CopiesQuietStep ==
    ASSUME TypeOK, TypeOK', CopiesInv, nextId' = nextId,
           crashes' = crashes, returns' = returns,
           Early' <=> Early, pending' \subseteq pending,
           \A g \in Group, a \in AssetType : Count(g, a)' <= Count(g, a)
    PROVE  CopiesInv'
<1>1. Limit' = Limit
  BY DEF Limit, MaxCopies
<1>2. ASSUME NEW g \in Group, NEW a \in AssetType
      PROVE  Count(g, a)' <= Limit /\ (Count(g, a)' > 0 => g < nextId)
  <2>1. Count(g, a)' <= Count(g, a) /\ Count(g, a) <= Limit
        /\ (Count(g, a) > 0 => g < nextId)
    BY DEF CopiesInv
  <2>2. Count(g, a) \in Nat /\ Limit \in Nat
    BY CountType, LimitType
  <2>3. Count(g, a)' \in Nat
    <3>1. ready'[Tx(g, a)] \in Nat /\ Holding(Tx(g, a), Worker)' \in Nat
      <4>1. IsFiniteSet({w \in Worker : Busy(w)' /\ job'[w].msg = Tx(g, a)})
        BY WorkerAssumption, FS_Subset
      <4> QED BY <4>1, TxIsMsg, FS_CardinalityType DEF TypeOK, Holding
    <3> QED BY <3>1 DEF Count, Copies
  <2> QED BY <2>1, <2>2, <2>3
<1> QED BY <1>1, <1>2 DEF CopiesInv

LEMMA CountUnchanged ==
    ASSUME UNCHANGED <<ready, job, pending>>, NEW g, NEW a
    PROVE  Count(g, a)' = Count(g, a)
BY DEF Count, Copies, Holding, Busy

\* Stop messages are on no chain.
LEMMA StopCopies ==
    ASSUME TypeOK, NEW h \in Group \cup {NullGroup}, SendAllStop(h), job' = job,
           NEW g \in Group, NEW a \in AssetType
    PROVE  Copies(Tx(g, a))' = Copies(Tx(g, a))
<1>1. ready'[Tx(g, a)] = ready[Tx(g, a)]
  <2>1. \A i : Stop(h, i) # Tx(g, a)
    BY DEF Stop, Tx, AssetType
  <2> QED BY <2>1, TxIsMsg DEF SendAllStop, SendTwoMessages, TypeOK
<1> QED BY <1>1 DEF Copies, Holding, Busy

LEMMA ExecuteCounts ==
    ASSUME TypeOK, NEW h \in Group, SendAllExecuteMessage(h),
           NEW g \in Group, NEW a \in AssetType
    PROVE  Count(g, a)' <= Count(g, a)
<1>1. Holding(Tx(g, a), Worker)' = Holding(Tx(g, a), Worker)
  BY DEF SendAllExecuteMessage, Holding, Busy
<1>2. ready[Tx(g, a)] \in Nat /\ Holding(Tx(g, a), Worker) \in Nat
  BY TxIsMsg, HoldingType DEF TypeOK
<1>3. SendTwoMessages(Tx(h, "COIN"), Tx(h, "TOKEN"))
  BY DEF SendAllExecuteMessage, SendAllExecute
<1>4. /\ h # g => ready'[Tx(g, a)] = ready[Tx(g, a)]
      /\ ready'[Tx(g, a)] \in {ready[Tx(g, a)], ready[Tx(g, a)] + 1}
  <2>1. Tx(h, "COIN") # Tx(h, "TOKEN") /\ a \in {"COIN", "TOKEN"}
    BY DEF Tx, AssetType
  <2>2. h # g => Tx(g, a) # Tx(h, "COIN") /\ Tx(g, a) # Tx(h, "TOKEN")
    BY DEF Tx
  <2>3. /\ Tx(g, a) \in Msg /\ Tx(h, "COIN") \in Msg /\ Tx(h, "TOKEN") \in Msg
        /\ ready \in [Msg -> Nat]
    BY TxIsMsg DEF TypeOK, AssetType
  <2>4. CASE channel = "open"
    <3>1. ready' = [[ready EXCEPT ![Tx(h, "COIN")] = @ + 1] EXCEPT ![Tx(h, "TOKEN")] = @ + 1]
      BY <1>3, <2>4 DEF SendTwoMessages
    <3> QED BY <3>1, <2>1, <2>2, <2>3
  <2>5. CASE channel # "open"
    BY <1>3, <2>5 DEF SendTwoMessages
  <2> QED BY <2>4, <2>5
<1>5. h \in pending /\ pending' = pending \ {h}
  BY DEF SendAllExecuteMessage
<1>6. CASE h = g
  <2>1. Count(g, a) = ready[Tx(g, a)] + Holding(Tx(g, a), Worker) + 1
    BY <1>5, <1>6 DEF Count, Copies
  <2>2. Count(g, a)' = ready'[Tx(g, a)] + Holding(Tx(g, a), Worker) + 0
    BY <1>1, <1>5, <1>6 DEF Count, Copies
  <2> QED BY <1>2, <1>4, <2>1, <2>2
<1>7. CASE h # g
  <2>1. Count(g, a)' = Count(g, a)
    BY <1>1, <1>4, <1>5, <1>7 DEF Count, Copies
  <2> QED BY <2>1, CountType
<1> QED BY <1>6, <1>7

LEMMA CopiesInit == Init => CopiesInv
<1> SUFFICES ASSUME Init PROVE CopiesInv
  OBVIOUS
<1>1. ASSUME NEW g \in Group, NEW a \in AssetType PROVE Count(g, a) = 0
  <2>1. {w \in Worker : Busy(w) /\ job[w].msg = Tx(g, a)} = {}
    BY DEF Init, Busy, Idle
  <2>2. Holding(Tx(g, a), Worker) = 0
    BY <2>1, FS_EmptySet DEF Holding
  <2>3. ready[Tx(g, a)] = 0 /\ pending = {}
    BY TxIsMsg DEF Init
  <2> QED BY <2>2, <2>3 DEF Count, Copies
<1>2. Limit = 0
  BY DoubledEquation DEF Limit, MaxCopies, Early, Init
<1>3. \A g \in Group, a \in AssetType : Count(g, a) <= Limit /\ ~(Count(g, a) > 0)
  BY <1>1, <1>2
<1> QED BY <1>3 DEF CopiesInv, Init

LEMMA CopiesNext ==
    ASSUME TypeOK, TypeOK', LifeInv, CopiesInv, [Next]_vars
    PROVE  CopiesInv'
<1> USE DEF budget
<1>1. ASSUME UNCHANGED <<ready, job, pending, nextId, crashes, returns>>, Early' <=> Early
      PROVE  CopiesInv'
  <2>1. \A g \in Group, a \in AssetType : Count(g, a)' <= Count(g, a)
    BY <1>1, CountUnchanged, CountType
  <2> QED BY <1>1, <2>1, CopiesQuietStep
<1>2. CASE Start \/ ConnectChannel \/ InitDeleteIds \/ BootDone \/ CloseChannel \/ ReopenChannel
  BY <1>1, <1>2
     DEF Start, ConnectChannel, InitDeleteIds, BootDone, CloseChannel, ReopenChannel,
         Early, db
<1>3. ASSUME NEW s \in Stopper,
             GetLastGroupId(s) \/ UpdateIsDeleted(s) \/ FindStopGroup(s) \/ FailStop(s)
      PROVE  CopiesInv'
  BY <1>1, <1>3 DEF GetLastGroupId, UpdateIsDeleted, FindStopGroup, FailStop, Early, db
<1>4. ASSUME NEW h \in Group \cup {NullGroup}, SendAllStop(h),
             UNCHANGED <<job, pending, nextId, crashes, returns, phase>>
      PROVE  CopiesInv'
  <2>1. ASSUME NEW g \in Group, NEW a \in AssetType PROVE Count(g, a)' <= Count(g, a)
    <3>1. Count(g, a)' = Count(g, a)
      BY <1>4, StopCopies DEF Count
    <3> QED BY <3>1, CountType
  <2> QED BY <1>4, <2>1, CopiesQuietStep DEF Early
<1>5. ASSUME NEW g \in Group, SendStartupStop(g) PROVE CopiesInv'
  BY <1>4, <1>5 DEF SendStartupStop, db
<1>6. ASSUME NEW s \in Stopper, SendAllStopMessage(s) PROVE CopiesInv'
  <2>1. stopper[s].group \in Group \cup {NullGroup}
    BY DEF TypeOK
  <2> QED BY <1>4, <1>6, <2>1 DEF SendAllStopMessage, db
<1>7. ASSUME NEW g \in Group, SendAllExecuteMessage(g) PROVE CopiesInv'
  <2>1. \A h \in Group, a \in AssetType : Count(h, a)' <= Count(h, a)
    BY <1>7, ExecuteCounts
  <2> QED BY <1>7, <2>1, CopiesQuietStep DEF SendAllExecuteMessage, Early, db
<1>8. ASSUME NEW w \in Worker, Handle(w) \/ Fail(w) PROVE CopiesInv'
  <2>1. UNCHANGED <<nextId, pending, phase, crashes, returns>>
    BY <1>8 DEF Handle, StartTx, Poll, LastWait, Load, Spend, StartStop, Settle,
                DeleteAccount, DetachAccounts, Fail, db, Elsewhere
  <2>2. ASSUME NEW g \in Group, NEW a \in AssetType PROVE Count(g, a)' <= Count(g, a)
    <3>1. Copies(Tx(g, a))' <= Copies(Tx(g, a))
      BY <1>8, HandlerCopies, TxIsMsg
    <3>2. Copies(Tx(g, a)) \in Nat /\ Copies(Tx(g, a))' \in Nat
      <4>1. ready'[Tx(g, a)] \in Nat
        BY TxIsMsg DEF TypeOK
      <4>2. IsFiniteSet({v \in Worker : Busy(v)' /\ job'[v].msg = Tx(g, a)})
        BY WorkerAssumption, FS_Subset
      <4>3. Copies(Tx(g, a))' \in Nat
        BY <4>1, <4>2, FS_CardinalityType DEF Copies, Holding
      <4> QED BY <4>3, CountType
    <3> QED BY <2>1, <3>1, <3>2 DEF Count
  <2> QED BY <2>1, <2>2, CopiesQuietStep DEF Early
<1>9. ASSUME NEW w \in Worker, NEW n \in Msg, Deliver(w, n) PROVE CopiesInv'
  <2>1. ASSUME NEW g \in Group, NEW a \in AssetType PROVE Count(g, a)' <= Count(g, a)
    <3>1. Copies(Tx(g, a))' = Copies(Tx(g, a))
      BY <1>9, DeliverCopies, TxIsMsg
    <3>2. Count(g, a)' = Count(g, a)
      BY <1>9, <3>1 DEF Count, Deliver
    <3> QED BY <3>2, CountType
  <2> QED BY <1>9, <2>1, CopiesQuietStep DEF Deliver, Early, db
<1>10. CASE InitGroupIds
  <2>1. /\ Early /\ ~Early' /\ pending = {} /\ pending' = LiveRows
        /\ UNCHANGED <<nextId, crashes, returns, ready, job>>
    BY <1>10 DEF InitGroupIds, Early, CopiesInv, db
  <2>2. ASSUME NEW g \in Group, NEW a \in AssetType
        PROVE  Count(g, a)' <= Limit' /\ (Count(g, a)' > 0 => g < nextId)
    <3>1. Copies(Tx(g, a))' = Copies(Tx(g, a))
      BY <2>1 DEF Copies, Holding, Busy
    <3>2. Count(g, a) = Copies(Tx(g, a)) /\ Copies(Tx(g, a)) \in Nat
      BY <2>1, CountType
    <3>3. Copies(Tx(g, a)) <= MaxCopies - 1 /\ MaxCopies \in Nat \ {0}
      BY <2>1, <3>2, LimitType DEF CopiesInv, Limit
    <3>4. Limit' = MaxCopies
      BY <2>1 DEF Limit, MaxCopies
    <3>5. Count(g, a)' = Copies(Tx(g, a)) + (IF g \in LiveRows THEN 1 ELSE 0)
      BY <2>1, <3>1 DEF Count
    <3>6. g \in LiveRows => g < nextId
      BY DEF LiveRows, LifeInv
    <3>7. Copies(Tx(g, a)) > 0 => g < nextId
      BY <3>2 DEF CopiesInv
    <3> QED BY <3>2, <3>3, <3>4, <3>5, <3>6, <3>7
  <2> QED BY <2>1, <2>2 DEF CopiesInv
<1>11. CASE CreateAccountGroup
  <2>1. /\ nextId' = nextId + 1 /\ pending' = pending \cup {nextId} /\ nextId \in Group
        /\ UNCHANGED <<ready, job, crashes, returns, phase>> /\ phase = "up"
    BY <1>11 DEF CreateAccountGroup
  <2>2. ~Early /\ ~Early' /\ Limit' = Limit /\ Limit = MaxCopies
    BY <2>1 DEF Early, Limit, MaxCopies
  <2>3. nextId \in Nat /\ Group \subseteq Nat
    BY GroupsAssumption DEF Group, TypeOK
  <2>4. ASSUME NEW g \in Group, NEW a \in AssetType
        PROVE  Count(g, a)' <= Limit' /\ (Count(g, a)' > 0 => g < nextId')
    <3>1. Copies(Tx(g, a))' = Copies(Tx(g, a))
      BY <2>1 DEF Copies, Holding, Busy
    <3>2. /\ Count(g, a) \in Nat /\ Copies(Tx(g, a)) \in Nat
          /\ Count(g, a) = Copies(Tx(g, a)) + (IF g \in pending THEN 1 ELSE 0)
      BY CountType
    <3>3. Count(g, a) <= Limit /\ (Count(g, a) > 0 => g < nextId)
      BY DEF CopiesInv
    <3>4. Count(g, a)' = Copies(Tx(g, a)) + (IF g \in pending \cup {nextId} THEN 1 ELSE 0)
      BY <2>1, <3>1 DEF Count
    <3>5. CASE g = nextId
      <4>1. Count(g, a) = 0
        BY <2>3, <3>2, <3>3, <3>5
      <4>2. Count(g, a)' = 1
        BY <3>2, <3>4, <3>5, <4>1
      <4> QED BY <2>1, <2>2, <2>3, <3>5, <4>2, LimitType
    <3>6. CASE g # nextId
      <4>1. Count(g, a)' = Count(g, a)
        BY <3>2, <3>4, <3>6
      <4> QED BY <2>1, <2>2, <2>3, <3>3, <4>1
    <3> QED BY <3>5, <3>6
  <2> QED BY <2>2, <2>4 DEF CopiesInv
<1>12. CASE Crash
  <2>1. /\ crashes' = crashes + 1 /\ crashes + 1 <= MaxCrashes /\ crashes \in 0 .. MaxCrashes
        /\ pending' = {} /\ phase' = "down" /\ nextId' = nextId
        /\ returns' = returns
    BY <1>12, BoundsAssumption DEF Crash, TypeOK, db
  <2>2. Early' /\ Limit' = MaxCopies' - 1
    BY <2>1 DEF Early, Limit
  <2>3. Limit' = 2 * MaxCopies /\ MaxCopies \in Nat
    BY <2>1, <2>2, MaxCopiesCrash, MaxCopiesType
  <2>4. Limit <= MaxCopies /\ Limit \in Nat
    <3> HIDE DEF MaxCopies
    <3> QED BY LimitType DEF Limit
  <2>5. ASSUME NEW g \in Group, NEW a \in AssetType
        PROVE  Count(g, a)' <= Limit' /\ (Count(g, a)' > 0 => g < nextId)
    <3>1. Copies(Tx(g, a))' <= 2 * Copies(Tx(g, a)) /\ Copies(Tx(g, a))' \in Nat
      BY <1>12, CrashCopies, TxIsMsg
    <3>2. /\ Count(g, a) \in Nat /\ Copies(Tx(g, a)) \in Nat
          /\ Copies(Tx(g, a)) <= Count(g, a)
      BY CountType
    <3>3. Count(g, a) <= Limit /\ (Count(g, a) > 0 => g < nextId)
      BY DEF CopiesInv
    <3>4. Count(g, a)' = Copies(Tx(g, a))'
      BY <2>1, <3>1 DEF Count
    <3> QED BY <2>3, <2>4, <3>1, <3>2, <3>3, <3>4
  <2> QED BY <2>1, <2>5 DEF CopiesInv
<1>13. ASSUME NEW w \in Worker, ReturnToQueue(w) PROVE CopiesInv'
  <2>1. /\ returns' = returns + 1
        /\ UNCHANGED <<crashes, pending, phase, nextId>>
    BY <1>13 DEF ReturnToQueue, db
  <2>2. /\ Limit \in Nat /\ Limit' \in Int
        /\ Limit' >= Limit + 1
    <3>1. MaxCopies' >= MaxCopies + 1 /\ MaxCopies' \in Nat /\ MaxCopies \in Nat
      BY <2>1, MaxCopiesReturn, MaxCopiesType
    <3>2. Limit \in Nat /\ (Early' <=> Early)
      BY <2>1, LimitType DEF Early
    <3>3. CASE Early
      <4>1. Limit = MaxCopies - 1 /\ Limit' = MaxCopies' - 1
        BY <3>2, <3>3 DEF Limit
      <4>2. \A x, y \in Nat : y >= x + 1 => y - 1 \in Int /\ y - 1 >= (x - 1) + 1
        OBVIOUS
      <4>3. MaxCopies' - 1 \in Int /\ MaxCopies' - 1 >= (MaxCopies - 1) + 1
        BY ONLY <3>1, <4>2
      <4> QED BY ONLY <3>2, <4>1, <4>3
    <3>4. CASE ~Early
      <4>1. Limit = MaxCopies /\ Limit' = MaxCopies'
        BY <3>2, <3>4 DEF Limit
      <4>2. MaxCopies' \in Int
        BY <3>1
      <4> QED BY ONLY <3>1, <3>2, <4>1, <4>2
    <3> QED BY <3>3, <3>4
  <2>3. ASSUME NEW g \in Group, NEW a \in AssetType
        PROVE  Count(g, a)' <= Limit' /\ (Count(g, a)' > 0 => g < nextId)
    <3>1. /\ Copies(Tx(g, a))' <= Copies(Tx(g, a)) + 1 /\ Copies(Tx(g, a))' \in Nat
          /\ Copies(Tx(g, a)) = 0 => Copies(Tx(g, a))' = 0
      BY <1>13, ReturnCopies, TxIsMsg
    <3>2. /\ Count(g, a) \in Nat /\ Copies(Tx(g, a)) \in Nat
          /\ Count(g, a) = Copies(Tx(g, a)) + (IF g \in pending THEN 1 ELSE 0)
      BY CountType
    <3>3. Count(g, a)' = Copies(Tx(g, a))' + (IF g \in pending THEN 1 ELSE 0)
      BY <2>1 DEF Count
    <3>4. Count(g, a) <= Limit /\ (Count(g, a) > 0 => g < nextId)
      BY DEF CopiesInv
    <3> QED BY <2>2, <3>1, <3>2, <3>3, <3>4
  <2>4. (Early => pending = {})'
    BY <2>1 DEF Early, CopiesInv
  <2> QED BY <2>1, <2>3, <2>4 DEF CopiesInv
<1>14. CASE UNCHANGED vars
  BY <1>1, <1>14 DEF vars, db, Early
<1> QED
  BY <1>2, <1>3, <1>5, <1>6, <1>7, <1>8, <1>9, <1>10, <1>11, <1>12, <1>13,
     <1>14 DEF Next, Boot, Request

\* However often the process is restarted and however many deliveries lose
\* their connection, whatever the handlers are doing then, a chain never has
\* more than MaxCopies messages: those startup is about to publish and those
\* of handlers that go on after their message went back included.
THEOREM ChainBoundCorrect == Spec => []ChainBound
<1>1. TypeOK /\ CopiesInv => ChainBound
  <2> SUFFICES ASSUME TypeOK, CopiesInv, NEW g \in Group, NEW a \in AssetType
               PROVE  Count(g, a) <= MaxCopies
    BY DEF ChainBound
  <2>1. Count(g, a) \in Nat /\ Count(g, a) <= Limit
    BY CountType DEF CopiesInv
  <2>2. Limit \in Nat /\ Limit <= MaxCopies /\ MaxCopies \in Nat
    <3> HIDE DEF MaxCopies
    <3> QED BY LimitType DEF Limit
  <2> QED BY <2>1, <2>2
<1>2. TypeOK /\ TypeOK' /\ LifeInv /\ CopiesInv /\ [Next]_vars => CopiesInv'
  BY CopiesNext
<1> QED BY <1>1, <1>2, CopiesInit, TypeCorrect, LifeInvCorrect, PTL DEF Spec
=============================================================================
