---------------------------- MODULE StopInstance ----------------------------
(***************************************************************************)
(* The stop flag of an account group (utils/transactionStopInstance.ts)    *)
(* and the form in which a BOT-STOP message carries it                     *)
(* (rabbitmq/dtos/rabbitmq.dto.ts).  Pure operators on one flag; the map   *)
(* from group ids to flags is the variable "flag" of BotLifecycle.         *)
(***************************************************************************)

AssetType == {"COIN", "TOKEN"}

Instance == [isToken : BOOLEAN, isCoin : BOOLEAN, isStop : BOOLEAN]

\* "The map has no entry for the group".  No constructor call builds this
\* record: each sets isToken or isCoin.
NoInstance == [isToken |-> FALSE, isCoin |-> FALSE, isStop |-> FALSE]

NewInstance(isStop, asset) ==
    [isToken |-> asset = "TOKEN", isCoin |-> asset = "COIN", isStop |-> isStop]

UpdateCoinAndToken(inst, asset, isStop) ==
    [isToken |-> inst.isToken \/ asset = "TOKEN",
     isCoin  |-> inst.isCoin \/ asset = "COIN",
     isStop  |-> isStop]

\* TransactionStopInstance.set, on the entry of one group
SetStop(inst, isStop, asset) ==
    IF inst = NoInstance THEN NewInstance(isStop, asset)
                         ELSE UpdateCoinAndToken(inst, asset, isStop)

\* isTransactionStopped: the entry exists, whatever its bits say
IsTransactionStopped(inst) == inst # NoInstance

\* isSafe tests the token bit twice and the coin bit never
IsSafe(inst) == inst.isToken /\ inst.isToken

\* BotStopDto.fromRawData rebuilds the instance from its token bit alone
FromRawData(inst) ==
    NewInstance(inst.isStop, IF inst.isToken THEN "TOKEN" ELSE "COIN")
=============================================================================
