---------------------------- MODULE BotLifecycle ----------------------------
(***************************************************************************)
(* The life of the transaction bots.  A POST creates an account group and  *)
(* publishes one COIN and one TOKEN message; the handler of each message   *)
(* makes one transfer and publishes its successor, so a group is kept      *)
(* running by two chains of messages.  A DELETE raises the in-memory stop  *)
(* flag of a group and publishes BOT-STOP messages, whose handler settles  *)
(* the group's balances, deletes its row and detaches its accounts.  After *)
(* a crash the startup service publishes the messages again, from the rows *)
(* it finds.                                                               *)
(*                                                                         *)
(* Between two awaits a handler runs alone, so an action is the code from  *)
(* one await to the next.  Amounts and the choice of accounts are left to  *)
(* the module AccountLedger.                                               *)
(***************************************************************************)
EXTENDS StopInstance, Naturals, FiniteSets

CONSTANTS
    Worker,      \* handler invocations that may be in progress at once
    Stopper,     \* DELETE requests that may be in progress at once
    MaxGroups,   \* bound: account groups created (ids 1..MaxGroups)
    PollRounds,  \* waits of 1.5 s in a handler (3 in the code)
    RetryCount,  \* retries of a failed handler (1 in the code)
    MaxStops,    \* bound: DELETE requests
    MaxCrashes,  \* bound: process crashes
    MaxFails,    \* bound: database or chain calls that throw
    MaxCloses,   \* bound: times the publishing channel closes
    MaxReturns   \* bound: deliveries whose connection is lost under them

ASSUME WorkerAssumption  == IsFiniteSet(Worker)
ASSUME GroupsAssumption  == MaxGroups \in Nat
ASSUME RoundsAssumption  == PollRounds \in Nat \ {0}
ASSUME RetryAssumption   == RetryCount \in Nat
ASSUME BoundsAssumption  == /\ MaxStops \in Nat
                            /\ MaxCrashes \in Nat
                            /\ MaxFails \in Nat
                            /\ MaxCloses \in Nat
                            /\ MaxReturns \in Nat

VARIABLES
    row,       \* account_group: "none", "live" (isDeleted = 0) or "deleted"
    nextId,    \* next auto-increment id of account_group
    attached,  \* accounts still carry the group's id in accountGroupId
    flag,      \* TransactionStopInstance.isStop: in memory, lost in a crash
    ready,     \* messages waiting in BOT-TRANSACTION and BOT-STOP: a bag
    job,       \* what each handler invocation is doing
    pending,   \* groups whose execute messages are still to be published
    toStop,    \* groups whose stop messages startup has still to publish
    stopper,   \* where each DELETE request is
    phase,     \* where the process is in bootstrap()
    channel,   \* RabbitmqService.channel
    dropped,   \* history: messages lost (publish failed, retries exhausted)
    stops, crashes, fails, closes, returns   \* what the bounds have used

db     == <<row, nextId, attached>>
budget == <<stops, crashes, fails, closes, returns>>
vars   == <<db, flag, ready, job, pending, toStop, stopper, phase, channel,
            dropped, budget>>

-----------------------------------------------------------------------------
(* Groups and messages *)

Group == 1 .. MaxGroups

\* the id null, which findAccountGroupLastId returns when no row is live
NullGroup == 0

\* what set() can have made of a flag by the time it is published
Published == {i \in Instance : i.isStop /\ (i.isCoin \/ i.isToken)}

Tx(g, a)   == [kind |-> a, group |-> g, inst |-> NoInstance]
Stop(g, i) == [kind |-> "STOP", group |-> g, inst |-> i]

TxMsg   == {Tx(g, a) : g \in Group, a \in AssetType}
StopMsg == {Stop(g, i) : g \in Group \cup {NullGroup}, i \in Published}
Msg     == TxMsg \cup StopMsg

\* A BOT-STOP message that makes its handler settle and delete the group
SafeStop(m) == /\ m.kind = "STOP"
               /\ m.group # NullGroup
               /\ IsSafe(FromRawData(m.inst))

Stopped(g) == IsTransactionStopped(flag[g])

NoMsg == [kind |-> "NONE", group |-> NullGroup, inst |-> NoInstance]

\* `held`: the message came on a connection that still stands, so the broker
\* waits for its acknowledgement
Idle == [pc |-> "idle", msg |-> NoMsg, round |-> 0, try |-> 0, held |-> FALSE]

Busy(w) == job[w].pc # "idle"

\* The broker has m, waiting or delivered and not yet acknowledged.
Carried(m) == ready[m] > 0 \/ \E w \in Worker : job[w].held /\ job[w].msg = m

Rows     == {g \in Group : row[g] # "none"}
LiveRows == {g \in Group : row[g] = "live"}

\* the largest of a set of ids, null when it is empty
LastId(S) == IF S = {} THEN NullGroup ELSE CHOOSE g \in S : \A h \in S : h <= g

-----------------------------------------------------------------------------
(* Publishing.  sendMessage catches every error: on a closed or missing    *)
(* channel the message is lost and its sender goes on.                     *)

SendMessage(m) ==
    IF channel = "open"
    THEN /\ ready' = [ready EXCEPT ![m] = @ + 1]
         /\ UNCHANGED dropped
    ELSE /\ dropped' = dropped \cup {m}
         /\ UNCHANGED ready

SendTwoMessages(m, n) ==
    IF channel = "open"
    THEN /\ ready' = [[ready EXCEPT ![m] = @ + 1] EXCEPT ![n] = @ + 1]
         /\ UNCHANGED dropped
    ELSE /\ dropped' = dropped \cup {m, n}
         /\ UNCHANGED ready

\* The flag is raised for one asset and published, then for the other: the
\* first message is the snapshot before the second bit is set.
SendAllStop(g) ==
    LET coin == SetStop(flag[g], TRUE, "COIN")
        both == SetStop(coin, TRUE, "TOKEN")
    IN  /\ flag' = [flag EXCEPT ![g] = both]
        /\ SendTwoMessages(Stop(g, coin), Stop(g, both))

SendAllExecute(g) == SendTwoMessages(Tx(g, "COIN"), Tx(g, "TOKEN"))

-----------------------------------------------------------------------------
(* The process: bootstrap(), the startup service, crash and restart        *)

\* pm2 starts the process; startAllMicroservices subscribes the consumers
\* before app.listen runs the onModuleInit hooks.
Start ==
    /\ phase = "down"
    /\ phase' = "boot"
    /\ UNCHANGED <<db, flag, ready, job, pending, toStop, stopper, channel,
                   dropped, budget>>

\* RabbitmqService.onModuleInit: until it has run there is no channel
ConnectChannel ==
    /\ phase = "boot"
    /\ phase' = "readLive"
    /\ channel' = "open"
    /\ UNCHANGED <<db, flag, ready, job, pending, toStop, stopper, dropped,
                   budget>>

\* mutant: startup resumes nothing
InitGroupIdsSkipped ==
    /\ phase = "readLive"
    /\ phase' = "readDeleted"
    /\ pending' = {}
    /\ dropped' = {m \in dropped : m.kind = "STOP"}
    /\ UNCHANGED <<db, flag, ready, job, toStop, stopper, channel, budget>>

\* The messages of the live rows will be published again, so the history
\* forgets those that were lost before.
InitGroupIds ==
    /\ phase = "readLive"
    /\ phase' = "readDeleted"
    /\ pending' = LiveRows
    /\ dropped' = {m \in dropped : m.kind = "STOP"}
    /\ UNCHANGED <<db, flag, ready, job, toStop, stopper, channel, budget>>

InitDeleteIds ==
    /\ phase = "readDeleted"
    /\ phase' = "resume"
    /\ toStop' = {g \in Group : row[g] = "deleted"}
    /\ UNCHANGED <<db, flag, ready, job, pending, stopper, channel, dropped,
                   budget>>

\* sendAllExecuteMessage, called at startup for each live row and by the
\* POST handler for the group it created
SendAllExecuteMessage(g) ==
    /\ phase \in {"resume", "up"}
    /\ g \in pending
    /\ pending' = pending \ {g}
    /\ SendAllExecute(g)
    /\ UNCHANGED <<db, flag, job, toStop, stopper, phase, channel, budget>>

\* mutant: startup sends the COIN stop message alone
SendStartupCoinStop(g) ==
    /\ phase = "resume"
    /\ pending = {}
    /\ g \in toStop
    /\ toStop' = toStop \ {g}
    /\ flag' = [flag EXCEPT ![g] = SetStop(@, TRUE, "COIN")]
    /\ SendMessage(Stop(g, SetStop(flag[g], TRUE, "COIN")))
    /\ UNCHANGED <<db, job, pending, stopper, phase, channel, budget>>

SendStartupStop(g) ==
    /\ phase = "resume"
    /\ pending = {}
    /\ g \in toStop
    /\ toStop' = toStop \ {g}
    /\ SendAllStop(g)
    /\ UNCHANGED <<db, job, pending, stopper, phase, channel, budget>>

BootDone ==
    /\ phase = "resume"
    /\ pending = {}
    /\ toStop = {}
    /\ phase' = "up"
    /\ UNCHANGED <<db, flag, ready, job, pending, toStop, stopper, channel,
                   dropped, budget>>

\* The broker closes the publishing connection in good order (its error
\* event has no listener and ends the process: that is Crash); healthCheck
\* opens it again.  The consumers have connections of their own.
CloseChannel ==
    /\ channel = "open"
    /\ closes < MaxCloses
    /\ closes' = closes + 1
    /\ channel' = "closed"
    /\ UNCHANGED <<db, flag, ready, job, pending, toStop, stopper, phase,
                   dropped, stops, crashes, fails, returns>>

ReopenChannel ==
    /\ channel = "closed"
    /\ phase \in {"readLive", "readDeleted", "resume", "up"}
    /\ channel' = "open"
    /\ UNCHANGED <<db, flag, ready, job, pending, toStop, stopper, phase,
                   dropped, budget>>

\* The next await of these handlers follows a publish: when the process dies
\* there, the broker may have seen the publish, the ack, both or neither,
\* for they travel on different connections.
AtPublish(w) ==
    \/ job[w].msg.kind = "COIN"  /\ job[w].pc = "spend"
    \/ job[w].msg.kind = "TOKEN" /\ job[w].pc = "wait" /\ job[w].round = PollRounds

Holding(m, W) == Cardinality({w \in W : Busy(w) /\ job[w].msg = m})

Held == {w \in Worker : job[w].held}

Crash ==
    /\ phase # "down"
    /\ crashes < MaxCrashes
    /\ crashes' = crashes + 1
    /\ \E published, acked \in SUBSET {w \in Worker : AtPublish(w)} :
          /\ published # {} => channel = "open"
          /\ ready' = [m \in Msg |-> ready[m] + Holding(m, Held \ acked)
                                              + Holding(m, published)]
    /\ phase' = "down"
    /\ channel' = "closed"
    /\ flag' = [g \in Group \cup {NullGroup} |-> NoInstance]
    /\ job' = [w \in Worker |-> Idle]
    /\ stopper' = [s \in Stopper |-> [pc |-> "idle", group |-> NullGroup]]
    /\ pending' = {}
    /\ toStop' = {}
    /\ UNCHANGED <<db, dropped, stops, fails, closes, returns>>

-----------------------------------------------------------------------------
(* POST /block and DELETE /block/account                                   *)

CreateAccountGroup ==
    /\ phase = "up"
    /\ nextId \in Group
    /\ row' = [row EXCEPT ![nextId] = "live"]
    /\ attached' = [attached EXCEPT ![nextId] = TRUE]
    /\ nextId' = nextId + 1
    /\ pending' = pending \cup {nextId}
    /\ UNCHANGED <<flag, ready, job, toStop, stopper, phase, channel, dropped,
                   budget>>

\* The controller does not await stopSendMQ, so requests overlap freely.
GetLastGroupId(s) ==
    /\ phase = "up"
    /\ stopper[s].pc = "idle"
    /\ stops < MaxStops
    /\ stops' = stops + 1
    /\ stopper' = [stopper EXCEPT ![s] = [pc |-> "mark", group |-> LastId(LiveRows)]]
    /\ UNCHANGED <<db, flag, ready, job, pending, toStop, phase, channel,
                   dropped, crashes, fails, closes, returns>>

\* mutant: the entity read before is saved with isDeleted set, which inserts
\* the row again when it is gone
UpdateIsDeletedBySave(s) ==
    /\ stopper[s].pc = "mark"
    /\ row' = IF stopper[s].group = NullGroup THEN row
              ELSE [row EXCEPT ![stopper[s].group] = "deleted"]
    /\ stopper' = [stopper EXCEPT ![s].pc = "find"]
    /\ UNCHANGED <<nextId, attached, flag, ready, job, pending, toStop, phase,
                   channel, dropped, budget>>

\* The UPDATE marks the last row of the table, whatever was read before.
UpdateIsDeleted(s) ==
    /\ stopper[s].pc = "mark"
    /\ row' = IF Rows = {} THEN row ELSE [row EXCEPT ![LastId(Rows)] = "deleted"]
    /\ stopper' = [stopper EXCEPT ![s].pc = "find"]
    /\ UNCHANGED <<nextId, attached, flag, ready, job, pending, toStop, phase,
                   channel, dropped, budget>>

\* findAccountGroup(null) has no condition and finds some row.  Without one,
\* accountGroup.accounts throws and the request ends in its catch.
FindStopGroup(s) ==
    /\ stopper[s].pc = "find"
    /\ LET g == stopper[s].group
           found == IF g = NullGroup THEN Rows # {} ELSE g \in Rows
       IN  stopper' = [stopper EXCEPT ![s].pc = IF found THEN "send" ELSE "idle"]
    /\ UNCHANGED <<db, flag, ready, job, pending, toStop, phase, channel,
                   dropped, budget>>

\* The accounts' tokens have been sent back; the group is told to stop.
SendAllStopMessage(s) ==
    /\ stopper[s].pc = "send"
    /\ stopper' = [stopper EXCEPT ![s].pc = "idle"]
    /\ SendAllStop(stopper[s].group)
    /\ UNCHANGED <<db, job, pending, toStop, phase, channel, budget>>

FailStop(s) ==
    /\ stopper[s].pc # "idle"
    /\ fails < MaxFails
    /\ fails' = fails + 1
    /\ stopper' = [stopper EXCEPT ![s].pc = "idle"]
    /\ UNCHANGED <<db, flag, ready, job, pending, toStop, phase, channel,
                   dropped, stops, crashes, closes, returns>>

-----------------------------------------------------------------------------
(* The message handlers: delivery, retry, acknowledgement                  *)

\* Prefetch is unlimited: a message waits only for the bound on Worker.
Deliver(w, m) ==
    /\ phase # "down"
    /\ ~Busy(w)
    /\ ready[m] > 0
    /\ ready' = [ready EXCEPT ![m] = @ - 1]
    /\ job' = [job EXCEPT ![w] = [pc |-> "start", msg |-> m, round |-> 0,
                                  try |-> 0, held |-> TRUE]]
    /\ UNCHANGED <<db, flag, pending, toStop, stopper, phase, channel, dropped,
                   budget>>

\* A consumer's connection is lost while the process runs on; Nest makes it
\* again, and the broker delivers once more what was not acknowledged on it.
\* The handler of a first delivery notices nothing.  A lost connection is one
\* such step for each of its deliveries; an acknowledgement that was on its
\* way is the step taken just before the handler returns.
ReturnToQueue(w) ==
    /\ job[w].held
    /\ returns < MaxReturns
    /\ returns' = returns + 1
    /\ ready' = [ready EXCEPT ![job[w].msg] = @ + 1]
    /\ job' = [job EXCEPT ![w].held = FALSE]
    /\ UNCHANGED <<db, flag, pending, toStop, stopper, phase, channel, dropped,
                   stops, crashes, fails, closes>>

Goto(w, p) == job' = [job EXCEPT ![w].pc = p]

\* The handler returns and the interceptor acknowledges the message; when its
\* channel is gone that throws, and the message is back in the queue already.
Finish(w) == job' = [job EXCEPT ![w] = Idle]

\* The decorator runs the handler again; after the last attempt the exception
\* filter acknowledges the message, which is gone unless it went back before.
Throw(w) ==
    IF job[w].try < RetryCount
    THEN /\ job' = [job EXCEPT ![w].pc = "start", ![w].round = 0, ![w].try = @ + 1]
         /\ UNCHANGED dropped
    ELSE /\ Finish(w)
         /\ dropped' = dropped \cup {m \in {job[w].msg} : job[w].held}

JobGroup(w) == job[w].msg.group

\* what a step of a handler leaves alone, besides what it says
Elsewhere == <<pending, toStop, stopper, phase, channel, budget>>

-----------------------------------------------------------------------------
(* BOT-TRANSACTION: sendCoin1 and sendToken                                *)

\* Both look at the flag first; sendCoin1 then waits, sendToken goes on.
StartTx(w) ==
    /\ job[w].pc = "start"
    /\ job[w].msg.kind \in AssetType
    /\ IF Stopped(JobGroup(w)) THEN Goto(w, "settle")
       ELSE IF job[w].msg.kind = "TOKEN" THEN Goto(w, "load")
       ELSE job' = [job EXCEPT ![w].pc = "wait", ![w].round = 1]
    /\ UNCHANGED <<db, flag, ready, dropped, Elsewhere>>

\* mutant: one wait too many
PollOffByOne(w) ==
    /\ job[w].pc = "wait"
    /\ job[w].round <= PollRounds
    /\ IF Stopped(JobGroup(w)) THEN Finish(w)
                               ELSE job' = [job EXCEPT ![w].round = @ + 1]
    /\ UNCHANGED <<db, flag, ready, dropped, Elsewhere>>

\* A wait is over and another follows: the flag ends the handler, and the
\* chain with it.
Poll(w) ==
    /\ job[w].pc = "wait"
    /\ job[w].round < PollRounds
    /\ IF Stopped(JobGroup(w)) THEN Finish(w)
                               ELSE job' = [job EXCEPT ![w].round = @ + 1]
    /\ UNCHANGED <<db, flag, ready, dropped, Elsewhere>>

\* The last wait is over: nobody looks at the flag again.
LastWait(w) ==
    /\ job[w].pc = "wait"
    /\ job[w].round = PollRounds
    /\ IF job[w].msg.kind = "COIN"
       THEN Goto(w, "load") /\ UNCHANGED <<ready, dropped>>
       ELSE Finish(w) /\ SendMessage(job[w].msg)
    /\ UNCHANGED <<db, flag, Elsewhere>>

\* mutant: a missing group is passed over
LoadWithoutRow(w) ==
    /\ job[w].pc = "load"
    /\ Goto(w, "spend")
    /\ UNCHANGED <<db, flag, ready, dropped, Elsewhere>>

\* findAccountGroup: no row, and the first use of the group throws.
Load(w) ==
    /\ job[w].pc = "load"
    /\ IF row[JobGroup(w)] = "none" THEN Throw(w)
       ELSE Goto(w, "spend") /\ UNCHANGED dropped
    /\ UNCHANGED <<db, flag, ready, Elsewhere>>

\* mutant: sendToken too publishes as soon as the transfer is made, and again
\* after its waits
SpendAndPublish(w) ==
    /\ job[w].pc = "spend"
    /\ IF job[w].msg.kind = "COIN" THEN Finish(w)
       ELSE job' = [job EXCEPT ![w].pc = "wait", ![w].round = 1]
    /\ SendMessage(job[w].msg)
    /\ UNCHANGED <<db, flag, Elsewhere>>

\* The transfer is made.  sendCoin1 publishes its successor; sendToken
\* starts waiting, after a look at the flag.
Spend(w) ==
    /\ job[w].pc = "spend"
    /\ \/ /\ job[w].msg.kind = "COIN"
          /\ Finish(w)
          /\ SendMessage(job[w].msg)
       \/ /\ job[w].msg.kind = "TOKEN"
          /\ IF Stopped(JobGroup(w)) THEN Finish(w)
             ELSE job' = [job EXCEPT ![w].pc = "wait", ![w].round = 1]
          /\ UNCHANGED <<ready, dropped>>
    /\ UNCHANGED <<db, flag, Elsewhere>>

-----------------------------------------------------------------------------
(* BOT-STOP: transactionSoftDelete                                         *)

\* fromRawData returns null for the null group, and its use throws.
StartStop(w) ==
    /\ job[w].pc = "start"
    /\ job[w].msg.kind = "STOP"
    /\ \/ JobGroup(w) = NullGroup /\ Throw(w)
       \/ /\ JobGroup(w) # NullGroup
          /\ IF IsSafe(FromRawData(job[w].msg.inst)) THEN Goto(w, "settle")
                                                     ELSE Finish(w)
          /\ UNCHANGED dropped
    /\ UNCHANGED <<db, flag, ready, Elsewhere>>

\* returnCoinAndToken, by either handler
Settle(w) ==
    /\ job[w].pc = "settle"
    /\ IF job[w].msg.kind = "STOP" THEN Goto(w, "delete") ELSE Finish(w)
    /\ UNCHANGED <<db, flag, ready, dropped, Elsewhere>>

\* mutant: the handler does not wait for the second transaction
DeleteWithoutDetach(w) ==
    /\ job[w].pc = "delete"
    /\ row' = [row EXCEPT ![JobGroup(w)] = "none"]
    /\ Finish(w)
    /\ UNCHANGED <<nextId, attached, flag, ready, dropped, Elsewhere>>

\* softDeleteAccount: first the group's row goes ...
DeleteAccount(w) ==
    /\ job[w].pc = "delete"
    /\ row' = [row EXCEPT ![JobGroup(w)] = "none"]
    /\ Goto(w, "detach")
    /\ UNCHANGED <<nextId, attached, flag, ready, dropped, Elsewhere>>

\* ... then, in a second transaction, its accounts go back to the pool.
DetachAccounts(w) ==
    /\ job[w].pc = "detach"
    /\ attached' = [attached EXCEPT ![JobGroup(w)] = FALSE]
    /\ Finish(w)
    /\ UNCHANGED <<row, nextId, flag, ready, dropped, Elsewhere>>

\* a database or chain call of the handler throws
Fail(w) ==
    /\ job[w].pc \in {"load", "spend", "settle", "delete", "detach"}
    /\ fails < MaxFails
    /\ fails' = fails + 1
    /\ Throw(w)
    /\ UNCHANGED <<db, flag, ready, pending, toStop, stopper, phase, channel,
                   stops, crashes, closes, returns>>

-----------------------------------------------------------------------------
Init ==
    /\ row = [g \in Group |-> "none"]
    /\ nextId = 1
    /\ attached = [g \in Group |-> FALSE]
    /\ flag = [g \in Group \cup {NullGroup} |-> NoInstance]
    /\ ready = [m \in Msg |-> 0]
    /\ job = [w \in Worker |-> Idle]
    /\ pending = {}
    /\ toStop = {}
    /\ stopper = [s \in Stopper |-> [pc |-> "idle", group |-> NullGroup]]
    /\ phase = "down"
    /\ channel = "closed"
    /\ dropped = {}
    /\ stops = 0 /\ crashes = 0 /\ fails = 0 /\ closes = 0 /\ returns = 0

Handle(w) ==
    \/ StartTx(w) \/ Poll(w) \/ LastWait(w) \/ Load(w) \/ Spend(w)
    \/ StartStop(w) \/ Settle(w) \/ DeleteAccount(w) \/ DetachAccounts(w)

Boot ==
    \/ Start \/ ConnectChannel \/ InitGroupIds \/ InitDeleteIds \/ BootDone
    \/ \E g \in Group : SendStartupStop(g)

Request(s) ==
    UpdateIsDeleted(s) \/ FindStopGroup(s) \/ SendAllStopMessage(s)

Next ==
    \/ Boot
    \/ \E g \in Group : SendAllExecuteMessage(g)
    \/ CloseChannel \/ ReopenChannel \/ Crash
    \/ CreateAccountGroup
    \/ \E s \in Stopper : GetLastGroupId(s) \/ Request(s) \/ FailStop(s)
    \/ \E w \in Worker : \/ \E m \in Msg : Deliver(w, m)
                         \/ ReturnToQueue(w) \/ Handle(w) \/ Fail(w)

Spec == Init /\ [][Next]_vars

\* pm2 restarts the process and bootstrap() runs on; the event loop resumes
\* every request and handler whose promise is settled (transfers end or throw,
\* timers fire); healthCheck reconnects; the broker hands every message over
\* in the end, since prefetch is unlimited and only the model bounds Worker:
\* hence strong fairness for each message.
Fairness ==
    /\ WF_vars(Boot)
    /\ WF_vars(ReopenChannel)
    /\ \A g \in Group : WF_vars(SendAllExecuteMessage(g))
    /\ \A s \in Stopper : WF_vars(Request(s))
    /\ \A w \in Worker : WF_vars(Handle(w))
    /\ \A m \in Msg : SF_vars(\E w \in Worker : Deliver(w, m))

FairSpec == Spec /\ Fairness

-----------------------------------------------------------------------------
(* Properties                                                              *)

JobPc == {"idle", "start", "wait", "load", "spend", "settle", "delete", "detach"}

\* Every variable has its type.
TypeOK ==
    /\ row \in [Group -> {"none", "live", "deleted"}]
    /\ nextId \in 1 .. MaxGroups + 1
    /\ attached \in [Group -> BOOLEAN]
    /\ flag \in [Group \cup {NullGroup} -> Published \cup {NoInstance}]
    /\ ready \in [Msg -> Nat]
    /\ job \in [Worker -> [pc : JobPc, msg : Msg \cup {NoMsg},
                           round : 0 .. PollRounds, try : 0 .. RetryCount,
                           held : BOOLEAN]]
    /\ \A w \in Worker : /\ Busy(w) => job[w].msg \in Msg
                         /\ job[w].held => Busy(w)
    /\ pending \subseteq Group
    /\ toStop \subseteq Group
    /\ stopper \in [Stopper -> [pc : {"idle", "mark", "find", "send"},
                                group : Group \cup {NullGroup}]]
    /\ phase \in {"down", "boot", "readLive", "readDeleted", "resume", "up"}
    /\ channel \in {"open", "closed"}
    /\ dropped \subseteq Msg
    /\ stops \in 0 .. MaxStops
    /\ crashes \in 0 .. MaxCrashes
    /\ fails \in 0 .. MaxFails
    /\ closes \in 0 .. MaxCloses
    /\ returns \in 0 .. MaxReturns

\* Once startup has read the live rows, a group whose row is live and whose
\* flag is down keeps both its chains: the message of each asset is in the
\* broker or a handler, or still to be published, or one was lost for good.
\* At stake: the flag checks of sendCoin1 and sendToken, which end a chain,
\* against restarts, retries, the DELETE handler and startup.
ChainAlive ==
    phase \in {"readDeleted", "resume", "up"} =>
        \A g \in Group : row[g] = "live" /\ ~Stopped(g) =>
            \A a \in AssetType : \/ Carried(Tx(g, a))
                                 \/ g \in pending
                                 \/ Tx(g, a) \in dropped

\* Messages of one chain: in the queue, with a handler (which will publish a
\* successor, whether or not its own message went back), or about to be
\* published
Copies(m) == ready[m] + Holding(m, Worker)

Count(g, a) == Copies(Tx(g, a)) + (IF g \in pending THEN 1 ELSE 0)

Doubled[c \in 0 .. MaxCrashes] == IF c = 0 THEN 1 ELSE 2 * Doubled[c - 1]

MaxCopies == Doubled[crashes] * (returns + 2) - 1

\* A crash can double the messages of a chain and the restart adds one; a
\* delivery whose connection is lost adds one more, for its handler publishes
\* a successor and the message comes back as well.  Nothing else multiplies
\* them: the worst is that the deliveries are lost first and doubled later.
ChainBound == \A g \in Group, a \in AssetType : Count(g, a) <= MaxCopies

\* Accounts that still refer to a deleted row are not forgotten: a BOT-STOP
\* message whose handler will detach them is in the broker, unless its
\* retries ran out.  softDeleteAccount deletes the row and detaches the
\* accounts in two transactions, and startup finds only groups with a row.
OrphanCovered ==
    \A g \in Group : row[g] = "none" /\ attached[g] =>
        \E m \in StopMsg : m.group = g /\ SafeStop(m) /\ (Carried(m) \/ m \in dropped)

\* The groups live the life GroupLife describes: ids are used in order and
\* once, rows go before accounts are released, and nothing comes back, for
\* any interleaving of handlers, requests, restarts and redeliveries.
Stage(g) ==
    IF g >= nextId THEN "absent"
    ELSE IF row[g] = "live" THEN "running"
    ELSE IF row[g] = "deleted" THEN "marked"
    ELSE IF attached[g] THEN "erased" ELSE "released"

Life == INSTANCE GroupLife WITH stage <- [g \in Group |-> Stage(g)]

LifeSpec == Life!Spec

\* Chains of a stopped or deleted group end: a handler past its last check
\* publishes once more, and that message meets the flag, or no row.
ChainsEnd ==
    <>[](\A g \in Group, a \in AssetType :
            Stopped(g) \/ (g < nextId /\ row[g] = "none") => ~Carried(Tx(g, a)))

\* A group that a restart finds marked is settled and released in the end,
\* whatever was lost with the process: initDeleteIds and the broker between
\* them get a stop message to it.
BootRecovers ==
    \A g \in Group : (phase = "boot" /\ row[g] = "deleted") ~>
                         (row[g] = "none" /\ ~attached[g])

\* "get the last id" (user.service.ts:88): the group a DELETE stops is the
\* last row, the one the same DELETE marks.
StopsTheLastGroup ==
    [][\A s \in Stopper :
          stopper[s].pc = "idle" /\ stopper'[s].pc = "mark"
              => stopper'[s].group = LastId(Rows)]_vars
=============================================================================
