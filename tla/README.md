# A specification of the bot service

The repository is a NestJS service whose *bots* keep moving small amounts of a
coin and of a token between blockchain accounts. `POST /block` makes a group of
accounts and starts a bot for it, `DELETE /block/account` stops one. A bot is not
a process: it is two chains of RabbitMQ messages, each handled once, making one
transfer and publishing its successor. What makes the code hard is that this
chain, the stop flags in memory, the rows in the database and the queue are four
places that say whether a group runs, and a crash, a failed call or another
request can come between any two of them.

The modules here follow the sources under `src/src`; `PROJECT.json` maps each
definition to the lines it stands for.

## The system

| component | state | operations | interacts with |
|---|---|---|---|
| **Bot lifecycle**: `blockchain-transactions/v2`, `utils/transactionStopInstance.ts`, `coin/v2`, `token/v2`, `test.init.service.ts`, `main.ts` | stop flags (a map in memory), the progress of each handler | POST, DELETE, handler of BOT-TRANSACTION (COIN, TOKEN), handler of BOT-STOP, startup | groups, balances, publishing, chain |
| **Account groups**: `account-group.repository.ts`, `user.service.ts` | rows `account_group` (id, count, isDeleted), `accountGroupId` of each account; those without one are the pool | read the pool, create what is missing, save the group, mark deleted, delete, detach, three lookups | lifecycle |
| **Balances**: `account.repository.ts`, `account-group.entity.ts` | `coin_amount`, `token_amount` | initial charge, transfer, settlement; choice of sender and recipient | both handlers, BOT-STOP |
| **Publish and subscribe**: `rabbitmq-produce`, `rabbitmq-tranaction`, the retry decorator, interceptor and filter | messages in the broker, deliveries in progress | publish (errors swallowed), deliver to both subscribers, retry, acknowledge | everything above |
| **Broker connection**: `rabbitmq.service.ts`, binder, consumer | static channel, connections and the loops that replace them, what the broker has been told | connect, closed, health check, assertions nobody awaits | publishing |
| **Chain**: `web3-service-v2.service.ts`, `eqhub.service.ts` | nonces and transactions outside the program | transfer with retries | both handlers, DELETE |
| **OpenAPI version tool**: `version/oas-version-manage.ts` | files of earlier versions, the schemas it marks while it walks through them | number the APIs, compare with the previous version, write a workbook with a sheet per API | none |
| test report tool, AsyncAPI documentation, file log, health checks, version 1 services, HTTP and socket filters, configuration, logging, mail, view | none of interest | | |

Behaviours that are hard:

* Node runs one piece of code at a time, but every `await` lets another handler
  or request run. The controller does not even await `stopSendMQ`.
* Consumers start before the startup hooks. A redelivered message may be
  handled when there is no channel to publish on and no flag is raised.
* Queues are acknowledged after the handler; after a crash every message that
  was in progress comes back, and startup publishes the messages of every live
  row again. Publish and acknowledgement use different connections. When only a
  consumer's connection is lost, the message comes back while its first handler
  still runs, and both publish a successor.
* `sendMessage` catches every error; the exception filter acknowledges a message
  whose retries are exhausted. Both lose messages on purpose.
* `softDeleteAccount` removes the row and detaches the accounts in two
  transactions; a settlement is a read, a credit and a reset in three, and the reset
  looks the members of the group up again: they may have been detached, or taken by
  a POST that had read them while they were free.
* `createAccountGroup` reads free accounts, creates those that are missing and
  saves the group without looking again: requests that overlap get the same
  accounts.
* The connection that is published on is replaced by loops that its own `close`
  event starts. Exchange, queues and bindings are asserted by promises nobody
  awaits, once per process, though nothing in the broker is durable.
* The version tool changes the schemas it reads, and shares them between sheets.

What makes each component correct:

* *lifecycle*: an unstopped group keeps both chains; restarts and redeliveries do not
  multiply them more than they must; the chains of a stopped group end; a group that was marked
  is settled and released in the end, even across a restart;
* *groups*: a group only moves forward, its row goes before its accounts are
  released, accounts of a vanished row are always released by somebody; a group
  keeps the accounts it was given, and requests that fail or collide do not make
  the pool grow;
* *balances*: the total is conserved by handlers that overlap, while accounts change
  their groups under them;
* *publish and subscribe*: one acknowledgement per delivery, after the right
  handler, and nothing that is acknowledged comes back;
* *connection*: a closed channel is always being replaced, by one loop, which ends
  when the broker is back; a message finds its queue once the assertions are
  answered;
* *chain*: one transfer per call, or a known bound on its copies;
* *version tool*: numbers are unique and an API keeps its number; the list of
  changes names what changed and nothing else; a sheet has every field, once for each
  way to it, with its names and the right mark, and no row over another.

## The modules

`StopInstance` (39 lines) has the operators on one stop flag, as odd as the code:
`IsSafe` tests the token bit twice, `FromRawData` forgets the coin bit.
Together they make only the second of the two stop messages act.

`BotLifecycle` is the core. An action is the code from one await to the next.

| state | code |
|---|---|
| `row`, `nextId`, `attached` | `account_group` rows, auto-increment, `account.accountGroupId` |
| `flag` | `TransactionStopInstance.isStop` |
| `ready` | the two queues, a bag: redelivery reorders |
| `job` | each handler invocation: where it is, its message, its wait, its attempt, and whether the broker still waits for its acknowledgement (`held`) |
| `pending`, `toStop`, `phase` | bootstrap and the startup service, POST before it publishes |
| `stopper` | each DELETE request |
| `channel` | `RabbitmqService.channel` |
| `dropped` | history: what a swallowed error or the last retry has lost |
| `returns` and the other budgets | how often the bounded events have happened |

| actions | code |
|---|---|
| `Start` .. `BootDone`, `Crash` | `main.ts`, `test.init.service.ts` |
| `CloseChannel`, `ReopenChannel` | `rabbitmq.service.ts` |
| `CreateAccountGroup`, `SendAllExecuteMessage` | POST |
| `GetLastGroupId`, `UpdateIsDeleted`, `FindStopGroup`, `SendAllStopMessage`, `FailStop` | DELETE (`stopSendMQ`) |
| `Deliver`, `ReturnToQueue`, `Finish`, `Throw` | broker, consumer connections, interceptor, retry decorator and filter |
| `StartTx`, `Poll`, `LastWait`, `Load`, `Spend` | `sendCoin1`, `sendToken` |
| `StartStop`, `Settle`, `DeleteAccount`, `DetachAccounts` | `transactionSoftDelete` and, for `Settle`, both chain handlers |
| `Fail` | a database or chain call that throws |

Startup publishes group by group, one step each, because a crash can fall
between; within a group the two messages go out without a yield that matters. A
crash in a handler that is publishing may lose neither, either or both of the
publish and the acknowledgement (`AtPublish`): they travel on two connections.
`ReturnToQueue` is a consumer's connection that is lost while the process runs on
(`CloseConsumer` in `RabbitMq`): Nest makes it again, the broker delivers the message
once more, and the handler of the first delivery goes on, publishes, and can acknowledge
nothing. An acknowledgement that is lost on its way is the same step, taken just before
the handler returns. One lost connection is a step for each delivery on it.

`GroupLife` is the abstract specification: absent, running, marked, erased,
released. `BotLifecycle` instantiates it with a stage computed from `row`,
`attached` and `nextId`; `LifeSpec` says that every step is a move of one group
or a stutter. Marking is optional: a DELETE publishes a stop for a group that
another DELETE, or nobody, has marked (see the finding).

`AccountLedger` has the statements of a transfer, an initial charge and a
settlement, on one asset. The two columns are written by the same
sequence of statements and never mixed, except that the lower end of a token
transfer is chosen by coins (any member, in the token instance). Coins are
compared as text, as the driver delivers them. `groupOf` is at first any of `Groupings`: with
the admin outside all groups or drafted into one, as the pool of free accounts may
do. Then it changes: after its reset a BOT-STOP handler deletes the group's row
(`DeleteRow`) and sets the members free (`DetachAccounts`), a request reads accounts
that are free (`FindFree`, kept in `found`) and saves them into its group
(`SaveGroup`), whosever they are by then. Every statement uses the members of its
moment: a transfer decides from one reading, a settlement sums and resets by two.
Handlers may overlap in any way; `faults` records what unbalances the sum. A handler
cut off by a failure and one cut off by a crash leave the same, so `Fail` stands for
both.

`BotLifecycle` leaves amounts to `AccountLedger`, which leaves to
`BotLifecycle` when handlers overlap: the two share no variable.

`GroupPool` has the pool of accounts that `BotLifecycle` leaves out: there each
group has accounts of its own. It has the requests in full, with what they create and
how they fail; `AccountLedger` only has what they do to the members of a group.

| state | code |
|---|---|
| `groupOf`, `last` | `accountGroupId` of the accounts, the last `user_id` |
| `row`, `count`, `nextId` | `account_group` |
| `post` | each POST: the list `accounts`, the saves not answered yet |
| `seed`, `overtaken`, `peak` | what there was at first; history |

`FindFree`, `CreateAccount`, `SaveGroup` are the awaits of `createAccountGroup`,
`FailCreate` and `FailSave` those that reject; `DeleteRow` and `FreeGroup` are
`softDeleteAccount`. `Promise.all` rejects with the first save that fails, and the
other saves go on: a failed request may still create accounts.

`RabbitMq` is the program and its broker below `BotLifecycle`.

| state | code |
|---|---|
| `static`, `conn`, `task` | `RabbitmqService.channel`, its connections, the calls of `connectChannel` and `healthCheck` in progress |
| `phase`, `asserted` | `bootstrap()`, the answers to the assertions |
| `broker`, `topology`, `consuming` | the broker (external): what has been asserted, which queues are consumed |
| `fate`, `slot` | where each message is or how it was lost; deliveries, with the handler of each subscriber and the acknowledgements sent |

| actions | code |
|---|---|
| `Start`, `Exit`, `CallHooks`, `ConnectConsumer`, `CloseConsumer` | `main.ts`, consumers |
| `Connect`, `SetChannel`, `SeeClose` | `connectChannel` and its `close` listener |
| `Probe`, `Refuse`, `ProbeChannel`, `CloseProbe` | `healthCheck` |
| `AssertNext` | the binder's and the produce service's assertions, in their order |
| `Publish` | `sendMessage` |
| `Deliver`, `Return`, `Throw`, `Retry`, `ReceiveAck` | interceptor, retry decorator, filter |
| `StopBroker`, `StartBroker`, `CloseConnection` | external |

An orderly close emits `close` alone. Whatever emits `error`, on a connection or
a channel, ends the process: nobody listens to it. `Delivery` (39 lines) is what
`BotLifecycle` takes for granted of a message: it waits, is taken, ends, is
acknowledged; an interruption may return or lose it before that, and nothing brings
it back after. `DeliverySpec` is the refinement.

`OasVersions` has the files that runs of the version tool leave (`json`, `doc`,
`excel`) and the run in progress. `GenerateSwaggerToJson` writes the file of a
version, `NumberInitial` or `NumberNext` numbers it, `GenerateExcel` writes the
workbook, and `Die` may come between any two. A version is its position in the
semver order. The numbers of new APIs are given in the order of the file, which may
be any order (`Numbering`). `orderly` remembers whether every run so far had
the highest version and found all files numbered; `recent` and `first` are history
too.

`OasChanges` has `createApiChanges`. The new document differs from the previous one in
up to `MaxEdits` operations and schemas (`Edit`); `Compare` is the library deep-diff
(external), which turns the two into differences; each difference is an action, one
for each branch of the code's `forEach`: `AddedApi`, `AddedToSchema`, `RemovedApi`,
`ModifiedApi`, `SkippedEdit`, `ChangedParams`, `AddedElsewhere`, and `Die` for those
that the code reads as something they are not (`Deadly`): an operation of a path that
stays whose method is not one of four (`KnownMethod`), for which the first key of the
operation is taken for a method, and removed, edited or resized entries outside
`paths`, whose keys are looked up in `paths`. `rest` is the part of a document outside
paths and schemas: tags, info, security schemes. `Within` says which schema's name contains
which, because the code looks for a name inside a reference. All rows of a difference
are one record, as in the code, so they name one API.

`OasDetails` has `createApiDetails`: `BasicSection` to `ResponseSection` are the sections
of a sheet, written with `Put` and `Insert` from `rowNum`, the row where the last section
ended. `BodyLeadsOn`, `BodyObject` and the `Response` actions are one call each of
the two recursive walks through the schemas; `work` is the stack of calls to
come, depth first. A call and a row carry what the properties need to know of
them: the response they are in (`answer`) and the nodes that led there (`way`). `mark` is the attribute `required` that the walks write into the
schemas: all sheets share it, and on an object it takes the place of the list of
required properties.

`ChainTransfer` has the calls of `transaction` (COIN) and
`transferTokenToAdminOrAccount` (TOKEN) for one account, and the node: who `owner`s
each nonce, how many transactions are `mined`, which were `reverted`. `Start`,
`ReadLatest`, `ReadPending`, `Send`, `Receive` and `Retry` are the steps between the
awaits of `sendToken` and `transaction`; `LoseReceipt` and `FailAttempt` are an
await that throws, after or before the node took the transaction. The node is
external: it takes a nonce once, counts what is mined and what is pending, and mines
in order when it likes. It never forgets a transaction it took.

`BotLifecycleProofs`, `AccountLedgerProofs`, `GroupPoolProofs`, `RabbitMqProofs`,
`ChainTransferProofs`, `OasVersionsProofs` and `OasWorkbookProofs` (which is about both
`OasChanges` and `OasDetails`) hold the theorems, `SumTheorems` what they need of finite
sums and of induction. `MCBotLifecycle`, `MCAccountLedger`,
`MCOasVersions`, `MCOasChanges` and `MCOasDetails` are the instances for TLC; the
other modules need no definitions for theirs. In each module a definition whose comment begins with
"mutant" is a plausible bug in the definition after it; no specification uses it.

## The runs

| run | instance | shows |
|---|---|---|
| `safety` | 1 group, 2 handlers, 2 looks at the flag, 1 DELETE, 1 crash, 1 lost delivery, 1 failure: 3.1 million states | `TypeOK`, `ChainAlive`, `OrphanCovered`, `ChainBound` |
| `two_groups` | 2 groups, 2 handlers, 2 overlapping DELETEs, 1 closed channel | `LifeSpec`, the refinement |
| `liveness` | 1 group, 1 handler, 1 DELETE, 1 crash, 1 failure | `ChainsEnd`, `BootRecovers` under `Fairness` |
| `last_group` | 2 groups, 2 DELETEs | a violation, see below |
| `ledger` | 3 accounts, 3 groups of which 1 or 2 are still to come, ids interleaved and with a gap, with and without the admin in a group, both assets, 2 handlers, 3 invocations: 10 million states | `TypeOK`, `Conserved` |
| `pool` | 3 POSTs for 1 or 2 accounts, a pool of 0 or 2 | `TypeOK`, `CountKept`, `PoolBounded`, `RobbedByRivals` |
| `messaging` | 1 message, 2 deliveries, 3 loops, 4 connections, a known and an unknown environment, 2 faults | `TypeOK`, `ChannelFresh`, `OneKeeperEach`, `AckOnce`, `RoutedOnceAsserted`, `DeliverySpec`; `ChannelRecovers`, `Settled` under `Fairness` |
| `transfers` | 2 calls, 3 attempts each, 6 nonces | `TypeOK`, `NoNonceGap`, `PaidAsReported`, `ConflictsResolved`, `CopiesBound`; `CallEnds` under `Fairness` |
| `oas_numbers` | 3 APIs, 4 versions in any order, runs that die | `TypeOK`, `OneApiPerNumber`, `NumberKeptInOrder`, `HistoryComplete` |
| `oas_order` | 3 APIs, 3 versions | a violation, see below |
| `oas_changes` | 2 paths, 3 methods of which 1 is not listed, 2 schemas, 1 other entry, up to 3 edits: 3.5 million states | `TypeOK`, `Reported`, `Grounded`, `DiesForCause` |
| `oas_details` | 3888 documents of 6 nodes and 3 APIs | `SheetTypeOK`, `MarksRight`, `SheetComplete`, `FieldsListed`, `DiesForReason` |

What the properties say:

* `ChainAlive`: once startup has read the live rows, a live group whose flag is
  down has both its messages in the broker (waiting, or delivered and not yet
  acknowledged: a handler whose message went back does not count), or startup or a POST
  is about to publish them, or one was lost by a swallowed error or the last
  retry. Nothing else ends a chain: no stop of another group, retry,
  redelivery or crash.
* `ChainBound`: with the messages about to be published, at most `MaxCopies` copies
  of a chain exist: 2^crashes * (returns + 2) - 1. A crash between publish and
  acknowledgement doubles what there was, and the startup after it adds one; a delivery
  whose connection is lost under its handler adds one, for the handler publishes a
  successor and the message comes back too. The worst case, which the run reaches, is
  that the deliveries are lost first and what they added is doubled. Nothing else
  multiplies a chain. (The code has no counter-measure, so bots run faster after
  each of these.)
* `OrphanCovered`: for accounts whose row is gone the broker has a stop message, waiting
  or not yet acknowledged, whose handler will detach them, unless its retries ran out. Startup does
  not look for them.
* `ChainsEnd`, `BootRecovers`: see fairness below.
* `Conserved`: when no handler is in progress and none of five named faults
  has happened, the balances add up to what they were. The faults are what the code
  does allow: a write between the sum and the reset of a settlement; a member that
  leaves its group between the two, detached by another BOT-STOP handler or taken by
  the save of a POST, so that the admin is credited with what the member keeps
  ("regrouped"); a recipient without a row; a handler cut off halfway; the admin drafted
  into a group. Accounts that change their group under a *transfer* do no harm.
* `CountKept`, `RobbedByRivals`: until it is stopped a group has the accounts its row
  says, through failures and settlements of others. The one exception is the race
  the code allows: a POST that read the pool before the group was saved, and was saved
  after it. `PoolBounded`: nothing else makes accounts: what failed and colliding
  requests leave behind is found by the next one, so there are never more than were
  needed at one time.
* `ChannelFresh`, `OneKeeperEach`: a process that is up has a usable channel or a loop
  that will replace it, and not two of either, but for one kept connection more
  each time a connection closes between `amqp.connect` and `createChannel`.
* `RoutedOnceAsserted`: a message goes astray only while the assertions of its
  process are unanswered, or (without an exchange) after the broker restarted
  under the process.
* `AckOnce`, `DeliverySpec`, `Settled`: interceptor and filter acknowledge a delivery
  once between them, after the handler of the message's own key, and do so in the
  end whatever the handler does.
* `ChannelRecovers`: in the environments `healthCheck` knows, the channel is open
  again and again. In any other the loop never ends, and it is not claimed there.
* `PaidAsReported`: a call whose answers all arrive has paid once if it returns
  a hash and nothing if it fails. With lost answers it may have paid several times,
  at most once for each attempt (`CopiesBound`): four times for a TOKEN transfer.
* `ConflictsResolved`, `NoNonceGap`: calls for one account that read the same nonce
  get out of each other's way. One gives up without another error only when as
  many transactions of other calls came before it as it has attempts (one, for
  COIN), and the account is never blocked by a nonce nobody sent.
* `OneApiPerNumber`, `NumberKeptInOrder`: when versions are generated in order
  and no run leaves a file without numbers, an API keeps its number, and no other
  gets it, even after the API is gone.
* `HistoryComplete`: no version has a workbook unless the first has one, so every
  list of changes goes back to the first version. The price: when the first run
  dies before its workbook, no later run ends.
* `Reported`, `Grounded`: a list of changes that is completed has a row for every
  operation that came, went or got another number of parameters, and every row has
  a change behind it, as far as the code's search for names inside names can
  tell. One row naming one API that returns a schema is all that `Reported` asks for:
  the rows of a difference share a record, so the others are never named.
  `DiesForCause`: which pairs of versions have a list at all. The run dies if and only if
  a schema has not only grown, an operation whose method is not listed came to or
  went from a path that stays, or an entry outside paths and schemas went or is longer or
  shorter. Paths that come or go whole and parameters never end it.
* `MarksRight`: the column Required says what the object that declares the field says,
  whichever sections and sheets had marked the shared schemas before. Three
  exceptions are the code's, and the property states what comes out instead. In a
  body, all but the last object of an `allOf` lose their marks. The properties of an
  object that is a property itself are never required. And what is
  listed in the place of a property without being one (the target of a reference, a
  member of an `allOf`, an array behind a reference) shows no mark, though the object may
  require the property; an `allOf` or array that is itself the property has a row of its
  own, with its mark.
* `SheetComplete`: no section writes over another. `FieldsListed`: for every way through
  a response that ends at a field there is one row, with the names on that way in their
  order, and no other row: a schema that is referred to twice is listed twice, each time
  under its own names. `DiesForReason` names all that ends a run.

**Bounds.** The waits of a handler are 3 in the code and 1 or 2 here: one that
looks at the flag between two waits (`Poll`) and the last that does not
(`LastWait`) are all the kinds there are. `RetryCount` is the code's 1. One group
with two handlers has every interleaving of its two chains or of a chain and a
stop, and of a handler and the second delivery of its message; `ChainBound` was also run
once with three handlers, two crashes and two lost deliveries (0.8 million states,
without a DELETE), with the same result. Two groups are what it takes for `LastId` to
skip a deleted row and for flags to be confused. A budget of one failure or closed
channel puts each at every point of the run. `Worker` bounds what prefetch leaves
unbounded in the code. The theorems have none of these bounds.

In the ledger two handlers are what a conflict between statements takes. Three
invocations charge a group and make a transfer overlap a settlement, or two settlements
each other; two requests may read the same account, one of them before a group that has
it by then is settled. Each of the five faults unbalances the ledger alone in some state
of the run.

In the pool the third POST can overtake two others or find what they left; seven accounts
are one more than three requests for two ever need (`PoolBounded`). `messaging` has one
message: messages meet only when one ends the process for the other (two messages, and
three faults with one message, were run once, about a million states each, with the same
result). Two faults are what it takes to close a connection while another is being
replaced, or to restart the broker and close a connection; three loops and
four connections are then never all in use at once.

In `transfers` there are three attempts, one before, one between and one that is
the last (the code has four), and six nonces, room for three copies of each call.
Three versions are what it takes to have a version between two others, and for an
API to go and come back; the fourth shows a number reused after that. Three edits reach
a new operation on a new path together with a change that ends the run; one method
outside the list stands for all of them, one other entry for all entries.
The six nodes of `oas_details` have every kind of schema below every other that the
walks tell apart, references that meet again and references in a circle; the second API
has both a body and responses, over schemas the first has marked. `MaxCalls` is more
than any walk without a circle needs.

Deadlock is not checked: with no bots, at the end of a run of the tool, or with
the budgets used up, the system rests.

**Fairness** (`Fairness` in `BotLifecycle`). Weak fairness of startup, because pm2
restarts the process (autorestart is not disabled in `ecosystem.config.js`) and a
promise that is settled is resumed; of each handler and request, because timers
fire and calls return or throw; of the reconnection, because `healthCheck` loops.
Strong fairness of the delivery of each message, because the broker pushes
every message without a prefetch limit and only `Worker` makes one wait. No
fairness for POST, DELETE, failures or crashes. `BootRecovers` is checked with
no channel closing and no more failures than retries: without these its
stop message may be dropped, as `OrphanCovered` admits, and the group waits for
another restart.

In `RabbitMq` weak fairness of the start of the process and of the broker, of each
promise that is settled and each call that returns or rejects (`TaskStep`, `SeeClose`,
`AssertNext`, `ConnectConsumer`, `RunStep`, `ReceiveAck`), and strong fairness of the
delivery of each message, as above. None for publishing and for faults, which the
budget makes stop: `ChannelRecovers` and `Settled` speak of what follows the last.

In `ChainTransfer` weak fairness of each call's steps: every await ends, because the
node answers or web3 gives up waiting, and timers fire. Nothing is assumed of the
chain, and no more than that an error *may* come instead of an answer.

**Two findings.** The comment over `getLastGroupId` says "get the last id"
(`user.service.ts:88`) and `updateIsDeleted`, called next by the same request,
marks the last row. But the query behind `getLastGroupId` skips deleted rows.
From the second DELETE on, while the first group's row is not gone yet, the row
that is marked and the group that is stopped differ: the row of the stopped group
stays live until its stop message is handled, and a crash before that makes startup
run it again. `last_group` shows the two ids differ.

The comment in `numberingAndSortingOASJsonFile` says the number of an existing
API must be kept (`oas-version-manage.ts:919`). `getLatestVersion` takes for the
previous version the second highest file, the new one included. When version 1 is
generated after version 2, that is version 1 itself, which has no numbers yet: all
its APIs come out without numbers. `oas_order` shows it; `NumberKeptInOrder` shows
that nothing else breaks the rule.

Other things met on the way, none against a statement of the repository:
the pool takes any account without a group, the admin too (`account.repository.ts:132`),
and then the settlement of that group resets the very account it pays; a POST that
is overtaken may leave a group without accounts; a connection that closes
between `amqp.connect` and `createChannel` leaves a connection that nobody will
close; in an environment other than `local` and `aws`, `healthCheck` waits for ever;
the rows of one change share a record and all name the API written last
(`oas-version-manage.ts:309`); a PATCH added to an existing path ends the run of the
version tool (line 293), as does a removed tag (line 325); an object that is itself a
property loses its list of required properties, and a required property that is a
reference is listed without its mark (line 706). `initTokenCharge` calls its withdrawal from the
admin a deposit (`user.service.ts:125`, against `account.repository.ts:184-186`), and
the test `maxCoin === Number('10.00')` compares text with a number and never holds.

## The proofs

`BotLifecycleProofs` proves, for any finite set of handlers, any set of
requests, any number of groups and any bounds that satisfy the assumptions of
`BotLifecycle`:

| theorem | statement | argument |
|---|---|---|
| `TypeCorrect` | `Spec => []TypeOK` | inductive; lemmas for the publishing and handler operators, one step per action |
| `HandlersCorrect` | `Spec => []HandlersOk` | where each handler may be, given its message |
| `ChainAliveCorrect` | `Spec => []ChainAlive` | from the two above |
| `OrphanCoveredCorrect` | `Spec => []OrphanCovered` | from `HandlersOk`, `LifeInv` and `Backed` |
| `LifeInvCorrect` | `Spec => []LifeInv` | rows have attached accounts, ids are below `nextId` everywhere |
| `ImplementsGroupLife` | `Spec => LifeSpec` | refinement, under `LifeInv` |
| `ChainBoundCorrect` | `Spec => []ChainBound` | copies are a sum over messages and handlers; each step moves one or adds one where startup owes one, a crash doubles, a lost delivery adds one |

`ChainAlive` is not inductive by itself: the step that ends a handler keeps it only
if the handler was a chain's and saw the flag, or published. `HandlersOk` says
so: a chain message is at `settle` only when its group's flag is up, only a safe
stop message is at `delete` or `detach`, only chain messages wait, load or
spend. The proof then has one lemma per kind of step: steps that leave
messages and rows alone (`CalmStep`), the end of a handler (`HandleEnds`), the
crash (`CrashStep`: a message that was held is waiting again, by the definition
of `Holding` as the size of a finite set; `ReturnStep`: so is one whose connection is
lost). `OrphanCovered` uses the same lemmas. Since a handler may settle a group after its
message went back and was handled a second time, it needs `Backed` too: whoever has a
group's safe stop message in hand, held or not, the broker has that message as long as the
accounts are attached, or it was dropped. The refinement needs `LifeInv` because stop messages and requests carry
ids: that no id reaches a handler before its group exists is what
keeps an absent group absent, and that a row implies attached accounts is what makes
`Erase` come before `Release`.

`AccountLedgerProofs` proves, for any finite sets of accounts and handlers, any
first groupings, requests, charges and prices:

| theorem | statement | argument |
|---|---|---|
| `TypeCorrect` | `Spec => []TypeOK` | inductive with `SendersOk` |
| `ConservedCorrect` | `Spec => []Conserved` | `Balanced`, below |

`Conserved` speaks of states without handlers. `Balanced` is its form in between: while
no fault has happened, the balances and what the handlers have taken but not given yet
add up to what they were. Every statement then moves its amount between an account and
the debt of its handler, given two more facts: the sender of a transfer has a row
(`SendersOk`), and a settlement that is about to credit or to reset has what its group
has, because nobody wrote in between and no member left (`SettlementsOk`). None can have
joined: accounts join a group with the save that makes its row, and a group is settled
only once its row was made (`SettledMade`).

`OasVersionsProofs` proves, for any finite set of APIs and any number of versions:

| theorem | statement | argument |
|---|---|---|
| `TypeCorrect` | `Spec => []TypeOK` | inductive with `RunOk`; a later run has a previous version, because the files are not empty without its own |
| `HistoryCompleteCorrect` | `Spec => []HistoryComplete` | the same invariant: the initial run found no file, hence no workbook |
| `OneApiPerNumberCorrect` | `Spec => []OneApiPerNumber` | `NumberingOk`, below |
| `NumberKeptInOrderCorrect` | `Spec => NumberKeptInOrder` | `NumberingOk` |

`OneApiPerNumber` is not inductive: a new number is unused only if it is beyond
every number of every version, not just of the previous one. `NumberingOk` adds
that numbers are below their file's `lastApiId` (`IdsBelowLast`), that `lastApiId`
grows with the versions (`LastApiIdGrows`) and that the file to be numbered is
the highest and the only one without numbers (`FileInProgress`), so that
`getLatestVersion` finds its predecessor (`PreviousIsLatest`). The two lemmas about
the written documents (`InitialDocNumbers`, `NextDocNumbers`) do the counting.

`ChainTransferProofs` proves, for any finite set of calls, any number of attempts
and any bound on the nonces:

| theorem | statement | argument |
|---|---|---|
| `TypeCorrect`, `NoNonceGapCorrect` | `Spec => []TypeOK`, `[]NoNonceGap` | `NonceInv`: no call reads a nonce beyond the first free one |
| `PaidAsReportedCorrect` | `Spec => []PaidAsReported` | `PaidOk`: what each place in the code implies for the transactions of the call |
| `CopiesBoundCorrect` | `Spec => []CopiesBound` | `CopiesOk` counts transactions against attempts that are over |
| `ConflictsResolvedCorrect` | `Spec => []ConflictsResolved` | `ConflictOk`: each attempt is refused a higher nonce than the one before, and all nonces below are taken by others |

All five rest on one inductive invariant, `Inv`, with a lemma for each of its parts.
That a first free nonce exists (`PendingCountIsFirstFree`) is the one use of
well-foundedness.

`GroupPoolProofs` proves, for any finite set of requests, any counts and any pool:

| theorem | statement | argument |
|---|---|---|
| `TypeCorrect` | `Spec => []TypeOK` | inductive with `IdsOk`: one id per request that is through, so the last is within bounds |
| `CountKeptCorrect` | `Spec => []CountKept` | `OwnOk`, below |
| `RobbedByRivalsCorrect` | `Spec => RobbedByRivals` | the same invariant, one step per action |
| `PoolBoundedCorrect` | `Spec => []PoolBounded` | `PoolInv`: accounts in groups are owed to requests that saved, those on their way to requests that ask |

`CountKept` needs to know what a request that is about to save holds. `OwnOk` says that
its list and what is still to be created add up to what it was asked for, and that
every account on the list is free or in a group saved since: so a group that loses
accounts is a rival, and is `overtaken` from then on. `MembersOk` says that an
account that was just created is in no group and that ids of groups without a row are
on no account. `PoolBounded` is about the worst moment: a request that creates has
found every free account there was, so what it plans is what the free accounts do
not cover, and the sums over requests and over accounts meet only there.

`RabbitMqProofs` proves, for any messages, deliveries, loops and connections and any
number of retries and faults:

| theorem | statement | argument |
|---|---|---|
| `ChannelFreshCorrect` | `Spec => []ChannelFresh` | `LinksInv`: who awaits which connection, and which of them have a listener |
| `AckOnceCorrect` | `Spec => []AckOnce` | `SlotsOk`: only the handler of the message's own key runs, and an acknowledgement means it is through |
| `ImplementsDelivery` | `Spec => DeliverySpec` | refinement, under `SlotsInv` |
| `OneKeeperEachCorrect` | `Spec => []OneKeeperEach` | `KeepersOk`: before startup is over nothing is kept and no loop runs; then each step moves one between the two sets |
| `RoutedOnceAssertedCorrect` | `Spec => []RoutedOnceAsserted` | `AssertionsOk`: what has been asserted is there as long as the exchange is, which a restart of the broker alone takes away |
| `TypeCorrect` | `Spec => []TypeOK` | the parts of both invariants |

Connections and deliveries meet only in the exit of the process, so there are two
inductive invariants, each with one step per action. The refinement needs
`CarrierOk`: a message the broker holds is in one delivery at most, so the step that
moves it moves no other, and a message that is acknowledged is in none. `StageCases`
says what each stage means; then every action is a move of one message, an
interruption, or leaves all stages alone.

`OasWorkbookProofs` proves, for any documents, edits and schemas:

| theorem | statement | argument |
|---|---|---|
| `TypeCorrect` | `Spec => []TypeOK` (`OasChanges`) | inductive |
| `GroundedCorrect` | `Spec => []Grounded` | each difference still to be read is one of the two documents (`ListOk`) |
| `ReportedCorrect` | `Spec => []Reported` | `Told`: a difference that is no longer on the list has its row |
| `DiesForCauseCorrect` | `Spec => []DiesForCause` | `ListOk`: of the differences that have been read none is deadly, and a run that died has one that is; `DeadlyMeaning`: two documents have a deadly difference if and only if they are not survivable |
| `SheetTypeCorrect` | `SheetSpec => []SheetTypeOK` (`OasDetails`) | inductive |
| `SheetCompleteCorrect` | `SheetSpec => []SheetComplete` | `RowsOk`: at each stage the sheet is the sections so far, one after the other, and `rowNum` its last row |
| `MarksRightCorrect` | `SheetSpec => []MarksRight` | `MarksOk`, `ListsOk` and, for objects that are properties, `TrueMarksOk`, below |
| `FieldsListedCorrect` | `SheetSpec => []FieldsListed` | `FieldsOk`, `WaysOk`, `ApartOk`: each row is at the end of its way and has its names, each way has its row or a call on it that is still to come, and no two rows have one way |
| `DiesForReasonCorrect` | `SheetSpec => []DiesForReason` | each call is at the end of a way, so a deep one is below a circle (pigeonhole); a circle below a response keeps a call below it on the stack |

`MarksRight` speaks of an object and the properties it declares, but `mark` is written
by every object of every sheet. `MarksOk` says that an object that is no property keeps
its list (`ListsOk`; the same holds of every other node that is no property, which is why
a row for the target of a reference bears no mark), that what a body walk has gathered
are properties by their names (`GatheredOk`), and that between an object and the end of
its walk its properties bear its marks, or none when it has lost its list (`BodyMarksOk`,
`WorkMarksOk`, `FieldMarksOk`). A property stands in one object under one name, so nobody
else writes its mark meanwhile. `TrueMarksOk` says that a mark is true only where the
object declares it.

`FieldsListed` and `DiesForReason` speak of all ways through the graph of schemas, which
the walk explores call by call. `WalkInv` relates the stack to the ways: a call is at the
end of its way, has the names on that way in their order (`NamedBy`), and is flagged as
the item of an array when there is no name since the last array (`AtEnd`). A step
replaces a call by those that extend its way by each node that follows (`CallsFollow`,
`AtEndFollows`), so of every way from a response some beginning is on the stack until the
end of the way is listed (`WaysOk`); and since the extensions of a way differ in their
last node, and none of them is the beginning of another, no way is listed twice
(`ApartOk`). The recursive function `Ways` is replaced by a set first (`WaysAre`).

`SumTheorems` has the sums over finite sets that `ChainBound`, `PoolBounded`,
`OneKeeperEach` and `Conserved` count with: `SumFunctionOnSet` of the community modules,
a fold. The library's induction theorems cannot be used here, so induction is done in
first-order form: `NatCases` and `SubsetCases` take the *set* of the numbers, or of the
subsets, for which a statement holds.

Assumptions: `Post` and `Counts` are finite, counts positive, `MaxAccounts` a natural
number and no seed beyond it; `Boot` is no loop, `NoConn` no connection, `NoMessage` no
message, `RetryCount` and `MaxFaults` are natural numbers; `Call` is finite and does not contain `NoCall`, `RetryCount` and
`MaxNonce` are natural numbers; `Api` is finite and `MaxVersion` a natural number; `Worker` is finite, `MaxGroups` and the budgets are naturals,
`PollRounds` is positive, `RetryCount` a natural number; `Account` is finite, as are
the lists of required properties; a schema's name contains itself (`Within`). In
`OasDetails` there is nothing below a leaf, and the properties of an object have
distinct names and stand in that object alone (`WellFormed`): a reference leads to a
component, never to a property, in the JSON that the tool reads, and a body or a response
has a place of its own. `Node` is finite, and the call stack has room for a call at each
node (`MaxCalls`), thousands in the code. TLC evaluates
them in every run.

Only model-checked:

* `ChainsEnd`, `BootRecovers`, `CallEnds`, `ChannelRecovers` and `Settled`: liveness
  under fairness is out of the prover's reach. Every invariant and every action property
  of a passing run has a theorem.

## Not modelled

* The failures that end in `Crash` are one action: an unhandled rejection, the
  error event of the publishing connection, a signal.
* In `AccountLedger`, the accounts a request creates are there from the start; the deleted
  mark of a row, which no statement on balances looks at; failures of requests.
* In `BotLifecycle`, a restart of the broker. `RabbitMq` has it: the queues are
  empty and the exchange is gone, the process goes on with a new channel
  until its next publish, which ends it; startup then publishes from the rows.
* The first branch of `sendCoin1` and `sendToken` (`isStop`): no published
  message has it set.
* A transaction that the node drops after taking it, EqHub, and amounts on the chain.
* Of the pool: `accountCount` null in a body, which the column `count` refuses.
* Of messaging: the exchanges and keys that nobody publishes on, payloads and their
  validation, which no published message fails.
* Of the version tool: the texts in the cells, the row of an octet-stream body, styles,
  and errors writing a file, which are printed and ignored. The test report tool lays out
  one file on one sheet.
* The AsyncAPI documentation: its one call is commented out.
* The version 1 services: no route or message reaches them.
* Components listed `not_modelled` in `PROJECT.json`, each with its reason.

## Plan

Done: `StopInstance`, `GroupLife`, `BotLifecycle`, `AccountLedger`, `OasVersions`,
`OasChanges`, `OasDetails`, `ChainTransfer`, `GroupPool`, `Delivery`, `RabbitMq`, and
the proof modules above.

Next: what is left are the five liveness properties. Their safety halves can be proved:
which step of a chain, a call or a reconnection is always possible, and what it brings
nearer.

Two hazards have no property: the choice of the richest account by the text of its
coins (`account-group.entity.ts:35`) and the record that the rows of a change share
(`oas-version-manage.ts:309`) are modelled, but nothing in the repository says what either
should be.
