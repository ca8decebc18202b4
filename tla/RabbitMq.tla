------------------------------ MODULE RabbitMq ------------------------------
(***************************************************************************)
(* The program and its message broker.  RabbitmqService keeps one channel, *)
(* on which everybody publishes: it connects in its startup hook, asserts  *)
(* the exchange, the queues and the bindings by calls that nobody awaits,  *)
(* and starts a healthCheck loop whenever a connection of its own closes.  *)
(* Messages come back through one consumer for each queue, on connections  *)
(* that belong to the framework; both subscribers see each message, an     *)
(* interceptor picks the one it is for, and the message is acknowledged    *)
(* when the handler returns or its retries are used up.                    *)
(*                                                                         *)
(* What is published, and what a handler does, is left to BotLifecycle.    *)
(* Only the keys that the program publishes are here, on one exchange.     *)
(* Broker, client library and consumers are external: an orderly close     *)
(* emits `close` alone; whatever emits `error` ends the process, as nobody *)
(* listens to it, and so does a promise rejected in the startup hook.      *)
(***************************************************************************)
EXTENDS Naturals, Sequences, FiniteSets

CONSTANTS
    Message,       \* bound: messages published, each once
    Slot,          \* bound: deliveries in progress
    Loop,          \* healthCheck loops that may run at once
    Boot,          \* the call of connectChannel in onModuleInit
    Conn,          \* connections made by connectChannel and healthCheck
    NoConn, NoMessage,
    Environments,  \* values of RABBITMQ.ENVIRONMENT
    RetryCount,    \* retries of a failed handler (1 in the code)
    MaxFaults      \* bound: closed connections, restarts of the broker and
                   \* crashes that have a cause outside this module

ASSUME NamesAssumption == /\ Boot \notin Loop
                          /\ NoConn \notin Conn
                          /\ NoMessage \notin Message
ASSUME RetryAssumption == RetryCount \in Nat
ASSUME FaultsAssumption == MaxFaults \in Nat

VARIABLES
    environment,  \* RABBITMQ.ENVIRONMENT
    key,          \* the routing key of each message
    broker,       \* "up" or "down"
    topology,     \* exchange, queues and bindings the broker has
    fate,         \* what became of each message; "held" by the broker
    phase,        \* where the process is in bootstrap()
    asserted,     \* assertions the broker has answered
    conn,         \* connections of RabbitmqService
    task,         \* calls of connectChannel and healthCheck
    static,       \* RabbitmqService.channel: the connection it is on
    consuming,    \* queues whose consumer is connected
    slot,         \* deliveries and their handlers
    halfOpen,     \* history: closes between connect and createChannel
    stale,        \* history: the broker restarted since the process started
    faults        \* what the bound has used

config  == <<environment, key>>
server  == <<broker, topology>>
process == <<phase, asserted, stale>>
links   == <<conn, task, static, halfOpen>>
vars    == <<config, server, process, links, fate, consuming, slot, faults>>

-----------------------------------------------------------------------------
(* Routing *)

Key == {"BOT-TRANSACTION", "BOT-STOP"}

Exchange == [kind |-> "exchange", key |-> "bot2"]
Queue(k) == [kind |-> "queue", key |-> k]
Bind(k)  == [kind |-> "bind", key |-> k]

Item == {Exchange} \cup {Queue(k) : k \in Key} \cup {Bind(k) : k \in Key}

\* mutant: the list of bindings misses the stop message
AssertionsNoStop == <<Exchange, Queue("BOT-TRANSACTION"), Queue("BOT-STOP"),
                      Bind("BOT-TRANSACTION"), Bind("BOT-TRANSACTION")>>

\* assertExchange, assertQueue, bindQueue: one channel keeps their order
Assertions == <<Exchange, Queue("BOT-TRANSACTION"), Queue("BOT-STOP"),
                Bind("BOT-TRANSACTION"), Bind("BOT-STOP")>>

\* A binding needs both its ends; the broker answers anything else with 404.
Accepted(item) ==
    item.kind = "bind" => {Exchange, Queue(item.key)} \subseteq topology

-----------------------------------------------------------------------------
(* Deliveries *)

Skipped == [pc |-> "skip", try |-> 0]
FreeSlot == [state |-> "free", msg |-> NoMessage, acks |-> 0,
             run |-> [k \in Key |-> Skipped]]

Over(r) == \A k \in Key : r.run[k].pc \in {"skip", "done"}

\* A delivery is forgotten when the broker has done with it and its handlers
\* have too.
Tidy(r) == IF r.state \in {"acked", "void"} /\ Over(r) THEN FreeSlot ELSE r

Unacked(s) == slot[s].state = "live"

\* messages in their queue
Waiting == {m \in Message : /\ fate[m] = "held"
                            /\ \A s \in Slot : Unacked(s) => slot[s].msg # m}

\* The channel of these deliveries is gone: an acknowledgement on it throws.
Void(S) == [s \in Slot |-> IF s \in S /\ Unacked(s)
                           THEN Tidy([slot[s] EXCEPT !.state = "void"])
                           ELSE slot[s]]

-----------------------------------------------------------------------------
(* Connections *)

Task   == Loop \cup {Boot}
Ended  == [pc |-> "none", conn |-> NoConn]
Wait   == [pc |-> "wait", conn |-> NoConn]
Closed == [state |-> "closed", listener |-> FALSE]

Running   == {t \in Loop : task[t].pc # "none"}
IdleLoop  == CHOOSE t \in Loop : task[t].pc = "none"
FreeConns == {c \in Conn : conn[c].state = "closed" /\ c # static}

\* RabbitmqService.channel has been set and its connection is not closed
ChannelUsable == static # NoConn /\ conn[static].state # "closed"
ChannelOpen   == static # NoConn /\ conn[static].state = "open"

\* Startup has issued its assertions and some are not answered.
Asserting == phase = "up" /\ asserted < Len(Assertions)

\* The process ends: its connections close, its deliveries go back.
ProcessExit ==
    /\ phase' = "down"
    /\ asserted' = 0
    /\ conn' = [c \in Conn |-> Closed]
    /\ task' = [t \in Task |-> Ended]
    /\ static' = NoConn
    /\ consuming' = {}
    /\ slot' = [s \in Slot |-> FreeSlot]
    /\ halfOpen' = 0
    /\ stale' = FALSE

ProcessUnchanged ==
    UNCHANGED <<process, links, consuming, slot>>

-----------------------------------------------------------------------------
(* The process and the consumers *)

\* pm2 starts the process
Start ==
    /\ phase = "down"
    /\ phase' = "consumers"
    /\ UNCHANGED <<config, server, asserted, stale, links, fate, consuming,
                   slot, faults>>

Exit ==
    /\ phase # "down"
    /\ faults < MaxFaults
    /\ faults' = faults + 1
    /\ ProcessExit
    /\ UNCHANGED <<config, server, fate>>

\* A consumer of the framework connects, for the first time or again; it
\* asserts its own queue and no binding.
ConnectConsumer(k) ==
    /\ phase # "down"
    /\ broker = "up"
    /\ k \notin consuming
    /\ consuming' = consuming \cup {k}
    /\ topology' = topology \cup {Queue(k)}
    /\ UNCHANGED <<config, broker, process, links, fate, slot, faults>>

CloseConsumer(k) ==
    /\ k \in consuming
    /\ faults < MaxFaults
    /\ faults' = faults + 1
    /\ consuming' = consuming \ {k}
    /\ slot' = Void({s \in Slot : Unacked(s) /\ key[slot[s].msg] = k})
    /\ UNCHANGED <<config, server, process, links, fate>>

\* startAllMicroservices is over, app.listen calls onModuleInit
CallHooks ==
    /\ phase = "consumers"
    /\ consuming = Key
    /\ phase' = "hooks"
    /\ task' = [task EXCEPT ![Boot].pc = "connect"]
    /\ UNCHANGED <<config, server, asserted, stale, conn, static, halfOpen,
                   fate, consuming, slot, faults>>

\* The next assertion in the channel's order is answered; a refused one would
\* reject a promise nobody handles, but the order never lets that happen.
AssertNext ==
    /\ Asserting
    /\ ChannelOpen
    /\ LET item == Assertions[asserted + 1]
       IN  IF Accepted(item)
           THEN /\ topology' = topology \cup {item}
                /\ asserted' = asserted + 1
                /\ UNCHANGED <<phase, stale, links, consuming, slot>>
           ELSE ProcessExit /\ UNCHANGED topology
    /\ UNCHANGED <<config, broker, fate, faults>>

-----------------------------------------------------------------------------
(* connectChannel and healthCheck *)

Known == {"local", "aws"}

\* The second of waiting is over.  In an environment that is not known
\* createChannel is called on undefined, and the loop waits again.
Probe(t) ==
    /\ task[t].pc = "wait"
    /\ task' = [task EXCEPT ![t].pc = IF environment \in Known
                                      THEN "probe" ELSE "wait"]
    /\ UNCHANGED <<config, server, process, conn, static, halfOpen, fate,
                   consuming, slot, faults>>

\* amqp.connect gives a connection, to the probe or to connectChannel.
Accept(t, listener) ==
    /\ task[t].pc \in {"probe", "connect"}
    /\ broker = "up"
    /\ FreeConns # {}
    /\ LET c == CHOOSE f \in FreeConns : TRUE
       IN  /\ conn' = [conn EXCEPT ![c] = [state |-> "open",
                                           listener |-> listener]]
           /\ task' = [task EXCEPT ![t] =
                         [pc |-> IF task[t].pc = "connect"
                                 THEN "channel" ELSE "probeChannel",
                          conn |-> c]]
    /\ UNCHANGED <<config, server, process, static, halfOpen, fate, consuming,
                   slot, faults>>

\* mutant: connectChannel forgets the listener
ConnectDeaf(t) == Accept(t, FALSE)

\* Only the connection that is kept has a `close` listener.
Connect(t) == Accept(t, task[t].pc = "connect")

\* amqp.connect rejects, and nobody catches it in the startup hook.
Reject(t, caught) ==
    /\ task[t].pc \in {"probe", "connect"}
    /\ broker = "down"
    /\ IF t = Boot
       THEN ProcessExit
       ELSE /\ task' = [task EXCEPT ![t] = caught]
            /\ UNCHANGED <<process, conn, static, halfOpen, consuming, slot>>
    /\ UNCHANGED <<config, server, fate, faults>>

\* mutant: the loop has no catch
RefuseGivesUp(t) == Reject(t, Ended)

\* A loop logs the error and waits again.
Refuse(t) == Reject(t, Wait)

ProbeChannel(t) ==
    /\ task[t].pc = "probeChannel"
    /\ conn[task[t].conn].state = "open"
    /\ task' = [task EXCEPT ![t].pc = "closing"]
    /\ UNCHANGED <<config, server, process, conn, static, halfOpen, fate,
                   consuming, slot, faults>>

\* channel.close() and connection.close() of the probe have returned
CloseProbe(t) ==
    /\ task[t].pc = "closing"
    /\ conn[task[t].conn].state = "open"
    /\ conn' = [conn EXCEPT ![task[t].conn] = Closed]
    /\ task' = [task EXCEPT ![t] = [pc |-> "connect", conn |-> NoConn]]
    /\ UNCHANGED <<config, server, process, static, halfOpen, fate, consuming,
                   slot, faults>>

\* createChannel has returned
UseChannel(t, then) ==
    /\ task[t].pc = "channel"
    /\ conn[task[t].conn].state = "open"
    /\ static' = task[t].conn
    /\ task' = [task EXCEPT ![t] = then]
    /\ phase' = "up"
    /\ UNCHANGED <<config, server, asserted, stale, conn, halfOpen, fate,
                   consuming, slot, faults>>

\* mutant: the loop goes on after it has connected
SetChannelLooping(t) == UseChannel(t, IF t = Boot THEN Ended ELSE Wait)

\* The loop ends, or the startup hook goes on.
SetChannel(t) == UseChannel(t, Ended)

\* The process sees the close: calls awaited on the connection are rejected,
\* and its listener starts a loop.
SeeClose(c) ==
    /\ conn[c].state = "severed"
    /\ LET rejected == {t \in Task : task[t].conn = c}
           heard == conn[c].listener
       IN  IF Boot \in rejected \/ (Asserting /\ c = static)
           THEN ProcessExit
           ELSE /\ heard => Running # Loop
                /\ conn' = [conn EXCEPT ![c] = Closed]
                /\ task' = [t \in Task |->
                              IF \/ t \in rejected
                                 \/ heard /\ t = IdleLoop
                              THEN Wait ELSE task[t]]
                /\ halfOpen' = IF heard /\ rejected # {}
                               THEN halfOpen + 1 ELSE halfOpen
                /\ UNCHANGED <<process, static, consuming, slot>>
    /\ UNCHANGED <<config, server, fate, faults>>

-----------------------------------------------------------------------------
(* The broker *)

\* The broker closes a connection in order; the process has yet to see it.
CloseConnection(c) ==
    /\ conn[c].state = "open"
    /\ faults < MaxFaults
    /\ faults' = faults + 1
    /\ conn' = [conn EXCEPT ![c].state = "severed"]
    /\ UNCHANGED <<config, server, process, task, static, halfOpen, fate,
                   consuming, slot>>

\* Nothing is durable: exchange, queues, bindings and messages are gone.
StopBroker ==
    /\ broker = "up"
    /\ faults < MaxFaults
    /\ faults' = faults + 1
    /\ broker' = "down"
    /\ topology' = {}
    /\ fate' = [m \in Message |-> IF fate[m] = "held" THEN "broker"
                                  ELSE fate[m]]
    /\ conn' = [c \in Conn |-> IF conn[c].state = "open"
                               THEN [conn[c] EXCEPT !.state = "severed"]
                               ELSE conn[c]]
    /\ consuming' = {}
    /\ slot' = Void(Slot)
    /\ stale' = (phase # "down")
    /\ UNCHANGED <<config, phase, asserted, task, static, halfOpen>>

StartBroker ==
    /\ broker = "down"
    /\ broker' = "up"
    /\ UNCHANGED <<config, topology, process, links, fate, consuming, slot,
                   faults>>

-----------------------------------------------------------------------------
(* A message *)

\* sendMessage.  Without a channel, or on a closed one, publish throws and the
\* error is swallowed.  A missing exchange is an error of the channel, which
\* ends the process; a message nobody is bound for is returned to nobody.
Publish(m) ==
    /\ phase # "down"
    /\ fate[m] = "unsent"
    /\ \/ /\ ~ChannelUsable
          /\ fate' = [fate EXCEPT ![m] = "closed"]
          /\ ProcessUnchanged
       \/ /\ ChannelUsable /\ ~ChannelOpen
          /\ fate' = [fate EXCEPT ![m] = "severed"]
          /\ ProcessUnchanged
       \/ /\ ChannelOpen /\ Exchange \notin topology
          /\ fate' = [fate EXCEPT ![m] = "noExchange"]
          /\ ProcessExit
       \/ /\ ChannelOpen /\ Exchange \in topology
          /\ fate' = [fate EXCEPT ![m] = IF Bind(key[m]) \in topology
                                         THEN "held" ELSE "unrouted"]
          /\ ProcessUnchanged
    /\ UNCHANGED <<config, server, faults>>

\* mutant: the key is not compared
InterceptAny(k, m) == [Skipped EXCEPT !.pc = "run"]

\* RabbitMQInterceptor: of(null) unless the subscriber is the message's own
Intercept(k, m) ==
    IF k = key[m] THEN [Skipped EXCEPT !.pc = "run"] ELSE Skipped

\* The broker pushes a message; `acks` is what the interceptors answer before
\* any handler is through.
Push(s, m, acks) ==
    /\ m \in Waiting /\ key[m] \in consuming
    /\ slot[s].state = "free"
    /\ slot' = [slot EXCEPT ![s] = [state |-> "live", msg |-> m, acks |-> acks,
                                    run |-> [k \in Key |-> Intercept(k, m)]]]
    /\ UNCHANGED <<config, server, process, links, fate, consuming, faults>>

\* mutant: the interceptor of the other subscriber acknowledges
DeliverAcked(s, m) == Push(s, m, 1)

\* Both subscribers get the message; neither acknowledges it yet.
Deliver(s, m) == Push(s, m, 0)

\* channel.ack: sent on the channel of the delivery, unless that is gone
Ack(r) == IF r.state = "void" THEN r ELSE [r EXCEPT !.acks = @ + 1]

HandlerStep(s, r) ==
    /\ slot' = [slot EXCEPT ![s] = Tidy(r)]
    /\ UNCHANGED <<config, server, process, links, fate, consuming, faults>>

\* The handler returns; tap acknowledges.
Return(s, k) ==
    /\ slot[s].run[k].pc = "run"
    /\ HandlerStep(s, Ack([slot[s] EXCEPT !.run[k].pc = "done"]))

\* The handler throws: another attempt after half a second, or it gives up.
Attempt(s, k, last, givesUp) ==
    LET run == slot[s].run[k]
    IN  /\ run.pc = "run"
        /\ HandlerStep(s, IF run.try < last
                          THEN [slot[s] EXCEPT !.run[k] =
                                  [pc |-> "pause", try |-> run.try + 1]]
                          ELSE givesUp)

GivesUp(s, k) == [slot[s] EXCEPT !.run[k].pc = "done"]

\* mutant: one attempt too many
ThrowOnceMore(s, k) == Attempt(s, k, RetryCount + 1, Ack(GivesUp(s, k)))

\* mutant: the message of a handler that gave up is left alone
ThrowUnacked(s, k) == Attempt(s, k, RetryCount, GivesUp(s, k))

\* The RpcException of the last attempt makes the filter acknowledge.
Throw(s, k) == Attempt(s, k, RetryCount, Ack(GivesUp(s, k)))

Retry(s, k) ==
    /\ slot[s].run[k].pc = "pause"
    /\ HandlerStep(s, [slot[s] EXCEPT !.run[k].pc = "run"])

\* The acknowledgement reaches the broker.
ReceiveAck(s) ==
    /\ Unacked(s) /\ slot[s].acks > 0
    /\ fate' = [fate EXCEPT ![slot[s].msg] = "acked"]
    /\ slot' = [slot EXCEPT ![s] = Tidy([slot[s] EXCEPT !.state = "acked"])]
    /\ UNCHANGED <<config, server, process, links, consuming, faults>>

-----------------------------------------------------------------------------
Init ==
    /\ environment \in Environments
    /\ key \in [Message -> Key]
    /\ broker = "up"
    /\ topology = {}
    /\ fate = [m \in Message |-> "unsent"]
    /\ phase = "down"
    /\ asserted = 0
    /\ conn = [c \in Conn |-> Closed]
    /\ task = [t \in Task |-> Ended]
    /\ static = NoConn
    /\ consuming = {}
    /\ slot = [s \in Slot |-> FreeSlot]
    /\ halfOpen = 0
    /\ stale = FALSE
    /\ faults = 0

TaskStep(t) ==
    \/ Probe(t) \/ Connect(t) \/ Refuse(t)
    \/ ProbeChannel(t) \/ CloseProbe(t) \/ SetChannel(t)

RunStep(s, k) == Return(s, k) \/ Throw(s, k) \/ Retry(s, k)

Next ==
    \/ Start \/ Exit \/ CallHooks \/ AssertNext
    \/ \E k \in Key : ConnectConsumer(k) \/ CloseConsumer(k)
    \/ \E t \in Task : TaskStep(t)
    \/ \E c \in Conn : SeeClose(c) \/ CloseConnection(c)
    \/ StopBroker \/ StartBroker
    \/ \E m \in Message : Publish(m) \/ \E s \in Slot : Deliver(s, m)
    \/ \E s \in Slot : ReceiveAck(s) \/ \E k \in Key : RunStep(s, k)

\* The process and the broker are started again, promises that are settled
\* are resumed, calls return or reject, the broker sends what it holds.
Fairness ==
    /\ WF_vars(Start) /\ WF_vars(StartBroker)
    /\ WF_vars(CallHooks) /\ WF_vars(AssertNext)
    /\ \A k \in Key : WF_vars(ConnectConsumer(k))
    /\ \A t \in Task : WF_vars(TaskStep(t))
    /\ \A c \in Conn : WF_vars(SeeClose(c))
    /\ \A s \in Slot : WF_vars(ReceiveAck(s))
    /\ \A s \in Slot, k \in Key : WF_vars(RunStep(s, k))
    /\ \A m \in Message : SF_vars(\E s \in Slot : Deliver(s, m))

Spec     == Init /\ [][Next]_vars
FairSpec == Spec /\ Fairness

-----------------------------------------------------------------------------
(* Properties *)

\* The variables have their types and the bound is kept.
TypeOK ==
    /\ environment \in Environments
    /\ key \in [Message -> Key]
    /\ broker \in {"up", "down"}
    /\ topology \subseteq Item
    /\ fate \in [Message -> {"unsent", "held", "acked", "closed", "severed",
                             "noExchange", "unrouted", "broker"}]
    /\ phase \in {"down", "consumers", "hooks", "up"}
    /\ asserted \in 0 .. Len(Assertions)
    /\ conn \in [Conn -> [state : {"open", "severed", "closed"},
                          listener : BOOLEAN]]
    /\ task \in [Task -> [pc : {"none", "wait", "probe", "probeChannel",
                                "closing", "connect", "channel"},
                          conn : Conn \cup {NoConn}]]
    /\ static \in Conn \cup {NoConn}
    /\ consuming \subseteq Key
    /\ slot \in [Slot -> [state : {"free", "live", "acked", "void"},
                          msg   : Message \cup {NoMessage},
                          acks  : Nat,
                          run   : [Key -> [pc : {"skip", "run", "pause",
                                                 "done"},
                                           try : 0 .. RetryCount]]]]
    /\ halfOpen \in Nat
    /\ stale \in BOOLEAN
    /\ faults \in 0 .. MaxFaults

\* Once startup is over, a channel that is closed is being replaced: the
\* `close` event of the connection that is in use is never missed, however
\* many loops and connections there are by then (rabbitmq.service.ts:46).
ChannelFresh == phase = "up" => ChannelUsable \/ Running # {}

\* Connections that are kept, and loops on the way to one.
Kept == {c \in Conn : /\ conn[c].state # "closed" /\ conn[c].listener
                      /\ \A t \in Task : task[t].conn # c}

\* A loop replaces the connection it was started for, no more and no less: the
\* process has one connection that it keeps or one loop, and another for each
\* connection that closed between amqp.connect and createChannel.  Those are
\* never given up again: their channels are replaced and they stay open.
OneKeeperEach ==
    phase = "up" => Cardinality(Kept) + Cardinality(Running) = 1 + halfOpen

\* No delivery is acknowledged twice on its channel, which the broker would
\* answer by closing it: interceptor and filter exclude each other, and one
\* subscriber acts (rabbitmq.interceptor.ts:24, 30).
AckOnce == \A s \in Slot : slot[s].acks <= 1

\* A message finds no binding only when it overtakes the assertions of its
\* process, and no exchange only then or when the broker restarted under the
\* process (rabbitmq.service.ts:30-34, nobody awaits the assertions).
RoutedOnceAsserted ==
    [][\A m \in Message : fate'[m] # fate[m] =>
          /\ fate'[m] = "unrouted" => Asserting
          /\ fate'[m] = "noExchange" => stale \/ (Asserting /\ asserted = 0)]_vars

\* Each message goes its way as Delivery says: nothing that is acknowledged
\* was still to be handled, or comes back.
Carrier(m) == {s \in Slot : Unacked(s) /\ slot[s].msg = m}

StageOf(m) ==
    CASE fate[m] = "unsent" -> "unsent"
      [] fate[m] = "acked"  -> "acknowledged"
      [] m \in Waiting      -> "waiting"
      [] fate[m] = "held" /\ m \notin Waiting ->
            IF \E s \in Carrier(m) : slot[s].run[key[m]].pc = "done"
            THEN "ended" ELSE "taken"
      [] OTHER              -> "lost"

Messages     == INSTANCE Delivery WITH stage <- [m \in Message |-> StageOf(m)]
DeliverySpec == Messages!Spec

\* In the two environments that healthCheck knows, the process is up with an
\* open channel again and again: the loops end.
ChannelRecovers ==
    environment \in Known => []<>(phase = "up" /\ ChannelOpen)

\* A message that the broker holds is acknowledged, or lost with the broker.
Settled == \A m \in Message : fate[m] = "held" ~> fate[m] # "held"
=============================================================================
