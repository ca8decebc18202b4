---------------------------- MODULE RabbitMqProofs ----------------------------
(***************************************************************************)
(* Theorems about RabbitMq, for any messages, deliveries, loops and        *)
(* connections, any number of retries and of faults.                       *)
(***************************************************************************)
EXTENDS RabbitMq, FiniteSetTheorems, TLAPS

-----------------------------------------------------------------------------
(* Types, by part of the state                                             *)

RunType  == [pc : {"skip", "run", "pause", "done"}, try : 0 .. RetryCount]
SlotType == [state : {"free", "live", "acked", "void"},
             msg   : Message \cup {NoMessage},
             acks  : Nat,
             run   : [Key -> RunType]]
ConnType == [state : {"open", "severed", "closed"}, listener : BOOLEAN]
TaskType == [pc : {"none", "wait", "probe", "probeChannel", "closing", "connect",
                   "channel"},
             conn : Conn \cup {NoConn}]
FateType == {"unsent", "held", "acked", "closed", "severed", "noExchange", "unrouted",
             "broker"}

ServerTypeOK ==
    /\ environment \in Environments
    /\ key \in [Message -> Key]
    /\ broker \in {"up", "down"}
    /\ topology \subseteq Item
    /\ fate \in [Message -> FateType]
    /\ consuming \subseteq Key
    /\ faults \in 0 .. MaxFaults

LinksTypeOK ==
    /\ phase \in {"down", "consumers", "hooks", "up"}
    /\ asserted \in 0 .. Len(Assertions)
    /\ conn \in [Conn -> ConnType]
    /\ task \in [Task -> TaskType]
    /\ static \in Conn \cup {NoConn}
    /\ halfOpen \in Nat
    /\ stale \in BOOLEAN

SlotsTypeOK == slot \in [Slot -> SlotType]

LEMMA TypeParts == TypeOK <=> ServerTypeOK /\ LinksTypeOK /\ SlotsTypeOK
BY DEF TypeOK, ServerTypeOK, LinksTypeOK, SlotsTypeOK, RunType, SlotType, ConnType,
       TaskType, FateType

\* There are five assertions, and each is an item.
LEMMA AssertionsAre ==
    /\ Len(Assertions) = 5
    /\ \A i \in 1 .. 5 : Assertions[i] \in Item
BY DEF Assertions, Item, Exchange, Queue, Bind, Key

LEMMA EndedTypes ==
    /\ Ended \in TaskType /\ Wait \in TaskType /\ Closed \in ConnType
    /\ FreeSlot \in SlotType
BY RetryAssumption DEF Ended, Wait, Closed, FreeSlot, Skipped, TaskType, ConnType, SlotType, RunType

-----------------------------------------------------------------------------
(* Connections and loops                                                   *)

\* A call that awaits a connection has one of its own, which has not been
\* closed; the one it is going to keep has a listener, as the one that is kept
\* has, and the startup hook makes no probes and runs once in a process.
LinksOk ==
    /\ \A t \in Task : task[t].conn # NoConn =>
          /\ task[t].pc \in {"probeChannel", "closing", "channel"}
          /\ conn[task[t].conn].state # "closed"
    /\ \A t \in Task : task[t].pc \in {"probeChannel", "closing", "channel"}
                          => task[t].conn # NoConn
    /\ \A t \in Task, u \in Task : task[t].conn = task[u].conn => t = u \/ task[t].conn = NoConn
    /\ \A t \in Task : task[t].pc = "channel" => conn[task[t].conn].listener
    /\ task[Boot].pc \in {"none", "connect", "channel"}
    /\ phase \in {"down", "consumers"} => task[Boot].pc = "none"
    /\ ChannelUsable => conn[static].listener

LinksInv == LinksTypeOK /\ LinksOk /\ ChannelFresh

\* The process ends: there is nothing left to go wrong.
LEMMA ExitLinks == ProcessExit => LinksInv'
<1> SUFFICES ASSUME ProcessExit PROVE LinksInv'
  OBVIOUS
<1>1. /\ phase' = "down" /\ asserted' = 0 /\ static' = NoConn /\ halfOpen' = 0
      /\ stale' = FALSE
      /\ conn' = [c \in Conn |-> Closed] /\ task' = [t \in Task |-> Ended]
  BY DEF ProcessExit
<1>2. LinksTypeOK'
  <2>1. 0 \in 0 .. Len(Assertions)
    BY AssertionsAre
  <2>2. conn' \in [Conn -> ConnType] /\ task' \in [Task -> TaskType]
    BY <1>1, EndedTypes
  <2> QED BY <1>1, <2>1, <2>2 DEF LinksTypeOK
<1>3. LinksOk'
  <2>1. /\ \A t \in Task : task'[t].conn = NoConn /\ task'[t].pc = "none"
        /\ Boot \in Task
    BY <1>1 DEF Ended, Task
  <2> QED BY <1>1, <2>1 DEF LinksOk, ChannelUsable
<1> QED BY <1>1, <1>2, <1>3 DEF LinksInv, ChannelFresh

\* Steps that leave connections and loops alone, in a process that is not
\* coming up
LEMMA CalmLinks ==
    LinksInv /\ UNCHANGED <<conn, task, static, halfOpen, phase>>
    /\ asserted' \in 0 .. Len(Assertions) /\ stale' \in BOOLEAN
    => LinksInv'
BY DEF LinksInv, LinksTypeOK, LinksOk, ChannelFresh, ChannelUsable, Running

LEMMA BootIsATask == Boot \in Task /\ Boot \notin Loop /\ Loop \subseteq Task
BY NamesAssumption DEF Task

\* A probe's connection is closed, or a connection is severed.
LEMMA ProbeLinks ==
    ASSUME LinksInv, NEW t \in Task,
           Probe(t) \/ ProbeChannel(t) \/ CloseProbe(t)
    PROVE  LinksInv'
<1> USE DEF LinksInv
<1> USE BootIsATask
<1>1. /\ UNCHANGED <<phase, asserted, static, halfOpen, stale>>
      /\ task[t].pc \in {"wait", "probeChannel", "closing"}
      /\ t \in Loop
  BY DEF Probe, ProbeChannel, CloseProbe, process, LinksOk, Task
<1>2. CASE Probe(t) \/ ProbeChannel(t)
  <2>1. /\ conn' = conn
        /\ \E pc \in {"wait", "probe", "closing"} :
              /\ task' = [task EXCEPT ![t].pc = pc]
              /\ pc = "closing" <=> task[t].pc = "probeChannel"
    BY <1>2 DEF Probe, ProbeChannel
  <2>2. PICK pc \in {"wait", "probe", "closing"} :
              /\ task' = [task EXCEPT ![t].pc = pc]
              /\ pc = "closing" <=> task[t].pc = "probeChannel"
    BY <2>1
  <2>3. LinksTypeOK'
    BY <1>1, <2>1, <2>2 DEF LinksTypeOK, TaskType
  <2>4. /\ \A u \in Task : task'[u].conn = task[u].conn
        /\ \A u \in Task : u # t => task'[u] = task[u]
        /\ task'[t].pc = pc
    BY <2>2 DEF LinksTypeOK, TaskType
  <2>5. LinksOk'
    <3>1. task[t].pc = "wait" => task[t].conn = NoConn
      BY DEF LinksOk
    <3>2. pc = "closing" <=> task[t].pc = "probeChannel"
      BY <2>2
    <3>3. task[t].pc = "closing" => FALSE
      BY <1>2 DEF Probe, ProbeChannel
    <3>4. t # Boot
      BY <1>1
    <3> QED BY <1>1, <2>1, <2>4, <3>1, <3>2, <3>3, <3>4 DEF LinksOk, ChannelUsable
  <2>6. t \in Running'
    BY <1>1, <2>4 DEF Running
  <2> QED BY <2>3, <2>5, <2>6 DEF ChannelFresh
<1>3. CASE CloseProbe(t)
  <2>1. /\ conn' = [conn EXCEPT ![task[t].conn] = Closed]
        /\ task' = [task EXCEPT ![t] = [pc |-> "connect", conn |-> NoConn]]
    BY <1>3 DEF CloseProbe
  <2>2. LinksTypeOK'
    BY <1>1, <2>1, EndedTypes DEF LinksTypeOK, TaskType
  <2>3. /\ \A u \in Task : u # t => task'[u] = task[u]
        /\ task'[t] = [pc |-> "connect", conn |-> NoConn]
        /\ \A c \in Conn : c # task[t].conn => conn'[c] = conn[c]
        /\ \A c \in Conn : c = task[t].conn => conn'[c].state = "closed"
    BY <2>1 DEF LinksTypeOK, Closed
  <2>4. \A u \in Task : task[u].conn \in Conn \cup {NoConn}
    BY DEF LinksTypeOK, TaskType
  <2>5. LinksOk'
    <3>1. \A u \in Task : u # t /\ task[u].conn # NoConn => conn'[task[u].conn] = conn[task[u].conn]
      BY <2>3, <2>4 DEF LinksOk
    <3>2. ChannelUsable' => ChannelUsable /\ conn'[static] = conn[static]
      BY <1>1, <2>3 DEF ChannelUsable, LinksTypeOK
    <3> QED BY <1>1, <2>3, <3>1, <3>2 DEF LinksOk
  <2>6. t \in Running'
    BY <1>1, <2>3 DEF Running
  <2> QED BY <2>2, <2>5, <2>6 DEF ChannelFresh
<1> QED BY <1>2, <1>3

\* A new connection is nobody else's.
LEMMA ConnectLinks ==
    ASSUME LinksInv, NEW t \in Task, Connect(t)
    PROVE  LinksInv'
<1> USE DEF LinksInv
<1> USE BootIsATask
<1> DEFINE c == CHOOSE f \in FreeConns : TRUE
           listens == task[t].pc = "connect"
<1>1. /\ UNCHANGED <<phase, asserted, static, halfOpen, stale>>
      /\ task[t].pc \in {"probe", "connect"} /\ FreeConns # {}
      /\ conn' = [conn EXCEPT ![c] = [state |-> "open", listener |-> listens]]
      /\ task' = [task EXCEPT ![t] =
                    [pc |-> IF listens THEN "channel" ELSE "probeChannel", conn |-> c]]
  BY DEF Connect, Accept, process
<1>2. c \in Conn /\ conn[c].state = "closed" /\ c # static
  BY <1>1 DEF FreeConns
<1> HIDE DEF c
<1>3. /\ \A u \in Task : u # t => task'[u] = task[u] /\ task[u].conn # c
      /\ \A d \in Conn : d # c => conn'[d] = conn[d]
      /\ conn'[c].state = "open" /\ (listens => conn'[c].listener)
      /\ task'[t].conn = c
      /\ task'[t].pc = IF listens THEN "channel" ELSE "probeChannel"
  BY <1>1, <1>2, NamesAssumption DEF LinksTypeOK, LinksOk
<1>4. LinksTypeOK'
  BY <1>1, <1>2 DEF LinksTypeOK, TaskType, ConnType
<1>5. LinksOk'
  <2>1. \A u \in Task : task[u].conn \in Conn \cup {NoConn}
    BY DEF LinksTypeOK, TaskType
  <2>2. ChannelUsable' => ChannelUsable /\ conn'[static] = conn[static]
    BY <1>1, <1>2, <1>3 DEF ChannelUsable, LinksTypeOK
  <2>3. t = Boot => listens
    BY <1>1 DEF LinksOk
  <2>4. c # NoConn
    BY <1>2, NamesAssumption
  <2> QED BY <1>1, <1>2, <1>3, <2>1, <2>2, <2>3, <2>4 DEF LinksOk
<1>6. ChannelFresh'
  <2>1. ChannelUsable => ChannelUsable'
    BY <1>1, <1>2, <1>3 DEF ChannelUsable, LinksTypeOK
  <2>2. \A u \in Running : u \in Running'
    BY <1>1, <1>3 DEF Running
  <2> QED BY <1>1, <2>1, <2>2 DEF ChannelFresh
<1> QED BY <1>4, <1>5, <1>6

\* The rejected startup hook ends the process, a rejected loop goes on.
LEMMA RefuseLinks ==
    ASSUME LinksInv, NEW t \in Task, Refuse(t)
    PROVE  LinksInv'
<1> USE DEF LinksInv
<1> USE BootIsATask
<1>1. CASE t = Boot
  BY <1>1, ExitLinks DEF Refuse, Reject
<1>2. CASE t # Boot
  <2>1. /\ UNCHANGED <<phase, asserted, stale, conn, static, halfOpen>>
        /\ task' = [task EXCEPT ![t] = Wait] /\ t \in Loop
    BY <1>2 DEF Refuse, Reject, process, Task
  <2>2. /\ \A u \in Task : u # t => task'[u] = task[u]
        /\ task'[t].pc = "wait" /\ task'[t].conn = NoConn
    BY <2>1 DEF LinksTypeOK, Wait
  <2>3. LinksTypeOK'
    BY <2>1, EndedTypes DEF LinksTypeOK
  <2>4. LinksOk'
    BY <2>1, <2>2, <1>2 DEF LinksOk, ChannelUsable
  <2>5. t \in Running'
    BY <2>1, <2>2 DEF Running
  <2> QED BY <2>3, <2>4, <2>5 DEF ChannelFresh
<1> QED BY <1>1, <1>2

\* The channel that is set is on a connection that is heard when it closes.
LEMMA SetChannelLinks ==
    ASSUME LinksInv, NEW t \in Task, SetChannel(t)
    PROVE  LinksInv'
<1> USE DEF LinksInv
<1> USE BootIsATask
<1>1. /\ UNCHANGED <<asserted, stale, conn, halfOpen>>
      /\ task[t].pc = "channel" /\ conn[task[t].conn].state = "open"
      /\ static' = task[t].conn
      /\ task' = [task EXCEPT ![t] = Ended]
      /\ phase' = "up"
  BY DEF SetChannel, UseChannel
<1>2. task[t].conn \in Conn /\ task[t].conn # NoConn
  BY <1>1 DEF LinksOk, LinksTypeOK, TaskType
<1>3. /\ \A u \in Task : u # t => task'[u] = task[u]
      /\ task'[t].pc = "none" /\ task'[t].conn = NoConn
  BY <1>1 DEF LinksTypeOK, Ended
<1>4. LinksTypeOK'
  BY <1>1, <1>2, EndedTypes DEF LinksTypeOK
<1>5. ChannelUsable'
  BY <1>1, <1>2 DEF ChannelUsable
<1>6. LinksOk'
  BY <1>1, <1>2, <1>3 DEF LinksOk
<1> QED BY <1>4, <1>5, <1>6 DEF ChannelFresh

\* Every call that awaits the closed connection waits again, and if it was the
\* one in use, its listener starts a loop.
LEMMA SeeCloseLinks ==
    ASSUME LinksInv, NEW c \in Conn, SeeClose(c)
    PROVE  LinksInv'
<1> USE DEF LinksInv
<1> USE BootIsATask
<1> DEFINE rejected == {t \in Task : task[t].conn = c}
           heard == conn[c].listener
<1>1. CASE Boot \in rejected \/ (Asserting /\ c = static)
  BY <1>1, ExitLinks DEF SeeClose
<1>2. CASE ~(Boot \in rejected \/ (Asserting /\ c = static))
  <2>1. /\ heard => Running # Loop
        /\ conn' = [conn EXCEPT ![c] = Closed]
        /\ task' = [t \in Task |-> IF t \in rejected \/ (heard /\ t = IdleLoop)
                                   THEN Wait ELSE task[t]]
        /\ halfOpen' = IF heard /\ rejected # {} THEN halfOpen + 1 ELSE halfOpen
        /\ UNCHANGED <<phase, asserted, stale, static>>
        /\ conn[c].state = "severed"
    BY <1>2 DEF SeeClose, process
  <2>2. heard => IdleLoop \in Loop /\ task[IdleLoop].pc = "none"
    BY <2>1 DEF IdleLoop, Running
  <2>3. LinksTypeOK'
    BY <2>1, EndedTypes DEF LinksTypeOK
  <2>4. /\ \A t \in Task : task'[t] = Wait \/ (task'[t] = task[t] /\ task[t].conn # c)
        /\ \A t \in Running : t \in Running'
        /\ heard => IdleLoop \in Running'
        /\ \A d \in Conn : d # c => conn'[d] = conn[d]
        /\ conn'[c].state = "closed"
        /\ task'[Boot] = task[Boot]
    BY <1>2, <2>1, <2>2 DEF Running, Wait, Closed, LinksTypeOK
  <2>5. LinksOk'
    <3>1. \A u \in Task : task[u].conn \in Conn \cup {NoConn}
      BY DEF LinksTypeOK, TaskType
    <3>2. ChannelUsable' => ChannelUsable /\ conn'[static] = conn[static]
      BY <2>1, <2>4 DEF ChannelUsable, LinksTypeOK
    <3> QED BY <2>1, <2>4, <3>1, <3>2 DEF LinksOk, Wait
  <2>6. ChannelFresh'
    <3>1. CASE c = static
      <4>1. heard
        BY <2>1, <3>1, NamesAssumption DEF LinksOk, ChannelUsable
      <4> QED BY <2>4, <4>1 DEF ChannelFresh
    <3>2. CASE c # static
      <4>1. ChannelUsable => ChannelUsable'
        BY <2>1, <2>4, <3>2 DEF ChannelUsable, LinksTypeOK
      <4> QED BY <2>1, <2>4, <4>1 DEF ChannelFresh
    <3> QED BY <3>1, <3>2
  <2> QED BY <2>3, <2>5, <2>6
<1> QED BY <1>1, <1>2

\* A connection that is severed is still to be heard of.
LEMMA SeverLinks ==
    ASSUME LinksInv, UNCHANGED <<phase, asserted, task, static, halfOpen>>,
           stale' \in BOOLEAN,
           NEW S \in SUBSET Conn,
           conn' = [c \in Conn |-> IF c \in S /\ conn[c].state = "open"
                                   THEN [conn[c] EXCEPT !.state = "severed"]
                                   ELSE conn[c]]
    PROVE  LinksInv'
<1> USE DEF LinksInv
<1>1. \A c \in Conn : /\ conn'[c] \in ConnType
                      /\ conn'[c].state = "closed" <=> conn[c].state = "closed"
                      /\ conn'[c].listener = conn[c].listener
  BY DEF LinksTypeOK, ConnType
<1>2. LinksTypeOK'
  BY <1>1 DEF LinksTypeOK
<1>3. \A u \in Task : task[u].conn \in Conn \cup {NoConn}
  BY DEF LinksTypeOK, TaskType
<1>4. ChannelUsable' <=> ChannelUsable
  BY <1>1 DEF ChannelUsable, LinksTypeOK
<1>5. LinksOk'
  BY <1>1, <1>3, <1>4 DEF LinksOk, ChannelUsable, LinksTypeOK
<1>6. ChannelFresh'
  BY <1>4 DEF ChannelFresh, Running
<1> QED BY <1>2, <1>5, <1>6

LEMMA LinksInit == Init => LinksInv
<1> SUFFICES ASSUME Init PROVE LinksInv
  OBVIOUS
<1>1. LinksTypeOK
  <2>1. 0 \in 0 .. Len(Assertions)
    BY AssertionsAre
  <2>2. conn \in [Conn -> ConnType] /\ task \in [Task -> TaskType]
    BY EndedTypes DEF Init
  <2> QED BY <2>1, <2>2 DEF Init, LinksTypeOK
<1>2. /\ \A t \in Task : task[t].conn = NoConn /\ task[t].pc = "none"
      /\ Boot \in Task
  BY DEF Init, Ended, Task
<1> QED BY <1>1, <1>2 DEF Init, LinksInv, LinksOk, ChannelFresh, ChannelUsable

LEMMA LinksStep == LinksInv /\ [Next]_vars => LinksInv'
<1> SUFFICES ASSUME LinksInv, [Next]_vars PROVE LinksInv'
  OBVIOUS
<1> USE BootIsATask
<1>1. CASE UNCHANGED vars
  BY <1>1, CalmLinks DEF vars, process, links, LinksInv, LinksTypeOK
<1>2. CASE Start
  <2>1. UNCHANGED <<conn, task, static, halfOpen, asserted, stale>> /\ phase' = "consumers"
    BY <1>2 DEF Start, links
  <2>2. LinksTypeOK'
    BY <2>1 DEF LinksInv, LinksTypeOK
  <2>3. task[Boot].pc = "none"
    BY <1>2 DEF Start, LinksInv, LinksOk
  <2>4. LinksOk'
    BY <2>1, <2>3 DEF LinksInv, LinksOk, ChannelUsable
  <2> QED BY <2>1, <2>2, <2>4 DEF LinksInv, ChannelFresh
<1>3. CASE Exit
  BY <1>3, ExitLinks DEF Exit
<1>4. CASE CallHooks
  <2>1. /\ UNCHANGED <<conn, static, halfOpen, asserted, stale>> /\ phase' = "hooks"
        /\ task' = [task EXCEPT ![Boot].pc = "connect"]
    BY <1>4 DEF CallHooks
  <2>2. LinksTypeOK'
    <3>1. [task[Boot] EXCEPT !.pc = "connect"] \in TaskType
      BY DEF LinksInv, LinksTypeOK, TaskType
    <3> QED BY <2>1, <3>1 DEF LinksInv, LinksTypeOK
  <2>3. task[Boot].conn = NoConn
    BY <1>4 DEF LinksInv, LinksOk, CallHooks
  <2>4. /\ \A t \in Task : task'[t].conn = task[t].conn
        /\ \A t \in Task : t # Boot => task'[t].pc = task[t].pc
        /\ task'[Boot].pc = "connect"
    BY <2>1 DEF LinksInv, LinksTypeOK, TaskType
  <2> QED BY <2>1, <2>2, <2>3, <2>4 DEF LinksInv, LinksOk, ChannelFresh, ChannelUsable
<1>5. CASE AssertNext
  <2>1. CASE ProcessExit
    BY <2>1, ExitLinks
  <2>2. CASE /\ asserted' = asserted + 1
             /\ UNCHANGED <<phase, stale, links>>
    BY <1>5, <2>2, CalmLinks, AssertionsAre
       DEF AssertNext, Asserting, links, LinksInv, LinksTypeOK
  <2> QED BY <1>5, <2>1, <2>2 DEF AssertNext
<1>6. ASSUME NEW k \in Key, ConnectConsumer(k) \/ CloseConsumer(k) PROVE LinksInv'
  BY <1>6, CalmLinks DEF ConnectConsumer, CloseConsumer, process, links, LinksInv, LinksTypeOK
<1>7. ASSUME NEW t \in Task, TaskStep(t) PROVE LinksInv'
  BY <1>7, ProbeLinks, ConnectLinks, RefuseLinks, SetChannelLinks DEF TaskStep
<1>8. ASSUME NEW c \in Conn, SeeClose(c) PROVE LinksInv'
  BY <1>8, SeeCloseLinks
<1>9. ASSUME NEW c \in Conn, CloseConnection(c) PROVE LinksInv'
  <2>1. conn' = [d \in Conn |-> IF d \in {c} /\ conn[d].state = "open"
                                THEN [conn[d] EXCEPT !.state = "severed"]
                                ELSE conn[d]]
    BY <1>9 DEF CloseConnection, LinksInv, LinksTypeOK
  <2>2. UNCHANGED <<phase, asserted, task, static, halfOpen, stale>>
    BY <1>9 DEF CloseConnection, process
  <2>3. {c} \in SUBSET Conn /\ stale' \in BOOLEAN
    BY <2>2 DEF LinksInv, LinksTypeOK
  <2> QED BY <2>1, <2>2, <2>3, SeverLinks
<1>10. CASE StopBroker
  <2>1. conn' = [d \in Conn |-> IF d \in Conn /\ conn[d].state = "open"
                                THEN [conn[d] EXCEPT !.state = "severed"]
                                ELSE conn[d]]
    BY <1>10 DEF StopBroker
  <2>2. UNCHANGED <<phase, asserted, task, static, halfOpen>> /\ stale' \in BOOLEAN
    BY <1>10 DEF StopBroker
  <2> QED BY <2>1, <2>2, SeverLinks
<1>11. CASE StartBroker
  BY <1>11, CalmLinks DEF StartBroker, process, links, LinksInv, LinksTypeOK
<1>12. ASSUME NEW m \in Message, Publish(m) PROVE LinksInv'
  <2>1. CASE ProcessExit
    BY <2>1, ExitLinks
  <2>2. CASE ProcessUnchanged
    BY <2>2, CalmLinks DEF ProcessUnchanged, process, links, LinksInv, LinksTypeOK
  <2> QED BY <1>12, <2>1, <2>2 DEF Publish
<1>13. ASSUME NEW m \in Message, NEW s \in Slot, Deliver(s, m) PROVE LinksInv'
  BY <1>13, CalmLinks DEF Deliver, Push, process, links, LinksInv, LinksTypeOK
<1>14. ASSUME NEW s \in Slot, ReceiveAck(s) PROVE LinksInv'
  BY <1>14, CalmLinks DEF ReceiveAck, process, links, LinksInv, LinksTypeOK
<1>15. ASSUME NEW s \in Slot, NEW k \in Key, RunStep(s, k) PROVE LinksInv'
  BY <1>15, CalmLinks
     DEF RunStep, Return, Throw, Retry, Attempt, HandlerStep, process, links, LinksInv, LinksTypeOK
<1> QED BY <1>1, <1>2, <1>3, <1>4, <1>5, <1>6, <1>7, <1>8, <1>9, <1>10, <1>11, <1>12,
           <1>13, <1>14, <1>15 DEF Next

\* Once startup is over, a channel that is closed is being replaced
\* (RabbitmqService.connectChannel, rabbitmq.service.ts:46).
THEOREM ChannelFreshCorrect == Spec => []ChannelFresh
<1>1. LinksInv => ChannelFresh
  BY DEF LinksInv
<1> QED BY <1>1, LinksInit, LinksStep, PTL DEF Spec

-----------------------------------------------------------------------------
(* One connection kept, or one loop                                        *)

\* Before startup is over nothing is kept and no loop runs; afterwards the
\* startup hook is through.
KeepersOk ==
    /\ IsFiniteSet(Kept) /\ IsFiniteSet(Running)
    /\ phase = "up" => /\ task[Boot].pc = "none"
                       /\ Cardinality(Kept) + Cardinality(Running) = 1 + halfOpen
    /\ phase # "up" => Kept = {} /\ Running = {} /\ halfOpen = 0

\* The process ends: no connection is left and no loop.
LEMMA ExitKeepers == ProcessExit => KeepersOk'
<1> SUFFICES ASSUME ProcessExit PROVE KeepersOk'
  OBVIOUS
<1>1. Kept' = {} /\ Running' = {}
  BY BootIsATask DEF ProcessExit, Kept, Running, Closed, Ended
<1>2. phase' # "up" /\ halfOpen' = 0
  BY DEF ProcessExit
<1> QED BY <1>1, <1>2, FS_EmptySet DEF KeepersOk

\* Steps that change neither what is kept nor which loops run
LEMMA KeepersSame ==
    ASSUME KeepersOk, Kept' = Kept, Running' = Running, halfOpen' = halfOpen,
           phase' = "up" <=> phase = "up",
           phase = "up" => task'[Boot].pc = task[Boot].pc
    PROVE  KeepersOk'
BY DEF KeepersOk

LEMMA KeepersCalm ==
    KeepersOk /\ UNCHANGED <<conn, task, halfOpen, phase>> => KeepersOk'
BY KeepersSame DEF Kept, Running

LEMMA ConnOfTask == LinksTypeOK => \A t \in Task : task[t].conn \in Conn \cup {NoConn}
BY DEF LinksTypeOK, TaskType

\* A probe keeps nothing, and its loop runs on.
LEMMA ProbeKeepers ==
    ASSUME LinksInv, KeepersOk, NEW t \in Task,
           Probe(t) \/ ProbeChannel(t) \/ CloseProbe(t)
    PROVE  KeepersOk'
<1> USE DEF LinksInv
<1> USE BootIsATask
<1>1. /\ UNCHANGED <<phase, halfOpen>>
      /\ task[t].pc \in {"wait", "probeChannel", "closing"}
      /\ t \in Loop
  BY DEF Probe, ProbeChannel, CloseProbe, process, LinksOk, Task
<1>2. /\ \A u \in Task : u # t => task'[u] = task[u]
      /\ task'[t].pc # "none"
  BY DEF Probe, ProbeChannel, CloseProbe, LinksTypeOK, TaskType
<1>3. Running' = Running
  BY <1>1, <1>2 DEF Running
<1>4. Kept' = Kept
  <2>1. CASE Probe(t) \/ ProbeChannel(t)
    <3>1. conn' = conn /\ \A u \in Task : task'[u].conn = task[u].conn
      BY <2>1 DEF Probe, ProbeChannel, LinksTypeOK, TaskType
    <3> QED BY <3>1 DEF Kept
  <2>2. CASE CloseProbe(t)
    <3>1. /\ task[t].conn \in Conn
          /\ conn' = [conn EXCEPT ![task[t].conn] = Closed]
          /\ task'[t].conn = NoConn
      BY <2>2, ConnOfTask DEF CloseProbe, LinksOk, LinksTypeOK
    <3>2. \A d \in Conn : d # task[t].conn =>
             /\ conn'[d] = conn[d]
             /\ (\A u \in Task : task'[u].conn # d) <=> (\A u \in Task : task[u].conn # d)
      BY <1>2, <3>1, NamesAssumption DEF LinksTypeOK
    <3>3. conn'[task[t].conn].state = "closed"
      BY <3>1 DEF LinksTypeOK, Closed
    <3> QED BY <3>1, <3>2, <3>3 DEF Kept
  <2> QED BY <2>1, <2>2
<1> QED BY <1>1, <1>2, <1>3, <1>4, KeepersSame

\* A connection that is just made is awaited, and not yet kept.
LEMMA ConnectKeepers ==
    ASSUME LinksInv, KeepersOk, NEW t \in Task, Connect(t)
    PROVE  KeepersOk'
<1> USE DEF LinksInv
<1> USE BootIsATask
<1> DEFINE c == CHOOSE f \in FreeConns : TRUE
<1>1. /\ UNCHANGED <<phase, halfOpen>>
      /\ task[t].pc \in {"probe", "connect"} /\ FreeConns # {}
      /\ \E l : conn' = [conn EXCEPT ![c] = [state |-> "open", listener |-> l]]
      /\ \E pc \in {"channel", "probeChannel"} :
            task' = [task EXCEPT ![t] = [pc |-> pc, conn |-> c]]
  BY DEF Connect, Accept, process
<1>2. c \in Conn /\ conn[c].state = "closed"
  BY <1>1 DEF FreeConns
<1> HIDE DEF c
<1>3. /\ \A u \in Task : u # t => task'[u] = task[u]
      /\ \A d \in Conn : d # c => conn'[d] = conn[d]
      /\ task'[t].conn = c /\ task[t].conn = NoConn
      /\ task'[t].pc # "none" /\ task[t].pc # "none"
  BY <1>1, <1>2 DEF LinksTypeOK, LinksOk
<1>4. Running' = Running
  BY <1>3 DEF Running
<1>5. Kept' = Kept
  <2>1. \A d \in Conn : d # c =>
           ((\A u \in Task : task'[u].conn # d) <=> (\A u \in Task : task[u].conn # d))
    BY <1>3, NamesAssumption
  <2>2. c \notin Kept /\ c \notin Kept'
    BY <1>2, <1>3 DEF Kept
  <2> QED BY <1>3, <2>1, <2>2 DEF Kept
<1>6. phase = "up" => task'[Boot].pc = task[Boot].pc
  BY <1>1, <1>3 DEF KeepersOk
<1> QED BY <1>1, <1>4, <1>5, <1>6, KeepersSame

LEMMA RefuseKeepers ==
    ASSUME LinksInv, KeepersOk, NEW t \in Task, Refuse(t)
    PROVE  KeepersOk'
<1> USE DEF LinksInv
<1> USE BootIsATask
<1>1. CASE t = Boot
  BY <1>1, ExitKeepers DEF Refuse, Reject
<1>2. CASE t # Boot
  <2>1. /\ UNCHANGED <<phase, conn, halfOpen>>
        /\ task' = [task EXCEPT ![t] = Wait] /\ t \in Loop
        /\ task[t].pc \in {"probe", "connect"}
    BY <1>2 DEF Refuse, Reject, process, Task
  <2>2. /\ \A u \in Task : u # t => task'[u] = task[u]
        /\ task'[t].pc = "wait" /\ task'[t].conn = NoConn /\ task[t].conn = NoConn
    BY <2>1 DEF LinksTypeOK, LinksOk, Wait
  <2>3. Kept' = Kept /\ Running' = Running
    <3>1. Running' = Running
      BY <2>1, <2>2 DEF Running
    <3>2. \A u \in Task : task'[u].conn = task[u].conn
      BY <2>2
    <3> QED BY <2>1, <3>1, <3>2 DEF Kept
  <2> QED BY <1>2, <2>1, <2>2, <2>3, KeepersSame
<1> QED BY <1>1, <1>2

\* A loop ends with the connection that is kept from now on.
LEMMA SetChannelKeepers ==
    ASSUME LinksInv, KeepersOk, NEW t \in Task, SetChannel(t)
    PROVE  KeepersOk'
<1> USE DEF LinksInv
<1> USE BootIsATask
<1> DEFINE c == task[t].conn
<1>1. /\ UNCHANGED <<conn, halfOpen>>
      /\ task[t].pc = "channel" /\ conn[c].state = "open"
      /\ task' = [task EXCEPT ![t] = Ended]
      /\ phase' = "up"
  BY DEF SetChannel, UseChannel
<1>2. c \in Conn /\ conn[c].listener
  BY <1>1, ConnOfTask DEF LinksOk
<1>3. /\ \A u \in Task : u # t => task'[u] = task[u] /\ task[u].conn # c
      /\ task'[t].pc = "none" /\ task'[t].conn = NoConn
  BY <1>1, <1>2, NamesAssumption DEF LinksTypeOK, LinksOk, Ended
<1>4. c \notin Kept /\ Kept' = Kept \cup {c}
  <2>1. \A d \in Conn : d # c =>
           ((\A u \in Task : task'[u].conn # d) <=> (\A u \in Task : task[u].conn # d))
    BY <1>3, NamesAssumption
  <2>2. \A u \in Task : task'[u].conn # c
    BY <1>2, <1>3, NamesAssumption
  <2> QED BY <1>1, <1>2, <2>1, <2>2 DEF Kept
<1>5. Running' = Running \ {t}
  BY <1>3 DEF Running
<1> HIDE DEF c
<1>6. IsFiniteSet(Kept) /\ IsFiniteSet(Running)
      /\ Cardinality(Kept) \in Nat /\ Cardinality(Running) \in Nat
  BY FS_CardinalityType DEF KeepersOk
<1>7. IsFiniteSet(Kept') /\ Cardinality(Kept') = Cardinality(Kept) + 1
  BY <1>4, <1>6, FS_AddElement
<1>8. IsFiniteSet(Running')
      /\ Cardinality(Running') = Cardinality(Running) - (IF t \in Running THEN 1 ELSE 0)
  BY <1>5, <1>6, FS_RemoveElement
<1>9. CASE t = Boot
  <2>1. phase # "up" /\ t \notin Running
    BY <1>1, <1>9 DEF KeepersOk, Running
  <2>2. Cardinality(Kept) = 0 /\ Cardinality(Running) = 0 /\ halfOpen = 0
    BY <2>1, FS_EmptySet DEF KeepersOk
  <2> QED BY <1>1, <1>3, <1>7, <1>8, <1>9, <2>1, <2>2 DEF KeepersOk
<1>10. CASE t # Boot
  <2>1. t \in Running
    BY <1>1, <1>10 DEF Running, Task
  <2>2. phase = "up" /\ task'[Boot].pc = "none"
    BY <1>3, <1>10, <2>1 DEF KeepersOk
  <2>3. Cardinality(Kept) + Cardinality(Running) = 1 + halfOpen
    BY <2>2 DEF KeepersOk
  <2>4. halfOpen \in Nat
    BY DEF LinksTypeOK
  <2>5. Cardinality(Kept') + Cardinality(Running') = 1 + halfOpen
    BY <1>6, <1>7, <1>8, <2>1, <2>3, <2>4
  <2> QED BY <1>1, <1>7, <1>8, <2>2, <2>5 DEF KeepersOk
<1> QED BY <1>9, <1>10

\* The connection that closes was kept, and a loop is started for it; or it was
\* awaited by a loop that goes on, and the loop it starts is one too many.
LEMMA SeeCloseKeepers ==
    ASSUME LinksInv, KeepersOk, NEW c \in Conn, SeeClose(c)
    PROVE  KeepersOk'
<1> USE DEF LinksInv
<1> USE BootIsATask
<1> DEFINE rejected == {t \in Task : task[t].conn = c}
           heard == conn[c].listener
<1>1. CASE Boot \in rejected \/ (Asserting /\ c = static)
  BY <1>1, ExitKeepers DEF SeeClose
<1>2. CASE ~(Boot \in rejected \/ (Asserting /\ c = static))
  <2>1. /\ heard => Running # Loop
        /\ conn' = [conn EXCEPT ![c] = Closed]
        /\ task' = [t \in Task |-> IF t \in rejected \/ (heard /\ t = IdleLoop)
                                   THEN Wait ELSE task[t]]
        /\ halfOpen' = IF heard /\ rejected # {} THEN halfOpen + 1 ELSE halfOpen
        /\ phase' = phase
        /\ conn[c].state = "severed"
    BY <1>2 DEF SeeClose, process
  <2>2. heard => /\ IdleLoop \in Loop /\ task[IdleLoop].pc = "none"
                 /\ task[IdleLoop].conn = NoConn
    BY <2>1 DEF IdleLoop, Running, LinksOk
  <2>3. c # NoConn
    BY NamesAssumption
  <2>4. rejected \subseteq Running
    BY <1>2, <2>3 DEF Running, Task, LinksOk
  <2>5. Running' = IF heard THEN Running \cup {IdleLoop} ELSE Running
    BY <2>1, <2>2, <2>4 DEF Running, Wait
  <2>6. heard => IdleLoop \notin Running
    BY <2>2 DEF Running
  <2>7. Kept' = Kept \ {c}
    <3>1. \A d \in Conn : d # c => conn'[d] = conn[d]
      BY <2>1 DEF LinksTypeOK
    <3>2. conn'[c].state = "closed"
      BY <2>1 DEF LinksTypeOK, Closed
    <3>3. \A d \in Conn : d # c =>
             ((\A u \in Task : task'[u].conn # d) <=> (\A u \in Task : task[u].conn # d))
      <4> SUFFICES ASSUME NEW d \in Conn, d # c, NEW u \in Task
                   PROVE  task'[u].conn = d <=> task[u].conn = d
        OBVIOUS
      <4>1. d # NoConn
        BY NamesAssumption
      <4>2. CASE u \in rejected
        BY <2>1, <4>1, <4>2 DEF Wait
      <4>3. CASE heard /\ u = IdleLoop
        BY <2>1, <2>2, <4>1, <4>3 DEF Wait
      <4>4. CASE ~(u \in rejected \/ (heard /\ u = IdleLoop))
        BY <2>1, <4>4
      <4> QED BY <4>2, <4>3, <4>4
    <3> QED BY <3>1, <3>2, <3>3 DEF Kept
  <2>8. c \in Kept <=> heard /\ rejected = {}
    BY <2>1 DEF Kept
  <2>9. phase = "up" => task'[Boot].pc = "none"
    <3>1. task'[Boot] = task[Boot]
      BY <1>2, <2>1, <2>2
    <3> QED BY <3>1 DEF KeepersOk
  <2> HIDE DEF rejected, heard
  <2>10. /\ IsFiniteSet(Kept) /\ IsFiniteSet(Running) /\ halfOpen \in Nat
         /\ Cardinality(Kept) \in Nat /\ Cardinality(Running) \in Nat
    BY FS_CardinalityType DEF KeepersOk, LinksTypeOK
  <2>11. /\ IsFiniteSet(Kept')
         /\ Cardinality(Kept') = Cardinality(Kept) - (IF c \in Kept THEN 1 ELSE 0)
    BY <2>7, <2>10, FS_RemoveElement
  <2>12. /\ IsFiniteSet(Running')
         /\ Cardinality(Running') = Cardinality(Running) + (IF heard THEN 1 ELSE 0)
    <3>1. CASE heard
      BY <2>5, <2>6, <2>10, <3>1, FS_AddElement
    <3>2. CASE ~heard
      BY <2>5, <2>10, <3>2
    <3> QED BY <3>1, <3>2
  <2>13. CASE phase = "up"
    <3>1. Cardinality(Kept) + Cardinality(Running) = 1 + halfOpen
      BY <2>13 DEF KeepersOk
    <3>2. Cardinality(Kept') + Cardinality(Running') = 1 + halfOpen'
      BY <2>1, <2>8, <2>10, <2>11, <2>12, <3>1
    <3> QED BY <2>1, <2>9, <2>11, <2>12, <2>13, <3>2 DEF KeepersOk
  <2>14. CASE phase # "up"
    <3>1. Kept = {} /\ Running = {} /\ halfOpen = 0
      BY <2>14 DEF KeepersOk
    <3>2. rejected = {} /\ ~heard
      BY <2>4, <2>8, <3>1
    <3> QED BY <2>1, <2>5, <2>7, <2>11, <2>12, <2>14, <3>1, <3>2 DEF KeepersOk
  <2> QED BY <2>13, <2>14
<1> QED BY <1>1, <1>2

\* A connection that is severed counts until the process hears of it.
LEMMA SeverKeepers ==
    ASSUME LinksInv, KeepersOk, UNCHANGED <<phase, task, halfOpen>>,
           NEW S \in SUBSET Conn,
           conn' = [c \in Conn |-> IF c \in S /\ conn[c].state = "open"
                                   THEN [conn[c] EXCEPT !.state = "severed"]
                                   ELSE conn[c]]
    PROVE  KeepersOk'
<1>1. \A c \in Conn : /\ conn'[c].state = "closed" <=> conn[c].state = "closed"
                      /\ conn'[c].listener = conn[c].listener
  BY DEF LinksInv, LinksTypeOK, ConnType
<1>2. Kept' = Kept /\ Running' = Running
  BY <1>1 DEF Kept, Running
<1> QED BY <1>2, KeepersSame

LEMMA KeepersInit == Init => KeepersOk
<1> SUFFICES ASSUME Init PROVE KeepersOk
  OBVIOUS
<1>1. Kept = {} /\ Running = {} /\ phase # "up" /\ halfOpen = 0
  BY BootIsATask DEF Init, Kept, Running, Closed, Ended
<1> QED BY <1>1, FS_EmptySet DEF KeepersOk

LEMMA KeepersStep == LinksInv /\ KeepersOk /\ [Next]_vars => KeepersOk'
<1> SUFFICES ASSUME LinksInv, KeepersOk, [Next]_vars PROVE KeepersOk'
  OBVIOUS
<1>1. CASE UNCHANGED vars
  BY <1>1, KeepersCalm DEF vars, process, links
<1>2. CASE Start
  <2>1. UNCHANGED <<conn, task, halfOpen>> /\ phase' # "up" /\ phase # "up"
    BY <1>2 DEF Start, links
  <2> QED BY <2>1, KeepersSame DEF Kept, Running
<1>3. CASE Exit
  BY <1>3, ExitKeepers DEF Exit
<1>4. CASE CallHooks
  <2>1. /\ UNCHANGED <<conn, halfOpen>> /\ phase' # "up" /\ phase # "up"
        /\ task' = [task EXCEPT ![Boot].pc = "connect"]
    BY <1>4 DEF CallHooks
  <2>2. /\ \A t \in Task : task'[t].conn = task[t].conn
        /\ \A t \in Loop : task'[t] = task[t]
    BY <2>1, BootIsATask DEF LinksInv, LinksTypeOK, TaskType
  <2>3. Kept' = Kept /\ Running' = Running
    BY <2>1, <2>2 DEF Kept, Running
  <2> QED BY <2>1, <2>3, KeepersSame
<1>5. CASE AssertNext
  BY <1>5, ExitKeepers, KeepersCalm DEF AssertNext, links
<1>6. ASSUME NEW k \in Key, ConnectConsumer(k) \/ CloseConsumer(k) PROVE KeepersOk'
  BY <1>6, KeepersCalm DEF ConnectConsumer, CloseConsumer, process, links
<1>7. ASSUME NEW t \in Task, TaskStep(t) PROVE KeepersOk'
  BY <1>7, ProbeKeepers, ConnectKeepers, RefuseKeepers, SetChannelKeepers DEF TaskStep
<1>8. ASSUME NEW c \in Conn, SeeClose(c) PROVE KeepersOk'
  BY <1>8, SeeCloseKeepers
<1>9. ASSUME NEW c \in Conn, CloseConnection(c) PROVE KeepersOk'
  <2>1. conn' = [d \in Conn |-> IF d \in {c} /\ conn[d].state = "open"
                                THEN [conn[d] EXCEPT !.state = "severed"]
                                ELSE conn[d]]
    BY <1>9 DEF CloseConnection, LinksInv, LinksTypeOK
  <2>2. UNCHANGED <<phase, task, halfOpen>> /\ {c} \in SUBSET Conn
    BY <1>9 DEF CloseConnection, process
  <2> QED BY <2>1, <2>2, SeverKeepers
<1>10. CASE StopBroker
  <2>1. conn' = [d \in Conn |-> IF d \in Conn /\ conn[d].state = "open"
                                THEN [conn[d] EXCEPT !.state = "severed"]
                                ELSE conn[d]]
    BY <1>10 DEF StopBroker
  <2>2. UNCHANGED <<phase, task, halfOpen>>
    BY <1>10 DEF StopBroker
  <2> QED BY <2>1, <2>2, SeverKeepers
<1>11. CASE StartBroker
  BY <1>11, KeepersCalm DEF StartBroker, process, links
<1>12. ASSUME NEW m \in Message, Publish(m) PROVE KeepersOk'
  BY <1>12, ExitKeepers, KeepersCalm DEF Publish, ProcessUnchanged, process, links
<1>13. ASSUME NEW m \in Message, NEW s \in Slot, Deliver(s, m) PROVE KeepersOk'
  BY <1>13, KeepersCalm DEF Deliver, Push, process, links
<1>14. ASSUME NEW s \in Slot, ReceiveAck(s) PROVE KeepersOk'
  BY <1>14, KeepersCalm DEF ReceiveAck, process, links
<1>15. ASSUME NEW s \in Slot, NEW k \in Key, RunStep(s, k) PROVE KeepersOk'
  BY <1>15, KeepersCalm
     DEF RunStep, Return, Throw, Retry, Attempt, HandlerStep, process, links
<1> QED BY <1>1, <1>2, <1>3, <1>4, <1>5, <1>6, <1>7, <1>8, <1>9, <1>10, <1>11, <1>12,
           <1>13, <1>14, <1>15 DEF Next

\* A process that is up keeps one connection or runs one loop, and one more for
\* each connection that closed between amqp.connect and createChannel,
\* however many connections and loops there are (rabbitmq.service.ts:41-85).
THEOREM OneKeeperEachCorrect == Spec => []OneKeeperEach
<1>1. KeepersOk => OneKeeperEach
  BY DEF KeepersOk, OneKeeperEach
<1>2. LinksInv /\ KeepersOk /\ [Next]_vars => LinksInv' /\ KeepersOk'
  BY LinksStep, KeepersStep
<1> QED BY <1>1, <1>2, LinksInit, KeepersInit, PTL DEF Spec

-----------------------------------------------------------------------------
(* Assertions and routing                                                  *)

\* There is a channel, and what is asserted on it, only once startup is over;
\* what has been asserted is there as long as the exchange is, and the
\* exchange is there unless the broker restarted under the process.
AssertionsOk ==
    /\ static # NoConn => phase = "up"
    /\ asserted > 0 => phase = "up"
    /\ asserted > 0 /\ Exchange \in topology
         => \A i \in 1 .. asserted : Assertions[i] \in topology
    /\ asserted > 0 /\ ~stale => Exchange \in topology

LEMMA ExitAssertions == ProcessExit => AssertionsOk'
BY DEF ProcessExit, AssertionsOk

LEMMA AssertionsCalm ==
    AssertionsOk /\ UNCHANGED <<topology, phase, asserted, stale, static>> => AssertionsOk'
BY DEF AssertionsOk

\* The exchange is asserted first and only once.
LEMMA ExchangeIsFirst ==
    /\ Assertions[1] = Exchange
    /\ \A i \in 1 .. 5 : Assertions[i] = Exchange => i = 1
    /\ \A k \in Key : Queue(k) # Exchange
    /\ \A k \in Key : \E i \in 1 .. 5 : Assertions[i] = Bind(k)
<1>1. /\ Assertions[1] = Exchange
      /\ Assertions[2] = Queue("BOT-TRANSACTION") /\ Assertions[3] = Queue("BOT-STOP")
      /\ Assertions[4] = Bind("BOT-TRANSACTION") /\ Assertions[5] = Bind("BOT-STOP")
  BY DEF Assertions
<1>2. /\ \A k \in Key : Queue(k) # Exchange /\ Bind(k) # Exchange
      /\ "BOT-TRANSACTION" \in Key /\ "BOT-STOP" \in Key
  BY DEF Queue, Bind, Exchange, Key
<1>3. \A i \in 1 .. 5 : i = 1 \/ i = 2 \/ i = 3 \/ i = 4 \/ i = 5
  OBVIOUS
<1>4. \A i \in 1 .. 5 : Assertions[i] = Exchange => i = 1
  BY <1>1, <1>2, <1>3
<1>5. \A k \in Key : Assertions[4] = Bind(k) \/ Assertions[5] = Bind(k)
  BY <1>1 DEF Key
<1> QED BY <1>1, <1>2, <1>4, <1>5

LEMMA AssertNextAssertions ==
    ASSUME LinksInv, AssertionsOk, AssertNext
    PROVE  AssertionsOk'
<1>1. CASE ProcessExit
  BY <1>1, ExitAssertions
<1>2. CASE /\ topology' = topology \cup {Assertions[asserted + 1]}
           /\ asserted' = asserted + 1
           /\ UNCHANGED <<phase, stale, links>>
  <2>1. asserted \in 0 .. 4 /\ phase = "up"
    BY AssertionsAre DEF AssertNext, Asserting, LinksInv, LinksTypeOK
  <2>2. Exchange \in topology' => Exchange \in topology \/ asserted = 0
    <3>1. asserted + 1 \in 1 .. 5 /\ (asserted + 1 = 1 => asserted = 0)
      BY <2>1
    <3> QED BY <1>2, <3>1, ExchangeIsFirst
  <2>3. ASSUME Exchange \in topology', NEW i \in 1 .. asserted'
        PROVE  Assertions[i] \in topology'
    <3>1. CASE i = asserted + 1
      BY <1>2, <3>1
    <3>2. CASE i # asserted + 1
      <4>1. i \in 1 .. asserted /\ asserted > 0
        BY <1>2, <2>1, <3>2
      <4> QED BY <1>2, <2>2, <2>3, <4>1 DEF AssertionsOk
    <3> QED BY <3>1, <3>2
  <2>4. ~stale' => Exchange \in topology'
    <3>1. CASE asserted = 0
      BY <1>2, <3>1, ExchangeIsFirst
    <3>2. CASE asserted # 0
      BY <1>2, <2>1, <3>2 DEF AssertionsOk
    <3> QED BY <3>1, <3>2
  <2> QED BY <1>2, <2>1, <2>3, <2>4 DEF AssertionsOk, links
<1> QED BY <1>1, <1>2 DEF AssertNext

LEMMA AssertionsStep == LinksInv /\ AssertionsOk /\ [Next]_vars => AssertionsOk'
<1> SUFFICES ASSUME LinksInv, AssertionsOk, [Next]_vars PROVE AssertionsOk'
  OBVIOUS
<1>1. CASE UNCHANGED vars
  BY <1>1, AssertionsCalm DEF vars, process, links, server
<1>2. CASE Start
  BY <1>2 DEF Start, links, server, AssertionsOk
<1>3. CASE Exit
  BY <1>3, ExitAssertions DEF Exit
<1>4. CASE CallHooks
  BY <1>4 DEF CallHooks, server, AssertionsOk
<1>5. CASE AssertNext
  BY <1>5, AssertNextAssertions
<1>6. ASSUME NEW k \in Key, ConnectConsumer(k) \/ CloseConsumer(k) PROVE AssertionsOk'
  <2>1. CASE ConnectConsumer(k)
    <3>1. Exchange \in topology' <=> Exchange \in topology
      BY <2>1, ExchangeIsFirst DEF ConnectConsumer
    <3> QED BY <2>1, <3>1 DEF ConnectConsumer, process, links, AssertionsOk
  <2>2. CASE CloseConsumer(k)
    BY <2>2, AssertionsCalm DEF CloseConsumer, process, links, server
  <2> QED BY <1>6, <2>1, <2>2
<1>7. ASSUME NEW t \in Task, TaskStep(t) PROVE AssertionsOk'
  <2>1. CASE Probe(t) \/ Connect(t) \/ ProbeChannel(t) \/ CloseProbe(t)
    BY <2>1, AssertionsCalm
       DEF Probe, Connect, Accept, ProbeChannel, CloseProbe, process, server
  <2>2. CASE Refuse(t)
    BY <2>2, ExitAssertions, AssertionsCalm DEF Refuse, Reject, process, server
  <2>3. CASE SetChannel(t)
    BY <2>3 DEF SetChannel, UseChannel, server, AssertionsOk
  <2> QED BY <1>7, <2>1, <2>2, <2>3 DEF TaskStep
<1>8. ASSUME NEW c \in Conn, SeeClose(c) PROVE AssertionsOk'
  BY <1>8, ExitAssertions, AssertionsCalm DEF SeeClose, process, server
<1>9. ASSUME NEW c \in Conn, CloseConnection(c) PROVE AssertionsOk'
  BY <1>9, AssertionsCalm DEF CloseConnection, process, server
<1>10. CASE StopBroker
  BY <1>10 DEF StopBroker, AssertionsOk
<1>11. CASE StartBroker
  BY <1>11, AssertionsCalm DEF StartBroker, process, links
<1>12. ASSUME NEW m \in Message, Publish(m) PROVE AssertionsOk'
  BY <1>12, ExitAssertions, AssertionsCalm DEF Publish, ProcessUnchanged, process, links, server
<1>13. ASSUME NEW m \in Message, NEW s \in Slot, Deliver(s, m) PROVE AssertionsOk'
  BY <1>13, AssertionsCalm DEF Deliver, Push, process, links, server
<1>14. ASSUME NEW s \in Slot, ReceiveAck(s) PROVE AssertionsOk'
  BY <1>14, AssertionsCalm DEF ReceiveAck, process, links, server
<1>15. ASSUME NEW s \in Slot, NEW k \in Key, RunStep(s, k) PROVE AssertionsOk'
  BY <1>15, AssertionsCalm
     DEF RunStep, Return, Throw, Retry, Attempt, HandlerStep, process, links, server
<1> QED BY <1>1, <1>2, <1>3, <1>4, <1>5, <1>6, <1>7, <1>8, <1>9, <1>10, <1>11, <1>12,
           <1>13, <1>14, <1>15 DEF Next

\* What a publish finds when its message is lost for want of a route
LEMMA PublishRouted ==
    ASSUME LinksInv, AssertionsOk, key \in [Message -> Key], fate \in [Message -> FateType],
           NEW n \in Message, Publish(n), NEW m \in Message, fate'[m] # fate[m]
    PROVE  /\ fate'[m] = "unrouted" => Asserting
           /\ fate'[m] = "noExchange" => stale \/ (Asserting /\ asserted = 0)
<1>1. m = n
  BY DEF Publish
<1>2. asserted \in 0 .. 5 /\ Len(Assertions) = 5
  BY AssertionsAre DEF LinksInv, LinksTypeOK
<1>3. ASSUME fate'[m] = "unrouted"
      PROVE  Asserting
  <2>1. ChannelOpen /\ Exchange \in topology /\ Bind(key[m]) \notin topology
    BY <1>1, <1>3 DEF Publish
  <2>2. phase = "up"
    BY <2>1 DEF ChannelOpen, AssertionsOk
  <2>3. asserted # 5
    BY <2>1, ExchangeIsFirst DEF AssertionsOk
  <2> QED BY <1>2, <2>2, <2>3 DEF Asserting
<1>4. ASSUME fate'[m] = "noExchange", ~stale
      PROVE  Asserting /\ asserted = 0
  <2>1. ChannelOpen /\ Exchange \notin topology
    BY <1>1, <1>4 DEF Publish
  <2>2. phase = "up" /\ ~(asserted > 0)
    BY <1>4, <2>1 DEF ChannelOpen, AssertionsOk
  <2> QED BY <1>2, <2>2 DEF Asserting
<1> QED BY <1>3, <1>4

LEMMA RoutedStep ==
    ASSUME LinksInv, AssertionsOk, key \in [Message -> Key], fate \in [Message -> FateType],
           [Next]_vars, NEW m \in Message, fate'[m] # fate[m]
    PROVE  /\ fate'[m] = "unrouted" => Asserting
           /\ fate'[m] = "noExchange" => stale \/ (Asserting /\ asserted = 0)
<1>1. CASE \E n \in Message : Publish(n)
  BY <1>1, PublishRouted
<1>2. CASE StopBroker
  BY <1>2 DEF StopBroker
<1>3. CASE \E s \in Slot : ReceiveAck(s)
  BY <1>3 DEF ReceiveAck
<1>4. CASE ~(\E n \in Message : Publish(n)) /\ ~StopBroker /\ ~(\E s \in Slot : ReceiveAck(s))
  <2>1. fate' = fate
    BY <1>4 DEF Next, vars, Start, Exit, CallHooks, AssertNext, ConnectConsumer, CloseConsumer,
                TaskStep, Probe, Connect, Accept, Refuse, Reject, ProbeChannel, CloseProbe,
                SetChannel, UseChannel, SeeClose, CloseConnection, StartBroker,
                Deliver, Push, RunStep, Return, Throw, Retry, Attempt, HandlerStep
  <2> QED BY <2>1
<1> QED BY <1>1, <1>2, <1>3, <1>4


-----------------------------------------------------------------------------
(* Deliveries                                                              *)

\* Only the handler of the message's own key runs, and nothing is acknowledged
\* before it is through, or twice.
GoodSlot(r) ==
    /\ r \in SlotType
    /\ r.state = "free" => r.acks = 0 /\ \A k \in Key : r.run[k].pc = "skip"
    /\ r.state # "free" =>
          /\ r.msg \in Message
          /\ \A k \in Key : k # key[r.msg] => r.run[k].pc = "skip"
          /\ r.run[key[r.msg]].pc # "skip"
          /\ r.acks = 0 \/ (r.acks = 1 /\ r.run[key[r.msg]].pc = "done")

SlotsOk ==
    /\ DOMAIN slot = Slot /\ slot = [s \in Slot |-> slot[s]]
    /\ \A s \in Slot : GoodSlot(slot[s])

\* A message is in one delivery at most, and in none when the broker no longer
\* has it.
CarrierOk ==
    /\ \A s \in Slot : Unacked(s) => fate[slot[s].msg] = "held"
    /\ \A s \in Slot, t \in Slot :
          Unacked(s) /\ Unacked(t) /\ slot[s].msg = slot[t].msg => s = t

SlotsInv == ServerTypeOK /\ SlotsOk /\ CarrierOk

LEMMA FreeIsGood == GoodSlot(FreeSlot)
BY EndedTypes DEF GoodSlot, FreeSlot, Skipped

\* A delivery that is over is forgotten, any other one stays as it is.
LEMMA TidyGood ==
    ASSUME NEW r, GoodSlot(r)
    PROVE  /\ GoodSlot(Tidy(r))
           /\ r.state = "live" => Tidy(r) = r
           /\ r.state # "live" => Tidy(r).state # "live"
<1>1. FreeSlot.state = "free"
  BY DEF FreeSlot
<1> QED BY <1>1, FreeIsGood DEF Tidy

\* One delivery goes on, of the message it was of, or ends.
LEMMA SlotChange ==
    ASSUME SlotsInv, UNCHANGED <<key, fate>>, ServerTypeOK',
           NEW s \in Slot, NEW r, GoodSlot(r),
           r.state = "live" => Unacked(s) /\ r.msg = slot[s].msg,
           slot' = [slot EXCEPT ![s] = Tidy(r)]
    PROVE  SlotsInv'
<1> USE DEF SlotsInv
<1>1. /\ \A t \in Slot : t # s => slot'[t] = slot[t]
      /\ slot'[s] = Tidy(r)
      /\ DOMAIN slot' = Slot /\ slot' = [t \in Slot |-> slot'[t]]
  BY DEF SlotsOk
<1>2. SlotsOk'
  BY <1>1, TidyGood DEF SlotsOk, GoodSlot
<1>3. \A t \in Slot : Unacked(t)' => Unacked(t) /\ slot'[t].msg = slot[t].msg
  BY <1>1, TidyGood DEF Unacked
<1>4. CarrierOk'
  BY <1>3 DEF CarrierOk, Unacked
<1> QED BY <1>2, <1>4

\* All deliveries on some channels come to nothing, or the process ends.
LEMMA SlotsVoid ==
    ASSUME SlotsInv, UNCHANGED key, ServerTypeOK', NEW S,
           \/ slot' = [s \in Slot |-> FreeSlot]
           \/ slot' = slot /\ UNCHANGED fate
           \/ slot' = Void(S) /\ (Slot \subseteq S \/ UNCHANGED fate)
    PROVE  SlotsInv'
<1> USE DEF SlotsInv
<1>1. CASE slot' = [s \in Slot |-> FreeSlot]
  <2>1. \A s \in Slot : slot'[s] = FreeSlot /\ ~Unacked(s)'
    BY <1>1 DEF FreeSlot, Unacked
  <2>2. SlotsOk'
    BY <1>1, <2>1, FreeIsGood DEF SlotsOk, GoodSlot
  <2> QED BY <2>1, <2>2 DEF CarrierOk
<1>2. CASE slot' = slot /\ UNCHANGED fate
  BY <1>2 DEF SlotsOk, CarrierOk, GoodSlot, Unacked
<1>3. CASE slot' = Void(S) /\ (Slot \subseteq S \/ UNCHANGED fate)
  <2>1. ASSUME NEW s \in Slot
        PROVE  /\ GoodSlot(slot'[s])
               /\ Unacked(s)' => Unacked(s) /\ s \notin S /\ slot'[s] = slot[s]
    <3>1. CASE s \in S /\ Unacked(s)
      <4> DEFINE r == [slot[s] EXCEPT !.state = "void"]
      <4>1. /\ r \in SlotType /\ r.state = "void" /\ r.msg = slot[s].msg
            /\ r.acks = slot[s].acks /\ r.run = slot[s].run
        BY DEF SlotsOk, GoodSlot, SlotType
      <4>2. GoodSlot(r)
        BY <3>1, <4>1 DEF SlotsOk, GoodSlot, Unacked
      <4>3. slot'[s] = Tidy(r)
        BY <1>3, <3>1 DEF Void
      <4> HIDE DEF r
      <4> QED BY <4>1, <4>2, <4>3, TidyGood DEF Unacked
    <3>2. CASE ~(s \in S /\ Unacked(s))
      <4>1. slot'[s] = slot[s]
        BY <1>3, <3>2 DEF Void
      <4> QED BY <3>2, <4>1 DEF SlotsOk, Unacked
    <3> QED BY <3>1, <3>2
  <2>2. SlotsOk'
    <3>1. DOMAIN slot' = Slot /\ slot' = [s \in Slot |-> slot'[s]]
      BY <1>3 DEF Void
    <3> QED BY <2>1, <3>1 DEF SlotsOk, GoodSlot
  <2>3. CarrierOk'
    BY <1>3, <2>1 DEF CarrierOk, Unacked
  <2> QED BY <2>2, <2>3
<1> QED BY <1>1, <1>2, <1>3

-----------------------------------------------------------------------------
(* The way of a message                                                    *)

\* The stage of a message, case by case
StageCasesOk ==
    \A m \in Message :
        /\ fate[m] = "unsent" => StageOf(m) = "unsent"
        /\ fate[m] = "acked"  => StageOf(m) = "acknowledged"
        /\ fate[m] = "held" /\ Carrier(m) = {} => StageOf(m) = "waiting"
        /\ \A s \in Carrier(m) :
              /\ fate[m] = "held"
              /\ StageOf(m) = IF slot[s].run[key[m]].pc = "done" THEN "ended" ELSE "taken"
        /\ fate[m] \notin {"unsent", "acked", "held"} => StageOf(m) = "lost"

LEMMA StageCases == SlotsInv => StageCasesOk
<1> SUFFICES ASSUME SlotsInv, NEW m \in Message
             PROVE  /\ fate[m] = "unsent" => StageOf(m) = "unsent"
                    /\ fate[m] = "acked"  => StageOf(m) = "acknowledged"
                    /\ fate[m] = "held" /\ Carrier(m) = {} => StageOf(m) = "waiting"
                    /\ \A s \in Carrier(m) :
                          /\ fate[m] = "held"
                          /\ StageOf(m) = IF slot[s].run[key[m]].pc = "done" THEN "ended" ELSE "taken"
                    /\ fate[m] \notin {"unsent", "acked", "held"} => StageOf(m) = "lost"
  BY DEF StageCasesOk
<1>1. m \in Waiting <=> fate[m] = "held" /\ Carrier(m) = {}
  BY DEF Waiting, Carrier
<1>2. \A s \in Carrier(m) : fate[m] = "held" /\ Carrier(m) = {s}
  BY DEF Carrier, SlotsInv, CarrierOk
<1>3. CASE fate[m] = "held" /\ Carrier(m) = {}
  BY <1>1, <1>3 DEF StageOf
<1>4. ASSUME NEW s \in Carrier(m)
      PROVE  StageOf(m) = IF slot[s].run[key[m]].pc = "done" THEN "ended" ELSE "taken"
  <2>1. fate[m] = "held" /\ Carrier(m) = {s} /\ m \notin Waiting
    BY <1>1, <1>2, <1>4
  <2> QED BY <2>1 DEF StageOf
<1>5. CASE fate[m] # "held"
  BY <1>1, <1>2, <1>5 DEF StageOf
<1> QED BY <1>2, <1>3, <1>4, <1>5

LEMMA StageCasesNext == SlotsInv' => StageCasesOk'
BY StageCases, PTL

Stages == [m \in Message |-> StageOf(m)]

\* What a step of the program is to a message
Moves(m, from, to) ==
    /\ StageOf(m) = from /\ StageOf(m)' = to
    /\ \A n \in Message : n # m => StageOf(n)' = StageOf(n)

LEMMA MoveIsMove ==
    ASSUME NEW m \in Message, NEW from, NEW to, Moves(m, from, to)
    PROVE  Messages!Move(m, from, to)
BY DEF Moves, Messages!Move

Interrupted(m) ==
    \/ StageOf(m)' = StageOf(m)
    \/ StageOf(m) \in {"taken", "ended"} /\ StageOf(m)' = "waiting"
    \/ StageOf(m) # "acknowledged" /\ StageOf(m)' = "lost"

LEMMA InterruptIsNext ==
    ASSUME \A m \in Message : Interrupted(m) /\ StageOf(m)' \in Messages!Stage
    PROVE  Messages!Next
<1>1. Messages!Interrupt
  BY DEF Interrupted, Messages!Interrupt
<1> QED BY <1>1 DEF Messages!Next

LEMMA SameIsStutter ==
    ASSUME \A m \in Message : StageOf(m)' = StageOf(m)
    PROVE  Stages' = Stages
BY DEF Stages

\* A step that changes neither key nor fate, and leaves each delivery as it is
\* or lets go of it, sends messages back.
LEMMA LetGo ==
    ASSUME SlotsInv, SlotsInv', UNCHANGED <<key, fate>>,
           \A s \in Slot : Unacked(s)' => Unacked(s) /\ slot'[s] = slot[s]
    PROVE  Messages!Next
<1> SUFFICES ASSUME NEW m \in Message
             PROVE  Interrupted(m) /\ StageOf(m)' \in Messages!Stage
  BY InterruptIsNext
<1> USE DEF StageCasesOk
<1>1. StageCasesOk /\ StageCasesOk'
  BY StageCases, StageCasesNext
<1>2. \A s \in Carrier(m)' : s \in Carrier(m) /\ slot'[s] = slot[s]
  BY DEF Carrier
<1>3. CASE \E s \in Carrier(m)' : TRUE
  <2>1. PICK s \in Carrier(m)' : TRUE
    BY <1>3
  <2>2. StageOf(m)' = StageOf(m) /\ StageOf(m) \in {"taken", "ended"}
    BY <1>1, <1>2, <2>1
  <2> QED BY <2>2 DEF Interrupted, Messages!Stage
<1>4. CASE Carrier(m)' = {}
  <2>1. CASE Carrier(m) = {}
    BY <1>1, <1>4, <2>1 DEF Interrupted, Messages!Stage
  <2>2. CASE Carrier(m) # {}
    <3>1. StageOf(m) \in {"taken", "ended"} /\ fate[m] = "held"
      BY <1>1, <2>2
    <3>2. StageOf(m)' = "waiting"
      BY <1>1, <1>4, <3>1
    <3> QED BY <3>1, <3>2 DEF Interrupted, Messages!Stage
  <2> QED BY <2>1, <2>2
<1> QED BY <1>3, <1>4

-----------------------------------------------------------------------------
(* Steps                                                                   *)

\* What has to be shown of a step, given the types of the links
Steps == SlotsInv' /\ (Messages!Next \/ Stages' = Stages)

\* Steps of connections, loops and consumers, and the end of the process
LEMMA LetGoSteps ==
    ASSUME SlotsInv, UNCHANGED <<key, fate>>, ServerTypeOK', NEW S,
           \/ slot' = [s \in Slot |-> FreeSlot]
           \/ slot' = slot
           \/ slot' = Void(S)
    PROVE  Steps
<1>1. SlotsInv'
  BY SlotsVoid
<1>2. \A s \in Slot : Unacked(s)' => Unacked(s) /\ slot'[s] = slot[s]
  <2>1. CASE slot' = [s \in Slot |-> FreeSlot]
    BY <2>1 DEF Unacked, FreeSlot
  <2>2. CASE slot' = slot
    BY <2>2 DEF Unacked
  <2>3. CASE slot' = Void(S)
    <3> SUFFICES ASSUME NEW s \in Slot, Unacked(s)'
                 PROVE  Unacked(s) /\ slot'[s] = slot[s]
      OBVIOUS
    <3>1. CASE s \in S /\ Unacked(s)
      <4> DEFINE r == [slot[s] EXCEPT !.state = "void"]
      <4>1. r.state = "void" /\ slot'[s] = Tidy(r)
        BY <2>3, <3>1 DEF Void, SlotsInv, SlotsOk, GoodSlot, SlotType
      <4>2. Tidy(r).state # "live"
        BY <4>1 DEF Tidy, FreeSlot
      <4> QED BY <4>1, <4>2 DEF Unacked
    <3>2. CASE ~(s \in S /\ Unacked(s))
      BY <2>3, <3>2 DEF Void, Unacked
    <3> QED BY <3>1, <3>2
  <2> QED BY <2>1, <2>2, <2>3
<1> QED BY <1>1, <1>2, LetGo DEF Steps

\* A message is published: it waits, or it is lost, with the process perhaps.
LEMMA PublishSteps ==
    ASSUME SlotsInv, NEW m \in Message, Publish(m)
    PROVE  Steps
<1> USE DEF SlotsInv
<1>1. PICK f \in FateType \ {"unsent", "acked"} :
         /\ fate' = [fate EXCEPT ![m] = f]
         /\ slot' = slot \/ slot' = [s \in Slot |-> FreeSlot]
         /\ f = "held" => slot' = slot
  <2>1. slot' = slot \/ slot' = [s \in Slot |-> FreeSlot]
    BY DEF Publish, ProcessUnchanged, ProcessExit
  <2> QED BY <2>1 DEF Publish, ProcessUnchanged, FateType
<1>2. /\ UNCHANGED <<environment, key, broker, topology, faults>>
      /\ consuming' \subseteq Key /\ fate[m] = "unsent"
  BY DEF Publish, config, server, ProcessUnchanged, ProcessExit, ServerTypeOK
<1>3. ServerTypeOK'
  BY <1>1, <1>2 DEF ServerTypeOK
<1>4. \A s \in Slot : Unacked(s) => slot[s].msg # m
  BY <1>2 DEF CarrierOk
<1>5. SlotsInv'
  <2>1. CASE slot' = [s \in Slot |-> FreeSlot]
    BY <1>2, <1>3, <2>1, SlotsVoid
  <2>2. CASE slot' = slot
    <3>1. SlotsOk'
      BY <1>2, <2>2 DEF SlotsOk, GoodSlot
    <3>2. \A s \in Slot : Unacked(s) => slot[s].msg \in Message
      BY DEF SlotsOk, GoodSlot, Unacked
    <3>3. CarrierOk'
      BY <1>1, <1>4, <2>2, <3>2 DEF CarrierOk, Unacked, ServerTypeOK
    <3> QED BY <1>3, <3>1, <3>3
  <2> QED BY <1>1, <2>1, <2>2
<1>6. StageCasesOk /\ StageCasesOk'
  BY <1>5, StageCases, StageCasesNext
<1>7. /\ fate'[m] = f /\ \A n \in Message : n # m => fate'[n] = fate[n]
      /\ Carrier(m) = {}
      /\ \A n \in Message : Carrier(n)' = {} \/ (Carrier(n)' = Carrier(n) /\ slot' = slot)
  BY <1>1, <1>4 DEF ServerTypeOK, Carrier, Unacked, FreeSlot
<1>8. StageOf(m) = "unsent"
  BY <1>2, <1>6 DEF StageCasesOk
<1>9. CASE f = "held"
  <2>1. slot' = slot /\ Carrier(m)' = {}
    BY <1>1, <1>7, <1>9
  <2>2. StageOf(m)' = "waiting"
    BY <1>6, <1>7, <1>9, <2>1 DEF StageCasesOk
  <2>3. \A n \in Message : n # m => StageOf(n)' = StageOf(n)
    <3> SUFFICES ASSUME NEW n \in Message, n # m PROVE StageOf(n)' = StageOf(n)
      OBVIOUS
    <3>1. Carrier(n)' = Carrier(n) /\ fate'[n] = fate[n] /\ key' = key
      BY <1>2, <1>7, <2>1 DEF Carrier, Unacked
    <3>2. CASE Carrier(n) = {}
      BY <1>6, <3>1, <3>2 DEF StageCasesOk
    <3>3. CASE Carrier(n) # {}
      BY <1>6, <2>1, <3>1, <3>3 DEF StageCasesOk
    <3> QED BY <3>2, <3>3
  <2>4. Messages!Publish(m)
    BY <1>8, <2>2, <2>3, MoveIsMove DEF Moves, Messages!Publish
  <2> QED BY <1>5, <2>4 DEF Steps, Messages!Next
<1>10. CASE f # "held"
  <2>1. StageOf(m)' = "lost"
    BY <1>1, <1>6, <1>7, <1>10 DEF StageCasesOk
  <2>2. ASSUME NEW n \in Message
        PROVE  Interrupted(n) /\ StageOf(n)' \in Messages!Stage
    <3>1. CASE n = m
      BY <1>8, <2>1, <3>1 DEF Interrupted, Messages!Stage
    <3>2. CASE n # m
      <4>1. fate'[n] = fate[n] /\ key' = key
        BY <1>2, <1>7, <3>2
      <4>2. CASE Carrier(n)' # {}
        <5>1. PICK s \in Carrier(n)' : TRUE
          BY <4>2
        <5>2. s \in Carrier(n) /\ slot' = slot
          BY <1>7, <5>1
        <5>3. StageOf(n)' = StageOf(n) /\ StageOf(n) \in {"taken", "ended"}
          BY <1>6, <4>1, <5>1, <5>2 DEF StageCasesOk
        <5> QED BY <5>3 DEF Interrupted, Messages!Stage
      <4>3. CASE Carrier(n)' = {} /\ Carrier(n) # {}
        <5>1. StageOf(n) \in {"taken", "ended"} /\ fate[n] = "held"
          BY <1>6, <4>3 DEF StageCasesOk
        <5>2. StageOf(n)' = "waiting"
          BY <1>6, <4>1, <4>3, <5>1 DEF StageCasesOk
        <5> QED BY <5>1, <5>2 DEF Interrupted, Messages!Stage
      <4>4. CASE Carrier(n)' = {} /\ Carrier(n) = {}
        BY <1>6, <4>1, <4>4 DEF StageCasesOk, Interrupted, Messages!Stage
      <4> QED BY <4>2, <4>3, <4>4
    <3> QED BY <3>1, <3>2
  <2>3. Messages!Next
    BY <2>2, InterruptIsNext
  <2> QED BY <1>5, <2>3 DEF Steps
<1> QED BY <1>9, <1>10

\* The broker goes down, and every message it held with it.
LEMMA StopBrokerSteps ==
    ASSUME SlotsInv, StopBroker
    PROVE  Steps
<1> USE DEF SlotsInv
<1>1. /\ fate' = [m \in Message |-> IF fate[m] = "held" THEN "broker" ELSE fate[m]]
      /\ slot' = Void(Slot) /\ broker' = "down" /\ topology' = {} /\ consuming' = {}
      /\ faults < MaxFaults /\ faults' = faults + 1
      /\ UNCHANGED <<environment, key>>
  BY DEF StopBroker, config
<1>2. ServerTypeOK'
  BY <1>1, FaultsAssumption DEF ServerTypeOK, FateType
<1>3. SlotsInv'
  BY <1>1, <1>2, SlotsVoid
<1>4. StageCasesOk /\ StageCasesOk'
  BY <1>3, StageCases, StageCasesNext
<1>5. ASSUME NEW m \in Message
      PROVE  Interrupted(m) /\ StageOf(m)' \in Messages!Stage
  <2>1. CASE fate[m] = "held"
    <3>1. StageOf(m)' = "lost" /\ StageOf(m) \in {"waiting", "taken", "ended"}
      BY <1>1, <1>4, <2>1 DEF StageCasesOk
    <3> QED BY <3>1 DEF Interrupted, Messages!Stage
  <2>2. CASE fate[m] # "held"
    <3>1. fate'[m] = fate[m]
      BY <1>1, <2>2
    <3> QED BY <1>4, <2>2, <3>1 DEF StageCasesOk, Interrupted, Messages!Stage
  <2> QED BY <2>1, <2>2
<1> QED BY <1>3, <1>5, InterruptIsNext DEF Steps

\* A message that waits is delivered, to both subscribers.
LEMMA DeliverSteps ==
    ASSUME SlotsInv, NEW m \in Message, NEW s \in Slot, Deliver(s, m)
    PROVE  Steps
<1> USE DEF SlotsInv
<1> DEFINE r == [state |-> "live", msg |-> m, acks |-> 0,
                 run |-> [k \in Key |-> Intercept(k, m)]]
<1>1. /\ m \in Waiting /\ slot[s].state = "free"
      /\ slot' = [slot EXCEPT ![s] = r]
      /\ UNCHANGED <<environment, key, broker, topology, fate, consuming, faults>>
  BY DEF Deliver, Push, config, server
<1>2. /\ fate[m] = "held" /\ \A t \in Slot : Unacked(t) => slot[t].msg # m
      /\ key[m] \in Key
  BY <1>1 DEF Waiting, ServerTypeOK
<1>3. GoodSlot(r)
  <2>1. \A k \in Key : /\ Intercept(k, m) \in RunType
                       /\ Intercept(k, m).pc = IF k = key[m] THEN "run" ELSE "skip"
    BY RetryAssumption DEF Intercept, Skipped, RunType
  <2> QED BY <1>2, <2>1 DEF GoodSlot, SlotType
<1>4. /\ r.state = "live" /\ r.msg = m /\ r.run[key[m]].pc = "run"
  BY <1>2 DEF Intercept, Skipped
<1> HIDE DEF r
<1>5. /\ slot'[s] = r /\ \A t \in Slot : t # s => slot'[t] = slot[t]
      /\ DOMAIN slot' = Slot /\ slot' = [t \in Slot |-> slot'[t]]
  BY <1>1 DEF SlotsOk
<1>6. SlotsInv'
  <2>1. ServerTypeOK'
    BY <1>1 DEF ServerTypeOK
  <2>2. SlotsOk'
    BY <1>1, <1>3, <1>5 DEF SlotsOk, GoodSlot
  <2>3. CarrierOk'
    BY <1>1, <1>2, <1>4, <1>5 DEF CarrierOk, Unacked
  <2> QED BY <2>1, <2>2, <2>3
<1>7. StageCasesOk /\ StageCasesOk'
  BY <1>6, StageCases, StageCasesNext
<1>8. Carrier(m) = {} /\ s \in Carrier(m)'
  BY <1>2, <1>4, <1>5 DEF Carrier, Unacked
<1>9. StageOf(m) = "waiting"
  BY <1>2, <1>7, <1>8 DEF StageCasesOk
<1>10. StageOf(m)' = "taken"
  BY <1>1, <1>4, <1>5, <1>7, <1>8 DEF StageCasesOk
<1>11. ASSUME NEW n \in Message, n # m PROVE StageOf(n)' = StageOf(n)
  <2>1. /\ Carrier(n)' = Carrier(n) /\ fate'[n] = fate[n] /\ key' = key
        /\ \A t \in Carrier(n) : slot'[t] = slot[t]
    BY <1>1, <1>4, <1>5, <1>11 DEF Carrier, Unacked
  <2>2. CASE Carrier(n) = {}
    BY <1>7, <2>1, <2>2 DEF StageCasesOk
  <2>3. CASE Carrier(n) # {}
    BY <1>7, <2>1, <2>3 DEF StageCasesOk
  <2> QED BY <2>2, <2>3
<1>12. Messages!Take(m)
  BY <1>9, <1>10, <1>11, MoveIsMove DEF Moves, Messages!Take
<1> QED BY <1>6, <1>12 DEF Steps, Messages!Next

\* A handler goes on, is through, or gives up.
LEMMA HandlerSteps ==
    ASSUME SlotsInv, NEW s \in Slot, NEW r, GoodSlot(r), HandlerStep(s, r),
           slot[s].state # "free", slot[s].run[key[slot[s].msg]].pc # "done",
           r.state = slot[s].state, r.msg = slot[s].msg
    PROVE  Steps
<1> USE DEF SlotsInv
<1>1. /\ slot' = [slot EXCEPT ![s] = Tidy(r)]
      /\ UNCHANGED <<environment, key, broker, topology, fate, consuming, faults>>
  BY DEF HandlerStep, config, server
<1>2. ServerTypeOK'
  BY <1>1 DEF ServerTypeOK
<1>3. SlotsInv'
  BY <1>1, <1>2, SlotChange DEF Unacked
<1>4. StageCasesOk /\ StageCasesOk'
  BY <1>3, StageCases, StageCasesNext
<1>5. PICK m \in Message : m = slot[s].msg
  BY DEF SlotsOk, GoodSlot
<1>6. /\ \A t \in Slot : t # s => slot'[t] = slot[t]
      /\ slot'[s] = Tidy(r)
      /\ Unacked(s)' <=> Unacked(s)
      /\ Unacked(s) => slot'[s] = r
  BY <1>1, TidyGood DEF SlotsOk, Unacked
<1>7. \A n \in Message : Carrier(n)' = Carrier(n)
  BY <1>6 DEF Carrier, Unacked
<1>8. \A n \in Message : \A t \in Carrier(n) : t # s => slot'[t] = slot[t]
  BY <1>6 DEF Carrier
<1>9. ASSUME NEW n \in Message, s \notin Carrier(n) PROVE StageOf(n)' = StageOf(n)
  <2>1. CASE Carrier(n) = {}
    BY <1>1, <1>4, <1>7, <2>1 DEF StageCasesOk
  <2>2. CASE Carrier(n) # {}
    BY <1>1, <1>4, <1>7, <1>8, <1>9, <2>2 DEF StageCasesOk
  <2> QED BY <2>1, <2>2
<1>10. CASE ~Unacked(s)
  <2>1. \A n \in Message : s \notin Carrier(n)
    BY <1>10 DEF Carrier
  <2> QED BY <1>3, <1>9, <2>1, SameIsStutter DEF Steps
<1>11. CASE Unacked(s)
  <2>1. s \in Carrier(m) /\ \A n \in Message : n # m => s \notin Carrier(n)
    BY <1>5, <1>11 DEF Carrier
  <2>2. StageOf(m) = "taken"
    BY <1>4, <1>5, <2>1 DEF StageCasesOk
  <2>3. StageOf(m)' = IF r.run[key[m]].pc = "done" THEN "ended" ELSE "taken"
    BY <1>1, <1>4, <1>5, <1>6, <1>7, <1>11, <2>1 DEF StageCasesOk
  <2>4. CASE r.run[key[m]].pc = "done"
    <3>1. Messages!End(m)
      BY <1>5, <1>9, <2>1, <2>2, <2>3, <2>4, MoveIsMove DEF Moves, Messages!End
    <3> QED BY <1>3, <1>5, <3>1 DEF Steps, Messages!Next
  <2>5. CASE r.run[key[m]].pc # "done"
    <3>1. \A n \in Message : StageOf(n)' = StageOf(n)
      BY <1>9, <2>1, <2>2, <2>3, <2>5
    <3> QED BY <1>3, <3>1, SameIsStutter DEF Steps
  <2> QED BY <2>4, <2>5
<1> QED BY <1>10, <1>11

\* What the three steps of a handler make of its delivery
LEMMA RunSteps ==
    ASSUME SlotsInv, NEW s \in Slot, NEW k \in Key, RunStep(s, k)
    PROVE  Steps
<1> USE DEF SlotsInv
<1>1. slot[s].run[k].pc \in {"run", "pause"}
  BY DEF RunStep, Return, Throw, Retry, Attempt
<1>2. /\ slot[s].state # "free" /\ slot[s].msg \in Message /\ k = key[slot[s].msg]
      /\ slot[s].acks = 0 /\ slot[s] \in SlotType /\ slot[s].run[k] \in RunType
      /\ \A j \in Key : j # k => slot[s].run[j].pc = "skip"
  BY <1>1 DEF SlotsOk, GoodSlot, SlotType
<1>3. ASSUME NEW run \in RunType, run.pc # "skip",
             HandlerStep(s, [slot[s] EXCEPT !.run[k] = run])
      PROVE  Steps
  <2> DEFINE r == [slot[s] EXCEPT !.run[k] = run]
  <2>1. /\ r \in SlotType /\ r.state = slot[s].state /\ r.msg = slot[s].msg
        /\ r.acks = 0 /\ r.run[k] = run
        /\ \A j \in Key : j # k => r.run[j] = slot[s].run[j]
    BY <1>2 DEF SlotType
  <2> HIDE DEF r
  <2>2. GoodSlot(r)
    BY <1>2, <1>3, <2>1 DEF GoodSlot
  <2>3. HandlerStep(s, r)
    BY <1>3 DEF r
  <2> QED BY <1>1, <1>2, <2>1, <2>2, <2>3, HandlerSteps
<1>4. ASSUME HandlerStep(s, Ack(GivesUp(s, k)))
      PROVE  Steps
  <2> DEFINE b == [slot[s] EXCEPT !.run[k].pc = "done"]
             r == IF b.state = "void" THEN b ELSE [b EXCEPT !.acks = @ + 1]
  <2>1. /\ b \in SlotType /\ b.state = slot[s].state /\ b.msg = slot[s].msg
        /\ b.acks = 0 /\ b.run[k].pc = "done"
        /\ \A j \in Key : j # k => b.run[j] = slot[s].run[j]
    <3>1. [slot[s].run[k] EXCEPT !.pc = "done"] \in RunType
      BY <1>2 DEF RunType
    <3>2. b = [slot[s] EXCEPT !.run[k] = [slot[s].run[k] EXCEPT !.pc = "done"]]
      OBVIOUS
    <3>3. [slot[s].run[k] EXCEPT !.pc = "done"].pc = "done"
      BY <1>2 DEF RunType
    <3> HIDE DEF b
    <3> QED BY <1>2, <3>1, <3>2, <3>3 DEF SlotType
  <2> HIDE DEF b
  <2>2. /\ r \in SlotType /\ r.state = b.state /\ r.msg = b.msg
        /\ r.acks \in {0, 1} /\ r.run = b.run
    BY <2>1 DEF SlotType
  <2>3. HandlerStep(s, r)
    BY <1>4 DEF Ack, GivesUp, b
  <2> HIDE DEF r
  <2>4. GoodSlot(r)
    BY <1>2, <2>1, <2>2 DEF GoodSlot
  <2> QED BY <1>1, <1>2, <2>1, <2>2, <2>3, <2>4, HandlerSteps
<1>5. CASE Return(s, k)
  BY <1>4, <1>5 DEF Return, GivesUp
<1>6. CASE Throw(s, k)
  <2>1. CASE slot[s].run[k].try < RetryCount
    <3> DEFINE run == [pc |-> "pause", try |-> slot[s].run[k].try + 1]
    <3>1. run \in RunType /\ run.pc # "skip"
      BY <1>2, <2>1, RetryAssumption DEF RunType
    <3> QED BY <1>3, <1>6, <2>1, <3>1 DEF Throw, Attempt
  <2>2. CASE ~(slot[s].run[k].try < RetryCount)
    BY <1>4, <1>6, <2>2 DEF Throw, Attempt
  <2> QED BY <2>1, <2>2
<1>7. CASE Retry(s, k)
  <2> DEFINE run == [slot[s].run[k] EXCEPT !.pc = "run"]
  <2>1. run \in RunType /\ run.pc # "skip"
    BY <1>2 DEF RunType
  <2>2. [slot[s] EXCEPT !.run[k].pc = "run"] = [slot[s] EXCEPT !.run[k] = run]
    OBVIOUS
  <2> QED BY <1>3, <1>7, <2>1, <2>2 DEF Retry
<1> QED BY <1>5, <1>6, <1>7 DEF RunStep

\* The acknowledgement of a message comes after its handler.
LEMMA ReceiveAckSteps ==
    ASSUME SlotsInv, NEW s \in Slot, ReceiveAck(s)
    PROVE  Steps
<1> USE DEF SlotsInv
<1> DEFINE r == [slot[s] EXCEPT !.state = "acked"]
<1>0. PICK m \in Message : m = slot[s].msg
  BY DEF ReceiveAck, SlotsOk, GoodSlot, Unacked
<1>1. /\ Unacked(s) /\ slot[s].acks > 0
      /\ fate' = [fate EXCEPT ![m] = "acked"]
      /\ slot' = [slot EXCEPT ![s] = Tidy(r)]
      /\ UNCHANGED <<environment, key, broker, topology, consuming, faults>>
  BY <1>0 DEF ReceiveAck, config, server
<1>2. /\ m \in Message /\ slot[s].run[key[m]].pc = "done" /\ fate[m] = "held"
  BY <1>0, <1>1 DEF SlotsOk, GoodSlot, Unacked, CarrierOk
<1>3. GoodSlot(r) /\ r.state = "acked"
  BY <1>1 DEF SlotsOk, GoodSlot, SlotType, Unacked
<1>4. GoodSlot(Tidy(r)) /\ Tidy(r).state # "live"
  BY <1>3, TidyGood
<1> HIDE DEF r
<1>5. /\ slot'[s] = Tidy(r) /\ \A t \in Slot : t # s => slot'[t] = slot[t]
      /\ DOMAIN slot' = Slot /\ slot' = [t \in Slot |-> slot'[t]]
      /\ fate'[m] = "acked" /\ \A n \in Message : n # m => fate'[n] = fate[n]
  BY <1>1, <1>2 DEF SlotsOk, ServerTypeOK
<1>6. \A t \in Slot : Unacked(t)' => t # s /\ Unacked(t) /\ slot'[t] = slot[t]
                                     /\ slot[t].msg # m /\ slot[t].msg \in Message
  BY <1>0, <1>1, <1>4, <1>5 DEF Unacked, CarrierOk, SlotsOk, GoodSlot
<1>7. SlotsInv'
  <2>1. ServerTypeOK'
    BY <1>1 DEF ServerTypeOK, FateType
  <2>2. SlotsOk'
    BY <1>1, <1>4, <1>5 DEF SlotsOk, GoodSlot
  <2>3. CarrierOk'
    BY <1>5, <1>6 DEF CarrierOk, Unacked
  <2> QED BY <2>1, <2>2, <2>3
<1>8. StageCasesOk /\ StageCasesOk'
  BY <1>7, StageCases, StageCasesNext
<1>9. StageOf(m) = "ended"
  <2>1. s \in Carrier(m)
    BY <1>0, <1>1 DEF Carrier
  <2> QED BY <1>2, <1>8, <2>1 DEF StageCasesOk
<1>10. StageOf(m)' = "acknowledged"
  BY <1>2, <1>5, <1>8 DEF StageCasesOk
<1>11. ASSUME NEW n \in Message, n # m PROVE StageOf(n)' = StageOf(n)
  <2>1. /\ Carrier(n)' = Carrier(n) /\ fate'[n] = fate[n] /\ key' = key
        /\ \A t \in Carrier(n) : slot'[t] = slot[t]
    BY <1>0, <1>1, <1>5, <1>6, <1>11 DEF Carrier, Unacked
  <2>2. CASE Carrier(n) = {}
    BY <1>8, <2>1, <2>2 DEF StageCasesOk
  <2>3. CASE Carrier(n) # {}
    BY <1>8, <2>1, <2>3 DEF StageCasesOk
  <2> QED BY <2>2, <2>3
<1>12. Messages!Acknowledge(m)
  BY <1>2, <1>9, <1>10, <1>11, MoveIsMove DEF Moves, Messages!Acknowledge
<1> QED BY <1>2, <1>7, <1>12 DEF Steps, Messages!Next

LEMMA SlotsInit == Init => SlotsInv
<1> SUFFICES ASSUME Init PROVE SlotsInv
  OBVIOUS
<1>1. ServerTypeOK
  BY FaultsAssumption DEF Init, ServerTypeOK, FateType
<1>2. SlotsOk
  BY FreeIsGood DEF Init, SlotsOk
<1>3. CarrierOk
  BY DEF Init, CarrierOk, Unacked, FreeSlot
<1> QED BY <1>1, <1>2, <1>3 DEF SlotsInv

LEMMA SlotsStep == LinksInv /\ SlotsInv /\ [Next]_vars => Steps
<1> SUFFICES ASSUME LinksInv, SlotsInv, [Next]_vars PROVE Steps
  OBVIOUS
<1>0. ServerTypeOK
  BY DEF SlotsInv
<1>1. CASE UNCHANGED vars
  BY <1>0, <1>1, LetGoSteps DEF vars, config, server, ServerTypeOK
<1>2. CASE Start \/ Exit \/ CallHooks
  <2>1. /\ UNCHANGED <<environment, key, broker, topology, fate>>
        /\ consuming' \subseteq Key /\ faults' \in 0 .. MaxFaults
        /\ slot' = slot \/ slot' = [s \in Slot |-> FreeSlot]
    BY <1>0, <1>2, FaultsAssumption
       DEF Start, Exit, CallHooks, ProcessExit, config, server, ServerTypeOK
  <2> QED BY <1>0, <2>1, LetGoSteps DEF ServerTypeOK
<1>3. CASE AssertNext
  <2>1. /\ UNCHANGED <<environment, key, broker, fate, faults>>
        /\ consuming' \subseteq Key
        /\ slot' = slot \/ slot' = [s \in Slot |-> FreeSlot]
    BY <1>0, <1>3 DEF AssertNext, ProcessExit, config, ServerTypeOK
  <2>2. Assertions[asserted + 1] \in Item
    BY <1>3, AssertionsAre DEF AssertNext, Asserting, LinksInv, LinksTypeOK
  <2>3. topology' \subseteq Item
    BY <1>0, <1>3, <2>2 DEF AssertNext, ServerTypeOK
  <2> QED BY <1>0, <2>1, <2>3, LetGoSteps DEF ServerTypeOK
<1>4. ASSUME NEW k \in Key, ConnectConsumer(k) PROVE Steps
  <2>1. /\ UNCHANGED <<environment, key, broker, fate, faults, slot>>
        /\ consuming' = consuming \cup {k} /\ topology' = topology \cup {Queue(k)}
    BY <1>4 DEF ConnectConsumer, config
  <2>2. ServerTypeOK'
    BY <1>0, <2>1 DEF ServerTypeOK, Item
  <2> QED BY <2>1, <2>2, LetGoSteps
<1>5. ASSUME NEW k \in Key, CloseConsumer(k) PROVE Steps
  <2> DEFINE S == {s \in Slot : Unacked(s) /\ key[slot[s].msg] = k}
  <2>1. /\ UNCHANGED <<environment, key, broker, topology, fate>>
        /\ consuming' = consuming \ {k} /\ faults < MaxFaults /\ faults' = faults + 1
        /\ slot' = Void(S)
    BY <1>5 DEF CloseConsumer, config, server
  <2>2. ServerTypeOK'
    BY <1>0, <2>1, FaultsAssumption DEF ServerTypeOK
  <2> HIDE DEF S
  <2> QED BY <2>1, <2>2, LetGoSteps
<1>6. ASSUME NEW t \in Task, TaskStep(t) PROVE Steps
  <2>1. /\ UNCHANGED <<environment, key, broker, topology, fate, faults>>
        /\ consuming' \subseteq Key
        /\ slot' = slot \/ slot' = [s \in Slot |-> FreeSlot]
    BY <1>0, <1>6
       DEF TaskStep, Probe, Connect, Accept, Refuse, Reject, ProbeChannel, CloseProbe,
           SetChannel, UseChannel, ProcessExit, config, server, ServerTypeOK
  <2> QED BY <1>0, <2>1, LetGoSteps DEF ServerTypeOK
<1>7. ASSUME NEW c \in Conn, SeeClose(c) \/ CloseConnection(c) PROVE Steps
  <2>1. /\ UNCHANGED <<environment, key, broker, topology, fate>>
        /\ consuming' \subseteq Key /\ faults' \in 0 .. MaxFaults
        /\ slot' = slot \/ slot' = [s \in Slot |-> FreeSlot]
    BY <1>0, <1>7, FaultsAssumption
       DEF SeeClose, CloseConnection, ProcessExit, config, server, ServerTypeOK
  <2> QED BY <1>0, <2>1, LetGoSteps DEF ServerTypeOK
<1>8. CASE StopBroker
  BY <1>8, StopBrokerSteps
<1>9. CASE StartBroker
  <2>1. /\ UNCHANGED <<environment, key, topology, fate, consuming, faults, slot>>
        /\ broker' = "up"
    BY <1>9 DEF StartBroker, config
  <2> QED BY <1>0, <2>1, LetGoSteps DEF ServerTypeOK
<1>10. ASSUME NEW m \in Message, Publish(m) PROVE Steps
  BY <1>10, PublishSteps
<1>11. ASSUME NEW m \in Message, NEW s \in Slot, Deliver(s, m) PROVE Steps
  BY <1>11, DeliverSteps
<1>12. ASSUME NEW s \in Slot, ReceiveAck(s) PROVE Steps
  BY <1>12, ReceiveAckSteps
<1>13. ASSUME NEW s \in Slot, NEW k \in Key, RunStep(s, k) PROVE Steps
  BY <1>13, RunSteps
<1> QED BY <1>1, <1>2, <1>3, <1>4, <1>5, <1>6, <1>7, <1>8, <1>9, <1>10, <1>11, <1>12,
           <1>13 DEF Next

LEMMA SlotsInvCorrect == Spec => [](LinksInv /\ SlotsInv)
<1>1. LinksInv /\ SlotsInv /\ [Next]_vars => SlotsInv'
  BY SlotsStep DEF Steps
<1> QED BY <1>1, LinksInit, LinksStep, SlotsInit, PTL DEF Spec

\* The variables have their types and the bounds are kept.
THEOREM TypeCorrect == Spec => []TypeOK
<1>1. LinksInv /\ SlotsInv => TypeOK
  BY TypeParts DEF LinksInv, SlotsInv, SlotsOk, SlotsTypeOK, GoodSlot
<1> QED BY <1>1, SlotsInvCorrect, PTL

\* No delivery is acknowledged twice: one of the two subscribers acts, and
\* either it returns or the filter catches its last error
\* (rabbitmq.interceptor.ts:24, 30, rabbitmq-exception.filter.ts:12).
THEOREM AckOnceCorrect == Spec => []AckOnce
<1>1. SlotsInv => AckOnce
  BY DEF SlotsInv, SlotsOk, GoodSlot, SlotType, AckOnce
<1> QED BY <1>1, SlotsInvCorrect, PTL

\* Messages go the way Delivery describes: acknowledged after their handler,
\* and never back after that, whatever closes or restarts.
THEOREM ImplementsDelivery == Spec => DeliverySpec
<1>1. Init => Messages!Init
  BY SlotsInit, StageCases DEF Init, Messages!Init, StageCasesOk
<1>2. LinksInv /\ SlotsInv /\ [Next]_vars
        => [Messages!Next]_([m \in Message |-> StageOf(m)])
  BY SlotsStep DEF Steps, Stages
<1> QED BY <1>1, <1>2, SlotsInvCorrect, PTL DEF Spec, DeliverySpec, Messages!Spec

\* A message finds no binding only while its process has assertions that are
\* not answered, and no exchange only then or after a restart of the broker
\* under the process (rabbitmq.service.ts:30-34).
THEOREM RoutedOnceAssertedCorrect == Spec => RoutedOnceAsserted
<1>1. Init => AssertionsOk
  BY DEF Init, AssertionsOk
<1>2. LinksInv /\ SlotsInv /\ AssertionsOk /\ [Next]_vars
        => [\A m \in Message : fate'[m] # fate[m] =>
              /\ fate'[m] = "unrouted" => Asserting
              /\ fate'[m] = "noExchange" => stale \/ (Asserting /\ asserted = 0)]_vars
  BY RoutedStep DEF SlotsInv, ServerTypeOK
<1> QED BY <1>1, <1>2, AssertionsStep, SlotsInvCorrect, PTL DEF Spec, RoutedOnceAsserted
=============================================================================
