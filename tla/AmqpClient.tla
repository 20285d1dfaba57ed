----------------------------- MODULE AmqpClient -----------------------------
(***************************************************************************)
(* The AMQP client of one process and the broker it talks to:              *)
(* src/flow/brokers/amqp_broker.py and src/flow/brokers/amqp/*.py.         *)
(*                                                                         *)
(* The process runs on Twisted's reactor: what it does between two waits   *)
(* is not interleaved with anything else it does.  A step of the model is  *)
(* such a run, or one callback of it where a run calls several: then Busy  *)
(* keeps every other step of the process waiting.  The two wires are FIFO. *)
(*                                                                         *)
(* The broker is external.  It is modelled by what the client relies on:   *)
(* it numbers the publishes of a channel from 1 once confirm.select was    *)
(* sent, confirms a publish when it has stored it, singly or with all the  *)
(* earlier ones, forgets what it has not stored when it restarts, and      *)
(* returns to their queues the messages a closed channel did not settle.   *)
(***************************************************************************)
EXTENDS Naturals, FiniteSets, SequencesExt

CONSTANTS
    Messages,           \* the messages that wait in the queues
    Queues,             \* the queues handlers may be registered for
    QueueOf,            \* [Messages -> Queues]
    Publishes,          \* what is published
    Outputs,            \* [Messages -> Seq(Publishes)]: what the handler of a message publishes
    Awaits,             \* the messages whose handler returns a deferred of all its publishes
    Raises,             \* the messages that are not valid, or whose handler raises at its end
    Calls,              \* the calls the command makes: a sequence of [op, arg]
    ConnectionAttempts, \* setting amqp.connection_attempts
    PrefetchCount,      \* setting amqp.prefetch_count, 0 for none
    MaxFaults           \* bound: how often something outside the code fails

Call == [op : {"publish"}, arg : Publishes] \cup [op : {"declare", "register"}, arg : Queues]

ASSUME ClientAssumption ==
    /\ QueueOf \in [Messages -> Queues]
    /\ Calls \in Seq(Call)
    /\ Outputs \in [Messages -> Seq(Publishes)]
    /\ Awaits \subseteq Messages /\ Raises \subseteq Messages
    /\ ConnectionAttempts \in Nat \ {0}
    /\ {PrefetchCount, MaxFaults} \subseteq Nat

VARIABLES
    exit,                \* "running", or why the process ended
    todo,                \* the calls the command has still to make
    connection,          \* ConnectionManager.state, with the stages of "connecting"
    connection_attempts, \* ConnectionManager._connection_attempts
    callbacks,           \* the callbacks of _connect_deferred that have not run
    result,              \* the result of _connect_deferred: "pending", "channel" or "None"
    pika_channel,        \* is ChannelFacade._pika_channel set
    last_publish_tag,    \* ChannelFacade._last_publish_tag
    confirm_deferreds,   \* PublisherConfirmManager._confirm_deferreds: tag -> publish
    firing,              \* the tags _fire_confirm_deferreds has still to fire, the least first
    handling,            \* receive tag -> the publish tags the handler's deferred waits for
    to_broker,           \* frames from the process
    from_broker,         \* frames from the broker
    ready,               \* the messages in their queues
    unacked,             \* delivery tag -> message
    delivered,           \* the last delivery tag
    consumers,           \* the queues the channel consumes
    confirming,          \* has the channel sent confirm.select
    published,           \* the last publish tag the broker counted
    unconfirmed,         \* publish tag -> publish, not confirmed yet
    unstored,            \* publishes the broker holds in memory
    stored,              \* publishes the broker has stored
    dead,                \* rejected messages, in the dead letter queue
    confirmed,           \* history: publishes whose confirm deferred was called back
    faults               \* how often something outside the code failed

managerVars == <<connection, connection_attempts>>
channelVars == <<callbacks, result, pika_channel, last_publish_tag>>
pendingVars == <<confirm_deferreds, firing, handling>>
processVars == <<exit, todo, managerVars, channelVars, pendingVars>>
wireVars    == <<to_broker, from_broker>>
consumeVars == <<ready, unacked, delivered, consumers, dead>>
confirmVars == <<confirming, published, unconfirmed, unstored, stored>>
brokerVars  == <<consumeVars, confirmVars>>
vars == <<processVars, wireVars, brokerVars, confirmed, faults>>

-----------------------------------------------------------------------------
Connecting == {"dialing", "waiting", "handshake", "qos"}
Established == {"handshake", "qos", "open"}
ExitCodes == {"execute_error", "system_failure", "service_unavailable", "killed"}

Frame(type, arg) == [type |-> type, arg |-> arg]
\* The tag is history: the client does not send it, the broker counts by itself.
PublishFrame(publish, tag) == [type |-> "publish", arg |-> publish, tag |-> tag]
Confirmation(tag, multiple) == [type |-> "confirm", arg |-> tag, multiple |-> multiple]

\* f without the arguments in S
Without(f, S) == [x \in DOMAIN f \ S |-> f[x]]

\* The two functions as one, where f and g have no argument in common
Joined(f, g) == [x \in DOMAIN f \cup DOMAIN g |-> IF x \in DOMAIN f THEN f[x] ELSE g[x]]

NoTags == [t \in {} |-> {}]

-----------------------------------------------------------------------------
(* The process *)

Running == exit = "running"
Busy    == firing # {} \/ (result # "pending" /\ callbacks # <<>>)
Idle    == Running /\ ~Busy

NewProcess ==
    /\ todo = Calls
    /\ connection = "disconnected" /\ connection_attempts = 0
    /\ callbacks = <<>> /\ result = "pending"
    /\ pika_channel = FALSE /\ last_publish_tag = 0
    /\ confirm_deferreds = NoTags /\ firing = {} /\ handling = NoTags

ResetProcess ==
    /\ todo' = Calls
    /\ connection' = "disconnected" /\ connection_attempts' = 0
    /\ callbacks' = <<>> /\ result' = "pending"
    /\ pika_channel' = FALSE /\ last_publish_tag' = 0
    /\ confirm_deferreds' = NoTags /\ firing' = {} /\ handling' = NoTags

(***************************************************************************)
(* The process is gone.  os._exit does not flush: the broker still reads   *)
(* some of what was written, in order.                                     *)
(***************************************************************************)
Exit(code) ==
    /\ exit' = code
    /\ ResetProcess
    /\ \E n \in 0..Len(to_broker) : to_broker' = SubSeq(to_broker, 1, n)
    /\ from_broker' = <<>>

\* What happens to the process and the broker from outside, a bounded number of times
Faulty == faults < MaxFaults /\ faults' = faults + 1

\* What a call leaves on the connect deferred: ChannelFacade.connect adds
\* _on_connected each time, the caller adds its own callback after it.
CallbacksOf(c) == <<[op |-> "on_connected", arg |-> c.arg], c>>

\* ConnectionManager.connect: the first caller starts the only attempt.
Connect ==
    IF connection = "disconnected"
    THEN connection' = "dialing" /\ connection_attempts' = connection_attempts + 1
    ELSE UNCHANGED managerVars

\* _connect_and_do does not wait when there is a channel.
CallImmediately ==
    /\ Idle /\ todo # <<>> /\ Head(todo).op = "declare" /\ pika_channel
    /\ to_broker' = Append(to_broker, Frame("declare", Head(todo).arg))
    /\ todo' = Tail(todo)
    /\ UNCHANGED <<exit, managerVars, channelVars, pendingVars, from_broker, brokerVars,
                   confirmed, faults>>

CallConnected ==
    /\ Idle /\ todo # <<>>
    /\ ~(Head(todo).op = "declare" /\ pika_channel)
    /\ Connect
    /\ callbacks' = callbacks \o CallbacksOf(Head(todo))
    /\ todo' = Tail(todo)
    /\ UNCHANGED <<exit, result, pika_channel, last_publish_tag, pendingVars, wireVars,
                   brokerVars, confirmed, faults>>

-----------------------------------------------------------------------------
(* ConnectionManager *)

OnConnectTCP ==
    /\ Idle /\ connection = "dialing"
    /\ connection' = "handshake"
    /\ UNCHANGED <<exit, todo, connection_attempts, channelVars, pendingVars, wireVars,
                   brokerVars, confirmed, faults>>

\* faulty LastAttempt: one attempt too many
LastAttemptLate == connection_attempts > ConnectionAttempts

LastAttempt == connection_attempts >= ConnectionAttempts

OnConnectTCPFailed ==
    /\ Idle /\ connection = "dialing"
    /\ IF LastAttempt
       THEN Exit("service_unavailable")
       ELSE /\ connection' = "waiting"
            /\ UNCHANGED <<exit, todo, connection_attempts, channelVars, pendingVars, wireVars>>
    /\ UNCHANGED <<brokerVars, confirmed, faults>>

AttemptToConnect ==
    /\ Idle /\ connection = "waiting"
    /\ connection' = "dialing" /\ connection_attempts' = connection_attempts + 1
    /\ UNCHANGED <<exit, todo, channelVars, pendingVars, wireVars, brokerVars, confirmed, faults>>

FinishOnReady == connection' = "open" /\ result' = "channel"

SetChannelAndQos ==
    /\ Idle /\ connection = "handshake"
    /\ IF PrefetchCount > 0
       THEN connection' = "qos" /\ UNCHANGED result
       ELSE FinishOnReady
    /\ UNCHANGED <<exit, todo, connection_attempts, callbacks, pika_channel, last_publish_tag,
                   pendingVars, wireVars, brokerVars, confirmed, faults>>

QosOk ==
    /\ Idle /\ connection = "qos"
    /\ FinishOnReady
    /\ UNCHANGED <<exit, todo, connection_attempts, callbacks, pika_channel, last_publish_tag,
                   pendingVars, wireVars, brokerVars, confirmed, faults>>

\* The connection is lost, to the network or a missed heartbeat.
OnPikaConnectionClosed ==
    /\ Faulty /\ Idle /\ connection \in Established
    /\ Exit("system_failure")
    /\ UNCHANGED <<brokerVars, confirmed>>

-----------------------------------------------------------------------------
(* ChannelFacade: the callbacks of the connect deferred, one by one *)

RunCallback(op) ==
    /\ Running /\ firing = {}
    /\ result # "pending" /\ callbacks # <<>> /\ Head(callbacks).op = op

\* faulty ChannelReturned: the channel is not passed on
ChannelNotReturned == "None"

\* What _on_connected and _do_on_channel return to the connect deferred
ChannelReturned == result

\* The first one enables publisher confirms.
OnConnected ==
    /\ RunCallback("on_connected")
    /\ pika_channel' = TRUE
    /\ to_broker' = IF pika_channel THEN to_broker ELSE Append(to_broker, Frame("select", 0))
    /\ result' = ChannelReturned
    /\ callbacks' = Tail(callbacks)
    /\ UNCHANGED <<exit, todo, managerVars, last_publish_tag, pendingVars, from_broker,
                   brokerVars, confirmed, faults>>

\* faulty FirstTag: the deferred is added before the tag is counted
FirstTagLate == last_publish_tag

FirstTag == last_publish_tag + 1

\* _basic_publish for each of ps in turn; it returns None to the connect deferred.
BasicPublish(ps, frames) ==
    LET tags == FirstTag .. FirstTag + Len(ps) - 1
    IN  /\ last_publish_tag' = last_publish_tag + Len(ps)
        /\ result' = IF ps = <<>> THEN result ELSE "None"
        /\ to_broker' =
               to_broker \o [i \in DOMAIN ps |-> PublishFrame(ps[i], FirstTag + i - 1)] \o frames
        /\ confirm_deferreds' =
               Joined(confirm_deferreds, [t \in tags |-> ps[t - FirstTag + 1]])

PublishOnChannel ==
    /\ RunCallback("publish")
    /\ BasicPublish(<<Head(callbacks).arg>>, <<>>)
    /\ callbacks' = Tail(callbacks)
    /\ UNCHANGED <<exit, todo, managerVars, pika_channel, firing, handling, from_broker,
                   brokerVars, confirmed, faults>>

\* An attribute of None: the default errback ends the process.
DoOnChannel ==
    /\ RunCallback("declare")
    /\ IF result = "None"
       THEN Exit("execute_error")
       ELSE /\ to_broker' = Append(to_broker, Frame("declare", Head(callbacks).arg))
            /\ result' = ChannelReturned
            /\ callbacks' = Tail(callbacks)
            /\ UNCHANGED <<exit, todo, managerVars, pika_channel, last_publish_tag, pendingVars,
                           from_broker>>
    /\ UNCHANGED <<brokerVars, confirmed, faults>>

\* AmqpBroker._start_handler uses the facade's channel, whatever the result is.
StartHandler ==
    /\ RunCallback("register")
    /\ to_broker' = Append(to_broker, Frame("consume", Head(callbacks).arg))
    /\ callbacks' = Tail(callbacks)
    /\ UNCHANGED <<exit, todo, managerVars, result, pika_channel, last_publish_tag, pendingVars,
                   from_broker, brokerVars, confirmed, faults>>

-----------------------------------------------------------------------------
(* AmqpBroker: a message is received, handled and settled *)

\* faulty Awaited: the deferred fires when the first publish is confirmed
AwaitedFirst(m, tags) ==
    IF m \in Awaits THEN {t \in tags : t = FirstTag} ELSE {}

\* The publishes, out of those of its handler, that the deferred of m waits for
Awaited(m, tags) == IF m \in Awaits THEN tags ELSE {}

\* faulty Settlement: a message is acknowledged when it is received, too
SettlementOnReceipt(m, receive_tag, awaited) ==
    IF m \in Raises THEN <<Frame("reject", receive_tag)>> ELSE <<Frame("ack", receive_tag)>>

\* What is sent as soon as the handler of m returned
Settlement(m, receive_tag, awaited) ==
    IF m \in Raises     THEN <<Frame("reject", receive_tag)>>
    ELSE IF awaited = {} THEN <<Frame("ack", receive_tag)>>
                         ELSE <<>>

MessageReceived ==
    /\ Idle /\ from_broker # <<>> /\ Head(from_broker).type = "deliver"
    /\ LET receive_tag == Head(from_broker).arg
           m       == Head(from_broker).message
           tags    == FirstTag .. FirstTag + Len(Outputs[m]) - 1
           awaited == Awaited(m, tags)
       IN  /\ BasicPublish(Outputs[m], Settlement(m, receive_tag, awaited))
           /\ handling' = IF m \in Raises \/ awaited = {}
                          THEN handling
                          ELSE Joined(handling, [t \in {receive_tag} |-> awaited])
    /\ from_broker' = Tail(from_broker)
    /\ UNCHANGED <<exit, todo, managerVars, callbacks, pika_channel, firing, brokerVars,
                   confirmed, faults>>

-----------------------------------------------------------------------------
(* PublisherConfirmManager *)

\* faulty ConfirmTags: bisect_left instead of bisect
ConfirmTagsBefore(publish_tag, multiple) ==
    IF multiple
    THEN {t \in DOMAIN confirm_deferreds : t < publish_tag}
    ELSE {publish_tag} \cap DOMAIN confirm_deferreds

\* faulty ConfirmTags: a confirm of many is taken for a confirm of all
ConfirmTagsAll(publish_tag, multiple) ==
    IF multiple THEN DOMAIN confirm_deferreds
    ELSE {publish_tag} \cap DOMAIN confirm_deferreds

\* get_confirm_deferreds
ConfirmTags(publish_tag, multiple) ==
    IF multiple
    THEN {t \in DOMAIN confirm_deferreds : t <= publish_tag}
    ELSE {publish_tag} \cap DOMAIN confirm_deferreds

OnPublisherConfirmAck ==
    /\ Idle /\ from_broker # <<>> /\ Head(from_broker).type = "confirm"
    /\ firing' = ConfirmTags(Head(from_broker).arg, Head(from_broker).multiple)
    /\ from_broker' = Tail(from_broker)
    /\ UNCHANGED <<exit, todo, managerVars, channelVars, confirm_deferreds, handling, to_broker,
                   brokerVars, confirmed, faults>>

\* One round of the loop of _fire_confirm_deferreds.  A publish is awaited by the
\* deferred of one handler at most; when that waited for nothing else, the message
\* is acknowledged.
FireConfirmDeferred ==
    /\ Running
    /\ \E tag \in firing :
          LET done == {r \in DOMAIN handling : handling[r] = {tag}}
          IN  /\ \A t \in firing : tag <= t
              /\ confirmed' = confirmed \cup {confirm_deferreds[tag]}
              /\ confirm_deferreds' = Without(confirm_deferreds, {tag})
              /\ handling' = [r \in DOMAIN handling \ done |-> handling[r] \ {tag}]
              /\ to_broker' = IF done = {} THEN to_broker
                              ELSE Append(to_broker, Frame("ack", CHOOSE r \in done : TRUE))
              /\ firing' = firing \ {tag}
    /\ UNCHANGED <<exit, todo, managerVars, channelVars, from_broker, brokerVars, faults>>

OnPublisherConfirmNack ==
    /\ Idle /\ from_broker # <<>> /\ Head(from_broker).type = "nack"
    /\ Exit("system_failure")
    /\ UNCHANGED <<brokerVars, confirmed, faults>>

-----------------------------------------------------------------------------
(* The process ends, and is started again once the broker closed its channel *)

\* It is killed, or shut down in order: _disconnect then flushes all it wrote.
Killed ==
    /\ Faulty /\ Running /\ firing = {}
    /\ Exit("killed")
    /\ UNCHANGED <<brokerVars, confirmed>>

NoChannel ==
    /\ unacked = NoTags /\ delivered = 0 /\ consumers = {}
    /\ confirming = FALSE /\ published = 0 /\ unconfirmed = NoTags

Restart ==
    /\ ~Running
    /\ to_broker = <<>> /\ NoChannel
    /\ exit' = "running"
    /\ UNCHANGED <<todo, managerVars, channelVars, pendingVars, wireVars, brokerVars, confirmed,
                   faults>>

-----------------------------------------------------------------------------
(* The broker *)

Taken(type) ==
    /\ to_broker # <<>> /\ Head(to_broker).type = type
    /\ to_broker' = Tail(to_broker)
    /\ UNCHANGED <<processVars, from_broker, confirmed, faults>>

BrokerSelect ==
    /\ Taken("select")
    /\ confirming' = TRUE
    /\ UNCHANGED <<consumeVars, published, unconfirmed, unstored, stored>>

BrokerPublish ==
    /\ Taken("publish")
    /\ unstored' = unstored \cup {Head(to_broker).arg}
    /\ IF confirming
       THEN /\ published' = published + 1
            /\ unconfirmed' = Joined(unconfirmed, [t \in {published + 1} |-> Head(to_broker).arg])
       ELSE UNCHANGED <<published, unconfirmed>>
    /\ UNCHANGED <<consumeVars, confirming, stored>>

BrokerDeclare == Taken("declare") /\ UNCHANGED brokerVars

BrokerConsume ==
    /\ Taken("consume")
    /\ consumers' = consumers \cup {Head(to_broker).arg}
    /\ UNCHANGED <<ready, unacked, delivered, dead, confirmVars>>

BrokerAck ==
    /\ Taken("ack")
    /\ unacked' = Without(unacked, {Head(to_broker).arg})
    /\ UNCHANGED <<ready, delivered, consumers, dead, confirmVars>>

BrokerReject ==
    /\ Taken("reject")
    /\ dead' = dead \cup {unacked[t] : t \in {Head(to_broker).arg} \cap DOMAIN unacked}
    /\ unacked' = Without(unacked, {Head(to_broker).arg})
    /\ UNCHANGED <<ready, delivered, consumers, confirmVars>>

BrokerDeliver ==
    /\ PrefetchCount = 0 \/ Cardinality(DOMAIN unacked) < PrefetchCount
    /\ \E m \in {m \in ready : QueueOf[m] \in consumers} :
          /\ ready' = ready \ {m}
          /\ unacked' = Joined(unacked, [t \in {delivered + 1} |-> m])
          /\ from_broker' = IF Running
                            THEN Append(from_broker, [type |-> "deliver", arg |-> delivered + 1,
                                                      message |-> m])
                            ELSE from_broker
    /\ delivered' = delivered + 1
    /\ UNCHANGED <<processVars, to_broker, consumers, dead, confirmVars, confirmed, faults>>

BrokerStore ==
    /\ \E p \in unstored : unstored' = unstored \ {p} /\ stored' = stored \cup {p}
    /\ UNCHANGED <<processVars, wireVars, consumeVars, confirming, published, unconfirmed,
                   confirmed, faults>>

BrokerConfirm ==
    /\ Running
    /\ \E tag \in DOMAIN unconfirmed, multiple \in BOOLEAN :
          LET tags == IF multiple THEN {t \in DOMAIN unconfirmed : t <= tag} ELSE {tag}
          IN  /\ \A t \in tags : unconfirmed[t] \in stored \ unstored
              /\ from_broker' = Append(from_broker, Confirmation(tag, multiple))
              /\ unconfirmed' = Without(unconfirmed, tags)
    /\ UNCHANGED <<processVars, to_broker, consumeVars, confirming, published, unstored, stored,
                   confirmed, faults>>

BrokerNack ==
    /\ Faulty /\ Running
    /\ \E tag \in DOMAIN unconfirmed :
          /\ unconfirmed[tag] \in unstored
          /\ unstored' = unstored \ {unconfirmed[tag]}
          /\ from_broker' = Append(from_broker, Frame("nack", tag))
          /\ unconfirmed' = Without(unconfirmed, {tag})
    /\ UNCHANGED <<processVars, to_broker, consumeVars, confirming, published, stored, confirmed>>

CloseChannel ==
    /\ ready' = ready \cup {unacked[t] : t \in DOMAIN unacked}
    /\ unacked' = NoTags /\ delivered' = 0 /\ consumers' = {}
    /\ confirming' = FALSE /\ published' = 0 /\ unconfirmed' = NoTags
    /\ UNCHANGED <<dead, stored>>

\* The process is gone and the broker has read what it wrote.
BrokerCloses ==
    /\ ~Running /\ to_broker = <<>> /\ ~NoChannel
    /\ CloseChannel
    /\ UNCHANGED <<processVars, wireVars, unstored, confirmed, faults>>

BrokerRestart ==
    /\ Faulty /\ firing = {}
    /\ unstored' = {}
    /\ CloseChannel
    /\ to_broker' = <<>> /\ from_broker' = <<>>
    /\ IF Running /\ connection \in Established
       THEN exit' = "system_failure" /\ ResetProcess
       ELSE UNCHANGED processVars
    /\ UNCHANGED confirmed

-----------------------------------------------------------------------------
Init ==
    /\ exit = "running" /\ NewProcess
    /\ to_broker = <<>> /\ from_broker = <<>>
    /\ ready = Messages /\ dead = {} /\ NoChannel
    /\ unstored = {} /\ stored = {}
    /\ confirmed = {} /\ faults = 0

Process ==
    \/ CallImmediately \/ CallConnected
    \/ OnConnectTCP \/ OnConnectTCPFailed \/ AttemptToConnect \/ SetChannelAndQos \/ QosOk
    \/ OnConnected \/ PublishOnChannel \/ DoOnChannel \/ StartHandler
    \/ MessageReceived
    \/ OnPublisherConfirmAck \/ FireConfirmDeferred \/ OnPublisherConfirmNack

Broker ==
    \/ BrokerSelect \/ BrokerPublish \/ BrokerDeclare \/ BrokerConsume \/ BrokerAck \/ BrokerReject
    \/ BrokerDeliver \/ BrokerStore \/ BrokerConfirm \/ BrokerCloses

Fault == OnPikaConnectionClosed \/ Killed \/ BrokerNack \/ BrokerRestart

Next == Process \/ Broker \/ Restart \/ Fault

Spec == Init /\ [][Next]_vars

(***************************************************************************)
(* Every wait of the reactor ends, the broker does what it was asked, and  *)
(* the process is started again (the exit codes ask for that).  Nothing is *)
(* fair about a fault.                                                     *)
(***************************************************************************)
Fairness ==
    /\ WF_vars(Process) /\ WF_vars(Restart)
    /\ WF_vars(BrokerSelect \/ BrokerPublish \/ BrokerDeclare \/ BrokerConsume \/ BrokerAck
               \/ BrokerReject \/ BrokerCloses)
    /\ WF_vars(BrokerDeliver) /\ WF_vars(BrokerStore) /\ WF_vars(BrokerConfirm)

FairSpec == Spec /\ Fairness

-----------------------------------------------------------------------------
(* Properties *)

FramesOfType(wire, types) == {i \in DOMAIN wire : wire[i].type \in types}

(***************************************************************************)
(* Types, and the relations between the stages of a connection: there are  *)
(* never more attempts than amqp.connection_attempts, a channel exists     *)
(* exactly from the moment the connect deferred was called back, only a    *)
(* process with a channel has publishes to be confirmed or messages.       *)
(***************************************************************************)
TypeOK ==
    /\ exit \in {"running"} \cup ExitCodes
    /\ todo \in Seq(Call)
    /\ connection \in {"disconnected", "open"} \cup Connecting
    /\ connection_attempts \in 0..ConnectionAttempts
    /\ (connection = "disconnected") = (connection_attempts = 0)
    /\ \A i \in DOMAIN callbacks : callbacks[i].op \in {"on_connected", "publish", "declare", "register"}
    /\ result \in {"pending", "channel", "None"}
    /\ (result # "pending") = (connection = "open")
    /\ pika_channel \in BOOLEAN
    /\ pika_channel => result # "pending"
    /\ last_publish_tag \in Nat
    /\ DOMAIN confirm_deferreds \subseteq 0..last_publish_tag
    /\ \A t \in DOMAIN confirm_deferreds : confirm_deferreds[t] \in Publishes
    /\ firing \subseteq DOMAIN confirm_deferreds
    /\ \A r \in DOMAIN handling :
          handling[r] # {} /\ handling[r] \subseteq DOMAIN confirm_deferreds
    /\ \A t \in DOMAIN unacked : t \in 1..delivered /\ unacked[t] \in Messages
    /\ ready \cup dead \subseteq Messages /\ consumers \subseteq Queues
    /\ DOMAIN unconfirmed \subseteq 1..published
    /\ unstored \cup stored \cup confirmed \subseteq Publishes
    /\ faults \in 0..MaxFaults

(***************************************************************************)
(* IBroker.publish: its deferred calls back once the message has been      *)
(* confirmed.  The client counts publishes by itself and takes the tags of *)
(* the broker for its own; whatever order publishes, confirms of one tag   *)
(* and confirms of many come in, a deferred fires only for a publish that  *)
(* the broker has stored.                                                  *)
(***************************************************************************)
ConfirmedStored == confirmed \subseteq stored

(***************************************************************************)
(* The two counters of publishes never drift apart: what the broker has    *)
(* counted and what is on its way to it are what the client has counted,   *)
(* and a tag means the same publish on both sides.                         *)
(***************************************************************************)
TagsAgree ==
    Running =>
        /\ published + Cardinality(FramesOfType(to_broker, {"publish"})) = last_publish_tag
        /\ DOMAIN unconfirmed \subseteq DOMAIN confirm_deferreds
        /\ \A t \in DOMAIN unconfirmed : confirm_deferreds[t] = unconfirmed[t]

(***************************************************************************)
(* A message that was delivered to the process and not settled is in       *)
(* exactly one place: on its way to the handler, with a handler whose      *)
(* deferred has not fired, or settled by one frame on its way back.  So    *)
(* none is forgotten, and none is settled twice, which would close the     *)
(* channel.                                                                *)
(***************************************************************************)
StagesOf(tag) ==
    {<<"delivery", i>> : i \in {i \in FramesOfType(from_broker, {"deliver"}) : from_broker[i].arg = tag}}
    \cup {<<"handler", r>> : r \in DOMAIN handling \cap {tag}}
    \cup {<<"settlement", i>> : i \in {i \in FramesOfType(to_broker, {"ack", "reject"}) :
                                           to_broker[i].arg = tag}}

OneStage ==
    /\ Running => \A t \in DOMAIN unacked : Cardinality(StagesOf(t)) = 1
    /\ \A t \in (1..delivered) \ DOMAIN unacked : StagesOf(t) = {}

(***************************************************************************)
(* The promise of Handler.__call__ (a deferred that will callback when the *)
(* message has been completely handled) and of acknowledging when it does: *)
(* whatever dies or restarts, a message is in its queue, out for delivery, *)
(* in the dead letter queue, or the broker has all its handler published.  *)
(***************************************************************************)
NothingLost ==
    \A m \in Messages :
        \/ m \in ready \cup dead
        \/ \E t \in DOMAIN unacked : unacked[t] = m
        \/ ToSet(Outputs[m]) \subseteq stored \cup unstored

(***************************************************************************)
(* ConnectionManager.connect: its deferred will callback with a channel    *)
(* object.  It does so to every caller, of whatever kind, until the        *)
(* process publishes; and from then on to none, as all callers share one   *)
(* deferred.  A declare that waits behind a publish ends the process.      *)
(***************************************************************************)
ChannelUntilPublish ==
    result # "pending" => (result = "channel" <=> last_publish_tag = 0)

(***************************************************************************)
(* A process that stays up connects, makes its calls, has its own          *)
(* publishes confirmed, and leaves no message of a queue it consumes       *)
(* unsettled.                                                              *)
(***************************************************************************)
Served ==
    <>[]Running =>
        <>[](/\ todo = <<>> /\ callbacks = <<>>
             /\ DOMAIN confirm_deferreds = {}
             /\ \A m \in Messages : QueueOf[m] \in consumers =>
                   m \notin ready /\ \A t \in DOMAIN unacked : unacked[t] # m)

-----------------------------------------------------------------------------
(* The inductive invariant of the proofs.                                  *)

ToBrokerFrame ==
    [type : {"select"}, arg : {0}] \cup [type : {"declare", "consume"}, arg : Queues]
    \cup [type : {"ack", "reject"}, arg : Nat]
    \cup [type : {"publish"}, arg : Publishes, tag : Nat]

FromBrokerFrame ==
    [type : {"deliver"}, arg : Nat, message : Messages]
    \cup [type : {"confirm"}, arg : Nat, multiple : BOOLEAN]
    \cup [type : {"nack"}, arg : Nat]

Callback == Call \cup [op : {"on_connected"}, arg : Publishes \cup Queues]

\* Without a channel nothing was sent or received; a process that ended has none.
ChannelInv ==
    /\ to_broker \in Seq(ToBrokerFrame) /\ from_broker \in Seq(FromBrokerFrame)
    /\ callbacks \in Seq(Callback)
    /\ published \in Nat /\ delivered \in Nat
    /\ connection = "waiting" => connection_attempts < ConnectionAttempts
    /\ connection_attempts # 0 \/ pika_channel \/ callbacks # <<>> => Running
    /\ ~pika_channel =>
          /\ result # "None" /\ from_broker = <<>> /\ last_publish_tag = 0
          /\ confirm_deferreds = NoTags /\ firing = {} /\ handling = NoTags
          /\ Running => to_broker = <<>> /\ NoChannel
          /\ callbacks # <<>> => Head(callbacks).op = "on_connected"
          /\ connection # "disconnected" => callbacks # <<>>

\* Publisher confirms are enabled before anything else is sent.
SelectInv ==
    /\ ~confirming => published = 0 /\ unconfirmed = NoTags
    /\ pika_channel /\ ~confirming => to_broker # <<>> /\ Head(to_broker).type = "select"

\* The publishes on the wire are those after the last that the broker counted, in
\* order; and both sides mean the same by a tag.
TagInv ==
    pika_channel =>
        LET sent == FramesOfType(to_broker, {"publish"}) IN
        /\ published <= last_publish_tag
        /\ \A i \in sent :
              LET tag == to_broker[i].tag IN
              /\ tag \in published + 1 .. last_publish_tag
              /\ tag \in DOMAIN confirm_deferreds
              /\ confirm_deferreds[tag] = to_broker[i].arg
        /\ \A i, j \in sent : i < j => to_broker[i].tag < to_broker[j].tag
        /\ \A t \in published + 1 .. last_publish_tag : \E i \in sent : to_broker[i].tag = t
        /\ DOMAIN confirm_deferreds \subseteq 1 .. last_publish_tag
        /\ \A t \in DOMAIN unconfirmed :
              /\ t \in DOMAIN confirm_deferreds
              /\ confirm_deferreds[t] = unconfirmed[t]

NackedBefore(k) == \E i \in DOMAIN from_broker : i < k /\ from_broker[i].type = "nack"

\* A publish that the broker counted it has yet to confirm, or has stored, or it
\* refused one; and no confirm that comes before a refusal covers another.
ConfirmInv ==
    /\ \A t \in DOMAIN confirm_deferreds :
          t <= published => \/ t \in DOMAIN unconfirmed
                            \/ confirm_deferreds[t] \in stored
                            \/ NackedBefore(Len(from_broker) + 1)
    /\ \A k \in FramesOfType(from_broker, {"confirm"}) :
          /\ from_broker[k].arg <= published
          /\ \A t \in ConfirmTags(from_broker[k].arg, from_broker[k].multiple) :
                /\ t \notin DOMAIN unconfirmed
                /\ confirm_deferreds[t] \in stored \/ NackedBefore(k)
    /\ \A t \in firing :
          /\ t <= published /\ t \notin DOMAIN unconfirmed
          /\ confirm_deferreds[t] \in stored
    /\ confirmed \subseteq stored

\* A message that was delivered and not settled is in one stage, and of what is in a
\* stage the broker waits for the settlement.
StageInv ==
    LET deliveries  == FramesOfType(from_broker, {"deliver"})
        settlements == FramesOfType(to_broker, {"ack", "reject"})
    IN  /\ DOMAIN handling \subseteq DOMAIN unacked
        /\ \A i \in deliveries :
              /\ from_broker[i].arg \in DOMAIN unacked \ DOMAIN handling
              /\ unacked[from_broker[i].arg] = from_broker[i].message
        /\ \A i \in settlements : to_broker[i].arg \in DOMAIN unacked \ DOMAIN handling
        /\ \A i, j \in deliveries : from_broker[i].arg = from_broker[j].arg => i = j
        /\ \A i, j \in settlements : to_broker[i].arg = to_broker[j].arg => i = j
        /\ \A i \in deliveries, j \in settlements : from_broker[i].arg # to_broker[j].arg
        /\ Running => \A t \in DOMAIN unacked :
              \/ t \in DOMAIN handling
              \/ \E i \in deliveries : from_broker[i].arg = t
              \/ \E i \in settlements : to_broker[i].arg = t
        /\ \A r, s \in DOMAIN handling : r # s => handling[r] \cap handling[s] = {}

\* The handler of every message returns a deferred of all it publishes.
AllAwaited == \A m \in Messages : m \in Awaits \cup Raises \/ Outputs[m] = <<>>

\* The handler's deferred waits for what is not stored yet, and the message is
\* acknowledged when all is.
DeliveryInv ==
    /\ \A r \in DOMAIN handling : \A p \in ToSet(Outputs[unacked[r]]) :
          p \in stored \/ \E t \in handling[r] : confirm_deferreds[t] = p
    /\ \A k \in FramesOfType(to_broker, {"ack"}) :
          ToSet(Outputs[unacked[to_broker[k].arg]]) \subseteq stored
    /\ \A m \in Messages :
          \/ m \in ready \cup dead
          \/ \E t \in DOMAIN unacked : unacked[t] = m
          \/ ToSet(Outputs[m]) \subseteq stored

IInv ==
    /\ TypeOK /\ ChannelInv /\ SelectInv /\ TagInv /\ ConfirmInv /\ StageInv
    /\ AllAwaited => DeliveryInv
    /\ ChannelUntilPublish
=============================================================================
