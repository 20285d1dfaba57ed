-------------------------- MODULE AmqpClientProofs --------------------------
(***************************************************************************)
(* For any messages, handlers, calls and settings, and any number of       *)
(* faults: a publish is called back only when it is stored, the two sides  *)
(* mean the same by a tag, a message that is out for delivery is in one    *)
(* stage, of handlers that wait for their publishes none is lost, and the  *)
(* channel is handed on exactly until the process publishes.               *)
(***************************************************************************)
EXTENDS AmqpClient, FiniteSetTheorems, TLAPS

-----------------------------------------------------------------------------
(* Wires.                                                                  *)

LEMMA TailOf ==
    ASSUME NEW S, NEW s \in Seq(S), s # <<>>
    PROVE  /\ Tail(s) \in Seq(S) /\ Len(s) \in Nat /\ Len(s) >= 1
           /\ Len(Tail(s)) = Len(s) - 1 /\ Head(s) = s[1]
           /\ DOMAIN s = 1 .. Len(s) /\ DOMAIN Tail(s) = 1 .. Len(s) - 1
           /\ \A i \in DOMAIN Tail(s) : Tail(s)[i] = s[i + 1]
OBVIOUS

LEMMA AppendOf ==
    ASSUME NEW S, NEW s \in Seq(S), NEW f \in S
    PROVE  /\ Append(s, f) \in Seq(S) /\ Len(s) \in Nat /\ Len(Append(s, f)) = Len(s) + 1
           /\ DOMAIN s = 1 .. Len(s) /\ DOMAIN Append(s, f) = 1 .. Len(s) + 1
           /\ \A i \in DOMAIN s : Append(s, f)[i] = s[i]
           /\ Append(s, f)[Len(s) + 1] = f
OBVIOUS

LEMMA ConcatOf ==
    ASSUME NEW S, NEW s \in Seq(S), NEW u \in Seq(S)
    PROVE  /\ s \o u \in Seq(S) /\ Len(s) \in Nat /\ Len(u) \in Nat
           /\ Len(s \o u) = Len(s) + Len(u)
           /\ DOMAIN s = 1 .. Len(s) /\ DOMAIN u = 1 .. Len(u)
           /\ DOMAIN (s \o u) = 1 .. Len(s) + Len(u)
           /\ \A i \in 1 .. Len(s) : (s \o u)[i] = s[i]
           /\ \A i \in 1 .. Len(u) : (s \o u)[Len(s) + i] = u[i]
OBVIOUS

\* The frames of some types are the same on both wires, d places further on s.
Shifted(s, u, types, d) ==
    /\ \A i \in FramesOfType(u, types) :
          i \in Int /\ i + d \in FramesOfType(s, types) /\ u[i] = s[i + d]
    /\ \A i \in FramesOfType(s, types) :
          i \in Int /\ i - d \in FramesOfType(u, types) /\ u[i - d] = s[i]

LEMMA SameFrames ==
    ASSUME NEW S, NEW s \in Seq(S), NEW types
    PROVE  Shifted(s, s, types, 0)
BY DEF Shifted, FramesOfType

\* Another frame at the end.
LEMMA FrameSent ==
    ASSUME NEW S, NEW s \in Seq(S), NEW f \in S, NEW types, f.type \notin types
    PROVE  Shifted(s, Append(s, f), types, 0)
BY AppendOf DEF Shifted, FramesOfType

\* The first frame is taken.
LEMMA FrameTaken ==
    ASSUME NEW S, NEW s \in Seq(S), s # <<>>, NEW types, Head(s).type \notin types
    PROVE  Shifted(s, Tail(s), types, 1)
<1>1. ASSUME NEW i \in FramesOfType(Tail(s), types)
      PROVE  i \in Int /\ i + 1 \in FramesOfType(s, types) /\ Tail(s)[i] = s[i + 1]
  BY TailOf DEF FramesOfType
<1>2. ASSUME NEW i \in FramesOfType(s, types)
      PROVE  i \in Int /\ i - 1 \in FramesOfType(Tail(s), types) /\ Tail(s)[i - 1] = s[i]
  <2>1. i \in 1 .. Len(s) /\ i # 1 /\ i - 1 \in 1 .. Len(s) - 1 /\ (i - 1) + 1 = i
    BY TailOf DEF FramesOfType
  <2> QED
    BY <2>1, TailOf DEF FramesOfType
<1> QED
  BY <1>1, <1>2 DEF Shifted

LEMMA NoFrames ==
    ASSUME NEW types
    PROVE  FramesOfType(<<>>, types) = {}
BY DEF FramesOfType

\* What a frame carries.
LEMMA ToBrokerTypes ==
    ASSUME NEW f \in ToBrokerFrame
    PROVE  /\ f.type = "publish" => f.arg \in Publishes /\ f.tag \in Nat
           /\ f.type \in {"ack", "reject"} => f.arg \in Nat
           /\ f.type = "consume" => f.arg \in Queues
BY DEF ToBrokerFrame

LEMMA FromBrokerTypes ==
    ASSUME NEW f \in FromBrokerFrame
    PROVE  /\ f.type = "deliver" => f.arg \in Nat /\ f.message \in Messages
           /\ f.type = "confirm" => f.arg \in Nat /\ f.multiple \in BOOLEAN
           /\ f.type \in {"deliver", "confirm", "nack"}
BY DEF FromBrokerFrame

LEMMA FramesAre ==
    /\ Frame("select", 0) \in ToBrokerFrame
    /\ \A q \in Queues : Frame("declare", q) \in ToBrokerFrame /\ Frame("consume", q) \in ToBrokerFrame
    /\ \A n \in Nat : Frame("ack", n) \in ToBrokerFrame /\ Frame("reject", n) \in ToBrokerFrame
    /\ \A p \in Publishes, n \in Nat : PublishFrame(p, n) \in ToBrokerFrame
    /\ \A n \in Nat : Frame("nack", n) \in FromBrokerFrame
    /\ \A n \in Nat, b \in BOOLEAN : Confirmation(n, b) \in FromBrokerFrame
    /\ \A n \in Nat, m \in Messages :
          [type |-> "deliver", arg |-> n, message |-> m] \in FromBrokerFrame
BY DEF Frame, PublishFrame, Confirmation, ToBrokerFrame, FromBrokerFrame

LEMMA CallbackTypes ==
    ASSUME NEW c \in Callback
    PROVE  /\ c.op \in {"on_connected", "publish", "declare", "register"}
           /\ c.op = "publish" => c.arg \in Publishes
           /\ c.op \in {"declare", "register"} => c.arg \in Queues
BY DEF Callback, Call

\* A refusal comes as far before a frame as it did when the first frame is no refusal.
LEMMA NackShift ==
    ASSUME from_broker \in Seq(FromBrokerFrame), from_broker # <<>>,
           Head(from_broker).type # "nack", from_broker' = Tail(from_broker),
           NEW k \in Int, NackedBefore(k + 1)
    PROVE  NackedBefore(k)'
<1>1. PICK i \in DOMAIN from_broker : i < k + 1 /\ from_broker[i].type = "nack"
  BY DEF NackedBefore
<1>2. i # 1 /\ i \in Nat /\ i >= 1
  BY <1>1, TailOf
<1>3. i - 1 \in DOMAIN from_broker' /\ from_broker'[i - 1] = from_broker[i] /\ i - 1 < k
  BY <1>1, <1>2, TailOf
<1> QED
  BY <1>1, <1>3 DEF NackedBefore

LEMMA NackStays ==
    ASSUME from_broker \in Seq(FromBrokerFrame), NEW f \in FromBrokerFrame,
           from_broker' = Append(from_broker, f), NEW k, NackedBefore(k)
    PROVE  NackedBefore(k)'
BY AppendOf DEF NackedBefore

-----------------------------------------------------------------------------
(* What keeps the parts of the invariant.                                  *)

\* The publishes on the wire are the same and the client counted none, nor did the
\* broker; what is awaited but neither sent nor to be confirmed may be forgotten.
LEMMA TagKept ==
    ASSUME TagInv, to_broker \in Seq(ToBrokerFrame), pika_channel,
           UNCHANGED <<published, last_publish_tag>>,
           NEW d \in {0, 1}, Shifted(to_broker, to_broker', {"publish"}, d),
           \A t \in DOMAIN unconfirmed' :
              t \in DOMAIN unconfirmed /\ unconfirmed'[t] = unconfirmed[t],
           DOMAIN confirm_deferreds' \subseteq DOMAIN confirm_deferreds,
           \A t \in DOMAIN confirm_deferreds :
              \/ t \in DOMAIN confirm_deferreds' /\ confirm_deferreds'[t] = confirm_deferreds[t]
              \/ t \notin published + 1 .. last_publish_tag /\ t \notin DOMAIN unconfirmed'
    PROVE  TagInv'
<1> DEFINE sent == FramesOfType(to_broker, {"publish"})
<1>1. \A i \in sent' : i + d \in sent /\ to_broker'[i] = to_broker[i + d] /\ i \in Int
  BY DEF Shifted
<1>2. \A i \in sent : i - d \in sent' /\ to_broker'[i - d] = to_broker[i]
  BY DEF Shifted
<1>3. \A i \in sent' :
        LET tag == to_broker'[i].tag IN
        /\ tag \in published + 1 .. last_publish_tag
        /\ tag \in DOMAIN confirm_deferreds'
        /\ confirm_deferreds'[tag] = to_broker'[i].arg
  BY <1>1 DEF TagInv
<1>4. \A i, j \in sent' : i < j => to_broker'[i].tag < to_broker'[j].tag
  <2> SUFFICES ASSUME NEW i \in sent', NEW j \in sent', i < j
               PROVE  to_broker'[i].tag < to_broker'[j].tag
    OBVIOUS
  <2>1. i + d < j + d /\ i + d \in sent /\ j + d \in sent
    BY <1>1
  <2>2. to_broker[i + d].tag < to_broker[j + d].tag
    BY <2>1 DEF TagInv
  <2> QED
    BY <1>1, <2>2
<1>5. \A t \in published + 1 .. last_publish_tag : \E i \in sent' : to_broker'[i].tag = t
  <2> SUFFICES ASSUME NEW t \in published + 1 .. last_publish_tag
               PROVE  \E i \in sent' : to_broker'[i].tag = t
    OBVIOUS
  <2>1. PICK i \in sent : to_broker[i].tag = t
    BY DEF TagInv
  <2> QED
    BY <1>2, <2>1
<1>6. /\ published' <= last_publish_tag'
      /\ DOMAIN confirm_deferreds' \subseteq 1 .. last_publish_tag'
      /\ \A t \in DOMAIN unconfirmed' :
            /\ t \in DOMAIN confirm_deferreds'
            /\ confirm_deferreds'[t] = unconfirmed'[t]
  BY DEF TagInv
<1> QED
  BY <1>3, <1>4, <1>5, <1>6 DEF TagInv

\* The broker counted and confirmed nothing, publishes that it has not counted are new,
\* and a frame other than a refusal was taken, or one other than a confirm is new.
LEMMA ConfirmKept ==
    ASSUME ConfirmInv, from_broker \in Seq(FromBrokerFrame), published \in Nat,
           UNCHANGED <<published, unconfirmed>>, stored \subseteq stored',
           \A t \in DOMAIN confirm_deferreds' :
              \/ t \in DOMAIN confirm_deferreds /\ confirm_deferreds'[t] = confirm_deferreds[t]
              \/ t \in Nat /\ t > published,
           \A t \in firing' : /\ t <= published /\ t \notin DOMAIN unconfirmed
                              /\ confirm_deferreds'[t] \in stored',
           confirmed' \subseteq stored',
           \/ from_broker' = from_broker
           \/ /\ from_broker # <<>> /\ Head(from_broker).type # "nack"
              /\ from_broker' = Tail(from_broker)
           \/ \E f \in FromBrokerFrame :
                 f.type # "confirm" /\ from_broker' = Append(from_broker, f)
    PROVE  ConfirmInv'
<1>1. ASSUME NEW k \in FramesOfType(from_broker', {"confirm"})
      PROVE  \E j \in FramesOfType(from_broker, {"confirm"}) :
                from_broker'[k] = from_broker[j] /\ (NackedBefore(j) => NackedBefore(k)')
  <2>1. CASE from_broker' = from_broker
    BY <1>1, <2>1 DEF NackedBefore
  <2>2. CASE /\ from_broker # <<>> /\ Head(from_broker).type # "nack"
             /\ from_broker' = Tail(from_broker)
    <3>1. k \in Int /\ k + 1 \in FramesOfType(from_broker, {"confirm"})
          /\ from_broker'[k] = from_broker[k + 1]
      BY <1>1, <2>2, TailOf DEF FramesOfType
    <3> QED
      BY <2>2, <3>1, NackShift
  <2>3. CASE \E f \in FromBrokerFrame :
                f.type # "confirm" /\ from_broker' = Append(from_broker, f)
    <3>1. PICK f \in FromBrokerFrame :
                 f.type # "confirm" /\ from_broker' = Append(from_broker, f)
      BY <2>3
    <3>2. k \in FramesOfType(from_broker, {"confirm"}) /\ from_broker'[k] = from_broker[k]
      BY <1>1, <3>1, AppendOf DEF FramesOfType
    <3> QED
      BY <3>1, <3>2, NackStays
  <2> QED
    BY <2>1, <2>2, <2>3
<1>2. (\E i \in DOMAIN from_broker : from_broker[i].type = "nack")
      => (\E i \in DOMAIN from_broker' : from_broker'[i].type = "nack")
  <2> SUFFICES ASSUME NEW i \in DOMAIN from_broker, from_broker[i].type = "nack"
               PROVE  \E j \in DOMAIN from_broker' : from_broker'[j].type = "nack"
    OBVIOUS
  <2>1. CASE from_broker' = from_broker
    BY <2>1
  <2>2. CASE /\ from_broker # <<>> /\ Head(from_broker).type # "nack"
             /\ from_broker' = Tail(from_broker)
    <3>1. i \in 1 .. Len(from_broker) /\ i # 1 /\ Len(from_broker) \in Nat
      BY <2>2, TailOf
    <3>2. i - 1 \in 1 .. Len(from_broker) - 1 /\ (i - 1) + 1 = i
      BY <3>1
    <3> QED
      BY <2>2, <3>2, TailOf
  <2>3. CASE \E f \in FromBrokerFrame :
                f.type # "confirm" /\ from_broker' = Append(from_broker, f)
    BY <2>3, AppendOf
  <2> QED
    BY <2>1, <2>2, <2>3
<1>3. NackedBefore(Len(from_broker) + 1) => (NackedBefore(Len(from_broker) + 1))'
  <2>1. NackedBefore(Len(from_broker) + 1)
        => \E i \in DOMAIN from_broker : from_broker[i].type = "nack"
    BY DEF NackedBefore
  <2>2. from_broker' \in Seq(FromBrokerFrame)
    BY SMTT(45), TailOf, AppendOf
  <2>3. \A i \in DOMAIN from_broker' : i < Len(from_broker') + 1
    BY <2>2
  <2> QED
    BY <1>2, <2>1, <2>3 DEF NackedBefore
<1>4. \A t \in DOMAIN confirm_deferreds' :
        t <= published' => \/ t \in DOMAIN unconfirmed'
                           \/ confirm_deferreds'[t] \in stored'
                           \/ (NackedBefore(Len(from_broker) + 1))'
  BY <1>3 DEF ConfirmInv
<1>5. ASSUME NEW k \in FramesOfType(from_broker', {"confirm"})
      PROVE  /\ from_broker'[k].arg <= published'
             /\ \A t \in ConfirmTags(from_broker[k].arg, from_broker[k].multiple)' :
                   /\ t \notin DOMAIN unconfirmed'
                   /\ confirm_deferreds'[t] \in stored' \/ NackedBefore(k)'
  <2>1. PICK j \in FramesOfType(from_broker, {"confirm"}) :
                from_broker'[k] = from_broker[j] /\ (NackedBefore(j) => NackedBefore(k)')
    BY <1>1, <1>5
  <2>2. from_broker[j].arg \in Nat /\ from_broker[j].arg <= published
    BY FromBrokerTypes DEF FramesOfType, ConfirmInv
  <2>3. \A t \in ConfirmTags(from_broker[k].arg, from_broker[k].multiple)' :
           t \in ConfirmTags(from_broker[j].arg, from_broker[j].multiple)
              /\ confirm_deferreds'[t] = confirm_deferreds[t]
    BY <2>1, <2>2 DEF ConfirmTags
  <2> QED
    BY <2>1, <2>2, <2>3 DEF ConfirmInv
<1> QED
  BY <1>4, <1>5 DEF ConfirmInv

\* The frames that bring and settle messages are the same.
LEMMA StageKept ==
    ASSUME StageInv, UNCHANGED <<exit, handling, unacked>>,
           NEW d \in {0, 1}, Shifted(to_broker, to_broker', {"ack", "reject"}, d),
           NEW e \in {0, 1}, Shifted(from_broker, from_broker', {"deliver"}, e)
    PROVE  StageInv'
<1> DEFINE deliveries  == FramesOfType(from_broker, {"deliver"})
           settlements == FramesOfType(to_broker, {"ack", "reject"})
<1>1. \A i \in deliveries' :
        i \in Int /\ i + e \in deliveries /\ from_broker'[i] = from_broker[i + e]
  BY DEF Shifted
<1>2. \A i \in deliveries : i - e \in deliveries' /\ from_broker'[i - e] = from_broker[i]
  BY DEF Shifted
<1>3. \A i \in settlements' :
        i \in Int /\ i + d \in settlements /\ to_broker'[i] = to_broker[i + d]
  BY DEF Shifted
<1>4. \A i \in settlements : i - d \in settlements' /\ to_broker'[i - d] = to_broker[i]
  BY DEF Shifted
<1>5. \A i, j \in deliveries' : from_broker'[i].arg = from_broker'[j].arg => i = j
  <2> SUFFICES ASSUME NEW i \in deliveries', NEW j \in deliveries',
                      from_broker'[i].arg = from_broker'[j].arg
               PROVE  i = j
    OBVIOUS
  <2>1. i + e = j + e
    BY <1>1 DEF StageInv
  <2> QED
    BY <1>1, <2>1
<1>6. \A i, j \in settlements' : to_broker'[i].arg = to_broker'[j].arg => i = j
  <2> SUFFICES ASSUME NEW i \in settlements', NEW j \in settlements',
                      to_broker'[i].arg = to_broker'[j].arg
               PROVE  i = j
    OBVIOUS
  <2>1. i + d = j + d
    BY <1>3 DEF StageInv
  <2> QED
    BY <1>3, <2>1
<1>7. Running' => \A t \in DOMAIN unacked' :
              \/ t \in DOMAIN handling'
              \/ \E i \in deliveries' : from_broker'[i].arg = t
              \/ \E i \in settlements' : to_broker'[i].arg = t
  BY <1>2, <1>4 DEF StageInv, Running
<1>8. /\ \A i \in deliveries' :
              /\ from_broker'[i].arg \in DOMAIN unacked' \ DOMAIN handling'
              /\ unacked'[from_broker'[i].arg] = from_broker'[i].message
      /\ \A i \in settlements' : to_broker'[i].arg \in DOMAIN unacked' \ DOMAIN handling'
      /\ \A i \in deliveries', j \in settlements' : from_broker'[i].arg # to_broker'[j].arg
  BY <1>1, <1>3 DEF StageInv
<1>9. /\ DOMAIN handling' \subseteq DOMAIN unacked'
      /\ \A r, s \in DOMAIN handling' : r # s => handling'[r] \cap handling'[s] = {}
  BY DEF StageInv
<1> QED
  BY <1>5, <1>6, <1>7, <1>8, <1>9 DEF StageInv

\* No message and no handler moves, and the acknowledgements are the same.
LEMMA DeliveryKept ==
    ASSUME DeliveryInv, UNCHANGED <<handling, unacked, ready, dead>>, stored \subseteq stored',
           NEW d \in {0, 1}, Shifted(to_broker, to_broker', {"ack"}, d),
           \A r \in DOMAIN handling : \A t \in handling[r] :
              confirm_deferreds'[t] = confirm_deferreds[t]
    PROVE  DeliveryInv'
<1>1. \A k \in FramesOfType(to_broker, {"ack"})' :
        k + d \in FramesOfType(to_broker, {"ack"}) /\ to_broker'[k] = to_broker[k + d]
  BY DEF Shifted
<1>2. \A r \in DOMAIN handling' : \A p \in ToSet(Outputs[unacked'[r]]) :
          p \in stored' \/ \E t \in handling'[r] : confirm_deferreds'[t] = p
  BY DEF DeliveryInv
<1>3. \A k \in FramesOfType(to_broker, {"ack"})' :
          ToSet(Outputs[unacked'[to_broker'[k].arg]]) \subseteq stored'
  BY <1>1 DEF DeliveryInv
<1>4. \A m \in Messages :
          \/ m \in ready' \cup dead'
          \/ \E t \in DOMAIN unacked' : unacked'[t] = m
          \/ ToSet(Outputs[m]) \subseteq stored'
  BY DEF DeliveryInv
<1> QED
  BY <1>2, <1>3, <1>4 DEF DeliveryInv

LEMMA ResultKept ==
    ASSUME ChannelUntilPublish, UNCHANGED <<result, last_publish_tag>>
    PROVE  ChannelUntilPublish'
BY DEF ChannelUntilPublish

-----------------------------------------------------------------------------
(* Steps of several actions.                                               *)

\* The process ends: what it waited for is forgotten and it has no channel.
LEMMA ExitIInv ==
    ASSUME IInv, NEW code \in ExitCodes, Exit(code), UNCHANGED <<brokerVars, confirmed>>,
           faults' \in 0 .. MaxFaults
    PROVE  IInv'
<1>0. /\ exit' = code /\ todo' = Calls /\ connection' = "disconnected" /\ connection_attempts' = 0
      /\ callbacks' = <<>> /\ result' = "pending" /\ pika_channel' = FALSE
      /\ last_publish_tag' = 0 /\ confirm_deferreds' = NoTags /\ firing' = {} /\ handling' = NoTags
      /\ from_broker' = <<>> /\ DOMAIN NoTags = {} /\ code # "running"
  BY DEF Exit, ResetProcess, NoTags, ExitCodes
<1>1. PICK n \in 0 .. Len(to_broker) : to_broker' = SubSeq(to_broker, 1, n)
  BY DEF Exit
<1>2. /\ to_broker \in Seq(ToBrokerFrame) /\ to_broker' \in Seq(ToBrokerFrame)
      /\ \A types : \A i \in FramesOfType(to_broker', types) :
            i \in FramesOfType(to_broker, types) /\ to_broker'[i] = to_broker[i]
  BY <1>1 DEF IInv, ChannelInv, FramesOfType
<1>3. UNCHANGED <<ready, unacked, delivered, consumers, dead, confirming, published, unconfirmed,
                  unstored, stored, confirmed>>
  BY DEF brokerVars, consumeVars, confirmVars
<1>4. TypeOK'
  <2>1. /\ \A t \in DOMAIN unacked : t \in 1..delivered /\ unacked[t] \in Messages
        /\ ready \cup dead \subseteq Messages /\ consumers \subseteq Queues
        /\ DOMAIN unconfirmed \subseteq 1..published
        /\ unstored \cup stored \cup confirmed \subseteq Publishes
    BY DEF IInv, TypeOK
  <2>2. todo' \in Seq(Call) /\ connection_attempts' \in 0 .. ConnectionAttempts
    BY <1>0, ClientAssumption
  <2>3. /\ DOMAIN confirm_deferreds' = {} /\ DOMAIN handling' = {} /\ DOMAIN callbacks' = {}
        /\ firing' = {} /\ last_publish_tag' \in Nat
    BY <1>0
  <2>4. /\ exit' \in {"running"} \cup ExitCodes
        /\ connection' \in {"disconnected", "open"} \cup Connecting
        /\ (connection' = "disconnected") = (connection_attempts' = 0)
        /\ result' \in {"pending", "channel", "None"}
        /\ (result' # "pending") = (connection' = "open")
        /\ pika_channel' \in BOOLEAN /\ ~pika_channel'
    BY <1>0
  <2> QED
    BY <1>3, <2>1, <2>2, <2>3, <2>4 DEF TypeOK
<1>5. ChannelInv'
  BY <1>0, <1>2, <1>3 DEF IInv, ChannelInv, Running
<1>6. SelectInv'
  BY <1>0, <1>3 DEF IInv, SelectInv
<1>7. TagInv'
  BY <1>0 DEF TagInv
<1>8. ConfirmInv'
  <2>1. FramesOfType(from_broker', {"confirm"}) = {}
    BY <1>0, NoFrames
  <2> QED
    BY <1>0, <1>3, <2>1 DEF IInv, ConfirmInv
<1>9. StageInv'
  <2>1. FramesOfType(from_broker', {"deliver"}) = {}
    BY <1>0, NoFrames
  <2>2. ~Running'
    BY <1>0 DEF Running
  <2>3. /\ \A i \in FramesOfType(to_broker', {"ack", "reject"}) :
              to_broker'[i].arg \in DOMAIN unacked' \ DOMAIN handling'
        /\ \A i, j \in FramesOfType(to_broker', {"ack", "reject"}) :
              to_broker'[i].arg = to_broker'[j].arg => i = j
    BY <1>0, <1>2, <1>3 DEF IInv, StageInv
  <2> QED
    BY <1>0, <2>1, <2>2, <2>3 DEF StageInv
<1>10. AllAwaited => DeliveryInv'
  BY <1>0, <1>2, <1>3 DEF IInv, DeliveryInv
<1>11. ChannelUntilPublish'
  BY <1>0 DEF ChannelUntilPublish
<1> QED
  BY <1>4, <1>5, <1>6, <1>7, <1>8, <1>9, <1>10, <1>11 DEF IInv

\* The process neither publishes nor hears of a publish or a message.
LEMMA QuietIInv ==
    ASSUME IInv, UNCHANGED <<exit, last_publish_tag, pendingVars, from_broker, brokerVars,
                             confirmed>>,
           \/ to_broker' = to_broker
           \/ \E f \in ToBrokerFrame :
                 f.type \in {"select", "declare", "consume"} /\ to_broker' = Append(to_broker, f),
           \/ pika_channel' = pika_channel
           \/ Running /\ pika_channel' /\ to_broker' = <<Frame("select", 0)>>,
           TypeOK', ChannelInv', ChannelUntilPublish'
    PROVE  IInv'
<1>1. /\ UNCHANGED <<confirm_deferreds, firing, handling>>
      /\ UNCHANGED <<ready, unacked, delivered, consumers, dead, confirming, published,
                     unconfirmed, unstored, stored>>
  BY DEF pendingVars, brokerVars, consumeVars, confirmVars
<1>2. to_broker \in Seq(ToBrokerFrame) /\ from_broker \in Seq(FromBrokerFrame)
  BY DEF IInv, ChannelInv
<1>3. \A types : types \subseteq {"publish", "ack", "reject"}
         => Shifted(to_broker, to_broker', types, 0)
  <2> SUFFICES ASSUME NEW types, types \subseteq {"publish", "ack", "reject"}
               PROVE  Shifted(to_broker, to_broker', types, 0)
    OBVIOUS
  <2>1. CASE to_broker' = to_broker
    BY <1>2, <2>1, SameFrames
  <2>2. CASE \E f \in ToBrokerFrame :
                f.type \in {"select", "declare", "consume"} /\ to_broker' = Append(to_broker, f)
    <3>1. PICK f \in ToBrokerFrame :
             f.type \in {"select", "declare", "consume"} /\ to_broker' = Append(to_broker, f)
      BY <2>2
    <3>2. f.type \notin types
      BY <3>1
    <3> QED
      BY <1>2, <3>1, <3>2, FrameSent
  <2> QED
    BY <2>1, <2>2
<1>4. Shifted(from_broker, from_broker', {"deliver"}, 0)
  BY <1>2, SameFrames
<1>5. SelectInv'
  <2>1. CASE pika_channel' = pika_channel
    <3>1. to_broker # <<>> => to_broker' # <<>> /\ Head(to_broker') = Head(to_broker)
      BY <1>2
    <3> QED
      BY <1>1, <2>1, <3>1 DEF IInv, SelectInv
  <2>2. CASE to_broker' = <<Frame("select", 0)>>
    <3>1. to_broker' # <<>> /\ Head(to_broker').type = "select"
      BY <2>2 DEF Frame
    <3> QED
      BY <1>1, <3>1 DEF IInv, SelectInv
  <2> QED
    BY <2>1, <2>2
<1>6. TagInv'
  <2>1. CASE ~pika_channel'
    BY <2>1 DEF TagInv
  <2>2. CASE pika_channel
    <3>1. Shifted(to_broker, to_broker', {"publish"}, 0)
      BY <1>3
    <3> QED
      BY <1>1, <1>2, <2>2, <3>1, TagKept DEF IInv
  <2>3. CASE ~pika_channel /\ pika_channel'
    <3>1. /\ last_publish_tag = 0 /\ confirm_deferreds = NoTags
          /\ published = 0 /\ unconfirmed = NoTags
      BY <2>3 DEF IInv, ChannelInv, NoChannel
    <3>2. to_broker' = <<Frame("select", 0)>>
      BY <2>3
    <3>3. DOMAIN to_broker' = 1 .. 1 /\ to_broker'[1].type = "select"
      BY <3>2 DEF Frame
    <3>4. FramesOfType(to_broker', {"publish"}) = {}
      BY <3>3 DEF FramesOfType
    <3> QED
      BY <1>1, <3>1, <3>4 DEF TagInv, NoTags
  <2> QED
    BY <2>1, <2>2, <2>3
<1>7. ConfirmInv'
  <2>1. published \in Nat
    BY DEF IInv, ChannelInv
  <2> QED
    BY <1>1, <1>2, <2>1, ConfirmKept DEF IInv, ConfirmInv
<1>8. StageInv'
  <2>1. Shifted(to_broker, to_broker', {"ack", "reject"}, 0)
    BY <1>3
  <2> QED
    BY <1>1, <1>4, <2>1, StageKept DEF IInv
<1>9. AllAwaited => DeliveryInv'
  <2>1. Shifted(to_broker, to_broker', {"ack"}, 0)
    BY <1>3
  <2> QED
    BY <1>1, <2>1, DeliveryKept DEF IInv
<1> QED
  BY <1>5, <1>6, <1>7, <1>8, <1>9 DEF IInv

-----------------------------------------------------------------------------
(* The calls and the connection.                                           *)

USE DEF managerVars, channelVars, pendingVars, processVars, wireVars, consumeVars, confirmVars,
        brokerVars

LEMMA CallImmediatelyIInv ==
    ASSUME IInv, CallImmediately
    PROVE  IInv'
<1>1. /\ todo \in Seq(Call) /\ Head(todo) \in Call /\ todo' = Tail(todo) /\ todo' \in Seq(Call)
      /\ Head(todo).op = "declare" /\ pika_channel
  BY DEF IInv, TypeOK, CallImmediately
<1>2. Head(todo).arg \in Queues
  BY <1>1 DEF Call
<1>3. PICK f \in ToBrokerFrame :
         f.type = "declare" /\ to_broker' = Append(to_broker, f)
  BY <1>2, FramesAre DEF CallImmediately, Frame
<1>4. to_broker' \in Seq(ToBrokerFrame)
  BY <1>3, AppendOf DEF IInv, ChannelInv
<1>5. TypeOK'
  BY <1>1 DEF IInv, TypeOK, CallImmediately
<1>6. ChannelInv'
  BY <1>1, <1>4 DEF IInv, ChannelInv, CallImmediately, Running
<1>7. ChannelUntilPublish'
  BY ResultKept DEF IInv, CallImmediately
<1> QED
  BY <1>3, <1>5, <1>6, <1>7, QuietIInv DEF CallImmediately

LEMMA CallConnectedIInv ==
    ASSUME IInv, CallConnected
    PROVE  IInv'
<1> DEFINE c == Head(todo)
<1>1. /\ todo \in Seq(Call) /\ c \in Call /\ todo' = Tail(todo) /\ todo' \in Seq(Call)
      /\ callbacks \in Seq(Callback)
      /\ callbacks' = callbacks \o <<[op |-> "on_connected", arg |-> c.arg], c>>
      /\ ~(c.op = "declare" /\ pika_channel) /\ todo # <<>>
  BY DEF IInv, TypeOK, ChannelInv, CallConnected, CallbacksOf
<1>2. c \in Callback /\ [op |-> "on_connected", arg |-> c.arg] \in Callback
  BY <1>1 DEF Call, Callback
<1>3. /\ callbacks' \in Seq(Callback) /\ Len(callbacks) \in Nat
      /\ DOMAIN callbacks = 1 .. Len(callbacks) /\ DOMAIN callbacks' = 1 .. Len(callbacks) + 2
      /\ \A i \in DOMAIN callbacks : callbacks'[i] = callbacks[i]
      /\ callbacks'[Len(callbacks) + 1].op = "on_connected"
      /\ callbacks'[Len(callbacks) + 2] = c
      /\ callbacks' # <<>> /\ Head(callbacks') = callbacks'[1]
  BY <1>1, <1>2
<1>4. TypeOK'
  <2>1. \A i \in DOMAIN callbacks' :
            callbacks'[i].op \in {"on_connected", "publish", "declare", "register"}
    BY <1>3, CallbackTypes
  <2> QED
    BY SMTT(45), <1>1, <2>1, ClientAssumption DEF IInv, TypeOK, CallConnected, Connect, Connecting
<1>5. ChannelInv'
  <2>1. ~pika_channel => Head(callbacks').op = "on_connected"
    <3>1. callbacks # <<>> => Head(callbacks) = callbacks[1] /\ 1 \in DOMAIN callbacks
      BY <1>1
    <3>2. callbacks = <<>> => Len(callbacks) = 0
      OBVIOUS
    <3> QED
      BY <1>3, <3>1, <3>2 DEF IInv, ChannelInv
  <2>2. connection' = "waiting" => connection = "waiting" /\ UNCHANGED connection_attempts
    BY DEF CallConnected, Connect
  <2> QED
    BY <1>3, <2>1, <2>2 DEF IInv, ChannelInv, CallConnected, Idle, Running, NoChannel
<1>6. ChannelUntilPublish'
  BY ResultKept DEF IInv, CallConnected
<1> QED
  BY <1>4, <1>5, <1>6, QuietIInv DEF CallConnected

LEMMA OnConnectTCPIInv ==
    ASSUME IInv, OnConnectTCP
    PROVE  IInv'
<1>1. TypeOK'
  BY DEF IInv, TypeOK, OnConnectTCP, Connecting
<1>2. ChannelInv'
  BY DEF IInv, ChannelInv, OnConnectTCP, Running, NoChannel
<1>3. ChannelUntilPublish'
  BY ResultKept DEF IInv, OnConnectTCP
<1> QED
  BY <1>1, <1>2, <1>3, QuietIInv DEF OnConnectTCP

LEMMA OnConnectTCPFailedIInv ==
    ASSUME IInv, OnConnectTCPFailed
    PROVE  IInv'
<1>1. CASE LastAttempt
  <2>1. faults' \in 0 .. MaxFaults
    BY DEF IInv, TypeOK, OnConnectTCPFailed
  <2> QED
    BY <1>1, <2>1, ExitIInv DEF OnConnectTCPFailed, ExitCodes
<1>2. CASE ~LastAttempt
  <2>1. TypeOK'
    BY <1>2 DEF IInv, TypeOK, OnConnectTCPFailed, Connecting
  <2>2. ChannelInv'
    BY <1>2, ClientAssumption
    DEF IInv, TypeOK, ChannelInv, OnConnectTCPFailed, LastAttempt, Running, NoChannel
  <2>3. ChannelUntilPublish'
    BY <1>2, ResultKept DEF IInv, OnConnectTCPFailed
  <2> QED
    BY <1>2, <2>1, <2>2, <2>3, QuietIInv DEF OnConnectTCPFailed
<1> QED
  BY <1>1, <1>2

LEMMA AttemptToConnectIInv ==
    ASSUME IInv, AttemptToConnect
    PROVE  IInv'
<1>1. TypeOK'
  BY ClientAssumption DEF IInv, TypeOK, ChannelInv, AttemptToConnect, Connecting
<1>2. ChannelInv'
  BY DEF IInv, ChannelInv, AttemptToConnect, Idle, Running, NoChannel
<1>3. ChannelUntilPublish'
  BY ResultKept DEF IInv, AttemptToConnect
<1> QED
  BY <1>1, <1>2, <1>3, QuietIInv DEF AttemptToConnect

\* The connect deferred is called back with the channel.
LEMMA FinishOnReadyResult ==
    ASSUME IInv, result = "pending", FinishOnReady, UNCHANGED last_publish_tag
    PROVE  ChannelUntilPublish'
BY DEF IInv, TypeOK, ChannelInv, ChannelUntilPublish, FinishOnReady

LEMMA SetChannelAndQosIInv ==
    ASSUME IInv, SetChannelAndQos
    PROVE  IInv'
<1>1. TypeOK'
  BY DEF IInv, TypeOK, SetChannelAndQos, FinishOnReady, Connecting
<1>2. ChannelInv'
  BY DEF IInv, ChannelInv, SetChannelAndQos, FinishOnReady, Running, NoChannel
<1>3. ChannelUntilPublish'
  BY ResultKept, FinishOnReadyResult DEF IInv, TypeOK, SetChannelAndQos
<1> QED
  BY <1>1, <1>2, <1>3, QuietIInv DEF SetChannelAndQos

LEMMA QosOkIInv ==
    ASSUME IInv, QosOk
    PROVE  IInv'
<1>1. TypeOK'
  BY DEF IInv, TypeOK, QosOk, FinishOnReady, Connecting
<1>2. ChannelInv'
  BY DEF IInv, ChannelInv, QosOk, FinishOnReady, Running, NoChannel
<1>3. ChannelUntilPublish'
  BY FinishOnReadyResult DEF IInv, TypeOK, QosOk
<1> QED
  BY <1>1, <1>2, <1>3, QuietIInv DEF QosOk

-----------------------------------------------------------------------------
(* The callbacks of the connect deferred.                                  *)

\* Whatever callback runs, its channel is there or it sets it.
LEMMA RunCallbackFacts ==
    ASSUME IInv, NEW op, RunCallback(op), callbacks' = Tail(callbacks)
    PROVE  /\ callbacks \in Seq(Callback) /\ callbacks # <<>> /\ callbacks' \in Seq(Callback)
           /\ Head(callbacks) \in Callback /\ Head(callbacks).op = op
           /\ \A i \in DOMAIN callbacks' :
                 callbacks'[i].op \in {"on_connected", "publish", "declare", "register"}
           /\ connection = "open" /\ result # "pending" /\ Running
           /\ op # "on_connected" => pika_channel
<1>1. callbacks \in Seq(Callback) /\ callbacks # <<>> /\ callbacks' \in Seq(Callback)
  BY DEF IInv, ChannelInv, RunCallback
<1>2. \A i \in DOMAIN callbacks' : callbacks'[i] \in Callback
  BY <1>1
<1> QED
  BY <1>1, <1>2, CallbackTypes DEF IInv, TypeOK, ChannelInv, RunCallback

LEMMA OnConnectedIInv ==
    ASSUME IInv, OnConnected
    PROVE  IInv'
<1>1. /\ callbacks \in Seq(Callback) /\ callbacks # <<>> /\ callbacks' \in Seq(Callback)
      /\ \A i \in DOMAIN callbacks' :
            callbacks'[i].op \in {"on_connected", "publish", "declare", "register"}
      /\ result # "pending" /\ Running
  BY RunCallbackFacts DEF OnConnected
<1>2. TypeOK'
  BY <1>1 DEF IInv, TypeOK, OnConnected, ChannelReturned
<1>3. \/ pika_channel' = pika_channel /\ to_broker' = to_broker
      \/ pika_channel' /\ to_broker' = <<Frame("select", 0)>>
  <2>1. CASE pika_channel
    BY <2>1 DEF OnConnected, IInv, TypeOK
  <2>2. CASE ~pika_channel
    <3>1. to_broker = <<>>
      BY <1>1, <2>2 DEF IInv, ChannelInv
    <3> QED
      BY <2>2, <3>1 DEF OnConnected
  <2> QED
    BY <2>1, <2>2
<1>4. ChannelInv'
  <2>1. to_broker' \in Seq(ToBrokerFrame)
    <3>1. <<Frame("select", 0)>> \in Seq(ToBrokerFrame)
      BY FramesAre
    <3> QED
      BY <1>3, <3>1 DEF IInv, ChannelInv
  <2> QED
    BY <1>1, <2>1 DEF IInv, ChannelInv, OnConnected, Running
<1>5. ChannelUntilPublish'
  BY ResultKept DEF IInv, OnConnected, ChannelReturned
<1>6. \/ to_broker' = to_broker
      \/ \E f \in ToBrokerFrame :
            f.type \in {"select", "declare", "consume"} /\ to_broker' = Append(to_broker, f)
  BY FramesAre DEF OnConnected, Frame
<1> QED
  BY <1>1, <1>2, <1>3, <1>4, <1>5, <1>6, QuietIInv DEF OnConnected

\* A callback that sends one frame, and that is no publish.
LEMMA CallbackIInv ==
    ASSUME IInv, NEW op, op # "on_connected", RunCallback(op), callbacks' = Tail(callbacks),
           NEW f \in ToBrokerFrame, f.type \in {"select", "declare", "consume"},
           to_broker' = Append(to_broker, f),
           UNCHANGED <<exit, todo, managerVars, result, pika_channel, last_publish_tag,
                       pendingVars, from_broker, brokerVars, confirmed, faults>>
    PROVE  IInv'
<1>1. /\ callbacks \in Seq(Callback) /\ callbacks # <<>> /\ callbacks' \in Seq(Callback)
      /\ \A i \in DOMAIN callbacks' :
            callbacks'[i].op \in {"on_connected", "publish", "declare", "register"}
      /\ pika_channel /\ Running
  BY RunCallbackFacts
<1>2. TypeOK'
  BY <1>1 DEF IInv, TypeOK
<1>3. ChannelInv'
  <2>1. to_broker' \in Seq(ToBrokerFrame)
    BY AppendOf DEF IInv, ChannelInv
  <2> QED
    BY <1>1, <2>1 DEF IInv, ChannelInv, Running
<1>4. ChannelUntilPublish'
  BY ResultKept DEF IInv
<1> QED
  BY <1>2, <1>3, <1>4, QuietIInv

LEMMA DoOnChannelIInv ==
    ASSUME IInv, DoOnChannel
    PROVE  IInv'
<1>1. CASE result = "None"
  <2>1. faults' \in 0 .. MaxFaults
    BY DEF IInv, TypeOK, DoOnChannel
  <2> QED
    BY <1>1, <2>1, ExitIInv DEF DoOnChannel, ExitCodes
<1>2. CASE result # "None"
  <2>1. RunCallback("declare") /\ callbacks' = Tail(callbacks)
    BY <1>2 DEF DoOnChannel
  <2>2. Head(callbacks).arg \in Queues
    BY <2>1, RunCallbackFacts, CallbackTypes
  <2>3. /\ Frame("declare", Head(callbacks).arg) \in ToBrokerFrame
        /\ Frame("declare", Head(callbacks).arg).type = "declare"
    BY <2>2, FramesAre DEF Frame
  <2> QED
    BY <1>2, <2>1, <2>3, CallbackIInv DEF DoOnChannel, ChannelReturned
<1> QED
  BY <1>1, <1>2

LEMMA StartHandlerIInv ==
    ASSUME IInv, StartHandler
    PROVE  IInv'
<1>1. RunCallback("register") /\ callbacks' = Tail(callbacks)
  BY DEF StartHandler
<1>2. Head(callbacks).arg \in Queues
  BY <1>1, RunCallbackFacts, CallbackTypes
<1>3. /\ Frame("consume", Head(callbacks).arg) \in ToBrokerFrame
      /\ Frame("consume", Head(callbacks).arg).type = "consume"
  BY <1>2, FramesAre DEF Frame
<1> QED
  BY <1>1, <1>3, CallbackIInv DEF StartHandler

-----------------------------------------------------------------------------
(* The process ends and is started again.                                  *)

LEMMA ProcessEndsIInv ==
    ASSUME IInv, OnPikaConnectionClosed \/ Killed \/ OnPublisherConfirmNack
    PROVE  IInv'
<1>1. faults \in 0 .. MaxFaults /\ MaxFaults \in Nat
  BY ClientAssumption DEF IInv, TypeOK
<1>2. CASE OnPikaConnectionClosed
  <2>1. faults' \in 0 .. MaxFaults
    BY <1>1, <1>2 DEF OnPikaConnectionClosed, Faulty
  <2> QED
    BY <1>2, <2>1, ExitIInv DEF OnPikaConnectionClosed, ExitCodes
<1>3. CASE Killed
  <2>1. faults' \in 0 .. MaxFaults
    BY <1>1, <1>3 DEF Killed, Faulty
  <2> QED
    BY <1>3, <2>1, ExitIInv DEF Killed, ExitCodes
<1>4. CASE OnPublisherConfirmNack
  <2>1. faults' \in 0 .. MaxFaults
    BY <1>1, <1>4 DEF OnPublisherConfirmNack
  <2> QED
    BY <1>4, <2>1, ExitIInv DEF OnPublisherConfirmNack, ExitCodes
<1> QED
  BY <1>2, <1>3, <1>4

LEMMA RestartIInv ==
    ASSUME IInv, Restart
    PROVE  IInv'
<1>1. /\ to_broker = <<>> /\ unacked = NoTags /\ delivered = 0 /\ consumers = {}
      /\ confirming = FALSE /\ published = 0 /\ unconfirmed = NoTags /\ ~Running
      /\ UNCHANGED <<todo, connection, connection_attempts, callbacks, result, pika_channel,
                     last_publish_tag, confirm_deferreds, firing, handling, to_broker,
                     from_broker, ready, unacked, delivered, consumers, dead, confirming,
                     published, unconfirmed, unstored, stored, confirmed, faults>>
  BY DEF Restart, NoChannel
<1>2. /\ connection_attempts = 0 /\ ~pika_channel /\ callbacks = <<>>
      /\ connection = "disconnected" /\ from_broker = <<>>
  BY <1>1 DEF IInv, TypeOK, ChannelInv
<1>3. TypeOK'
  BY <1>1 DEF IInv, TypeOK, Restart
<1>4. ChannelInv'
  BY <1>1, <1>2 DEF IInv, ChannelInv, Running, NoChannel
<1>5. SelectInv'
  BY <1>1 DEF IInv, SelectInv
<1>6. TagInv'
  BY <1>1, <1>2 DEF TagInv
<1>7. ConfirmInv'
  BY <1>1, ConfirmKept DEF IInv, ChannelInv, ConfirmInv
<1>8. StageInv'
  <2>1. /\ FramesOfType(from_broker', {"deliver"}) = {}
        /\ FramesOfType(to_broker', {"ack", "reject"}) = {}
        /\ DOMAIN unacked' = {} /\ DOMAIN handling' = {}
    BY <1>1, <1>2, NoFrames DEF NoTags, IInv, ChannelInv
  <2> QED
    BY <2>1 DEF StageInv
<1>9. AllAwaited => DeliveryInv'
  <2>1. Shifted(to_broker, to_broker', {"ack"}, 0)
    BY <1>1, SameFrames DEF IInv, ChannelInv
  <2> QED
    BY <1>1, <2>1, DeliveryKept DEF IInv
<1>10. ChannelUntilPublish'
  BY <1>1, ResultKept DEF IInv
<1> QED
  BY <1>3, <1>4, <1>5, <1>6, <1>7, <1>8, <1>9, <1>10 DEF IInv

-----------------------------------------------------------------------------
(* PublisherConfirmManager                                                 *)

\* The first frame from the broker is taken.
LEMMA FromBrokerTaken ==
    ASSUME IInv, from_broker # <<>>, from_broker' = Tail(from_broker)
    PROVE  /\ from_broker \in Seq(FromBrokerFrame) /\ from_broker' \in Seq(FromBrokerFrame)
           /\ Head(from_broker) \in FromBrokerFrame
           /\ 1 \in DOMAIN from_broker /\ from_broker[1] = Head(from_broker)
           /\ pika_channel /\ Running
BY TailOf DEF IInv, ChannelInv

LEMMA OnPublisherConfirmAckIInv ==
    ASSUME IInv, OnPublisherConfirmAck
    PROVE  IInv'
<1>1. /\ from_broker \in Seq(FromBrokerFrame) /\ from_broker' \in Seq(FromBrokerFrame)
      /\ 1 \in FramesOfType(from_broker, {"confirm"}) /\ from_broker[1] = Head(from_broker)
      /\ Head(from_broker) \in FromBrokerFrame /\ Head(from_broker).type = "confirm"
      /\ from_broker # <<>> /\ from_broker' = Tail(from_broker)
      /\ pika_channel /\ Running
  BY FromBrokerTaken DEF OnPublisherConfirmAck, FramesOfType
<1>2. to_broker \in Seq(ToBrokerFrame)
  BY DEF IInv, ChannelInv
<1>3. \A t \in firing' :
        /\ t \in DOMAIN confirm_deferreds /\ t <= published /\ t \notin DOMAIN unconfirmed
        /\ confirm_deferreds[t] \in stored
  <2> SUFFICES ASSUME NEW t \in firing'
               PROVE  /\ t \in DOMAIN confirm_deferreds /\ t <= published
                      /\ t \notin DOMAIN unconfirmed /\ confirm_deferreds[t] \in stored
    OBVIOUS
  <2>1. t \in ConfirmTags(from_broker[1].arg, from_broker[1].multiple)
    BY <1>1 DEF OnPublisherConfirmAck
  <2>2. ~NackedBefore(1)
    BY <1>1, TailOf DEF NackedBefore
  <2>3. from_broker[1].arg <= published /\ from_broker[1].arg \in Nat /\ published \in Nat
    BY <1>1, FromBrokerTypes DEF IInv, ChannelInv, ConfirmInv
  <2>4. t \in DOMAIN confirm_deferreds /\ t \in Nat /\ t <= from_broker[1].arg
    BY <2>1, <2>3 DEF ConfirmTags, IInv, TypeOK
  <2>5. t \notin DOMAIN unconfirmed /\ (confirm_deferreds[t] \in stored \/ NackedBefore(1))
    BY <1>1, <2>1 DEF IInv, ConfirmInv
  <2> QED
    BY <2>2, <2>3, <2>4, <2>5
<1>4. TypeOK'
  BY <1>3 DEF IInv, TypeOK, OnPublisherConfirmAck
<1>5. ChannelInv'
  BY <1>1 DEF IInv, ChannelInv, OnPublisherConfirmAck, Running
<1>6. SelectInv'
  BY DEF IInv, SelectInv, OnPublisherConfirmAck
<1>7. TagInv'
  <2>1. Shifted(to_broker, to_broker', {"publish"}, 0)
    BY <1>2, SameFrames DEF OnPublisherConfirmAck
  <2> QED
    BY <1>1, <1>2, <2>1, TagKept DEF IInv, OnPublisherConfirmAck
<1>8. ConfirmInv'
  <2>1. published \in Nat
    BY DEF IInv, ChannelInv
  <2>2. Head(from_broker).type # "nack"
    BY <1>1
  <2> QED
    BY <1>1, <1>3, <2>1, <2>2, ConfirmKept DEF IInv, ConfirmInv, OnPublisherConfirmAck
<1>9. StageInv'
  <2>1. Shifted(to_broker, to_broker', {"ack", "reject"}, 0)
    BY <1>2, SameFrames DEF OnPublisherConfirmAck
  <2>2. Shifted(from_broker, from_broker', {"deliver"}, 1)
    BY <1>1, FrameTaken
  <2> QED
    BY <2>1, <2>2, StageKept DEF IInv, OnPublisherConfirmAck
<1>10. AllAwaited => DeliveryInv'
  <2>1. Shifted(to_broker, to_broker', {"ack"}, 0)
    BY <1>2, SameFrames DEF OnPublisherConfirmAck
  <2> QED
    BY <2>1, DeliveryKept DEF IInv, OnPublisherConfirmAck
<1>11. ChannelUntilPublish'
  BY ResultKept DEF IInv, OnPublisherConfirmAck
<1> QED
  BY <1>4, <1>5, <1>6, <1>7, <1>8, <1>9, <1>10, <1>11 DEF IInv

LEMMA FireConfirmDeferredIInv ==
    ASSUME IInv, FireConfirmDeferred
    PROVE  IInv'
<1> DEFINE DoneBy(tag) == {r \in DOMAIN handling : handling[r] = {tag}}
<1>1. PICK tag \in firing :
         /\ confirmed' = confirmed \cup {confirm_deferreds[tag]}
         /\ confirm_deferreds' = Without(confirm_deferreds, {tag})
         /\ handling' = [r \in DOMAIN handling \ DoneBy(tag) |-> handling[r] \ {tag}]
         /\ to_broker' = IF DoneBy(tag) = {} THEN to_broker
                         ELSE Append(to_broker, Frame("ack", CHOOSE r \in DoneBy(tag) : TRUE))
         /\ firing' = firing \ {tag}
  BY DEF FireConfirmDeferred
<1> DEFINE done == DoneBy(tag)
           r0   == CHOOSE r \in done : TRUE
           settlements == FramesOfType(to_broker, {"ack", "reject"})
           deliveries  == FramesOfType(from_broker, {"deliver"})
<1>2. /\ Running
      /\ UNCHANGED <<exit, todo, connection, connection_attempts, callbacks, result, pika_channel,
                     last_publish_tag, from_broker, ready, unacked, delivered, consumers, dead,
                     confirming, published, unconfirmed, unstored, stored, faults>>
  BY DEF FireConfirmDeferred
<1>3. /\ tag \in DOMAIN confirm_deferreds /\ tag <= published /\ tag \notin DOMAIN unconfirmed
      /\ confirm_deferreds[tag] \in stored /\ pika_channel
  BY DEF IInv, TypeOK, ChannelInv, ConfirmInv
<1>4. /\ DOMAIN confirm_deferreds' = DOMAIN confirm_deferreds \ {tag}
      /\ \A t \in DOMAIN confirm_deferreds' : confirm_deferreds'[t] = confirm_deferreds[t]
  BY <1>1 DEF Without
<1>5. /\ DOMAIN handling' = DOMAIN handling \ done
      /\ \A r \in DOMAIN handling' : handling'[r] = handling[r] \ {tag} /\ handling[r] # {tag}
  BY <1>1
<1>6. done # {} => done = {r0} /\ r0 \in DOMAIN handling /\ handling[r0] = {tag}
  <2> SUFFICES ASSUME done # {}
               PROVE  done = {r0} /\ r0 \in DOMAIN handling /\ handling[r0] = {tag}
    OBVIOUS
  <2>1. r0 \in done
    OBVIOUS
  <2>2. \A r \in done : r = r0
    <3> SUFFICES ASSUME NEW r \in done, r # r0
                 PROVE  FALSE
      OBVIOUS
    <3>1. handling[r] \cap handling[r0] = {}
      BY <2>1 DEF IInv, StageInv
    <3> QED
      BY <2>1, <3>1
  <2> QED
    BY <2>1, <2>2
<1>7. r0 \in Nat \/ done = {}
  BY SMTT(45), <1>6 DEF IInv, TypeOK, ChannelInv, StageInv
<1>8. to_broker \in Seq(ToBrokerFrame) /\ from_broker \in Seq(FromBrokerFrame)
  BY DEF IInv, ChannelInv
<1>9. \/ done = {} /\ to_broker' = to_broker
      \/ /\ done # {} /\ to_broker' = Append(to_broker, Frame("ack", r0))
         /\ Frame("ack", r0) \in ToBrokerFrame
         /\ Frame("ack", r0).type = "ack" /\ Frame("ack", r0).arg = r0
  BY <1>1, <1>7, FramesAre DEF Frame
<1>10. to_broker' \in Seq(ToBrokerFrame) /\ (to_broker # <<>> => Head(to_broker') = Head(to_broker))
       /\ (to_broker # <<>> => to_broker' # <<>>)
  BY <1>8, <1>9
<1>11. TypeOK'
  <2>1. firing' \subseteq DOMAIN confirm_deferreds'
    BY <1>1, <1>4 DEF IInv, TypeOK
  <2>2. ASSUME NEW r \in DOMAIN handling'
        PROVE  handling'[r] # {} /\ handling'[r] \subseteq DOMAIN confirm_deferreds'
    BY <1>4, <1>5, <2>2 DEF IInv, TypeOK
  <2>3. confirmed' \subseteq Publishes
    BY <1>1, <1>3 DEF IInv, TypeOK
  <2> QED
    BY <1>2, <1>4, <2>1, <2>2, <2>3 DEF IInv, TypeOK
<1>12. ChannelInv'
  BY <1>2, <1>3, <1>10 DEF IInv, ChannelInv, Running
<1>13. SelectInv'
  BY <1>2, <1>10 DEF IInv, SelectInv
<1>14. TagInv'
  <2>1. Shifted(to_broker, to_broker', {"publish"}, 0)
    BY <1>8, <1>9, SameFrames, FrameSent
  <2>2. tag \notin published + 1 .. last_publish_tag
    BY <1>3 DEF IInv, ChannelInv, TypeOK
  <2> QED
    BY <1>2, <1>3, <1>4, <1>8, <2>1, <2>2, TagKept DEF IInv
<1>15. ConfirmInv'
  <2>1. published \in Nat /\ confirmed' \subseteq stored'
    BY <1>1, <1>2, <1>3 DEF IInv, ChannelInv, ConfirmInv
  <2>2. \A t \in firing' : /\ t <= published /\ t \notin DOMAIN unconfirmed
                           /\ confirm_deferreds'[t] \in stored'
    BY <1>1, <1>2, <1>4 DEF IInv, ConfirmInv, TypeOK
  <2> QED
    BY <1>2, <1>4, <1>8, <2>1, <2>2, ConfirmKept DEF IInv
<1>16. StageInv'
  <2>1. \A i \in settlements : i \in settlements' /\ to_broker'[i] = to_broker[i]
    BY <1>8, <1>9, AppendOf DEF FramesOfType
  <2>2. \A i \in settlements' :
           \/ i \in settlements /\ to_broker'[i] = to_broker[i]
           \/ done # {} /\ i = Len(to_broker) + 1 /\ to_broker'[i].arg = r0
    BY <1>8, <1>9, AppendOf DEF FramesOfType
  <2>3. done # {} => \E i \in settlements' : to_broker'[i].arg = r0
    <3>1. done # {} => Len(to_broker) + 1 \in settlements' /\ to_broker'[Len(to_broker) + 1].arg = r0
      BY <1>8, <1>9, AppendOf DEF FramesOfType
    <3> QED
      BY <3>1
  <2>4. done # {} => /\ r0 \in DOMAIN handling /\ r0 \in DOMAIN unacked
                     /\ r0 \notin DOMAIN handling'
    BY <1>5, <1>6 DEF IInv, StageInv
  <2>5. \A i \in settlements' : to_broker'[i].arg \in DOMAIN unacked' \ DOMAIN handling'
    BY <1>2, <1>5, <2>2, <2>4 DEF IInv, StageInv
  <2>6. \A i \in settlements : to_broker[i].arg \notin DOMAIN handling
    BY DEF IInv, StageInv
  <2>7. \A i, j \in settlements' : to_broker'[i].arg = to_broker'[j].arg => i = j
    BY <2>2, <2>4, <2>6 DEF IInv, StageInv
  <2>8. \A i \in deliveries', j \in settlements' : from_broker'[i].arg # to_broker'[j].arg
    BY <1>2, <2>2, <2>4 DEF IInv, StageInv
  <2>9. \A t \in DOMAIN unacked' :
           \/ t \in DOMAIN handling'
           \/ \E i \in deliveries' : from_broker'[i].arg = t
           \/ \E i \in settlements' : to_broker'[i].arg = t
    BY <1>2, <1>5, <1>6, <2>1, <2>3 DEF IInv, StageInv
  <2>10. \A r, s \in DOMAIN handling' : r # s => handling'[r] \cap handling'[s] = {}
    <3> SUFFICES ASSUME NEW r \in DOMAIN handling', NEW s \in DOMAIN handling', r # s
                 PROVE  handling'[r] \cap handling'[s] = {}
      OBVIOUS
    <3>1. handling[r] \cap handling[s] = {}
      BY <1>5 DEF IInv, StageInv
    <3> QED
      BY <1>5, <3>1
  <2>11. /\ DOMAIN handling' \subseteq DOMAIN unacked'
         /\ \A i \in deliveries' :
              /\ from_broker'[i].arg \in DOMAIN unacked' \ DOMAIN handling'
              /\ unacked'[from_broker'[i].arg] = from_broker'[i].message
         /\ \A i, j \in deliveries' : from_broker'[i].arg = from_broker'[j].arg => i = j
    BY <1>2, <1>5 DEF IInv, StageInv
  <2> QED
    BY <2>5, <2>7, <2>8, <2>9, <2>10, <2>11 DEF StageInv
<1>17. ASSUME AllAwaited
       PROVE  DeliveryInv'
  <2>0. DeliveryInv
    BY <1>17 DEF IInv
  <2>1. \A r \in DOMAIN handling' : \A p \in ToSet(Outputs[unacked'[r]]) :
           p \in stored' \/ \E t \in handling'[r] : confirm_deferreds'[t] = p
    <3> SUFFICES ASSUME NEW r \in DOMAIN handling', NEW p \in ToSet(Outputs[unacked'[r]]),
                        p \notin stored'
                 PROVE  \E t \in handling'[r] : confirm_deferreds'[t] = p
      OBVIOUS
    <3>1. PICK t \in handling[r] : confirm_deferreds[t] = p
      BY <1>2, <1>5, <2>0 DEF DeliveryInv
    <3>2. t # tag /\ t \in DOMAIN confirm_deferreds
      BY <1>2, <1>3, <1>5, <3>1 DEF IInv, TypeOK
    <3> QED
      BY <1>4, <1>5, <3>1, <3>2
  <2>2. ASSUME NEW k \in FramesOfType(to_broker', {"ack"})
        PROVE  ToSet(Outputs[unacked'[to_broker'[k].arg]]) \subseteq stored'
    <3>1. CASE k \in FramesOfType(to_broker, {"ack"}) /\ to_broker'[k] = to_broker[k]
      BY <1>2, <2>0, <3>1 DEF DeliveryInv
    <3>2. CASE done # {} /\ to_broker'[k].arg = r0
      BY <1>2, <1>3, <1>6, <2>0, <3>2 DEF DeliveryInv
    <3>3. \/ k \in FramesOfType(to_broker, {"ack"}) /\ to_broker'[k] = to_broker[k]
          \/ done # {} /\ to_broker'[k].arg = r0
      BY <1>8, <1>9, <2>2, AppendOf DEF FramesOfType
    <3> QED
      BY <3>1, <3>2, <3>3
  <2>3. \A m \in Messages :
           \/ m \in ready' \cup dead'
           \/ \E t \in DOMAIN unacked' : unacked'[t] = m
           \/ ToSet(Outputs[m]) \subseteq stored'
    BY <1>2, <2>0 DEF DeliveryInv
  <2> QED
    BY <2>1, <2>2, <2>3 DEF DeliveryInv
<1>18. ChannelUntilPublish'
  BY <1>2, ResultKept DEF IInv
<1> QED
  BY <1>11, <1>12, <1>13, <1>14, <1>15, <1>16, <1>17, <1>18 DEF IInv

-----------------------------------------------------------------------------
(* Publishes.                                                              *)

\* A place in three sequences, one after the other and the last of one element at most.
LEMMA WhichPart ==
    ASSUME NEW l \in Nat, NEW n \in Nat, NEW f \in Nat, f <= 1, NEW i \in 1 .. l + n + f
    PROVE  \/ i \in 1 .. l
           \/ i - l \in 1 .. n /\ i = l + (i - l)
           \/ i = l + n + 1 /\ f = 1
OBVIOUS

PublishFrames(ps) == [i \in DOMAIN ps |-> PublishFrame(ps[i], FirstTag + i - 1)]

\* What is on the wire after some publishes and at most one settlement: what was there,
\* the publishes under the tags the client counted, and the settlement.
LEMMA PublishedFrames ==
    ASSUME to_broker \in Seq(ToBrokerFrame), last_publish_tag \in Nat, NEW ps \in Seq(Publishes),
           NEW frames \in Seq(ToBrokerFrame), Len(frames) <= 1,
           \A i \in DOMAIN frames : frames[i].type \in {"ack", "reject"},
           to_broker' = to_broker \o PublishFrames(ps) \o frames
    PROVE  /\ to_broker' \in Seq(ToBrokerFrame)
           /\ \A i \in DOMAIN to_broker : i \in DOMAIN to_broker' /\ to_broker'[i] = to_broker[i]
           /\ \A i \in 1 .. Len(ps) :
                 /\ Len(to_broker) + i \in FramesOfType(to_broker', {"publish"})
                 /\ to_broker'[Len(to_broker) + i].tag = last_publish_tag + i
                 /\ to_broker'[Len(to_broker) + i].arg = ps[i]
           /\ \A i \in FramesOfType(to_broker', {"publish"}) :
                 \/ i \in FramesOfType(to_broker, {"publish"})
                 \/ i - Len(to_broker) \in 1 .. Len(ps)
           /\ \A i \in FramesOfType(to_broker', {"ack", "reject"}) :
                 \/ i \in FramesOfType(to_broker, {"ack", "reject"})
                 \/ i = Len(to_broker) + Len(ps) + 1 /\ Len(frames) = 1 /\ to_broker'[i] = frames[1]
           /\ Len(frames) = 1 =>
                 \E i \in FramesOfType(to_broker', {"ack", "reject"}) : to_broker'[i] = frames[1]
           /\ to_broker # <<>> => to_broker' # <<>> /\ Head(to_broker') = Head(to_broker)
<1> DEFINE L == Len(to_broker)
           pubs == PublishFrames(ps)
<1>1. /\ Len(ps) \in Nat /\ DOMAIN ps = 1 .. Len(ps) /\ \A i \in DOMAIN ps : ps[i] \in Publishes
  OBVIOUS
<1>2. \A i \in 1 .. Len(ps) : pubs[i] = PublishFrame(ps[i], last_publish_tag + i)
                              /\ pubs[i] \in ToBrokerFrame
  <2> SUFFICES ASSUME NEW i \in 1 .. Len(ps)
               PROVE  pubs[i] = PublishFrame(ps[i], last_publish_tag + i)
                      /\ pubs[i] \in ToBrokerFrame
    OBVIOUS
  <2>1. FirstTag + i - 1 = last_publish_tag + i /\ last_publish_tag + i \in Nat
    BY <1>1 DEF FirstTag
  <2> QED
    BY <1>1, <2>1, FramesAre DEF PublishFrames
<1>3. pubs \in Seq(ToBrokerFrame) /\ Len(pubs) = Len(ps)
  <2>1. DOMAIN pubs = 1 .. Len(ps) /\ pubs = [i \in DOMAIN pubs |-> pubs[i]]
    BY <1>1 DEF PublishFrames
  <2> HIDE DEF pubs
  <2>2. pubs \in [1 .. Len(ps) -> ToBrokerFrame]
    BY <1>2, <2>1
  <2>3. \A n \in Nat : \A f \in [1 .. n -> ToBrokerFrame] : f \in Seq(ToBrokerFrame) /\ Len(f) = n
    OBVIOUS
  <2> QED
    BY <1>1, <2>2, <2>3
<1> HIDE DEF pubs
<1>4. to_broker' = (to_broker \o pubs) \o frames
  BY DEF pubs
<1>5. /\ L \in Nat /\ Len(frames) \in Nat
      /\ DOMAIN to_broker = 1 .. L /\ DOMAIN frames = 1 .. Len(frames)
      /\ to_broker' \in Seq(ToBrokerFrame)
      /\ DOMAIN to_broker' = 1 .. L + Len(ps) + Len(frames)
      /\ \A i \in 1 .. L : to_broker'[i] = to_broker[i]
      /\ \A i \in 1 .. Len(ps) : to_broker'[L + i] = pubs[i]
      /\ \A i \in 1 .. Len(frames) : to_broker'[L + Len(ps) + i] = frames[i]
  <2>1. pubs \in Seq(ToBrokerFrame) /\ Len(pubs) = Len(ps) /\ DOMAIN pubs = 1 .. Len(ps)
    BY <1>3
  <2> DEFINE x == to_broker \o pubs
  <2>2. /\ x \in Seq(ToBrokerFrame) /\ L \in Nat /\ Len(x) = L + Len(ps)
        /\ DOMAIN to_broker = 1 .. L
        /\ \A i \in 1 .. L : x[i] = to_broker[i]
        /\ \A i \in 1 .. Len(ps) : x[L + i] = pubs[i]
    <3>1. to_broker \in Seq(ToBrokerFrame) /\ pubs \in Seq(ToBrokerFrame)
      BY <2>1
    <3>2. /\ x \in Seq(ToBrokerFrame) /\ L \in Nat /\ Len(x) = L + Len(pubs)
          /\ DOMAIN to_broker = 1 .. L
          /\ \A i \in 1 .. L : x[i] = to_broker[i]
          /\ \A i \in 1 .. Len(pubs) : x[L + i] = pubs[i]
      BY ONLY <3>1, ConcatOf
    <3> QED
      BY ONLY <2>1, <3>2
  <2>3. to_broker' = x \o frames
    BY <1>4
  <2> HIDE DEF x
  <2>4. /\ x \o frames \in Seq(ToBrokerFrame) /\ Len(frames) \in Nat
        /\ DOMAIN frames = 1 .. Len(frames)
        /\ DOMAIN (x \o frames) = 1 .. Len(x) + Len(frames)
        /\ \A i \in 1 .. Len(x) : (x \o frames)[i] = x[i]
        /\ \A i \in 1 .. Len(frames) : (x \o frames)[Len(x) + i] = frames[i]
    <3>1. x \in Seq(ToBrokerFrame) /\ frames \in Seq(ToBrokerFrame)
      BY <2>2
    <3> QED
      BY ONLY <3>1, ConcatOf
  <2>5. /\ \A i \in 1 .. L : i \in 1 .. Len(x)
        /\ \A i \in 1 .. Len(ps) : L + i \in 1 .. Len(x)
    BY <1>1, <2>2
  <2> QED
    BY <2>2, <2>3, <2>4, <2>5
<1>6. /\ \A i \in 1 .. L : i \in DOMAIN to_broker' /\ to_broker'[i] = to_broker[i]
      /\ \A i \in 1 .. Len(ps) :
            /\ L + i \in DOMAIN to_broker'
            /\ to_broker'[L + i] = PublishFrame(ps[i], last_publish_tag + i)
      /\ Len(frames) = 1 => /\ L + Len(ps) + 1 \in DOMAIN to_broker'
                            /\ to_broker'[L + Len(ps) + 1] = frames[1]
  <2>1. \A i \in 1 .. L : i \in DOMAIN to_broker'
    BY <1>1, <1>5
  <2>2. \A i \in 1 .. Len(ps) : L + i \in DOMAIN to_broker'
    BY <1>1, <1>5
  <2>3. Len(frames) = 1 => L + Len(ps) + 1 \in DOMAIN to_broker' /\ 1 \in 1 .. Len(frames)
    BY <1>1, <1>5
  <2> QED
    BY <1>2, <1>5, <2>1, <2>2, <2>3
<1>7. \A i \in DOMAIN to_broker' :
         \/ i \in 1 .. L
         \/ i - L \in 1 .. Len(ps) /\ i = L + (i - L)
         \/ i = L + Len(ps) + 1 /\ Len(frames) = 1
  <2>1. L \in Nat /\ Len(ps) \in Nat /\ Len(frames) \in Nat /\ Len(frames) <= 1
        /\ DOMAIN to_broker' = 1 .. L + Len(ps) + Len(frames)
    BY <1>1, <1>5
  <2> QED
    BY ONLY <2>1, WhichPart
<1>8. \A i \in 1 .. Len(ps) :
         /\ to_broker'[L + i].type = "publish" /\ to_broker'[L + i].tag = last_publish_tag + i
         /\ to_broker'[L + i].arg = ps[i]
  <2>1. \A p, n : /\ PublishFrame(p, n).type = "publish" /\ PublishFrame(p, n).tag = n
                 /\ PublishFrame(p, n).arg = p
    BY DEF PublishFrame
  <2> QED
    BY SMTT(45), <1>6, <2>1
<1>9. Len(frames) = 1 => frames[1].type \in {"ack", "reject"}
  BY <1>5
<1>10. \A i \in FramesOfType(to_broker', {"publish"}) :
          i \in FramesOfType(to_broker, {"publish"}) \/ i - L \in 1 .. Len(ps)
  <2> SUFFICES ASSUME NEW i \in FramesOfType(to_broker', {"publish"}), i - L \notin 1 .. Len(ps)
               PROVE  i \in FramesOfType(to_broker, {"publish"})
    OBVIOUS
  <2>1. i \in DOMAIN to_broker' /\ to_broker'[i].type = "publish"
    BY DEF FramesOfType
  <2>2. i \in 1 .. L
    BY <1>6, <1>7, <1>9, <2>1
  <2> QED
    BY <1>5, <1>6, <2>1, <2>2 DEF FramesOfType
<1>11. \A i \in FramesOfType(to_broker', {"ack", "reject"}) :
                 \/ i \in FramesOfType(to_broker, {"ack", "reject"})
                 \/ i = L + Len(ps) + 1 /\ Len(frames) = 1 /\ to_broker'[i] = frames[1]
  <2> SUFFICES ASSUME NEW i \in FramesOfType(to_broker', {"ack", "reject"}),
                      ~(i = L + Len(ps) + 1 /\ Len(frames) = 1 /\ to_broker'[i] = frames[1])
               PROVE  i \in FramesOfType(to_broker, {"ack", "reject"})
    OBVIOUS
  <2>1. i \in DOMAIN to_broker' /\ to_broker'[i].type \in {"ack", "reject"}
    BY DEF FramesOfType
  <2>2. ~(i - L \in 1 .. Len(ps) /\ i = L + (i - L))
    BY <1>8, <2>1
  <2>3. i \in 1 .. L
    BY <1>6, <1>7, <2>1, <2>2
  <2> QED
    BY <1>5, <1>6, <2>1, <2>3 DEF FramesOfType
<1>12. Len(frames) = 1 =>
          \E i \in FramesOfType(to_broker', {"ack", "reject"}) : to_broker'[i] = frames[1]
  <2>1. Len(frames) = 1 => /\ L + Len(ps) + 1 \in FramesOfType(to_broker', {"ack", "reject"})
                         /\ to_broker'[L + Len(ps) + 1] = frames[1]
    BY <1>6, <1>9 DEF FramesOfType
  <2> QED
    BY <2>1
<1>13. to_broker # <<>> => to_broker' # <<>> /\ Head(to_broker') = Head(to_broker)
  <2>1. to_broker # <<>> => 1 \in 1 .. L
    BY <1>5
  <2> QED
    BY <1>5, <1>6, <2>1
<1>14. \A i \in 1 .. Len(ps) : L + i \in FramesOfType(to_broker', {"publish"})
  BY <1>6, <1>8 DEF FramesOfType
<1> QED
  BY <1>5, <1>6, <1>8, <1>10, <1>11, <1>12, <1>13, <1>14

\* What is awaited after some publishes.
LEMMA PublishedDeferreds ==
    ASSUME last_publish_tag \in Nat, NEW ps \in Seq(Publishes), NEW frames, BasicPublish(ps, frames)
    PROVE  /\ last_publish_tag' = last_publish_tag + Len(ps) /\ Len(ps) \in Nat
           /\ \A t \in DOMAIN confirm_deferreds :
                 t \in DOMAIN confirm_deferreds' /\ confirm_deferreds'[t] = confirm_deferreds[t]
           /\ \A t \in DOMAIN confirm_deferreds' :
                 \/ t \in DOMAIN confirm_deferreds
                 \/ /\ t \in last_publish_tag + 1 .. last_publish_tag + Len(ps)
                    /\ confirm_deferreds'[t] \in Publishes
           /\ last_publish_tag + 1 .. last_publish_tag + Len(ps) \subseteq DOMAIN confirm_deferreds'
           /\ \A i \in 1 .. Len(ps) :
                 \/ last_publish_tag + i \in DOMAIN confirm_deferreds
                 \/ confirm_deferreds'[last_publish_tag + i] = ps[i]
<1> DEFINE tags == FirstTag .. FirstTag + Len(ps) - 1
           new  == [t \in tags |-> ps[t - FirstTag + 1]]
<1>1. /\ Len(ps) \in Nat /\ DOMAIN ps = 1 .. Len(ps)
      /\ tags = last_publish_tag + 1 .. last_publish_tag + Len(ps)
      /\ \A i \in 1 .. Len(ps) : ps[i] \in Publishes
  BY DEF FirstTag
<1>2. confirm_deferreds' = Joined(confirm_deferreds, new)
      /\ last_publish_tag' = last_publish_tag + Len(ps)
  BY DEF BasicPublish
<1>3. \A t \in tags : t - FirstTag + 1 \in 1 .. Len(ps) /\ new[t] \in Publishes
  BY <1>1 DEF FirstTag
<1>4. \A i \in 1 .. Len(ps) : last_publish_tag + i \in tags /\ new[last_publish_tag + i] = ps[i]
  <2> SUFFICES ASSUME NEW i \in 1 .. Len(ps)
               PROVE  last_publish_tag + i \in tags /\ new[last_publish_tag + i] = ps[i]
    OBVIOUS
  <2>1. last_publish_tag + i \in tags /\ (last_publish_tag + i) - FirstTag + 1 = i
    BY <1>1 DEF FirstTag
  <2> QED
    BY <2>1
<1> HIDE DEF tags, new
<1>5. DOMAIN new = tags
  BY DEF new
<1> QED
  BY <1>1, <1>2, <1>3, <1>4, <1>5 DEF Joined

LEMMA PublishedTagInv ==
    ASSUME IInv, pika_channel, NEW ps \in Seq(Publishes), NEW frames \in Seq(ToBrokerFrame),
           Len(frames) <= 1, \A i \in DOMAIN frames : frames[i].type \in {"ack", "reject"},
           BasicPublish(ps, frames), UNCHANGED <<published, unconfirmed>>
    PROVE  TagInv'
<1> DEFINE L == Len(to_broker)
           N == Len(ps)
           sent == FramesOfType(to_broker, {"publish"})
<1>1. /\ to_broker \in Seq(ToBrokerFrame) /\ L \in Nat /\ DOMAIN to_broker = 1 .. L
      /\ last_publish_tag \in Nat /\ published \in Nat /\ N \in Nat
      /\ TagInv
  BY DEF IInv, ChannelInv, TypeOK
<1>2. to_broker' = to_broker \o PublishFrames(ps) \o frames
  BY DEF BasicPublish, PublishFrames
<1>3. /\ \A i \in DOMAIN to_broker : i \in DOMAIN to_broker' /\ to_broker'[i] = to_broker[i]
      /\ \A i \in 1 .. N : /\ L + i \in sent'
                           /\ to_broker'[L + i].tag = last_publish_tag + i
                           /\ to_broker'[L + i].arg = ps[i]
      /\ \A i \in sent' : i \in sent \/ i - L \in 1 .. N
  BY <1>1, <1>2, PublishedFrames
<1>4. /\ last_publish_tag' = last_publish_tag + N
      /\ \A t \in DOMAIN confirm_deferreds :
            t \in DOMAIN confirm_deferreds' /\ confirm_deferreds'[t] = confirm_deferreds[t]
      /\ \A t \in DOMAIN confirm_deferreds' :
            t \in DOMAIN confirm_deferreds \/ t \in last_publish_tag + 1 .. last_publish_tag + N
      /\ last_publish_tag + 1 .. last_publish_tag + N \subseteq DOMAIN confirm_deferreds'
      /\ \A i \in 1 .. N : \/ last_publish_tag + i \in DOMAIN confirm_deferreds
                           \/ confirm_deferreds'[last_publish_tag + i] = ps[i]
  BY <1>1, PublishedDeferreds
<1>5. DOMAIN confirm_deferreds \subseteq 1 .. last_publish_tag /\ published <= last_publish_tag
  BY <1>1 DEF TagInv
<1> HIDE DEF L, N
<1>6. \A i \in sent : i \in 1 .. L /\ to_broker'[i] = to_broker[i]
                      /\ to_broker[i].tag \in published + 1 .. last_publish_tag
  BY <1>1, <1>3 DEF FramesOfType, TagInv
<1>7. \A i \in sent' : \/ i \in sent
                       \/ /\ i - L \in 1 .. N /\ i = L + (i - L)
                          /\ to_broker'[i].tag = last_publish_tag + (i - L)
                          /\ to_broker'[i].arg = ps[i - L]
  <2> SUFFICES ASSUME NEW i \in sent', i \notin sent
               PROVE  /\ i - L \in 1 .. N /\ i = L + (i - L)
                      /\ to_broker'[i].tag = last_publish_tag + (i - L)
                      /\ to_broker'[i].arg = ps[i - L]
    OBVIOUS
  <2>1. i - L \in 1 .. N
    BY <1>3
  <2>2. i \in Int
    BY <1>1, <1>2, PublishedFrames DEF FramesOfType
  <2>3. i = L + (i - L)
    BY <1>1, <2>2
  <2>4. \A k \in 1 .. N : i = L + k =>
           to_broker'[i].tag = last_publish_tag + k /\ to_broker'[i].arg = ps[k]
    BY <1>3
  <2> QED
    BY <2>1, <2>3, <2>4
<1>8. \A i \in sent' :
         LET tag == to_broker'[i].tag IN
         /\ tag \in published' + 1 .. last_publish_tag'
         /\ tag \in DOMAIN confirm_deferreds'
         /\ confirm_deferreds'[tag] = to_broker'[i].arg
  <2> SUFFICES ASSUME NEW i \in sent'
               PROVE  LET tag == to_broker'[i].tag IN
                      /\ tag \in published' + 1 .. last_publish_tag'
                      /\ tag \in DOMAIN confirm_deferreds'
                      /\ confirm_deferreds'[tag] = to_broker'[i].arg
    OBVIOUS
  <2>1. CASE i \in sent
    <3>1. /\ to_broker[i].tag \in DOMAIN confirm_deferreds
          /\ confirm_deferreds[to_broker[i].tag] = to_broker[i].arg
      BY <1>1, <2>1 DEF TagInv
    <3>2. \A t \in published + 1 .. last_publish_tag : t \in published' + 1 .. last_publish_tag'
      BY <1>1, <1>4
    <3> QED
      BY <1>4, <1>6, <2>1, <3>1, <3>2
  <2>2. CASE i \notin sent
    <3> DEFINE k == i - L
    <3>1. /\ k \in 1 .. N /\ to_broker'[i].tag = last_publish_tag + k
          /\ to_broker'[i].arg = ps[k]
      BY <1>7, <2>2
    <3> HIDE DEF k
    <3>2. /\ last_publish_tag + k \in last_publish_tag + 1 .. last_publish_tag + N
          /\ last_publish_tag + k \in published' + 1 .. last_publish_tag'
          /\ last_publish_tag + k \notin 1 .. last_publish_tag
      BY <1>1, <1>4, <1>5, <3>1
    <3> QED
      BY <1>4, <1>5, <3>1, <3>2
  <2> QED
    BY <2>1, <2>2
<1>9. \A i, j \in sent' : i < j => to_broker'[i].tag < to_broker'[j].tag
  <2> SUFFICES ASSUME NEW i \in sent', NEW j \in sent', i < j
               PROVE  to_broker'[i].tag < to_broker'[j].tag
    OBVIOUS
  <2>1. CASE i \in sent /\ j \in sent
    BY <1>1, <1>6, <2>1 DEF TagInv
  <2>2. CASE i \in sent /\ j \notin sent
    BY <1>1, <1>6, <1>7, <2>2
  <2>3. CASE i \notin sent /\ j \in sent
    BY <1>1, <1>6, <1>7, <2>3
  <2>4. CASE i \notin sent /\ j \notin sent
    BY <1>1, <1>7, <2>4
  <2> QED
    BY <2>1, <2>2, <2>3, <2>4
<1>10. \A t \in published' + 1 .. last_publish_tag' : \E i \in sent' : to_broker'[i].tag = t
  <2> SUFFICES ASSUME NEW t \in published' + 1 .. last_publish_tag'
               PROVE  \E i \in sent' : to_broker'[i].tag = t
    OBVIOUS
  <2>1. CASE t <= last_publish_tag
    <3>1. t \in published + 1 .. last_publish_tag
      BY <1>1, <1>4, <2>1
    <3>2. PICK i \in sent : to_broker[i].tag = t
      BY <1>1, <3>1 DEF TagInv
    <3>3. i \in sent'
      BY <1>3, <1>6, <3>2 DEF FramesOfType
    <3> QED
      BY <1>6, <3>2, <3>3
  <2>2. CASE ~(t <= last_publish_tag)
    <3> DEFINE k == t - last_publish_tag
    <3>1. k \in 1 .. N /\ last_publish_tag + k = t
      BY <1>1, <1>4, <2>2
    <3> QED
      BY <1>3, <3>1
  <2> QED
    BY <2>1, <2>2
<1>11. DOMAIN confirm_deferreds' \subseteq 1 .. last_publish_tag'
  <2>1. \A t : t \in 1 .. last_publish_tag \/ t \in last_publish_tag + 1 .. last_publish_tag + N
               => t \in 1 .. last_publish_tag'
    BY <1>1, <1>4
  <2> QED
    BY <1>4, <1>5, <2>1
<1>12. /\ published' <= last_publish_tag'
       /\ \A t \in DOMAIN unconfirmed' :
             /\ t \in DOMAIN confirm_deferreds'
             /\ confirm_deferreds'[t] = unconfirmed'[t]
  BY <1>1, <1>4, <1>5 DEF TagInv
<1> QED
  BY <1>8, <1>9, <1>10, <1>11, <1>12 DEF TagInv

\* A process with a channel publishes and settles one message at most.
LEMMA PublishedConfirmInv ==
    ASSUME IInv, pika_channel, NEW ps \in Seq(Publishes), NEW frames, BasicPublish(ps, frames),
           UNCHANGED <<published, unconfirmed, stored, firing, confirmed>>,
           \/ from_broker' = from_broker
           \/ /\ from_broker # <<>> /\ Head(from_broker).type # "nack"
              /\ from_broker' = Tail(from_broker)
    PROVE  ConfirmInv'
<1>1. /\ last_publish_tag \in Nat /\ published \in Nat /\ published <= last_publish_tag
      /\ from_broker \in Seq(FromBrokerFrame)
  BY DEF IInv, ChannelInv, TypeOK, TagInv
<1>2. /\ Len(ps) \in Nat
      /\ \A t \in DOMAIN confirm_deferreds :
            t \in DOMAIN confirm_deferreds' /\ confirm_deferreds'[t] = confirm_deferreds[t]
      /\ \A t \in DOMAIN confirm_deferreds' :
            \/ t \in DOMAIN confirm_deferreds
            \/ t \in last_publish_tag + 1 .. last_publish_tag + Len(ps)
  BY <1>1, PublishedDeferreds
<1>3. \A t \in DOMAIN confirm_deferreds' :
         \/ t \in DOMAIN confirm_deferreds /\ confirm_deferreds'[t] = confirm_deferreds[t]
         \/ t \in Nat /\ t > published
  <2>1. \A t \in last_publish_tag + 1 .. last_publish_tag + Len(ps) : t \in Nat /\ t > published
    BY <1>1, <1>2
  <2> QED
    BY <1>2, <2>1
<1>4. \A t \in firing' : /\ t <= published /\ t \notin DOMAIN unconfirmed
                         /\ confirm_deferreds'[t] \in stored'
  BY <1>2 DEF IInv, TypeOK, ConfirmInv
<1>5. stored \subseteq stored' /\ confirmed' \subseteq stored' /\ ConfirmInv
  BY DEF IInv, ConfirmInv
<1> QED
  BY <1>1, <1>3, <1>4, <1>5, ConfirmKept

LEMMA PublishedTypes ==
    ASSUME IInv, pika_channel, NEW ps \in Seq(Publishes), NEW frames, BasicPublish(ps, frames)
    PROVE  /\ last_publish_tag' \in Nat
           /\ result' \in {"pending", "channel", "None"} /\ result' # "pending"
           /\ DOMAIN confirm_deferreds' \subseteq 0 .. last_publish_tag'
           /\ DOMAIN confirm_deferreds \subseteq DOMAIN confirm_deferreds'
           /\ \A t \in DOMAIN confirm_deferreds' : confirm_deferreds'[t] \in Publishes
<1>1. last_publish_tag \in Nat
  BY DEF IInv, TypeOK
<1>2. /\ last_publish_tag' = last_publish_tag + Len(ps) /\ Len(ps) \in Nat
      /\ \A t \in DOMAIN confirm_deferreds :
            t \in DOMAIN confirm_deferreds' /\ confirm_deferreds'[t] = confirm_deferreds[t]
      /\ \A t \in DOMAIN confirm_deferreds' :
            \/ t \in DOMAIN confirm_deferreds
            \/ /\ t \in last_publish_tag + 1 .. last_publish_tag + Len(ps)
               /\ confirm_deferreds'[t] \in Publishes
  BY <1>1, PublishedDeferreds
<1>3. \A t : t \in 0 .. last_publish_tag \/ t \in last_publish_tag + 1 .. last_publish_tag + Len(ps)
             => t \in 0 .. last_publish_tag'
  BY <1>1, <1>2
<1>4. DOMAIN confirm_deferreds' \subseteq 0 .. last_publish_tag'
  BY <1>2, <1>3 DEF IInv, TypeOK
<1>5. \A t \in DOMAIN confirm_deferreds' : confirm_deferreds'[t] \in Publishes
  BY <1>2 DEF IInv, TypeOK
<1>6. result' \in {"pending", "channel", "None"} /\ result' # "pending"
  BY DEF IInv, TypeOK, BasicPublish
<1> QED
  BY <1>1, <1>2, <1>4, <1>5, <1>6

LEMMA PublishedResult ==
    ASSUME ChannelUntilPublish, NEW ps \in Seq(Publishes), NEW frames, BasicPublish(ps, frames),
           last_publish_tag \in Nat
    PROVE  ChannelUntilPublish'
<1>1. Len(ps) \in Nat /\ (ps # <<>> => Len(ps) > 0) /\ (ps = <<>> => Len(ps) = 0)
  OBVIOUS
<1>2. CASE ps = <<>>
  BY <1>1, <1>2 DEF ChannelUntilPublish, BasicPublish
<1>3. CASE ps # <<>>
  BY <1>1, <1>3 DEF ChannelUntilPublish, BasicPublish
<1> QED
  BY <1>2, <1>3

LEMMA PublishOnChannelIInv ==
    ASSUME IInv, PublishOnChannel
    PROVE  IInv'
<1> DEFINE ps == <<Head(callbacks).arg>>
           none == <<>>
<1>1. /\ callbacks \in Seq(Callback) /\ callbacks # <<>> /\ callbacks' \in Seq(Callback)
      /\ Head(callbacks) \in Callback /\ Head(callbacks).op = "publish"
      /\ callbacks' = Tail(callbacks)
      /\ \A i \in DOMAIN callbacks' :
            callbacks'[i].op \in {"on_connected", "publish", "declare", "register"}
      /\ connection = "open" /\ pika_channel /\ Running
  BY RunCallbackFacts DEF PublishOnChannel
<1>2. ps \in Seq(Publishes)
  BY <1>1, CallbackTypes
<1>3. /\ BasicPublish(ps, none)
      /\ UNCHANGED <<exit, todo, connection, connection_attempts, pika_channel, firing, handling,
                     from_broker, ready, unacked, delivered, consumers, dead, confirming,
                     published, unconfirmed, unstored, stored, confirmed, faults>>
  BY DEF PublishOnChannel
<1> HIDE DEF ps
<1>4. /\ none \in Seq(ToBrokerFrame) /\ Len(none) = 0 /\ Len(none) <= 1
      /\ \A i \in DOMAIN none : none[i].type \in {"ack", "reject"}
  OBVIOUS
<1> HIDE DEF none
<1>5. /\ to_broker \in Seq(ToBrokerFrame) /\ from_broker \in Seq(FromBrokerFrame)
      /\ last_publish_tag \in Nat
  BY DEF IInv, ChannelInv, TypeOK
<1>6. to_broker' = to_broker \o PublishFrames(ps) \o none
  BY <1>3 DEF BasicPublish, PublishFrames
<1>7. /\ to_broker' \in Seq(ToBrokerFrame)
      /\ \A i \in DOMAIN to_broker : i \in DOMAIN to_broker' /\ to_broker'[i] = to_broker[i]
      /\ \A i \in FramesOfType(to_broker', {"ack", "reject"}) :
            i \in FramesOfType(to_broker, {"ack", "reject"})
      /\ to_broker # <<>> => to_broker' # <<>> /\ Head(to_broker') = Head(to_broker)
  <2>1. /\ to_broker' \in Seq(ToBrokerFrame)
        /\ \A i \in DOMAIN to_broker : i \in DOMAIN to_broker' /\ to_broker'[i] = to_broker[i]
        /\ to_broker # <<>> => to_broker' # <<>> /\ Head(to_broker') = Head(to_broker)
    BY ONLY <1>2, <1>4, <1>5, <1>6, PublishedFrames
  <2>2. \A i \in FramesOfType(to_broker', {"ack", "reject"}) :
           i \in FramesOfType(to_broker, {"ack", "reject"}) \/ Len(none) = 1
    BY ONLY <1>2, <1>4, <1>5, <1>6, PublishedFrames
  <2> QED
    BY <1>4, <2>1, <2>2
<1>8. /\ Shifted(to_broker, to_broker', {"ack", "reject"}, 0)
      /\ Shifted(to_broker, to_broker', {"ack"}, 0)
  <2>1. DOMAIN to_broker \subseteq Int /\ DOMAIN to_broker' \subseteq Int
    BY <1>5, <1>7
  <2> QED
    BY <1>7, <2>1 DEF Shifted, FramesOfType
<1>9. TypeOK'
  <2>1. /\ last_publish_tag' \in Nat
        /\ result' \in {"pending", "channel", "None"} /\ result' # "pending"
        /\ DOMAIN confirm_deferreds' \subseteq 0 .. last_publish_tag'
        /\ DOMAIN confirm_deferreds \subseteq DOMAIN confirm_deferreds'
        /\ \A t \in DOMAIN confirm_deferreds' : confirm_deferreds'[t] \in Publishes
    BY <1>1, <1>2, <1>3, PublishedTypes
  <2> QED
    BY <1>1, <1>3, <2>1 DEF IInv, TypeOK
<1>10. ChannelInv'
  BY <1>1, <1>3, <1>7 DEF IInv, ChannelInv, Running
<1>11. SelectInv'
  BY <1>3, <1>7 DEF IInv, SelectInv
<1>12. TagInv'
  BY <1>1, <1>2, <1>3, <1>4, PublishedTagInv
<1>13. ConfirmInv'
  BY <1>1, <1>2, <1>3, PublishedConfirmInv
<1>14. StageInv'
  <2>1. Shifted(from_broker, from_broker', {"deliver"}, 0)
    BY <1>3, <1>5, SameFrames
  <2> QED
    BY <1>3, <1>8, <2>1, StageKept DEF IInv
<1>15. AllAwaited => DeliveryInv'
  <2>1. \A t \in DOMAIN confirm_deferreds : confirm_deferreds'[t] = confirm_deferreds[t]
    BY <1>2, <1>3, <1>5, PublishedDeferreds
  <2>2. \A r \in DOMAIN handling : handling[r] \subseteq DOMAIN confirm_deferreds
    BY DEF IInv, TypeOK
  <2> QED
    BY <1>3, <1>8, <2>1, <2>2, DeliveryKept DEF IInv
<1>16. ChannelUntilPublish'
  BY <1>2, <1>3, <1>5, PublishedResult DEF IInv
<1> QED
  BY <1>9, <1>10, <1>11, <1>12, <1>13, <1>14, <1>15, <1>16 DEF IInv

-----------------------------------------------------------------------------
(* A message is received.                                                  *)

LEMMA MessageReceivedIInv ==
    ASSUME IInv, MessageReceived
    PROVE  IInv'
<1> DEFINE r == Head(from_broker).arg
           m == Head(from_broker).message
           ps == Outputs[m]
           tags == FirstTag .. FirstTag + Len(ps) - 1
           awaited == Awaited(m, tags)
           frames == Settlement(m, r, awaited)
           waits == ~(m \in Raises \/ awaited = {})
           deliveries  == FramesOfType(from_broker, {"deliver"})
           settlements == FramesOfType(to_broker, {"ack", "reject"})
<1>1. /\ BasicPublish(ps, frames)
      /\ handling' = IF ~waits THEN handling ELSE Joined(handling, [t \in {r} |-> awaited])
      /\ from_broker # <<>> /\ Head(from_broker).type = "deliver"
      /\ from_broker' = Tail(from_broker)
      /\ UNCHANGED <<exit, todo, connection, connection_attempts, callbacks, pika_channel, firing,
                     ready, unacked, delivered, consumers, dead, confirming, published,
                     unconfirmed, unstored, stored, confirmed, faults>>
  BY DEF MessageReceived
<1>2. /\ from_broker \in Seq(FromBrokerFrame) /\ from_broker' \in Seq(FromBrokerFrame)
      /\ Head(from_broker) \in FromBrokerFrame
      /\ 1 \in deliveries /\ from_broker[1] = Head(from_broker)
      /\ pika_channel /\ Running
  BY <1>1, FromBrokerTaken DEF FramesOfType
<1>3. r \in Nat /\ m \in Messages /\ ps \in Seq(Publishes) /\ Len(ps) \in Nat
  BY <1>1, <1>2, FromBrokerTypes, ClientAssumption
<1>4. /\ r \in DOMAIN unacked /\ r \notin DOMAIN handling /\ unacked[r] = m
      /\ \A i \in deliveries : i # 1 => from_broker[i].arg # r
      /\ \A j \in settlements : to_broker[j].arg # r
  BY <1>2 DEF IInv, StageInv
<1>5. /\ to_broker \in Seq(ToBrokerFrame) /\ last_publish_tag \in Nat
      /\ DOMAIN confirm_deferreds \subseteq 1 .. last_publish_tag
  BY <1>2 DEF IInv, ChannelInv, TypeOK, TagInv
<1>6. tags = last_publish_tag + 1 .. last_publish_tag + Len(ps)
  <2>1. ASSUME NEW n \in Nat
        PROVE  FirstTag + n - 1 = last_publish_tag + n /\ FirstTag = last_publish_tag + 1
    BY <1>5, <2>1 DEF FirstTag
  <2> QED
    BY <1>3, <2>1
<1>7. awaited \subseteq tags /\ (m \in Awaits => awaited = tags)
  BY DEF Awaited
<1>8. /\ frames \in Seq(ToBrokerFrame) /\ Len(frames) \in {0, 1} /\ Len(frames) <= 1
      /\ \A i \in DOMAIN frames : frames[i].type \in {"ack", "reject"}
      /\ waits => Len(frames) = 0
      /\ ~waits => Len(frames) = 1
      /\ Len(frames) = 1 => /\ frames[1].arg = r
                            /\ frames[1].type = "ack" => m \notin Raises /\ awaited = {}
  <2>1. /\ Frame("ack", r) \in ToBrokerFrame /\ Frame("reject", r) \in ToBrokerFrame
        /\ Frame("ack", r).type = "ack" /\ Frame("reject", r).type = "reject"
        /\ Frame("ack", r).arg = r /\ Frame("reject", r).arg = r
    BY <1>3, FramesAre DEF Frame
  <2> HIDE DEF m, r, awaited
  <2>2. CASE m \in Raises
    <3>1. frames = <<Frame("reject", r)>>
      BY <2>2 DEF Settlement
    <3> QED
      BY <2>1, <2>2, <3>1
  <2>3. CASE m \notin Raises /\ awaited = {}
    <3>1. frames = <<Frame("ack", r)>>
      BY <2>3 DEF Settlement
    <3>2. waits = FALSE
      BY <2>3
    <3> HIDE DEF frames
    <3>3. frames \in Seq(ToBrokerFrame) /\ Len(frames) = 1 /\ frames[1] = Frame("ack", r)
      BY <2>1, <3>1
    <3>4. DOMAIN frames = 1 .. 1
      BY <3>3
    <3> HIDE DEF waits
    <3> QED
      BY <2>1, <2>3, <3>2, <3>3, <3>4
  <2>4. CASE m \notin Raises /\ awaited # {}
    <3>1. frames = <<>>
      BY <2>4 DEF Settlement
    <3> QED
      BY <2>4, <3>1
  <2> QED
    BY <2>2, <2>3, <2>4
<1> HIDE DEF r, m, frames, awaited
<1>9. to_broker' = to_broker \o PublishFrames(ps) \o frames
  BY <1>1 DEF BasicPublish, PublishFrames
<1>10. /\ to_broker' \in Seq(ToBrokerFrame)
       /\ \A i \in DOMAIN to_broker : i \in DOMAIN to_broker' /\ to_broker'[i] = to_broker[i]
       /\ to_broker # <<>> => to_broker' # <<>> /\ Head(to_broker') = Head(to_broker)
  BY ONLY <1>3, <1>5, <1>8, <1>9, PublishedFrames
<1>11. /\ \A i \in FramesOfType(to_broker', {"ack", "reject"}) :
             \/ i \in FramesOfType(to_broker, {"ack", "reject"})
             \/ i = Len(to_broker) + Len(ps) + 1 /\ Len(frames) = 1 /\ to_broker'[i] = frames[1]
       /\ Len(frames) = 1 =>
             \E i \in FramesOfType(to_broker', {"ack", "reject"}) : to_broker'[i] = frames[1]
  BY ONLY <1>3, <1>5, <1>8, <1>9, PublishedFrames
<1>12. /\ \A t \in DOMAIN confirm_deferreds :
             t \in DOMAIN confirm_deferreds' /\ confirm_deferreds'[t] = confirm_deferreds[t]
       /\ tags \subseteq DOMAIN confirm_deferreds'
       /\ \A i \in 1 .. Len(ps) : \/ last_publish_tag + i \in DOMAIN confirm_deferreds
                                  \/ confirm_deferreds'[last_publish_tag + i] = ps[i]
  BY <1>1, <1>3, <1>5, <1>6, PublishedDeferreds
<1> HIDE DEF tags
<1>13. /\ DOMAIN handling' = IF waits THEN DOMAIN handling \cup {r} ELSE DOMAIN handling
       /\ \A s \in DOMAIN handling : handling'[s] = handling[s]
       /\ waits => handling'[r] = awaited /\ awaited # {}
  BY <1>1, <1>4 DEF Joined
<1>14. TypeOK'
  <2>1. /\ last_publish_tag' \in Nat
        /\ result' \in {"pending", "channel", "None"} /\ result' # "pending"
        /\ DOMAIN confirm_deferreds' \subseteq 0 .. last_publish_tag'
        /\ DOMAIN confirm_deferreds \subseteq DOMAIN confirm_deferreds'
        /\ \A t \in DOMAIN confirm_deferreds' : confirm_deferreds'[t] \in Publishes
    BY <1>1, <1>2, <1>3, PublishedTypes
  <2>2. \A s \in DOMAIN handling' :
           handling'[s] # {} /\ handling'[s] \subseteq DOMAIN confirm_deferreds'
    BY <1>7, <1>12, <1>13, <2>1 DEF IInv, TypeOK
  <2> QED
    BY <1>1, <1>2, <2>1, <2>2 DEF IInv, TypeOK
<1>15. ChannelInv'
  BY <1>1, <1>2, <1>10 DEF IInv, ChannelInv, Running
<1>16. SelectInv'
  BY <1>1, <1>10 DEF IInv, SelectInv
<1>17. TagInv'
  BY <1>1, <1>2, <1>3, <1>8, PublishedTagInv
<1>18. ConfirmInv'
  <2>1. Head(from_broker).type # "nack"
    BY <1>1
  <2> QED
    BY <1>1, <1>2, <1>3, <2>1, PublishedConfirmInv
<1>19. \A i \in deliveries' : /\ i \in Int /\ i + 1 \in deliveries /\ i + 1 # 1
                              /\ from_broker'[i] = from_broker[i + 1]
  BY <1>1, <1>2, TailOf DEF FramesOfType
<1>20. \A i \in deliveries : i # 1 => i - 1 \in deliveries' /\ from_broker'[i - 1] = from_broker[i]
  <2> SUFFICES ASSUME NEW i \in deliveries, i # 1
               PROVE  i - 1 \in deliveries' /\ from_broker'[i - 1] = from_broker[i]
    OBVIOUS
  <2>1. i - 1 \in 1 .. Len(from_broker) - 1 /\ (i - 1) + 1 = i
    BY <1>1, <1>2, TailOf DEF FramesOfType
  <2> QED
    BY <1>1, <1>2, <2>1, TailOf DEF FramesOfType
<1>21. \A i \in settlements : i \in settlements' /\ to_broker'[i] = to_broker[i]
  BY <1>10 DEF FramesOfType
<1>22. \A i \in settlements' :
          \/ i \in settlements /\ to_broker'[i] = to_broker[i]
          \/ /\ i = Len(to_broker) + Len(ps) + 1 /\ ~waits
             /\ to_broker'[i] = frames[1] /\ to_broker'[i].arg = r
  <2>1. \A i \in settlements : to_broker'[i] = to_broker[i]
    BY <1>21
  <2>2. Len(frames) = 1 => ~waits /\ frames[1].arg = r
    BY <1>8
  <2> QED
    BY <1>11, <2>1, <2>2
<1>23. ~waits => \E i \in settlements' : to_broker'[i].arg = r
  BY <1>8, <1>11
<1>24. StageInv'
  <2>1. DOMAIN handling \subseteq DOMAIN unacked
    BY DEF IInv, StageInv
  <2>2. DOMAIN handling' \subseteq DOMAIN unacked'
    BY <1>1, <1>4, <1>13, <2>1
  <2>3. \A i \in deliveries' :
           /\ from_broker'[i].arg \in DOMAIN unacked' \ DOMAIN handling'
           /\ unacked'[from_broker'[i].arg] = from_broker'[i].message
    <3>1. \A i \in deliveries :
             /\ from_broker[i].arg \in DOMAIN unacked \ DOMAIN handling
             /\ unacked[from_broker[i].arg] = from_broker[i].message
      BY DEF IInv, StageInv
    <3>2. \A i \in deliveries' : \E j \in deliveries :
             from_broker'[i] = from_broker[j] /\ from_broker[j].arg # r
      BY <1>4, <1>19
    <3>3. UNCHANGED unacked /\ DOMAIN handling' \subseteq DOMAIN handling \cup {r}
      BY <1>1, <1>13
    <3> QED
      BY <3>1, <3>2, <3>3
  <2>4. \A i \in settlements : to_broker[i].arg \in DOMAIN unacked \ DOMAIN handling
    BY DEF IInv, StageInv
  <2>5. \A i \in settlements' : to_broker'[i].arg \in DOMAIN unacked' \ DOMAIN handling'
    BY <1>1, <1>4, <1>13, <1>22, <2>4
  <2>6. \A i, j \in deliveries' : from_broker'[i].arg = from_broker'[j].arg => i = j
    <3> SUFFICES ASSUME NEW i \in deliveries', NEW j \in deliveries',
                        from_broker'[i].arg = from_broker'[j].arg
                 PROVE  i = j
      OBVIOUS
    <3>1. i + 1 = j + 1
      BY <1>19 DEF IInv, StageInv
    <3> QED
      BY <1>19, <3>1
  <2>7. \A i, j \in settlements' : to_broker'[i].arg = to_broker'[j].arg => i = j
    <3>1. \A i, j \in settlements : to_broker[i].arg = to_broker[j].arg => i = j
      BY DEF IInv, StageInv
    <3> QED
      BY <1>4, <1>22, <3>1
  <2>8. \A i \in deliveries', j \in settlements' : from_broker'[i].arg # to_broker'[j].arg
    <3>1. \A i \in deliveries, j \in settlements : from_broker[i].arg # to_broker[j].arg
      BY DEF IInv, StageInv
    <3> QED
      BY <1>4, <1>19, <1>22, <3>1
  <2>9. ASSUME NEW t \in DOMAIN unacked'
        PROVE  \/ t \in DOMAIN handling'
               \/ \E i \in deliveries' : from_broker'[i].arg = t
               \/ \E i \in settlements' : to_broker'[i].arg = t
    <3>1. CASE t = r
      BY <1>13, <1>23, <3>1
    <3>2. CASE t # r
      <4>1. CASE t \in DOMAIN handling
        BY <1>13, <4>1
      <4>2. CASE \E i \in deliveries : from_broker[i].arg = t
        <5>1. PICK i \in deliveries : from_broker[i].arg = t
          BY <4>2
        <5>2. i # 1
          BY <1>2, <3>2, <5>1 DEF r
        <5> QED
          BY <1>20, <5>1, <5>2
      <4>3. CASE \E i \in settlements : to_broker[i].arg = t
        BY <1>21, <4>3
      <4> QED
        BY <1>1, <1>2, <2>9, <4>1, <4>2, <4>3 DEF IInv, StageInv
    <3> QED
      BY <3>1, <3>2
  <2>10. \A s, u \in DOMAIN handling' : s # u => handling'[s] \cap handling'[u] = {}
    <3>1. \A s, u \in DOMAIN handling : s # u => handling[s] \cap handling[u] = {}
      BY DEF IInv, StageInv
    <3>2. \A s \in DOMAIN handling : handling[s] \subseteq 1 .. last_publish_tag
      BY <1>5 DEF IInv, TypeOK
    <3>3. \A t \in awaited : t \notin 1 .. last_publish_tag
      BY <1>3, <1>5, <1>6, <1>7
    <3>4. \A s \in DOMAIN handling' : \/ s \in DOMAIN handling /\ handling'[s] = handling[s]
                                      \/ s = r /\ handling'[s] = awaited
      BY <1>13
    <3> QED
      BY <3>1, <3>2, <3>3, <3>4
  <2> QED
    BY <2>2, <2>3, <2>5, <2>6, <2>7, <2>8, <2>9, <2>10 DEF StageInv
<1>25. ASSUME AllAwaited
       PROVE  DeliveryInv'
  <2>0. DeliveryInv
    BY <1>25 DEF IInv
  <2>1. ASSUME NEW s \in DOMAIN handling', NEW p \in ToSet(Outputs[unacked'[s]])
        PROVE  p \in stored' \/ \E t \in handling'[s] : confirm_deferreds'[t] = p
    <3>1. CASE s \in DOMAIN handling
      <4>1. p \in stored \/ \E t \in handling[s] : confirm_deferreds[t] = p
        BY <1>1, <2>0, <2>1, <3>1 DEF DeliveryInv
      <4>2. handling[s] \subseteq DOMAIN confirm_deferreds
        BY <3>1 DEF IInv, TypeOK
      <4> QED
        BY <1>1, <1>12, <1>13, <3>1, <4>1, <4>2
    <3>2. CASE s \notin DOMAIN handling
      <4>1. s = r /\ waits /\ handling'[s] = awaited
        BY <1>13, <2>1, <3>2
      <4>2. m \in Awaits
        BY <4>1 DEF awaited, Awaited
      <4>3. p \in ToSet(ps)
        BY <1>1, <1>4, <2>1, <4>1
      <4>4. PICK i \in 1 .. Len(ps) : ps[i] = p
        BY <1>3, <4>3 DEF ToSet
      <4>5. last_publish_tag + i \in tags /\ last_publish_tag + i \notin DOMAIN confirm_deferreds
        BY <1>3, <1>5, <1>6
      <4> QED
        BY <1>7, <1>12, <4>1, <4>2, <4>4, <4>5
    <3> QED
      BY <3>1, <3>2
  <2>2. ASSUME NEW k \in FramesOfType(to_broker', {"ack"})
        PROVE  ToSet(Outputs[unacked'[to_broker'[k].arg]]) \subseteq stored'
    <3>1. k \in settlements' /\ to_broker'[k].type = "ack"
      BY <2>2 DEF FramesOfType
    <3>2. CASE k \in settlements /\ to_broker'[k] = to_broker[k]
      <4>1. k \in FramesOfType(to_broker, {"ack"})
        BY <3>1, <3>2 DEF FramesOfType
      <4> QED
        BY <1>1, <2>0, <3>2, <4>1 DEF DeliveryInv
    <3>3. CASE ~waits /\ to_broker'[k] = frames[1] /\ to_broker'[k].arg = r
      <4>1. m \notin Raises /\ awaited = {}
        BY <1>8, <3>1, <3>3
      <4>2. ps = <<>> \/ tags = {}
        BY <1>3, <1>7, <1>25, <4>1 DEF AllAwaited
      <4>3. Len(ps) = 0
        <5>1. CASE ps = <<>>
          BY <5>1
        <5>2. CASE tags = {}
          <6>1. \A n \in Nat : n > 0 =>
                    last_publish_tag + 1 \in last_publish_tag + 1 .. last_publish_tag + n
            BY <1>5
          <6> QED
            BY <1>3, <1>6, <5>2, <6>1
        <5> QED
          BY <4>2, <5>1, <5>2
      <4>4. ToSet(ps) = {}
        BY <1>3, <4>3 DEF ToSet
      <4> QED
        BY <1>1, <1>4, <3>3, <4>4
    <3> QED
      BY <1>22, <3>1, <3>2, <3>3
  <2>3. \A n \in Messages :
           \/ n \in ready' \cup dead'
           \/ \E t \in DOMAIN unacked' : unacked'[t] = n
           \/ ToSet(Outputs[n]) \subseteq stored'
    BY <1>1, <2>0 DEF DeliveryInv
  <2> QED
    BY <2>1, <2>2, <2>3 DEF DeliveryInv
<1>26. ChannelUntilPublish'
  BY <1>1, <1>3, <1>5, PublishedResult DEF IInv
<1> QED
  BY <1>14, <1>15, <1>16, <1>17, <1>18, <1>24, <1>25, <1>26 DEF IInv

-----------------------------------------------------------------------------
(* The broker reads the wire.                                              *)

\* The first frame from the process is taken.
LEMMA ToBrokerTaken ==
    ASSUME IInv, NEW type, Taken(type)
    PROVE  /\ to_broker \in Seq(ToBrokerFrame) /\ to_broker' \in Seq(ToBrokerFrame)
           /\ to_broker # <<>> /\ to_broker' = Tail(to_broker)
           /\ Head(to_broker) \in ToBrokerFrame /\ Head(to_broker).type = type
           /\ 1 \in DOMAIN to_broker /\ to_broker[1] = Head(to_broker)
           /\ Running => pika_channel
           /\ UNCHANGED <<exit, todo, connection, connection_attempts, callbacks, result,
                          pika_channel, last_publish_tag, confirm_deferreds, firing, handling,
                          from_broker, confirmed, faults>>
BY TailOf DEF IInv, ChannelInv, Taken

\* Any other frame than a confirm.select comes after it.
LEMMA TakenSelectInv ==
    ASSUME IInv, NEW type, type # "select", Taken(type)
    PROVE  pika_channel => confirming
BY ToBrokerTaken DEF IInv, SelectInv

\* A frame that neither publishes nor settles.
LEMMA BrokerTakesIInv ==
    ASSUME IInv, BrokerSelect \/ BrokerDeclare \/ BrokerConsume
    PROVE  IInv'
<1>1. PICK type \in {"select", "declare", "consume"} : Taken(type)
  BY DEF BrokerSelect, BrokerDeclare, BrokerConsume
<1>2. /\ to_broker \in Seq(ToBrokerFrame) /\ to_broker' \in Seq(ToBrokerFrame)
      /\ to_broker # <<>> /\ to_broker' = Tail(to_broker)
      /\ Head(to_broker) \in ToBrokerFrame /\ Head(to_broker).type = type
      /\ Running => pika_channel
      /\ UNCHANGED <<exit, todo, connection, connection_attempts, callbacks, result,
                     pika_channel, last_publish_tag, confirm_deferreds, firing, handling,
                     from_broker, confirmed, faults>>
  BY <1>1, ToBrokerTaken
<1>3. UNCHANGED <<ready, unacked, delivered, dead, published, unconfirmed, unstored, stored>>
  BY DEF BrokerSelect, BrokerDeclare, BrokerConsume
<1>4. consumers' \subseteq Queues
  BY <1>2, ToBrokerTypes
  DEF BrokerSelect, BrokerDeclare, BrokerConsume, Taken, IInv, TypeOK
<1>5. from_broker \in Seq(FromBrokerFrame) /\ published \in Nat
  BY DEF IInv, ChannelInv
<1>6. \A types : types \subseteq {"publish", "ack", "reject"}
         => Shifted(to_broker, to_broker', types, 1)
  <2> SUFFICES ASSUME NEW types, types \subseteq {"publish", "ack", "reject"}
               PROVE  Shifted(to_broker, to_broker', types, 1)
    OBVIOUS
  <2>1. Head(to_broker).type \notin types
    BY <1>2
  <2> QED
    BY <1>2, <2>1, FrameTaken
<1>7. TypeOK'
  BY <1>2, <1>3, <1>4 DEF IInv, TypeOK
<1>8. ChannelInv'
  BY <1>2, <1>3 DEF IInv, ChannelInv, Running
<1>9. SelectInv'
  <2>1. CASE BrokerSelect
    BY <1>3, <2>1 DEF SelectInv, BrokerSelect
  <2>2. CASE BrokerDeclare \/ BrokerConsume
    <3>1. pika_channel => confirming
      BY <2>2, TakenSelectInv DEF BrokerDeclare, BrokerConsume
    <3> QED
      BY <1>2, <1>3, <2>2, <3>1 DEF IInv, SelectInv, BrokerDeclare, BrokerConsume
  <2> QED
    BY <2>1, <2>2
<1>10. TagInv'
  <2>1. CASE ~pika_channel
    BY <1>2, <2>1 DEF TagInv
  <2>2. CASE pika_channel
    <3>1. Shifted(to_broker, to_broker', {"publish"}, 1)
      BY <1>6
    <3> QED
      BY <1>2, <1>3, <2>2, <3>1, TagKept DEF IInv
  <2> QED
    BY <2>1, <2>2
<1>11. ConfirmInv'
  BY <1>2, <1>3, <1>5, ConfirmKept DEF IInv, ConfirmInv
<1>12. StageInv'
  <2>1. Shifted(to_broker, to_broker', {"ack", "reject"}, 1)
    BY <1>6
  <2>2. Shifted(from_broker, from_broker', {"deliver"}, 0)
    BY <1>2, <1>5, SameFrames
  <2> QED
    BY <1>2, <1>3, <2>1, <2>2, StageKept DEF IInv
<1>13. AllAwaited => DeliveryInv'
  <2>1. Shifted(to_broker, to_broker', {"ack"}, 1)
    BY <1>6
  <2> QED
    BY <1>2, <1>3, <2>1, DeliveryKept DEF IInv
<1>14. ChannelUntilPublish'
  BY <1>2, ResultKept DEF IInv
<1> QED
  BY <1>7, <1>8, <1>9, <1>10, <1>11, <1>12, <1>13, <1>14 DEF IInv

\* The broker counts the first publish on the wire: the tag that the client gave it.
LEMMA TagCounted ==
    ASSUME IInv, pika_channel, Taken("publish"), published' = published + 1,
           unconfirmed' = Joined(unconfirmed, [t \in {published + 1} |-> Head(to_broker).arg])
    PROVE  TagInv'
<1> DEFINE sent == FramesOfType(to_broker, {"publish"})
<1>1. /\ to_broker \in Seq(ToBrokerFrame)
      /\ to_broker # <<>> /\ to_broker' = Tail(to_broker)
      /\ Head(to_broker) \in ToBrokerFrame /\ Head(to_broker).type = "publish"
      /\ 1 \in sent /\ to_broker[1] = Head(to_broker)
      /\ UNCHANGED <<pika_channel, last_publish_tag, confirm_deferreds>>
  BY ToBrokerTaken DEF FramesOfType
<1>2. published \in Nat /\ last_publish_tag \in Nat /\ TagInv
  BY DEF IInv, ChannelInv, TypeOK
<1>3. \A i \in sent : i \in Int /\ i >= 1
  BY <1>1 DEF FramesOfType
<1>4. to_broker[1].tag = published + 1 /\ published + 1 <= last_publish_tag
  <2>1. to_broker[1].tag \in published + 1 .. last_publish_tag
    BY <1>1, <1>2 DEF TagInv
  <2>2. published + 1 \in published + 1 .. last_publish_tag
    BY <1>2, <2>1
  <2>3. PICK i \in sent : to_broker[i].tag = published + 1
    BY <1>2, <2>2 DEF TagInv
  <2>4. 1 < i => to_broker[1].tag < to_broker[i].tag
    BY <1>1, <1>2 DEF TagInv
  <2> QED
    BY <1>2, <1>3, <2>1, <2>2, <2>3, <2>4
<1>5. \A i \in sent : i # 1 => to_broker[i].tag \in published + 2 .. last_publish_tag
  <2> SUFFICES ASSUME NEW i \in sent, i # 1
               PROVE  to_broker[i].tag \in published + 2 .. last_publish_tag
    OBVIOUS
  <2>0. 1 < i /\ 1 \in sent
    BY <1>1, <1>3
  <2>1. to_broker[1].tag < to_broker[i].tag
    BY <1>2, <2>0 DEF TagInv
  <2>2. to_broker[i].tag \in published + 1 .. last_publish_tag
    BY <1>2 DEF TagInv
  <2> QED
    BY <1>2, <1>4, <2>1, <2>2
<1>6. \A i \in sent' : i \in Int /\ i + 1 \in sent /\ i + 1 # 1 /\ to_broker'[i] = to_broker[i + 1]
  BY <1>1, TailOf DEF FramesOfType
<1>7. \A i \in sent : i # 1 => i - 1 \in sent' /\ to_broker'[i - 1] = to_broker[i]
  <2> SUFFICES ASSUME NEW i \in sent, i # 1
               PROVE  i - 1 \in sent' /\ to_broker'[i - 1] = to_broker[i]
    OBVIOUS
  <2>1. i - 1 \in 1 .. Len(to_broker) - 1 /\ (i - 1) + 1 = i
    BY <1>1, TailOf DEF FramesOfType
  <2> QED
    BY <1>1, <2>1, TailOf DEF FramesOfType
<1>8. \A i \in sent' :
         LET tag == to_broker'[i].tag IN
         /\ tag \in published' + 1 .. last_publish_tag'
         /\ tag \in DOMAIN confirm_deferreds'
         /\ confirm_deferreds'[tag] = to_broker'[i].arg
  <2>1. published' + 1 = published + 2
    BY <1>2
  <2>2. \A i \in sent : /\ to_broker[i].tag \in DOMAIN confirm_deferreds
                        /\ confirm_deferreds[to_broker[i].tag] = to_broker[i].arg
    BY <1>2 DEF TagInv
  <2>3. \A i \in sent' : \E j \in sent : j # 1 /\ to_broker'[i] = to_broker[j]
    BY <1>6
  <2> QED
    BY <1>1, <1>5, <2>1, <2>2, <2>3
<1>9. \A i, j \in sent' : i < j => to_broker'[i].tag < to_broker'[j].tag
  <2> SUFFICES ASSUME NEW i \in sent', NEW j \in sent', i < j
               PROVE  to_broker'[i].tag < to_broker'[j].tag
    OBVIOUS
  <2>1. i + 1 < j + 1 /\ i + 1 \in sent /\ j + 1 \in sent
    BY <1>6
  <2>2. to_broker[i + 1].tag < to_broker[j + 1].tag
    BY <1>2, <2>1 DEF TagInv
  <2> QED
    BY <1>6, <2>2
<1>10. \A t \in published' + 1 .. last_publish_tag' : \E i \in sent' : to_broker'[i].tag = t
  <2> SUFFICES ASSUME NEW t \in published' + 1 .. last_publish_tag'
               PROVE  \E i \in sent' : to_broker'[i].tag = t
    OBVIOUS
  <2>1. t \in published + 1 .. last_publish_tag /\ t # published + 1
    BY <1>1, <1>2
  <2>2. PICK i \in sent : to_broker[i].tag = t
    BY <1>2, <2>1 DEF TagInv
  <2> QED
    BY <1>4, <1>7, <2>1, <2>2
<1>11. \A t \in DOMAIN unconfirmed' :
          /\ t \in DOMAIN confirm_deferreds'
          /\ confirm_deferreds'[t] = unconfirmed'[t]
  <2>1. /\ to_broker[1].tag \in DOMAIN confirm_deferreds
        /\ confirm_deferreds[to_broker[1].tag] = to_broker[1].arg
    BY <1>1, <1>2 DEF TagInv
  <2>2. \A t \in DOMAIN unconfirmed' :
           \/ t \in DOMAIN unconfirmed /\ unconfirmed'[t] = unconfirmed[t]
           \/ t = published + 1 /\ unconfirmed'[t] = Head(to_broker).arg
    BY DEF Joined
  <2> QED
    BY SMTT(45), <1>1, <1>2, <1>4, <2>1, <2>2 DEF TagInv
<1>12. published' <= last_publish_tag' /\ DOMAIN confirm_deferreds' \subseteq 1 .. last_publish_tag'
  BY <1>1, <1>2, <1>4 DEF TagInv
<1> QED
  BY <1>8, <1>9, <1>10, <1>11, <1>12 DEF TagInv

LEMMA BrokerPublishIInv ==
    ASSUME IInv, BrokerPublish
    PROVE  IInv'
<1>1. /\ to_broker \in Seq(ToBrokerFrame) /\ to_broker' \in Seq(ToBrokerFrame)
      /\ to_broker # <<>> /\ to_broker' = Tail(to_broker)
      /\ Head(to_broker) \in ToBrokerFrame /\ Head(to_broker).type = "publish"
      /\ Running => pika_channel
      /\ UNCHANGED <<exit, todo, connection, connection_attempts, callbacks, result,
                     pika_channel, last_publish_tag, confirm_deferreds, firing, handling,
                     from_broker, confirmed, faults>>
      /\ pika_channel => confirming
  BY ToBrokerTaken, TakenSelectInv DEF BrokerPublish
<1>2. UNCHANGED <<ready, unacked, delivered, consumers, dead, confirming, stored>>
  BY DEF BrokerPublish
<1>3. /\ from_broker \in Seq(FromBrokerFrame) /\ published \in Nat
      /\ DOMAIN unconfirmed \subseteq 1 .. published
      /\ \A t \in DOMAIN confirm_deferreds : t \in Nat
  BY DEF IInv, ChannelInv, TypeOK
<1>4. \/ ~confirming /\ UNCHANGED <<published, unconfirmed>>
      \/ /\ confirming /\ published' = published + 1
         /\ unconfirmed' = Joined(unconfirmed, [t \in {published + 1} |-> Head(to_broker).arg])
  BY DEF BrokerPublish
<1>5. /\ published' \in Nat /\ DOMAIN unconfirmed' \subseteq 1 .. published'
      /\ published <= published'
      /\ \A t \in DOMAIN unconfirmed' : t \in DOMAIN unconfirmed \/ t = published + 1
  <2>1. \A t : t \in 1 .. published \/ t = published + 1 => t \in 1 .. published + 1
    BY <1>3
  <2> QED
    BY <1>3, <1>4, <2>1 DEF Joined
<1>6. TypeOK'
  <2>1. unstored' \subseteq Publishes
    BY <1>1, ToBrokerTypes DEF BrokerPublish, IInv, TypeOK
  <2> QED
    BY <1>1, <1>2, <1>5, <2>1 DEF IInv, TypeOK
<1>7. ChannelInv'
  BY <1>1, <1>2, <1>5 DEF IInv, ChannelInv, Running
<1>8. SelectInv'
  BY <1>1, <1>2, <1>4 DEF IInv, SelectInv
<1>9. TagInv'
  <2>1. CASE ~pika_channel
    BY <1>1, <2>1 DEF TagInv
  <2>2. CASE pika_channel
    BY <1>1, <1>4, <2>2, TagCounted DEF BrokerPublish
  <2> QED
    BY <2>1, <2>2
<1>10. ConfirmInv'
  <2>1. CASE ~pika_channel
    <3>1. confirm_deferreds' = NoTags /\ firing' = {} /\ from_broker' = <<>>
      BY <1>1, <2>1 DEF IInv, ChannelInv
    <3>2. FramesOfType(from_broker', {"confirm"}) = {} /\ DOMAIN NoTags = {}
      BY <3>1, NoFrames DEF NoTags
    <3> QED
      BY <1>1, <1>2, <3>1, <3>2 DEF IInv, ConfirmInv
  <2>2. CASE pika_channel
    <3>1. /\ published' = published + 1
          /\ DOMAIN unconfirmed' = DOMAIN unconfirmed \cup {published + 1}
      BY <1>1, <1>4, <2>2 DEF Joined
    <3>2. ASSUME NEW t \in DOMAIN confirm_deferreds', t <= published'
          PROVE  \/ t \in DOMAIN unconfirmed'
                 \/ confirm_deferreds'[t] \in stored'
                 \/ (NackedBefore(Len(from_broker) + 1))'
      <4>1. t \in Nat /\ t \in DOMAIN confirm_deferreds
        BY <1>1, <1>3, <3>2
      <4>2. CASE t = published + 1
        BY <3>1, <4>2
      <4>3. CASE t <= published
        <5>1. \/ t \in DOMAIN unconfirmed
              \/ confirm_deferreds[t] \in stored
              \/ NackedBefore(Len(from_broker) + 1)
          BY <4>1, <4>3 DEF IInv, ConfirmInv
        <5>2. NackedBefore(Len(from_broker) + 1) => (NackedBefore(Len(from_broker) + 1))'
          BY <1>1 DEF NackedBefore
        <5> QED
          BY <1>1, <1>2, <3>1, <5>1, <5>2
      <4> QED
        BY <1>3, <3>1, <3>2, <4>1, <4>2, <4>3
    <3>3. ASSUME NEW k \in FramesOfType(from_broker, {"confirm"})
          PROVE  /\ from_broker[k].arg <= published'
                 /\ \A t \in ConfirmTags(from_broker[k].arg, from_broker[k].multiple) :
                       /\ t \notin DOMAIN unconfirmed'
                       /\ confirm_deferreds[t] \in stored \/ NackedBefore(k)
      <4>1. from_broker[k].arg \in Nat /\ from_broker[k].arg <= published
        BY <1>3, FromBrokerTypes DEF FramesOfType, IInv, ConfirmInv
      <4>2. \A t \in ConfirmTags(from_broker[k].arg, from_broker[k].multiple) :
               /\ t # published + 1 /\ t \notin DOMAIN unconfirmed
               /\ confirm_deferreds[t] \in stored \/ NackedBefore(k)
        BY <1>3, <4>1 DEF ConfirmTags, IInv, ConfirmInv
      <4> QED
        BY <1>3, <3>1, <4>1, <4>2
    <3>4. \A k \in FramesOfType(from_broker, {"confirm"})' :
             /\ from_broker'[k].arg <= published'
             /\ \A t \in (ConfirmTags(from_broker[k].arg, from_broker[k].multiple))' :
                   /\ t \notin DOMAIN unconfirmed'
                   /\ confirm_deferreds'[t] \in stored' \/ (NackedBefore(k))'
      BY <1>1, <1>2, <3>3 DEF ConfirmTags, NackedBefore
    <3>5. \A t \in firing' : /\ t <= published' /\ t \notin DOMAIN unconfirmed'
                             /\ confirm_deferreds'[t] \in stored'
      BY <1>1, <1>2, <1>3, <3>1 DEF IInv, ConfirmInv, TypeOK
    <3> QED
      BY <1>1, <1>2, <3>2, <3>4, <3>5 DEF IInv, ConfirmInv
  <2> QED
    BY <2>1, <2>2
<1>11. Head(to_broker).type \notin {"ack", "reject"} /\ Head(to_broker).type \notin {"ack"}
  BY <1>1
<1>12. StageInv'
  <2>1. Shifted(to_broker, to_broker', {"ack", "reject"}, 1)
    BY <1>1, <1>11, FrameTaken
  <2>2. Shifted(from_broker, from_broker', {"deliver"}, 0)
    BY <1>1, <1>3, SameFrames
  <2> QED
    BY <1>1, <1>2, <2>1, <2>2, StageKept DEF IInv
<1>13. AllAwaited => DeliveryInv'
  <2>1. Shifted(to_broker, to_broker', {"ack"}, 1)
    BY <1>1, <1>11, FrameTaken
  <2> QED
    BY <1>1, <1>2, <2>1, DeliveryKept DEF IInv
<1>14. ChannelUntilPublish'
  BY <1>1, ResultKept DEF IInv
<1> QED
  BY <1>6, <1>7, <1>8, <1>9, <1>10, <1>12, <1>13, <1>14 DEF IInv

\* A message is settled: its frame was the only place that it was in.
LEMMA SettledStageInv ==
    ASSUME IInv, NEW type \in {"ack", "reject"}, Taken(type),
           unacked' = Without(unacked, {Head(to_broker).arg})
    PROVE  /\ Head(to_broker).arg \in DOMAIN unacked
           /\ \A i \in FramesOfType(to_broker', {"ack", "reject"}) :
                 /\ i + 1 \in FramesOfType(to_broker, {"ack", "reject"})
                 /\ to_broker'[i] = to_broker[i + 1]
                 /\ to_broker'[i].arg # Head(to_broker).arg
           /\ Head(to_broker).arg \notin DOMAIN handling
           /\ StageInv'
<1> DEFINE r == Head(to_broker).arg
           deliveries  == FramesOfType(from_broker, {"deliver"})
           settlements == FramesOfType(to_broker, {"ack", "reject"})
<1>1. /\ to_broker \in Seq(ToBrokerFrame) /\ to_broker # <<>> /\ to_broker' = Tail(to_broker)
      /\ 1 \in settlements /\ to_broker[1] = Head(to_broker)
      /\ UNCHANGED <<exit, handling, from_broker>>
  BY ToBrokerTaken DEF FramesOfType
<1>2. /\ DOMAIN unacked' = DOMAIN unacked \ {r}
      /\ \A t \in DOMAIN unacked' : unacked'[t] = unacked[t]
  BY DEF Without
<1>3. /\ r \in DOMAIN unacked \ DOMAIN handling
      /\ \A i \in deliveries : from_broker[i].arg # r
      /\ \A i \in settlements : i # 1 => to_broker[i].arg # r
  BY <1>1 DEF IInv, StageInv
<1>4. \A i \in settlements' : /\ i \in Int /\ i + 1 \in settlements /\ i + 1 # 1
                              /\ to_broker'[i] = to_broker[i + 1]
  BY <1>1, TailOf DEF FramesOfType
<1>5. \A i \in settlements : i # 1 => i - 1 \in settlements' /\ to_broker'[i - 1] = to_broker[i]
  <2> SUFFICES ASSUME NEW i \in settlements, i # 1
               PROVE  i - 1 \in settlements' /\ to_broker'[i - 1] = to_broker[i]
    OBVIOUS
  <2>1. i - 1 \in 1 .. Len(to_broker) - 1 /\ (i - 1) + 1 = i
    BY <1>1, TailOf DEF FramesOfType
  <2> QED
    BY <1>1, <2>1, TailOf DEF FramesOfType
<1> HIDE DEF r
<1>6. \A i \in settlements' : to_broker'[i].arg # r
  BY <1>3, <1>4
<1>7. DOMAIN handling' \subseteq DOMAIN unacked'
  BY <1>1, <1>2, <1>3 DEF IInv, StageInv
<1>8. \A i \in deliveries' :
         /\ from_broker'[i].arg \in DOMAIN unacked' \ DOMAIN handling'
         /\ unacked'[from_broker'[i].arg] = from_broker'[i].message
  BY ZenonT(60), <1>1, <1>2, <1>3 DEF IInv, StageInv
<1>9. \A i, j \in deliveries' : from_broker'[i].arg = from_broker'[j].arg => i = j
  BY <1>1 DEF IInv, StageInv
<1>10. \A i \in settlements' : to_broker'[i].arg \in DOMAIN unacked' \ DOMAIN handling'
  <2>1. \A i \in settlements : to_broker[i].arg \in DOMAIN unacked \ DOMAIN handling
    BY DEF IInv, StageInv
  <2> QED
    BY <1>1, <1>2, <1>4, <1>6, <2>1
<1>11. \A i, j \in settlements' : to_broker'[i].arg = to_broker'[j].arg => i = j
  <2> SUFFICES ASSUME NEW i \in settlements', NEW j \in settlements',
                      to_broker'[i].arg = to_broker'[j].arg
               PROVE  i = j
    OBVIOUS
  <2>1. i + 1 = j + 1
    BY <1>4 DEF IInv, StageInv
  <2> QED
    BY <1>4, <2>1
<1>12. \A i \in deliveries', j \in settlements' : from_broker'[i].arg # to_broker'[j].arg
  <2>1. \A i \in deliveries, j \in settlements : from_broker[i].arg # to_broker[j].arg
    BY DEF IInv, StageInv
  <2> QED
    BY ZenonT(60), <1>1, <1>4, <2>1
<1>13. ASSUME Running', NEW t \in DOMAIN unacked'
       PROVE  \/ t \in DOMAIN handling'
              \/ \E i \in deliveries' : from_broker'[i].arg = t
              \/ \E i \in settlements' : to_broker'[i].arg = t
  <2>1. t \in DOMAIN unacked /\ t # r /\ Running
    BY <1>1, <1>2, <1>13 DEF Running
  <2>2. CASE \E i \in settlements : to_broker[i].arg = t
    <3>1. PICK i \in settlements : to_broker[i].arg = t
      BY <2>2
    <3>2. i # 1
      BY <1>1, <2>1, <3>1 DEF r
    <3> QED
      BY <1>5, <3>1, <3>2
  <2> QED
    BY <1>1, <2>1, <2>2 DEF IInv, StageInv
<1>14. \A s, u \in DOMAIN handling' : s # u => handling'[s] \cap handling'[u] = {}
  BY <1>1 DEF IInv, StageInv
<1>15. StageInv'
  <2>1. Running' => \A t \in DOMAIN unacked' :
              \/ t \in DOMAIN handling'
              \/ \E i \in deliveries' : from_broker'[i].arg = t
              \/ \E i \in settlements' : to_broker'[i].arg = t
    BY ONLY <1>13
  <2> QED
    BY ONLY <1>7, <1>8, <1>10, <1>11, <1>12, <1>14, <1>9, <2>1 DEF StageInv
<1> QED
  BY <1>3, <1>4, <1>6, <1>15 DEF r

LEMMA BrokerSettlesIInv ==
    ASSUME IInv, BrokerAck \/ BrokerReject
    PROVE  IInv'
<1> DEFINE r == Head(to_broker).arg
<1>1. PICK type \in {"ack", "reject"} :
         /\ Taken(type)
         /\ type = "ack" => BrokerAck
         /\ type = "reject" => BrokerReject
  BY DEF BrokerAck, BrokerReject
<1>2. /\ to_broker \in Seq(ToBrokerFrame) /\ to_broker' \in Seq(ToBrokerFrame)
      /\ to_broker # <<>> /\ to_broker' = Tail(to_broker)
      /\ Head(to_broker).type = type
      /\ 1 \in DOMAIN to_broker /\ to_broker[1] = Head(to_broker)
      /\ Running => pika_channel
      /\ UNCHANGED <<exit, todo, connection, connection_attempts, callbacks, result,
                     pika_channel, last_publish_tag, confirm_deferreds, firing, handling,
                     from_broker, confirmed, faults>>
      /\ pika_channel => confirming
  BY <1>1, ToBrokerTaken, TakenSelectInv
<1>3. /\ UNCHANGED <<ready, delivered, consumers, confirming, published, unconfirmed, unstored,
                     stored>>
      /\ unacked' = Without(unacked, {r})
      /\ dead' = IF type = "ack" THEN dead
                 ELSE dead \cup {unacked[t] : t \in {r} \cap DOMAIN unacked}
  BY <1>1 DEF BrokerAck, BrokerReject
<1>4. /\ DOMAIN unacked' = DOMAIN unacked \ {r}
      /\ \A t \in DOMAIN unacked' : unacked'[t] = unacked[t]
  BY <1>3 DEF Without
<1>5. /\ r \in DOMAIN unacked /\ r \notin DOMAIN handling /\ StageInv'
      /\ \A i \in FramesOfType(to_broker', {"ack", "reject"}) :
            /\ i + 1 \in FramesOfType(to_broker, {"ack", "reject"})
            /\ to_broker'[i] = to_broker[i + 1]
            /\ to_broker'[i].arg # r
  BY <1>1, <1>3, SettledStageInv
<1>6. from_broker \in Seq(FromBrokerFrame) /\ published \in Nat
  BY DEF IInv, ChannelInv
<1>7. TypeOK'
  <2>1. dead' \subseteq Messages
    BY <1>3 DEF IInv, TypeOK
  <2> QED
    BY <1>2, <1>3, <1>4, <2>1 DEF IInv, TypeOK
<1>8. ChannelInv'
  BY <1>2, <1>3 DEF IInv, ChannelInv, Running
<1>9. SelectInv'
  BY <1>2, <1>3 DEF IInv, SelectInv
<1>10. TagInv'
  <2>1. CASE ~pika_channel
    BY <1>2, <2>1 DEF TagInv
  <2>2. CASE pika_channel
    <3>1. Head(to_broker).type \notin {"publish"}
      BY <1>2
    <3>2. Shifted(to_broker, to_broker', {"publish"}, 1)
      BY <1>2, <3>1, FrameTaken
    <3> QED
      BY <1>2, <1>3, <2>2, <3>2, TagKept DEF IInv
  <2> QED
    BY <2>1, <2>2
<1>11. ConfirmInv'
  BY <1>2, <1>3, <1>6, ConfirmKept DEF IInv, ConfirmInv
<1>12. ASSUME AllAwaited
       PROVE  DeliveryInv'
  <2>0. DeliveryInv
    BY <1>12 DEF IInv
  <2>1. \A s \in DOMAIN handling' : \A p \in ToSet(Outputs[unacked'[s]]) :
           p \in stored' \/ \E t \in handling'[s] : confirm_deferreds'[t] = p
    <3>1. \A s \in DOMAIN handling : unacked'[s] = unacked[s]
      BY <1>4, <1>5 DEF IInv, StageInv
    <3>2. \A s \in DOMAIN handling : \A p \in ToSet(Outputs[unacked[s]]) :
             p \in stored \/ \E t \in handling[s] : confirm_deferreds[t] = p
      BY <2>0 DEF DeliveryInv
    <3> SUFFICES ASSUME NEW s \in DOMAIN handling', NEW p \in ToSet(Outputs[unacked'[s]])
                 PROVE  p \in stored' \/ \E t \in handling'[s] : confirm_deferreds'[t] = p
      OBVIOUS
    <3>3. s \in DOMAIN handling /\ p \in ToSet(Outputs[unacked[s]])
      BY <1>2, <3>1
    <3> QED
      BY <1>2, <1>3, <3>2, <3>3
  <2>2. ASSUME NEW k \in FramesOfType(to_broker', {"ack"})
        PROVE  ToSet(Outputs[unacked'[to_broker'[k].arg]]) \subseteq stored'
    <3>1. k \in FramesOfType(to_broker', {"ack", "reject"}) /\ to_broker'[k].type = "ack"
      BY <2>2 DEF FramesOfType
    <3>2. PICK j \in FramesOfType(to_broker, {"ack", "reject"}) :
             to_broker'[k] = to_broker[j] /\ to_broker[j].arg # r
      BY <1>5, <3>1
    <3>3. j \in FramesOfType(to_broker, {"ack"})
      BY <3>1, <3>2 DEF FramesOfType
    <3>4. to_broker[j].arg \in DOMAIN unacked
      BY DEF IInv, StageInv
    <3> QED
      BY ZenonT(60), <1>3, <1>4, <2>0, <3>2, <3>3, <3>4 DEF DeliveryInv
  <2>3. unacked[r] \in dead' \/ ToSet(Outputs[unacked[r]]) \subseteq stored'
    <3>1. CASE type = "ack"
      <4>1. 1 \in FramesOfType(to_broker, {"ack"})
        BY <1>2, <3>1 DEF FramesOfType
      <4> QED
        BY <1>2, <1>3, <2>0, <4>1 DEF DeliveryInv
    <3>2. CASE type = "reject"
      BY <1>3, <1>5, <3>2
    <3> QED
      BY <3>1, <3>2
  <2>4. dead \subseteq dead'
    BY <1>3
  <2>5. \A n \in Messages :
           \/ n \in ready' \cup dead'
           \/ \E t \in DOMAIN unacked' : unacked'[t] = n
           \/ ToSet(Outputs[n]) \subseteq stored'
    BY <1>3, <1>4, <2>0, <2>3, <2>4 DEF DeliveryInv
  <2> QED
    BY <2>1, <2>2, <2>5 DEF DeliveryInv
<1>13. ChannelUntilPublish'
  BY <1>2, ResultKept DEF IInv
<1> QED
  BY <1>5, <1>7, <1>8, <1>9, <1>10, <1>11, <1>12, <1>13 DEF IInv

-----------------------------------------------------------------------------
(* The broker delivers, stores, confirms and refuses.                      *)

LEMMA BrokerDeliverIInv ==
    ASSUME IInv, BrokerDeliver
    PROVE  IInv'
<1> DEFINE d == delivered + 1
<1>1. PICK m \in ready :
         /\ QueueOf[m] \in consumers
         /\ ready' = ready \ {m}
         /\ unacked' = Joined(unacked, [t \in {d} |-> m])
         /\ from_broker' = IF Running
                           THEN Append(from_broker, [type |-> "deliver", arg |-> d, message |-> m])
                           ELSE from_broker
  BY DEF BrokerDeliver
<1> DEFINE f == [type |-> "deliver", arg |-> d, message |-> m]
           deliveries  == FramesOfType(from_broker, {"deliver"})
           settlements == FramesOfType(to_broker, {"ack", "reject"})
<1>2. /\ delivered' = d
      /\ UNCHANGED <<exit, todo, connection, connection_attempts, callbacks, result,
                     pika_channel, last_publish_tag, confirm_deferreds, firing, handling,
                     to_broker, consumers, dead, confirming, published, unconfirmed, unstored,
                     stored, confirmed, faults>>
  BY DEF BrokerDeliver
<1>3. /\ m \in Messages /\ delivered \in Nat /\ d \in Nat /\ published \in Nat
      /\ to_broker \in Seq(ToBrokerFrame) /\ from_broker \in Seq(FromBrokerFrame)
      /\ \A t \in DOMAIN unacked : t \in 1 .. delivered /\ unacked[t] \in Messages
  BY DEF IInv, TypeOK, ChannelInv
<1>4. d \notin DOMAIN unacked
  BY <1>3
<1>5. /\ DOMAIN unacked' = DOMAIN unacked \cup {d}
      /\ \A t \in DOMAIN unacked : unacked'[t] = unacked[t]
      /\ unacked'[d] = m
  BY <1>1, <1>4 DEF Joined
<1>6. Running => pika_channel
  BY <1>1 DEF IInv, ChannelInv, NoChannel
<1>7. /\ f \in FromBrokerFrame /\ f.type = "deliver" /\ f.arg = d /\ f.message = m
      /\ Running => from_broker' = Append(from_broker, f)
      /\ ~Running => from_broker' = from_broker
  BY <1>1, <1>3, FramesAre
<1> HIDE DEF f, d
<1>8. TypeOK'
  <2>1. \A t \in DOMAIN unacked' : t \in 1 .. delivered' /\ unacked'[t] \in Messages
    BY <1>2, <1>3, <1>5 DEF d
  <2> QED
    BY <1>1, <1>2, <2>1 DEF IInv, TypeOK
<1>9. ChannelInv'
  <2>1. from_broker' \in Seq(FromBrokerFrame)
    BY <1>3, <1>7, AppendOf
  <2> QED
    BY <1>2, <1>3, <1>6, <1>7, <2>1 DEF IInv, ChannelInv, Running
<1>10. SelectInv'
  BY <1>2 DEF IInv, SelectInv
<1>11. TagInv'
  <2>1. CASE ~pika_channel
    BY <1>2, <2>1 DEF TagInv
  <2>2. CASE pika_channel
    <3>1. Shifted(to_broker, to_broker', {"publish"}, 0)
      BY <1>2, <1>3, SameFrames
    <3> QED
      BY <1>2, <1>3, <2>2, <3>1, TagKept DEF IInv
  <2> QED
    BY <2>1, <2>2
<1>12. ConfirmInv'
  BY <1>2, <1>3, <1>7, ConfirmKept DEF IInv, ConfirmInv
<1>13. StageInv'
  <2>1. \A i \in deliveries' : \/ i \in deliveries /\ from_broker'[i] = from_broker[i]
                               \/ i = Len(from_broker) + 1 /\ Running /\ from_broker'[i] = f
    <3>1. CASE Running
      BY <1>3, <1>7, <3>1, AppendOf DEF FramesOfType
    <3>2. CASE ~Running
      BY <1>7, <3>2
    <3> QED
      BY <3>1, <3>2
  <2>2. \A i \in deliveries : i \in deliveries' /\ from_broker'[i] = from_broker[i]
    BY <1>3, <1>7, AppendOf DEF FramesOfType
  <2>3. Running => \E i \in deliveries' : from_broker'[i].arg = d
    <3>1. Running => Len(from_broker) + 1 \in deliveries'
                     /\ from_broker'[Len(from_broker) + 1].arg = d
      BY <1>3, <1>7, AppendOf DEF FramesOfType
    <3> QED
      BY <3>1
  <2>4. /\ DOMAIN handling \subseteq DOMAIN unacked
        /\ \A i \in deliveries : /\ from_broker[i].arg \in DOMAIN unacked \ DOMAIN handling
                                 /\ unacked[from_broker[i].arg] = from_broker[i].message
        /\ \A i \in settlements : to_broker[i].arg \in DOMAIN unacked \ DOMAIN handling
    BY DEF IInv, StageInv
  <2>5. /\ DOMAIN handling' \subseteq DOMAIN unacked'
        /\ \A i \in settlements' : to_broker'[i].arg \in DOMAIN unacked' \ DOMAIN handling'
    BY <1>2, <1>5, <2>4
  <2>6. \A i \in deliveries' :
           /\ from_broker'[i].arg \in DOMAIN unacked' \ DOMAIN handling'
           /\ unacked'[from_broker'[i].arg] = from_broker'[i].message
    BY <1>2, <1>4, <1>5, <1>7, <2>1, <2>4
  <2>7. \A i, j \in deliveries' : from_broker'[i].arg = from_broker'[j].arg => i = j
    <3>1. \A i, j \in deliveries : from_broker[i].arg = from_broker[j].arg => i = j
      BY DEF IInv, StageInv
    <3> QED
      BY <1>4, <1>7, <2>1, <2>4, <3>1
  <2>8. \A i, j \in settlements' : to_broker'[i].arg = to_broker'[j].arg => i = j
    BY <1>2 DEF IInv, StageInv
  <2>9. \A i \in deliveries', j \in settlements' : from_broker'[i].arg # to_broker'[j].arg
    <3>1. \A i \in deliveries, j \in settlements : from_broker[i].arg # to_broker[j].arg
      BY DEF IInv, StageInv
    <3> QED
      BY <1>2, <1>4, <1>7, <2>1, <2>4, <3>1
  <2>10. ASSUME Running', NEW t \in DOMAIN unacked'
         PROVE  \/ t \in DOMAIN handling'
                \/ \E i \in deliveries' : from_broker'[i].arg = t
                \/ \E i \in settlements' : to_broker'[i].arg = t
    <3>1. Running
      BY <1>2, <2>10 DEF Running
    <3>2. CASE t = d
      BY <2>3, <3>1, <3>2
    <3>3. CASE t \in DOMAIN unacked
      BY <1>2, <2>2, <3>1, <3>3 DEF IInv, StageInv
    <3> QED
      BY <1>5, <2>10, <3>2, <3>3
  <2>11. \A s, u \in DOMAIN handling' : s # u => handling'[s] \cap handling'[u] = {}
    BY <1>2 DEF IInv, StageInv
  <2> QED
    BY <2>5, <2>6, <2>7, <2>8, <2>9, <2>10, <2>11 DEF StageInv
<1>14. ASSUME AllAwaited
       PROVE  DeliveryInv'
  <2>0. DeliveryInv
    BY <1>14 DEF IInv
  <2>1. /\ DOMAIN handling \subseteq DOMAIN unacked
        /\ \A i \in FramesOfType(to_broker, {"ack"}) : to_broker[i].arg \in DOMAIN unacked
    BY DEF IInv, StageInv, FramesOfType
  <2>2. \A s \in DOMAIN handling' : \A p \in ToSet(Outputs[unacked'[s]]) :
           p \in stored' \/ \E t \in handling'[s] : confirm_deferreds'[t] = p
    BY <1>2, <1>5, <2>0, <2>1 DEF DeliveryInv
  <2>3. \A k \in FramesOfType(to_broker, {"ack"})' :
           ToSet(Outputs[unacked'[to_broker'[k].arg]]) \subseteq stored'
    BY <1>2, <1>5, <2>0, <2>1 DEF DeliveryInv
  <2>4. \A n \in Messages :
           \/ n \in ready' \cup dead'
           \/ \E t \in DOMAIN unacked' : unacked'[t] = n
           \/ ToSet(Outputs[n]) \subseteq stored'
    BY <1>1, <1>2, <1>5, <2>0 DEF DeliveryInv
  <2> QED
    BY <2>2, <2>3, <2>4 DEF DeliveryInv
<1>15. ChannelUntilPublish'
  BY <1>2, ResultKept DEF IInv
<1> QED
  BY <1>8, <1>9, <1>10, <1>11, <1>12, <1>13, <1>14, <1>15 DEF IInv

LEMMA BrokerStoreIInv ==
    ASSUME IInv, BrokerStore
    PROVE  IInv'
<1>1. PICK p \in unstored : unstored' = unstored \ {p} /\ stored' = stored \cup {p}
  BY DEF BrokerStore
<1>2. UNCHANGED <<exit, todo, connection, connection_attempts, callbacks, result,
                  pika_channel, last_publish_tag, confirm_deferreds, firing, handling,
                  to_broker, from_broker, ready, unacked, delivered, consumers, dead, confirming,
                  published, unconfirmed, confirmed, faults>>
  BY DEF BrokerStore
<1>3. /\ to_broker \in Seq(ToBrokerFrame) /\ from_broker \in Seq(FromBrokerFrame)
      /\ published \in Nat /\ stored \subseteq stored'
  BY <1>1 DEF IInv, ChannelInv
<1>4. \A types : Shifted(to_broker, to_broker', types, 0) /\ Shifted(from_broker, from_broker', types, 0)
  BY <1>2, <1>3, SameFrames
<1>5. TypeOK'
  BY <1>1, <1>2 DEF IInv, TypeOK
<1>6. ChannelInv'
  BY <1>2 DEF IInv, ChannelInv, Running, NoChannel
<1>7. SelectInv'
  BY <1>2 DEF IInv, SelectInv
<1>8. TagInv'
  <2>1. CASE ~pika_channel
    BY <1>2, <2>1 DEF TagInv
  <2>2. CASE pika_channel
    <3>1. Shifted(to_broker, to_broker', {"publish"}, 0)
      BY <1>4
    <3> QED
      BY <1>2, <1>3, <2>2, <3>1, TagKept DEF IInv
  <2> QED
    BY <2>1, <2>2
<1>9. ConfirmInv'
  BY <1>2, <1>3, ConfirmKept DEF IInv, ConfirmInv
<1>10. StageInv'
  <2>1. /\ Shifted(to_broker, to_broker', {"ack", "reject"}, 0)
        /\ Shifted(from_broker, from_broker', {"deliver"}, 0)
    BY <1>4
  <2> QED
    BY <1>2, <2>1, StageKept DEF IInv
<1>11. AllAwaited => DeliveryInv'
  <2>1. Shifted(to_broker, to_broker', {"ack"}, 0)
    BY <1>4
  <2> QED
    BY <1>2, <1>3, <2>1, DeliveryKept DEF IInv
<1>12. ChannelUntilPublish'
  BY <1>2, ResultKept DEF IInv
<1> QED
  BY <1>5, <1>6, <1>7, <1>8, <1>9, <1>10, <1>11, <1>12 DEF IInv

\* The broker answers some publishes: all parts but the one about confirms.
LEMMA AnsweredIInv ==
    ASSUME IInv, Running, NEW f \in FromBrokerFrame, f.type \in {"confirm", "nack"},
           from_broker' = Append(from_broker, f), NEW tags,
           tags \cap DOMAIN unconfirmed # {}, unconfirmed' = Without(unconfirmed, tags),
           unstored' \subseteq unstored, faults' \in 0 .. MaxFaults,
           UNCHANGED <<processVars, to_broker, consumeVars, confirming, published, stored,
                       confirmed>>,
           ConfirmInv'
    PROVE  IInv'
<1>1. /\ to_broker \in Seq(ToBrokerFrame) /\ from_broker \in Seq(FromBrokerFrame)
      /\ from_broker' \in Seq(FromBrokerFrame)
  BY AppendOf DEF IInv, ChannelInv
<1>2. /\ DOMAIN unconfirmed' \subseteq DOMAIN unconfirmed
      /\ \A t \in DOMAIN unconfirmed' : unconfirmed'[t] = unconfirmed[t]
  BY DEF Without
<1>3. pika_channel /\ confirming
  BY DEF IInv, ChannelInv, SelectInv, NoChannel, NoTags
<1>4. TypeOK'
  BY <1>2 DEF IInv, TypeOK
<1>5. ChannelInv'
  BY <1>1, <1>3 DEF IInv, ChannelInv, Running
<1>6. SelectInv'
  BY <1>3 DEF SelectInv
<1>7. TagInv'
  <2>1. Shifted(to_broker, to_broker', {"publish"}, 0)
    BY <1>1, SameFrames
  <2> QED
    BY <1>1, <1>2, <1>3, <2>1, TagKept DEF IInv
<1>8. StageInv'
  <2>1. Shifted(to_broker, to_broker', {"ack", "reject"}, 0)
    BY <1>1, SameFrames
  <2>2. Shifted(from_broker, from_broker', {"deliver"}, 0)
    <3>1. f.type \notin {"deliver"}
      OBVIOUS
    <3> QED
      BY <1>1, <3>1, FrameSent
  <2> QED
    BY <2>1, <2>2, StageKept DEF IInv
<1>9. AllAwaited => DeliveryInv'
  <2>1. Shifted(to_broker, to_broker', {"ack"}, 0)
    BY <1>1, SameFrames
  <2> QED
    BY <2>1, DeliveryKept DEF IInv
<1>10. ChannelUntilPublish'
  BY ResultKept DEF IInv
<1> QED
  BY <1>4, <1>5, <1>6, <1>7, <1>8, <1>9, <1>10 DEF IInv

\* A confirm covers what the broker has stored, and nothing before that it has not
\* confirmed or refused.
LEMMA BrokerConfirmIInv ==
    ASSUME IInv, BrokerConfirm
    PROVE  IInv'
<1>1. PICK tag \in DOMAIN unconfirmed, multiple \in BOOLEAN :
         LET tags == IF multiple THEN {t \in DOMAIN unconfirmed : t <= tag} ELSE {tag}
         IN  /\ \A t \in tags : unconfirmed[t] \in stored \ unstored
             /\ from_broker' = Append(from_broker, Confirmation(tag, multiple))
             /\ unconfirmed' = Without(unconfirmed, tags)
  BY DEF BrokerConfirm
<1> DEFINE tags == IF multiple THEN {t \in DOMAIN unconfirmed : t <= tag} ELSE {tag}
           f == Confirmation(tag, multiple)
           L == Len(from_broker)
<1>2. /\ Running
      /\ UNCHANGED <<exit, todo, connection, connection_attempts, callbacks, result,
                     pika_channel, last_publish_tag, confirm_deferreds, firing, handling,
                     to_broker, ready, unacked, delivered, consumers, dead, confirming,
                     published, unstored, stored, confirmed, faults>>
  BY DEF BrokerConfirm
<1>3. /\ \A t \in tags : unconfirmed[t] \in stored
      /\ from_broker' = Append(from_broker, f) /\ unconfirmed' = Without(unconfirmed, tags)
  BY <1>1
<1>4. /\ from_broker \in Seq(FromBrokerFrame) /\ published \in Nat
      /\ DOMAIN unconfirmed \subseteq 1 .. published
      /\ DOMAIN confirm_deferreds \subseteq 0 .. last_publish_tag /\ last_publish_tag \in Nat
  BY DEF IInv, ChannelInv, TypeOK
<1>5. tag \in Nat /\ tag <= published
  BY <1>4
<1>6. tag \in tags /\ tags \subseteq DOMAIN unconfirmed
  BY <1>5
<1>7. /\ f \in FromBrokerFrame /\ f.type = "confirm" /\ f.arg = tag /\ f.multiple = multiple
  BY <1>5, FramesAre DEF Confirmation
<1> HIDE DEF f
<1>8. DOMAIN unconfirmed' = DOMAIN unconfirmed \ tags
  BY <1>3 DEF Without
<1>9. pika_channel
  BY <1>2, <1>6 DEF IInv, ChannelInv, NoChannel, NoTags
<1>10. \A t \in tags : confirm_deferreds[t] \in stored
  BY <1>3, <1>6, <1>9 DEF IInv, TagInv
<1>11. \A k : NackedBefore(k) => (NackedBefore(k))'
  BY <1>3, <1>4, <1>7, NackStays
<1>12. L \in Nat /\ Len(from_broker') = L + 1
  BY <1>3, <1>4, <1>7, AppendOf
<1>13. \A t \in DOMAIN confirm_deferreds : t <= published =>
          \/ t \in tags \/ t \in DOMAIN unconfirmed'
          \/ confirm_deferreds[t] \in stored \/ NackedBefore(L + 1)
  BY <1>8 DEF IInv, ConfirmInv
<1>14. (NackedBefore(L + 1)) => (NackedBefore(Len(from_broker) + 1))'
  <2> SUFFICES ASSUME NackedBefore(L + 1)
               PROVE  (NackedBefore(Len(from_broker) + 1))'
    OBVIOUS
  <2>1. PICK i \in DOMAIN from_broker : i < L + 1 /\ from_broker[i].type = "nack"
    BY DEF NackedBefore
  <2>2. /\ i \in 1 .. L /\ i \in DOMAIN from_broker' /\ from_broker'[i] = from_broker[i]
    BY <1>3, <1>4, <1>7, <2>1, AppendOf
  <2>3. i < Len(from_broker') + 1
    BY <1>12, <2>2
  <2> QED
    BY <2>1, <2>2, <2>3 DEF NackedBefore
<1>15. \A t \in DOMAIN confirm_deferreds' :
          t <= published' => \/ t \in DOMAIN unconfirmed'
                             \/ confirm_deferreds'[t] \in stored'
                             \/ (NackedBefore(Len(from_broker) + 1))'
  BY <1>2, <1>10, <1>13, <1>14
<1>16. ASSUME NEW k \in FramesOfType(from_broker', {"confirm"})
       PROVE  /\ from_broker'[k].arg <= published'
              /\ \A t \in (ConfirmTags(from_broker[k].arg, from_broker[k].multiple))' :
                    /\ t \notin DOMAIN unconfirmed'
                    /\ confirm_deferreds'[t] \in stored' \/ (NackedBefore(k))'
  <2>1. \/ k \in FramesOfType(from_broker, {"confirm"}) /\ from_broker'[k] = from_broker[k]
        \/ k = L + 1 /\ from_broker'[k] = f
    BY <1>3, <1>4, <1>7, <1>16, AppendOf DEF FramesOfType
  <2>2. CASE k \in FramesOfType(from_broker, {"confirm"}) /\ from_broker'[k] = from_broker[k]
    <3>1. (ConfirmTags(from_broker[k].arg, from_broker[k].multiple))'
             = ConfirmTags(from_broker[k].arg, from_broker[k].multiple)
      BY <1>2, <2>2 DEF ConfirmTags
    <3>2. /\ from_broker[k].arg <= published
          /\ \A t \in ConfirmTags(from_broker[k].arg, from_broker[k].multiple) :
                /\ t \notin DOMAIN unconfirmed
                /\ confirm_deferreds[t] \in stored \/ NackedBefore(k)
      BY <2>2 DEF IInv, ConfirmInv
    <3> QED
      BY <1>2, <1>8, <1>11, <2>2, <3>1, <3>2
  <2>3. CASE k = L + 1 /\ from_broker'[k] = f
    <3>1. (ConfirmTags(from_broker[k].arg, from_broker[k].multiple))' = ConfirmTags(tag, multiple)
      BY <1>2, <1>7, <2>3 DEF ConfirmTags
    <3>2. ASSUME NEW t \in ConfirmTags(tag, multiple)
          PROVE  /\ t \in DOMAIN confirm_deferreds /\ t <= tag /\ t <= published
                 /\ t \in DOMAIN unconfirmed => t \in tags
      BY <1>4, <1>5, <3>2 DEF ConfirmTags
    <3>3. \A t \in ConfirmTags(tag, multiple) :
             /\ t \notin DOMAIN unconfirmed'
             /\ confirm_deferreds[t] \in stored \/ NackedBefore(k)
      BY <1>8, <1>10, <1>13, <2>3, <3>2
    <3> QED
      BY <1>2, <1>5, <1>7, <1>11, <2>3, <3>1, <3>3
  <2> QED
    BY <2>1, <2>2, <2>3
<1>17. ConfirmInv'
  <2>1. \A t \in firing' : /\ t <= published' /\ t \notin DOMAIN unconfirmed'
                           /\ confirm_deferreds'[t] \in stored'
    BY <1>2, <1>8 DEF IInv, ConfirmInv
  <2>2. confirmed' \subseteq stored'
    BY <1>2 DEF IInv, ConfirmInv
  <2> QED
    BY <1>15, <1>16, <2>1, <2>2 DEF ConfirmInv
<1>18. unstored' \subseteq unstored /\ faults' \in 0 .. MaxFaults
  BY <1>2 DEF IInv, TypeOK
<1>19. tags \cap DOMAIN unconfirmed # {}
  BY <1>6
<1> HIDE DEF tags
<1> QED
  BY <1>2, <1>3, <1>7, <1>17, <1>18, <1>19, AnsweredIInv

\* After a refusal nothing is known of the confirms that follow.
LEMMA BrokerNackIInv ==
    ASSUME IInv, BrokerNack
    PROVE  IInv'
<1>1. PICK tag \in DOMAIN unconfirmed :
         /\ unstored' = unstored \ {unconfirmed[tag]}
         /\ from_broker' = Append(from_broker, Frame("nack", tag))
         /\ unconfirmed' = Without(unconfirmed, {tag})
  BY DEF BrokerNack
<1> DEFINE f == Frame("nack", tag)
           L == Len(from_broker)
<1>2. /\ Running /\ faults < MaxFaults /\ faults' = faults + 1
      /\ UNCHANGED <<exit, todo, connection, connection_attempts, callbacks, result,
                     pika_channel, last_publish_tag, confirm_deferreds, firing, handling,
                     to_broker, ready, unacked, delivered, consumers, dead, confirming,
                     published, stored, confirmed>>
  BY DEF BrokerNack, Faulty
<1>3. /\ from_broker \in Seq(FromBrokerFrame) /\ tag \in Nat
  BY DEF IInv, ChannelInv, TypeOK
<1>4. f \in FromBrokerFrame /\ f.type = "nack" /\ from_broker' = Append(from_broker, f)
  BY <1>1, <1>3, FramesAre DEF Frame
<1> HIDE DEF f
<1>5. DOMAIN unconfirmed' \subseteq DOMAIN unconfirmed
  BY <1>1 DEF Without
<1>6. (NackedBefore(Len(from_broker) + 1))'
  <2>1. L \in Nat /\ Len(from_broker') = L + 1 /\ L + 1 \in DOMAIN from_broker'
        /\ from_broker'[L + 1] = f
    BY <1>3, <1>4, AppendOf
  <2>2. L + 1 < Len(from_broker') + 1
    BY <2>1
  <2> QED
    BY <1>4, <2>1, <2>2 DEF NackedBefore
<1>7. ASSUME NEW k \in FramesOfType(from_broker', {"confirm"})
      PROVE  /\ from_broker'[k].arg <= published'
             /\ \A t \in (ConfirmTags(from_broker[k].arg, from_broker[k].multiple))' :
                   /\ t \notin DOMAIN unconfirmed'
                   /\ confirm_deferreds'[t] \in stored' \/ (NackedBefore(k))'
  <2>1. k \in FramesOfType(from_broker, {"confirm"}) /\ from_broker'[k] = from_broker[k]
    BY <1>3, <1>4, <1>7, AppendOf DEF FramesOfType
  <2>2. (ConfirmTags(from_broker[k].arg, from_broker[k].multiple))'
           = ConfirmTags(from_broker[k].arg, from_broker[k].multiple)
    BY <1>2, <2>1 DEF ConfirmTags
  <2>3. NackedBefore(k) => (NackedBefore(k))'
    BY <1>3, <1>4, NackStays
  <2>4. /\ from_broker[k].arg <= published
        /\ \A t \in ConfirmTags(from_broker[k].arg, from_broker[k].multiple) :
              /\ t \notin DOMAIN unconfirmed
              /\ confirm_deferreds[t] \in stored \/ NackedBefore(k)
    BY <2>1 DEF IInv, ConfirmInv
  <2> QED
    BY <1>2, <1>5, <2>1, <2>2, <2>3, <2>4
<1>8. ConfirmInv'
  <2>1. \A t \in firing' : /\ t <= published' /\ t \notin DOMAIN unconfirmed'
                           /\ confirm_deferreds'[t] \in stored'
    BY <1>2, <1>5 DEF IInv, ConfirmInv
  <2>2. confirmed' \subseteq stored'
    BY <1>2 DEF IInv, ConfirmInv
  <2> QED
    BY <1>6, <1>7, <2>1, <2>2 DEF ConfirmInv
<1>9. unstored' \subseteq unstored /\ faults' \in 0 .. MaxFaults
  BY <1>1, <1>2, ClientAssumption DEF IInv, TypeOK
<1>10. {tag} \cap DOMAIN unconfirmed # {} /\ unconfirmed' = Without(unconfirmed, {tag})
  BY <1>1
<1> QED
  BY <1>2, <1>4, <1>8, <1>9, <1>10, AnsweredIInv

-----------------------------------------------------------------------------
(* The channel is closed.                                                  *)

\* A process without a channel waits for nothing, and what was out for delivery is
\* in its queue again.
LEMMA CloseChannelIInv ==
    ASSUME IInv, CloseChannel, to_broker' = <<>>, from_broker' = <<>>,
           unstored' \subseteq unstored, faults' \in 0 .. MaxFaults, UNCHANGED confirmed,
           \/ exit' \in ExitCodes /\ ResetProcess
           \/ ~pika_channel /\ UNCHANGED processVars
    PROVE  IInv'
<1>1. /\ ready' = ready \cup {unacked[t] : t \in DOMAIN unacked}
      /\ unacked' = NoTags /\ delivered' = 0 /\ consumers' = {}
      /\ confirming' = FALSE /\ published' = 0 /\ unconfirmed' = NoTags
      /\ UNCHANGED <<dead, stored>> /\ DOMAIN NoTags = {}
  BY DEF CloseChannel, NoTags
<1>2. /\ pika_channel' = FALSE /\ last_publish_tag' = 0 /\ confirm_deferreds' = NoTags
      /\ firing' = {} /\ handling' = NoTags
  BY DEF ResetProcess, IInv, TypeOK, ChannelInv
<1>3. TypeOK'
  <2>1. ready' \cup dead' \subseteq Messages
    BY <1>1 DEF IInv, TypeOK
  <2>2. unstored' \cup stored' \cup confirmed' \subseteq Publishes
    BY <1>1 DEF IInv, TypeOK
  <2>3. CASE exit' \in ExitCodes /\ ResetProcess
    <3>1. /\ todo' = Calls /\ connection' = "disconnected" /\ connection_attempts' = 0
          /\ callbacks' = <<>> /\ result' = "pending"
      BY <2>3 DEF ResetProcess
    <3>2. todo' \in Seq(Call) /\ 0 \in 0 .. ConnectionAttempts /\ DOMAIN callbacks' = {}
      BY <3>1, ClientAssumption
    <3> QED
      BY <1>1, <1>2, <2>1, <2>2, <2>3, <3>1, <3>2 DEF TypeOK
  <2>4. CASE UNCHANGED processVars
    BY <1>1, <1>2, <2>1, <2>2, <2>4 DEF IInv, TypeOK
  <2> QED
    BY <2>3, <2>4
<1>4. ChannelInv'
  <2>1. /\ to_broker' \in Seq(ToBrokerFrame) /\ from_broker' \in Seq(FromBrokerFrame)
        /\ NoChannel'
    BY <1>1 DEF NoChannel
  <2>2. CASE exit' \in ExitCodes /\ ResetProcess
    BY <1>1, <1>2, <2>1, <2>2 DEF ResetProcess, ChannelInv
  <2>3. CASE ~pika_channel /\ UNCHANGED processVars
    BY <1>1, <1>2, <2>1, <2>3 DEF IInv, ChannelInv, Running
  <2> QED
    BY <2>2, <2>3
<1>5. SelectInv'
  BY <1>1, <1>2 DEF SelectInv
<1>6. TagInv'
  BY <1>2 DEF TagInv
<1>7. /\ FramesOfType(from_broker', {"confirm"}) = {}
      /\ FramesOfType(from_broker', {"deliver"}) = {}
      /\ FramesOfType(to_broker', {"ack", "reject"}) = {}
      /\ FramesOfType(to_broker', {"ack"}) = {}
  BY NoFrames
<1>8. ConfirmInv'
  BY <1>1, <1>2, <1>7 DEF IInv, ConfirmInv
<1>9. StageInv'
  BY <1>1, <1>2, <1>7 DEF StageInv
<1>10. AllAwaited => DeliveryInv'
  BY <1>1, <1>2, <1>7 DEF IInv, DeliveryInv
<1>11. ChannelUntilPublish'
  <2>1. CASE exit' \in ExitCodes /\ ResetProcess
    BY <2>1 DEF ResetProcess, ChannelUntilPublish
  <2>2. CASE UNCHANGED processVars
    BY <2>2, ResultKept DEF IInv
  <2> QED
    BY <2>1, <2>2
<1> QED
  BY <1>3, <1>4, <1>5, <1>6, <1>8, <1>9, <1>10, <1>11 DEF IInv

LEMMA BrokerClosesIInv ==
    ASSUME IInv, BrokerCloses
    PROVE  IInv'
<1>1. ~pika_channel /\ from_broker = <<>>
  BY DEF BrokerCloses, IInv, ChannelInv
<1>2. faults' \in 0 .. MaxFaults /\ unstored' \subseteq unstored
  BY DEF BrokerCloses, IInv, TypeOK
<1> QED
  BY <1>1, <1>2, CloseChannelIInv DEF BrokerCloses

LEMMA BrokerRestartIInv ==
    ASSUME IInv, BrokerRestart
    PROVE  IInv'
<1>1. faults' \in 0 .. MaxFaults /\ unstored' \subseteq unstored
  BY ClientAssumption DEF BrokerRestart, Faulty, IInv, TypeOK
<1>2. CASE Running /\ connection \in Established
  BY <1>1, <1>2, CloseChannelIInv DEF BrokerRestart, ExitCodes
<1>3. CASE ~(Running /\ connection \in Established)
  <2>1. ~pika_channel
    BY <1>3 DEF IInv, TypeOK, ChannelInv, Established
  <2> QED
    BY <1>1, <1>3, <2>1, CloseChannelIInv DEF BrokerRestart
<1> QED
  BY <1>2, <1>3

-----------------------------------------------------------------------------
(* The invariant holds.                                                    *)

LEMMA InitIInv ==
    ASSUME Init
    PROVE  IInv
<1>1. /\ exit = "running" /\ todo = Calls /\ connection = "disconnected"
      /\ connection_attempts = 0 /\ callbacks = <<>> /\ result = "pending"
      /\ pika_channel = FALSE /\ last_publish_tag = 0 /\ confirm_deferreds = NoTags
      /\ firing = {} /\ handling = NoTags /\ to_broker = <<>> /\ from_broker = <<>>
      /\ ready = Messages /\ dead = {} /\ unacked = NoTags /\ delivered = 0 /\ consumers = {}
      /\ confirming = FALSE /\ published = 0 /\ unconfirmed = NoTags
      /\ unstored = {} /\ stored = {} /\ confirmed = {} /\ faults = 0
      /\ DOMAIN NoTags = {} /\ DOMAIN callbacks = {}
  BY DEF Init, NewProcess, NoChannel, NoTags
<1>2. TypeOK
  <2>1. /\ todo \in Seq(Call) /\ 0 \in 0 .. ConnectionAttempts /\ 0 \in 0 .. MaxFaults
    BY <1>1, ClientAssumption
  <2> QED
    BY <1>1, <2>1 DEF TypeOK
<1>3. ChannelInv
  BY <1>1 DEF ChannelInv, Running, NoChannel
<1>4. SelectInv /\ TagInv
  BY <1>1 DEF SelectInv, TagInv
<1>5. \A types : FramesOfType(to_broker, types) = {} /\ FramesOfType(from_broker, types) = {}
  BY <1>1, NoFrames
<1>6. ConfirmInv /\ StageInv
  BY <1>1, <1>5 DEF ConfirmInv, StageInv
<1>7. DeliveryInv
  BY <1>1, <1>5 DEF DeliveryInv
<1>8. ChannelUntilPublish
  BY <1>1 DEF ChannelUntilPublish
<1> QED
  BY <1>2, <1>3, <1>4, <1>6, <1>7, <1>8 DEF IInv

LEMMA ProcessIInv ==
    ASSUME IInv, Process
    PROVE  IInv'
<1>1. CASE CallImmediately
  BY <1>1, CallImmediatelyIInv
<1>2. CASE CallConnected
  BY <1>2, CallConnectedIInv
<1>3. CASE OnConnectTCP
  BY <1>3, OnConnectTCPIInv
<1>4. CASE OnConnectTCPFailed
  BY <1>4, OnConnectTCPFailedIInv
<1>5. CASE AttemptToConnect
  BY <1>5, AttemptToConnectIInv
<1>6. CASE SetChannelAndQos
  BY <1>6, SetChannelAndQosIInv
<1>7. CASE QosOk
  BY <1>7, QosOkIInv
<1>8. CASE OnConnected
  BY <1>8, OnConnectedIInv
<1>9. CASE PublishOnChannel
  BY <1>9, PublishOnChannelIInv
<1>10. CASE DoOnChannel
  BY <1>10, DoOnChannelIInv
<1>11. CASE StartHandler
  BY <1>11, StartHandlerIInv
<1>12. CASE MessageReceived
  BY <1>12, MessageReceivedIInv
<1>13. CASE OnPublisherConfirmAck
  BY <1>13, OnPublisherConfirmAckIInv
<1>14. CASE FireConfirmDeferred
  BY <1>14, FireConfirmDeferredIInv
<1>15. CASE OnPublisherConfirmNack
  BY <1>15, ProcessEndsIInv
<1> QED
  BY <1>1, <1>2, <1>3, <1>4, <1>5, <1>6, <1>7, <1>8, <1>9, <1>10, <1>11, <1>12, <1>13, <1>14,
     <1>15 DEF Process

LEMMA BrokerIInv ==
    ASSUME IInv, Broker
    PROVE  IInv'
<1>1. CASE BrokerSelect \/ BrokerDeclare \/ BrokerConsume
  BY <1>1, BrokerTakesIInv
<1>2. CASE BrokerPublish
  BY <1>2, BrokerPublishIInv
<1>3. CASE BrokerAck \/ BrokerReject
  BY <1>3, BrokerSettlesIInv
<1>4. CASE BrokerDeliver
  BY <1>4, BrokerDeliverIInv
<1>5. CASE BrokerStore
  BY <1>5, BrokerStoreIInv
<1>6. CASE BrokerConfirm
  BY <1>6, BrokerConfirmIInv
<1>7. CASE BrokerCloses
  BY <1>7, BrokerClosesIInv
<1> QED
  BY <1>1, <1>2, <1>3, <1>4, <1>5, <1>6, <1>7 DEF Broker

LEMMA StutterIInv ==
    ASSUME IInv, UNCHANGED vars
    PROVE  IInv'
<1>1. UNCHANGED <<exit, last_publish_tag, pendingVars, from_broker, brokerVars, confirmed,
                  to_broker, pika_channel, todo, callbacks, result, connection,
                  connection_attempts, faults>>
  BY DEF vars
<1>2. TypeOK'
  BY <1>1 DEF IInv, TypeOK
<1>3. ChannelInv'
  BY <1>1 DEF IInv, ChannelInv, Running, NoChannel
<1>4. ChannelUntilPublish'
  BY <1>1, ResultKept DEF IInv
<1> QED
  BY <1>1, <1>2, <1>3, <1>4, QuietIInv

\* Every reachable state of the client and its broker satisfies the inductive invariant.
THEOREM Invariance == Spec => []IInv
<1>1. Init => IInv
  BY InitIInv
<1>2. IInv /\ [Next]_vars => IInv'
  <2> SUFFICES ASSUME IInv, [Next]_vars
               PROVE  IInv'
    OBVIOUS
  <2>1. CASE Process
    BY <2>1, ProcessIInv
  <2>2. CASE Broker
    BY <2>2, BrokerIInv
  <2>3. CASE Restart
    BY <2>3, RestartIInv
  <2>4. CASE Fault
    BY <2>4, ProcessEndsIInv, BrokerNackIInv, BrokerRestartIInv DEF Fault
  <2>5. CASE UNCHANGED vars
    BY <2>5, StutterIInv
  <2> QED
    BY <2>1, <2>2, <2>3, <2>4, <2>5 DEF Next
<1> QED
  BY <1>1, <1>2, PTL DEF Spec

-----------------------------------------------------------------------------
(* What it implies.                                                        *)

\* Types, the bound on connection attempts, and a channel from the moment the connect
\* deferred is called back.
THEOREM TypeCorrect == Spec => []TypeOK
<1>1. IInv => TypeOK
  BY DEF IInv
<1> QED
  BY <1>1, Invariance, PTL

\* IBroker.publish calls back only for what the broker has stored, whatever order publishes,
\* single and multiple confirms, refusals and restarts come in.
THEOREM ConfirmedIsStored == Spec => []ConfirmedStored
<1>1. IInv => ConfirmedStored
  BY DEF IInv, ConfirmInv, ConfirmedStored
<1> QED
  BY <1>1, Invariance, PTL

\* The client counts what it sends and the broker what it reads: with what is on the wire
\* between them the counts agree, and both sides mean the same publish by a tag.
THEOREM TagsAlwaysAgree == Spec => []TagsAgree
<1>1. ASSUME IInv, Running
      PROVE  published + Cardinality(FramesOfType(to_broker, {"publish"})) = last_publish_tag
  <2> DEFINE sent == FramesOfType(to_broker, {"publish"})
             tags == published + 1 .. last_publish_tag
  <2>1. published \in Nat /\ last_publish_tag \in Nat
    BY <1>1 DEF IInv, ChannelInv, TypeOK
  <2>2. CASE ~pika_channel
    <3>1. to_broker = <<>> /\ published = 0 /\ last_publish_tag = 0
      BY <1>1, <2>2 DEF IInv, ChannelInv, NoChannel
    <3>2. sent = {}
      BY <3>1, NoFrames
    <3> QED
      BY <3>1, <3>2, FS_EmptySet
  <2>3. CASE pika_channel
    <3>1. /\ \A i \in sent : i \in Int /\ to_broker[i].tag \in tags
          /\ \A i, j \in sent : i < j => to_broker[i].tag < to_broker[j].tag
          /\ \A t \in tags : \E i \in sent : to_broker[i].tag = t
          /\ published <= last_publish_tag
      <4>1. \A i \in sent : i \in Int
        BY <1>1 DEF FramesOfType, IInv, ChannelInv
      <4> QED
        BY <1>1, <2>3, <4>1 DEF IInv, TagInv
    <3> DEFINE f == [i \in sent |-> to_broker[i].tag]
    <3>2. f \in Injection(sent, tags) /\ f \in Surjection(sent, tags)
      <4>1. f \in [sent -> tags]
        BY <3>1
      <4>2. \A i, j \in sent : f[i] = f[j] => i = j
        <5> SUFFICES ASSUME NEW i \in sent, NEW j \in sent, i # j
                     PROVE  f[i] # f[j]
          OBVIOUS
        <5>1. i < j \/ j < i
          BY <3>1
        <5>2. f[i] \in Int /\ f[j] \in Int
          BY <2>1, <3>1
        <5> QED
          BY <3>1, <5>1, <5>2
      <4>3. \A t \in tags : \E i \in sent : f[i] = t
        BY <3>1
      <4> HIDE DEF f, sent, tags
      <4> QED
        BY ONLY <4>1, <4>2, <4>3 DEF Injection, Surjection, IsInjective
    <3> HIDE DEF f, sent
    <3>3. IsFiniteSet(tags) /\ Cardinality(tags) = last_publish_tag - published
      <4>1. published + 1 \in Int /\ last_publish_tag \in Int
        BY <2>1
      <4>2. /\ IsFiniteSet(tags)
            /\ Cardinality(tags) = IF published + 1 > last_publish_tag
                                   THEN 0 ELSE last_publish_tag - (published + 1) + 1
        BY ONLY <4>1, FS_Interval
      <4> QED
        BY <2>1, <3>1, <4>2
    <3> HIDE DEF tags
    <3>4. Cardinality(sent) = Cardinality(tags)
      BY <3>2, <3>3, FS_Injection
    <3> QED
      BY <2>1, <3>3, <3>4 DEF sent
  <2> QED
    BY <2>2, <2>3
<1>2. ASSUME IInv, Running
      PROVE  /\ DOMAIN unconfirmed \subseteq DOMAIN confirm_deferreds
             /\ \A t \in DOMAIN unconfirmed : confirm_deferreds[t] = unconfirmed[t]
  <2>1. CASE ~pika_channel
    BY <1>2, <2>1 DEF IInv, ChannelInv, NoChannel, NoTags
  <2>2. CASE pika_channel
    BY <1>2, <2>2 DEF IInv, TagInv
  <2> QED
    BY <2>1, <2>2
<1>3. IInv => TagsAgree
  BY <1>1, <1>2 DEF TagsAgree
<1> QED
  BY <1>3, Invariance, PTL

\* A message out for delivery is on its way, with its handler or settled by one frame: it is
\* not forgotten while the process runs, and it is never settled twice.
THEOREM OneStageAlways == Spec => []OneStage
<1> DEFINE deliveries(t)  == {i \in FramesOfType(from_broker, {"deliver"}) : from_broker[i].arg = t}
           settlements(t) == {i \in FramesOfType(to_broker, {"ack", "reject"}) :
                                 to_broker[i].arg = t}
<1>1. ASSUME IInv, Running, NEW t \in DOMAIN unacked
      PROVE  Cardinality(StagesOf(t)) = 1
  <2>1. /\ \A i, j \in deliveries(t) : i = j
        /\ \A i, j \in settlements(t) : i = j
        /\ \A i \in deliveries(t), j \in settlements(t) : FALSE
        /\ t \in DOMAIN handling => deliveries(t) = {} /\ settlements(t) = {}
    BY <1>1 DEF IInv, StageInv
  <2>2. \/ t \in DOMAIN handling
        \/ \E i \in deliveries(t) : TRUE
        \/ \E i \in settlements(t) : TRUE
    BY <1>1 DEF IInv, StageInv
  <2>3. StagesOf(t) = {<<"delivery", i>> : i \in deliveries(t)}
                      \cup {<<"handler", r>> : r \in DOMAIN handling \cap {t}}
                      \cup {<<"settlement", i>> : i \in settlements(t)}
    BY DEF StagesOf
  <2> HIDE DEF deliveries, settlements
  <2>4. \E x : StagesOf(t) = {x}
    <3>1. CASE t \in DOMAIN handling
      <4>1. /\ deliveries(t) = {} /\ settlements(t) = {} /\ DOMAIN handling \cap {t} = {t}
        BY <2>1, <3>1
      <4>2. StagesOf(t) = {<<"handler", t>>}
        BY <2>3, <4>1
      <4> QED
        BY <4>2
    <3>2. CASE t \notin DOMAIN handling /\ \E i \in deliveries(t) : TRUE
      <4>1. PICK i \in deliveries(t) : TRUE
        BY <3>2
      <4>2. deliveries(t) = {i} /\ settlements(t) = {}
        BY <2>1, <4>1
      <4>3. DOMAIN handling \cap {t} = {}
        BY <3>2
      <4>4. StagesOf(t) = {<<"delivery", i>>}
        BY <2>3, <4>2, <4>3
      <4> QED
        BY <4>4
    <3>3. CASE t \notin DOMAIN handling /\ \E i \in settlements(t) : TRUE
      <4>1. PICK i \in settlements(t) : TRUE
        BY <3>3
      <4>2. settlements(t) = {i} /\ deliveries(t) = {}
        BY <2>1, <4>1
      <4>3. DOMAIN handling \cap {t} = {}
        BY <3>3
      <4>4. StagesOf(t) = {<<"settlement", i>>}
        BY <2>3, <4>2, <4>3
      <4> QED
        BY <4>4
    <3> QED
      BY <2>2, <3>1, <3>2, <3>3
  <2> QED
    BY <2>4, FS_Singleton
<1>2. ASSUME IInv, NEW t, t \notin DOMAIN unacked
      PROVE  StagesOf(t) = {}
  BY <1>2 DEF IInv, StageInv, StagesOf
<1>3. IInv => OneStage
  BY <1>1, <1>2 DEF OneStage
<1> QED
  BY <1>3, Invariance, PTL

\* Where the handler of every message waits for all that it publishes, as its promise is,
\* no crash, broker restart or refusal loses a message.
THEOREM NothingIsLost ==
    ASSUME AllAwaited
    PROVE  Spec => []NothingLost
<1>1. IInv => NothingLost
  BY DEF IInv, DeliveryInv, NothingLost
<1> QED
  BY <1>1, Invariance, PTL

\* The connect deferred calls every caller back with a channel until the process publishes,
\* and calls none back with one from then on.
THEOREM ChannelOnlyUntilPublish == Spec => []ChannelUntilPublish
<1>1. IInv => ChannelUntilPublish
  BY DEF IInv
<1> QED
  BY <1>1, Invariance, PTL
=============================================================================
