----------------------- MODULE PetriNetPromiseProofs ------------------------
(***************************************************************************)
(* What PetriNetPromises promises, for every net that is safe, every       *)
(* number of workers and every sequence of crashes its conditions allow:   *)
(* no wakeup is lost, what is begun is finished, and the engine implements *)
(* the coloured net and passes on the tokens' data.                        *)
(***************************************************************************)
EXTENDS PetriNetPromises, PetriNetProofs

-----------------------------------------------------------------------------
(* Tags and their colors.                                                  *)

LEMMA LiveTag ==
    ASSUME IInv, NEW t \in Transitions, NEW tag \in LiveTags(t)
    PROVE  /\ tag \in Tags
           /\ TagColors(t, tag) \in SUBSET Colors /\ TagColors(t, tag) # {}
           /\ IsBarrier(t) => /\ tag \in DOMAIN color_groups
                              /\ TagColors(t, tag) = ColorsIn(color_groups, tag)
<1>1. CASE IsBarrier(t)
  <2>1. tag \in DOMAIN color_groups /\ GroupColors(tag) # {}
    BY <1>1 DEF LiveTags
  <2>2. /\ color_groups[tag] \in ColorGroup
        /\ color_groups[tag].end <= next_color /\ next_color \in 0 .. MaxColors
    BY <2>1, ElementOf DEF IInv, TypeOK, GroupsInv
  <2>3. GroupColors(tag) \subseteq Colors
    <3> DEFINE group == color_groups[tag]
    <3>1. group.begin .. group.end - 1 \subseteq Colors
      <4> HIDE DEF group
      <4> QED BY <2>2, BoundAssumption DEF ColorGroup, Colors, group
    <3> QED BY <3>1 DEF GroupColors
  <2>4. tag \in Groups
    BY <2>1, BoundAssumption DEF IInv, TypeOK, Groups
  <2> QED BY <1>1, <2>1, <2>3, <2>4 DEF TagColors, Tags, GroupColors, ColorsIn
<1>2. CASE ~IsBarrier(t)
  BY <1>2 DEF LiveTags, TagColors, Tags
<1> QED BY <1>1, <1>2

\* A color goes by one tag of a transition only.
LEMMA OneTag ==
    ASSUME IInv, NEW t \in Transitions, NEW tag \in LiveTags(t), NEW g \in LiveTags(t),
           NEW c, c \in TagColors(t, tag), c \in TagColors(t, g)
    PROVE  tag = g
<1>1. CASE IsBarrier(t)
  BY <1>1, LiveTag, UniqueGroup DEF IInv
<1>2. CASE ~IsBarrier(t)
  BY <1>2 DEF TagColors
<1> QED BY <1>1, <1>2

\* A known token goes by a live tag, and its transition consumes the tag's colors.
LEMMA TokenTag ==
    ASSUME IInv, NEW t \in Transitions, NEW i, Known(tokens, i)
    PROVE  /\ Tag(t, tokens[i]) \in LiveTags(t)
           /\ tokens[i].color \in TagColors(t, Tag(t, tokens[i]))
           /\ TagColors(t, Tag(t, tokens[i])) = ConsumedColors(t, tokens[i])
<1> DEFINE token == tokens[i]
<1>1. token.color \in Colors
  <2>1. token \in Token /\ token.color # NoColor
    BY ElementOf DEF Known, IInv, TypeOK
  <2> QED BY <2>1 DEF Token
<1>2. /\ token.group \in DOMAIN color_groups
      /\ token.color \in ColorsIn(color_groups, token.group)
  BY DEF Known, IInv, TokensInv, InGroup
<1> HIDE DEF token
<1>3. /\ Tag(t, token) \in LiveTags(t) /\ token.color \in TagColors(t, Tag(t, token))
      /\ TagColors(t, Tag(t, token)) = ConsumedColors(t, token)
  BY <1>1, <1>2 DEF Tag, LiveTags, TagColors, ConsumedColors, GroupColors, ColorsIn
<1> QED BY <1>3 DEF token

LEMMA NotifiedLive ==
    ASSUME IInv, NEW w \in Workers, At(w, "consume"),
           NEW t, t = Message(w).transition
    PROVE  /\ t \in Transitions /\ Message(w).place \in Places
           /\ NotifiedTag(w) \in LiveTags(t) /\ NotifiedTag(w) \in Tags
           /\ NotifiedToken(w).color \in TagColors(t, NotifiedTag(w))
           /\ TagColors(t, NotifiedTag(w)) = ConsumedColors(t, NotifiedToken(w))
<1>1. /\ t \in Transitions /\ Message(w).place \in Places
      /\ Known(tokens, Message(w).token) /\ NotifiedTag(w) \in Tags
  BY Notification DEF At
<1> QED BY <1>1, TokenTag DEF NotifiedTag, NotifiedToken

-----------------------------------------------------------------------------
(* Messages stay what they are while they are carried.                     *)

LEMMA CarriedKnown ==
    ASSUME IInv, NEW m \in Messages, Carried(m)
    PROVE  MessageOK(tokens, m)
<1>1. CASE queue[m] > 0
  BY <1>1 DEF IInv, QueueInv
<1>2. ASSUME NEW w \in Workers, Holds(worker[w], m)
      PROVE  MessageOK(tokens, m)
  BY <1>2 DEF IInv, WorkersInv, WorkerOK, Holds
<1> QED BY <1>1, <1>2 DEF Carried

\* What a message reports does not change when tokens are added.
LEMMA ReportsKept ==
    ASSUME IInv, Grow, NEW m \in Messages, MessageOK(tokens, m), NEW t, NEW p, NEW c,
           Reports(m, t, p, c)
    PROVE  Reports(m, t, p, c)'
BY DEF Grow, MessageOK, Known, Reports

\* A step of one worker keeps what is carried, if it keeps what it held itself.
LEMMA CarriedFrame ==
    ASSUME NEW w \in Workers, \A v \in Workers : v # w => worker'[v] = worker[v],
           NEW m, Carried(m),
           queue[m] > 0 => queue'[m] > 0 \/ Holds(worker'[w], m),
           Holds(worker[w], m) => queue'[m] > 0 \/ Holds(worker'[w], m)
    PROVE  Carried(m)'
<1>1. CASE queue[m] > 0
  BY <1>1 DEF Carried, Holds
<1>2. ASSUME NEW v \in Workers, Holds(worker[v], m)
      PROVE  queue'[m] > 0 \/ \E u \in Workers : Holds(worker'[u], m)
  <2>1. CASE v = w
    BY <1>2, <2>1
  <2>2. CASE v # w
    <3>1. Holds(worker'[v], m)
      BY <1>2, <2>2
    <3> QED BY <3>1
  <2> QED BY <2>1, <2>2
<1> QED BY <1>1, <1>2 DEF Carried, Holds

LEMMA AwaitedKept ==
    ASSUME IInv, Grow, \A m \in Messages : Carried(m) => Carried(m)',
           NEW t, NEW p, NEW c, Awaited(t, p, c)
    PROVE  Awaited(t, p, c)'
<1>1. PICK m \in Messages : Carried(m) /\ Reports(m, t, p, c)
  BY DEF Awaited
<1>2. Carried(m)' /\ Reports(m, t, p, c)'
  BY <1>1, CarriedKnown, ReportsKept
<1> QED BY <1>2 DEF Awaited, Messages

-----------------------------------------------------------------------------
(* Steps that leave the waiting lists as they are.                         *)

LEMMA OutboxKept ==
    ASSUME WInv, Grow, NEW w \in Workers,
           \A v \in Workers : v # w => worker'[v] = worker[v],
           OutboxOK(tokens', worker'[w])
    PROVE  OutboxInv'
<1>1. ASSUME NEW v \in Workers, v # w PROVE OutboxOK(tokens', worker'[v])
  <2>1. worker'[v] = worker[v]
    BY <1>1
  <2>2. OutboxOK(tokens, worker[v]) /\ WorkerOK(tokens, worker[v])
    BY DEF WInv, OutboxInv, IInv, WorkersInv
  <2>3. OutboxOK(tokens', worker[v])
    BY <2>2 DEF OutboxOK, WorkerOK, MessageOK, Known, Grow
  <2> QED BY <2>1, <2>3
<1> QED BY <1>1 DEF OutboxInv, OutboxOK

\* Cells may be filled if they are reported, and what is reported of a full place
\* stays so.
LEMMA WaitingKept ==
    ASSUME WInv,
           UNCHANGED <<state, enablers>>,
           \A t \in Transitions, c \in Colors : \A p \in ArcsIn[t] :
              color_marking'[<<c, p>>] # NoToken =>
                 /\ Awaited(t, p, c) => Awaited(t, p, c)'
                 /\ color_marking[<<c, p>>] # NoToken \/ Awaited(t, p, c)',
           \A t \in Transitions : \A tag \in LiveTags(t)' :
              \/ tag \in LiveTags(t) /\ TagColors(t, tag)' = TagColors(t, tag)
              \/ \E c \in TagColors(t, tag)' : \A p \in Places :
                    color_marking'[<<c, p>>] = NoToken
    PROVE  WaitingInv' /\ WakingInv'
<1>1. ASSUME NEW t \in Transitions, NEW tag \in LiveTags(t)', NEW p \in ArcsIn[t],
             Full(t, tag, p)'
      PROVE  /\ tag \in LiveTags(t) /\ TagColors(t, tag)' = TagColors(t, tag)
             /\ AwaitedAt(t, tag, p) => AwaitedAt(t, tag, p)'
             /\ Full(t, tag, p) \/ AwaitedAt(t, tag, p)'
  <2>1. p \in Places
    BY NetAssumption
  <2>2. \A c \in TagColors(t, tag)' : color_marking'[<<c, p>>] # NoToken
    BY <1>1 DEF Full
  <2>3. tag \in LiveTags(t) /\ TagColors(t, tag)' = TagColors(t, tag)
    BY <2>1, <2>2
  <2>4. \A c \in TagColors(t, tag) : c \in Colors /\ color_marking'[<<c, p>>] # NoToken
    BY <2>2, <2>3, LiveTag DEF WInv
  <2>5. ASSUME AwaitedAt(t, tag, p) PROVE AwaitedAt(t, tag, p)'
    <3>1. PICK c \in TagColors(t, tag) : Awaited(t, p, c)
      BY <2>5 DEF AwaitedAt
    <3>2. Awaited(t, p, c)' /\ c \in TagColors(t, tag)'
      BY <2>3, <2>4, <3>1
    <3> QED BY <3>2 DEF AwaitedAt
  <2>6. ASSUME ~Full(t, tag, p) PROVE AwaitedAt(t, tag, p)'
    <3>1. PICK c \in TagColors(t, tag) : color_marking[<<c, p>>] = NoToken
      BY <2>6 DEF Full
    <3>2. Awaited(t, p, c)' /\ c \in TagColors(t, tag)'
      BY <2>3, <2>4, <3>1
    <3> QED BY <3>2 DEF AwaitedAt
  <2> QED BY <2>3, <2>5, <2>6
<1>2. WaitingInv'
  <2>1. ASSUME NEW t \in Transitions, NEW tag \in LiveTags(t)', NEW p \in ArcsIn[t],
               p \in state'[t][tag], Full(t, tag, p)'
        PROVE  AwaitedAt(t, tag, p)'
    BY <1>1, <2>1 DEF WInv, WaitingInv
  <2> QED BY <2>1 DEF WaitingInv
<1>3. WakingInv'
  <2>1. ASSUME NEW t \in Transitions, NEW tag \in LiveTags(t)',
               enablers'[t][tag] = NoPlace, \A p \in ArcsIn[t] : Full(t, tag, p)'
        PROVE  \E p \in ArcsIn[t] : AwaitedAt(t, tag, p)'
    <3>1. CASE \A p \in ArcsIn[t] : Full(t, tag, p)
      <4>1. tag \in LiveTags(t)
        BY <1>1, <2>1, NetAssumption
      <4>2. PICK p \in ArcsIn[t] : AwaitedAt(t, tag, p)
        BY <2>1, <3>1, <4>1 DEF WInv, WakingInv
      <4> QED BY <1>1, <2>1, <4>2
    <3>2. CASE \E p \in ArcsIn[t] : ~Full(t, tag, p)
      BY <1>1, <2>1, <3>2
    <3> QED BY <3>1, <3>2
  <2> QED BY <2>1 DEF WakingInv
<1> QED BY <1>2, <1>3

\* The groups there are.
LEMMA SameTags ==
    ASSUME color_groups' = color_groups, NEW t, NEW tag
    PROVE  LiveTags(t)' = LiveTags(t) /\ TagColors(t, tag)' = TagColors(t, tag)
BY DEF LiveTags, TagColors, GroupColors

\* A handler's step that leaves cells, groups and transitions alone, and what it
\* had to report to be reported by someone.
LEMMA ReportingStep ==
    ASSUME WInv, IInv', Grow, NEW w \in Workers,
           \A v \in Workers : v # w => worker'[v] = worker[v],
           OutboxOK(tokens', worker'[w]),
           UNCHANGED <<color_marking, color_groups, state, active_tokens, enablers>>,
           \A t \in Transitions, c \in Colors : \A p \in ArcsIn[t] :
              color_marking[<<c, p>>] # NoToken /\ Awaited(t, p, c) => Awaited(t, p, c)'
    PROVE  WInv'
<1>1. OutboxInv'
  BY OutboxKept
<1>2. StateInv' /\ EnablerInv'
  BY DEF WInv, StateInv, EnablerInv
<1>3. WaitingInv' /\ WakingInv'
  BY SameTags, WaitingKept
<1> QED BY <1>1, <1>2, <1>3 DEF WInv

\* In particular, where no message is lost.
LEMMA CarryingStep ==
    ASSUME WInv, IInv', Grow, NEW w \in Workers,
           \A v \in Workers : v # w => worker'[v] = worker[v],
           OutboxOK(tokens', worker'[w]),
           UNCHANGED <<color_marking, color_groups, state, active_tokens, enablers>>,
           \A m \in Messages :
              /\ queue[m] > 0 => queue'[m] > 0 \/ Holds(worker'[w], m)
              /\ Holds(worker[w], m) => queue'[m] > 0 \/ Holds(worker'[w], m)
    PROVE  WInv'
<1>1. \A m \in Messages : Carried(m) => Carried(m)'
  BY CarriedFrame
<1>2. \A t \in Transitions, c \in Colors : \A p \in ArcsIn[t] :
          color_marking[<<c, p>>] # NoToken /\ Awaited(t, p, c) => Awaited(t, p, c)'
  BY <1>1, AwaitedKept DEF WInv
<1> QED BY <1>2, ReportingStep

\* A handler that has nothing to report and reports nothing.
LEMMA SilentStep ==
    ASSUME WInv, IInv', Grow, NEW w \in Workers,
           \A v \in Workers : v # w => worker'[v] = worker[v],
           worker[w].pc \in {"idle", "fire", "counted", "push"},
           worker'[w].pc \notin {"read", "publish"}, queue' = queue,
           UNCHANGED <<color_marking, color_groups, state, active_tokens, enablers>>
    PROVE  WInv'
<1>1. OutboxOK(tokens', worker'[w])
  BY DEF OutboxOK
<1>2. \A m \in Messages : ~Holds(worker[w], m)
  BY DEF Holds
<1> QED BY <1>1, <1>2, CarryingStep

-----------------------------------------------------------------------------
(* The broker's side and the handlers of create_token and notify_place.    *)

LEMMA SameTokensGrow ==
    ASSUME IInv, tokens' = tokens
    PROVE  Grow
BY DEF Grow, IInv, TypeOK

LEMMA OneTokenGrows ==
    ASSUME IInv, IInv', NEW new, tokens' = Append(tokens, new)
    PROVE  Grow
BY DEF Grow, IInv, TypeOK

LEMMA IdleHoldsNothing ==
    ASSUME NEW toks, NEW m
    PROVE  ~Holds(Idle, m) /\ OutboxOK(toks, Idle)
BY DEF Holds, OutboxOK, Idle

LEMMA ReceiveWakes ==
    ASSUME WInv, IInv', NEW w \in Workers, Receive(w)
    PROVE  WInv'
<1>1. PICK m \in Messages :
          /\ queue' = [queue EXCEPT ![m] = @ - 1]
          /\ worker' = [worker EXCEPT ![w].pc = FirstStep[m.type], ![w].msg = m]
  BY DEF Receive
<1>2. FirstStep[m.type] \in {"create", "read", "consume"}
  BY MessageTypes DEF FirstStep
<1>3. /\ \A v \in Workers : v # w => worker'[v] = worker[v]
      /\ worker'[w].pc = FirstStep[m.type] /\ worker'[w].msg = m
  BY <1>1 DEF WInv, IInv, TypeOK, Worker
<1>4. OutboxOK(tokens', worker'[w]) /\ Holds(worker'[w], m)
  BY <1>2, <1>3, MessageTypes DEF OutboxOK, Holds, FirstStep
<1>5. \A n \in Messages : n # m => queue'[n] = queue[n]
  BY <1>1 DEF WInv, IInv, TypeOK
<1>6. \A n \in Messages : ~Holds(worker[w], n)
  BY DEF Receive, At, Holds
<1>7. /\ Grow
      /\ UNCHANGED <<color_marking, color_groups, state, active_tokens, enablers>>
  BY SameTokensGrow DEF WInv, Receive, markingVars, objectVars, transitionVars
<1> QED BY <1>3, <1>4, <1>5, <1>6, <1>7, CarryingStep

LEMMA PublishWakes ==
    ASSUME WInv, IInv', NEW w \in Workers, Publish(w)
    PROVE  WInv'
<1> DEFINE outbox == worker[w].outbox
<1>1. /\ outbox \in Seq(Messages) /\ outbox # <<>>
      /\ worker[w] \in Worker /\ worker[w].pc = "publish"
  BY DEF WInv, IInv, TypeOK, Publish, At, Worker
<1>2. /\ Head(outbox) \in Messages /\ Head(outbox) = outbox[1]
      /\ \A i \in DOMAIN Tail(outbox) :
            i + 1 \in DOMAIN outbox /\ Tail(outbox)[i] = outbox[i + 1]
      /\ \A i \in DOMAIN outbox :
            i = 1 \/ (i - 1 \in DOMAIN Tail(outbox) /\ Tail(outbox)[i - 1] = outbox[i])
  <2> HIDE DEF outbox
  <2> QED BY <1>1
<1>3. /\ \A v \in Workers : v # w => worker'[v] = worker[v]
      /\ worker'[w].pc = "publish" /\ worker'[w].msg = worker[w].msg
      /\ worker'[w].outbox = Tail(outbox)
      /\ queue' = [queue EXCEPT ![Head(outbox)] = @ + 1]
      /\ UNCHANGED <<markingVars, objectVars, transitionVars>>
  BY <1>1 DEF Publish, WInv, IInv, TypeOK, Worker
<1>4. Grow /\ tokens' = tokens
  BY <1>3, SameTokensGrow DEF WInv, objectVars
<1>5. /\ queue'[outbox[1]] > 0
      /\ \A m \in Messages : queue[m] > 0 => queue'[m] > 0
  BY SMTT(45), <1>2, <1>3 DEF WInv, IInv, TypeOK
<1>6. ASSUME NEW m \in Messages, Holds(worker[w], m)
      PROVE  queue'[m] > 0 \/ Holds(worker'[w], m)
  <2>1. PICK i \in DOMAIN outbox : outbox[i] = m
    BY <1>1, <1>6 DEF Holds
  <2>2. CASE i = 1
    BY <1>5, <2>1, <2>2
  <2>3. CASE i # 1
    <3>1. i - 1 \in DOMAIN worker'[w].outbox /\ worker'[w].outbox[i - 1] = m
      BY <1>2, <1>3, <2>1, <2>3
    <3> QED BY <1>3, <3>1 DEF Holds
  <2> QED BY <2>2, <2>3
<1>7. OutboxOK(tokens', worker'[w])
  <2>1. OutboxOK(tokens, worker[w])
    BY DEF WInv, OutboxInv
  <2> QED BY <1>1, <1>2, <1>3, <1>4, <2>1 DEF OutboxOK
<1>8. UNCHANGED <<color_marking, color_groups, state, active_tokens, enablers>>
  BY <1>3 DEF markingVars, objectVars, transitionVars
<1> QED BY <1>3, <1>4, <1>5, <1>6, <1>7, <1>8, CarryingStep

LEMMA AckWakes ==
    ASSUME WInv, IInv', NEW w \in Workers, Ack(w)
    PROVE  WInv'
<1>1. /\ \A v \in Workers : v # w => worker'[v] = worker[v]
      /\ worker'[w] = Idle
      /\ UNCHANGED <<markingVars, objectVars, transitionVars, brokerVars>>
  BY DEF Ack, WInv, IInv, TypeOK
<1>2. \A m \in Messages : ~Holds(worker[w], m)
  BY DEF Ack, At, Holds
<1>3. /\ Grow /\ queue' = queue
      /\ UNCHANGED <<color_marking, color_groups, state, active_tokens, enablers>>
  BY <1>1, SameTokensGrow DEF WInv, markingVars, objectVars, transitionVars, brokerVars
<1> QED BY <1>1, <1>2, <1>3, IdleHoldsNothing, CarryingStep

\* The message goes back to the queue; what its handler had still to publish, the
\* next one finds out again.
LEMMA CrashWakes ==
    ASSUME NotifiesWhatItPushed, WInv, IInv', NEW w \in Workers, Crash(w)
    PROVE  WInv'
<1>1. PICK msg \in Messages : msg = Message(w) /\ MessageOK(tokens, msg)
  BY HandledMessage DEF Crash, WInv, IInv
<1>2. /\ \A v \in Workers : v # w => worker'[v] = worker[v]
      /\ worker'[w] = Idle
      /\ queue' = [queue EXCEPT ![msg] = @ + 1]
      /\ UNCHANGED <<markingVars, objectVars, transitionVars>>
  BY <1>1 DEF Crash, WInv, IInv, TypeOK
<1>3. /\ Grow /\ tokens' = tokens
      /\ UNCHANGED <<color_marking, color_groups, state, active_tokens, enablers>>
  BY <1>2, SameTokensGrow DEF WInv, markingVars, objectVars, transitionVars
<1>4. /\ Carried(msg)'
      /\ \A m \in Messages : queue[m] > 0 => queue'[m] > 0
  BY <1>2 DEF Carried, WInv, IInv, TypeOK
<1>5. ASSUME NEW t \in Transitions, NEW c \in Colors, NEW p \in ArcsIn[t],
             Awaited(t, p, c)
      PROVE  Awaited(t, p, c)'
  <2>1. PICK m \in Messages : Carried(m) /\ Reports(m, t, p, c)
    BY <1>5 DEF Awaited
  <2>2. Reports(m, t, p, c)'
    BY <2>1, <1>3, CarriedKnown, ReportsKept DEF WInv
  <2>3. CASE ~Holds(worker[w], m) \/ m = msg
    <3>1. Carried(m)'
      BY <1>2, <1>4, <2>1, <2>3, CarriedFrame
    <3> QED BY <2>2, <3>1 DEF Awaited, Messages
  <2>4. CASE Holds(worker[w], m) /\ m # msg
    <3>1. worker[w].pc = "publish" /\ \E i \in DOMAIN worker[w].outbox :
                                         worker[w].outbox[i] = m
      BY <1>1, <2>4 DEF Holds, Message
    <3>2. msg.type # "notify_transition"
      BY <1>1, <3>1 DEF Crash, NotifiesWhatItPushed
    <3>3. /\ m.type = "notify_transition" /\ m.place = msg.place
          /\ tokens[m.token].color = msg.color
      BY <1>1, <3>1, <3>2 DEF WInv, OutboxInv, OutboxOK, Message
    <3>4. msg.type \in {"notify_place", "create_token"}
      BY <1>1, <3>2, MessageTypes
    <3>5. Reports(msg, t, p, c)'
      BY <2>1, <3>3, <3>4 DEF Reports
    <3> QED BY <1>4, <3>5 DEF Awaited, Messages
  <2> QED BY <2>3, <2>4
<1> QED BY <1>2, <1>3, <1>5, IdleHoldsNothing, ReportingStep

LEMMA CreateTokenWakes ==
    ASSUME WInv, IInv', NEW w \in Workers, CreateToken(w)
    PROVE  WInv'
<1>1. /\ \A v \in Workers : v # w => worker'[v] = worker[v]
      /\ worker'[w].pc = "put" /\ worker'[w].msg = worker[w].msg
      /\ worker[w].pc = "create"
  BY DEF CreateToken, At, WInv, IInv, TypeOK, Worker
<1>2. Grow
  BY OneTokenGrows DEF CreateToken, WInv
<1>3. OutboxOK(tokens', worker'[w])
  BY <1>1 DEF OutboxOK
<1>4. \A m \in Messages : Holds(worker[w], m) => Holds(worker'[w], m)
  BY <1>1 DEF Holds
<1>5. /\ queue' = queue
      /\ UNCHANGED <<color_marking, color_groups, state, active_tokens, enablers>>
  BY DEF CreateToken, markingVars, transitionVars, brokerVars
<1> QED BY <1>1, <1>2, <1>3, <1>4, <1>5, CarryingStep

\* The cell that is filled is reported by the request itself.
LEMMA PutTokenWakes ==
    ASSUME WInv, IInv', NEW w \in Workers, PutToken(w)
    PROVE  WInv'
<1>0. PICK m : m = Message(w)
  OBVIOUS
<1> DEFINE cell == <<m.color, m.place>>
<1>1. /\ worker[w].pc = "put" /\ Goto(w, "read")
      /\ \A c \in Cells : c # cell => color_marking'[c] = color_marking[c]
      /\ UNCHANGED <<objectVars, transitionVars, brokerVars>>
  BY <1>0 DEF PutToken, At, markingVars, WInv, IInv, TypeOK
<1>2. /\ \A v \in Workers : v # w => worker'[v] = worker[v]
      /\ worker'[w].pc = "read" /\ worker'[w].msg = worker[w].msg
  BY <1>1, GotoStep DEF WInv, IInv, PCs
<1>3. m \in Messages /\ m.type = "create_token"
  BY <1>0, <1>1, RequestTypes DEF WInv, IInv, WorkersInv, WorkerOK, Message
<1>4. OutboxOK(tokens', worker'[w])
  BY <1>0, <1>2, <1>3 DEF Message, OutboxOK
<1>5. Grow /\ OutboxInv' /\ StateInv' /\ EnablerInv'
  BY <1>1, <1>2, <1>4, SameTokensGrow, OutboxKept
     DEF WInv, objectVars, transitionVars, StateInv, EnablerInv
<1>6. \A n \in Messages : Carried(n) => Carried(n)'
  <2>1. queue' = queue /\ \A n : Holds(worker[w], n) => Holds(worker'[w], n)
    BY <1>1, <1>2 DEF brokerVars, Holds
  <2> QED BY <1>2, <2>1, CarriedFrame
<1>7. ASSUME NEW t \in Transitions, NEW c \in Colors, NEW p \in ArcsIn[t],
             color_marking'[<<c, p>>] # NoToken
      PROVE  /\ Awaited(t, p, c) => Awaited(t, p, c)'
             /\ color_marking[<<c, p>>] # NoToken \/ Awaited(t, p, c)'
  <2>1. Awaited(t, p, c) => Awaited(t, p, c)'
    BY <1>5, <1>6, AwaitedKept DEF WInv
  <2>2. CASE <<c, p>> = cell
    <3>1. Carried(m)'
      BY <1>0, <1>2 DEF Carried, Holds, Message
    <3>2. Reports(m, t, p, c)'
      BY <1>3, <2>2 DEF Reports
    <3> QED BY <1>3, <2>1, <3>1, <3>2 DEF Awaited, Messages
  <2>3. CASE <<c, p>> # cell
    <3>1. <<c, p>> \in Cells
      BY NetAssumption DEF Cells
    <3> QED BY <1>1, <1>7, <2>1, <2>3, <3>1
  <2> QED BY <2>2, <2>3
<1>8. WaitingInv' /\ WakingInv'
  <2>1. UNCHANGED <<state, enablers, color_groups>>
    BY <1>1 DEF objectVars, transitionVars
  <2> QED BY <1>7, <2>1, SameTags, WaitingKept
<1> QED BY <1>5, <1>8 DEF WInv

\* A request for a place that is not there is nothing a transition waits for.
LEMMA PutTokenFailsWakes ==
    ASSUME WInv, IInv', NEW w \in Workers, PutTokenFails(w)
    PROVE  WInv'
<1>1. /\ \A v \in Workers : v # w => worker'[v] = worker[v]
      /\ worker'[w] = Idle /\ queue' = queue
      /\ worker[w].pc = "put" /\ Message(w).place \notin Places
  BY FailStep DEF PutTokenFails, At, WInv, IInv
<1>2. /\ Grow /\ tokens' = tokens
      /\ UNCHANGED <<color_marking, color_groups, state, active_tokens, enablers>>
  BY SameTokensGrow DEF PutTokenFails, WInv, markingVars, objectVars, transitionVars
<1>3. ASSUME NEW t \in Transitions, NEW c \in Colors, NEW p \in ArcsIn[t],
             Awaited(t, p, c)
      PROVE  Awaited(t, p, c)'
  <2>1. PICK m \in Messages : Carried(m) /\ Reports(m, t, p, c)
    BY <1>3 DEF Awaited
  <2>2. ~Holds(worker[w], m)
    BY <1>1, <2>1, NetAssumption DEF Holds, Reports, Message
  <2>3. Carried(m)' /\ Reports(m, t, p, c)'
    BY <1>1, <1>2, <2>1, <2>2, CarriedFrame, CarriedKnown, ReportsKept DEF WInv
  <2> QED BY <2>3 DEF Awaited, Messages
<1> QED BY <1>1, <1>2, <1>3, IdleHoldsNothing, ReportingStep

\* Every transition that the place feeds is going to be told of its token.
LEMMA NotifyPlaceWakes ==
    ASSUME WInv, IInv', NEW w \in Workers, NotifyPlace(w)
    PROVE  WInv'
<1>0. PICK m, token : m = Message(w) /\ token = color_marking[<<m.color, m.place>>]
  OBVIOUS
<1> DEFINE notification(t) == [type |-> "notify_transition", transition |-> t,
                               place |-> m.place, token |-> token]
           arcs == PlaceArcsOut[m.place]
           msgs == [i \in DOMAIN arcs |-> notification(arcs[i])]
           out == IF token = NoToken THEN <<>> ELSE msgs
<1>1. /\ m.place \in Places /\ m.color \in Colors /\ worker[w].pc = "read"
      /\ m \in Messages /\ m.type # "notify_transition"
  BY <1>0 DEF OutboxInv, OutboxOK, WInv, IInv, WorkersInv, WorkerOK, NotifyPlace, At, Message
<1>2. /\ \A v \in Workers : v # w => worker'[v] = worker[v]
      /\ worker'[w].pc = "publish" /\ worker'[w].msg = m
      /\ worker'[w].outbox = out /\ queue' = queue
  <2>1. PublishAll(w, out) /\ queue' = queue
    BY <1>0 DEF NotifyPlace, brokerVars
  <2> HIDE DEF out
  <2> QED BY <1>0, <2>1 DEF PublishAll, WInv, IInv, TypeOK, Worker, Message
<1>3. /\ Grow /\ tokens' = tokens
      /\ UNCHANGED <<color_marking, color_groups, state, active_tokens, enablers>>
  BY SameTokensGrow DEF NotifyPlace, WInv, markingVars, transitionVars
<1>4. token # NoToken => tokens[token].color = m.color
  BY <1>0, <1>1 DEF WInv, IInv, MarkInv
<1>5. OutboxOK(tokens', worker'[w])
  <2>1. \A i \in DOMAIN out : /\ token # NoToken
                              /\ out[i].type = "notify_transition"
                              /\ out[i].place = m.place /\ out[i].token = token
    OBVIOUS
  <2> HIDE DEF out
  <2> QED BY <1>2, <1>3, <1>4, <2>1 DEF OutboxOK
<1>6. ASSUME NEW t \in Transitions, NEW c \in Colors, NEW p \in ArcsIn[t],
             color_marking[<<c, p>>] # NoToken, Awaited(t, p, c)
      PROVE  Awaited(t, p, c)'
  <2>1. PICK n \in Messages : Carried(n) /\ Reports(n, t, p, c)
    BY <1>6 DEF Awaited
  <2>2. Reports(n, t, p, c)'
    BY <1>3, <2>1, CarriedKnown, ReportsKept DEF WInv
  <2>3. CASE ~Holds(worker[w], n)
    <3>1. Carried(n)'
      BY <1>2, <2>1, <2>3, CarriedFrame
    <3> QED BY <2>2, <3>1 DEF Awaited, Messages
  <2>4. CASE Holds(worker[w], n)
    <3>1. n = m /\ m.type \in {"notify_place", "create_token"}
      <4>1. n = m
        BY <1>0, <1>1, <2>4 DEF Holds, Message
      <4> QED BY <1>1, <4>1, MessageTypes
    <3>2. p = m.place /\ c = m.color /\ token # NoToken
      BY <1>0, <1>6, <2>1, <3>1 DEF Reports
    <3>3. PICK i \in DOMAIN arcs : arcs[i] = t
      BY <1>1, <3>2, NetAssumption
    <3>4. notification(t) \in Messages /\ notification(t) = out[i] /\ i \in DOMAIN out
      <4>1. token \in TokenIdxs
        BY <1>0, <1>1, <3>2 DEF WInv, IInv, TypeOK, Cells
      <4> QED BY <1>1, <3>2, <3>3, <4>1 DEF Messages, NotifyTransitionMessage
    <3>5. Carried(notification(t))'
      <4>1. Holds(worker'[w], notification(t))
        <5> HIDE DEF notification, out
        <5> QED BY <1>2, <3>4 DEF Holds
      <4> QED BY <4>1 DEF Carried, Holds
    <3>6. Reports(notification(t), t, p, c)'
      BY <1>3, <1>4, <3>2 DEF Reports
    <3> HIDE DEF notification
    <3> QED BY <3>4, <3>5, <3>6 DEF Awaited, Messages
  <2> QED BY <2>3, <2>4
<1> QED BY <1>2, <1>3, <1>5, <1>6, ReportingStep

-----------------------------------------------------------------------------
(* The actions of transitions report nothing.                              *)

LEMMA FailMoves ==
    ASSUME TypeOK, NEW w \in Workers, Fail(w)
    PROVE  /\ \A v \in Workers : v # w => worker'[v] = worker[v]
           /\ worker'[w].pc = "idle" /\ queue' = queue
BY DEF TypeOK, Fail, Idle

LEMMA ExecutedMoves ==
    ASSUME TypeOK, NEW w \in Workers, NEW new, Executed(w, new), UNCHANGED brokerVars
    PROVE  /\ \A v \in Workers : v # w => worker'[v] = worker[v]
           /\ worker'[w].pc = "push" /\ queue' = queue
BY DEF TypeOK, Executed, Worker, brokerVars

\* What all the actions have in common.
Fired(w) ==
    /\ \A v \in Workers : v # w => worker'[v] = worker[v]
    /\ worker[w].pc \in {"fire", "counted", "push"}
    /\ worker'[w].pc \in {"counted", "push", "idle"}
    /\ queue' = queue
    /\ UNCHANGED <<color_marking, state, active_tokens, enablers>>

LEMMA SimpleFire ==
    ASSUME IInv, NEW w \in Workers,
           \/ FireCount(w) \/ FireHeadFails(w) \/ FireSingle(w) \/ FireRecordTime(w)
           \/ FireExpire(w) \/ FireNotImplemented(w) \/ PushFails(w)
    PROVE  Fired(w) /\ UNCHANGED <<tokens, color_groups>>
<1>1. UNCHANGED <<color_marking, state, active_tokens, enablers, tokens, color_groups>>
  BY DEF FireCount, FireHeadFails, FireSingle, FireRecordTime, FireExpire,
         FireNotImplemented, PushFails, markingVars, objectVars, transitionVars
<1>2. worker[w].pc \in {"fire", "counted", "push"}
  BY DEF FireCount, FireHeadFails, FireSingle, FireRecordTime, FireExpire,
         FireNotImplemented, PushFails, Firing, At
<1>3. \/ Fail(w)
      \/ (\E new : Executed(w, new)) /\ UNCHANGED brokerVars
      \/ \E count : /\ worker' = [worker EXCEPT ![w].pc = "counted", ![w].count = count]
                    /\ UNCHANGED brokerVars
  BY DEF FireCount, FireHeadFails, FireSingle, FireRecordTime, FireExpire,
         FireNotImplemented, PushFails
<1>4. /\ \A v \in Workers : v # w => worker'[v] = worker[v]
      /\ worker'[w].pc \in {"counted", "push", "idle"} /\ queue' = queue
  <2>1. CASE Fail(w)
    BY <2>1, FailMoves DEF IInv
  <2>2. CASE (\E new : Executed(w, new)) /\ UNCHANGED brokerVars
    BY <2>2, ExecutedMoves DEF IInv
  <2>3. CASE \E count :
               /\ worker' = [worker EXCEPT ![w].pc = "counted", ![w].count = count]
               /\ UNCHANGED brokerVars
    BY <2>3 DEF IInv, TypeOK, Worker, brokerVars
  <2> QED BY <1>3, <2>1, <2>2, <2>3
<1> QED BY <1>1, <1>2, <1>4 DEF Fired

LEMMA MakingFire ==
    ASSUME IInv, NEW w \in Workers, FireMerge(w) \/ FireRemoveData(w) \/ FireJoin(w)
    PROVE  /\ Fired(w) /\ color_groups' = color_groups
           /\ \E new : tokens' = Append(tokens, new)
<1>1. /\ UNCHANGED <<color_marking, state, active_tokens, enablers, color_groups>>
      /\ \E new : tokens' = Append(tokens, new)
  BY DEF FireMerge, FireRemoveData, FireJoin, markingVars, transitionVars
<1>2. worker[w].pc \in {"fire", "counted", "push"}
  BY DEF FireMerge, FireRemoveData, FireJoin, Firing, At
<1>3. \/ Fail(w)
      \/ (\E new : Executed(w, new)) /\ UNCHANGED brokerVars
  BY DEF FireMerge, FireRemoveData, FireJoin
<1>4. /\ \A v \in Workers : v # w => worker'[v] = worker[v]
      /\ worker'[w].pc \in {"counted", "push", "idle"} /\ queue' = queue
  <2>1. CASE Fail(w)
    BY <2>1, FailMoves DEF IInv
  <2>2. CASE (\E new : Executed(w, new)) /\ UNCHANGED brokerVars
    BY <2>2, ExecutedMoves DEF IInv
  <2> QED BY <1>3, <2>1, <2>2
<1> QED BY <1>1, <1>2, <1>4 DEF Fired

LEMMA SplitFire ==
    ASSUME IInv, IInv', NEW w \in Workers, FireSplit(w)
    PROVE  /\ Fired(w) /\ Grow
           /\ \E group : /\ color_groups' = Append(color_groups, group)
                         /\ group.begin = next_color
<1> DEFINE token == NotifiedToken(w)
           size == SplitSize[Message(w).transition]
           group == [begin |-> next_color, end |-> next_color + size,
                     parent_color |-> token.color, parent_group |-> token.group]
           made == [i \in 1 .. size |->
                       NewToken(group.begin + i - 1, Len(color_groups) + 1, {})]
<1>1. /\ UNCHANGED <<color_marking, state, active_tokens, enablers>>
      /\ color_groups' = Append(color_groups, group)
      /\ worker[w].pc = "fire"
      /\ \E new : Executed(w, new)
      /\ UNCHANGED brokerVars
      /\ tokens' = tokens \o made
  BY DEF FireSplit, Firing, At, markingVars, transitionVars
<1>2. Fired(w)
  BY <1>1, ExecutedMoves DEF Fired, IInv
<1>3. Grow
  <2>1. size \in Nat /\ tokens \in Seq(Token) /\ tokens' \in Seq(Token)
    BY <1>1, Notification, NetAssumption DEF IInv, TypeOK
  <2> HIDE DEF size
  <2> DEFINE f(i) == NewToken(group.begin + i - 1, Len(color_groups) + 1, {})
             S == Token \cup {f(i) : i \in 1 .. size}
  <2>2. made = [i \in 1 .. size |-> f(i)]
    OBVIOUS
  <2> HIDE DEF f, made
  <2>3. tokens \in Seq(S) /\ made \in Seq(S)
    BY <2>1, <2>2
  <2> HIDE DEF S
  <2>4. /\ \A i \in DOMAIN tokens : (tokens \o made)[i] = tokens[i]
        /\ Len(tokens \o made) = Len(tokens) + Len(made)
        /\ Len(tokens) \in Nat /\ Len(made) \in Nat
    BY <2>3, Concatenated
  <2>5. tokens' = tokens \o made
    BY <1>1 DEF made, f, size
  <2>6. Len(tokens) <= Len(tokens')
    BY <2>4, <2>5
  <2> QED BY <2>1, <2>4, <2>5, <2>6 DEF Grow
<1> QED BY <1>1, <1>2, <1>3

\* No cell has a token of a color that is still to be allocated.
LEMMA NewColorsUnmarked ==
    ASSUME IInv, NEW c \in Colors, c >= next_color, NEW p \in Places
    PROVE  color_marking[<<c, p>>] = NoToken
<1>1. SUFFICES ASSUME color_marking[<<c, p>>] # NoToken
               PROVE  FALSE
  OBVIOUS
<1> DEFINE i == color_marking[<<c, p>>]
<1>2. i \in DOMAIN tokens /\ tokens[i].color = c /\ c # NoColor
  BY <1>1, BoundAssumption DEF IInv, MarkInv, Colors, NoColor
<1> DEFINE g == tokens[i].group
<1>3. g \in DOMAIN color_groups /\ c \in ColorsIn(color_groups, g)
  BY <1>2 DEF IInv, TokensInv, InGroup
<1>4. color_groups[g] \in ColorGroup /\ color_groups[g].end <= next_color
  BY <1>3, ElementOf DEF IInv, TypeOK, GroupsInv
<1> HIDE DEF g
<1>5. next_color \in Int
  BY BoundAssumption DEF IInv, TypeOK
<1> QED BY <1>3, <1>4, <1>5, BoundAssumption DEF ColorGroup, ColorsIn, Colors

LEMMA FireWakes ==
    ASSUME WInv, IInv', NEW w \in Workers, Fire(w) \/ PushFails(w)
    PROVE  WInv'
<1> USE DEF WInv
<1>1. CASE \/ FireCount(w) \/ FireHeadFails(w) \/ FireSingle(w) \/ FireRecordTime(w)
           \/ FireExpire(w) \/ FireNotImplemented(w) \/ PushFails(w)
  <2>1. Fired(w) /\ UNCHANGED <<tokens, color_groups>>
    BY <1>1, SimpleFire
  <2> QED BY <2>1, SameTokensGrow, SilentStep DEF Fired
<1>2. CASE FireMerge(w) \/ FireRemoveData(w) \/ FireJoin(w)
  <2>1. Fired(w) /\ color_groups' = color_groups /\ Grow
    BY <1>2, MakingFire, OneTokenGrows
  <2> QED BY <2>1, SilentStep DEF Fired
<1>3. CASE FireSplit(w)
  <2>1. Fired(w) /\ Grow
    BY <1>3, SplitFire
  <2>2. PICK group : /\ color_groups' = Append(color_groups, group)
                     /\ group.begin = next_color
    BY <1>3, SplitFire
  <2>3. OutboxOK(tokens', worker'[w])
    BY <2>1 DEF Fired, OutboxOK
  <2>4. OutboxInv' /\ StateInv' /\ EnablerInv'
    BY <2>1, <2>3, OutboxKept DEF Fired, StateInv, EnablerInv
  <2>5. \A m \in Messages : Carried(m) => Carried(m)'
    BY <2>1, CarriedFrame DEF Fired, Holds
  <2>6. \A t \in Transitions, c \in Colors : \A p \in ArcsIn[t] :
            color_marking'[<<c, p>>] # NoToken =>
               /\ Awaited(t, p, c) => Awaited(t, p, c)'
               /\ color_marking[<<c, p>>] # NoToken \/ Awaited(t, p, c)'
    BY <2>1, <2>5, AwaitedKept DEF Fired
  <2>7. ASSUME NEW t \in Transitions, NEW tag \in LiveTags(t)'
        PROVE  \/ tag \in LiveTags(t) /\ TagColors(t, tag)' = TagColors(t, tag)
               \/ \E c \in TagColors(t, tag)' : \A p \in Places :
                     color_marking'[<<c, p>>] = NoToken
    <3>1. /\ color_groups \in Seq(ColorGroup) /\ Len(color_groups) \in Nat
          /\ \A g \in DOMAIN color_groups : color_groups'[g] = color_groups[g]
          /\ \A g \in DOMAIN color_groups' :
                g \in DOMAIN color_groups \/ color_groups'[g] = group
      BY <2>2 DEF IInv, TypeOK
    <3>2. CASE ~IsBarrier(t) \/ tag \in DOMAIN color_groups
      BY <2>7, <3>1, <3>2 DEF LiveTags, TagColors, GroupColors, IsBarrier
    <3>3. CASE IsBarrier(t) /\ tag \notin DOMAIN color_groups
      <4>1. /\ color_groups'[tag] = group /\ GroupColors(tag)' # {}
            /\ TagColors(t, tag)' = GroupColors(tag)'
        BY <2>7, <3>1, <3>3 DEF LiveTags, TagColors, IsBarrier
      <4>2. PICK c \in group.begin .. group.end - 1 : TRUE
        BY <4>1 DEF GroupColors
      <4>3. c \in Colors /\ c \in TagColors(t, tag)'
        <5>1. /\ color_groups'[tag] \in ColorGroup
              /\ color_groups'[tag].end <= next_color' /\ next_color' \in 0 .. MaxColors
          BY <3>3, <4>1, ElementOf DEF IInv, TypeOK, GroupsInv, LiveTags, IsBarrier
        <5>2. c \in Colors
          BY <2>2, <4>1, <4>2, <5>1, BoundAssumption DEF IInv, TypeOK, ColorGroup, Colors
        <5> QED BY <4>1, <4>2, <5>2 DEF GroupColors
      <4>4. c >= next_color
        BY <2>2, <4>2, <4>3, BoundAssumption DEF Colors, IInv, TypeOK
      <4>5. \A p \in Places : color_marking'[<<c, p>>] = NoToken
        BY <2>1, <4>3, <4>4, NewColorsUnmarked DEF Fired
      <4> QED BY <4>3, <4>5
    <3> QED BY <3>2, <3>3
  <2>8. WaitingInv' /\ WakingInv'
    BY <2>1, <2>6, <2>7, WaitingKept DEF Fired
  <2> QED BY <2>4, <2>8
<1> QED BY <1>1, <1>2, <1>3 DEF Fire

-----------------------------------------------------------------------------
(* push_tokens notifies the places it fills.                               *)

LEMMA PushTokensWakes ==
    ASSUME WInv, IInv', NEW w \in Workers, PushTokens(w)
    PROVE  WInv'
<1> USE DEF WInv
<1>0. PICK t, tag, new : /\ t = Message(w).transition /\ tag = NotifiedTag(w)
                         /\ new = worker[w].new
  OBVIOUS
<1> DEFINE puts == Puts(t, new)
           made == PutsMade(puts)
           msgs == PlaceNotifications(t, new)
<1>1. /\ worker[w].pc = "push"
      /\ \A i \in DOMAIN new : tokens[new[i]].color # NoColor
      /\ IF Inactive(t, tag)
         THEN UNCHANGED <<markingVars, active_tokens>>
         ELSE /\ MarkPuts(puts, made)
              /\ active_tokens' = active_tokens \/ ActiveCleared(t, tag)
      /\ PublishAll(w, msgs)
      /\ UNCHANGED <<objectVars, state, enablers, brokerVars>>
  BY <1>0 DEF PushTokens, At
<1>2. /\ Message(w) \in NotifyTransitionMessage
      /\ t \in Transitions /\ tag \in Tags
  BY <1>0, <1>1, Notification
<1>3. \A k \in DOMAIN puts : /\ puts[k].place \in Places
                             /\ tokens[puts[k].token].color \in Colors
  BY <1>0, <1>1, PutsTyped DEF At
<1>4. /\ \A v \in Workers : v # w => worker'[v] = worker[v]
      /\ worker'[w].pc = "publish" /\ worker'[w].msg = worker[w].msg
      /\ worker'[w].outbox = msgs
  <2> HIDE DEF msgs
  <2> QED BY <1>1 DEF PublishAll, IInv, TypeOK, Worker
<1>5. /\ Grow /\ tokens' = tokens /\ color_groups' = color_groups
      /\ queue' = queue /\ UNCHANGED <<state, enablers>>
  BY <1>1, SameTokensGrow DEF objectVars, brokerVars
<1>6. OutboxInv'
  <2>1. OutboxOK(tokens', worker'[w])
    BY <1>2, <1>4 DEF OutboxOK, NotifyTransitionMessage, Message
  <2> QED BY <1>4, <1>5, <2>1, OutboxKept
<1>7. StateInv' /\ EnablerInv'
  <2>1. \A u \in Transitions, g \in Tags :
            active_tokens'[u][g] # {} => active_tokens[u][g] # {}
    <3>1. active_tokens' = active_tokens \/ ActiveCleared(t, tag)
      BY <1>1
    <3>2. ActiveCleared(t, tag) => \A u \in Transitions, g \in Tags :
              \/ active_tokens'[u][g] = active_tokens[u][g]
              \/ active_tokens'[u][g] = {}
      BY <1>2 DEF ActiveCleared, IInv, TypeOK
    <3> QED BY <3>1, <3>2
  <2> QED BY <1>5, <2>1 DEF StateInv, EnablerInv
<1>8. \A m \in Messages : Carried(m) => Carried(m)'
  <2>1. \A m : ~Holds(worker[w], m)
    BY <1>1 DEF Holds
  <2> QED BY <1>4, <1>5, <2>1, CarriedFrame
<1>9. ASSUME NEW u \in Transitions, NEW c \in Colors, NEW p \in ArcsIn[u],
             color_marking'[<<c, p>>] # NoToken
      PROVE  /\ Awaited(u, p, c) => Awaited(u, p, c)'
             /\ color_marking[<<c, p>>] # NoToken \/ Awaited(u, p, c)'
  <2>1. Awaited(u, p, c) => Awaited(u, p, c)'
    BY <1>5, <1>8, AwaitedKept
  <2>2. CASE color_marking[<<c, p>>] = NoToken
    <3>1. PICK k \in DOMAIN puts : PutCell(puts[k]) = <<c, p>>
      <4>1. MarkPuts(puts, made)
        BY <1>1, <1>9, <2>2 DEF markingVars
      <4>2. <<c, p>> \in Cells /\ made \subseteq DOMAIN puts
        BY NetAssumption DEF Cells, PutsMade
      <4> HIDE DEF made, puts
      <4>3. <<c, p>> \in {PutCell(puts[k]) : k \in made}
        BY <1>9, <2>2, <4>1, <4>2 DEF MarkPuts
      <4> QED BY <4>2, <4>3
    <3>2. puts[k].place = p /\ tokens[puts[k].token].color = c
      BY <3>1 DEF PutCell
    <3>3. PICK m : m = [type |-> "notify_place", place |-> p, color |-> c]
      OBVIOUS
    <3>4. m \in Messages
      BY <1>3, <3>2, <3>3 DEF Messages, NotifyPlaceMessage
    <3>5. k \in DOMAIN msgs /\ msgs[k] = m
      <4> HIDE DEF puts
      <4> QED BY <3>1, <3>2, <3>3 DEF PlaceNotifications, puts
    <3>6. Carried(m)'
      <4> HIDE DEF msgs
      <4>1. Holds(worker'[w], m)
        BY <1>4, <3>5 DEF Holds
      <4> QED BY <4>1 DEF Carried, Holds
    <3>7. Reports(m, u, p, c)'
      BY <3>3 DEF Reports
    <3> QED BY <2>1, <3>4, <3>6, <3>7 DEF Awaited, Messages
  <2> QED BY <2>1, <2>2
<1>10. WaitingInv' /\ WakingInv'
  BY <1>5, <1>9, SameTags, WaitingKept
<1> QED BY <1>6, <1>7, <1>10 DEF WInv

-----------------------------------------------------------------------------
(* consume_tokens hears of one place, and accounts for it.                 *)

\* What a notification reports concerns one place and one tag only.
LEMMA HeardOf ==
    ASSUME WInv, NEW w \in Workers, At(w, "consume"),
           NEW t0, t0 = Message(w).transition, NEW tag0, tag0 = NotifiedTag(w),
           NEW p0, p0 = Message(w).place,
           \A v \in Workers : v # w => worker'[v] = worker[v],
           queue' = queue, tokens' = tokens, color_groups' = color_groups,
           NEW t \in Transitions, NEW tag \in LiveTags(t), NEW p,
           AwaitedAt(t, tag, p), t # t0 \/ tag # tag0 \/ p # p0
    PROVE  AwaitedAt(t, tag, p)'
<1> USE DEF WInv
<1>1. PICK c \in TagColors(t, tag) : Awaited(t, p, c)
  BY DEF AwaitedAt
<1>2. PICK m \in Messages : Carried(m) /\ Reports(m, t, p, c)
  BY <1>1 DEF Awaited
<1>3. m # Message(w)
  <2>1. SUFFICES ASSUME m = Message(w) PROVE FALSE
    OBVIOUS
  <2>2. m.type = "notify_transition"
    BY <2>1, Notification DEF At, NotifyTransitionMessage
  <2>3. t = t0 /\ p = p0 /\ NotifiedToken(w).color = c
    BY <1>2, <2>1, <2>2 DEF Reports, NotifiedToken
  <2>4. tag0 \in LiveTags(t) /\ c \in TagColors(t, tag0)
    BY <2>3, NotifiedLive
  <2>5. tag = tag0
    BY <1>1, <2>4, OneTag
  <2> QED BY <2>3, <2>5
<1>4. Carried(m)'
  <2>1. ~Holds(worker[w], m)
    BY <1>3 DEF Holds, At, Message
  <2> QED BY <1>2, <2>1, CarriedFrame
<1>5. Reports(m, t, p, c)'
  BY <1>2, SameTokensGrow, CarriedKnown, ReportsKept
<1>6. Awaited(t, p, c)'
  BY <1>4, <1>5 DEF Awaited, Messages
<1>7. c \in TagColors(t, tag)'
  BY <1>1, SameTags
<1> QED BY <1>6, <1>7 DEF AwaitedAt

\* The place that was heard of is waited for no longer, or is not full; and the
\* transition is enabled, or has not all its tokens, or waits for another place.
LEMMA ConsumingStep ==
    ASSUME WInv, IInv', NEW w \in Workers, At(w, "consume"),
           NEW t0, t0 = Message(w).transition, NEW tag0, tag0 = NotifiedTag(w),
           NEW p0, p0 = Message(w).place,
           \A v \in Workers : v # w => worker'[v] = worker[v],
           worker'[w].pc = "fire" \/ (worker'[w].pc = "publish" /\ worker'[w].outbox = <<>>),
           queue' = queue, tokens' = tokens, color_groups' = color_groups,
           \A c \in Cells : color_marking'[c] # NoToken => color_marking[c] # NoToken,
           EnablerInv',
           \A t \in Transitions, tag \in Tags :
              t # t0 \/ tag # tag0 => /\ state'[t][tag] = state[t][tag]
                                      /\ enablers'[t][tag] = enablers[t][tag],
           state'[t0][tag0] \subseteq ArcsIn[t0],
           \A p \in state'[t0][tag0] :
              (p # p0 /\ p \in state[t0][tag0]) \/ ~Full(t0, tag0, p)',
           \/ enablers'[t0][tag0] # NoPlace
           \/ \E p \in ArcsIn[t0] :
                 ~Full(t0, tag0, p)' \/ (p # p0 /\ p \in state[t0][tag0])
           \/ p0 \notin ArcsIn[t0] /\ enablers'[t0][tag0] = enablers[t0][tag0]
    PROVE  WInv'
<1> USE DEF WInv
<1>1. OutboxInv'
  <2>1. OutboxOK(tokens', worker'[w])
    BY DEF OutboxOK
  <2> QED BY <2>1, SameTokensGrow, OutboxKept
<1>2. StateInv'
  <2>1. ASSUME NEW t \in Transitions, NEW tag \in Tags
        PROVE  state'[t][tag] \subseteq ArcsIn[t]
    BY DEF StateInv
  <2> QED BY <2>1 DEF StateInv
<1>3. ASSUME NEW t \in Transitions, NEW tag \in LiveTags(t)', NEW p \in ArcsIn[t],
             Full(t, tag, p)'
      PROVE  /\ tag \in LiveTags(t) /\ tag \in Tags /\ Full(t, tag, p)
             /\ AwaitedAt(t, tag, p) /\ (t # t0 \/ tag # tag0 \/ p # p0)
                   => AwaitedAt(t, tag, p)'
  <2>1. tag \in LiveTags(t) /\ TagColors(t, tag)' = TagColors(t, tag)
    BY <1>3, SameTags
  <2>2. tag \in Tags /\ TagColors(t, tag) \subseteq Colors
    BY <2>1, LiveTag
  <2>3. p \in Places
    BY NetAssumption
  <2>4. Full(t, tag, p)
    BY <1>3, <2>1, <2>2, <2>3 DEF Full, Cells
  <2> QED BY <2>1, <2>2, <2>4, HeardOf
<1>4. WaitingInv'
  <2>1. ASSUME NEW t \in Transitions, NEW tag \in LiveTags(t)', NEW p \in ArcsIn[t],
               p \in state'[t][tag], Full(t, tag, p)'
        PROVE  AwaitedAt(t, tag, p)'
    <3>1. /\ tag \in LiveTags(t) /\ tag \in Tags
          /\ p \in state[t][tag] /\ (t # t0 \/ tag # tag0 \/ p # p0)
      BY <1>3, <2>1
    <3>2. AwaitedAt(t, tag, p)
      BY <1>3, <2>1, <3>1 DEF WaitingInv
    <3> QED BY <1>3, <2>1, <3>1, <3>2
  <2> QED BY <2>1 DEF WaitingInv
<1>5. WakingInv'
  <2>1. ASSUME NEW t \in Transitions, NEW tag \in LiveTags(t)',
               enablers'[t][tag] = NoPlace, \A p \in ArcsIn[t] : Full(t, tag, p)'
        PROVE  \E p \in ArcsIn[t] : AwaitedAt(t, tag, p)'
    <3>1. tag \in LiveTags(t) /\ tag \in Tags /\ \A p \in ArcsIn[t] : Full(t, tag, p)
      BY <1>3, <2>1, NetAssumption
    <3>2. CASE t = t0 /\ tag = tag0
      <4>1. PICK p \in ArcsIn[t] : p # p0 /\ AwaitedAt(t, tag, p)
        <5>1. CASE \E p \in ArcsIn[t] : p # p0 /\ p \in state[t][tag]
          BY <3>1, <5>1 DEF WaitingInv
        <5>2. CASE p0 \notin ArcsIn[t] /\ enablers[t][tag] = NoPlace
          BY <3>1, <5>2 DEF WakingInv
        <5> QED BY <2>1, <3>2, <5>1, <5>2
      <4> QED BY <1>3, <2>1, <4>1
    <3>3. CASE t # t0 \/ tag # tag0
      <4>1. enablers[t][tag] = NoPlace
        BY <2>1, <3>1, <3>3
      <4>2. PICK p \in ArcsIn[t] : AwaitedAt(t, tag, p)
        BY <3>1, <4>1 DEF WakingInv
      <4> QED BY <1>3, <2>1, <3>3, <4>2
    <3> QED BY <3>2, <3>3
  <2> QED BY <2>1 DEF WakingInv
<1> QED BY <1>1, <1>2, <1>4, <1>5

\* A barrier's full place has the count of its group, or more exactly: it misses no
\* place that is full.
LEMMA MissingNotFull ==
    ASSUME IInv, NEW w \in Workers, At(w, "consume"),
           NEW t, t = Message(w).transition, NEW p \in Places,
           Full(t, NotifiedTag(w), p)
    PROVE  /\ p \notin Missing(t, NotifiedToken(w))
           /\ ~RemainsAtPlace(t, p, NotifiedToken(w))
<1> DEFINE token == NotifiedToken(w)
           g == token.group
<1>1. /\ t \in Transitions /\ token.color \in Colors
      /\ g \in Groups /\ g \in DOMAIN color_groups
  BY Notification DEF At
<1>2. \A c \in ConsumedColors(t, token) : color_marking[<<c, p>>] # NoToken
  BY NotifiedLive DEF Full
<1>3. CASE ~IsBarrier(t)
  BY <1>2, <1>3 DEF ConsumedColors, Missing, RemainsAtPlace
<1>4. CASE IsBarrier(t)
  <2>1. color_groups[g] \in ColorGroup
    BY <1>1, ElementOf DEF IInv, TypeOK
  <2>2. /\ color_groups[g].begin \in Int /\ color_groups[g].end \in Int
        /\ color_groups[g].begin <= color_groups[g].end
        /\ color_groups[g].end <= MaxColors /\ color_groups[g].begin >= 0
    BY <1>1, <2>1, BoundAssumption DEF ColorGroup, IInv, GroupsInv
  <2>3. Cardinality(GroupColors(g)) = GroupSize(g)
    <3> HIDE DEF g
    <3>1. ASSUME NEW m \in Int, NEW n \in Int, m <= n
          PROVE  Cardinality(m .. n - 1) = n - m
      <4>1. n - 1 \in Int
        OBVIOUS
      <4>2. Cardinality(m .. n - 1) = IF m > n - 1 THEN 0 ELSE n - 1 - m + 1
        BY <4>1, FS_Interval
      <4> QED BY <3>1, <4>2
    <3> QED BY <2>2, <3>1 DEF GroupColors, GroupSize
  <2>4. MarkedColors(g, p) = GroupColors(g)
    <3>1. ASSUME NEW c \in GroupColors(g)
          PROVE  c \in MarkedColors(g, p)
      <4>1. c \in Colors /\ c \in ColorsIn(color_groups, g)
        BY <2>2, <3>1, BoundAssumption DEF GroupColors, ColorsIn, Colors
      <4>2. color_marking[<<c, p>>] # NoToken
        BY <1>2, <1>4 DEF ConsumedColors
      <4>3. /\ color_marking[<<c, p>>] \in DOMAIN tokens
            /\ tokens[color_marking[<<c, p>>]].color = c /\ c # NoColor
        BY <4>1, <4>2, BoundAssumption DEF IInv, MarkInv, Colors, NoColor
      <4>4. tokens[color_marking[<<c, p>>]].group = g
        BY <1>1, <4>1, <4>3, UniqueGroup DEF IInv, TokensInv, InGroup
      <4> QED BY <4>1, <4>2, <4>4 DEF MarkedColors
    <3>2. ASSUME NEW c \in MarkedColors(g, p)
          PROVE  c \in GroupColors(g)
      <4>1. /\ c \in Colors /\ color_marking[<<c, p>>] # NoToken
            /\ tokens[color_marking[<<c, p>>]].group = g
        BY <3>2 DEF MarkedColors
      <4>2. /\ color_marking[<<c, p>>] \in DOMAIN tokens
            /\ tokens[color_marking[<<c, p>>]].color = c /\ c # NoColor
        BY <4>1, BoundAssumption DEF IInv, MarkInv, Colors, NoColor
      <4> QED BY <4>1, <4>2 DEF IInv, TokensInv, InGroup, ColorsIn, GroupColors
    <3> QED BY <3>1, <3>2
  <2>5. group_marking[<<g, p>>] = GroupSize(g)
    BY <1>1, <2>3, <2>4 DEF IInv, GroupCount
  <2>6. GroupSize(g) \in Int
    BY <2>2 DEF GroupSize
  <2> QED BY <1>4, <2>5, <2>6 DEF Missing, RemainsAtPlace
<1> QED BY <1>3, <1>4

\* What the branches of the two scripts have in common.
LEMMA ConsumeFacts ==
    ASSUME IInv, NEW w \in Workers, ConsumeTokens(w)
    PROVE  /\ At(w, "consume")
           /\ \A v \in Workers : v # w => worker'[v] = worker[v]
           /\ worker'[w].pc = "fire" \/ (worker'[w].pc = "publish" /\ worker'[w].outbox = <<>>)
           /\ queue' = queue /\ tokens' = tokens /\ color_groups' = color_groups
<1>1. /\ At(w, "consume")
      /\ PublishAll(w, <<>>) \/ Goto(w, "fire")
      /\ UNCHANGED <<objectVars, brokerVars>>
  BY DEF ConsumeTokens, ConsumeRemaining, ConsumeWaiting, ConsumeEnabledByOther,
         ConsumeAlreadyActive, ConsumeIncomplete, ConsumeEnabled, Notified
<1> QED BY <1>1 DEF objectVars, brokerVars, PublishAll, Goto, IInv, TypeOK, Worker

\* What the last branch of the scripts does, in the message's own names.
Enabling(w, t, tag, p, cells) ==
    /\ ~AlreadyActive(t, tag)
    /\ enablers' = [enablers EXCEPT ![t][tag] = p]
    /\ state' = [state EXCEPT ![t][tag] = {}]
    /\ IF \E c \in cells : color_marking[c] = NoToken
       THEN PublishAll(w, <<>>) /\ UNCHANGED <<markingVars, active_tokens>>
       ELSE /\ active_tokens' =
                  [active_tokens EXCEPT ![t][tag] = {color_marking[c] : c \in cells}]
            /\ TakeCells(t, NotifiedToken(w))
            /\ Goto(w, "fire")
    /\ deposited' = deposited

LEMMA EnablingStep ==
    ASSUME NEW w \in Workers, ConsumeEnabled(w),
           NEW t, t = Message(w).transition, NEW tag, tag = NotifiedTag(w),
           NEW p, p = Message(w).place,
           NEW cells, cells = ConsumedColors(t, NotifiedToken(w)) \X ArcsIn[t]
    PROVE  Enabling(w, t, tag, p, cells)
<1>1. PICK u \in Transitions, g \in Tags, q \in Places :
        /\ Notified(w, u, g, q)
        /\ Enabling(w, u, g, q, ConsumedColors(u, NotifiedToken(w)) \X ArcsIn[u])
  BY ZenonT(90) DEF ConsumeEnabled, Enabling
<1>2. u = t /\ g = tag /\ q = p
  BY <1>1 DEF Notified
<1>3. PICK S : /\ S = ConsumedColors(u, NotifiedToken(w)) \X ArcsIn[u]
               /\ Enabling(w, u, g, q, S)
  <2>1. ASSUME NEW S, S = ConsumedColors(u, NotifiedToken(w)) \X ArcsIn[u]
        PROVE  Enabling(w, u, g, q, S)
    BY <1>1, <2>1 DEF Enabling
  <2> QED BY <2>1
<1>4. S = cells
  BY <1>2, <1>3
<1> QED BY <1>2, <1>3, <1>4

LEMMA ConsumeTokensWakes ==
    ASSUME WInv, IInv', NEW w \in Workers, ConsumeTokens(w)
    PROVE  WInv'
<1> USE DEF WInv
<1>0. PICK t, tag, p : /\ t = Message(w).transition /\ tag = NotifiedTag(w)
                       /\ p = Message(w).place
  OBVIOUS
<1>1. At(w, "consume")
  BY ConsumeFacts
<1>2. /\ t \in Transitions /\ tag \in Tags /\ p \in Places /\ tag \in LiveTags(t)
      /\ ArcsIn[t] \subseteq Places /\ ArcsIn[t] # {}
      /\ state[t][tag] \subseteq ArcsIn[t]
  BY <1>0, <1>1, NotifiedLive, NetAssumption DEF StateInv
<1>3. ASSUME \A c \in Cells : color_marking'[c] # NoToken => color_marking[c] # NoToken,
             EnablerInv',
             \A u \in Transitions, g \in Tags :
                u # t \/ g # tag => /\ state'[u][g] = state[u][g]
                                    /\ enablers'[u][g] = enablers[u][g],
             state'[t][tag] \subseteq ArcsIn[t],
             \A q \in state'[t][tag] :
                (q # p /\ q \in state[t][tag]) \/ ~Full(t, tag, q)',
             \/ enablers'[t][tag] # NoPlace
             \/ \E q \in ArcsIn[t] :
                   ~Full(t, tag, q)' \/ (q # p /\ q \in state[t][tag])
             \/ p \notin ArcsIn[t] /\ enablers'[t][tag] = enablers[t][tag]
      PROVE  WInv'
  <2>1. /\ \A v \in Workers : v # w => worker'[v] = worker[v]
        /\ worker'[w].pc = "fire" \/ (worker'[w].pc = "publish" /\ worker'[w].outbox = <<>>)
        /\ queue' = queue /\ tokens' = tokens /\ color_groups' = color_groups
    BY ConsumeFacts
  <2> QED BY <1>0, <1>1, <1>3, <2>1, ConsumingStep
<1>4. color_groups' = color_groups
  BY ConsumeFacts
<1>5. ASSUME NEW q \in Places, color_marking' = color_marking
      PROVE  Full(t, tag, q)' <=> Full(t, tag, q)
  BY <1>4, <1>5, SameTags DEF Full
\* The place is notified although it is not full.
<1>6. CASE ConsumeRemaining(w)
  <2>1. /\ RemainsAtPlace(t, p, NotifiedToken(w))
        /\ UNCHANGED <<color_marking, state, enablers, active_tokens>>
    BY <1>0, <1>6 DEF ConsumeRemaining, markingVars, transitionVars
  <2>2. ~Full(t, tag, p)'
    BY <1>0, <1>1, <1>2, <1>5, <2>1, MissingNotFull
  <2>3. EnablerInv'
    BY <2>1 DEF EnablerInv
  <2>4. \A q \in state'[t][tag] :
            (q # p /\ q \in state[t][tag]) \/ ~Full(t, tag, q)'
    <3>1. ASSUME NEW q \in state'[t][tag], q = p
          PROVE  ~Full(t, tag, q)'
      BY <2>2, <3>1
    <3> QED BY <2>1, <3>1
  <2>5. \/ \E q \in ArcsIn[t] : ~Full(t, tag, q)'
        \/ p \notin ArcsIn[t] /\ enablers'[t][tag] = enablers[t][tag]
    BY <2>1, <2>2
  <2>6. /\ \A u \in Transitions, g \in Tags :
              /\ state'[u][g] = state[u][g] /\ enablers'[u][g] = enablers[u][g]
        /\ state'[t][tag] \subseteq ArcsIn[t]
        /\ \A c \in Cells : color_marking'[c] # NoToken => color_marking[c] # NoToken
    BY <1>2, <2>1
  <2> QED BY <1>3, <2>3, <2>4, <2>5, <2>6
\* Others are waited for.
<1>7. CASE ConsumeWaiting(w)
  <2>1. /\ state' = [state EXCEPT ![t][tag] = @ \ {p}]
        /\ ~(state[t][tag] \subseteq {p})
        /\ UNCHANGED <<color_marking, enablers, active_tokens>>
    BY <1>0, <1>7 DEF ConsumeWaiting, NoneAwaited, markingVars
  <2>2. /\ state'[t][tag] = state[t][tag] \ {p}
        /\ \A u \in Transitions, g \in Tags :
              u # t \/ g # tag => state'[u][g] = state[u][g]
    BY <1>2, <2>1 DEF IInv, TypeOK
  <2>3. \E q \in ArcsIn[t] : q # p /\ q \in state[t][tag]
    BY <1>2, <2>1
  <2>4. EnablerInv'
    BY <2>1 DEF EnablerInv
  <2> QED BY <1>2, <1>3, <2>1, <2>2, <2>3, <2>4
\* It was enabled before.
<1>8. CASE ConsumeEnabledByOther(w) \/ ConsumeAlreadyActive(w)
  <2>1. /\ state' = [state EXCEPT ![t][tag] = {}]
        /\ enablers[t][tag] # NoPlace
        /\ UNCHANGED <<color_marking, enablers, active_tokens>>
    BY <1>0, <1>2, <1>8
       DEF ConsumeEnabledByOther, ConsumeAlreadyActive, Notified, StateEmptied,
           EnabledByOther, AlreadyActive, EnablerInv, markingVars
  <2>2. /\ state'[t][tag] = {}
        /\ \A u \in Transitions, g \in Tags :
              u # t \/ g # tag => state'[u][g] = state[u][g]
    BY <1>2, <2>1 DEF IInv, TypeOK
  <2>3. EnablerInv'
    BY <2>1 DEF EnablerInv
  <2> QED BY <1>3, <2>1, <2>2, <2>3
\* The missing places are the ones to wait for.
<1>9. CASE ConsumeIncomplete(w)
  <2> DEFINE missing == Missing(t, NotifiedToken(w))
  <2>1. /\ state' = [state EXCEPT ![t][tag] = missing] /\ missing # {}
        /\ UNCHANGED <<color_marking, enablers, active_tokens>>
    BY <1>0, <1>9 DEF ConsumeIncomplete, Notified, markingVars
  <2>2. missing \subseteq ArcsIn[t]
    BY DEF Missing
  <2>3. \A q \in missing : ~Full(t, tag, q)'
    BY <1>0, <1>1, <1>2, <1>5, <2>1, <2>2, MissingNotFull
  <2> HIDE DEF missing
  <2>4. /\ state'[t][tag] = missing
        /\ \A u \in Transitions, g \in Tags :
              u # t \/ g # tag => state'[u][g] = state[u][g]
    BY <1>2, <2>1, <2>2 DEF IInv, TypeOK
  <2>5. EnablerInv'
    BY <2>1 DEF EnablerInv
  <2> QED BY <1>3, <2>1, <2>2, <2>3, <2>4, <2>5
\* It becomes enabled.
<1>10. CASE ConsumeEnabled(w)
  <2>0. PICK cells : cells = ConsumedColors(t, NotifiedToken(w)) \X ArcsIn[t]
    OBVIOUS
  <2>1. /\ state' = [state EXCEPT ![t][tag] = {}]
        /\ enablers' = [enablers EXCEPT ![t][tag] = p]
        /\ \/ UNCHANGED <<markingVars, active_tokens>>
           \/ /\ TakeCells(t, NotifiedToken(w))
              /\ \E S : active_tokens' = [active_tokens EXCEPT ![t][tag] = S]
    <3>1. Enabling(w, t, tag, p, cells)
      BY <1>0, <1>10, <2>0, EnablingStep
    <3> QED BY <3>1 DEF Enabling
  <2>2. /\ state'[t][tag] = {} /\ enablers'[t][tag] = p
        /\ \A u \in Transitions, g \in Tags :
              u # t \/ g # tag => /\ state'[u][g] = state[u][g]
                                  /\ enablers'[u][g] = enablers[u][g]
    BY <1>2, <2>1 DEF IInv, TypeOK
  <2>3. p # NoPlace
    BY <1>2, NetAssumption
  <2>4. EnablerInv'
    <3>1. \A u \in Transitions, g \in Tags :
              u # t \/ g # tag => active_tokens'[u][g] = active_tokens[u][g]
      BY <1>2, <2>1 DEF IInv, TypeOK
    <3> QED BY <2>2, <2>3, <3>1 DEF EnablerInv
  <2>5. \A c \in Cells : color_marking'[c] # NoToken => color_marking[c] # NoToken
    BY <2>1 DEF TakeCells, markingVars
  <2> QED BY <1>3, <2>2, <2>3, <2>4, <2>5
<1> QED BY <1>6, <1>7, <1>8, <1>9, <1>10 DEF ConsumeTokens

-----------------------------------------------------------------------------
(* The theorems.                                                           *)

LEMMA InitWakes ==
    ASSUME Init, IInv
    PROVE  WInv
<1>1. StateInv
  BY DEF Init, StateInv
<1>2. EnablerInv
  BY DEF Init, EnablerInv
<1>3. OutboxInv
  BY IdleHoldsNothing DEF Init, OutboxInv
<1>4. WaitingInv
  <2>1. \A t \in Transitions : \A tag \in LiveTags(t) : state[t][tag] = {}
    BY LiveTag DEF Init
  <2> QED BY <2>1 DEF WaitingInv
<1>5. WakingInv
  <2>1. ASSUME NEW t \in Transitions, NEW tag \in LiveTags(t)
        PROVE  \E p \in ArcsIn[t] : ~Full(t, tag, p)
    <3>1. PICK p \in ArcsIn[t] : p \in Places
      BY NetAssumption
    <3>2. PICK c \in TagColors(t, tag) : c \in Colors
      BY LiveTag
    <3>3. color_marking[<<c, p>>] = NoToken
      BY <3>1, <3>2 DEF Init, Cells
    <3> QED BY <3>2, <3>3 DEF Full
  <2> QED BY <2>1 DEF WakingInv
<1> QED BY <1>1, <1>2, <1>3, <1>4, <1>5 DEF WInv

LEMMA StepWakes ==
    ASSUME NotifiesWhatItPushed, WInv, [Next]_vars
    PROVE  WInv'
<1>1. IInv'
  BY StepPreserves DEF WInv
<1>2. CASE UNCHANGED vars
  BY <1>1, <1>2
     DEF WInv, StateInv, EnablerInv, OutboxInv, OutboxOK, WaitingInv, WakingInv,
         LiveTags, TagColors, GroupColors, Full, AwaitedAt, Awaited, Carried, Holds,
         Reports, vars, markingVars, objectVars, transitionVars, brokerVars
<1>3. ASSUME NEW w \in Workers, Receive(w) \/ Crash(w)
      PROVE  WInv'
  BY <1>1, <1>3, ReceiveWakes, CrashWakes
<1>4. ASSUME NEW w \in Workers, Handle(w)
      PROVE  WInv'
  BY <1>1, <1>4, CreateTokenWakes, PutTokenWakes, PutTokenFailsWakes,
     NotifyPlaceWakes, ConsumeTokensWakes, FireWakes, PushTokensWakes, PublishWakes,
     AckWakes DEF Handle
<1> QED BY <1>2, <1>3, <1>4 DEF Next

LEMMA AwaitedIsPending ==
    ASSUME NEW t, NEW p, NEW c, Awaited(t, p, c)
    PROVE  Pending(t, p, c)
BY DEF Awaited, Carried, Holds, Pending, Outgoing

\* Whatever the net: a place that is full and waited for is going to be reported to
\* its transition, and so is some place of a transition that has all its tokens and
\* was not enabled before.
THEOREM WakeupInvariance ==
    ASSUME NotifiesWhatItPushed
    PROVE  Spec => []WInv
<1>1. Init => WInv
  BY InitEstablishes, InitWakes
<1>2. WInv /\ [Next]_vars => WInv'
  BY StepWakes
<1> QED BY <1>1, <1>2, PTL DEF Spec

\* In a net where no transition finds a second set of tokens of a color or group,
\* no wakeup of a transition is lost.  The two parts of the script's bookkeeping,
\* the state set and the messages that are under way, cover each other whatever
\* the handlers' order.
THEOREM NoWakeupIsLost ==
    ASSUME NotifiesWhatItPushed
    PROVE  Spec /\ []FiredOnce => []NoLostWakeup
<1>1. ASSUME WInv, FiredOnce
      PROVE  NoLostWakeup
  <2>1. ASSUME NEW t \in Transitions, NEW i \in DOMAIN tokens,
               tokens[i].color # NoColor,
               \A c \in ConsumedColors(t, tokens[i]) \X ArcsIn[t] :
                  color_marking[c] # NoToken,
               ~AlreadyActive(t, Tag(t, tokens[i]))
        PROVE  /\ \E p \in ArcsIn[t] :
                     \E c \in ConsumedColors(t, tokens[i]) : Pending(t, p, c)
               /\ \A p \in state[t][Tag(t, tokens[i])] :
                     \E c \in ConsumedColors(t, tokens[i]) : Pending(t, p, c)
    <3> DEFINE tag == Tag(t, tokens[i])
    <3>1. tag \in LiveTags(t) /\ TagColors(t, tag) = ConsumedColors(t, tokens[i])
      BY <1>1, <2>1, TokenTag DEF Known, WInv
    <3> HIDE DEF tag
    <3>2. \A p \in ArcsIn[t] : Full(t, tag, p)
      BY <2>1, <3>1 DEF Full
    <3>3. enablers[t][tag] = NoPlace
      BY <1>1, <2>1, <3>1, <3>2 DEF FiredOnce, AlreadyActive, tag
    <3>4. \E p \in ArcsIn[t] : AwaitedAt(t, tag, p)
      BY <1>1, <3>1, <3>2, <3>3 DEF WInv, WakingInv
    <3>5. state[t][tag] \subseteq ArcsIn[t]
      BY <1>1, <3>1, LiveTag DEF WInv, StateInv
    <3>6. \A p \in state[t][tag] : AwaitedAt(t, tag, p)
      BY <1>1, <3>1, <3>2, <3>5 DEF WInv, WaitingInv
    <3> QED BY <3>1, <3>4, <3>6, AwaitedIsPending DEF AwaitedAt, tag
  <2> QED BY <2>1 DEF NoLostWakeup
<1> QED BY <1>1, WakeupInvariance, PTL


-----------------------------------------------------------------------------
(* Steps that leave what handlers are about to push as it is.              *)

\* Groups are only ever added.
GroupsGrow ==
    /\ DOMAIN color_groups \subseteq DOMAIN color_groups'
    /\ \A g \in DOMAIN color_groups : color_groups'[g] = color_groups[g]

\* A transition that was enabled stays so, and consumes nothing more.
StaysEnabled ==
    \A t \in Transitions, tag \in Tags :
        enablers[t][tag] # NoPlace =>
            /\ enablers'[t][tag] # NoPlace
            /\ active_tokens[t][tag] = {} => active_tokens'[t][tag] = {}

LEMMA TagKept ==
    ASSUME IInv, GroupsGrow, NEW t \in Transitions, NEW tag \in LiveTags(t)
    PROVE  tag \in LiveTags(t)' /\ TagColors(t, tag)' = TagColors(t, tag)
BY DEF GroupsGrow, LiveTags, TagColors, GroupColors, IsBarrier

LEMMA NotificationKept ==
    ASSUME IInv, Grow, NEW v \in Workers,
           worker[v].pc \in {"consume", "fire", "counted", "push"},
           worker'[v].msg = worker[v].msg
    PROVE  /\ Message(v)' = Message(v)
           /\ NotifiedToken(v)' = NotifiedToken(v)
           /\ NotifiedTag(v)' = NotifiedTag(v)
<1>1. Known(tokens, Message(v).token)
  BY Notification
<1> QED BY <1>1 DEF Message, NotifiedToken, NotifiedTag, Tag, IsBarrier, Grow, Known

\* A handler that does not take the step.
LEMMA OtherKept ==
    ASSUME IInv, Grow, GroupsGrow, StaysEnabled, NEW v \in Workers,
           worker'[v] = worker[v], FireOK(v), PushOK(v)
    PROVE  FireOK(v)' /\ PushOK(v)'
<1>1. CASE worker[v].pc \in {"fire", "counted", "push"}
  <2>1. /\ Message(v)' = Message(v) /\ Message(v).transition \in Transitions
        /\ NotifiedToken(v)' = NotifiedToken(v)
        /\ NotifiedTag(v)' = NotifiedTag(v) /\ NotifiedTag(v) \in Tags
        /\ NotifiedToken(v).group \in DOMAIN color_groups
    BY <1>1, Notification, NotificationKept
  <2>2. FireOK(v)'
    BY <2>1 DEF FireOK, At, StaysEnabled
  <2>3. At(v, "push") => NewColors(v)' = NewColors(v)
    BY DEF At, NewColors, IInv, WorkersInv, WorkerOK, Grow
  <2>4. \A g \in DOMAIN color_groups :
            /\ g \in DOMAIN color_groups' /\ GroupColors(g)' = GroupColors(g)
            /\ color_groups'[g] = color_groups[g]
    BY DEF GroupsGrow, GroupColors
  <2>5. enablers[Message(v).transition][NotifiedTag(v)] # NoPlace
    BY <1>1 DEF FireOK
  <2>6. PushOK(v)'
    <3>1. SUFFICES ASSUME At(v, "push")
                   PROVE  PushOK(v)'
      BY DEF PushOK, At
    <3> QED BY <2>1, <2>3, <2>4, <2>5, <3>1 DEF PushOK, At, StaysEnabled
  <2> QED BY <2>2, <2>6
<1>2. CASE worker[v].pc \notin {"fire", "counted", "push"}
  BY <1>2 DEF FireOK, PushOK, At
<1> QED BY <1>1, <1>2

LEMMA ActiveTaggedKept ==
    ASSUME IInv, Grow, GroupsGrow, ActiveTagged,
           \A t \in Transitions, tag \in Tags :
              active_tokens'[t][tag] \in {{}, active_tokens[t][tag]}
    PROVE  ActiveTagged'
<1>1. ASSUME NEW t \in Transitions, NEW tag \in Tags, active_tokens'[t][tag] # {}
      PROVE  /\ tag \in LiveTags(t)'
             /\ \A i \in active_tokens'[t][tag] : tokens'[i].color \in TagColors(t, tag)'
  <2>1. active_tokens'[t][tag] = active_tokens[t][tag] /\ tag \in LiveTags(t)
    BY <1>1 DEF ActiveTagged
  <2>2. \A i \in active_tokens[t][tag] : tokens'[i] = tokens[i]
    BY DEF IInv, ActiveInv, Known, Grow
  <2> QED BY <1>1, <2>1, <2>2, TagKept DEF ActiveTagged
<1> QED BY <1>1 DEF ActiveTagged

\* What a step of one worker may do to the requests.
LEMMA RequestsKept ==
    ASSUME RequestsInv, NEW w \in Workers,
           \A v \in Workers : v # w => worker'[v] = worker[v],
           deposited' = deposited,
           \A m \in Requests : queue'[m] = queue[m] /\ (Putting(w, m)' => Putting(w, m)),
           worker'[w].pc = "publish" =>
              \A i \in DOMAIN worker'[w].outbox :
                 worker'[w].outbox[i].type # "create_token"
    PROVE  RequestsInv'
<1>1. ASSUME NEW m \in Requests, NEW v \in Workers, Putting(v, m)'
      PROVE  Putting(v, m)
  BY <1>1 DEF Putting
<1>2. \A m \in Requests :
          /\ queue'[m] <= 1
          /\ \A v \in Workers : Putting(v, m)' =>
                /\ queue'[m] = 0
                /\ \A u \in Workers : Putting(u, m)' => u = v
          /\ <<m.color, m.place>> \in deposited' =>
                queue'[m] = 0 /\ \A u \in Workers : ~Putting(u, m)'
  BY <1>1 DEF RequestsInv
<1>3. ASSUME NEW v \in Workers, worker'[v].pc = "publish"
      PROVE  \A i \in DOMAIN worker'[v].outbox :
                worker'[v].outbox[i].type # "create_token"
  BY <1>3 DEF RequestsInv, At
<1> QED BY <1>2, <1>3 DEF RequestsInv, At

LEMMA RStep ==
    ASSUME RInv, IInv', EnablerInv', ActiveTagged', RequestsInv', Grow, GroupsGrow,
           StaysEnabled, NEW w \in Workers,
           \A v \in Workers : v # w => worker'[v] = worker[v],
           FireOK(w)', PushOK(w)'
    PROVE  RInv'
<1>1. \A v \in {w} : FireOK(v)' /\ PushOK(v)'
  OBVIOUS
<1>2. \A v \in Workers : v # w => FireOK(v)' /\ PushOK(v)'
  BY OtherKept DEF RInv, FiringInv, PushInv
<1>3. \A v \in Workers : FireOK(v)' /\ PushOK(v)'
  BY <1>1, <1>2
<1>4. FiringInv' /\ PushInv'
  BY <1>3 DEF FiringInv, PushInv
<1> QED BY <1>4 DEF RInv

-----------------------------------------------------------------------------
(* The broker's side and the handlers of create_token and notify_place.    *)

\* A step that leaves groups and transitions alone and does not come to an action.
LEMMA RQuiet ==
    ASSUME RInv, IInv', RequestsInv', Grow, NEW w \in Workers,
           \A v \in Workers : v # w => worker'[v] = worker[v],
           UNCHANGED <<color_groups, active_tokens, enablers>>,
           worker'[w].pc \notin {"fire", "counted", "push"}
    PROVE  RInv'
<1>1. GroupsGrow /\ StaysEnabled
  BY DEF GroupsGrow, StaysEnabled
<1>2. EnablerInv' /\ ActiveTagged'
  BY <1>1, ActiveTaggedKept DEF RInv, EnablerInv
<1>3. FireOK(w)' /\ PushOK(w)'
  BY DEF FireOK, PushOK, At
<1> QED BY <1>1, <1>2, <1>3, RStep

LEMMA ReceiveKeeps ==
    ASSUME RInv, IInv', NEW w \in Workers, Receive(w)
    PROVE  RInv'
<1> USE DEF RInv
<1>1. PICK m \in Messages :
          /\ queue[m] > 0
          /\ queue' = [queue EXCEPT ![m] = @ - 1]
          /\ worker' = [worker EXCEPT ![w].pc = FirstStep[m.type], ![w].msg = m]
  BY DEF Receive
<1>2. /\ FirstStep[m.type] \in {"create", "read", "consume"}
      /\ FirstStep[m.type] = "create" => m \in Requests
  BY MessageTypes DEF FirstStep
<1>3. /\ \A v \in Workers : v # w => worker'[v] = worker[v]
      /\ worker'[w].pc = FirstStep[m.type] /\ worker'[w].msg = m
      /\ worker[w].pc = "idle"
  BY <1>1 DEF IInv, TypeOK, Worker, Receive, At
<1>4. /\ \A n \in Messages : n # m => queue'[n] = queue[n]
      /\ queue'[m] = queue[m] - 1 /\ queue \in [Messages -> Nat]
  BY <1>1 DEF IInv, TypeOK
<1>5. /\ Grow /\ deposited' = deposited
      /\ UNCHANGED <<color_groups, active_tokens, enablers>>
  BY SameTokensGrow DEF Receive, objectVars, transitionVars
<1>6. ASSUME NEW n \in Requests
      PROVE  /\ queue'[n] <= 1
             /\ \A v \in Workers : Putting(v, n)' =>
                   /\ queue'[n] = 0
                   /\ \A u \in Workers : Putting(u, n)' => u = v
             /\ <<n.color, n.place>> \in deposited' =>
                   queue'[n] = 0 /\ \A u \in Workers : ~Putting(u, n)'
  <2>1. n \in Messages
    BY RequestTypes
  <2>2. \A v \in Workers : Putting(v, n)' => (v = w /\ n = m) \/ (v # w /\ Putting(v, n))
    BY <1>2, <1>3 DEF Putting
  <2>3. CASE n = m
    <3>1. queue[m] <= 1 /\ queue[m] \in Nat /\ queue[m] > 0
      BY <1>1, <1>4, <2>3 DEF RequestsInv
    <3>2. queue[m] = 1 /\ queue'[m] = 0
      BY <1>4, <3>1
    <3>3. /\ \A v \in Workers : ~Putting(v, n)
          /\ <<n.color, n.place>> \notin deposited
      BY <2>3, <3>2 DEF RequestsInv
    <3> QED BY <1>5, <2>2, <2>3, <3>2, <3>3
  <2>4. CASE n # m
    BY <1>4, <1>5, <2>1, <2>2, <2>4 DEF RequestsInv
  <2> QED BY <2>3, <2>4
<1>7. \A v \in Workers : At(v, "publish")' => v # w /\ worker'[v] = worker[v]
  BY <1>2, <1>3 DEF At
<1>8. RequestsInv'
  <2>1. ASSUME NEW v \in Workers, worker'[v].pc = "publish"
        PROVE  \A i \in DOMAIN worker'[v].outbox :
                  worker'[v].outbox[i].type # "create_token"
    BY <1>7, <2>1 DEF RequestsInv, At
  <2> QED BY <1>6, <2>1 DEF RequestsInv, At
<1> QED BY <1>2, <1>3, <1>5, <1>8, RQuiet

LEMMA PublishKeeps ==
    ASSUME RInv, IInv', NEW w \in Workers, Publish(w)
    PROVE  RInv'
<1> USE DEF RInv
<1> DEFINE outbox == worker[w].outbox
<1>1. /\ outbox \in Seq(Messages) /\ outbox # <<>>
      /\ worker[w] \in Worker /\ worker[w].pc = "publish"
  BY DEF IInv, TypeOK, Publish, At, Worker
<1>2. /\ Head(outbox) \in Messages /\ Head(outbox) = outbox[1] /\ 1 \in DOMAIN outbox
      /\ \A i \in DOMAIN Tail(outbox) :
            i + 1 \in DOMAIN outbox /\ Tail(outbox)[i] = outbox[i + 1]
  <2> HIDE DEF outbox
  <2> QED BY <1>1
<1>3. /\ \A v \in Workers : v # w => worker'[v] = worker[v]
      /\ worker'[w].pc = "publish" /\ worker'[w].outbox = Tail(outbox)
      /\ queue' = [queue EXCEPT ![Head(outbox)] = @ + 1]
      /\ UNCHANGED <<objectVars, transitionVars, deposited>>
  BY <1>1 DEF Publish, IInv, TypeOK, Worker
<1>4. \A i \in DOMAIN outbox : outbox[i].type # "create_token"
  BY <1>1 DEF RequestsInv, At
<1>5. \A n \in Requests : queue'[n] = queue[n]
  <2>1. Head(outbox).type # "create_token"
    BY <1>2, <1>4
  <2> HIDE DEF outbox
  <2> QED BY <1>2, <1>3, <2>1, RequestTypes DEF IInv, TypeOK
<1>6. \A i \in DOMAIN worker'[w].outbox : worker'[w].outbox[i].type # "create_token"
  BY <1>2, <1>3, <1>4
<1>7. \A n \in Requests : ~Putting(w, n)'
  BY <1>3 DEF Putting
<1>8. RequestsInv'
  BY <1>3, <1>5, <1>6, <1>7, RequestsKept
<1>9. Grow /\ UNCHANGED <<color_groups, active_tokens, enablers>>
  BY <1>3, SameTokensGrow DEF objectVars, transitionVars
<1> QED BY <1>3, <1>8, <1>9, RQuiet

\* A handler whose message is gone or that has only to publish, but no requests.
LEMMA RDone ==
    ASSUME RInv, IInv', Grow, NEW w \in Workers,
           \A v \in Workers : v # w => worker'[v] = worker[v],
           UNCHANGED <<color_groups, active_tokens, enablers, queue, deposited>>,
           \/ worker'[w].pc \in {"idle", "read"}
           \/ worker'[w].pc = "publish" /\ \A i \in DOMAIN worker'[w].outbox :
                 worker'[w].outbox[i].type # "create_token"
    PROVE  RInv'
<1>1. \A n : ~Putting(w, n)'
  BY DEF Putting
<1>2. RequestsInv'
  BY <1>1, RequestsKept DEF RInv
<1> QED BY <1>2, RQuiet

LEMMA AckKeeps ==
    ASSUME RInv, IInv', NEW w \in Workers, Ack(w)
    PROVE  RInv'
<1>1. /\ \A v \in Workers : v # w => worker'[v] = worker[v]
      /\ worker'[w].pc = "idle" /\ Grow
      /\ UNCHANGED <<color_groups, active_tokens, enablers, queue, deposited>>
  BY SameTokensGrow
     DEF RInv, Ack, IInv, TypeOK, Idle, objectVars, transitionVars, brokerVars
<1> QED BY <1>1, RDone

\* A request that was not put goes back to the queue; the others were put.
LEMMA CrashKeeps ==
    ASSUME PutsOnce, RInv, IInv', NEW w \in Workers, Crash(w)
    PROVE  RInv'
<1> USE DEF RInv
<1>1. PICK msg \in Messages : msg = Message(w)
  BY HandledMessage DEF Crash, IInv
<1>2. /\ \A v \in Workers : v # w => worker'[v] = worker[v]
      /\ worker'[w].pc = "idle"
      /\ queue' = [queue EXCEPT ![msg] = @ + 1]
      /\ UNCHANGED <<objectVars, transitionVars, deposited>>
      /\ worker[w].pc # "idle" /\ <<msg.type, worker[w].pc>> \in CrashAt
  BY <1>1 DEF Crash, IInv, TypeOK, Idle, At
<1>3. /\ Grow /\ UNCHANGED <<color_groups, active_tokens, enablers>>
  BY <1>2, SameTokensGrow DEF objectVars, transitionVars
<1>4. /\ queue \in [Messages -> Nat] /\ queue'[msg] = queue[msg] + 1
      /\ \A n \in Messages : n # msg => queue'[n] = queue[n]
  BY <1>2 DEF IInv, TypeOK
<1>5. msg \in Requests => Putting(w, msg)
  <2>1. SUFFICES ASSUME msg \in Requests
                 PROVE  worker[w].pc \in {"create", "put"}
    BY <1>1 DEF Putting, Message
  <2>2. worker[w].pc \notin {"read", "publish"}
    BY <1>2, <2>1, RequestTypes DEF PutsOnce
  <2>3. worker[w].pc \notin {"consume", "fire", "counted", "push"}
    BY <1>1, <2>1, RequestTypes, Notification DEF NotifyTransitionMessage
  <2>4. worker[w].pc \in PCs
    BY DEF IInv, TypeOK, Worker, PCs
  <2> QED BY <1>2, <2>2, <2>3, <2>4 DEF PCs
<1>6. ASSUME NEW n \in Requests
      PROVE  /\ queue'[n] <= 1
             /\ \A v \in Workers : Putting(v, n)' =>
                   /\ queue'[n] = 0
                   /\ \A u \in Workers : Putting(u, n)' => u = v
             /\ <<n.color, n.place>> \in deposited' =>
                   queue'[n] = 0 /\ \A u \in Workers : ~Putting(u, n)'
  <2>1. n \in Messages
    BY RequestTypes
  <2>2. \A v \in Workers : Putting(v, n)' => v # w /\ Putting(v, n)
    BY <1>2 DEF Putting
  <2>3. CASE n = msg
    <3>1. /\ queue[n] = 0 /\ \A u \in Workers : Putting(u, n) => u = w
          /\ <<n.color, n.place>> \notin deposited
      BY <1>5, <2>3 DEF RequestsInv
    <3> QED BY <1>2, <1>4, <2>2, <2>3, <3>1
  <2>4. CASE n # msg
    BY <1>2, <1>4, <2>1, <2>2, <2>4 DEF RequestsInv
  <2> QED BY <2>3, <2>4
<1>7. RequestsInv'
  <2>1. ASSUME NEW v \in Workers, worker'[v].pc = "publish"
        PROVE  \A i \in DOMAIN worker'[v].outbox :
                  worker'[v].outbox[i].type # "create_token"
    BY <1>2, <2>1 DEF RequestsInv, At
  <2> QED BY <1>6, <2>1 DEF RequestsInv, At
<1> QED BY <1>2, <1>3, <1>7, RQuiet

LEMMA CreateTokenKeeps ==
    ASSUME RInv, IInv', NEW w \in Workers, CreateToken(w)
    PROVE  RInv'
<1>1. /\ \A v \in Workers : v # w => worker'[v] = worker[v]
      /\ worker'[w].pc = "put" /\ worker'[w].msg = worker[w].msg
      /\ worker[w].pc = "create"
      /\ UNCHANGED <<color_groups, active_tokens, enablers, queue, deposited>>
  BY DEF CreateToken, At, RInv, IInv, TypeOK, Worker, transitionVars, brokerVars
<1>2. Grow
  BY OneTokenGrows DEF CreateToken, RInv
<1>3. \A n \in Requests : Putting(w, n)' => Putting(w, n)
  BY <1>1 DEF Putting
<1>4. RequestsInv'
  BY <1>1, <1>3, RequestsKept DEF RInv
<1> QED BY <1>1, <1>2, <1>4, RQuiet

LEMMA PutTokenKeeps ==
    ASSUME OneRequestForEachCell, RInv, IInv', NEW w \in Workers, PutToken(w)
    PROVE  RInv'
<1> USE DEF RInv
<1>1. PICK m \in Requests : m = Message(w) /\ Putting(w, m) /\ m.place \in Places
  BY DEF PutToken, Putting, IInv, WorkersInv, WorkerOK, At, Message
<1>2. /\ \A v \in Workers : v # w => worker'[v] = worker[v]
      /\ worker'[w].pc = "read" /\ Grow
      /\ UNCHANGED <<color_groups, active_tokens, enablers, queue>>
  BY SameTokensGrow
     DEF PutToken, Goto, IInv, TypeOK, Worker, objectVars, transitionVars, brokerVars
<1>3. deposited' \in {deposited, deposited \cup {<<m.color, m.place>>}}
  BY <1>1 DEF PutToken
<1>4. ASSUME NEW n \in Requests
      PROVE  /\ queue'[n] <= 1
             /\ \A v \in Workers : Putting(v, n)' =>
                   /\ queue'[n] = 0
                   /\ \A u \in Workers : Putting(u, n)' => u = v
             /\ <<n.color, n.place>> \in deposited' =>
                   queue'[n] = 0 /\ \A u \in Workers : ~Putting(u, n)'
  <2>1. \A v \in Workers : Putting(v, n)' => v # w /\ Putting(v, n)
    BY <1>2 DEF Putting
  <2>2. CASE n = m
    <3>1. queue[n] = 0 /\ \A v \in Workers : Putting(v, n) => v = w
      BY <1>1, <2>2 DEF RequestsInv
    <3> QED BY <1>2, <2>1, <3>1
  <2>3. CASE n # m
    <3>1. <<n.color, n.place>> \in deposited' => <<n.color, n.place>> \in deposited
      BY <1>1, <1>3, <2>3 DEF OneRequestForEachCell
    <3> QED BY <1>2, <2>1, <3>1 DEF RequestsInv
  <2> QED BY <2>2, <2>3
<1>5. RequestsInv'
  <2>1. ASSUME NEW v \in Workers, worker'[v].pc = "publish"
        PROVE  \A i \in DOMAIN worker'[v].outbox :
                  worker'[v].outbox[i].type # "create_token"
    BY <1>2, <2>1 DEF RequestsInv, At
  <2> QED BY <1>4, <2>1 DEF RequestsInv, At
<1> QED BY <1>2, <1>5, RQuiet

LEMMA PutTokenFailsKeeps ==
    ASSUME RInv, IInv', NEW w \in Workers, PutTokenFails(w)
    PROVE  RInv'
<1>1. /\ Grow /\ UNCHANGED <<color_groups, active_tokens, enablers, deposited>>
  BY SameTokensGrow DEF RInv, PutTokenFails, objectVars, transitionVars
<1>2. Fail(w)
  BY DEF PutTokenFails
<1> QED BY <1>1, <1>2, FailMoves, RDone DEF RInv, IInv

LEMMA NotifyPlaceKeeps ==
    ASSUME RInv, IInv', NEW w \in Workers, NotifyPlace(w)
    PROVE  RInv'
<1>1. PICK msgs : /\ PublishAll(w, msgs)
                  /\ \A i \in DOMAIN msgs : msgs[i].type = "notify_transition"
  <2> DEFINE m == Message(w)
             token == color_marking[<<m.color, m.place>>]
             notification(t) == [type |-> "notify_transition", transition |-> t,
                                 place |-> m.place, token |-> token]
             arcs == PlaceArcsOut[m.place]
             all == [i \in DOMAIN arcs |-> notification(arcs[i])]
  <2>1. CASE token = NoToken
    <3>1. PublishAll(w, <<>>)
      BY <2>1 DEF NotifyPlace
    <3>2. \A i \in DOMAIN <<>> : <<>>[i].type = "notify_transition"
      OBVIOUS
    <3> QED BY <3>1, <3>2, Zenon
  <2>2. CASE token # NoToken
    <3>1. PublishAll(w, all)
      BY <2>2 DEF NotifyPlace
    <3>2. \A i \in DOMAIN all : all[i].type = "notify_transition"
      OBVIOUS
    <3> HIDE DEF all
    <3> QED BY <3>1, <3>2
  <2> QED BY <2>1, <2>2
<1>2. /\ \A v \in Workers : v # w => worker'[v] = worker[v]
      /\ worker'[w].pc = "publish" /\ worker'[w].outbox = msgs
  BY <1>1 DEF PublishAll, RInv, IInv, TypeOK, Worker
<1>3. /\ Grow /\ UNCHANGED <<color_groups, active_tokens, enablers, queue, deposited>>
  BY SameTokensGrow DEF RInv, NotifyPlace, transitionVars, brokerVars
<1> QED BY <1>1, <1>2, <1>3, RDone

-----------------------------------------------------------------------------
(* The actions of transitions: what they give.                             *)

\* A handler that goes on with an action.
LEMMA ActionStep ==
    ASSUME RInv, IInv', Grow, GroupsGrow, NEW w \in Workers, Fired(w),
           deposited' = deposited,
           worker'[w].pc # "idle" => worker'[w].msg = worker[w].msg,
           worker'[w].pc = "counted" =>
              Action[Message(w).transition] \in {"merge", "remove_data"},
           PushOK(w)'
    PROVE  RInv'
<1> USE DEF Fired
<1>1. StaysEnabled
  BY DEF StaysEnabled
<1>2. EnablerInv' /\ ActiveTagged'
  BY ActiveTaggedKept DEF RInv, EnablerInv
<1>3. \A n : ~Putting(w, n)'
  BY DEF Putting
<1>4. RequestsInv'
  <2>1. worker'[w].pc # "publish" /\ \A n \in Requests : queue'[n] = queue[n]
    OBVIOUS
  <2> QED BY <1>3, <2>1, RequestsKept DEF RInv
<1>5. FireOK(w)'
  <2>1. CASE worker'[w].pc = "idle"
    BY <2>1 DEF FireOK, At
  <2>2. CASE worker'[w].pc # "idle"
    <3>1. Message(w)' = Message(w) /\ NotifiedTag(w)' = NotifiedTag(w)
      BY <2>2, NotificationKept DEF RInv
    <3>2. enablers[Message(w).transition][NotifiedTag(w)] # NoPlace
      BY DEF RInv, FiringInv, FireOK
    <3> QED BY <3>1, <3>2 DEF FireOK, At
  <2> QED BY <2>1, <2>2
<1> QED BY <1>1, <1>2, <1>4, <1>5, RStep

LEMMA SameGroupsGrow ==
    ASSUME color_groups' = color_groups
    PROVE  GroupsGrow
BY DEF GroupsGrow

\* The action returned these tokens.
LEMMA ExecutedGives ==
    ASSUME IInv, NEW w \in Workers, NEW new, Executed(w, new)
    PROVE  /\ worker'[w].pc = "push" /\ worker'[w].msg = worker[w].msg
           /\ worker'[w].new = new
           /\ NewColors(w)' = {tokens'[new[i]].color : i \in DOMAIN new}
<1>1. /\ worker'[w].pc = "push" /\ worker'[w].msg = worker[w].msg
      /\ worker'[w].new = new
  BY DEF IInv, TypeOK, Executed, Worker
<1> QED BY <1>1 DEF NewColors

LEMMA OneGiven ==
    ASSUME IInv, NEW w \in Workers, NEW i, Executed(w, <<i>>)
    PROVE  /\ worker'[w].pc = "push" /\ worker'[w].msg = worker[w].msg
           /\ NewColors(w)' = {tokens'[i].color}
<1>1. \A s : s = <<i>> => DOMAIN s = {1} /\ s[1] = i
  OBVIOUS
<1>2. PICK new : new = <<i>> /\ Executed(w, new)
  OBVIOUS
<1>3. NewColors(w)' = {tokens'[new[k]].color : k \in DOMAIN new}
  BY <1>2, ExecutedGives
<1> QED BY <1>1, <1>2, <1>3, ExecutedGives

\* Active tokens of a basic transition have the color that was notified.
LEMMA BasicActive ==
    ASSUME RInv, NEW w \in Workers, worker[w].pc \in {"fire", "counted"},
           Action[Message(w).transition] \notin {"join", "not_implemented"},
           NEW i \in Active(w)
    PROVE  tokens[i].color = NotifiedToken(w).color
<1> DEFINE t == Message(w).transition
           tag == NotifiedTag(w)
<1>1. t \in Transitions /\ tag \in Tags
  BY Notification DEF RInv
<1>2. ~IsBarrier(t)
  BY <1>1, ActionAssumption DEF IsBarrier
<1>3. tokens[i].color \in TagColors(t, tag)
  <2>1. i \in active_tokens[t][tag]
    BY DEF Active
  <2> QED BY <1>1, <2>1 DEF RInv, ActiveTagged
<1> QED BY <1>2, <1>3 DEF TagColors, NotifiedTag, Tag

LEMMA OneColorPushes ==
    ASSUME RInv, Grow, NEW w \in Workers, worker[w].pc \in {"fire", "counted"},
           Action[Message(w).transition] \in {"merge", "remove_data"},
           worker'[w].msg = worker[w].msg,
           NewColors(w)' = {NotifiedToken(w).color}
    PROVE  PushOK(w)'
BY NotificationKept DEF RInv, PushOK

LEMMA FireKeepsSame ==
    ASSUME RInv, IInv', NEW w \in Workers,
           FireSingle(w) \/ FireMerge(w) \/ FireRemoveData(w)
    PROVE  RInv'
<1> USE DEF RInv
<1> DEFINE token == NotifiedToken(w)
<1>1. /\ Fired(w) /\ color_groups' = color_groups /\ deposited' = deposited /\ Grow
      /\ worker[w].pc = "counted"
  <2>1. /\ deposited' = deposited /\ worker[w].pc = "counted"
    BY DEF FireSingle, FireMerge, FireRemoveData, At
  <2> QED BY <2>1, SimpleFire, MakingFire, SameTokensGrow, OneTokenGrows
<1>2. Action[Message(w).transition] \in {"merge", "remove_data"}
  BY <1>1 DEF FiringInv, FireOK, At
<1>3. CASE FireSingle(w)
  <2>1. PICK i \in Active(w) : Executed(w, <<i>>)
    BY <1>3 DEF FireSingle
  <2>2. tokens'[i].color = token.color
    <3>1. tokens' = tokens
      BY <1>3, SimpleFire
    <3>2. tokens[i].color = token.color
      BY <1>1, <1>2, <2>1, BasicActive
    <3> QED BY <3>1, <3>2
  <2> QED BY <1>1, <1>2, <2>1, <2>2, OneGiven, OneColorPushes, SameGroupsGrow, ActionStep
<1>4. ASSUME NEW new, new.color = token.color, Len(tokens) < MaxTokens,
             tokens' = Append(tokens, new), Executed(w, <<Len(tokens) + 1>>)
      PROVE  RInv'
  <2>1. tokens'[Len(tokens) + 1].color = token.color
    BY <1>4, Appended
  <2> QED BY <1>1, <1>2, <1>4, <2>1, OneGiven, OneColorPushes, SameGroupsGrow, ActionStep
<1>5. CASE FireMerge(w)
  <2> DEFINE data == MergedData(Active(w))
             merged == NewToken(token.color, token.group, data)
  <2>1. CASE Conflicting(data)
    <3>1. worker'[w].pc = "idle"
      BY <1>5, <2>1, FailMoves DEF FireMerge, IInv
    <3>2. PushOK(w)'
      BY <3>1 DEF PushOK, At
    <3> QED BY <1>1, <3>1, <3>2, SameGroupsGrow, ActionStep
  <2>2. CASE ~Conflicting(data)
    <3>1. /\ tokens' = Append(tokens, merged) /\ Len(tokens) < MaxTokens
          /\ Executed(w, <<Len(tokens) + 1>>)
      BY <1>5, <2>2 DEF FireMerge
    <3>2. merged.color = token.color
      BY DEF NewToken
    <3> QED BY <1>4, <3>1, <3>2
  <2> QED BY <2>1, <2>2
<1>6. CASE FireRemoveData(w)
  <2>1. PICK kept : /\ tokens' = Append(tokens, NewToken(token.color, token.group, kept))
                    /\ Len(tokens) < MaxTokens /\ Executed(w, <<Len(tokens) + 1>>)
    BY <1>6 DEF FireRemoveData
  <2>2. NewToken(token.color, token.group, kept).color = token.color
    BY DEF NewToken
  <2> QED BY <1>4, <2>1, <2>2
<1> QED BY <1>3, <1>5, <1>6

LEMMA FireRecordTimeKeeps ==
    ASSUME RInv, IInv', NEW w \in Workers, FireRecordTime(w)
    PROVE  RInv'
<1> USE DEF RInv
<1>1. /\ Fired(w) /\ tokens' = tokens /\ color_groups' = color_groups /\ Grow
      /\ deposited' = deposited /\ active_tokens' = active_tokens
      /\ worker[w].pc = "fire" /\ Action[Message(w).transition] = "record_time"
  BY SimpleFire, SameTokensGrow DEF FireRecordTime, Firing, At, Fired
<1>2. PICK new \in SetToSeqs(Active(w)) : Executed(w, new)
  BY DEF FireRecordTime
<1>3. /\ NewColors(w)' = {tokens[new[i]].color : i \in DOMAIN new}
      /\ worker'[w].pc = "push" /\ worker'[w].msg = worker[w].msg
  BY <1>1, <1>2, ExecutedGives
<1>4. /\ new \in [1 .. Cardinality(Active(w)) -> Active(w)]
      /\ IsFiniteSet(Active(w)) /\ Cardinality(Active(w)) \in Nat
  BY <1>1, <1>2, ActiveTokens DEF SetToSeqs
<1>5. \A i \in Active(w) : tokens[i].color = NotifiedToken(w).color
  BY <1>1, BasicActive
<1>6. CASE Active(w) = {}
  <2>1. NewColors(w)' = {}
    BY <1>3, <1>4, <1>6
  <2>2. active_tokens'[Message(w)'.transition][NotifiedTag(w)'] = {}
    BY <1>1, <1>3, <1>6, NotificationKept DEF Active
  <2>3. PushOK(w)'
    BY <1>1, <1>3, <2>1, <2>2, NotificationKept DEF PushOK
  <2> QED BY <1>1, <1>3, <2>3, SameGroupsGrow, ActionStep
<1>7. CASE Active(w) # {}
  <2>1. Cardinality(Active(w)) > 0
    BY <1>4, <1>7, FS_EmptySet
  <2>2. NewColors(w)' = {NotifiedToken(w).color}
    BY <1>3, <1>4, <1>5, <2>1
  <2>3. PushOK(w)'
    BY <1>1, <1>3, <2>2, NotificationKept DEF PushOK
  <2> QED BY <1>1, <1>3, <2>3, SameGroupsGrow, ActionStep
<1> QED BY <1>6, <1>7

\* A split gives the colors of a new group, whose parent is the color it took.
LEMMA SplitGives ==
    ASSUME IInv, NEW w \in Workers, FireSplit(w)
    PROVE  /\ worker'[w].pc = "push" /\ worker'[w].msg = worker[w].msg
           /\ \E group : /\ color_groups' = Append(color_groups, group)
                         /\ group.begin = next_color
                         /\ group.parent_color = NotifiedToken(w).color
                         /\ NewColors(w)' = group.begin .. group.end - 1
           /\ \A i, j \in DOMAIN worker'[w].new :
                 tokens'[worker'[w].new[i]].color = tokens'[worker'[w].new[j]].color => i = j
<1>1. PICK size, first, last, idx, group :
          /\ size = SplitSize[Message(w).transition] /\ first = next_color
          /\ last = Len(tokens) /\ idx = Len(color_groups) + 1
          /\ group = [begin |-> first, end |-> first + size,
                      parent_color |-> NotifiedToken(w).color,
                      parent_group |-> NotifiedToken(w).group]
  OBVIOUS
<1> DEFINE f(i) == NewToken(first + i - 1, idx, {})
           made == [i \in 1 .. size |-> f(i)]
           new == [i \in 1 .. size |-> last + i]
<1>2. /\ worker[w].pc = "fire"
      /\ color_groups' = Append(color_groups, group)
      /\ tokens' = tokens \o made
      /\ Executed(w, new)
  BY <1>1 DEF FireSplit, Firing, At
<1>3. /\ size \in Nat /\ tokens \in Seq(Token) /\ last \in Nat /\ first \in Nat
      /\ DOMAIN tokens = 1 .. last
  BY <1>1, <1>2, Notification, NetAssumption, BoundAssumption DEF IInv, TypeOK
<1> HIDE DEF f
<1>4. DOMAIN new = 1 .. size /\ \A i \in 1 .. size : new[i] = last + i
  OBVIOUS
<1>5. \A i \in 1 .. size : made[i].color = first + i - 1
  BY DEF f, NewToken
<1>6. /\ NewColors(w)' = {tokens'[new[i]].color : i \in 1 .. size}
      /\ worker'[w].pc = "push" /\ worker'[w].msg = worker[w].msg
      /\ worker'[w].new = new
  <2>1. PICK n : n = new /\ Executed(w, n)
    BY <1>2
  <2> HIDE DEF new, made
  <2>2. /\ NewColors(w)' = {tokens'[n[i]].color : i \in DOMAIN n}
        /\ worker'[w].pc = "push" /\ worker'[w].msg = worker[w].msg
        /\ worker'[w].new = n
    BY <2>1, ExecutedGives
  <2> QED BY <1>4, <2>1, <2>2
<1>7. \A i \in 1 .. size : tokens'[new[i]] = made[i]
  <2> DEFINE S == Token \cup {f(i) : i \in 1 .. size}
  <2>1. tokens \in Seq(S) /\ made \in Seq(S) /\ Len(made) = size
    BY <1>3
  <2> HIDE DEF S, made, new
  <2>2. /\ Len(tokens \o made) = last + size /\ tokens \o made \in Seq(S)
        /\ \A k \in DOMAIN (tokens \o made) :
              k \notin DOMAIN tokens => (tokens \o made)[k] = made[k - last]
    <3>1. PICK s, n : s = tokens /\ n = made /\ s \in Seq(S) /\ n \in Seq(S)
      BY <2>1
    <3>2. /\ s \o n \in Seq(S) /\ Len(s \o n) = Len(s) + Len(n)
          /\ \A k \in DOMAIN (s \o n) :
                k \notin DOMAIN s => (s \o n)[k] = n[k - Len(s)]
      BY <3>1, Concatenated
    <3> QED BY <1>1, <2>1, <3>1, <3>2
  <2>3. DOMAIN (tokens \o made) = 1 .. last + size
    BY <1>3, <2>2
  <2>4. ASSUME NEW i \in 1 .. size
        PROVE  (tokens \o made)[last + i] = made[i]
    <3>1. last + i \in 1 .. last + size /\ last + i \notin 1 .. last /\ last + i - last = i
      BY <1>3
    <3> QED BY <1>3, <2>2, <2>3, <3>1
  <2> QED BY <1>2, <1>4, <2>4
<1>8. NewColors(w)' = first .. first + size - 1
  <2> HIDE DEF made, new
  <2>1. NewColors(w)' = {first + i - 1 : i \in 1 .. size}
    BY <1>5, <1>6, <1>7
  <2>2. \A c \in first .. first + size - 1 :
            c - first + 1 \in 1 .. size /\ c = first + (c - first + 1) - 1
    BY <1>3
  <2>3. \A i \in 1 .. size : first + i - 1 \in first .. first + size - 1
    BY <1>3
  <2> QED BY <2>1, <2>2, <2>3
<1>9. /\ group.begin = next_color /\ group.end = first + size /\ group.begin = first
      /\ group.parent_color = NotifiedToken(w).color
  BY <1>1
<1>10. NewColors(w)' = group.begin .. group.end - 1
  BY <1>3, <1>8, <1>9
<1>11. /\ color_groups' = Append(color_groups, group)
       /\ group.begin = next_color
       /\ group.parent_color = NotifiedToken(w).color
  BY <1>2, <1>9
<1>12. \A i, j \in DOMAIN worker'[w].new :
          tokens'[worker'[w].new[i]].color = tokens'[worker'[w].new[j]].color => i = j
  <2> HIDE DEF new, made
  <2>1. \A i \in 1 .. size : tokens'[new[i]].color = first + i - 1
    BY <1>5, <1>7
  <2>2. \A i, j \in 1 .. size : first + i - 1 = first + j - 1 => i = j
    BY <1>3
  <2> QED BY <1>4, <1>6, <2>1, <2>2
<1> QED BY <1>6, <1>10, <1>11, <1>12

LEMMA GroupAppended ==
    ASSUME IInv, NEW group, color_groups' = Append(color_groups, group)
    PROVE  /\ GroupsGrow
           /\ Len(color_groups) + 1 \in DOMAIN color_groups'
           /\ color_groups'[Len(color_groups) + 1] = group
           /\ \A g \in DOMAIN color_groups' :
                 g \in DOMAIN color_groups \/ g = Len(color_groups) + 1
<1>1. color_groups \in Seq(ColorGroup)
  BY DEF IInv, TypeOK
<1> QED BY <1>1 DEF GroupsGrow

LEMMA FireSplitKeeps ==
    ASSUME RInv, IInv', NEW w \in Workers, FireSplit(w)
    PROVE  RInv'
<1> USE DEF RInv
<1>1. PICK idx, color : idx = Len(color_groups) + 1 /\ color = NotifiedToken(w).color
  OBVIOUS
<1>2. /\ Fired(w) /\ Grow /\ deposited' = deposited
      /\ worker[w].pc = "fire" /\ Action[Message(w).transition] = "split"
  BY SplitFire DEF FireSplit, Firing, At
<1>3. /\ worker'[w].pc = "push" /\ worker'[w].msg = worker[w].msg
      /\ GroupsGrow /\ idx \in DOMAIN color_groups'
      /\ color_groups'[idx].parent_color = color
      /\ NewColors(w)' = color_groups'[idx].begin .. color_groups'[idx].end - 1
  <2>1. PICK group : /\ color_groups' = Append(color_groups, group)
                     /\ group.parent_color = color
                     /\ NewColors(w)' = group.begin .. group.end - 1
    BY <1>1, SplitGives
  <2>2. worker'[w].pc = "push" /\ worker'[w].msg = worker[w].msg
    BY SplitGives
  <2> QED BY <1>1, <2>1, <2>2, GroupAppended
<1>4. NewColors(w)' = GroupColors(idx)'
  BY <1>3 DEF GroupColors
<1>5. PushOK(w)'
  BY <1>1, <1>2, <1>3, <1>4, NotificationKept DEF PushOK
<1> QED BY <1>2, <1>3, <1>5, ActionStep

LEMMA FireJoinKeeps ==
    ASSUME RInv, IInv', NEW w \in Workers, FireJoin(w)
    PROVE  RInv'
<1> USE DEF RInv
<1>1. PICK g, token : /\ g = NotifiedToken(w).group
                      /\ token = NewToken(color_groups[g].parent_color,
                                          color_groups[g].parent_group, {})
  OBVIOUS
<1>2. /\ Fired(w) /\ color_groups' = color_groups /\ deposited' = deposited /\ Grow
      /\ worker[w].pc = "fire" /\ Action[Message(w).transition] = "join"
      /\ tokens' = Append(tokens, token) /\ Len(tokens) < MaxTokens
      /\ Executed(w, <<Len(tokens) + 1>>)
  BY <1>1, MakingFire, OneTokenGrows DEF FireJoin, Firing, At
<1>3. PICK i : i = Len(tokens) + 1
  OBVIOUS
<1>4. /\ worker'[w].pc = "push" /\ worker'[w].msg = worker[w].msg
      /\ NewColors(w)' = {tokens'[i].color}
  BY <1>2, <1>3, OneGiven
<1>5. tokens'[i].color = color_groups[g].parent_color
  BY <1>1, <1>2, <1>3, Appended DEF NewToken
<1>6. PushOK(w)'
  BY <1>1, <1>2, <1>4, <1>5, NotificationKept DEF PushOK
<1> QED BY <1>2, <1>4, <1>6, SameGroupsGrow, ActionStep

LEMMA FireExpireKeeps ==
    ASSUME RInv, IInv', NEW w \in Workers, FireExpire(w)
    PROVE  RInv'
<1> USE DEF RInv
<1>1. /\ Fired(w) /\ tokens' = tokens /\ color_groups' = color_groups /\ Grow
      /\ deposited' = deposited
      /\ worker[w].pc = "fire" /\ Action[Message(w).transition] = "expire"
      /\ Executed(w, <<>>)
  BY SimpleFire, SameTokensGrow DEF FireExpire, Firing, At
<1>2. /\ worker'[w].pc = "push" /\ worker'[w].msg = worker[w].msg
      /\ NewColors(w)' = {}
  <2>1. PICK new : new = <<>> /\ DOMAIN new = {} /\ Executed(w, new)
    <3>1. \A s : s = <<>> => DOMAIN s = {}
      OBVIOUS
    <3> QED BY <1>1, <3>1
  <2>2. /\ NewColors(w)' = {tokens'[new[i]].color : i \in DOMAIN new}
        /\ worker'[w].pc = "push" /\ worker'[w].msg = worker[w].msg
    BY <2>1, ExecutedGives
  <2> QED BY <2>1, <2>2
<1>3. PushOK(w)'
  BY <1>1, <1>2, NotificationKept DEF PushOK
<1> QED BY <1>1, <1>2, <1>3, SameGroupsGrow, ActionStep

LEMMA FireKeepsUngiven ==
    ASSUME RInv, IInv', NEW w \in Workers,
           FireCount(w) \/ FireHeadFails(w) \/ FireNotImplemented(w) \/ PushFails(w)
    PROVE  RInv'
<1> USE DEF RInv
<1>1. /\ Fired(w) /\ tokens' = tokens /\ color_groups' = color_groups /\ Grow
  BY SimpleFire, SameTokensGrow
<1>2. deposited' = deposited
  BY DEF FireCount, FireHeadFails, FireNotImplemented, PushFails
<1>3. \/ Fail(w)
      \/ /\ Action[Message(w).transition] \in {"merge", "remove_data"}
         /\ \E count : worker' = [worker EXCEPT ![w].pc = "counted", ![w].count = count]
  BY DEF FireCount, FireHeadFails, FireNotImplemented, PushFails, Firing
<1>4. CASE Fail(w)
  <2>1. worker'[w].pc = "idle"
    BY <1>4, FailMoves DEF IInv
  <2>2. PushOK(w)'
    BY <2>1 DEF PushOK, At
  <2> QED BY <1>1, <1>2, <2>1, <2>2, SameGroupsGrow, ActionStep
<1>5. CASE ~Fail(w)
  <2>1. PICK count : worker' = [worker EXCEPT ![w].pc = "counted", ![w].count = count]
    BY <1>3, <1>5
  <2>2. worker'[w].pc = "counted" /\ worker'[w].msg = worker[w].msg
    BY <2>1 DEF IInv, TypeOK, Worker
  <2>3. PushOK(w)'
    BY <2>2 DEF PushOK, At
  <2> QED BY <1>1, <1>2, <1>3, <1>5, <2>2, <2>3, SameGroupsGrow, ActionStep
<1> QED BY <1>4, <1>5

-----------------------------------------------------------------------------
(* consume_tokens and push_tokens.                                         *)

\* The script takes all the tokens of the tag.
TakesAll(w, t, tag) ==
    /\ worker'[w].pc = "fire" /\ worker'[w].msg = worker[w].msg
    /\ active_tokens[t][tag] = {}
    /\ \A p \in ArcsIn[t] : Full(t, tag, p)
    /\ \E cells, taken :
          /\ cells = TagColors(t, tag) \X ArcsIn[t]
          /\ taken = {color_marking[c] : c \in cells}
          /\ active_tokens' = [active_tokens EXCEPT ![t][tag] = taken]
          /\ color_marking' = [c \in Cells |->
                IF c \in cells THEN NoToken ELSE color_marking[c]]

\* Or it gives up.
LEMMA EnabledTakes ==
    ASSUME IInv, NEW w \in Workers, ConsumeEnabled(w),
           NEW t, t = Message(w).transition, NEW tag, tag = NotifiedTag(w)
    PROVE  /\ enablers' = [enablers EXCEPT ![t][tag] = Message(w).place]
           /\ deposited' = deposited
           /\ \/ worker'[w].pc = "publish" /\ UNCHANGED <<color_marking, active_tokens>>
              \/ TakesAll(w, t, tag)
<1>1. At(w, "consume")
  BY DEF ConsumeEnabled, Notified
<1>2. PICK cells : /\ cells = TagColors(t, tag) \X ArcsIn[t]
                   /\ cells = ConsumedColors(t, NotifiedToken(w)) \X ArcsIn[t]
  BY <1>1, NotifiedLive
<1>3. /\ enablers' = [enablers EXCEPT ![t][tag] = Message(w).place]
      /\ deposited' = deposited /\ active_tokens[t][tag] = {}
      /\ \/ PublishAll(w, <<>>) /\ UNCHANGED <<color_marking, active_tokens>>
         \/ /\ Goto(w, "fire")
            /\ \A c \in cells : color_marking[c] # NoToken
            /\ active_tokens' = [active_tokens EXCEPT ![t][tag] =
                  {color_marking[c] : c \in cells}]
            /\ color_marking' = [c \in Cells |->
                  IF c \in cells THEN NoToken ELSE color_marking[c]]
  <2>1. PICK p : p = Message(w).place /\ Enabling(w, t, tag, p, cells)
    BY <1>2, EnablingStep
  <2>2. CASE \E c \in cells : color_marking[c] = NoToken
    BY <2>1, <2>2 DEF Enabling, AlreadyActive, markingVars
  <2>3. CASE \A c \in cells : color_marking[c] # NoToken
    BY <1>2, <2>1, <2>3 DEF Enabling, AlreadyActive, TakeCells
  <2> QED BY <2>2, <2>3
<1>4. CASE PublishAll(w, <<>>) /\ UNCHANGED <<color_marking, active_tokens>>
  <2>1. worker'[w].pc = "publish"
    BY <1>4 DEF PublishAll, IInv, TypeOK, Worker
  <2> QED BY <1>3, <1>4, <2>1
<1>5. CASE /\ Goto(w, "fire")
           /\ \A c \in cells : color_marking[c] # NoToken
           /\ active_tokens' = [active_tokens EXCEPT ![t][tag] =
                 {color_marking[c] : c \in cells}]
           /\ color_marking' = [c \in Cells |->
                 IF c \in cells THEN NoToken ELSE color_marking[c]]
  <2>1. worker'[w].pc = "fire" /\ worker'[w].msg = worker[w].msg
    BY <1>5 DEF Goto, IInv, TypeOK, Worker
  <2>2. \A p \in ArcsIn[t] : Full(t, tag, p)
    BY <1>2, <1>5 DEF Full
  <2> QED BY <1>2, <1>3, <1>5, <2>1, <2>2 DEF TakesAll
<1> QED BY <1>3, <1>4, <1>5

\* A place that is not missing has all the tokens: a barrier that finds the count of
\* its group finds the colors.
LEMMA NotMissingIsFull ==
    ASSUME IInv, NEW w \in Workers, At(w, "consume"),
           NEW t, t = Message(w).transition, NEW p \in ArcsIn[t],
           p \notin Missing(t, NotifiedToken(w)),
           NEW c \in ConsumedColors(t, NotifiedToken(w))
    PROVE  color_marking[<<c, p>>] # NoToken
<1> DEFINE token == NotifiedToken(w)
           g == token.group
<1>1. /\ t \in Transitions /\ token.color \in Colors /\ p \in Places
      /\ g \in Groups /\ g \in DOMAIN color_groups
  BY Notification, NetAssumption DEF At
<1>2. CASE ~IsBarrier(t)
  BY <1>2 DEF ConsumedColors, Missing
<1>3. CASE IsBarrier(t)
  <2>1. color_groups[g] \in ColorGroup
    BY <1>1, ElementOf DEF IInv, TypeOK
  <2>2. /\ color_groups[g].begin \in Int /\ color_groups[g].end \in Int
        /\ color_groups[g].begin <= color_groups[g].end
        /\ color_groups[g].end <= MaxColors /\ color_groups[g].begin >= 0
    BY <1>1, <2>1, BoundAssumption DEF ColorGroup, IInv, GroupsInv
  <2>3. Cardinality(GroupColors(g)) = GroupSize(g) /\ IsFiniteSet(GroupColors(g))
    <3> HIDE DEF g
    <3>1. ASSUME NEW m \in Int, NEW n \in Int, m <= n
          PROVE  Cardinality(m .. n - 1) = n - m /\ IsFiniteSet(m .. n - 1)
      <4>1. n - 1 \in Int
        OBVIOUS
      <4>2. /\ Cardinality(m .. n - 1) = IF m > n - 1 THEN 0 ELSE n - 1 - m + 1
            /\ IsFiniteSet(m .. n - 1)
        BY <4>1, FS_Interval
      <4> QED BY <3>1, <4>2
    <3> QED BY <2>2, <3>1 DEF GroupColors, GroupSize
  <2>4. MarkedColors(g, p) \in SUBSET GroupColors(g)
    <3>1. ASSUME NEW d \in MarkedColors(g, p)
          PROVE  d \in GroupColors(g)
      <4>1. /\ d \in Colors /\ color_marking[<<d, p>>] # NoToken
            /\ tokens[color_marking[<<d, p>>]].group = g
        BY <3>1 DEF MarkedColors
      <4>2. /\ color_marking[<<d, p>>] \in DOMAIN tokens
            /\ tokens[color_marking[<<d, p>>]].color = d /\ d # NoColor
        BY <1>1, <4>1, BoundAssumption DEF IInv, MarkInv, Colors, NoColor
      <4> QED BY <4>1, <4>2 DEF IInv, TokensInv, InGroup, ColorsIn, GroupColors
    <3> QED BY <3>1
  <2>5. Cardinality(MarkedColors(g, p)) = GroupSize(g)
    <3>1. group_marking[<<g, p>>] = Cardinality(MarkedColors(g, p))
      BY <1>1 DEF IInv, GroupCount
    <3>2. group_marking[<<g, p>>] = GroupSize(g)
      BY <1>3 DEF Missing
    <3> QED BY <3>1, <3>2
  <2>6. MarkedColors(g, p) = GroupColors(g)
    <3> HIDE DEF g
    <3> QED BY <2>3, <2>4, <2>5, FS_Subset
  <2>7. c \in MarkedColors(g, p)
    BY <1>3, <2>6 DEF ConsumedColors
  <2> QED BY <2>7 DEF MarkedColors
<1> QED BY <1>2, <1>3

\* consume_tokens_barrier.lua has a branch for a place with the count of the group
\* but not its colors.  It is never taken.
LEMMA NeverGivesUp ==
    ASSUME IInv, NEW w \in Workers, ConsumeEnabled(w),
           NEW t, t = Message(w).transition, NEW tag, tag = NotifiedTag(w)
    PROVE  TakesAll(w, t, tag)
<1>1. At(w, "consume") /\ Missing(t, NotifiedToken(w)) = {}
  BY DEF ConsumeEnabled, Notified
<1>2. PICK cells : /\ cells = TagColors(t, tag) \X ArcsIn[t]
                   /\ cells = ConsumedColors(t, NotifiedToken(w)) \X ArcsIn[t]
  BY <1>1, NotifiedLive
<1>3. \A c \in cells : color_marking[c] # NoToken
  BY <1>1, <1>2, NotMissingIsFull
<1>4. PICK p : p = Message(w).place /\ Enabling(w, t, tag, p, cells)
  BY <1>2, EnablingStep
<1>5. Goto(w, "fire")
  BY <1>3, <1>4 DEF Enabling
<1>6. worker'[w].pc = "fire"
  BY <1>5 DEF Goto, IInv, TypeOK, Worker
<1> QED BY <1>6, EnabledTakes

\* The branches that take nothing.
LEMMA UntakenConsumes ==
    ASSUME IInv, NEW w \in Workers,
           \/ ConsumeRemaining(w) \/ ConsumeWaiting(w) \/ ConsumeEnabledByOther(w)
           \/ ConsumeAlreadyActive(w) \/ ConsumeIncomplete(w)
    PROVE  /\ UNCHANGED <<color_marking, active_tokens, enablers, deposited>>
           /\ \/ worker'[w].pc = "publish"
              \/ /\ worker'[w].pc = "fire" /\ worker'[w].msg = worker[w].msg
                 /\ active_tokens[Message(w).transition][NotifiedTag(w)] # {}
<1>1. UNCHANGED <<color_marking, active_tokens, enablers, deposited>>
  BY DEF ConsumeRemaining, ConsumeWaiting, ConsumeEnabledByOther,
         ConsumeAlreadyActive, ConsumeIncomplete, markingVars, transitionVars
<1>2. \/ PublishAll(w, <<>>)
      \/ Goto(w, "fire") /\ active_tokens[Message(w).transition][NotifiedTag(w)] # {}
  BY DEF ConsumeRemaining, ConsumeWaiting, ConsumeEnabledByOther,
         ConsumeAlreadyActive, ConsumeIncomplete, Notified, AlreadyActive
<1> QED BY <1>1, <1>2 DEF PublishAll, Goto, IInv, TypeOK, Worker

LEMMA ConsumeKeeps ==
    ASSUME RInv, IInv', FiredOnce, NEW w \in Workers, ConsumeTokens(w)
    PROVE  RInv'
<1> USE DEF RInv
<1>1. PICK t, tag : t = Message(w).transition /\ tag = NotifiedTag(w)
  OBVIOUS
<1>2. /\ At(w, "consume")
      /\ \A v \in Workers : v # w => worker'[v] = worker[v]
      /\ worker'[w].pc = "fire" \/ (worker'[w].pc = "publish" /\ worker'[w].outbox = <<>>)
      /\ queue' = queue /\ tokens' = tokens /\ color_groups' = color_groups
      /\ Grow /\ GroupsGrow
  BY ConsumeFacts, SameTokensGrow, SameGroupsGrow
<1>3. /\ t \in Transitions /\ Message(w).place \in Places /\ Message(w).place # NoPlace
      /\ tag \in LiveTags(t) /\ tag \in Tags
  BY <1>1, <1>2, NotifiedLive, NetAssumption
<1>4. ASSUME StaysEnabled, EnablerInv', ActiveTagged', deposited' = deposited,
             worker'[w].pc = "fire" =>
                worker'[w].msg = worker[w].msg /\ enablers'[t][tag] # NoPlace
      PROVE  RInv'
  <2>1. RequestsInv'
    <3>1. \A n : ~Putting(w, n)'
      BY <1>2 DEF Putting
    <3>2. worker'[w].pc = "publish" =>
              \A i \in DOMAIN worker'[w].outbox :
                 worker'[w].outbox[i].type # "create_token"
      <4>1. \A s : s = <<>> => DOMAIN s = {}
        OBVIOUS
      <4> QED BY <1>2, <4>1
    <3> QED BY <1>2, <1>4, <3>1, <3>2, RequestsKept
  <2>2. FireOK(w)'
    <3>1. CASE worker'[w].pc = "fire"
      <4>1. Message(w)' = Message(w) /\ NotifiedTag(w)' = NotifiedTag(w)
        BY <1>2, <1>4, <3>1, NotificationKept DEF At
      <4> QED BY <1>1, <1>4, <3>1, <4>1 DEF FireOK, At
    <3>2. CASE worker'[w].pc = "publish"
      BY <3>2 DEF FireOK, At
    <3> QED BY <1>2, <3>1, <3>2
  <2>3. PushOK(w)'
    BY <1>2 DEF PushOK, At
  <2> QED BY <1>2, <1>4, <2>1, <2>2, <2>3, RStep
<1>5. CASE ~ConsumeEnabled(w)
  <2>1. /\ UNCHANGED <<active_tokens, enablers, deposited>>
        /\ worker'[w].pc = "fire" =>
              worker'[w].msg = worker[w].msg /\ active_tokens[t][tag] # {}
    BY <1>1, <1>5, UntakenConsumes DEF ConsumeTokens
  <2>2. StaysEnabled /\ EnablerInv' /\ ActiveTagged'
    BY <1>2, <2>1, ActiveTaggedKept DEF StaysEnabled, EnablerInv
  <2>3. worker'[w].pc = "fire" => enablers'[t][tag] # NoPlace
    BY <1>3, <2>1 DEF EnablerInv
  <2> QED BY <1>4, <2>1, <2>2, <2>3
<1>6. CASE ConsumeEnabled(w)
  <2>1. /\ enablers'[t][tag] # NoPlace /\ deposited' = deposited
        /\ \A u \in Transitions, g \in Tags :
              u # t \/ g # tag => enablers'[u][g] = enablers[u][g]
    <3>1. enablers' = [enablers EXCEPT ![t][tag] = Message(w).place]
      BY <1>1, <1>6, EnabledTakes
    <3>2. deposited' = deposited
      BY <1>1, <1>6, EnabledTakes, Zenon
    <3> QED BY <1>3, <3>1, <3>2 DEF IInv, TypeOK
  <2>2. CASE worker'[w].pc = "publish" /\ UNCHANGED active_tokens
    <3>1. StaysEnabled /\ EnablerInv' /\ ActiveTagged'
      BY <1>2, <2>1, <2>2, ActiveTaggedKept DEF StaysEnabled, EnablerInv
    <3> QED BY <1>4, <2>1, <2>2, <3>1
  <2>3. CASE ~(worker'[w].pc = "publish" /\ UNCHANGED active_tokens)
    <3>1. PICK cells, taken :
              /\ cells = TagColors(t, tag) \X ArcsIn[t]
              /\ taken = {color_marking[c] : c \in cells}
              /\ worker'[w].msg = worker[w].msg /\ active_tokens[t][tag] = {}
              /\ \A p \in ArcsIn[t] : Full(t, tag, p)
              /\ active_tokens' = [active_tokens EXCEPT ![t][tag] = taken]
      <4>1. TakesAll(w, t, tag)
        BY <1>1, <1>6, <2>3, EnabledTakes
      <4> QED BY <4>1 DEF TakesAll
    <3>2. enablers[t][tag] = NoPlace
      BY <1>3, <3>1 DEF FiredOnce
    <3>3. /\ active_tokens'[t][tag] = taken
          /\ \A u \in Transitions, g \in Tags :
                u # t \/ g # tag => active_tokens'[u][g] = active_tokens[u][g]
      BY <1>3, <3>1 DEF IInv, TypeOK
    <3>4. StaysEnabled /\ EnablerInv'
      BY <2>1, <3>2, <3>3 DEF StaysEnabled, EnablerInv
    <3>5. \A i \in taken : tokens[i].color \in TagColors(t, tag)
      <4>1. ASSUME NEW c \in TagColors(t, tag), NEW p \in ArcsIn[t]
            PROVE  tokens[color_marking[<<c, p>>]].color = c
        <5>1. c \in Colors /\ p \in Places
          BY <1>3, LiveTag, NetAssumption
        <5> QED BY <3>1, <5>1 DEF Full, IInv, MarkInv
      <4> QED BY <3>1, <4>1
    <3>6. ASSUME NEW u \in Transitions, NEW g \in Tags, active_tokens'[u][g] # {}
          PROVE  /\ g \in LiveTags(u)
                 /\ \A i \in active_tokens'[u][g] : tokens[i].color \in TagColors(u, g)
      <4>1. CASE u = t /\ g = tag
        BY <1>3, <3>3, <3>5, <4>1
      <4>2. CASE u # t \/ g # tag
        BY <3>3, <3>6, <4>2 DEF ActiveTagged
      <4> QED BY <4>1, <4>2
    <3>7. ActiveTagged'
      <4>1. \A u, g : LiveTags(u)' = LiveTags(u) /\ TagColors(u, g)' = TagColors(u, g)
        BY <1>2, SameTags
      <4> QED BY <1>2, <3>6, <4>1 DEF ActiveTagged
    <3> QED BY <1>4, <2>1, <3>1, <3>4, <3>7
  <2> QED BY <2>2, <2>3
<1> QED BY <1>5, <1>6

LEMMA PushTokensKeeps ==
    ASSUME RInv, IInv', NEW w \in Workers, PushTokens(w)
    PROVE  RInv'
<1> USE DEF RInv
<1>1. PICK t, tag, new : /\ t = Message(w).transition /\ tag = NotifiedTag(w)
                         /\ new = worker[w].new
  OBVIOUS
<1> DEFINE msgs == PlaceNotifications(t, new)
<1>2. /\ worker[w].pc = "push"
      /\ active_tokens' = active_tokens \/ ActiveCleared(t, tag)
      /\ PublishAll(w, msgs)
      /\ UNCHANGED <<objectVars, state, enablers, brokerVars, deposited>>
  BY <1>1 DEF PushTokens, At
<1>3. t \in Transitions /\ tag \in Tags
  BY <1>1, <1>2, Notification
<1>4. \A i \in DOMAIN msgs : msgs[i].type = "notify_place"
  BY DEF PlaceNotifications
<1>5. /\ \A v \in Workers : v # w => worker'[v] = worker[v]
      /\ worker'[w].pc = "publish" /\ worker'[w].outbox = msgs
  <2> HIDE DEF msgs
  <2> QED BY <1>2 DEF PublishAll, IInv, TypeOK, Worker
<1>6. \A u \in Transitions, g \in Tags :
          active_tokens'[u][g] \in {{}, active_tokens[u][g]}
  <2>1. ActiveCleared(t, tag) => \A u \in Transitions, g \in Tags :
            active_tokens'[u][g] \in {{}, active_tokens[u][g]}
    BY <1>3 DEF ActiveCleared, IInv, TypeOK
  <2> QED BY <1>2, <2>1
<1>7. /\ Grow /\ GroupsGrow /\ UNCHANGED <<queue, enablers, deposited>>
  BY <1>2, SameTokensGrow, SameGroupsGrow DEF objectVars, brokerVars
<1>8. StaysEnabled /\ EnablerInv'
  BY <1>6, <1>7 DEF StaysEnabled, EnablerInv
<1>9. ActiveTagged'
  BY <1>6, <1>7, ActiveTaggedKept
<1>10. \A n : ~Putting(w, n)'
  BY <1>5 DEF Putting
<1>11. RequestsInv'
  <2> HIDE DEF msgs
  <2> QED BY <1>4, <1>5, <1>7, <1>10, RequestsKept
<1>12. FireOK(w)' /\ PushOK(w)'
  BY <1>5 DEF FireOK, PushOK, At
<1> QED BY <1>5, <1>7, <1>8, <1>9, <1>11, <1>12, RStep

-----------------------------------------------------------------------------
(* Every step.                                                             *)

LEMMA InitKeeps ==
    ASSUME Init, IInv
    PROVE  RInv
<1>1. \A w \in Workers : worker[w].pc = "idle"
  BY DEF Init, Idle
<1>2. FiringInv /\ PushInv
  BY <1>1 DEF FiringInv, FireOK, PushInv, PushOK, At
<1>3. EnablerInv /\ ActiveTagged
  BY DEF Init, EnablerInv, ActiveTagged
<1>4. RequestsInv
  <2>1. \A m \in Requests : queue[m] = 1
    BY DEF Init, Messages
  <2>2. deposited = {}
    BY DEF Init
  <2>3. \A w \in Workers, m \in Requests : ~Putting(w, m)
    BY <1>1 DEF Putting
  <2> QED BY <1>1, <2>1, <2>2, <2>3 DEF RequestsInv, At
<1> QED BY <1>2, <1>3, <1>4 DEF RInv

LEMMA StepKeeps ==
    ASSUME PutsOnce, OneRequestForEachCell, RInv, FiredOnce, [Next]_vars
    PROVE  RInv'
<1>1. IInv'
  BY StepPreserves DEF RInv
<1>2. CASE UNCHANGED vars
  <2>1. /\ color_groups' = color_groups /\ tokens' = tokens /\ worker' = worker
        /\ active_tokens' = active_tokens /\ enablers' = enablers
        /\ queue' = queue /\ deposited' = deposited
    BY <1>2 DEF vars, objectVars, transitionVars, brokerVars
  <2>2. EnablerInv' /\ ActiveTagged' /\ RequestsInv'
    BY <2>1 DEF RInv, EnablerInv, ActiveTagged, RequestsInv, LiveTags, TagColors,
                GroupColors, IsBarrier, Putting, At
  <2>3. \A w \in Workers : FireOK(w)' /\ PushOK(w)'
    BY <2>1, SameTokensGrow, SameGroupsGrow, OtherKept
       DEF RInv, FiringInv, PushInv, StaysEnabled
  <2> QED BY <1>1, <2>2, <2>3 DEF RInv, FiringInv, PushInv
<1>3. ASSUME NEW w \in Workers, Receive(w) \/ Crash(w)
      PROVE  RInv'
  BY <1>1, <1>3, ReceiveKeeps, CrashKeeps
<1>4. ASSUME NEW w \in Workers, Fire(w)
      PROVE  RInv'
  BY <1>1, <1>4, FireKeepsSame, FireRecordTimeKeeps, FireSplitKeeps, FireJoinKeeps,
     FireExpireKeeps, FireKeepsUngiven DEF Fire
<1>5. ASSUME NEW w \in Workers, Handle(w)
      PROVE  RInv'
  BY <1>1, <1>4, <1>5, CreateTokenKeeps, PutTokenKeeps, PutTokenFailsKeeps,
     NotifyPlaceKeeps, ConsumeKeeps, FireKeepsUngiven, PushTokensKeeps, PublishKeeps,
     AckKeeps DEF Handle
<1> QED BY <1>2, <1>3, <1>5 DEF Next

-----------------------------------------------------------------------------
(* The refinement, step by step.                                           *)

LEMMA FiringIs ==
    \A x : x \in FiringView <=>
        \E t \in Transitions, tag \in Tags :
            active_tokens[t][tag] # {} /\ x = <<t, TagColors(t, tag)>>
BY DEF FiringView, TagColors

LEMMA FiringIsNext ==
    \A x : x \in FiringView' <=>
        \E t \in Transitions, tag \in Tags :
            active_tokens'[t][tag] # {} /\ x = <<t, TagColors(t, tag)'>>
BY DEF FiringView, TagColors

\* A firing is under way for one tag only.
LEMMA OneFiring ==
    ASSUME IInv, ActiveTagged, NEW t \in Transitions, NEW tag \in LiveTags(t),
           NEW g \in Tags, active_tokens[t][g] # {},
           TagColors(t, g) = TagColors(t, tag)
    PROVE  g = tag
<1>1. g \in LiveTags(t)
  BY DEF ActiveTagged
<1>2. PICK c \in TagColors(t, tag) : TRUE
  BY LiveTag
<1> QED BY <1>1, <1>2, OneTag

\* What the coloured net does not see.
LEMMA Unseen ==
    ASSUME UNCHANGED <<color_marking, color_groups, active_tokens, deposited>>
    PROVE  UNCHANGED CN!avars
<1>1. (RequestedCells \ deposited)' = RequestedCells \ deposited
  BY DEF RequestedCells
<1>2. GroupView' = GroupView
  BY DEF GroupView, GroupColors
<1>3. MarkingView' = MarkingView
  BY DEF MarkingView
<1>4. FiringView' = FiringView
  BY DEF FiringView, IsBarrier, GroupColors
<1> QED BY <1>1, <1>2, <1>3, <1>4 DEF CN!avars

LEMMA PutTokenSimulates ==
    ASSUME RInv, NEW w \in Workers, PutToken(w)
    PROVE  [CN!AbstractNext]_(CN!avars)
<1> USE DEF RInv
<1>1. PICK m, cell : m = Message(w) /\ cell = <<m.color, m.place>>
  OBVIOUS
<1>2. /\ m \in Requests /\ m.place \in Places /\ m.color \in Colors
      /\ worker[w].new[1] # NoToken /\ worker[w].new[1] \in TokenIdxs
  <2>1. worker[w].pc = "put" /\ m.place \in Places
    BY <1>1 DEF PutToken, At
  <2>2. /\ m \in Requests /\ Len(worker[w].new) = 1 /\ worker[w].new \in Seq(TokenIdxs)
    BY <1>1, <2>1 DEF Message, IInv, WorkersInv, WorkerOK
  <2>3. worker[w].new[1] \in TokenIdxs
    BY <2>2, ElementOf
  <2> QED BY <2>1, <2>2, <2>3, RequestTypes DEF NoToken, TokenIdxs
<1>3. cell \in RequestedCells /\ cell \in Cells
  BY <1>1, <1>2 DEF RequestedCells, Cells
<1>4. cell \notin deposited
  BY <1>1, <1>2 DEF RequestsInv, Putting, PutToken, At, Message
<1>5. color_groups' = color_groups /\ active_tokens' = active_tokens
  BY DEF PutToken, objectVars, transitionVars
<1>6. CASE color_marking[cell] # NoToken
  <2>1. UNCHANGED <<color_marking, deposited>>
    BY <1>1, <1>6 DEF PutToken, markingVars
  <2> QED BY <1>5, <2>1, Unseen
<1>7. CASE color_marking[cell] = NoToken
  <2>1. /\ color_marking' = [color_marking EXCEPT ![cell] = worker[w].new[1]]
        /\ deposited' = deposited \cup {cell}
    BY <1>1, <1>7 DEF PutToken
  <2>2. cell \notin MarkingView /\ MarkingView' = MarkingView \cup {cell}
    BY <1>2, <1>3, <1>7, <2>1 DEF MarkingView, IInv, TypeOK
  <2>3. (RequestedCells \ deposited)' = (RequestedCells \ deposited) \ {cell}
    BY <2>1 DEF RequestedCells
  <2>4. GroupView' = GroupView
    BY <1>5 DEF GroupView, GroupColors
  <2>5. FiringView' = FiringView
    BY <1>5 DEF FiringView, IsBarrier, GroupColors
  <2>6. CN!Deposit
    BY <1>3, <1>4, <2>2, <2>3, <2>4, <2>5 DEF CN!Deposit
  <2> QED BY <2>6 DEF CN!AbstractNext
<1> QED BY <1>6, <1>7

LEMMA SplitSimulates ==
    ASSUME RInv, IInv', NEW w \in Workers, FireSplit(w)
    PROVE  CN!AbstractNext
<1> USE DEF RInv
<1>1. PICK group : /\ color_groups' = Append(color_groups, group)
                   /\ group.begin = next_color
                   /\ group.parent_color = NotifiedToken(w).color
  BY SplitGives
<1>2. PICK n : /\ n = Len(color_groups) + 1
               /\ GroupsGrow
               /\ n \in DOMAIN color_groups' /\ color_groups'[n] = group
               /\ \A g \in DOMAIN color_groups' : g \in DOMAIN color_groups \/ g = n
  BY <1>1, GroupAppended
<1>3. PICK colors, parent : /\ colors = group.begin .. group.end - 1
                            /\ parent = group.parent_color
  OBVIOUS
<1>4. colors \subseteq Colors
  <2>1. group \in ColorGroup
    <3>1. color_groups' \in Seq(ColorGroup)
      BY DEF IInv, TypeOK
    <3> QED BY <1>2, <3>1, ElementOf
  <2> QED BY <1>3, <2>1, BoundAssumption DEF ColorGroup, Colors
<1>5. parent \in Colors
  BY <1>1, <1>3, Notification DEF FireSplit, Firing, At
<1>6. GroupView' = GroupView \cup {[colors |-> colors, parent |-> parent]}
  <2>1. \A g \in DOMAIN color_groups :
            /\ GroupColors(g)' = GroupColors(g)
            /\ color_groups'[g] = color_groups[g] /\ g \in DOMAIN color_groups'
    BY <1>2 DEF GroupsGrow, GroupColors
  <2>2. color_groups'[n].begin .. color_groups'[n].end - 1 = colors
    BY <1>2, <1>3
  <2> QED BY <1>2, <1>3, <2>1, <2>2 DEF GroupView, GroupColors
<1>7. CN!Disjoint(colors)
  <2>1. ASSUME NEW g \in DOMAIN color_groups
        PROVE  GroupColors(g) \cap colors = {}
    <3>1. /\ color_groups[g].end <= next_color
          /\ color_groups[g].end \in Nat /\ color_groups[g].begin \in Nat
          /\ next_color \in Nat
      <4>1. color_groups[g] \in ColorGroup
        BY ElementOf DEF IInv, TypeOK
      <4> QED BY <4>1, BoundAssumption DEF IInv, TypeOK, GroupsInv, ColorGroup
    <3> QED BY <1>1, <1>3, <3>1 DEF GroupColors
  <2> QED BY <2>1 DEF CN!Disjoint, GroupView
<1>8. UNCHANGED <<color_marking, active_tokens, deposited>>
  BY DEF FireSplit, markingVars, transitionVars
<1>9. (RequestedCells \ deposited)' = RequestedCells \ deposited
  BY <1>8 DEF RequestedCells
<1>10. MarkingView' = MarkingView
  BY <1>8 DEF MarkingView
<1>11. FiringView' = FiringView
  <2>1. ASSUME NEW t \in Transitions, NEW tag \in Tags, active_tokens[t][tag] # {}
        PROVE  TagColors(t, tag)' = TagColors(t, tag)
    BY <1>2, <2>1, TagKept DEF ActiveTagged
  <2> QED BY <1>8, <2>1, FiringIs, FiringIsNext
<1>12. CN!NewGroup
  BY <1>4, <1>5, <1>6, <1>7, <1>9, <1>10, <1>11 DEF CN!NewGroup
<1> QED BY <1>12 DEF CN!AbstractNext

\* What a notified transition may take, by the abstract net's lights.
LEMMA NotifiedTakes ==
    ASSUME IInv, NEW w \in Workers, At(w, "consume"),
           NEW t, t = Message(w).transition, NEW tag, tag = NotifiedTag(w)
    PROVE  TagColors(t, tag) \in CN!Takes(t)
<1>1. t \in Transitions /\ tag \in LiveTags(t)
  BY NotifiedLive
<1>2. ASSUME NEW g \in DOMAIN color_groups
      PROVE  \E v \in GroupView : v.colors = GroupColors(g)
  <2>1. PICK v : v = [colors |-> GroupColors(g), parent |-> color_groups[g].parent_color]
    OBVIOUS
  <2>2. v \in GroupView
    BY <2>1 DEF GroupView
  <2> QED BY <2>1, <2>2
<1>3. CASE IsBarrier(t)
  <2>1. tag \in DOMAIN color_groups /\ TagColors(t, tag) = GroupColors(tag)
    BY <1>1, <1>3 DEF LiveTags, TagColors
  <2> QED BY <1>1, <1>2, <1>3, <2>1 DEF CN!Takes
<1>4. CASE ~IsBarrier(t)
  <2>1. TagColors(t, tag) = {tag} /\ tag = NotifiedToken(w).color
    BY <1>4 DEF TagColors, NotifiedTag, Tag
  <2>2. PICK g \in DOMAIN color_groups : tag \in GroupColors(g)
    BY <2>1, Notification DEF At, InGroup, ColorsIn, GroupColors, Colors, NoColor
  <2>3. tag \in UNION {v.colors : v \in GroupView}
    BY <1>2, <2>2
  <2> QED BY <1>1, <1>4, <2>1, <2>3 DEF CN!Takes
<1> QED BY <1>3, <1>4

LEMMA ConsumeSimulates ==
    ASSUME RInv, NEW w \in Workers, ConsumeTokens(w)
    PROVE  [CN!AbstractNext]_(CN!avars)
<1> USE DEF RInv
<1>1. PICK t, tag, colors : /\ t = Message(w).transition /\ tag = NotifiedTag(w)
                            /\ colors = TagColors(t, tag)
  OBVIOUS
<1>2. /\ At(w, "consume") /\ color_groups' = color_groups
      /\ t \in Transitions /\ tag \in LiveTags(t) /\ tag \in Tags
      /\ colors \in SUBSET Colors /\ colors # {}
      /\ ArcsIn[t] \subseteq Places /\ ArcsIn[t] # {}
  BY <1>1, ConsumeFacts, NotifiedLive, LiveTag, NetAssumption
<1>3. CASE UNCHANGED <<color_marking, active_tokens, deposited>>
  BY <1>2, <1>3, Unseen
<1>4. CASE ~UNCHANGED <<color_marking, active_tokens, deposited>>
  <2>1. ConsumeEnabled(w)
    BY <1>4, UntakenConsumes DEF ConsumeTokens
  <2>2. deposited' = deposited
    BY <1>1, <2>1, EnabledTakes, Zenon
  <2>3. TakesAll(w, t, tag)
    BY <1>1, <1>4, <2>1, <2>2, EnabledTakes
  <2>4. PICK cells, taken :
            /\ cells = colors \X ArcsIn[t]
            /\ taken = {color_marking[c] : c \in cells}
            /\ active_tokens' = [active_tokens EXCEPT ![t][tag] = taken]
            /\ color_marking' = [c \in Cells |->
                  IF c \in cells THEN NoToken ELSE color_marking[c]]
            /\ active_tokens[t][tag] = {}
            /\ \A p \in ArcsIn[t] : Full(t, tag, p)
    BY <1>1, <2>3 DEF TakesAll
  <2>5. cells \subseteq MarkingView /\ MarkingView' = MarkingView \ cells
    <3>1. cells \subseteq Cells
      BY <1>2, <2>4 DEF Cells
    <3>2. \A c \in Cells :
              color_marking'[c] = IF c \in cells THEN NoToken ELSE color_marking[c]
      BY <2>4
    <3>3. \A c \in cells : color_marking[c] # NoToken
      BY <1>1, <2>4 DEF Full
    <3> QED BY <3>1, <3>2, <3>3 DEF MarkingView
  <2>6. /\ taken # {} /\ active_tokens'[t][tag] = taken
        /\ \A u \in Transitions, g \in Tags :
              u # t \/ g # tag => active_tokens'[u][g] = active_tokens[u][g]
    <3>1. active_tokens \in [Transitions -> [Tags -> SUBSET TokenIdxs]]
      BY DEF IInv, TypeOK
    <3>2. /\ active_tokens'[t][tag] = taken
          /\ \A u \in Transitions, g \in Tags :
                u # t \/ g # tag => active_tokens'[u][g] = active_tokens[u][g]
      BY <1>2, <2>4, <3>1
    <3>3. \E c : c \in cells
      <4>1. PICK c \in colors, p \in ArcsIn[t] : TRUE
        BY <1>2
      <4>2. <<c, p>> \in cells
        BY <2>4, <4>1
      <4> QED BY <4>2
    <3> QED BY <2>4, <3>2, <3>3
  <2>7. \A u, g : TagColors(u, g)' = TagColors(u, g)
    BY <1>2, SameTags
  <2>8. <<t, colors>> \notin FiringView
    BY <1>1, <1>2, <2>4, FiringIs, OneFiring
  <2>9. FiringView' = FiringView \cup {<<t, colors>>}
    <3>1. <<t, colors>> \in FiringView'
      BY <1>1, <1>2, <2>6, <2>7, FiringIsNext
    <3>2. ASSUME NEW x \in FiringView
          PROVE  x \in FiringView'
      BY <2>4, <2>6, <2>7, FiringIs, FiringIsNext
    <3>3. ASSUME NEW x \in FiringView'
          PROVE  x \in FiringView \/ x = <<t, colors>>
      BY <1>1, <2>6, <2>7, FiringIs, FiringIsNext
    <3> QED BY <3>1, <3>2, <3>3
  <2>10. /\ GroupView' = GroupView
         /\ (RequestedCells \ deposited)' = RequestedCells \ deposited
    BY <1>2, <2>2 DEF GroupView, GroupColors, RequestedCells
  <2>11. CN!CanBegin(t, colors)
    BY <1>1, <1>2, <2>4, <2>5, <2>8, NotifiedTakes DEF CN!CanBegin
  <2>12. CN!Begin(t, colors)
    BY <2>4, <2>5, <2>9, <2>10, <2>11 DEF CN!Begin
  <2> QED BY <1>2, <2>12 DEF CN!AbstractNext
<1> QED BY <1>3, <1>4

\* The k-th of a rows of n entries lies in row j and in column i.
Entry(a, n, j, i, k) ==
    k \in 1 .. a * n /\ ((k - 1) \div n) + 1 = j /\ ((k - 1) % n) + 1 = i

\* There is one for each row and column.
LEMMA EntryIndex ==
    ASSUME NEW a \in Nat, NEW n \in Nat, NEW j \in 1 .. a, NEW i \in 1 .. n
    PROVE  \E k : Entry(a, n, j, i, k)
<1>1. PICK q, r, k : q = j - 1 /\ r = i - 1 /\ k = q * n + r + 1
  OBVIOUS
<1>2. q \in Nat /\ r \in Nat /\ n \in Nat \ {0} /\ r < n
  BY <1>1
<1>3. q * n \in Nat /\ a * n \in Nat
  <2>1. \A x, y \in Nat : x * y \in Nat
    OBVIOUS
  <2> QED BY <1>2, <2>1
<1>4. (q + 1) * n = q * n + n
  BY <1>2, Z3
<1>5. (q + 1) * n <= a * n
  BY <1>1, MulStep
<1>6. k \in 1 .. a * n
  BY <1>1, <1>2, <1>3, <1>4, <1>5
<1>7. (k - 1) \div n = q
  BY <1>1, <1>2, <1>3, Z3
<1>8. (k - 1) % n = r
  BY <1>1, <1>2, <1>3, Z3
<1>9. ((k - 1) \div n) + 1 = j /\ ((k - 1) % n) + 1 = i
  BY <1>1, <1>2, <1>7, <1>8
<1> QED BY <1>6, <1>9, Zenon DEF Entry

\* push_tokens puts each color at each place.
LEMMA PutsCover ==
    ASSUME NEW arcs \in Seq(Places), NEW t, arcs = ArcsOut[t], NEW new \in Seq(TokenIdxs)
    PROVE  LET puts == Puts(t, new) IN
           {PutCell(puts[k]) : k \in DOMAIN puts} =
              {tokens[new[i]].color : i \in DOMAIN new} \X ToSet(arcs)
<1> DEFINE puts == Puts(t, new)
<1>1. PICK a, n, size : a = Len(arcs) /\ n = Len(new) /\ size = a * n
  OBVIOUS
<1>2. a \in Nat /\ n \in Nat /\ DOMAIN arcs = 1 .. a /\ DOMAIN new = 1 .. n
  BY <1>1
<1>3. puts = [k \in 1 .. size |->
                 [place |-> arcs[((k - 1) \div n) + 1],
                  token |-> new[((k - 1) % n) + 1]]]
  BY <1>1 DEF Puts
<1> HIDE DEF puts
<1>4. DOMAIN puts = 1 .. size
  BY <1>3
<1>5. ASSUME NEW k \in 1 .. size, NEW j, j = ((k - 1) \div n) + 1,
             NEW i, i = ((k - 1) % n) + 1
      PROVE  PutCell(puts[k]) = <<tokens[new[i]].color, arcs[j]>>
  <2>1. puts[k] = [place |-> arcs[j], token |-> new[i]]
    BY <1>3, <1>5, Zenon
  <2> QED BY <2>1 DEF PutCell
<1>6. ASSUME NEW k \in 1 .. size
      PROVE  PutCell(puts[k]) \in {tokens[new[i]].color : i \in DOMAIN new} \X ToSet(arcs)
  <2>1. PICK j, i : j = ((k - 1) \div n) + 1 /\ i = ((k - 1) % n) + 1
    OBVIOUS
  <2>2. j \in DOMAIN arcs /\ i \in DOMAIN new
    BY <1>1, <1>2, <2>1, PutIndex
  <2> QED BY <1>5, <2>1, <2>2 DEF ToSet
<1>7. ASSUME NEW i \in DOMAIN new, NEW j \in DOMAIN arcs
      PROVE  \E k \in 1 .. size : PutCell(puts[k]) = <<tokens[new[i]].color, arcs[j]>>
  <2>1. j \in 1 .. a /\ i \in 1 .. n
    BY <1>2
  <2>2. PICK k : Entry(a, n, j, i, k)
    BY <1>2, <2>1, EntryIndex
  <2>3. k \in 1 .. size /\ j = ((k - 1) \div n) + 1 /\ i = ((k - 1) % n) + 1
    BY <1>1, <2>2, Zenon DEF Entry
  <2> QED BY <1>5, <2>3
<1>8. {PutCell(puts[k]) : k \in DOMAIN puts} =
          {tokens[new[i]].color : i \in DOMAIN new} \X ToSet(arcs)
  <2>1. ASSUME NEW x \in {tokens[new[i]].color : i \in DOMAIN new} \X ToSet(arcs)
        PROVE  x \in {PutCell(puts[k]) : k \in DOMAIN puts}
    <3>1. PICK i \in DOMAIN new, j \in DOMAIN arcs : x = <<tokens[new[i]].color, arcs[j]>>
      BY <2>1 DEF ToSet
    <3> QED BY <1>4, <1>7, <3>1
  <2> QED BY <1>4, <1>6, <2>1
<1> QED BY <1>8, Zenon DEF puts

\* What is pushed replaces what the firing took, as the abstract net has it.
LEMMA PushedIsGiven ==
    ASSUME RInv, NEW w \in Workers, At(w, "push"), Active(w) # {},
           NEW t, t = Message(w).transition
    PROVE  NewColors(w) \in CN!Gives(t, TagColors(t, NotifiedTag(w)))
<1>1. /\ PushOK(w) /\ t \in Transitions /\ NotifiedToken(w).group \in DOMAIN color_groups
  BY Notification DEF RInv, PushInv, At
<1>2. PICK given, token : given = NewColors(w) /\ token = NotifiedToken(w)
  OBVIOUS
<1>3. \A g \in DOMAIN color_groups :
          \E v \in GroupView : /\ v.colors = GroupColors(g)
                               /\ v.parent = color_groups[g].parent_color
  <2>1. ASSUME NEW g \in DOMAIN color_groups
        PROVE  \E v \in GroupView : /\ v.colors = GroupColors(g)
                                    /\ v.parent = color_groups[g].parent_color
    <3>1. PICK v : v = [colors |-> GroupColors(g), parent |-> color_groups[g].parent_color]
      OBVIOUS
    <3>2. v \in GroupView
      BY <3>1 DEF GroupView
    <3> QED BY <3>1, <3>2
  <2> QED BY <2>1
<1>4. Action[t] # "join" => TagColors(t, NotifiedTag(w)) = {token.color}
  BY <1>1, <1>2, ActionAssumption, NetAssumption
     DEF PushOK, TagColors, NotifiedTag, Tag, IsBarrier
<1>5. CASE Action[t] \in {"merge", "remove_data", "record_time"}
  <2>1. given = {token.color}
    BY <1>1, <1>2, <1>5 DEF PushOK, Active
  <2>2. EffectOf[t] = "same"
    BY <1>1, <1>5 DEF EffectOf
  <2> QED BY <1>2, <1>4, <1>5, <2>1, <2>2 DEF CN!Gives
<1>6. CASE Action[t] = "split"
  <2>1. PICK g \in DOMAIN color_groups : /\ color_groups[g].parent_color = token.color
                                         /\ given = GroupColors(g)
    BY <1>1, <1>2, <1>6 DEF PushOK
  <2>2. PICK v \in GroupView : v.colors = given /\ v.parent = token.color
    BY <1>3, <2>1
  <2>3. EffectOf[t] = "split"
    BY <1>1, <1>6 DEF EffectOf
  <2> QED BY <1>2, <1>4, <1>6, <2>2, <2>3 DEF CN!Gives
<1>7. CASE Action[t] = "join"
  <2>1. /\ given = {color_groups[token.group].parent_color}
        /\ TagColors(t, NotifiedTag(w)) = GroupColors(token.group)
    BY <1>1, <1>2, <1>7, ActionAssumption
       DEF PushOK, TagColors, NotifiedTag, Tag, IsBarrier
  <2>2. PICK v \in GroupView : /\ v.colors = GroupColors(token.group)
                               /\ v.parent = color_groups[token.group].parent_color
    BY <1>1, <1>2, <1>3
  <2>3. EffectOf[t] = "join"
    BY <1>1, <1>7 DEF EffectOf
  <2> QED BY <1>2, <2>1, <2>2, <2>3 DEF CN!Gives
<1>8. CASE Action[t] = "expire"
  <2>1. given = {}
    BY <1>1, <1>2, <1>8 DEF PushOK
  <2>2. EffectOf[t] = "none"
    BY <1>1, <1>8 DEF EffectOf
  <2> QED BY <1>2, <2>1, <2>2 DEF CN!Gives
<1> QED
  BY <1>1, <1>5, <1>6, <1>7, <1>8, NetAssumption DEF PushOK, Actions

\* Where a push that finds all its cells free leaves its tokens.
LEMMA PutsMark ==
    ASSUME IInv, NEW w \in Workers, PushTokens(w), Active(w) # {},
           NEW t, t = Message(w).transition,
           PutsMade(Puts(t, worker[w].new)) = DOMAIN Puts(t, worker[w].new),
           NEW c \in NewColors(w), NEW p \in ToSet(ArcsOut[t])
    PROVE  /\ <<c, p>> \in Cells /\ color_marking[<<c, p>>] = NoToken
           /\ \E i \in DOMAIN worker[w].new :
                 /\ color_marking'[<<c, p>>] = worker[w].new[i]
                 /\ worker[w].new[i] # NoToken
<1>1. PICK new, puts, cell : /\ new = worker[w].new /\ puts = Puts(t, new)
                             /\ cell = <<c, p>>
  OBVIOUS
<1>2. /\ At(w, "push") /\ PutsMade(puts) = DOMAIN puts
      /\ \A i \in DOMAIN new : tokens[new[i]].color # NoColor
      /\ MarkPuts(puts, DOMAIN puts)
  BY <1>1 DEF PushTokens, Inactive, Active
<1>3. new \in Seq(TokenIdxs) /\ ArcsOut[t] \in Seq(Places)
  <2>1. t \in Transitions
    BY <1>2, Notification DEF At
  <2> QED BY <1>1, <2>1, NetAssumption DEF IInv, TypeOK, Worker
<1>4. \E k \in DOMAIN puts : PutCell(puts[k]) = cell
  <2>1. cell \in {PutCell(puts[k]) : k \in DOMAIN puts}
    <3>1. {PutCell(puts[k]) : k \in DOMAIN puts}
              = {tokens[new[i]].color : i \in DOMAIN new} \X ToSet(ArcsOut[t])
      BY <1>1, <1>3, PutsCover
    <3> QED BY <1>1, <3>1 DEF NewColors
  <2> QED BY <2>1
<1>5. PICK k \in DOMAIN puts :
          PutCell(puts[k]) = cell /\ k = CHOOSE j \in DOMAIN puts : PutCell(puts[j]) = cell
  BY <1>4
<1>6. /\ puts[k].place \in Places /\ tokens[puts[k].token].color \in Colors
      /\ Known(tokens, puts[k].token)
      /\ \E n \in Nat : DOMAIN puts = 1 .. n
  BY <1>1, <1>2, PutsTyped
<1>7. cell \in Cells
  BY <1>5, <1>6 DEF PutCell, Cells
<1>8. color_marking[cell] = NoToken
  BY <1>2, <1>5, <1>6 DEF PutsMade
<1>9. color_marking'[cell] = puts[k].token
  BY <1>2, <1>5, <1>7 DEF MarkPuts
<1>10. puts[k].token # NoToken
  BY <1>6 DEF Known, IInv, TypeOK, NoToken
<1>11. \E i \in DOMAIN new : puts[k].token = new[i]
  <2>1. PICK a, n, size : a = Len(ArcsOut[t]) /\ n = Len(new) /\ size = a * n
    OBVIOUS
  <2>2. a \in Nat /\ n \in Nat /\ DOMAIN new = 1 .. n
    BY <1>3, <2>1
  <2>3. /\ puts = [j \in 1 .. size |-> [place |-> ArcsOut[t][((j - 1) \div n) + 1],
                                        token |-> new[((j - 1) % n) + 1]]]
    BY <1>1, <2>1 DEF Puts
  <2>4. PICK i : i = ((k - 1) % n) + 1
    OBVIOUS
  <2>5. k \in 1 .. size /\ puts[k].token = new[i]
    BY <1>5, <2>3, <2>4
  <2>6. i \in DOMAIN new
    BY <2>1, <2>2, <2>4, <2>5, PutIndex
  <2> QED BY <2>5, <2>6
<1> QED BY <1>1, <1>7, <1>8, <1>9, <1>10, <1>11

\* The puts of a push that finds all its cells free.
LEMMA PutsFill ==
    ASSUME RInv, NEW w \in Workers, PushTokens(w), Active(w) # {},
           NEW t, t = Message(w).transition,
           PutsMade(Puts(t, worker[w].new)) = DOMAIN Puts(t, worker[w].new)
    PROVE  /\ (NewColors(w) \X ToSet(ArcsOut[t])) \cap MarkingView = {}
           /\ MarkingView' = MarkingView \cup (NewColors(w) \X ToSet(ArcsOut[t]))
<1> USE DEF RInv
<1>1. PICK new, puts, cells : /\ new = worker[w].new /\ puts = Puts(t, new)
                              /\ cells = NewColors(w) \X ToSet(ArcsOut[t])
  OBVIOUS
<1>2. At(w, "push") /\ MarkPuts(puts, DOMAIN puts)
  BY <1>1 DEF PushTokens, Inactive, Active
<1>3. {PutCell(puts[k]) : k \in DOMAIN puts} = cells
  <2>1. new \in Seq(TokenIdxs) /\ ArcsOut[t] \in Seq(Places)
    BY <1>1, <1>2, Notification, NetAssumption DEF At, IInv, TypeOK, Worker
  <2>2. {PutCell(puts[k]) : k \in DOMAIN puts}
            = {tokens[new[i]].color : i \in DOMAIN new} \X ToSet(ArcsOut[t])
    BY <1>1, <2>1, PutsCover
  <2> QED BY <1>1, <2>2 DEF NewColors
<1>4. \A c \in cells :
          c \in Cells /\ color_marking[c] = NoToken /\ color_marking'[c] # NoToken
  BY <1>1, PutsMark
<1>5. \A c \in Cells : c \notin cells => color_marking'[c] = color_marking[c]
  BY <1>2, <1>3 DEF MarkPuts
<1>6. cells \cap MarkingView = {} /\ MarkingView' = MarkingView \cup cells
  BY <1>4, <1>5 DEF MarkingView
<1> QED BY <1>1, <1>6

LEMMA PushSimulates ==
    ASSUME RInv, PushesWhole, NEW w \in Workers, PushTokens(w)
    PROVE  [CN!AbstractNext]_(CN!avars)
<1> USE DEF RInv
<1>1. PICK t, tag, puts, colors :
          /\ t = Message(w).transition /\ tag = NotifiedTag(w)
          /\ puts = Puts(t, worker[w].new) /\ colors = TagColors(t, tag)
  OBVIOUS
<1>2. /\ At(w, "push") /\ t \in Transitions /\ tag \in Tags
      /\ color_groups' = color_groups /\ deposited' = deposited
  BY <1>1, Notification DEF PushTokens, At, objectVars
<1>3. CASE Active(w) = {}
  <2>1. UNCHANGED <<color_marking, active_tokens>>
    BY <1>3 DEF PushTokens, Inactive, Active, markingVars
  <2> QED BY <1>2, <2>1, Unseen
<1>4. CASE Active(w) # {} /\ PutsMade(puts) # DOMAIN puts
  <2>1. PutsMade(puts) = {}
    <3>1. Pushing(w) /\ puts = WorkerPuts(w)
      BY <1>1, <1>2, <1>4 DEF Pushing, WorkerPuts, PushTokens
    <3> QED BY <1>4, <3>1 DEF PushesWhole
  <2>2. active_tokens' = active_tokens /\ MarkPuts(puts, {})
    BY <1>1, <1>4, <2>1 DEF PushTokens, Inactive, Active
  <2>3. color_marking' = color_marking
    BY <2>2 DEF MarkPuts, IInv, TypeOK
  <2> QED BY <1>2, <2>2, <2>3, Unseen
<1>5. CASE Active(w) # {} /\ PutsMade(puts) = DOMAIN puts
  <2>1. PICK given, pushed : /\ given = NewColors(w)
                             /\ pushed = given \X ToSet(ArcsOut[t])
    OBVIOUS
  <2>2. pushed \cap MarkingView = {} /\ MarkingView' = MarkingView \cup pushed
    BY <1>1, <1>5, <2>1, PutsFill
  <2>3. given \in CN!Gives(t, colors)
    BY <1>1, <1>2, <1>5, <2>1, PushedIsGiven
  <2>4. active_tokens' = [active_tokens EXCEPT ![t][tag] = {}]
    BY <1>1, <1>5 DEF PushTokens, Inactive, Active, ActiveCleared
  <2>5. /\ active_tokens'[t][tag] = {}
        /\ \A u \in Transitions, g \in Tags :
              u # t \/ g # tag => active_tokens'[u][g] = active_tokens[u][g]
    BY <1>2, <2>4 DEF IInv, TypeOK
  <2>6. \A u, g : TagColors(u, g)' = TagColors(u, g)
    BY <1>2, SameTags
  <2>7. active_tokens[t][tag] # {} /\ tag \in LiveTags(t)
    BY <1>1, <1>2, <1>5 DEF Active, ActiveTagged
  <2>8. <<t, colors>> \in FiringView
    BY <1>1, <1>2, <2>7, FiringIs
  <2>9. colors \in SUBSET Colors
    BY <1>1, <1>2, <2>7, LiveTag
  <2>10. FiringView' = FiringView \ {<<t, colors>>}
    <3>1. <<t, colors>> \notin FiringView'
      BY <1>1, <1>2, <2>5, <2>6, <2>7, FiringIsNext, OneFiring
    <3>2. ASSUME NEW x \in FiringView, x # <<t, colors>>
          PROVE  x \in FiringView'
      BY <1>1, <2>5, <2>6, <3>2, FiringIs, FiringIsNext
    <3>3. ASSUME NEW x \in FiringView'
          PROVE  x \in FiringView
      BY <2>5, <2>6, FiringIs, FiringIsNext
    <3> QED BY <3>1, <3>2, <3>3
  <2>11. /\ GroupView' = GroupView
         /\ (RequestedCells \ deposited)' = RequestedCells \ deposited
    BY <1>2 DEF GroupView, GroupColors, RequestedCells
  <2>12. CN!End(t, colors)
    BY <1>2, <2>1, <2>2, <2>3, <2>8, <2>10, <2>11 DEF CN!End
  <2> QED BY <1>2, <2>9, <2>12 DEF CN!AbstractNext
<1> QED BY <1>3, <1>4, <1>5

\* The steps that the coloured net does not see.
LEMMA OthersUnseen ==
    ASSUME NEW w \in Workers,
           \/ Receive(w) \/ Crash(w) \/ Publish(w) \/ Ack(w) \/ CreateToken(w)
           \/ PutTokenFails(w) \/ NotifyPlace(w) \/ PushFails(w)
           \/ FireCount(w) \/ FireHeadFails(w) \/ FireSingle(w) \/ FireMerge(w)
           \/ FireRemoveData(w) \/ FireRecordTime(w) \/ FireJoin(w) \/ FireExpire(w)
           \/ FireNotImplemented(w)
    PROVE  UNCHANGED CN!avars
<1>1. UNCHANGED <<color_marking, color_groups, active_tokens, deposited>>
  BY DEF Receive, Crash, Publish, Ack, CreateToken, PutTokenFails, NotifyPlace,
         PushFails, FireCount, FireHeadFails, FireSingle, FireMerge, FireRemoveData,
         FireRecordTime, FireJoin, FireExpire, FireNotImplemented, markingVars,
         objectVars, transitionVars
<1> QED BY <1>1, Unseen

LEMMA StepSimulates ==
    ASSUME RInv, RInv', PushesWhole, [Next]_vars
    PROVE  [CN!AbstractNext]_(CN!avars)
<1>1. CASE UNCHANGED vars
  <2>1. UNCHANGED <<color_marking, color_groups, active_tokens, deposited>>
    BY <1>1 DEF vars, markingVars, objectVars, transitionVars
  <2> QED BY <2>1, Unseen
<1>2. ASSUME NEW w \in Workers, FireSplit(w)
      PROVE  CN!AbstractNext
  BY <1>2, SplitSimulates DEF RInv
<1>3. ASSUME NEW w \in Workers, Receive(w) \/ Handle(w) \/ Crash(w)
      PROVE  [CN!AbstractNext]_(CN!avars)
  BY <1>2, <1>3, PutTokenSimulates, ConsumeSimulates, PushSimulates, OthersUnseen
     DEF Handle, Fire
<1> QED BY <1>1, <1>3 DEF Next

LEMMA InitSimulates ==
    ASSUME Init
    PROVE  CN!AbstractInit
<1>1. /\ color_groups = GroupsAtStart /\ deposited = {}
      /\ \A c \in Cells : color_marking[c] = NoToken
      /\ \A t \in Transitions, tag \in Tags : active_tokens[t][tag] = {}
  BY DEF Init
<1>2. MarkingView = {} /\ FiringView = {}
  BY <1>1 DEF MarkingView, FiringView
<1>3. GroupView = {[colors |-> GroupsAtStart[g].begin .. GroupsAtStart[g].end - 1,
                    parent |-> NoColor] : g \in DOMAIN GroupsAtStart}
  <2>1. ASSUME NEW g \in DOMAIN GroupsAtStart
        PROVE  GroupsAtStart[g].parent_color = NoColor
    <3>1. GroupsAtStart[g] \in [begin : 0 .. MaxColors, end : 0 .. MaxColors,
                                parent_color : {NoColor}, parent_group : {NoGroup}]
      BY ElementOf, GroupsAssumption
    <3> QED BY <3>1
  <2> QED BY <1>1, <2>1 DEF GroupView, GroupColors
<1> QED BY <1>1, <1>2, <1>3 DEF CN!AbstractInit

\* What a handler is about to push replaces, color by color, what its transition
\* took, although the action that made it read the active set and the groups at
\* other times than consume_tokens wrote them; and no request's token is put twice.
THEOREM PushInvariance ==
    ASSUME PutsOnce, OneRequestForEachCell
    PROVE  Spec /\ []FiredOnce => []RInv
<1>1. Init => RInv
  BY InitEstablishes, InitKeeps
<1>2. RInv /\ FiredOnce /\ [Next]_vars => RInv'
  BY StepKeeps
<1> QED BY <1>1, <1>2, PTL DEF Spec

\* The engine implements the coloured net, whatever the net's shape, the number of
\* workers and the order of their steps, and wherever else processes crash: a
\* request deposits one token, a firing takes all its tokens in one step and
\* replaces them in another, once.  The hypotheses are what the code leaves to the
\* net: consume_tokens_basic.lua never resets enablers, and push_tokens.lua does not
\* undo the puts it made before it found a cell taken.
THEOREM EngineImplementsNet ==
    ASSUME PutsOnce, OneRequestForEachCell
    PROVE  Spec /\ []FiredOnce /\ []PushesWhole => ImplementsNet
<1>1. Init => CN!AbstractInit
  BY InitSimulates
<1>2. RInv /\ RInv' /\ PushesWhole /\ [Next]_vars => [CN!AbstractNext]_(CN!avars)
  BY StepSimulates
<1> QED
  BY <1>1, <1>2, PushInvariance, PTL DEF Spec, ImplementsNet, CN!AbstractSpec

-----------------------------------------------------------------------------
(* What the tokens carry.                                                  *)

\* The steps that are no action of a transition.
LEMMA OtherMoves ==
    ASSUME IInv, IInv', NEW w \in Workers,
           \/ Receive(w) \/ Crash(w) \/ CreateToken(w) \/ PutToken(w) \/ PutTokenFails(w)
           \/ NotifyPlace(w) \/ ConsumeTokens(w) \/ PushFails(w) \/ PushTokens(w)
           \/ Publish(w) \/ Ack(w)
    PROVE  /\ Grow
           /\ \A v \in Workers : v # w => worker'[v] = worker[v]
           /\ worker'[w].pc \notin {"counted", "push"}
<1>1. Grow
  <2>1. CASE CreateToken(w)
    BY <2>1, OneTokenGrows DEF CreateToken
  <2>2. CASE ConsumeTokens(w)
    BY <2>2, ConsumeFacts, SameTokensGrow
  <2>3. CASE ~CreateToken(w) /\ ~ConsumeTokens(w)
    <3>1. tokens' = tokens
      BY <2>3 DEF Receive, Crash, PutToken, PutTokenFails, NotifyPlace, PushFails,
                  PushTokens, Publish, Ack, objectVars
    <3> QED BY <3>1, SameTokensGrow
  <2> QED BY <2>1, <2>2, <2>3
<1>2. \/ \E m \in Messages :
            worker' = [worker EXCEPT ![w].pc = FirstStep[m.type], ![w].msg = m]
      \/ worker' = [worker EXCEPT ![w] = Idle]
      \/ \E new : worker' = [worker EXCEPT ![w].pc = "put", ![w].new = new]
      \/ \E msgs : PublishAll(w, msgs)
      \/ Goto(w, "read") \/ Goto(w, "fire")
      \/ At(w, "publish") /\ worker' = [worker EXCEPT ![w].outbox = Tail(@)]
  <2>1. CASE Receive(w) \/ Crash(w) \/ Publish(w) \/ Ack(w)
    BY <2>1 DEF Receive, Crash, Publish, Ack
  <2>2. CASE CreateToken(w) \/ PutToken(w) \/ PutTokenFails(w) \/ PushFails(w)
    BY <2>2 DEF CreateToken, PutToken, PutTokenFails, PushFails, Fail
  <2>3. CASE NotifyPlace(w) \/ PushTokens(w)
    BY <2>3 DEF NotifyPlace, PushTokens
  <2>4. CASE ConsumeTokens(w)
    BY <2>4 DEF ConsumeTokens, ConsumeRemaining, ConsumeWaiting, ConsumeEnabledByOther,
                ConsumeAlreadyActive, ConsumeIncomplete, ConsumeEnabled
  <2> QED BY <2>1, <2>2, <2>3, <2>4
<1>3. /\ \A v \in Workers : v # w => worker'[v] = worker[v]
      /\ worker'[w].pc \notin {"counted", "push"}
  <2>1. \A m \in Messages : FirstStep[m.type] \in {"create", "read", "consume"}
    BY MessageTypes DEF FirstStep
  <2>2. Idle.pc = "idle"
    BY DEF Idle
  <2>3. worker \in [Workers -> Worker]
    BY DEF IInv, TypeOK
  <2>4. CASE \E m \in Messages :
                worker' = [worker EXCEPT ![w].pc = FirstStep[m.type], ![w].msg = m]
    BY <2>1, <2>3, <2>4 DEF Worker
  <2>5. CASE worker' = [worker EXCEPT ![w] = Idle]
    BY <2>2, <2>3, <2>5
  <2>6. CASE \/ \E new : worker' = [worker EXCEPT ![w].pc = "put", ![w].new = new]
             \/ \E msgs : PublishAll(w, msgs)
    BY <2>3, <2>6 DEF PublishAll, Worker
  <2>7. CASE \/ Goto(w, "read") \/ Goto(w, "fire")
             \/ At(w, "publish") /\ worker' = [worker EXCEPT ![w].outbox = Tail(@)]
    BY <2>3, <2>7 DEF Goto, At, Worker
  <2> QED BY <1>2, <2>4, <2>5, <2>6, <2>7
<1> QED BY <1>1, <1>3

LEMMA PassedOnKept ==
    ASSUME IInv, Grow, NEW t, NEW active, \A i \in active : i \in DOMAIN tokens
    PROVE  PassedOn(t, active)' = PassedOn(t, active)
BY DEF PassedOn, Grow

\* A handler that does not take the step.
LEMMA OtherDataKept ==
    ASSUME IInv, Grow, NEW v \in Workers, worker'[v] = worker[v], DataOK(v),
           worker[v].pc \in {"counted", "push"} => Active(v)' \in {{}, Active(v)}
    PROVE  DataOK(v)'
<1>1. CASE worker[v].pc \in {"counted", "push"} /\ Active(v)' # {}
  <2>1. PICK t, active : t = Message(v).transition /\ active = Active(v)
    OBVIOUS
  <2>2. Message(v)' = Message(v) /\ Active(v)' = active
    BY <1>1, <2>1, NotificationKept
  <2>3. PassedOn(t, active)' = PassedOn(t, active)
    BY <1>1, <2>1, ActiveTokens, PassedOnKept DEF Known
  <2>4. At(v, "push") => \A i \in DOMAIN worker[v].new :
            tokens'[worker[v].new[i]] = tokens[worker[v].new[i]]
    BY DEF At, IInv, WorkersInv, WorkerOK, Grow
  <2>5. /\ At(v, "counted") =>
              /\ worker'[v].count = Cardinality(active)
              /\ Action[t] = "remove_data" => worker'[v].count = 1
        /\ At(v, "push") /\ MakesData(t) =>
              \A i \in DOMAIN worker'[v].new :
                  tokens'[worker'[v].new[i]].data = PassedOn(t, active)'
    BY <1>1, <2>1, <2>2, <2>3, <2>4 DEF DataOK
  <2> QED BY <2>1, <2>2, <2>5 DEF DataOK, At
<1>2. CASE worker[v].pc \notin {"counted", "push"} \/ Active(v)' = {}
  BY <1>2 DEF DataOK, At
<1> QED BY <1>1, <1>2

\* Active tokens stay what they are until they are pushed: what was enabled consumes
\* nothing more.
LEMMA ActiveStays ==
    ASSUME RInv, FiredOnce, NEW w \in Workers, Receive(w) \/ Handle(w) \/ Crash(w),
           NEW t \in Transitions, NEW tag \in Tags, enablers[t][tag] # NoPlace
    PROVE  active_tokens'[t][tag] \in {{}, active_tokens[t][tag]}
<1> USE DEF RInv
<1>1. CASE ~ConsumeEnabled(w) /\ ~PushTokens(w)
  <2>1. active_tokens' = active_tokens
    BY <1>1 DEF Receive, Crash, Handle, ConsumeTokens, Fire, Publish, Ack, CreateToken,
         PutToken, PutTokenFails, NotifyPlace, PushFails, ConsumeRemaining,
         ConsumeWaiting, ConsumeEnabledByOther, ConsumeAlreadyActive, ConsumeIncomplete,
         FireCount, FireHeadFails, FireSingle, FireMerge, FireRemoveData, FireRecordTime,
         FireSplit, FireJoin, FireExpire, FireNotImplemented, transitionVars
  <2> QED BY <2>1
<1>2. CASE PushTokens(w)
  <2>1. PICK u, g : u = Message(w).transition /\ g = NotifiedTag(w)
    OBVIOUS
  <2>2. u \in Transitions /\ g \in Tags
    BY <1>2, <2>1, Notification DEF PushTokens, At
  <2>3. active_tokens' = active_tokens \/ ActiveCleared(u, g)
    BY <1>2, <2>1 DEF PushTokens
  <2>4. ActiveCleared(u, g) => \A x \in Transitions, y \in Tags :
            active_tokens'[x][y] \in {{}, active_tokens[x][y]}
    BY <2>2 DEF ActiveCleared, IInv, TypeOK
  <2> QED BY <2>3, <2>4
<1>3. CASE ConsumeEnabled(w)
  <2>1. PICK u, g : u = Message(w).transition /\ g = NotifiedTag(w)
    OBVIOUS
  <2>2. u \in Transitions /\ g \in LiveTags(u) /\ g \in Tags
    BY <1>3, <2>1, NotifiedLive DEF ConsumeEnabled, Notified
  <2>3. CASE active_tokens' = active_tokens
    BY <2>3
  <2>4. CASE TakesAll(w, u, g)
    <3>1. PICK taken : /\ active_tokens[u][g] = {}
                       /\ \A p \in ArcsIn[u] : Full(u, g, p)
                       /\ active_tokens' = [active_tokens EXCEPT ![u][g] = taken]
      BY <2>4 DEF TakesAll
    <3>2. enablers[u][g] = NoPlace
      BY <2>2, <3>1 DEF FiredOnce
    <3> QED BY <2>2, <3>1, <3>2 DEF IInv, TypeOK
  <2> QED BY <1>3, <2>1, <2>3, <2>4, EnabledTakes
<1> QED BY <1>1, <1>2, <1>3

\* It is enough to look at the handler that takes the step.
LEMMA DataStep ==
    ASSUME DInv, FiredOnce, Grow, NEW w \in Workers, Receive(w) \/ Handle(w) \/ Crash(w),
           \A v \in Workers : v # w => worker'[v] = worker[v],
           DataOK(w)'
    PROVE  DataInv'
<1> USE DEF DInv
<1>1. ASSUME NEW v \in Workers, v # w, worker[v].pc \in {"counted", "push"}
      PROVE  Active(v)' \in {{}, Active(v)}
  <2>1. PICK t, tag : t = Message(v).transition /\ tag = NotifiedTag(v)
    OBVIOUS
  <2>2. t \in Transitions /\ tag \in Tags /\ enablers[t][tag] # NoPlace
    BY <1>1, <2>1, Notification DEF RInv, FiringInv, FireOK
  <2>3. Active(v) = active_tokens[t][tag] /\ Active(v)' = active_tokens'[t][tag]
    BY <1>1, <2>1, NotificationKept DEF RInv, Active
  <2> QED BY <2>2, <2>3, ActiveStays
<1>2. ASSUME NEW v \in Workers, v # w
      PROVE  DataOK(v)'
  BY <1>1, <1>2, OtherDataKept DEF RInv, DataInv
<1> QED BY <1>2 DEF DataInv

\* The action returned one token, which has the data to be passed on.
LEMMA OneDatum ==
    ASSUME IInv, Grow, NEW w \in Workers, worker[w].pc \in {"fire", "counted"},
           active_tokens' = active_tokens, NEW i, Executed(w, <<i>>),
           Active(w) # {} => tokens'[i].data = PassedOn(Message(w).transition, Active(w))
    PROVE  DataOK(w)'
<1>1. PICK new : new = <<i>> /\ Executed(w, new)
  OBVIOUS
<1>2. \A k \in DOMAIN new : new[k] = i
  BY <1>1
<1>3. worker'[w].pc = "push" /\ worker'[w].msg = worker[w].msg /\ worker'[w].new = new
  BY <1>1, ExecutedGives
<1>4. PICK t, active : t = Message(w).transition /\ active = Active(w)
  OBVIOUS
<1>5. Message(w)' = Message(w) /\ Active(w)' = active
  BY <1>3, <1>4, NotificationKept DEF Active
<1>6. PassedOn(t, active)' = PassedOn(t, active)
  BY <1>4, ActiveTokens, PassedOnKept DEF Known
<1>7. Active(w)' # {} => \A k \in DOMAIN worker'[w].new :
          tokens'[worker'[w].new[k]].data = PassedOn(t, active)'
  BY <1>2, <1>3, <1>4, <1>5, <1>6
<1> QED BY <1>3, <1>4, <1>5, <1>7 DEF DataOK, At

\* An active set of one token.
LEMMA LoneToken ==
    ASSUME IInv, NEW w \in Workers, At(w, "counted"), DataOK(w), worker[w].count = 1,
           NEW i \in Active(w)
    PROVE  Active(w) = {i}
<1>1. Cardinality(Active(w)) = 1
  BY DEF DataOK
<1>2. IsFiniteSet(Active(w))
  BY ActiveTokens DEF At
<1>3. \E x : Active(w) = {x}
  BY <1>1, <1>2, FS_Singleton
<1> QED BY <1>3

LEMMA FireCountData ==
    ASSUME DInv, NEW w \in Workers, FireCount(w)
    PROVE  DataOK(w)'
<1> USE DEF DInv, RInv
<1>1. CASE Fail(w)
  <2>1. worker'[w].pc = "idle"
    BY <1>1, FailMoves DEF IInv
  <2> QED BY <2>1 DEF DataOK, At
<1>2. CASE ~Fail(w)
  <2>1. PICK t, active : t = Message(w).transition /\ active = Active(w)
    OBVIOUS
  <2>2. /\ worker[w].pc = "fire"
        /\ worker' = [worker EXCEPT ![w].pc = "counted", ![w].count = Cardinality(active)]
        /\ Action[t] = "remove_data" => Cardinality(active) = 1
    BY <1>2, <2>1 DEF FireCount, Firing, At
  <2>3. /\ worker'[w].pc = "counted" /\ worker'[w].msg = worker[w].msg
        /\ worker'[w].count = Cardinality(active)
    BY <2>2 DEF IInv, TypeOK, Worker
  <2>4. tokens' = tokens /\ active_tokens' = active_tokens
    BY SimpleFire DEF Fired
  <2>5. Message(w)' = Message(w) /\ Active(w)' = active
    BY <2>1, <2>2, <2>3, <2>4, NotificationKept, SameTokensGrow DEF Active
  <2> QED BY <2>1, <2>2, <2>3, <2>5 DEF DataOK, At
<1> QED BY <1>1, <1>2

LEMMA FireSingleData ==
    ASSUME DInv, NEW w \in Workers, FireSingle(w)
    PROVE  DataOK(w)'
<1> USE DEF DInv, RInv
<1>1. PICK t : t = Message(w).transition
  OBVIOUS
<1>2. PICK i \in Active(w) : Executed(w, <<i>>)
  BY DEF FireSingle
<1>3. At(w, "counted") /\ worker[w].count = 1 /\ Action[t] = "merge"
  BY <1>1 DEF FireSingle
<1>4. Active(w) = {i}
  BY <1>3, LoneToken DEF DataInv
<1>5. tokens' = tokens /\ active_tokens' = active_tokens /\ Grow
  BY SimpleFire, SameTokensGrow DEF Fired
<1>6. tokens'[i].data = PassedOn(t, Active(w))
  BY <1>3, <1>4, <1>5 DEF PassedOn
<1> QED BY <1>1, <1>2, <1>3, <1>5, <1>6, OneDatum DEF At

LEMMA FireMergeData ==
    ASSUME DInv, IInv', NEW w \in Workers, FireMerge(w)
    PROVE  DataOK(w)'
<1> USE DEF DInv, RInv
<1>1. PICK t, data, token : /\ t = Message(w).transition
                            /\ data = MergedData(Active(w))
                            /\ token = NotifiedToken(w)
  OBVIOUS
<1>2. CASE Conflicting(data)
  <2>1. worker'[w].pc = "idle"
    BY <1>1, <1>2, FailMoves DEF FireMerge, IInv
  <2> QED BY <2>1 DEF DataOK, At
<1>3. CASE ~Conflicting(data)
  <2>1. PICK merged : merged = NewToken(token.color, token.group, data)
    OBVIOUS
  <2>2. /\ At(w, "counted") /\ worker[w].count # 1
        /\ tokens' = Append(tokens, merged) /\ Len(tokens) < MaxTokens
        /\ Executed(w, <<Len(tokens) + 1>>)
    BY <1>1, <1>3, <2>1 DEF FireMerge
  <2>3. active_tokens' = active_tokens /\ Grow
    BY <2>2, MakingFire, OneTokenGrows DEF Fired
  <2>4. tokens'[Len(tokens) + 1].data = data
    BY <2>1, <2>2, Appended DEF NewToken
  <2>5. Active(w) # {} => Action[t] = "merge"
    BY <1>1, <2>2 DEF DataInv, DataOK, FiringInv, FireOK
  <2>6. Active(w) # {} => data = PassedOn(t, Active(w))
    BY <1>1, <2>5 DEF PassedOn, MergedData
  <2> QED BY <1>1, <2>2, <2>3, <2>4, <2>6, OneDatum DEF At
<1> QED BY <1>2, <1>3

LEMMA FireRemoveDataData ==
    ASSUME DInv, IInv', NEW w \in Workers, FireRemoveData(w)
    PROVE  DataOK(w)'
<1> USE DEF DInv, RInv
<1>1. PICK t, token : t = Message(w).transition /\ token = NotifiedToken(w)
  OBVIOUS
<1>2. PICK i, kept :
          /\ i \in Active(w)
          /\ kept = {d \in tokens[i].data : d[1] \notin RemovedFields[t]}
          /\ tokens' = Append(tokens, NewToken(token.color, token.group, kept))
  BY <1>1 DEF FireRemoveData
<1>3. /\ At(w, "counted") /\ Action[t] = "remove_data" /\ Len(tokens) < MaxTokens
      /\ Executed(w, <<Len(tokens) + 1>>)
  BY <1>1 DEF FireRemoveData
<1>4. active_tokens' = active_tokens /\ Grow
  BY <1>2, MakingFire, OneTokenGrows DEF Fired
<1>5. tokens'[Len(tokens) + 1].data = kept
  BY <1>2, <1>3, Appended DEF NewToken
<1>6. worker[w].count = 1
  BY <1>1, <1>2, <1>3 DEF DataInv, DataOK
<1>7. Active(w) = {i}
  BY <1>2, <1>3, <1>6, LoneToken DEF DataInv
<1>8. kept = PassedOn(t, Active(w))
  BY <1>2, <1>3, <1>7 DEF PassedOn
<1> QED BY <1>1, <1>3, <1>4, <1>5, <1>8, OneDatum DEF At

\* The actions that make no data, and those that raise.
LEMMA FireOtherData ==
    ASSUME DInv, IInv', NEW w \in Workers,
           \/ FireRecordTime(w) \/ FireSplit(w) \/ FireJoin(w) \/ FireExpire(w)
           \/ FireHeadFails(w) \/ FireNotImplemented(w)
    PROVE  DataOK(w)'
<1> USE DEF DInv, RInv
<1>1. CASE FireHeadFails(w) \/ FireNotImplemented(w)
  <2>1. worker'[w].pc = "idle"
    BY <1>1, FailMoves DEF FireHeadFails, FireNotImplemented, IInv
  <2> QED BY <2>1 DEF DataOK, At
<1>2. CASE FireRecordTime(w) \/ FireSplit(w) \/ FireJoin(w) \/ FireExpire(w)
  <2>1. /\ ~MakesData(Message(w).transition)
        /\ \E new : Executed(w, new)
    BY <1>2 DEF FireRecordTime, FireSplit, FireJoin, FireExpire, Firing, MakesData
  <2>2. worker'[w].pc = "push" /\ worker'[w].msg = worker[w].msg
    BY <2>1, ExecutedGives
  <2> QED BY <2>1, <2>2 DEF DataOK, At, Message, MakesData
<1> QED BY <1>1, <1>2

LEMMA FireGrows ==
    ASSUME IInv, IInv', NEW w \in Workers, Fire(w)
    PROVE  Fired(w) /\ Grow
<1>1. CASE FireMerge(w) \/ FireRemoveData(w) \/ FireJoin(w)
  BY <1>1, MakingFire, OneTokenGrows
<1>2. CASE FireSplit(w)
  BY <1>2, SplitFire
<1>3. CASE \/ FireCount(w) \/ FireHeadFails(w) \/ FireSingle(w) \/ FireRecordTime(w)
           \/ FireExpire(w) \/ FireNotImplemented(w)
  BY <1>3, SimpleFire, SameTokensGrow
<1> QED BY <1>1, <1>2, <1>3 DEF Fire

LEMMA StepPassesData ==
    ASSUME PutsOnce, OneRequestForEachCell, DInv, FiredOnce, [Next]_vars
    PROVE  DInv'
<1> USE DEF DInv
<1>1. RInv' /\ IInv /\ IInv'
  BY StepKeeps DEF RInv
<1>2. CASE UNCHANGED vars
  <2>1. worker' = worker /\ tokens' = tokens /\ active_tokens' = active_tokens
    BY <1>2 DEF vars, objectVars, transitionVars
  <2>2. \A w \in Workers : Active(w)' = Active(w)
    BY <2>1 DEF Active, Message, NotifiedTag, NotifiedToken, Tag, IsBarrier
  <2>3. \A w \in Workers : DataOK(w)'
    BY <1>1, <2>1, <2>2, SameTokensGrow, OtherDataKept DEF DataInv
  <2> QED BY <1>1, <2>3 DEF DataInv
<1>3. ASSUME NEW w \in Workers, Fire(w)
      PROVE  DataInv'
  <2>1. DataOK(w)'
    BY <1>1, <1>3, FireCountData, FireSingleData, FireMergeData, FireRemoveDataData,
       FireOtherData DEF Fire
  <2> QED BY <1>1, <1>3, <2>1, FireGrows, DataStep DEF Handle, Fired
<1>4. ASSUME NEW w \in Workers, Receive(w) \/ Handle(w) \/ Crash(w), ~Fire(w)
      PROVE  DataInv'
  <2>1. /\ Grow /\ \A v \in Workers : v # w => worker'[v] = worker[v]
        /\ worker'[w].pc \notin {"counted", "push"}
    BY <1>1, <1>4, OtherMoves DEF Handle
  <2>2. DataOK(w)'
    BY <2>1 DEF DataOK, At
  <2> QED BY <1>4, <2>1, <2>2, DataStep
<1> QED BY <1>1, <1>2, <1>3, <1>4 DEF Next, Handle

\* Only push_tokens gives up what a transition has in hand.
LEMMA PushEnds ==
    ASSUME IInv, NEW w \in Workers, Receive(w) \/ Handle(w) \/ Crash(w),
           NEW t \in Transitions, NEW tag \in Tags, Ends(t, tag)
    PROVE  /\ PushTokens(w) /\ Active(w) # {}
           /\ t = Message(w).transition /\ tag = NotifiedTag(w)
           /\ PutsMade(Puts(t, worker[w].new)) = DOMAIN Puts(t, worker[w].new)
<1>1. active_tokens' # active_tokens
  BY DEF Ends
<1>2. PICK u, g : u = Message(w).transition /\ g = NotifiedTag(w)
  OBVIOUS
<1>3. ~ConsumeEnabled(w)
  <2>1. SUFFICES ASSUME ConsumeEnabled(w)
                 PROVE  FALSE
    OBVIOUS
  <2>2. u \in Transitions /\ g \in Tags
    BY <1>2, <2>1, Notification DEF ConsumeEnabled, Notified, At
  <2>3. TakesAll(w, u, g)
    BY <1>2, <2>1, NeverGivesUp
  <2>4. PICK taken : /\ active_tokens[u][g] = {}
                     /\ active_tokens' = [active_tokens EXCEPT ![u][g] = taken]
    BY <2>3 DEF TakesAll
  <2> QED BY <2>2, <2>4 DEF Ends, IInv, TypeOK
<1>4. PushTokens(w)
  BY <1>1, <1>3 DEF Receive, Crash, Handle, ConsumeTokens, Fire, Publish, Ack,
         CreateToken, PutToken, PutTokenFails, NotifyPlace, PushFails, ConsumeRemaining,
         ConsumeWaiting, ConsumeEnabledByOther, ConsumeAlreadyActive, ConsumeIncomplete,
         FireCount, FireHeadFails, FireSingle, FireMerge, FireRemoveData, FireRecordTime,
         FireSplit, FireJoin, FireExpire, FireNotImplemented, transitionVars
<1>5. u \in Transitions /\ g \in Tags
  BY <1>2, <1>4, Notification DEF PushTokens, At
<1>6. /\ active_tokens[u][g] # {}
      /\ PutsMade(Puts(u, worker[w].new)) = DOMAIN Puts(u, worker[w].new)
      /\ ActiveCleared(u, g)
  BY <1>1, <1>2, <1>4 DEF PushTokens, Inactive
<1>7. u = t /\ g = tag
  BY <1>5, <1>6 DEF ActiveCleared, Ends, IInv, TypeOK
<1> QED BY <1>2, <1>4, <1>6, <1>7 DEF Active

LEMMA EndCarriesOn ==
    ASSUME DInv, NEW w \in Workers, Receive(w) \/ Handle(w) \/ Crash(w),
           NEW t \in Transitions, NEW tag \in Tags, Ends(t, tag), MakesData(t)
    PROVE  CarriesOn(t, tag)
<1> USE DEF DInv, RInv
<1>1. /\ PushTokens(w) /\ Active(w) # {}
      /\ t = Message(w).transition /\ tag = NotifiedTag(w)
      /\ PutsMade(Puts(t, worker[w].new)) = DOMAIN Puts(t, worker[w].new)
  BY PushEnds
<1>2. At(w, "push") /\ tokens' = tokens
  BY <1>1 DEF PushTokens, objectVars
<1>3. ~IsBarrier(t)
  BY ActionAssumption DEF MakesData, IsBarrier
<1>4. tag = NotifiedToken(w).color
  BY <1>1, <1>3 DEF NotifiedTag, Tag
<1>5. NewColors(w) = {tag}
  BY <1>1, <1>2, <1>4 DEF PushInv, PushOK, MakesData
<1>6. \A i \in DOMAIN worker[w].new :
          tokens[worker[w].new[i]].data = PassedOn(t, active_tokens[t][tag])
  BY <1>1, <1>2 DEF DataInv, DataOK, Active
<1>7. ASSUME NEW i \in DOMAIN ArcsOut[t], NEW cell, cell = <<tag, ArcsOut[t][i]>>
      PROVE  /\ color_marking[cell] = NoToken
             /\ color_marking'[cell] # NoToken
             /\ tokens'[color_marking'[cell]].data = PassedOn(t, active_tokens[t][tag])
  <2>1. ArcsOut[t][i] \in ToSet(ArcsOut[t]) /\ tag \in NewColors(w)
    BY <1>5 DEF ToSet
  <2>2. /\ color_marking[cell] = NoToken
        /\ \E k \in DOMAIN worker[w].new :
              color_marking'[cell] = worker[w].new[k] /\ worker[w].new[k] # NoToken
    BY <1>1, <1>7, <2>1, PutsMark
  <2> QED BY <1>2, <1>6, <2>2
<1> QED BY <1>7 DEF CarriesOn

\* What a handler has counted or made of the active set stays true of it for as long as
\* there is one, although other handlers of the firing act on the same set.
THEOREM DataInvariance ==
    ASSUME PutsOnce, OneRequestForEachCell
    PROVE  Spec /\ []FiredOnce => []DInv
<1>1. Init => DInv
  <2>1. Init => RInv
    BY InitEstablishes, InitKeeps
  <2>2. Init => \A w \in Workers : worker[w].pc = "idle"
    BY DEF Init, Idle
  <2>3. Init => DataInv
    BY <2>2 DEF DataInv, DataOK, At
  <2> QED BY <2>1, <2>3 DEF DInv
<1>2. DInv /\ FiredOnce /\ [Next]_vars => DInv'
  BY StepPassesData
<1> QED BY <1>1, <1>2, PTL DEF Spec

\* The token that replaces those a transition consumed carries their data, but the
\* fields to be removed: merge and remove_data act on the set that is then pushed,
\* whichever of the handlers of the firing pushes.
THEOREM DataIsPassedOn ==
    ASSUME PutsOnce, OneRequestForEachCell
    PROVE  Spec /\ []FiredOnce => DataPassesOn
<1>1. DInv /\ [Next]_vars =>
          [\A t \in Transitions, tag \in Tags :
              Ends(t, tag) /\ MakesData(t) => CarriesOn(t, tag)]_vars
  <2>1. SUFFICES ASSUME DInv, Next
                 PROVE  \A t \in Transitions, tag \in Tags :
                            Ends(t, tag) /\ MakesData(t) => CarriesOn(t, tag)
    OBVIOUS
  <2> QED BY <2>1, EndCarriesOn DEF Next
<1> QED BY <1>1, DataInvariance, PTL DEF Spec, DataPassesOn

-----------------------------------------------------------------------------
(* What was begun is finished.                                             *)

\* What is about the enabler stays so as long as the enabler stays what it is.
LEMMA AboutKept ==
    ASSUME IInv, Grow, NEW m, NEW t, NEW tag, AboutEnabler(m, t, tag),
           enablers'[t][tag] = enablers[t][tag]
    PROVE  AboutEnabler(m, t, tag)'
<1>1. Known(tokens', m.token) /\ tokens'[m.token] = tokens[m.token]
  BY KnownGrows DEF AboutEnabler, Known, Grow, IInv
<1> QED BY <1>1 DEF AboutEnabler, Tag, IsBarrier

\* Only the handler that moves can take an answer away.
LEMMA AnsweredFrame ==
    ASSUME NEW w \in Workers, \A v \in Workers : v # w => worker'[v] = worker[v],
           NEW m, Answered(m),
           dead_letters[m] > 0 => dead_letters'[m] > 0,
           queue[m] > 0 /\ ~IsBarrier(m.transition) =>
              queue'[m] > 0 \/ Answers(worker'[w], m),
           Answers(worker[w], m) => Answered(m)'
    PROVE  Answered(m)'
<1>1. CASE dead_letters[m] > 0 \/ (queue[m] > 0 /\ ~IsBarrier(m.transition))
  BY <1>1 DEF Answered, Answers, IsBarrier
<1>2. ASSUME NEW v \in Workers, Answers(worker[v], m)
      PROVE  Answered(m)'
  <2>1. CASE v = w
    BY <1>2, <2>1
  <2>2. CASE v # w
    <3>1. Answers(worker[v], m)'
      BY <1>2, <2>2 DEF Answers, IsBarrier
    <3> QED BY <3>1 DEF Answered
  <2> QED BY <2>1, <2>2
<1> QED BY <1>1, <1>2 DEF Answered

\* Where nothing becomes active, what matters is what the handler that moves does to
\* the active tokens it answers for.
LEMMA FinishStep ==
    ASSUME FInv, IInv', Grow, NEW w \in Workers,
           \A v \in Workers : v # w => worker'[v] = worker[v],
           worker'[w].pc = "counted" => ~IsBarrier(Message(w)'.transition),
           \A t \in Transitions, tag \in Tags :
              active_tokens'[t][tag] # {} =>
                 /\ active_tokens[t][tag] # {}
                 /\ state[t][tag] = {} => state'[t][tag] = {}
                 /\ enablers'[t][tag] = enablers[t][tag],
           \A m \in NotifyTransitionMessage :
              /\ dead_letters[m] > 0 => dead_letters'[m] > 0
              /\ queue[m] > 0 /\ ~IsBarrier(m.transition) =>
                    queue'[m] > 0 \/ Answers(worker'[w], m)
              /\ \A t \in Transitions, tag \in Tags :
                    /\ active_tokens'[t][tag] # {} /\ AboutEnabler(m, t, tag)
                    /\ Answers(worker[w], m)
                    => Answered(m)'
    PROVE  FInv'
<1>1. CountedInv'
  BY DEF FInv, CountedInv, At, Message, IsBarrier
<1>2. ASSUME NEW t \in Transitions, NEW tag \in Tags, active_tokens'[t][tag] # {}
      PROVE  /\ state'[t][tag] = {}
             /\ \E m \in NotifyTransitionMessage : (AboutEnabler(m, t, tag) /\ Answered(m))'
  <2>1. PICK m \in NotifyTransitionMessage : AboutEnabler(m, t, tag) /\ Answered(m)
    BY <1>2 DEF FInv, FinishInv
  <2>2. state'[t][tag] = {}
    BY <1>2 DEF FInv, FinishInv
  <2>3. AboutEnabler(m, t, tag)'
    BY <1>2, <2>1, AboutKept DEF FInv
  <2>4. Answered(m)'
    BY <1>2, <2>1, AnsweredFrame
  <2> QED BY <2>2, <2>3, <2>4
<1> QED BY <1>1, <1>2 DEF FInv, FinishInv

\* The steps of handlers that answer nothing.
LEMMA UnansweringStep ==
    ASSUME FInv, IInv', Grow, NEW w \in Workers,
           \A v \in Workers : v # w => worker'[v] = worker[v],
           worker[w].pc \notin {"consume", "fire", "counted", "push"},
           worker'[w].pc # "counted",
           UNCHANGED <<state, active_tokens, enablers>>,
           \A m \in NotifyTransitionMessage :
              /\ dead_letters[m] > 0 => dead_letters'[m] > 0
              /\ queue[m] > 0 /\ ~IsBarrier(m.transition) =>
                    queue'[m] > 0 \/ Answers(worker'[w], m)
    PROVE  FInv'
<1>1. \A m : ~Answers(worker[w], m)
  BY DEF Answers
<1> QED BY <1>1, FinishStep

LEMMA ReceiveFinishes ==
    ASSUME FInv, IInv', NEW w \in Workers, Receive(w)
    PROVE  FInv'
<1>1. PICK m \in Messages :
          /\ queue[m] > 0
          /\ queue' = [queue EXCEPT ![m] = @ - 1]
          /\ worker' = [worker EXCEPT ![w].pc = FirstStep[m.type], ![w].msg = m]
  BY DEF Receive
<1>2. /\ worker[w].pc = "idle"
      /\ UNCHANGED <<tokens, state, active_tokens, enablers, dead_letters>>
  BY DEF Receive, At, objectVars, transitionVars
<1>3. /\ m.type \in {"create_token", "notify_place", "notify_transition"}
      /\ \A n \in NotifyTransitionMessage : n.type = "notify_transition"
  BY MessageTypes DEF NotifyTransitionMessage
<1>4. /\ \A v \in Workers : v # w => worker'[v] = worker[v]
      /\ worker'[w].pc = FirstStep[m.type] /\ worker'[w].msg = m
  BY <1>1 DEF FInv, IInv, TypeOK, Worker
<1>5. /\ worker'[w].pc # "counted"
      /\ m.type = "notify_transition" => worker'[w].pc = "consume"
  BY <1>3, <1>4 DEF FirstStep
<1>6. ASSUME NEW n \in NotifyTransitionMessage, queue[n] > 0, ~IsBarrier(n.transition)
      PROVE  queue'[n] > 0 \/ Answers(worker'[w], n)
  <2>1. CASE n = m
    BY <1>3, <1>4, <1>5, <1>6, <2>1 DEF Answers
  <2>2. CASE n # m
    BY <1>1, <1>6, <2>2 DEF FInv, IInv, TypeOK, Messages
  <2> QED BY <2>1, <2>2
<1> QED BY <1>2, <1>4, <1>5, <1>6, SameTokensGrow, UnansweringStep DEF FInv

LEMMA PublishFinishes ==
    ASSUME FInv, IInv', NEW w \in Workers, Publish(w) \/ Ack(w)
    PROVE  FInv'
<1>1. /\ worker[w].pc = "publish"
      /\ UNCHANGED <<tokens, state, active_tokens, enablers, dead_letters>>
  BY DEF Publish, Ack, At, objectVars, transitionVars, brokerVars
<1>2. /\ \A v \in Workers : v # w => worker'[v] = worker[v]
      /\ worker'[w].pc # "counted"
      /\ \A m \in Messages : queue[m] > 0 => queue'[m] > 0
  <2>1. CASE Ack(w)
    BY <2>1 DEF Ack, FInv, IInv, TypeOK, Idle, brokerVars
  <2>2. CASE Publish(w)
    <3>1. /\ worker' = [worker EXCEPT ![w].outbox = Tail(@)]
          /\ queue' = [queue EXCEPT ![Head(worker[w].outbox)] = @ + 1]
      BY <2>2 DEF Publish
    <3>2. /\ \A v \in Workers : v # w => worker'[v] = worker[v]
          /\ worker'[w].pc = "publish"
      BY <1>1, <3>1 DEF FInv, IInv, TypeOK, Worker
    <3>3. \A m \in Messages : queue[m] > 0 => queue'[m] > 0
      BY <3>1 DEF FInv, IInv, TypeOK
    <3> QED BY <3>2, <3>3
  <2> QED BY <2>1, <2>2
<1> QED BY <1>1, <1>2, SameTokensGrow, UnansweringStep DEF FInv, Messages

\* A basic transition's message answers when it is delivered again; a barrier's
\* process does not die before it has pushed.
LEMMA CrashFinishes ==
    ASSUME BarriersSurvive, FInv, IInv', NEW w \in Workers, Crash(w)
    PROVE  FInv'
<1>1. PICK msg \in Messages : msg = Message(w) /\ MessageOK(tokens, msg)
  BY HandledMessage DEF Crash, FInv, IInv
<1>2. /\ \A v \in Workers : v # w => worker'[v] = worker[v]
      /\ worker'[w] = Idle
      /\ queue' = [queue EXCEPT ![msg] = @ + 1]
      /\ UNCHANGED <<tokens, state, active_tokens, enablers, dead_letters>>
      /\ <<msg.type, worker[w].pc>> \in CrashAt
  BY <1>1 DEF Crash, FInv, IInv, TypeOK, objectVars, transitionVars
<1>3. \A m \in Messages : (queue[m] > 0 \/ m = msg) => queue'[m] > 0
  BY <1>2 DEF FInv, IInv, TypeOK
<1>4. ASSUME NEW m \in NotifyTransitionMessage, Answers(worker[w], m)
      PROVE  Answered(m)'
  <2>1. m = msg /\ msg.type = "notify_transition" /\ msg.transition \in Transitions
    BY <1>1, <1>4 DEF Answers, Message, NotifyTransitionMessage
  <2>2. ~IsBarrier(msg.transition)
    <3>1. ASSUME IsBarrier(msg.transition)
          PROVE  FALSE
      <4>1. worker[w].pc \in {"fire", "counted", "push"}
        BY <1>4, <2>1, <3>1 DEF Answers
      <4>2. worker[w].pc # "counted"
        BY <1>1, <2>1, <3>1 DEF FInv, CountedInv, At
      <4> QED BY <1>2, <2>1, <3>1, <4>1, <4>2 DEF BarriersSurvive
    <3> QED BY <3>1
  <2> QED BY <1>3, <2>1, <2>2 DEF Answered, IsBarrier
<1>5. worker'[w].pc # "counted" /\ Grow
  BY <1>2, SameTokensGrow DEF Idle, FInv
<1> QED BY <1>2, <1>3, <1>4, <1>5, FinishStep DEF FInv, Messages

LEMMA CreateFinishes ==
    ASSUME FInv, IInv', NEW w \in Workers,
           CreateToken(w) \/ PutToken(w) \/ PutTokenFails(w) \/ NotifyPlace(w)
    PROVE  FInv'
<1>1. /\ worker[w].pc \notin {"consume", "fire", "counted", "push"}
      /\ UNCHANGED <<state, active_tokens, enablers, queue>>
  BY DEF CreateToken, PutToken, PutTokenFails, NotifyPlace, At, transitionVars,
         brokerVars, Fail
<1>2. Grow
  BY SameTokensGrow, OneTokenGrows DEF FInv, CreateToken, PutToken, PutTokenFails,
     NotifyPlace, objectVars
<1>3. /\ \A v \in Workers : v # w => worker'[v] = worker[v]
      /\ worker'[w].pc # "counted"
      /\ \A m \in Messages : dead_letters[m] > 0 => dead_letters'[m] > 0
  <2>1. CASE CreateToken(w)
    BY <2>1 DEF CreateToken, FInv, IInv, TypeOK, Worker, brokerVars
  <2>2. CASE PutToken(w)
    BY <2>2 DEF PutToken, Goto, FInv, IInv, TypeOK, Worker, brokerVars
  <2>3. CASE PutTokenFails(w)
    <3>1. Fail(w)
      BY <2>3 DEF PutTokenFails
    <3>2. \A m \in Messages : dead_letters[m] > 0 => dead_letters'[m] > 0
      BY <3>1 DEF Fail, FInv, IInv, TypeOK
    <3> QED BY <3>1, <3>2, FailMoves DEF FInv, IInv
  <2>4. CASE NotifyPlace(w)
    <3>1. UNCHANGED dead_letters /\ \E msgs : PublishAll(w, msgs)
      BY <2>4 DEF NotifyPlace, brokerVars
    <3> QED BY <3>1 DEF PublishAll, FInv, IInv, TypeOK, Worker
  <2> QED BY <2>1, <2>2, <2>3, <2>4
<1> QED BY <1>1, <1>2, <1>3, UnansweringStep DEF Messages

\* A notification of the place that enabled the transition, while its tokens are
\* active, gets through consume_tokens to the action.
LEMMA AboutActive ==
    ASSUME FInv, NEW w \in Workers, NEW m \in NotifyTransitionMessage,
           worker[w].pc \in {"consume", "fire", "counted", "push"}, worker[w].msg = m,
           NEW t \in Transitions, NEW tag \in Tags, AboutEnabler(m, t, tag)
    PROVE  t = Message(w).transition /\ tag = NotifiedTag(w)
           /\ enablers[t][tag] = Message(w).place
BY DEF AboutEnabler, Message, NotifiedTag, NotifiedToken

LEMMA UntakenFinishes ==
    ASSUME FInv, IInv', NEW w \in Workers,
           \/ ConsumeRemaining(w) \/ ConsumeWaiting(w) \/ ConsumeEnabledByOther(w)
           \/ ConsumeAlreadyActive(w) \/ ConsumeIncomplete(w)
    PROVE  FInv'
<1>1. /\ At(w, "consume")
      /\ \A v \in Workers : v # w => worker'[v] = worker[v]
      /\ worker'[w].pc \in {"fire", "publish"}
      /\ queue' = queue /\ tokens' = tokens
  BY ConsumeFacts DEF FInv, ConsumeTokens
<1>2. PICK t, tag, p : /\ t = Message(w).transition /\ tag = NotifiedTag(w)
                       /\ p = Message(w).place
  OBVIOUS
<1>3. /\ t \in Transitions /\ tag \in Tags
      /\ worker[w].msg \in NotifyTransitionMessage
  BY <1>1, <1>2, Notification DEF FInv, At, Message
<1>4. UNCHANGED <<active_tokens, enablers, dead_letters>>
  BY UntakenConsumes DEF FInv, ConsumeRemaining, ConsumeWaiting,
     ConsumeEnabledByOther, ConsumeAlreadyActive, ConsumeIncomplete, brokerVars
<1>5. \A u \in Transitions, g \in Tags :
          active_tokens[u][g] # {} /\ state[u][g] = {} => state'[u][g] = {}
  <2>1. CASE ConsumeRemaining(w)
    BY <2>1 DEF ConsumeRemaining, transitionVars
  <2>2. CASE ConsumeWaiting(w)
    <3>1. state' = [state EXCEPT ![t][tag] = @ \ {p}]
      BY <1>2, <2>2 DEF ConsumeWaiting
    <3> QED BY <1>3, <3>1 DEF FInv, IInv, TypeOK
  <2>3. CASE ConsumeEnabledByOther(w) \/ ConsumeAlreadyActive(w)
    <3>1. state' = [state EXCEPT ![t][tag] = {}]
      BY <1>2, <2>3 DEF ConsumeEnabledByOther, ConsumeAlreadyActive, Notified,
                        StateEmptied
    <3> QED BY <1>3, <3>1 DEF FInv, IInv, TypeOK
  <2>4. CASE ConsumeIncomplete(w)
    <3>1. /\ \E missing : state' = [state EXCEPT ![t][tag] = missing]
          /\ active_tokens[t][tag] = {}
      BY <1>2, <2>4 DEF ConsumeIncomplete, Notified, AlreadyActive
    <3> QED BY <1>3, <3>1 DEF FInv, IInv, TypeOK
  <2> QED BY <2>1, <2>2, <2>3, <2>4
<1>6. ASSUME NEW m \in NotifyTransitionMessage, NEW u \in Transitions, NEW g \in Tags,
             active_tokens[u][g] # {}, AboutEnabler(m, u, g), Answers(worker[w], m)
      PROVE  Answered(m)'
  <2>1. u = t /\ g = tag /\ enablers[t][tag] = p /\ m.transition = t /\ m = Message(w)
    BY <1>1, <1>2, <1>6, AboutActive DEF Answers, At, AboutEnabler, Message
  <2>2. /\ ~IsBarrier(t) /\ state[t][tag] = {} /\ active_tokens[t][tag] # {}
    BY <1>1, <1>6, <2>1 DEF Answers, At, FInv, FinishInv
  <2>3. ConsumeAlreadyActive(w)
    <3>1. ~ConsumeRemaining(w)
      BY <1>2, <2>2 DEF ConsumeRemaining, RemainsAtPlace
    <3>2. ~ConsumeWaiting(w)
      BY <1>2, <2>2 DEF ConsumeWaiting, NoneAwaited
    <3>3. ~ConsumeEnabledByOther(w)
      BY <1>2, <2>1, <2>2 DEF ConsumeEnabledByOther, Notified, EnabledByOther
    <3>4. ~ConsumeIncomplete(w)
      BY <1>2, <2>2 DEF ConsumeIncomplete, Notified, AlreadyActive
    <3> QED BY <3>1, <3>2, <3>3, <3>4
  <2>4. worker'[w].pc = "fire" /\ worker'[w].msg = m
    <3>1. Goto(w, "fire")
      BY <2>3 DEF ConsumeAlreadyActive
    <3> QED BY <2>1, <3>1 DEF Goto, FInv, IInv, TypeOK, Worker, Message
  <2> QED BY <2>4 DEF Answered, Answers
<1>7. Grow /\ worker'[w].pc # "counted"
  BY <1>1, SameTokensGrow DEF FInv
<1> QED BY <1>1, <1>4, <1>5, <1>6, <1>7, FinishStep

\* The message that enables the transition begins to answer.
LEMMA EnabledFinishes ==
    ASSUME FInv, IInv', NEW w \in Workers, ConsumeEnabled(w)
    PROVE  FInv'
<1>1. /\ At(w, "consume")
      /\ \A v \in Workers : v # w => worker'[v] = worker[v]
      /\ worker'[w].pc \in {"fire", "publish"}
      /\ queue' = queue /\ tokens' = tokens
      /\ dead_letters' = dead_letters
  BY ConsumeFacts DEF FInv, ConsumeTokens, ConsumeEnabled, brokerVars
<1>2. PICK t, tag, p : /\ t = Message(w).transition /\ tag = NotifiedTag(w)
                       /\ p = Message(w).place
  OBVIOUS
<1>3. PICK msg \in NotifyTransitionMessage :
          /\ msg = Message(w) /\ Known(tokens, msg.token)
          /\ t \in Transitions /\ tag \in Tags
  BY <1>1, <1>2, Notification DEF FInv, At
<1>4. PICK cells : cells = ConsumedColors(t, NotifiedToken(w)) \X ArcsIn[t]
  OBVIOUS
<1>5. Enabling(w, t, tag, p, cells)
  BY <1>2, <1>4, EnablingStep
<1>6. /\ active_tokens[t][tag] = {}
      /\ state' = [state EXCEPT ![t][tag] = {}]
      /\ enablers' = [enablers EXCEPT ![t][tag] = p]
      /\ \/ active_tokens' = active_tokens
         \/ /\ Goto(w, "fire")
            /\ \E S : active_tokens' = [active_tokens EXCEPT ![t][tag] = S]
  BY <1>5 DEF Enabling, AlreadyActive
<1>7. /\ state'[t][tag] = {} /\ enablers'[t][tag] = p
      /\ \A u \in Transitions, g \in Tags :
            u # t \/ g # tag => /\ state'[u][g] = state[u][g]
                                /\ enablers'[u][g] = enablers[u][g]
                                /\ active_tokens'[u][g] = active_tokens[u][g]
      /\ active_tokens'[t][tag] # {} =>
            worker'[w].pc = "fire" /\ worker'[w].msg = worker[w].msg
  BY <1>3, <1>6 DEF FInv, IInv, TypeOK, Goto, Worker
<1>8. Grow
  BY <1>1, SameTokensGrow DEF FInv
<1>9. CountedInv'
  BY <1>1 DEF FInv, CountedInv, At, Message, IsBarrier
<1>10. ASSUME NEW u \in Transitions, NEW g \in Tags, active_tokens'[u][g] # {}
       PROVE  /\ state'[u][g] = {}
              /\ \E m \in NotifyTransitionMessage :
                    (AboutEnabler(m, u, g) /\ Answered(m))'
  <2>1. CASE u = t /\ g = tag
    <3>1. AboutEnabler(msg, t, tag)'
      BY <1>1, <1>2, <1>3, <1>7
         DEF AboutEnabler, NotifiedTag, NotifiedToken, Tag, IsBarrier
    <3>2. Answered(msg)'
      BY <1>3, <1>7, <1>10, <2>1 DEF Answered, Answers, Message
    <3> QED BY <1>7, <2>1, <3>1, <3>2
  <2>2. CASE u # t \/ g # tag
    <3>1. active_tokens[u][g] # {} /\ enablers'[u][g] = enablers[u][g]
          /\ state'[u][g] = state[u][g]
      BY <1>7, <1>10, <2>2
    <3>2. PICK m \in NotifyTransitionMessage : AboutEnabler(m, u, g) /\ Answered(m)
      BY <3>1 DEF FInv, FinishInv
    <3>3. AboutEnabler(m, u, g)'
      BY <1>8, <3>1, <3>2, AboutKept DEF FInv
    <3>4. ~Answers(worker[w], m)
      <4>1. ASSUME Answers(worker[w], m)
            PROVE  u = t /\ g = tag
        BY <1>1, <1>2, <3>2, <4>1, AboutActive DEF Answers, At
      <4> QED BY <2>2, <4>1
    <3>5. Answered(m)'
      BY <1>1, <3>2, <3>4, AnsweredFrame
    <3> QED BY <3>1, <3>3, <3>5 DEF FInv, FinishInv
  <2> QED BY <2>1, <2>2
<1> QED BY <1>9, <1>10 DEF FInv, FinishInv

\* An action ends in a push or in a dead letter.
LEMMA FireFinishes ==
    ASSUME FInv, IInv', NEW w \in Workers, Fire(w) \/ PushFails(w)
    PROVE  FInv'
<1>1. Fired(w) /\ Grow
  <2>1. CASE \/ FireCount(w) \/ FireHeadFails(w) \/ FireSingle(w) \/ FireRecordTime(w)
             \/ FireExpire(w) \/ FireNotImplemented(w) \/ PushFails(w)
    BY <2>1, SimpleFire, SameTokensGrow DEF FInv
  <2>2. CASE FireMerge(w) \/ FireRemoveData(w) \/ FireJoin(w)
    BY <2>2, MakingFire, OneTokenGrows DEF FInv
  <2>3. CASE FireSplit(w)
    BY <2>3, SplitFire DEF FInv
  <2> QED BY <2>1, <2>2, <2>3 DEF Fire
<1>2. PICK msg \in NotifyTransitionMessage : msg = worker[w].msg
  BY <1>1, Notification DEF Fired, FInv, Message
<1>3. \/ Fail(w)
      \/ (\E new : Executed(w, new)) /\ UNCHANGED brokerVars
      \/ /\ \E count : worker' = [worker EXCEPT ![w].pc = "counted", ![w].count = count]
         /\ Action[msg.transition] \in {"merge", "remove_data"}
         /\ UNCHANGED brokerVars
  BY <1>2 DEF Fire, FireCount, FireHeadFails, FireSingle, FireMerge, FireRemoveData,
     FireRecordTime, FireSplit, FireJoin, FireExpire, FireNotImplemented, PushFails,
     Firing, Message
<1>4. /\ worker'[w].pc = "counted" => ~IsBarrier(Message(w)'.transition)
      /\ \A m \in Messages : dead_letters[m] > 0 => dead_letters'[m] > 0
      /\ Answered(msg)'
  <2>1. CASE Fail(w)
    <3>1. \A m \in Messages : dead_letters[m] > 0 \/ m = msg => dead_letters'[m] > 0
      BY <1>2, <2>1 DEF Fail, FInv, IInv, TypeOK, Message
    <3>2. worker'[w].pc = "idle"
      BY <2>1, FailMoves DEF FInv, IInv
    <3> QED BY <3>1, <3>2 DEF Answered, Messages
  <2>2. CASE (\E new : Executed(w, new)) /\ UNCHANGED brokerVars
    <3>1. worker'[w].pc = "push" /\ worker'[w].msg = msg
      BY <1>2, <2>2 DEF Executed, FInv, IInv, TypeOK, Worker
    <3> QED BY <2>2, <3>1 DEF Answered, Answers, brokerVars
  <2>3. CASE /\ \E count :
                   worker' = [worker EXCEPT ![w].pc = "counted", ![w].count = count]
             /\ Action[msg.transition] \in {"merge", "remove_data"}
             /\ UNCHANGED brokerVars
    <3>1. worker'[w].pc = "counted" /\ worker'[w].msg = msg
      BY <1>2, <2>3 DEF FInv, IInv, TypeOK, Worker
    <3>2. ~IsBarrier(msg.transition)
      BY <2>3, ActionAssumption DEF IsBarrier, NotifyTransitionMessage
    <3> QED BY <2>3, <3>1, <3>2 DEF Answered, Answers, brokerVars, Message, IsBarrier
  <2> QED BY <1>3, <2>1, <2>2, <2>3
<1>5. \A m : Answers(worker[w], m) => Answered(m)'
  BY <1>2, <1>4 DEF Answers
<1> QED BY <1>1, <1>4, <1>5, FinishStep DEF Fired, Messages

\* push_tokens takes all of the active tokens it answers for.
LEMMA PushFinishes ==
    ASSUME FInv, IInv', PushesAll, NEW w \in Workers, PushTokens(w)
    PROVE  FInv'
<1>1. PICK t, tag, puts : /\ t = Message(w).transition /\ tag = NotifiedTag(w)
                          /\ puts = Puts(t, worker[w].new)
  OBVIOUS
<1>2. /\ At(w, "push")
      /\ \E msgs : PublishAll(w, msgs)
      /\ UNCHANGED <<tokens, state, enablers, queue, dead_letters>>
      /\ IF Inactive(t, tag)
         THEN UNCHANGED active_tokens
         ELSE IF PutsMade(puts) = DOMAIN puts
              THEN ActiveCleared(t, tag)
              ELSE UNCHANGED active_tokens
  BY <1>1 DEF PushTokens, objectVars, brokerVars
<1>3. t \in Transitions /\ tag \in Tags
  BY <1>1, <1>2, Notification DEF FInv, At
<1>4. /\ active_tokens'[t][tag] = {}
      /\ \A u \in Transitions, g \in Tags :
            active_tokens'[u][g] # {} => active_tokens'[u][g] = active_tokens[u][g]
  <2>1. CASE active_tokens[t][tag] = {}
    BY <1>2, <2>1 DEF Inactive
  <2>2. CASE active_tokens[t][tag] # {}
    <3>1. PutsMade(puts) = DOMAIN puts
      <4>1. Pushing(w) /\ puts = WorkerPuts(w)
        BY <1>1, <1>2, <2>2 DEF Pushing, WorkerPuts, PushTokens, Active
      <4> QED BY <4>1 DEF PushesAll
    <3>2. active_tokens' = [active_tokens EXCEPT ![t][tag] = {}]
      BY <1>2, <2>2, <3>1 DEF Inactive, ActiveCleared
    <3> QED BY <1>3, <3>2 DEF FInv, IInv, TypeOK
  <2> QED BY <2>1, <2>2
<1>5. /\ \A v \in Workers : v # w => worker'[v] = worker[v]
      /\ worker'[w].pc = "publish"
  BY <1>2 DEF PublishAll, FInv, IInv, TypeOK, Worker
<1>6. ASSUME NEW m \in NotifyTransitionMessage, NEW u \in Transitions, NEW g \in Tags,
             active_tokens'[u][g] # {}, AboutEnabler(m, u, g), Answers(worker[w], m)
      PROVE  FALSE
  <2>1. u = t /\ g = tag
    BY <1>1, <1>2, <1>6, AboutActive DEF Answers, At
  <2> QED BY <1>4, <1>6, <2>1
<1>7. Grow
  BY <1>2, SameTokensGrow DEF FInv
<1> QED BY <1>2, <1>4, <1>5, <1>6, <1>7, FinishStep

LEMMA InitFinishes ==
    ASSUME Init, IInv
    PROVE  FInv
<1>1. CountedInv
  BY DEF Init, CountedInv, At, Idle
<1>2. FinishInv
  BY DEF Init, FinishInv
<1> QED BY <1>1, <1>2 DEF FInv

LEMMA StepFinishes ==
    ASSUME BarriersSurvive, FInv, PushesAll, [Next]_vars
    PROVE  FInv'
<1>1. IInv'
  BY StepPreserves DEF FInv
<1>2. CASE UNCHANGED vars
  BY <1>1, <1>2
     DEF FInv, CountedInv, FinishInv, AboutEnabler, Answered, Answers, At, Message,
         Tag, IsBarrier, vars, objectVars, transitionVars, brokerVars
<1>3. ASSUME NEW w \in Workers, Receive(w) \/ Crash(w)
      PROVE  FInv'
  BY <1>1, <1>3, ReceiveFinishes, CrashFinishes
<1>4. ASSUME NEW w \in Workers, Handle(w)
      PROVE  FInv'
  <2>1. CASE CreateToken(w) \/ PutToken(w) \/ PutTokenFails(w) \/ NotifyPlace(w)
    BY <1>1, <2>1, CreateFinishes
  <2>2. CASE ConsumeTokens(w)
    BY <1>1, <2>2, UntakenFinishes, EnabledFinishes DEF ConsumeTokens
  <2>3. CASE Fire(w) \/ PushFails(w)
    BY <1>1, <2>3, FireFinishes
  <2>4. CASE PushTokens(w) \/ Publish(w) \/ Ack(w)
    BY <1>1, <2>4, PushFinishes, PublishFinishes
  <2> QED BY <1>4, <2>1, <2>2, <2>3, <2>4 DEF Handle
<1> QED BY <1>2, <1>3, <1>4 DEF Next

\* What was begun is finished or still to be answered for, in a net in which
\* push_tokens never finds a cell taken: every active set goes back to a message that
\* is queued, handled or among the dead letters.
THEOREM FinishInvariance ==
    ASSUME BarriersSurvive
    PROVE  Spec /\ []PushesAll => []FInv
<1>1. Init => FInv
  BY InitEstablishes, InitFinishes
<1>2. FInv /\ PushesAll /\ [Next]_vars => FInv'
  BY StepFinishes
<1> QED BY <1>1, <1>2, PTL DEF Spec

LEMMA QuiescentAnswers ==
    ASSUME FInv, Quiescent, NEW t \in Transitions, NEW tag \in Tags,
           active_tokens[t][tag] # {}
    PROVE  \E m \in NotifyTransitionMessage :
              AboutEnabler(m, t, tag) /\ dead_letters[m] > 0
<1>1. PICK m \in NotifyTransitionMessage : AboutEnabler(m, t, tag) /\ Answered(m)
  BY DEF FInv, FinishInv
<1>2. queue[m] = 0 /\ \A w \in Workers : worker[w].pc = "idle"
  BY DEF Quiescent, At, Messages
<1> QED BY <1>1, <1>2 DEF Answered, Answers

LEMMA QuiescentWaits ==
    ASSUME WInv, FiredOnce, Quiescent, NEW t \in Transitions, NEW i \in DOMAIN tokens,
           tokens[i].color # NoColor, active_tokens[t][Tag(t, tokens[i])] = {}
    PROVE  \E c \in ConsumedColors(t, tokens[i]) \X ArcsIn[t] : color_marking[c] = NoToken
<1> SUFFICES ASSUME \A c \in ConsumedColors(t, tokens[i]) \X ArcsIn[t] :
                       color_marking[c] # NoToken
             PROVE  FALSE
  OBVIOUS
<1> DEFINE tag == Tag(t, tokens[i])
<1>1. tag \in LiveTags(t) /\ TagColors(t, tag) = ConsumedColors(t, tokens[i])
  BY TokenTag DEF Known, WInv
<1> HIDE DEF tag
<1>2. \A p \in ArcsIn[t] : Full(t, tag, p)
  BY <1>1 DEF Full
<1>3. enablers[t][tag] = NoPlace
  BY <1>1, <1>2 DEF FiredOnce, tag
<1>4. PICK p \in ArcsIn[t] : AwaitedAt(t, tag, p)
  BY <1>1, <1>2, <1>3 DEF WInv, WakingInv
<1>5. PICK m \in Messages : Carried(m)
  BY <1>4 DEF AwaitedAt, Awaited
<1> QED BY <1>5 DEF Carried, Holds, Quiescent, At

\* Once the broker is drained and nobody works, what the net could do it has done:
\* no transition has all its tokens, and none consumed tokens without replacing them,
\* unless a handler of one of its notifications raised.
THEOREM QuiescenceIsDone ==
    ASSUME NotifiesWhatItPushed, BarriersSurvive
    PROVE  Spec /\ []NetIsSafe => [](NothingRaised => QuiescentDone)
<1>1. ASSUME WInv, FInv, FiredOnce, NothingRaised
      PROVE  QuiescentDone
  <2>1. ASSUME Quiescent, NEW t \in Transitions, NEW tag \in Tags
        PROVE  active_tokens[t][tag] = {}
    <3>1. \A m \in NotifyTransitionMessage : ~(dead_letters[m] > 0)
      BY <1>1 DEF NothingRaised
    <3> QED BY <1>1, <2>1, <3>1, QuiescentAnswers
  <2>2. ASSUME Quiescent, NEW t \in Transitions, NEW i \in DOMAIN tokens,
               tokens[i].color # NoColor
        PROVE  \E c \in ConsumedColors(t, tokens[i]) \X ArcsIn[t] :
                  color_marking[c] = NoToken
    <3>1. Tag(t, tokens[i]) \in Tags
      BY <1>1, <2>2, TokenTag, LiveTag DEF Known, WInv
    <3> QED BY <1>1, <2>1, <2>2, <3>1, QuiescentWaits
  <2> QED BY <2>1, <2>2 DEF QuiescentDone
<1>2. NetIsSafe => FiredOnce /\ PushesAll
  BY DEF NetIsSafe
<1> QED BY <1>1, <1>2, WakeupInvariance, FinishInvariance, PTL

-----------------------------------------------------------------------------
(* What is enabled has its tokens.                                         *)

\* Nobody else writes enablers.
LEMMA OnlyConsumeEnables ==
    ASSUME NEW w \in Workers,
           \/ Receive(w) \/ Crash(w) \/ Publish(w) \/ Ack(w) \/ CreateToken(w)
           \/ PutToken(w) \/ PutTokenFails(w) \/ NotifyPlace(w) \/ PushFails(w)
           \/ PushTokens(w)
    PROVE  enablers' = enablers
BY DEF Receive, Crash, Publish, Ack, CreateToken, PutToken, PutTokenFails, NotifyPlace,
       PushFails, PushTokens, transitionVars

LEMMA NoActionEnables ==
    ASSUME IInv, IInv', NEW w \in Workers, Fire(w)
    PROVE  enablers' = enablers
BY SimpleFire, MakingFire, SplitFire DEF Fire, Fired

\* What a step that enables a transition takes.
LEMMA EnablingIsTaking ==
    ASSUME IInv, IInv', NEW w \in Workers, ConsumeTokens(w),
           NEW t \in Transitions, NEW tag \in Tags, enablers'[t][tag] # enablers[t][tag]
    PROVE  /\ tag \in LiveTags(t)
           /\ \A c \in TagColors(t, tag), p \in ArcsIn[t] :
                 /\ color_marking[<<c, p>>] # NoToken
                 /\ color_marking[<<c, p>>] \in active_tokens'[t][tag]
                 /\ color_marking'[<<c, p>>] = NoToken
<1>1. ConsumeEnabled(w)
  BY UntakenConsumes DEF ConsumeTokens
<1>2. PICK t0, tag0 : t0 = Message(w).transition /\ tag0 = NotifiedTag(w)
  OBVIOUS
<1>3. /\ enablers' = [enablers EXCEPT ![t0][tag0] = Message(w).place]
      /\ TakesAll(w, t0, tag0)
  BY <1>1, <1>2, EnabledTakes, NeverGivesUp
<1>4. At(w, "consume")
  BY <1>1 DEF ConsumeEnabled, Notified
<1>5. t0 \in Transitions /\ tag0 \in Tags /\ tag0 \in LiveTags(t0)
  BY <1>2, <1>4, NotifiedLive
<1>6. t = t0 /\ tag = tag0
  BY <1>3, <1>5 DEF IInv, TypeOK
<1>7. PICK cells, taken :
          /\ cells = TagColors(t, tag) \X ArcsIn[t]
          /\ taken = {color_marking[c] : c \in cells}
          /\ active_tokens' = [active_tokens EXCEPT ![t][tag] = taken]
          /\ color_marking' = [c \in Cells |->
                IF c \in cells THEN NoToken ELSE color_marking[c]]
  BY <1>3, <1>6 DEF TakesAll
<1>8. active_tokens'[t][tag] = taken
  BY <1>7 DEF IInv, TypeOK
<1>9. ASSUME NEW c \in TagColors(t, tag), NEW p \in ArcsIn[t]
      PROVE  /\ color_marking[<<c, p>>] # NoToken
             /\ color_marking[<<c, p>>] \in taken
             /\ color_marking'[<<c, p>>] = NoToken
  <2>1. <<c, p>> \in cells /\ <<c, p>> \in Cells
    BY <1>5, <1>6, <1>7, LiveTag, NetAssumption DEF Cells
  <2>2. color_marking[<<c, p>>] # NoToken
    BY <1>3, <1>6 DEF TakesAll, Full
  <2> QED BY <1>7, <2>1, <2>2
<1> QED BY <1>5, <1>6, <1>8, <1>9

\* consume_tokens_barrier.lua writes the enabler, looks for the group's tokens and gives
\* up at a place that has the count of the group but not its colors.  There is no such
\* place: what is enabled has taken all its tokens, for every net and any crashes.
THEOREM EnabledHasTaken == Spec => EnablesWhole
<1>1. IInv /\ [Next]_vars =>
          [\A t \in Transitions, tag \in Tags : Enables(t, tag) => Takes(t, tag)]_vars
  <2>1. SUFFICES ASSUME IInv, Next, NEW t \in Transitions, NEW tag \in Tags,
                        Enables(t, tag)
                 PROVE  Takes(t, tag)
    OBVIOUS
  <2>2. IInv'
    BY <2>1, StepPreserves
  <2>3. PICK w \in Workers : Receive(w) \/ Handle(w) \/ Crash(w)
    BY <2>1 DEF Next
  <2>4. ConsumeTokens(w)
    BY <2>1, <2>2, <2>3, OnlyConsumeEnables, NoActionEnables DEF Handle, Enables
  <2> QED BY <2>1, <2>2, <2>4, EnablingIsTaking DEF Enables, Takes
<1> QED BY <1>1, InvariantHolds, PTL DEF Spec, EnablesWhole
=============================================================================
