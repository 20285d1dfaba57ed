--------------------------- MODULE PetriNetProofs ---------------------------
(***************************************************************************)
(* The engine keeps its types, its two markings in agreement and its       *)
(* transient keys complete, for every net, every number of workers and     *)
(* every sequence of crashes.                                              *)
(***************************************************************************)
EXTENDS PetriNetInv, FiniteSetTheorems, TLAPS

-----------------------------------------------------------------------------
(* Messages, colors and growing token tables.                              *)

LEMMA MessageTypes ==
    ASSUME NEW m \in Messages
    PROVE  /\ m.type \in {"create_token", "notify_place", "notify_transition"}
           /\ m.type = "create_token" => m \in Requests
           /\ m.type = "notify_place" => m \in NotifyPlaceMessage
           /\ m.type = "notify_transition" => m \in NotifyTransitionMessage
BY RequestAssumption
   DEF Messages, NotifyPlaceMessage, NotifyTransitionMessage

LEMMA ElementOf ==
    ASSUME NEW S, NEW s \in Seq(S), NEW i \in DOMAIN s
    PROVE  s[i] \in S
OBVIOUS

LEMMA RequestTypes ==
    ASSUME NEW m \in Requests
    PROVE  /\ m \in Messages /\ m.type = "create_token"
           /\ m.color \in Colors /\ m.group \in Groups /\ m.data \in SUBSET Data
           /\ m.group \in DOMAIN GroupsAtStart
           /\ m.color \in ColorsIn(GroupsAtStart, m.group)
<1>1. /\ m.type = "create_token" /\ m.color \in Colors /\ m.data \in SUBSET Data
      /\ m.group \in DOMAIN GroupsAtStart
      /\ GroupsAtStart[m.group].begin <= m.color
      /\ m.color < GroupsAtStart[m.group].end
  BY RequestAssumption
<1>2. m.group \in Groups
  BY <1>1, GroupsAssumption, BoundAssumption DEF Groups
<1>3. GroupsAtStart[m.group] \in
          [begin : 0 .. MaxColors, end : 0 .. MaxColors,
           parent_color : {NoColor}, parent_group : {NoGroup}]
  BY <1>1, GroupsAssumption, ElementOf
<1>4. m.color \in ColorsIn(GroupsAtStart, m.group)
  BY <1>1, <1>3, BoundAssumption DEF ColorsIn, Colors
<1> QED BY <1>1, <1>2, <1>4 DEF Messages

LEMMA ColorsFinite == IsFiniteSet(Colors)
BY FS_Interval, BoundAssumption DEF Colors

\* No color is in two groups.
LEMMA UniqueGroup ==
    ASSUME TypeOK, GroupsInv, NEW c \in Colors,
           NEW g \in DOMAIN color_groups, c \in ColorsIn(color_groups, g),
           NEW h \in DOMAIN color_groups, c \in ColorsIn(color_groups, h)
    PROVE  g = h
<1>1. g \in Nat /\ h \in Nat
  BY DEF TypeOK
<1>2. /\ color_groups[g].begin \in Int /\ color_groups[g].end \in Int
      /\ color_groups[h].begin \in Int /\ color_groups[h].end \in Int
  <2>1. color_groups[g] \in ColorGroup /\ color_groups[h] \in ColorGroup
    BY DEF TypeOK
  <2> QED BY <2>1, BoundAssumption DEF ColorGroup
<1>3. g < h => color_groups[g].end <= color_groups[h].begin
  BY DEF GroupsInv
<1>4. h < g => color_groups[h].end <= color_groups[g].begin
  BY DEF GroupsInv
<1> QED BY <1>1, <1>2, <1>3, <1>4, BoundAssumption DEF ColorsIn, Colors

\* Tokens and groups are only ever added.
Grow ==
    /\ tokens' \in Seq(Token) /\ Len(tokens) <= Len(tokens')
    /\ \A i \in DOMAIN tokens : tokens'[i] = tokens[i]

LEMMA KnownGrows ==
    ASSUME TypeOK, Grow
    PROVE  /\ DOMAIN tokens \subseteq DOMAIN tokens'
           /\ \A i : Known(tokens, i) => Known(tokens', i)
           /\ \A m : MessageOK(tokens, m) => MessageOK(tokens', m)
<1>1. DOMAIN tokens = 1 .. Len(tokens) /\ DOMAIN tokens' = 1 .. Len(tokens')
      /\ Len(tokens) \in Nat /\ Len(tokens') \in Nat
  BY DEF TypeOK, Grow
<1>2. DOMAIN tokens \subseteq DOMAIN tokens'
  BY <1>1 DEF Grow
<1> QED BY <1>2 DEF Grow, Known, MessageOK

LEMMA WorkerOKGrows ==
    ASSUME TypeOK, Grow, NEW r, WorkerOK(tokens, r)
    PROVE  WorkerOK(tokens', r)
BY KnownGrows DEF WorkerOK, Grow, Known

\* A step of one worker leaves the others as they were.
LEMMA WorkersFrame ==
    ASSUME TypeOK, WorkersInv, Grow, NEW w \in Workers,
           \A v \in Workers : v # w => worker'[v] = worker[v],
           WorkerOK(tokens', worker'[w])
    PROVE  WorkersInv'
<1>1. ASSUME NEW v \in Workers PROVE WorkerOK(tokens', worker'[v])
  <2>1. WorkerOK(tokens', worker[v])
    BY WorkerOKGrows DEF WorkersInv
  <2> QED BY <2>1
<1> QED BY <1>1 DEF WorkersInv, WorkerOK, MessageOK, Known

LEMMA QueueFrame ==
    ASSUME TypeOK, QueueInv, Grow,
           \A m \in Messages : queue'[m] > 0 => queue[m] > 0 \/ MessageOK(tokens', m)
    PROVE  QueueInv'
<1>1. ASSUME NEW m \in Messages, queue'[m] > 0 PROVE MessageOK(tokens', m)
  BY <1>1, KnownGrows DEF QueueInv
<1> QED BY <1>1 DEF QueueInv, MessageOK, Known

\* Where the marking and the active sets stay as they are, so do the facts about
\* them, although tokens are added.
LEMMA MarkingFrame ==
    ASSUME TypeOK, MarkInv, ActiveInv, GroupCount, Grow,
           UNCHANGED <<markingVars, active_tokens>>
    PROVE  MarkInv' /\ ActiveInv' /\ GroupCount'
<1> USE DEF markingVars
<1>1. MarkInv'
  BY KnownGrows DEF MarkInv, Grow
<1>2. ActiveInv'
  <2>1. \A t \in Transitions, tag \in Tags :
            \A i \in active_tokens'[t][tag] : Known(tokens', i)
    BY KnownGrows DEF ActiveInv
  <2> QED BY <2>1 DEF ActiveInv, Known
<1>3. ASSUME NEW g \in Groups, NEW p \in Places
      PROVE  MarkedColors(g, p)' = MarkedColors(g, p)
  BY DEF MarkInv, MarkedColors, Grow
<1>4. GroupCount'
  BY <1>3 DEF GroupCount, MarkedColors
<1> QED BY <1>1, <1>2, <1>4

-----------------------------------------------------------------------------
(* How the ways a handler goes on or ends change the workers.              *)

PCs == {"idle", "create", "put", "read", "consume", "fire", "counted", "push",
        "publish"}

LEMMA IdleTyped ==
    ASSUME NEW toks
    PROVE  Idle \in Worker /\ WorkerOK(toks, Idle)
BY DEF Idle, Worker, WorkerOK, NoMessage

\* What a worker that is not idle handles is a message about a known token.
LEMMA HandledMessage ==
    ASSUME TypeOK, WorkersInv, NEW w \in Workers, ~At(w, "idle")
    PROVE  Message(w) \in Messages /\ MessageOK(tokens, Message(w))
BY DEF WorkersInv, WorkerOK, At, Message

LEMMA GotoStep ==
    ASSUME TypeOK, NEW w \in Workers, NEW pc \in PCs, Goto(w, pc)
    PROVE  /\ worker' \in [Workers -> Worker]
           /\ \A v \in Workers : v # w => worker'[v] = worker[v]
           /\ worker'[w].pc = pc /\ worker'[w].msg = worker[w].msg
           /\ worker'[w].new = worker[w].new
BY DEF TypeOK, Goto, Worker, PCs

LEMMA PublishAllStep ==
    ASSUME TypeOK, NEW w \in Workers, NEW msgs \in Seq(Messages),
           PublishAll(w, msgs)
    PROVE  /\ worker' \in [Workers -> Worker]
           /\ \A v \in Workers : v # w => worker'[v] = worker[v]
           /\ worker'[w].pc = "publish" /\ worker'[w].msg = worker[w].msg
           /\ worker'[w].outbox = msgs
BY ZenonT(60) DEF TypeOK, PublishAll, Worker

LEMMA ExecutedStep ==
    ASSUME TypeOK, NEW w \in Workers, NEW new \in Seq(TokenIdxs), Executed(w, new)
    PROVE  /\ worker' \in [Workers -> Worker]
           /\ \A v \in Workers : v # w => worker'[v] = worker[v]
           /\ worker'[w].pc = "push" /\ worker'[w].msg = worker[w].msg
           /\ worker'[w].new = new
BY ZenonT(60) DEF TypeOK, Executed, Worker

LEMMA FailStep ==
    ASSUME TypeOK, WorkersInv, NEW w \in Workers, ~At(w, "idle"), Fail(w)
    PROVE  /\ worker' \in [Workers -> Worker]
           /\ \A v \in Workers : v # w => worker'[v] = worker[v]
           /\ worker'[w] = Idle
           /\ dead_letters' \in [Messages -> Nat]
           /\ queue' = queue
<1>1. Message(w) \in Messages
  BY HandledMessage
<1>2. Idle \in Worker
  BY IdleTyped
<1>3. dead_letters' \in [Messages -> Nat]
  BY <1>1 DEF TypeOK, Fail
<1>4. worker' \in [Workers -> Worker] /\ worker'[w] = Idle
  BY <1>2 DEF TypeOK, Fail
<1>5. \A v \in Workers : v # w => worker'[v] = worker[v]
  BY DEF TypeOK, Fail
<1> QED BY <1>3, <1>4, <1>5 DEF Fail

\* An outbox with nothing in it, or with known tokens, is in order.
LEMMA PublishingOK ==
    ASSUME NEW toks, NEW r, r.pc = "publish", r.msg \in Messages,
           MessageOK(toks, r.msg),
           \A i \in DOMAIN r.outbox : MessageOK(toks, r.outbox[i])
    PROVE  WorkerOK(toks, r)
BY DEF WorkerOK

LEMMA PushingOK ==
    ASSUME NEW toks, NEW r, r.pc = "push", r.msg \in NotifyTransitionMessage,
           MessageOK(toks, r.msg), \A i \in DOMAIN r.new : r.new[i] \in DOMAIN toks
    PROVE  WorkerOK(toks, r)
BY DEF WorkerOK, Messages

-----------------------------------------------------------------------------
(* Steps that leave tokens, marking and active sets as they are.           *)

LEMMA SameTokens ==
    ASSUME IInv, UNCHANGED <<markingVars, tokens, color_groups, next_color,
                             active_tokens>>
    PROVE  /\ Grow /\ TokensInv' /\ GroupsInv' /\ MarkInv' /\ ActiveInv'
           /\ GroupCount'
<1>1. Grow
  BY DEF IInv, TypeOK, Grow
<1>2. TokensInv' /\ GroupsInv'
  BY DEF IInv, TokensInv, GroupsInv, InGroup, ColorsIn
<1> QED BY <1>1, <1>2, MarkingFrame DEF IInv

\* A handler's step that only reads, apart from a transition's state set, its
\* enabler and a place's timestamp.
LEMMA ReadingStep ==
    ASSUME IInv, NEW w \in Workers,
           UNCHANGED <<markingVars, tokens, color_groups, next_color,
                       active_tokens, queue, crashes>>,
           dead_letters' \in [Messages -> Nat],
           first_token_timestamp' \in SUBSET Places,
           state' \in [Transitions -> [Tags -> SUBSET Places]],
           enablers' \in [Transitions -> [Tags -> Places \cup {NoPlace}]],
           transient_keys' \in [Transitions -> SUBSET TransientKey],
           TransientTracks',
           worker' \in [Workers -> Worker],
           \A v \in Workers : v # w => worker'[v] = worker[v],
           WorkerOK(tokens, worker'[w])
    PROVE  IInv'
<1>1. TypeOK'
  BY DEF IInv, TypeOK, markingVars
<1>2. Grow
  BY SameTokens
<1>3. WorkersInv'
  BY <1>2, WorkersFrame DEF IInv
<1>4. QueueInv'
  BY <1>2, QueueFrame DEF IInv
<1> QED BY <1>1, <1>3, <1>4, SameTokens DEF IInv

\* The same where the transition is left alone.
LEMMA QuietStep ==
    ASSUME IInv, NEW w \in Workers,
           UNCHANGED <<markingVars, tokens, color_groups, next_color,
                       transitionVars, queue, crashes>>,
           dead_letters' \in [Messages -> Nat],
           first_token_timestamp' \in SUBSET Places,
           worker' \in [Workers -> Worker],
           \A v \in Workers : v # w => worker'[v] = worker[v],
           WorkerOK(tokens, worker'[w])
    PROVE  IInv'
<1>1. TransientTracks'
  BY DEF IInv, TransientTracks, transitionVars
<1>2. /\ state' \in [Transitions -> [Tags -> SUBSET Places]]
      /\ enablers' \in [Transitions -> [Tags -> Places \cup {NoPlace}]]
      /\ transient_keys' \in [Transitions -> SUBSET TransientKey]
      /\ active_tokens' = active_tokens
  BY DEF IInv, TypeOK, transitionVars
<1> QED BY <1>1, <1>2, ReadingStep

LEMMA FailPreserves ==
    ASSUME IInv, NEW w \in Workers, ~At(w, "idle"), Fail(w),
           UNCHANGED <<markingVars, objectVars, transitionVars, crashes>>
    PROVE  IInv'
<1>1. first_token_timestamp' \in SUBSET Places
  BY DEF IInv, TypeOK, objectVars
<1>2. WorkerOK(tokens, worker'[w])
  BY FailStep, IdleTyped DEF IInv
<1> QED BY <1>1, <1>2, FailStep, QuietStep DEF IInv, objectVars

-----------------------------------------------------------------------------
(* The broker's side.                                                      *)

LEMMA ReceivePreserves ==
    ASSUME IInv, NEW w \in Workers, Receive(w)
    PROVE  IInv'
<1> USE DEF IInv
<1>1. PICK m \in Messages :
          /\ queue[m] > 0
          /\ queue' = [queue EXCEPT ![m] = @ - 1]
          /\ worker' = [worker EXCEPT ![w].pc = FirstStep[m.type], ![w].msg = m]
  BY DEF Receive
<1>2. FirstStep[m.type] \in {"create", "read", "consume"}
  BY MessageTypes DEF FirstStep
<1>3. /\ worker' \in [Workers -> Worker]
      /\ \A v \in Workers : v # w => worker'[v] = worker[v]
      /\ worker'[w].pc = FirstStep[m.type] /\ worker'[w].msg = m
  BY ZenonT(60), <1>1, <1>2 DEF TypeOK, Worker
<1>4. /\ FirstStep[m.type] = "create" => m \in Requests
      /\ FirstStep[m.type] = "read" => m.place \in Places /\ m.color \in Colors
      /\ FirstStep[m.type] = "consume" => m \in NotifyTransitionMessage
  BY MessageTypes DEF FirstStep, NotifyPlaceMessage
<1>5. MessageOK(tokens, m)
  BY <1>1 DEF QueueInv
<1>6. WorkerOK(tokens, worker'[w])
  BY <1>2, <1>3, <1>4, <1>5 DEF WorkerOK
<1>7. UNCHANGED <<markingVars, objectVars, transitionVars, dead_letters, crashes>>
  BY DEF Receive
<1>8. queue' \in [Messages -> Nat] /\ \A n \in Messages : queue'[n] <= queue[n]
  BY <1>1 DEF TypeOK
<1>9. TypeOK'
  BY <1>3, <1>7, <1>8 DEF TypeOK, markingVars, objectVars, transitionVars
<1>10. Grow /\ TokensInv' /\ GroupsInv' /\ MarkInv' /\ ActiveInv' /\ GroupCount'
  BY <1>7, SameTokens DEF objectVars, transitionVars
<1>11. tokens' = tokens
  BY <1>7 DEF objectVars
<1>12. WorkersInv'
  BY <1>3, <1>6, <1>10, <1>11, WorkersFrame
<1>13. \A n \in Messages : queue'[n] > 0 => queue[n] > 0
  BY <1>8 DEF TypeOK
<1>14. QueueInv'
  BY <1>10, <1>13, QueueFrame
<1>15. TransientTracks'
  BY <1>7 DEF TransientTracks, transitionVars
<1> QED BY <1>9, <1>10, <1>12, <1>14, <1>15

\* Messages go into the queue while nothing else but this worker changes.
LEMMA SendingStep ==
    ASSUME IInv, NEW w \in Workers, NEW m \in Messages, MessageOK(tokens, m),
           queue' = [queue EXCEPT ![m] = @ + 1],
           UNCHANGED <<markingVars, objectVars, transitionVars, dead_letters>>,
           crashes' \in 0 .. MaxCrashes,
           worker' \in [Workers -> Worker],
           \A v \in Workers : v # w => worker'[v] = worker[v],
           WorkerOK(tokens, worker'[w])
    PROVE  IInv'
<1> USE DEF IInv
<1>1. /\ queue' \in [Messages -> Nat]
      /\ \A n \in Messages : n # m => queue'[n] = queue[n]
  BY DEF TypeOK
<1>2. TypeOK'
  BY <1>1 DEF TypeOK, markingVars, objectVars, transitionVars
<1>3. tokens' = tokens
  BY DEF objectVars
<1>4. Grow /\ TokensInv' /\ GroupsInv' /\ MarkInv' /\ ActiveInv' /\ GroupCount'
  BY SameTokens DEF objectVars, transitionVars
<1>5. WorkersInv'
  BY <1>3, <1>4, WorkersFrame
<1>6. QueueInv'
  BY <1>1, <1>3, <1>4, QueueFrame
<1>7. TransientTracks'
  BY DEF TransientTracks, transitionVars
<1> QED BY <1>2, <1>4, <1>5, <1>6, <1>7

LEMMA PublishPreserves ==
    ASSUME IInv, NEW w \in Workers, Publish(w)
    PROVE  IInv'
<1> USE DEF IInv
<1> DEFINE outbox == worker[w].outbox
<1>1. /\ outbox \in Seq(Messages) /\ outbox # <<>>
      /\ worker[w] \in Worker /\ worker[w].pc = "publish"
  BY DEF TypeOK, Publish, At, Worker
<1>2. /\ Head(outbox) \in Messages /\ Tail(outbox) \in Seq(Messages)
      /\ Head(outbox) = outbox[1] /\ 1 \in DOMAIN outbox
      /\ \A i \in DOMAIN Tail(outbox) :
            i + 1 \in DOMAIN outbox /\ Tail(outbox)[i] = outbox[i + 1]
  <2> HIDE DEF outbox
  <2> QED BY <1>1
<1>3. /\ worker[w].msg \in Messages /\ MessageOK(tokens, worker[w].msg)
      /\ \A i \in DOMAIN outbox : MessageOK(tokens, outbox[i])
  BY <1>1 DEF WorkersInv, WorkerOK
<1>4. worker' = [worker EXCEPT ![w].outbox = Tail(outbox)]
  BY DEF Publish
<1>5. /\ worker' \in [Workers -> Worker]
      /\ \A v \in Workers : v # w => worker'[v] = worker[v]
      /\ worker'[w].pc = "publish" /\ worker'[w].msg = worker[w].msg
      /\ worker'[w].outbox = Tail(outbox)
  <2> HIDE DEF outbox
  <2> QED BY <1>1, <1>2, <1>4 DEF TypeOK, Worker
<1>6. WorkerOK(tokens, worker'[w])
  <2>1. \A i \in DOMAIN worker'[w].outbox : MessageOK(tokens, worker'[w].outbox[i])
    BY <1>2, <1>3, <1>5
  <2> QED BY <1>3, <1>5, <2>1, PublishingOK
<1>7. MessageOK(tokens, Head(outbox))
  BY <1>2, <1>3
<1>8. /\ queue' = [queue EXCEPT ![Head(outbox)] = @ + 1]
      /\ UNCHANGED <<markingVars, objectVars, transitionVars, dead_letters, crashes>>
  BY DEF Publish
<1>9. crashes' \in 0 .. MaxCrashes
  BY <1>8 DEF TypeOK
<1> QED BY <1>2, <1>5, <1>6, <1>7, <1>8, <1>9, SendingStep

LEMMA CrashPreserves ==
    ASSUME IInv, NEW w \in Workers, Crash(w)
    PROVE  IInv'
<1>1. Message(w) \in Messages /\ MessageOK(tokens, Message(w))
  BY HandledMessage DEF Crash, IInv
<1>2. /\ worker' \in [Workers -> Worker] /\ worker'[w] = Idle
      /\ \A v \in Workers : v # w => worker'[v] = worker[v]
  BY IdleTyped DEF Crash, IInv, TypeOK
<1>3. WorkerOK(tokens, worker'[w])
  BY <1>2, IdleTyped
<1>4. crashes' \in 0 .. MaxCrashes
  BY BoundAssumption DEF Crash, IInv, TypeOK
<1> QED BY <1>1, <1>2, <1>3, <1>4, SendingStep DEF Crash

LEMMA AckPreserves ==
    ASSUME IInv, NEW w \in Workers, Ack(w)
    PROVE  IInv'
<1>1. /\ worker' \in [Workers -> Worker] /\ worker'[w] = Idle
      /\ \A v \in Workers : v # w => worker'[v] = worker[v]
  BY IdleTyped DEF Ack, IInv, TypeOK
<1>2. WorkerOK(tokens, worker'[w])
  BY <1>1, IdleTyped
<1>3. /\ UNCHANGED <<markingVars, tokens, color_groups, next_color,
                     transitionVars, queue, crashes>>
      /\ dead_letters' \in [Messages -> Nat]
      /\ first_token_timestamp' \in SUBSET Places
  BY DEF Ack, IInv, TypeOK, objectVars, brokerVars
<1> QED BY <1>1, <1>2, <1>3, QuietStep

-----------------------------------------------------------------------------
(* Handlers up to the notification of the transitions.                     *)

LEMMA PutTokenFailsPreserves ==
    ASSUME IInv, NEW w \in Workers, PutTokenFails(w)
    PROVE  IInv'
BY FailPreserves DEF PutTokenFails, At

LEMMA NotifyPlacePreserves ==
    ASSUME IInv, NEW w \in Workers, NotifyPlace(w)
    PROVE  IInv'
<1> DEFINE m == Message(w)
           token == color_marking[<<m.color, m.place>>]
           notification(t) == [type |-> "notify_transition", transition |-> t,
                               place |-> m.place, token |-> token]
           arcs == PlaceArcsOut[m.place]
           msgs == [i \in DOMAIN arcs |-> notification(arcs[i])]
<1>1. /\ m \in Messages /\ MessageOK(tokens, m)
      /\ m.place \in Places /\ m.color \in Colors
  BY DEF IInv, WorkersInv, WorkerOK, NotifyPlace, At, Message
<1>2. arcs \in Seq(Transitions)
  BY <1>1, NetAssumption
<1>3. token \in TokenIdxs \cup {NoToken}
  BY <1>1 DEF IInv, TypeOK, Cells
<1>4. token # NoToken => Known(tokens, token)
  <2>1. token # NoToken => token \in DOMAIN tokens /\ tokens[token].color = m.color
    BY <1>1 DEF IInv, MarkInv
  <2>2. m.color # NoColor
    BY <1>1, BoundAssumption DEF Colors, NoColor
  <2> QED BY <2>1, <2>2 DEF Known
<1>5. ASSUME token # NoToken, NEW t \in Transitions
      PROVE  notification(t) \in Messages /\ MessageOK(tokens, notification(t))
  BY <1>1, <1>3, <1>4, <1>5 DEF Messages, NotifyTransitionMessage, MessageOK
<1>6. token # NoToken =>
          /\ msgs \in Seq(Messages)
          /\ \A i \in DOMAIN msgs : MessageOK(tokens, msgs[i])
  <2> HIDE DEF m, token, notification, arcs
  <2>1. \A i \in DOMAIN arcs : arcs[i] \in Transitions
    BY <1>2, ElementOf
  <2>2. Len(arcs) \in Nat /\ DOMAIN arcs = 1 .. Len(arcs)
    BY <1>2
  <2>3. token # NoToken => \A i \in 1 .. Len(arcs) : notification(arcs[i]) \in Messages
    BY <1>5, <2>1, <2>2
  <2>4. token # NoToken => [i \in 1 .. Len(arcs) |-> notification(arcs[i])] \in Seq(Messages)
    BY <2>2, <2>3
  <2> QED BY <1>5, <2>1, <2>2, <2>4
<1>7. PICK out \in Seq(Messages) :
          /\ \A i \in DOMAIN out : MessageOK(tokens, out[i])
          /\ PublishAll(w, out)
          /\ first_token_timestamp' \in SUBSET Places
  <2>1. CASE token = NoToken
    <3>1. PublishAll(w, <<>>) /\ first_token_timestamp' \in SUBSET Places
      BY <2>1 DEF NotifyPlace, IInv, TypeOK
    <3>2. <<>> \in Seq(Messages) /\ \A i \in DOMAIN <<>> : MessageOK(tokens, <<>>[i])
      OBVIOUS
    <3> QED BY <3>1, <3>2, Zenon
  <2>2. CASE token # NoToken
    <3>1. PublishAll(w, msgs) /\ first_token_timestamp' \in SUBSET Places
      BY <1>1, <2>2 DEF NotifyPlace, IInv, TypeOK
    <3> QED BY <1>6, <2>2, <3>1
  <2> QED BY <2>1, <2>2
<1>8. WorkerOK(tokens, worker'[w])
  <2> USE DEF Message
  <2> QED BY <1>1, <1>7, PublishAllStep, PublishingOK DEF IInv
<1>9. /\ UNCHANGED <<markingVars, tokens, color_groups, next_color,
                     transitionVars, queue, crashes>>
      /\ dead_letters' \in [Messages -> Nat]
  BY DEF NotifyPlace, IInv, TypeOK, brokerVars
<1> QED BY <1>7, <1>8, <1>9, PublishAllStep, QuietStep DEF IInv

-----------------------------------------------------------------------------
(* consume_tokens, where it leaves the tokens in their places.             *)

\* What notify_transition relies on.
LEMMA Notification ==
    ASSUME IInv, NEW w \in Workers,
           worker[w].pc \in {"consume", "fire", "counted", "push"}
    PROVE  /\ Message(w) \in NotifyTransitionMessage
           /\ Message(w) \in Messages /\ MessageOK(tokens, Message(w))
           /\ Message(w).transition \in Transitions /\ Message(w).place \in Places
           /\ Known(tokens, Message(w).token)
           /\ NotifiedToken(w) \in Token /\ NotifiedToken(w).color \in Colors
           /\ NotifiedToken(w).group \in Groups
           /\ InGroup(color_groups, NotifiedToken(w).color, NotifiedToken(w).group)
           /\ NotifiedToken(w).group \in DOMAIN color_groups
           /\ NotifiedTag(w) \in Tags
<1>1. Message(w) \in NotifyTransitionMessage /\ MessageOK(tokens, Message(w))
  BY DEF IInv, WorkersInv, WorkerOK, Message
<1>2. /\ Message(w).transition \in Transitions /\ Message(w).place \in Places
      /\ Message(w).type = "notify_transition"
  BY <1>1 DEF NotifyTransitionMessage
<1>3. Known(tokens, Message(w).token)
  BY <1>1, <1>2 DEF MessageOK
<1>4. NotifiedToken(w) \in Token
  BY <1>3, ElementOf DEF Known, NotifiedToken, IInv, TypeOK
<1>5. NotifiedToken(w).color \in Colors
  BY <1>3, <1>4 DEF Known, NotifiedToken, Token
<1>6. InGroup(color_groups, NotifiedToken(w).color, NotifiedToken(w).group)
  BY <1>3 DEF IInv, TokensInv, Known, NotifiedToken
<1>7. NotifiedToken(w).group \in DOMAIN color_groups
  BY <1>3, <1>6 DEF InGroup, Known, NotifiedToken
<1>8. NotifiedToken(w).group \in Groups
  BY <1>7, BoundAssumption DEF IInv, TypeOK, Groups
<1>9. NotifiedTag(w) \in Tags
  BY <1>5, <1>8 DEF NotifiedTag, Tag, Tags
<1> QED BY <1>1, <1>2, <1>3, <1>4, <1>5, <1>6, <1>7, <1>8, <1>9 DEF Messages

\* A handler that has nothing more to do, and nothing to report.
LEMMA PublishNothing ==
    ASSUME IInv, NEW w \in Workers, ~At(w, "idle"), PublishAll(w, <<>>)
    PROVE  /\ worker' \in [Workers -> Worker]
           /\ \A v \in Workers : v # w => worker'[v] = worker[v]
           /\ WorkerOK(tokens, worker'[w])
<1>1. <<>> \in Seq(Messages)
  OBVIOUS
<1>2. Message(w) \in Messages /\ MessageOK(tokens, Message(w))
  BY HandledMessage DEF IInv
<1>3. /\ worker' \in [Workers -> Worker]
      /\ \A v \in Workers : v # w => worker'[v] = worker[v]
      /\ worker'[w].pc = "publish" /\ worker'[w].msg = worker[w].msg
      /\ worker'[w].outbox = <<>>
  BY <1>1, PublishAllStep DEF IInv
<1> QED BY <1>2, <1>3, PublishingOK DEF Message

\* A handler that goes on with the same notification.
LEMMA FiringOK ==
    ASSUME IInv, NEW w \in Workers, NEW pc \in {"fire", "counted"},
           worker[w].pc \in {"consume", "fire", "counted", "push"},
           worker'[w].pc = pc, worker'[w].msg = worker[w].msg
    PROVE  WorkerOK(tokens, worker'[w])
BY Notification DEF WorkerOK, Message

LEMMA ConsumeRemainingPreserves ==
    ASSUME IInv, NEW w \in Workers, ConsumeRemaining(w)
    PROVE  IInv'
<1>1. ~At(w, "idle") /\ PublishAll(w, <<>>)
  BY DEF ConsumeRemaining, At
<1>2. /\ UNCHANGED <<markingVars, tokens, color_groups, next_color,
                     transitionVars, queue, crashes>>
      /\ dead_letters' \in [Messages -> Nat]
      /\ first_token_timestamp' \in SUBSET Places
  BY DEF ConsumeRemaining, IInv, TypeOK, objectVars, brokerVars
<1> QED BY <1>1, <1>2, PublishNothing, QuietStep

\* SREM leaves the set non-empty, so that its key stays.
LEMMA ConsumeWaitingPreserves ==
    ASSUME IInv, NEW w \in Workers, ConsumeWaiting(w)
    PROVE  IInv'
<1> DEFINE t == Message(w).transition
           tag == NotifiedTag(w)
           p == Message(w).place
<1>1. t \in Transitions /\ tag \in Tags /\ p \in Places /\ ~At(w, "idle")
  BY Notification DEF ConsumeWaiting, At
<1>2. /\ state' = [state EXCEPT ![t][tag] = @ \ {p}]
      /\ ~(state[t][tag] \subseteq {p})
      /\ PublishAll(w, <<>>)
      /\ UNCHANGED <<markingVars, objectVars, active_tokens, enablers,
                     transient_keys, brokerVars, crashes>>
  BY DEF ConsumeWaiting, NoneAwaited
<1> HIDE DEF t, tag, p
<1>3. /\ state' \in [Transitions -> [Tags -> SUBSET Places]]
      /\ \A u \in Transitions, g \in Tags : state'[u][g] # {} <=> state[u][g] # {}
  BY <1>1, <1>2 DEF IInv, TypeOK
<1>4. TransientTracks'
  BY <1>2, <1>3 DEF IInv, TransientTracks
<1>5. /\ UNCHANGED <<markingVars, tokens, color_groups, next_color,
                     active_tokens, queue, crashes>>
      /\ dead_letters' \in [Messages -> Nat]
      /\ first_token_timestamp' \in SUBSET Places
      /\ enablers' \in [Transitions -> [Tags -> Places \cup {NoPlace}]]
      /\ transient_keys' \in [Transitions -> SUBSET TransientKey]
  BY <1>2 DEF IInv, TypeOK, objectVars, brokerVars
<1> QED BY <1>1, <1>2, <1>3, <1>4, <1>5, PublishNothing, ReadingStep

\* The state set is replaced, and its key added or removed.
LEMMA StateReplaced ==
    ASSUME IInv, NEW t \in Transitions, NEW tag \in Tags, NEW S \in SUBSET Places,
           state' = [state EXCEPT ![t][tag] = S],
           active_tokens' = active_tokens,
           transient_keys' = [transient_keys EXCEPT ![t] =
               IF S = {} THEN @ \ {<<"state", tag>>} ELSE @ \cup {<<"state", tag>>}]
    PROVE  /\ state' \in [Transitions -> [Tags -> SUBSET Places]]
           /\ transient_keys' \in [Transitions -> SUBSET TransientKey]
           /\ TransientTracks'
<1>1. /\ state' \in [Transitions -> [Tags -> SUBSET Places]]
      /\ state'[t][tag] = S
      /\ \A u \in Transitions, g \in Tags :
            u # t \/ g # tag => state'[u][g] = state[u][g]
  BY DEF IInv, TypeOK
<1>2. <<"state", tag>> \in TransientKey
  BY DEF TransientKey
<1>3. transient_keys' \in [Transitions -> SUBSET TransientKey]
  BY <1>2 DEF IInv, TypeOK
<1>4. /\ <<"state", tag>> \in transient_keys'[t] <=> S # {}
      /\ \A u \in Transitions, g \in Tags :
            /\ <<"active_tokens", g>> \in transient_keys'[u] <=>
                  <<"active_tokens", g>> \in transient_keys[u]
            /\ u # t \/ g # tag =>
                  (<<"state", g>> \in transient_keys'[u] <=>
                      <<"state", g>> \in transient_keys[u])
  BY DEF IInv, TypeOK
<1>5. TransientTracks'
  <2>1. ASSUME NEW u \in Transitions, NEW g \in Tags
        PROVE  /\ state'[u][g] # {} <=> <<"state", g>> \in transient_keys'[u]
               /\ active_tokens'[u][g] # {} <=>
                     <<"active_tokens", g>> \in transient_keys'[u]
    <3>1. active_tokens'[u][g] # {} <=> <<"active_tokens", g>> \in transient_keys'[u]
      BY <1>4 DEF IInv, TransientTracks
    <3>2. CASE u = t /\ g = tag
      BY <1>1, <1>4, <3>1, <3>2
    <3>3. CASE u # t \/ g # tag
      BY <1>1, <1>4, <3>1, <3>3 DEF IInv, TransientTracks
    <3> QED BY <3>2, <3>3
  <2> QED BY <2>1 DEF TransientTracks
<1> QED BY <1>1, <1>3, <1>5

LEMMA StateEmptiedReplaces ==
    ASSUME IInv, NEW t \in Transitions, NEW tag \in Tags, StateEmptied(t, tag),
           active_tokens' = active_tokens
    PROVE  /\ state' \in [Transitions -> [Tags -> SUBSET Places]]
           /\ transient_keys' \in [Transitions -> SUBSET TransientKey]
           /\ TransientTracks'
<1>1. {} \in SUBSET Places
  OBVIOUS
<1>2. transient_keys' = [transient_keys EXCEPT ![t] =
          IF {} = {} THEN @ \ {<<"state", tag>>} ELSE @ \cup {<<"state", tag>>}]
  BY DEF StateEmptied
<1> QED BY <1>1, <1>2, StateReplaced DEF StateEmptied

\* What the scripts leave alone when the tokens stay in their places.
Untaken == UNCHANGED <<markingVars, objectVars, active_tokens, enablers,
                       brokerVars, crashes>>

LEMMA UntakenStep ==
    ASSUME IInv, NEW w \in Workers, Untaken,
           state' \in [Transitions -> [Tags -> SUBSET Places]],
           transient_keys' \in [Transitions -> SUBSET TransientKey],
           TransientTracks',
           worker' \in [Workers -> Worker],
           \A v \in Workers : v # w => worker'[v] = worker[v],
           WorkerOK(tokens, worker'[w])
    PROVE  IInv'
<1>1. /\ UNCHANGED <<markingVars, tokens, color_groups, next_color,
                     active_tokens, queue, crashes>>
      /\ dead_letters' \in [Messages -> Nat]
      /\ first_token_timestamp' \in SUBSET Places
      /\ enablers' \in [Transitions -> [Tags -> Places \cup {NoPlace}]]
  BY DEF Untaken, IInv, TypeOK, objectVars, brokerVars
<1> QED BY <1>1, ReadingStep

LEMMA ConsumeEnabledByOtherPreserves ==
    ASSUME IInv, NEW w \in Workers, ConsumeEnabledByOther(w)
    PROVE  IInv'
<1>1. PICK t \in Transitions, tag \in Tags :
          ~At(w, "idle") /\ StateEmptied(t, tag) /\ PublishAll(w, <<>>) /\ Untaken
  BY DEF ConsumeEnabledByOther, Notified, At, Untaken
<1> QED BY <1>1, StateEmptiedReplaces, PublishNothing, UntakenStep DEF Untaken

LEMMA ConsumeAlreadyActivePreserves ==
    ASSUME IInv, NEW w \in Workers, ConsumeAlreadyActive(w)
    PROVE  IInv'
<1>1. PICK t \in Transitions, tag \in Tags :
          /\ worker[w].pc = "consume"
          /\ StateEmptied(t, tag) /\ Goto(w, "fire") /\ Untaken
  BY DEF ConsumeAlreadyActive, Notified, At, Untaken
<1>2. /\ worker' \in [Workers -> Worker]
      /\ \A v \in Workers : v # w => worker'[v] = worker[v]
      /\ worker'[w].pc = "fire" /\ worker'[w].msg = worker[w].msg
  BY <1>1, GotoStep DEF IInv, PCs
<1>3. WorkerOK(tokens, worker'[w])
  BY <1>1, <1>2, FiringOK
<1> QED BY <1>1, <1>2, <1>3, StateEmptiedReplaces, UntakenStep DEF Untaken

LEMMA ConsumeIncompletePreserves ==
    ASSUME IInv, NEW w \in Workers, ConsumeIncomplete(w)
    PROVE  IInv'
<1>1. PICK t \in Transitions, tag \in Tags :
          LET missing == Missing(t, NotifiedToken(w)) IN
          /\ missing # {}
          /\ ~At(w, "idle") /\ PublishAll(w, <<>>) /\ Untaken
          /\ state' = [state EXCEPT ![t][tag] = missing]
          /\ transient_keys' =
                [transient_keys EXCEPT ![t] = @ \cup {<<"state", tag>>}]
  BY DEF ConsumeIncomplete, Notified, At, Untaken
<1> DEFINE missing == Missing(t, NotifiedToken(w))
<1>2. missing \in SUBSET Places
  BY NetAssumption DEF Missing
<1>3. transient_keys' = [transient_keys EXCEPT ![t] =
          IF missing = {} THEN @ \ {<<"state", tag>>} ELSE @ \cup {<<"state", tag>>}]
  BY <1>1
<1>4. /\ state' \in [Transitions -> [Tags -> SUBSET Places]]
      /\ transient_keys' \in [Transitions -> SUBSET TransientKey]
      /\ TransientTracks'
  <2> HIDE DEF missing
  <2> QED BY <1>1, <1>2, <1>3, StateReplaced DEF Untaken, missing
<1> QED BY <1>1, <1>4, PublishNothing, UntakenStep

-----------------------------------------------------------------------------
(* Actions of transitions that make no tokens.                             *)

\* What is active for a notification is a finite set of known tokens.
LEMMA ActiveTokens ==
    ASSUME IInv, NEW w \in Workers,
           worker[w].pc \in {"consume", "fire", "counted", "push"}
    PROVE  /\ Active(w) \in SUBSET TokenIdxs
           /\ IsFiniteSet(Active(w)) /\ Cardinality(Active(w)) \in Nat
           /\ \A i \in Active(w) : Known(tokens, i)
<1>1. Message(w).transition \in Transitions /\ NotifiedTag(w) \in Tags
  BY Notification
<1>2. Active(w) \in SUBSET TokenIdxs
  BY <1>1 DEF IInv, TypeOK, Active
<1>3. IsFiniteSet(TokenIdxs)
  BY FS_Interval, BoundAssumption DEF TokenIdxs
<1>4. IsFiniteSet(Active(w))
  BY <1>2, <1>3, FS_Subset
<1>5. Cardinality(Active(w)) \in Nat
  BY <1>4, FS_CardinalityType
<1>6. \A i \in Active(w) : Known(tokens, i)
  BY <1>1 DEF IInv, ActiveInv, Active
<1> QED BY <1>2, <1>4, <1>5, <1>6

LEMMA FireCountPreserves ==
    ASSUME IInv, NEW w \in Workers, FireCount(w)
    PROVE  IInv'
<1> DEFINE count == Cardinality(Active(w))
<1>1. /\ worker[w].pc = "fire"
      /\ UNCHANGED <<markingVars, objectVars, transitionVars, crashes>>
  BY DEF FireCount, Firing, At
<1>2. CASE Fail(w)
  BY <1>1, <1>2, FailPreserves DEF At
<1>3. CASE /\ worker' = [worker EXCEPT ![w].pc = "counted", ![w].count = count]
           /\ UNCHANGED brokerVars
  <2>1. count \in Nat
    BY <1>1, ActiveTokens
  <2> HIDE DEF count
  <2>2. /\ worker' \in [Workers -> Worker]
        /\ \A v \in Workers : v # w => worker'[v] = worker[v]
        /\ worker'[w].pc = "counted" /\ worker'[w].msg = worker[w].msg
    BY ZenonT(60), <1>3, <2>1 DEF IInv, TypeOK, Worker
  <2>3. WorkerOK(tokens, worker'[w])
    BY <1>1, <2>2, FiringOK
  <2>4. /\ UNCHANGED <<markingVars, tokens, color_groups, next_color,
                       transitionVars, queue, crashes>>
        /\ dead_letters' \in [Messages -> Nat]
        /\ first_token_timestamp' \in SUBSET Places
    BY <1>1, <1>3 DEF IInv, TypeOK, objectVars, brokerVars
  <2> QED BY <2>2, <2>3, <2>4, QuietStep
<1> QED BY <1>2, <1>3 DEF FireCount

LEMMA FireHeadFailsPreserves ==
    ASSUME IInv, NEW w \in Workers, FireHeadFails(w)
    PROVE  IInv'
BY FailPreserves DEF FireHeadFails, At

LEMMA FireNotImplementedPreserves ==
    ASSUME IInv, NEW w \in Workers, FireNotImplemented(w)
    PROVE  IInv'
BY FailPreserves DEF FireNotImplemented, Firing, At

LEMMA PushFailsPreserves ==
    ASSUME IInv, NEW w \in Workers, PushFails(w)
    PROVE  IInv'
BY FailPreserves DEF PushFails, At

\* The action hands on tokens that exist.
LEMMA HandOnStep ==
    ASSUME IInv, NEW w \in Workers,
           worker[w].pc \in {"fire", "counted"},
           NEW new \in Seq(TokenIdxs), \A i \in DOMAIN new : new[i] \in DOMAIN tokens,
           Executed(w, new),
           UNCHANGED <<markingVars, objectVars, transitionVars, brokerVars, crashes>>
    PROVE  IInv'
<1>1. /\ worker' \in [Workers -> Worker]
      /\ \A v \in Workers : v # w => worker'[v] = worker[v]
      /\ worker'[w].pc = "push" /\ worker'[w].msg = worker[w].msg
      /\ worker'[w].new = new
  BY ExecutedStep DEF IInv
<1>2. WorkerOK(tokens, worker'[w])
  BY <1>1, Notification, PushingOK DEF Message
<1>3. /\ UNCHANGED <<markingVars, tokens, color_groups, next_color,
                     transitionVars, queue, crashes>>
      /\ dead_letters' \in [Messages -> Nat]
      /\ first_token_timestamp' \in SUBSET Places
  BY DEF IInv, TypeOK, objectVars, brokerVars
<1> QED BY <1>1, <1>2, <1>3, QuietStep

LEMMA FireSinglePreserves ==
    ASSUME IInv, NEW w \in Workers, FireSingle(w)
    PROVE  IInv'
<1>1. PICK i \in Active(w) : Executed(w, <<i>>)
  BY DEF FireSingle
<1>2. worker[w].pc = "counted"
  BY DEF FireSingle, At
<1>3. i \in TokenIdxs /\ i \in DOMAIN tokens
  BY <1>2, ActiveTokens DEF Known
<1>4. <<i>> \in Seq(TokenIdxs) /\ \A k \in DOMAIN <<i>> : <<i>>[k] \in DOMAIN tokens
  BY <1>3
<1> QED BY <1>1, <1>2, <1>4, HandOnStep DEF FireSingle

LEMMA FireRecordTimePreserves ==
    ASSUME IInv, NEW w \in Workers, FireRecordTime(w)
    PROVE  IInv'
<1>1. PICK new \in SetToSeqs(Active(w)) : Executed(w, new)
  BY DEF FireRecordTime
<1>2. worker[w].pc = "fire"
  BY DEF FireRecordTime, Firing, At
<1>3. new \in [1 .. Cardinality(Active(w)) -> Active(w)]
  BY <1>1 DEF SetToSeqs
<1>4. new \in Seq(TokenIdxs) /\ \A k \in DOMAIN new : new[k] \in DOMAIN tokens
  <2>1. /\ Active(w) \in SUBSET TokenIdxs /\ Cardinality(Active(w)) \in Nat
        /\ \A i \in Active(w) : i \in DOMAIN tokens
    BY <1>2, ActiveTokens DEF Known
  <2> QED BY <1>3, <2>1
<1> QED BY <1>1, <1>2, <1>4, HandOnStep DEF FireRecordTime

LEMMA FireExpirePreserves ==
    ASSUME IInv, NEW w \in Workers, FireExpire(w)
    PROVE  IInv'
<1>1. <<>> \in Seq(TokenIdxs) /\ \A i \in DOMAIN <<>> : <<>>[i] \in DOMAIN tokens
  OBVIOUS
<1> QED BY <1>1, HandOnStep DEF FireExpire, Firing, At

-----------------------------------------------------------------------------
(* Steps that make tokens, which no place and no active set holds yet.     *)

LEMMA CreatingStep ==
    ASSUME IInv, NEW w \in Workers, Grow, Len(tokens') <= MaxTokens,
           UNCHANGED <<markingVars, first_token_timestamp, transitionVars, queue,
                       crashes>>,
           dead_letters' \in [Messages -> Nat],
           color_groups' \in Seq(ColorGroup), Len(color_groups') <= MaxGroups,
           next_color' \in 0 .. MaxColors,
           GroupsInv', TokensInv',
           worker' \in [Workers -> Worker],
           \A v \in Workers : v # w => worker'[v] = worker[v],
           WorkerOK(tokens', worker'[w])
    PROVE  IInv'
<1>1. TypeOK'
  BY DEF IInv, TypeOK, Grow, markingVars, transitionVars
<1>2. WorkersInv'
  BY WorkersFrame DEF IInv
<1>3. QueueInv'
  BY QueueFrame DEF IInv
<1>4. MarkInv' /\ ActiveInv' /\ GroupCount'
  BY MarkingFrame DEF IInv, transitionVars
<1>5. TransientTracks'
  BY DEF IInv, TransientTracks, transitionVars
<1> QED BY <1>1, <1>2, <1>3, <1>4, <1>5 DEF IInv

\* One token, of a color that its group has.
LEMMA AppendStep ==
    ASSUME IInv, NEW w \in Workers, NEW token \in Token,
           Len(tokens) < MaxTokens, tokens' = Append(tokens, token),
           InGroup(color_groups, token.color, token.group),
           UNCHANGED <<markingVars, color_groups, next_color,
                       first_token_timestamp, transitionVars, queue, crashes>>,
           dead_letters' \in [Messages -> Nat],
           worker' \in [Workers -> Worker],
           \A v \in Workers : v # w => worker'[v] = worker[v],
           WorkerOK(tokens', worker'[w])
    PROVE  IInv'
<1>1. /\ tokens \in Seq(Token) /\ Len(tokens) \in Nat
      /\ tokens' \in Seq(Token) /\ Len(tokens') = Len(tokens) + 1
      /\ \A i \in DOMAIN tokens : tokens'[i] = tokens[i]
      /\ \A i \in DOMAIN tokens' : i \in DOMAIN tokens \/ tokens'[i] = token
  BY DEF IInv, TypeOK
<1>2. Grow /\ Len(tokens') <= MaxTokens
  BY <1>1, BoundAssumption DEF Grow
<1>3. TokensInv'
  <2>1. \A i \in DOMAIN tokens' :
            InGroup(color_groups, tokens'[i].color, tokens'[i].group)
    BY <1>1 DEF IInv, TokensInv
  <2> QED BY <2>1 DEF TokensInv, InGroup, ColorsIn
<1>4. GroupsInv'
  BY DEF IInv, GroupsInv, InGroup, ColorsIn
<1>5. /\ color_groups' \in Seq(ColorGroup) /\ Len(color_groups') <= MaxGroups
      /\ next_color' \in 0 .. MaxColors
  BY DEF IInv, TypeOK
<1> QED BY <1>2, <1>3, <1>4, <1>5, CreatingStep

\* The new token has the index after the last.
LEMMA Appended ==
    ASSUME IInv, NEW token, Len(tokens) < MaxTokens, tokens' = Append(tokens, token)
    PROVE  /\ Len(tokens) + 1 \in TokenIdxs /\ Len(tokens) + 1 \in DOMAIN tokens'
           /\ tokens'[Len(tokens) + 1] = token
           /\ <<Len(tokens) + 1>> \in Seq(TokenIdxs)
<1>1. tokens \in Seq(Token) /\ Len(tokens) \in Nat
  BY DEF IInv, TypeOK
<1>2. Len(tokens) + 1 \in TokenIdxs
  BY <1>1, BoundAssumption DEF TokenIdxs
<1>3. Len(tokens) + 1 \in DOMAIN tokens' /\ tokens'[Len(tokens) + 1] = token
  BY <1>1
<1> QED BY <1>2, <1>3

LEMMA CreateTokenPreserves ==
    ASSUME IInv, NEW w \in Workers, CreateToken(w)
    PROVE  IInv'
<1> DEFINE m == Message(w)
           token == NewToken(m.color, m.group, m.data)
<1>1. /\ Len(tokens) < MaxTokens /\ tokens' = Append(tokens, token)
      /\ worker' = [worker EXCEPT ![w].pc = "put", ![w].new = <<Len(tokens) + 1>>]
      /\ UNCHANGED <<markingVars, color_groups, next_color,
                     first_token_timestamp, transitionVars, brokerVars, crashes>>
  BY DEF CreateToken
<1>2. m \in Requests
  BY DEF CreateToken, At, IInv, WorkersInv, WorkerOK, Message
<1>3. /\ m \in Messages /\ m.type = "create_token" /\ m.color \in Colors
      /\ m.group \in Groups /\ m.data \in SUBSET Data
  BY <1>2, RequestTypes
<1>4. token \in Token /\ token.color = m.color /\ token.group = m.group
  BY <1>3 DEF NewToken, Token
<1>5. InGroup(color_groups, token.color, token.group)
  BY <1>2, <1>4 DEF IInv, GroupsInv
<1>6. /\ Len(tokens) + 1 \in TokenIdxs /\ Len(tokens) + 1 \in DOMAIN tokens'
      /\ tokens'[Len(tokens) + 1] = token
      /\ <<Len(tokens) + 1>> \in Seq(TokenIdxs)
  BY <1>1, Appended
<1> HIDE DEF token
<1>7. /\ worker' \in [Workers -> Worker]
      /\ \A v \in Workers : v # w => worker'[v] = worker[v]
      /\ worker'[w].pc = "put" /\ worker'[w].msg = m
      /\ worker'[w].new = <<Len(tokens) + 1>>
  BY ZenonT(60), <1>1, <1>6 DEF IInv, TypeOK, Worker, Message
<1>8. WorkerOK(tokens', worker'[w])
  <2>1. Known(tokens', Len(tokens) + 1)
    BY <1>3, <1>4, <1>6, BoundAssumption DEF Known, Colors, NoColor
  <2>2. MessageOK(tokens', m)
    BY <1>3 DEF MessageOK
  <2> QED BY <1>2, <1>3, <1>4, <1>6, <1>7, <2>1, <2>2 DEF WorkerOK
<1>9. dead_letters' \in [Messages -> Nat] /\ queue' = queue
  BY <1>1 DEF IInv, TypeOK, brokerVars
<1> QED BY <1>1, <1>4, <1>5, <1>7, <1>8, <1>9, AppendStep

\* An action that makes one token, to be pushed.
LEMMA MakeOneStep ==
    ASSUME IInv, NEW w \in Workers, worker[w].pc \in {"fire", "counted"},
           NEW token \in Token, InGroup(color_groups, token.color, token.group),
           Len(tokens) < MaxTokens, tokens' = Append(tokens, token),
           Executed(w, <<Len(tokens) + 1>>),
           UNCHANGED <<markingVars, color_groups, next_color,
                       first_token_timestamp, transitionVars, brokerVars, crashes>>
    PROVE  IInv'
<1>1. /\ Len(tokens) + 1 \in DOMAIN tokens'
      /\ <<Len(tokens) + 1>> \in Seq(TokenIdxs)
  BY Appended
<1>2. /\ worker' \in [Workers -> Worker]
      /\ \A v \in Workers : v # w => worker'[v] = worker[v]
      /\ worker'[w].pc = "push" /\ worker'[w].msg = worker[w].msg
      /\ worker'[w].new = <<Len(tokens) + 1>>
  BY <1>1, ExecutedStep DEF IInv
<1>3. MessageOK(tokens', Message(w)) /\ Message(w) \in NotifyTransitionMessage
  <2>1. Known(tokens, Message(w).token) /\ Message(w) \in NotifyTransitionMessage
    BY Notification
  <2>2. Known(tokens', Message(w).token)
    BY <2>1 DEF IInv, TypeOK, Known
  <2> QED BY <2>1, <2>2 DEF MessageOK
<1>4. WorkerOK(tokens', worker'[w])
  <2>1. \A i \in DOMAIN worker'[w].new : worker'[w].new[i] \in DOMAIN tokens'
    BY <1>1, <1>2
  <2> QED BY <1>2, <1>3, <2>1, PushingOK DEF Message
<1>5. dead_letters' \in [Messages -> Nat] /\ queue' = queue
  BY DEF IInv, TypeOK, brokerVars
<1> QED BY <1>2, <1>4, <1>5, AppendStep

LEMMA FireMergePreserves ==
    ASSUME IInv, NEW w \in Workers, FireMerge(w)
    PROVE  IInv'
<1> DEFINE data == MergedData(Active(w))
           token == NotifiedToken(w)
           made(d) == NewToken(token.color, token.group, d)
<1>1. /\ worker[w].pc = "counted" /\ Len(tokens) < MaxTokens
      /\ UNCHANGED <<markingVars, color_groups, next_color,
                     first_token_timestamp, transitionVars, crashes>>
  BY DEF FireMerge, At
<1>2. /\ token.color \in Colors /\ token.group \in Groups
      /\ InGroup(color_groups, token.color, token.group)
  BY <1>1, Notification
<1>3. data \in SUBSET Data
  <2>1. \A i \in Active(w) : tokens[i] \in Token
    BY <1>1, ActiveTokens, ElementOf DEF Known, IInv, TypeOK
  <2> QED BY <2>1 DEF MergedData, Token
<1>4. ASSUME NEW d \in SUBSET Data
      PROVE  /\ made(d) \in Token
             /\ InGroup(color_groups, made(d).color, made(d).group)
  BY <1>2 DEF NewToken, Token
<1>5. CASE Conflicting(data)
  <2>1. tokens' = Append(tokens, made({})) /\ Fail(w)
    BY <1>5 DEF FireMerge
  <2>2. made({}) \in Token /\ InGroup(color_groups, made({}).color, made({}).group)
    BY <1>4
  <2>3. /\ worker' \in [Workers -> Worker]
        /\ \A v \in Workers : v # w => worker'[v] = worker[v]
        /\ worker'[w] = Idle
        /\ dead_letters' \in [Messages -> Nat] /\ queue' = queue
    BY <1>1, <2>1, FailStep DEF IInv, At
  <2>4. WorkerOK(tokens', worker'[w])
    BY <2>3, IdleTyped
  <2> HIDE DEF made
  <2> QED BY <1>1, <2>1, <2>2, <2>3, <2>4, AppendStep
<1>6. CASE ~Conflicting(data)
  <2>1. /\ tokens' = Append(tokens, made(data)) /\ UNCHANGED brokerVars
        /\ Executed(w, <<Len(tokens) + 1>>)
    BY <1>6 DEF FireMerge
  <2>2. /\ made(data) \in Token
        /\ InGroup(color_groups, made(data).color, made(data).group)
    BY <1>3, <1>4
  <2> HIDE DEF made
  <2> QED BY <1>1, <2>1, <2>2, MakeOneStep
<1> QED BY <1>5, <1>6

LEMMA FireRemoveDataPreserves ==
    ASSUME IInv, NEW w \in Workers, FireRemoveData(w)
    PROVE  IInv'
<1> DEFINE t == Message(w).transition
           token == NotifiedToken(w)
           kept(i) == {d \in tokens[i].data : d[1] \notin RemovedFields[t]}
           made(i) == NewToken(token.color, token.group, kept(i))
<1>1. /\ worker[w].pc = "counted" /\ Len(tokens) < MaxTokens
      /\ Executed(w, <<Len(tokens) + 1>>)
      /\ UNCHANGED <<markingVars, color_groups, next_color,
                     first_token_timestamp, transitionVars, brokerVars, crashes>>
  BY DEF FireRemoveData, At
<1>2. PICK i \in Active(w) : tokens' = Append(tokens, made(i))
  BY DEF FireRemoveData
<1>3. /\ token.color \in Colors /\ token.group \in Groups
      /\ InGroup(color_groups, token.color, token.group)
  BY <1>1, Notification
<1>4. tokens[i] \in Token
  BY <1>1, ActiveTokens, ElementOf DEF Known, IInv, TypeOK
<1>5. kept(i) \in SUBSET Data
  BY <1>4 DEF Token
<1>6. made(i) \in Token /\ InGroup(color_groups, made(i).color, made(i).group)
  <2> HIDE DEF kept
  <2> QED BY <1>3, <1>5 DEF NewToken, Token
<1> HIDE DEF made
<1> QED BY <1>1, <1>2, <1>6, MakeOneStep

LEMMA FireJoinPreserves ==
    ASSUME IInv, NEW w \in Workers, FireJoin(w)
    PROVE  IInv'
<1> DEFINE group == color_groups[NotifiedToken(w).group]
           token == NewToken(group.parent_color, group.parent_group, {})
<1>1. /\ worker[w].pc = "fire" /\ Len(tokens) < MaxTokens
      /\ tokens' = Append(tokens, token)
      /\ Executed(w, <<Len(tokens) + 1>>)
      /\ UNCHANGED <<markingVars, color_groups, next_color,
                     first_token_timestamp, transitionVars, brokerVars, crashes>>
  BY DEF FireJoin, Firing, At
<1>2. NotifiedToken(w).group \in DOMAIN color_groups
  BY <1>1, Notification
<1>3. group \in ColorGroup
  BY <1>2, ElementOf DEF IInv, TypeOK
<1>4. InGroup(color_groups, group.parent_color, group.parent_group)
  BY <1>2 DEF IInv, GroupsInv
<1>5. token \in Token /\ InGroup(color_groups, token.color, token.group)
  <2> HIDE DEF group
  <2> QED BY <1>3, <1>4 DEF NewToken, Token, ColorGroup
<1> HIDE DEF token
<1> QED BY <1>1, <1>5, MakeOneStep

LEMMA Concatenated ==
    ASSUME NEW S, NEW s \in Seq(S), NEW t \in Seq(S)
    PROVE  /\ s \o t \in Seq(S) /\ Len(s \o t) = Len(s) + Len(t)
           /\ \A i \in DOMAIN s : (s \o t)[i] = s[i]
           /\ \A i \in DOMAIN (s \o t) :
                 i \notin DOMAIN s =>
                     i - Len(s) \in 1 .. Len(t) /\ (s \o t)[i] = t[i - Len(s)]
<1>1. /\ s \o t \in Seq(S) /\ Len(s \o t) = Len(s) + Len(t)
      /\ Len(s) \in Nat /\ Len(t) \in Nat
      /\ DOMAIN s = 1 .. Len(s) /\ DOMAIN (s \o t) = 1 .. Len(s) + Len(t)
  OBVIOUS
<1>2. \A i \in 1 .. Len(s) + Len(t) :
          (s \o t)[i] = IF i <= Len(s) THEN s[i] ELSE t[i - Len(s)]
  OBVIOUS
<1>3. \A i \in DOMAIN s : (s \o t)[i] = s[i]
  BY <1>1, <1>2
<1>4. ASSUME NEW i \in DOMAIN (s \o t), i \notin DOMAIN s
      PROVE  i - Len(s) \in 1 .. Len(t) /\ (s \o t)[i] = t[i - Len(s)]
  BY <1>1, <1>2, <1>4
<1> QED BY <1>1, <1>3, <1>4

\* A split allocates the next range of colors and a token for each of them.
LEMMA FireSplitPreserves ==
    ASSUME IInv, NEW w \in Workers, FireSplit(w)
    PROVE  IInv'
<1> DEFINE token == NotifiedToken(w)
           size == SplitSize[Message(w).transition]
           group == [begin |-> next_color, end |-> next_color + size,
                     parent_color |-> token.color, parent_group |-> token.group]
           idx == Len(color_groups) + 1
           made == [i \in 1 .. size |-> NewToken(group.begin + i - 1, idx, {})]
           new == [i \in 1 .. size |-> Len(tokens) + i]
<1>1. /\ worker[w].pc = "fire"
      /\ idx <= MaxGroups /\ next_color + size <= MaxColors
      /\ Len(tokens) + size <= MaxTokens
      /\ color_groups' = Append(color_groups, group)
      /\ next_color' = group.end
      /\ tokens' = tokens \o made
      /\ Executed(w, new)
      /\ UNCHANGED <<markingVars, first_token_timestamp, transitionVars,
                     brokerVars, crashes>>
  BY DEF FireSplit, Firing, At
<1>2. /\ Message(w) \in NotifyTransitionMessage /\ MessageOK(tokens, Message(w))
      /\ token.color \in Colors /\ token.group \in Groups
      /\ InGroup(color_groups, token.color, token.group)
      /\ size \in Nat
  BY <1>1, Notification, NetAssumption
<1>3. /\ tokens \in Seq(Token) /\ Len(tokens) \in Nat
      /\ color_groups \in Seq(ColorGroup) /\ Len(color_groups) \in Nat
      /\ next_color \in 0 .. MaxColors
  BY DEF IInv, TypeOK
<1>4. /\ group.begin = next_color /\ group.end = next_color + size
      /\ group.parent_color = token.color /\ group.parent_group = token.group
      /\ idx \in Groups
  BY <1>1, <1>3, BoundAssumption DEF Groups
<1>5. group \in ColorGroup
  <2> HIDE DEF size, token
  <2> QED BY <1>1, <1>2, <1>3, BoundAssumption DEF ColorGroup
<1>6. \A i \in 1 .. size : /\ made[i] \in Token
                           /\ made[i].color = next_color + i - 1
                           /\ made[i].group = idx
  <2> HIDE DEF size, idx
  <2> QED BY <1>1, <1>2, <1>3, <1>4, BoundAssumption DEF NewToken, Token, Colors
<1> HIDE DEF token, size, group, idx, made, new
<1>7. made \in Seq(Token) /\ Len(made) = size
  <2>1. made = [i \in 1 .. size |-> made[i]]
    BY DEF made
  <2> QED BY <1>2, <1>6, <2>1
<1>8. /\ tokens' \in Seq(Token) /\ Len(tokens') = Len(tokens) + size
      /\ \A i \in DOMAIN tokens : tokens'[i] = tokens[i]
      /\ \A i \in DOMAIN tokens' :
            i \notin DOMAIN tokens =>
                i - Len(tokens) \in 1 .. size /\ tokens'[i] = made[i - Len(tokens)]
  BY <1>1, <1>2, <1>3, <1>7, Concatenated
<1>9. Grow /\ Len(tokens') <= MaxTokens
  BY <1>1, <1>2, <1>3, <1>8 DEF Grow
<1>10. /\ color_groups' \in Seq(ColorGroup) /\ Len(color_groups') = idx
       /\ \A g \in DOMAIN color_groups :
             g \in DOMAIN color_groups' /\ color_groups'[g] = color_groups[g]
       /\ \A g \in DOMAIN color_groups' : g \in DOMAIN color_groups \/ g = idx
       /\ idx \in DOMAIN color_groups' /\ color_groups'[idx] = group
       /\ \A g \in DOMAIN color_groups : g < idx
  BY <1>1, <1>3, <1>5 DEF idx
<1>11. \A c, g : InGroup(color_groups, c, g) => InGroup(color_groups', c, g)
  BY <1>10 DEF InGroup, ColorsIn
<1>12. TokensInv'
  <2>1. ASSUME NEW i \in DOMAIN tokens'
        PROVE  InGroup(color_groups', tokens'[i].color, tokens'[i].group)
    <3>1. CASE i \in DOMAIN tokens
      BY <1>8, <1>11, <3>1 DEF IInv, TokensInv
    <3>2. CASE i \notin DOMAIN tokens
      <4>1. /\ i - Len(tokens) \in 1 .. size
            /\ tokens'[i].color = next_color + (i - Len(tokens)) - 1
            /\ tokens'[i].group = idx
        BY <1>6, <1>8, <3>2
      <4>2. tokens'[i].color \in group.begin .. group.end - 1
        BY <1>2, <1>3, <1>4, <4>1
      <4> QED BY <1>10, <4>1, <4>2 DEF InGroup, ColorsIn
    <3> QED BY <3>1, <3>2
  <2> QED BY <2>1 DEF TokensInv, InGroup, ColorsIn
<1>13. GroupsInv'
  <2>1. ASSUME NEW g \in DOMAIN color_groups'
        PROVE  /\ color_groups'[g].begin <= color_groups'[g].end
               /\ color_groups'[g].end <= next_color'
               /\ InGroup(color_groups', color_groups'[g].parent_color,
                          color_groups'[g].parent_group)
               /\ \A h \in DOMAIN color_groups' :
                     g < h => color_groups'[g].end <= color_groups'[h].begin
    <3>1. CASE g \in DOMAIN color_groups
      <4>1. /\ color_groups'[g] = color_groups[g] /\ color_groups[g] \in ColorGroup
            /\ color_groups[g].begin <= color_groups[g].end
            /\ color_groups[g].end <= next_color
            /\ \A h \in DOMAIN color_groups :
                  g < h => color_groups[g].end <= color_groups[h].begin
        BY <1>3, <1>10, <3>1, ElementOf DEF IInv, GroupsInv
      <4>2. InGroup(color_groups', color_groups'[g].parent_color,
                    color_groups'[g].parent_group)
        BY <1>11, <3>1, <4>1 DEF IInv, GroupsInv
      <4>3. color_groups[g].end \in Int /\ next_color <= next_color'
        BY SMTT(45), <1>1, <1>2, <1>3, <1>4, <4>1, BoundAssumption DEF ColorGroup
      <4>4. color_groups'[g].end <= next_color'
        BY <1>1, <1>2, <1>3, <1>4, <4>1, <4>3
      <4>5. \A h \in DOMAIN color_groups' :
                g < h => color_groups'[g].end <= color_groups'[h].begin
        BY <1>4, <1>10, <4>1
      <4> QED BY <4>1, <4>2, <4>4, <4>5
    <3>2. CASE g = idx
      <4>1. color_groups'[g].begin <= color_groups'[g].end
        BY <1>2, <1>3, <1>4, <1>10, <3>2
      <4>2. color_groups'[g].end <= next_color'
        BY <1>1, <1>2, <1>3, <1>4, <1>10, <3>2
      <4>3. InGroup(color_groups', color_groups'[g].parent_color,
                    color_groups'[g].parent_group)
        BY <1>2, <1>4, <1>10, <1>11, <3>2
      <4>4. \A h \in DOMAIN color_groups' : ~(g < h)
        BY <1>3, <1>10, <3>2 DEF idx
      <4> QED BY <4>1, <4>2, <4>3, <4>4
    <3> QED BY <1>10, <3>1, <3>2
  <2>2. \A m \in Requests : InGroup(color_groups', m.color, m.group)
    BY <1>11 DEF IInv, GroupsInv
  <2> QED BY <2>1, <2>2 DEF GroupsInv, InGroup, ColorsIn
<1>14. new \in Seq(TokenIdxs) /\ \A i \in DOMAIN new : new[i] \in DOMAIN tokens'
  <2>1. \A i \in 1 .. size : new[i] = Len(tokens) + i
    BY DEF new
  <2>2. \A i \in 1 .. size : new[i] \in TokenIdxs /\ new[i] \in DOMAIN tokens'
    BY <1>1, <1>2, <1>3, <1>8, <2>1, BoundAssumption DEF TokenIdxs
  <2>3. new = [i \in 1 .. size |-> new[i]]
    BY DEF new
  <2> QED BY <1>2, <2>2, <2>3
<1>15. /\ worker' \in [Workers -> Worker]
       /\ \A v \in Workers : v # w => worker'[v] = worker[v]
       /\ worker'[w].pc = "push" /\ worker'[w].msg = worker[w].msg
       /\ worker'[w].new = new
  BY <1>1, <1>14, ExecutedStep DEF IInv
<1>16. WorkerOK(tokens', worker'[w])
  <2>1. MessageOK(tokens', Message(w))
    BY <1>2, <1>9, KnownGrows DEF IInv
  <2> QED BY <1>2, <1>14, <1>15, <2>1, PushingOK DEF Message
<1>17. /\ dead_letters' \in [Messages -> Nat] /\ queue' = queue
       /\ Len(color_groups') <= MaxGroups /\ next_color' \in 0 .. MaxColors
  BY <1>1, <1>2, <1>3, <1>4, <1>10, BoundAssumption DEF IInv, TypeOK, brokerVars
<1> QED BY <1>1, <1>9, <1>10, <1>12, <1>13, <1>15, <1>16, <1>17, CreatingStep

-----------------------------------------------------------------------------
(* Steps that mark cells.                                                  *)

LEMMA ColorSets ==
    ASSUME NEW S \in SUBSET Colors
    PROVE  IsFiniteSet(S) /\ Cardinality(S) \in Nat
<1>1. IsFiniteSet(S)
  BY ColorsFinite, FS_Subset
<1> QED BY <1>1, FS_CardinalityType

\* The colors of group g whose cell at place p is among the cells that become
\* marked with the tokens at.
AddedColors(cells, at, g, p) ==
    {c \in Colors : <<c, p>> \in cells /\ tokens[at[<<c, p>>]].group = g}

\* Empty cells become marked with tokens of their colors, and the groups' counts
\* grow with them.
LEMMA Marking ==
    ASSUME IInv, NEW cells \in SUBSET Cells, NEW at,
           \A c \in cells : /\ color_marking[c] = NoToken
                            /\ at[c] \in DOMAIN tokens
                            /\ tokens[at[c]].color = c[1],
           tokens' = tokens,
           color_marking' = [c \in Cells |->
               IF c \in cells THEN at[c] ELSE color_marking[c]],
           group_marking' = [k \in Groups \X Places |->
               group_marking[k] + Cardinality(AddedColors(cells, at, k[1], k[2]))]
    PROVE  /\ color_marking' \in [Cells -> TokenIdxs \cup {NoToken}]
           /\ group_marking' \in [Groups \X Places -> Nat]
           /\ MarkInv' /\ GroupCount'
<1>1. DOMAIN tokens \subseteq TokenIdxs /\ \A i \in DOMAIN tokens : i # NoToken
  BY BoundAssumption DEF IInv, TypeOK, TokenIdxs, NoToken
<1>2. color_marking' \in [Cells -> TokenIdxs \cup {NoToken}]
  BY <1>1 DEF IInv, TypeOK
<1>3. \A g, p : /\ AddedColors(cells, at, g, p) \in SUBSET Colors
                /\ Cardinality(AddedColors(cells, at, g, p)) \in Nat
  BY ColorSets DEF AddedColors
<1>4. group_marking' \in [Groups \X Places -> Nat]
  BY <1>3 DEF IInv, TypeOK
<1>5. MarkInv'
  <2>1. ASSUME NEW c \in Colors, NEW p \in Places,
               color_marking'[<<c, p>>] # NoToken
        PROVE  /\ color_marking'[<<c, p>>] \in DOMAIN tokens
               /\ tokens[color_marking'[<<c, p>>]].color = c
    <3>1. <<c, p>> \in Cells /\ <<c, p>>[1] = c
      BY DEF Cells
    <3>2. CASE <<c, p>> \in cells
      BY <3>1, <3>2
    <3>3. CASE <<c, p>> \notin cells
      BY <2>1, <3>1, <3>3 DEF IInv, MarkInv
    <3> QED BY <3>2, <3>3
  <2> QED BY <2>1 DEF MarkInv
<1>6. GroupCount'
  <2>1. ASSUME NEW g \in Groups, NEW p \in Places
        PROVE  group_marking'[<<g, p>>] = Cardinality(MarkedColors(g, p)')
    <3> DEFINE added == AddedColors(cells, at, g, p)
               marked == MarkedColors(g, p)
    <3>1. MarkedColors(g, p)' = marked \cup added
      <4>1. ASSUME NEW c \in Colors
            PROVE  c \in MarkedColors(g, p)' <=> c \in marked \cup added
        <5>1. <<c, p>> \in Cells
          BY DEF Cells
        <5>2. CASE <<c, p>> \in cells
          BY <1>1, <5>1, <5>2 DEF MarkedColors, AddedColors
        <5>3. CASE <<c, p>> \notin cells
          BY <5>1, <5>3 DEF MarkedColors, AddedColors
        <5> QED BY <5>2, <5>3
      <4> QED BY <4>1 DEF MarkedColors, AddedColors
    <3>2. marked \cap added = {}
      BY DEF MarkedColors, AddedColors
    <3>3. marked \in SUBSET Colors /\ added \in SUBSET Colors
      BY DEF MarkedColors, AddedColors
    <3>4. group_marking'[<<g, p>>] = group_marking[<<g, p>>] + Cardinality(added)
      BY DEF IInv, TypeOK
    <3>5. group_marking[<<g, p>>] = Cardinality(marked)
      BY DEF IInv, GroupCount
    <3> HIDE DEF marked, added
    <3>6. Cardinality(marked \cup added) = Cardinality(marked) + Cardinality(added)
      <4>1. /\ IsFiniteSet(marked) /\ IsFiniteSet(added)
            /\ Cardinality(marked) \in Nat /\ Cardinality(added) \in Nat
        BY <3>3, ColorSets
      <4>2. Cardinality(marked \cup added) =
                Cardinality(marked) + Cardinality(added) - Cardinality({})
        BY <3>2, <4>1, FS_Union
      <4> QED BY <4>1, <4>2, FS_EmptySet
    <3> QED BY <3>1, <3>4, <3>5, <3>6
  <2> QED BY <2>1 DEF GroupCount, MarkedColors
<1> QED BY <1>2, <1>4, <1>5, <1>6

LEMMA PutTokenPreserves ==
    ASSUME IInv, NEW w \in Workers, PutToken(w)
    PROVE  IInv'
<1> DEFINE m == Message(w)
           cell == <<m.color, m.place>>
           i == worker[w].new[1]
<1>1. /\ m \in Requests /\ m \in Messages /\ MessageOK(tokens, m)
      /\ m.place \in Places /\ m.color \in Colors /\ m.group \in Groups
      /\ Known(tokens, i)
      /\ tokens[i].color = m.color /\ tokens[i].group = m.group
  BY RequestTypes DEF PutToken, At, IInv, WorkersInv, WorkerOK, Message
<1>2. /\ Goto(w, "read")
      /\ UNCHANGED <<objectVars, transitionVars, brokerVars, crashes>>
  BY DEF PutToken
<1>3. cell \in Cells /\ cell[1] = m.color /\ cell[2] = m.place
  BY <1>1 DEF Cells
<1>4. /\ color_marking' \in [Cells -> TokenIdxs \cup {NoToken}]
      /\ group_marking' \in [Groups \X Places -> Nat]
      /\ MarkInv' /\ GroupCount'
  <2>1. CASE color_marking[cell] # NoToken
    <3>1. UNCHANGED <<markingVars, tokens, color_groups, next_color, active_tokens>>
      BY <1>2, <2>1 DEF PutToken, objectVars, transitionVars
    <3>2. MarkInv' /\ GroupCount'
      BY <3>1, SameTokens
    <3> QED BY <3>1, <3>2 DEF IInv, TypeOK, markingVars
  <2>2. CASE color_marking[cell] = NoToken
    <3> DEFINE at == [c \in {cell} |-> i]
    <3>1. /\ color_marking' = [color_marking EXCEPT ![cell] = i]
          /\ group_marking' = [group_marking EXCEPT ![<<m.group, m.place>>] = @ + 1]
      BY <2>2 DEF PutToken
    <3>2. color_marking' = [c \in Cells |->
              IF c \in {cell} THEN at[c] ELSE color_marking[c]]
      <4> HIDE DEF m, i, cell
      <4> QED BY <1>3, <3>1 DEF IInv, TypeOK
    <3>3. ASSUME NEW g \in Groups, NEW p \in Places
          PROVE  AddedColors({cell}, at, g, p) =
                     IF g = m.group /\ p = m.place THEN {m.color} ELSE {}
      <4> HIDE DEF m, i
      <4> QED BY <1>1 DEF AddedColors
    <3>4. Cardinality({m.color}) = 1 /\ Cardinality({}) = 0
      BY FS_Singleton, FS_EmptySet
    <3>5. group_marking' = [k \in Groups \X Places |->
              group_marking[k] + Cardinality(AddedColors({cell}, at, k[1], k[2]))]
      <4>1. ASSUME NEW g \in Groups, NEW p \in Places
            PROVE  group_marking'[<<g, p>>] = group_marking[<<g, p>>]
                       + Cardinality(AddedColors({cell}, at, g, p))
        <5> HIDE DEF m, i, cell, at
        <5>1. group_marking[<<g, p>>] \in Nat
          BY DEF IInv, TypeOK
        <5>2. CASE g = m.group /\ p = m.place
          BY <3>1, <3>3, <3>4, <5>1, <5>2 DEF IInv, TypeOK
        <5>3. CASE ~(g = m.group /\ p = m.place)
          <6>1. group_marking'[<<g, p>>] = group_marking[<<g, p>>]
            BY <3>1, <5>3 DEF IInv, TypeOK
          <6>2. Cardinality(AddedColors({cell}, at, g, p)) = 0
            BY <3>3, <3>4, <5>3
          <6> QED BY <5>1, <6>1, <6>2
        <5> QED BY <5>2, <5>3
      <4>2. DOMAIN group_marking' = Groups \X Places
            /\ group_marking' = [k \in Groups \X Places |-> group_marking'[k]]
        BY <3>1 DEF IInv, TypeOK
      <4> HIDE DEF m, i, cell, at
      <4>3. \A k \in Groups \X Places : group_marking'[k] = group_marking[k]
                + Cardinality(AddedColors({cell}, at, k[1], k[2]))
        BY <4>1
      <4> QED BY <4>2, <4>3
    <3>6. \A c \in {cell} : /\ color_marking[c] = NoToken
                            /\ at[c] \in DOMAIN tokens
                            /\ tokens[at[c]].color = c[1]
      BY <1>1, <1>3, <2>2 DEF Known
    <3>7. tokens' = tokens
      BY <1>2 DEF objectVars
    <3>8. {cell} \in SUBSET Cells
      BY <1>3
    <3> HIDE DEF m, i, cell, at
    <3> QED BY <3>2, <3>5, <3>6, <3>7, <3>8, Marking
  <2> QED BY <2>1, <2>2
<1>5. /\ worker' \in [Workers -> Worker]
      /\ \A v \in Workers : v # w => worker'[v] = worker[v]
      /\ worker'[w].pc = "read" /\ worker'[w].msg = m
  BY <1>2, GotoStep DEF PCs, IInv, Message
<1>6. tokens' = tokens /\ Grow
  BY <1>2 DEF objectVars, Grow, IInv, TypeOK
<1>7. WorkerOK(tokens', worker'[w])
  BY <1>1, <1>5, <1>6 DEF WorkerOK
<1>8. WorkersInv' /\ QueueInv'
  BY <1>2, <1>5, <1>6, <1>7, WorkersFrame, QueueFrame DEF IInv, brokerVars
<1>9. TypeOK'
  BY <1>2, <1>4, <1>5 DEF IInv, TypeOK, objectVars, transitionVars, brokerVars
<1>10. TransientTracks' /\ TokensInv' /\ GroupsInv' /\ ActiveInv'
  BY <1>2 DEF IInv, TransientTracks, TokensInv, GroupsInv, ActiveInv, InGroup,
              ColorsIn, Known, objectVars, transitionVars
<1> QED BY <1>4, <1>8, <1>9, <1>10 DEF IInv

-----------------------------------------------------------------------------
(* consume_tokens, where it takes the tokens from their places.            *)

\* The colors a notification consumes are of the notified token's group.
LEMMA Consumed ==
    ASSUME IInv, NEW w \in Workers, At(w, "consume"), NEW t \in Transitions
    PROVE  LET token == NotifiedToken(w)
               colors == ConsumedColors(t, token)
           IN  /\ colors \in SUBSET Colors /\ colors # {}
               /\ colors \subseteq ColorsIn(color_groups, token.group)
<1> DEFINE token == NotifiedToken(w)
           colors == ConsumedColors(t, token)
           group == color_groups[token.group]
<1>1. /\ token.color \in Colors /\ token.group \in DOMAIN color_groups
      /\ InGroup(color_groups, token.color, token.group)
  BY Notification DEF At
<1>2. token.color \in ColorsIn(color_groups, token.group)
  BY <1>1, BoundAssumption DEF InGroup, Colors, NoColor
<1>3. group \in ColorGroup /\ group.end <= next_color /\ next_color \in 0 .. MaxColors
  BY <1>1, ElementOf DEF IInv, TypeOK, GroupsInv
<1>4. ColorsIn(color_groups, token.group) \subseteq Colors
  <2>1. group.begin .. group.end - 1 \subseteq Colors
    <3> HIDE DEF group
    <3> QED BY <1>3, BoundAssumption DEF ColorGroup, Colors
  <2> QED BY <2>1 DEF ColorsIn
<1>5. colors = IF IsBarrier(t) THEN ColorsIn(color_groups, token.group)
               ELSE {token.color}
  BY DEF ConsumedColors, GroupColors, ColorsIn
<1> HIDE DEF token, colors, group
<1>6. /\ colors \in SUBSET Colors /\ colors # {}
      /\ colors \subseteq ColorsIn(color_groups, token.group)
  BY <1>1, <1>2, <1>4, <1>5
<1> QED BY <1>6 DEF token, colors

\* The counts of the group shrink by as many tokens as leave their cells, and no
\* other group has a token in these cells.
LEMMA Taking ==
    ASSUME IInv, NEW w \in Workers, At(w, "consume"), NEW t \in Transitions,
           TakeCells(t, NotifiedToken(w)),
           \A c \in ConsumedColors(t, NotifiedToken(w)) \X ArcsIn[t] :
              color_marking[c] # NoToken,
           tokens' = tokens
    PROVE  /\ color_marking' \in [Cells -> TokenIdxs \cup {NoToken}]
           /\ group_marking' \in [Groups \X Places -> Nat]
           /\ MarkInv' /\ GroupCount'
<1> DEFINE token == NotifiedToken(w)
           colors == ConsumedColors(t, token)
           cells == colors \X ArcsIn[t]
<1>1. /\ colors \in SUBSET Colors /\ colors # {}
      /\ colors \subseteq ColorsIn(color_groups, token.group)
      /\ token.group \in DOMAIN color_groups /\ token.group \in Groups
  BY Consumed, Notification DEF At
<1>2. /\ color_marking' = [c \in Cells |->
            IF c \in cells THEN NoToken ELSE color_marking[c]]
      /\ group_marking' = [k \in Groups \X Places |->
            IF k[1] = token.group /\ k[2] \in ArcsIn[t]
            THEN group_marking[k] - Cardinality(colors) ELSE group_marking[k]]
  BY DEF TakeCells
<1>3. /\ \A c \in cells : color_marking[c] # NoToken
      /\ ArcsIn[t] \in SUBSET Places
  BY NetAssumption
<1> HIDE DEF token, colors
<1>4. color_marking' \in [Cells -> TokenIdxs \cup {NoToken}]
  BY <1>2 DEF IInv, TypeOK
<1>5. MarkInv'
  <2>1. ASSUME NEW c \in Colors, NEW p \in Places,
               color_marking'[<<c, p>>] # NoToken
        PROVE  /\ color_marking'[<<c, p>>] \in DOMAIN tokens
               /\ tokens[color_marking'[<<c, p>>]].color = c
    <3>1. <<c, p>> \in Cells
      BY DEF Cells
    <3>2. color_marking'[<<c, p>>] = color_marking[<<c, p>>]
      BY <1>2, <2>1, <3>1
    <3> QED BY <2>1, <3>2 DEF IInv, MarkInv
  <2> QED BY <2>1 DEF MarkInv
\* The tokens in the cells are of the group, and of no other.
<1>6. ASSUME NEW c \in colors, NEW p \in ArcsIn[t]
      PROVE  tokens[color_marking[<<c, p>>]].group = token.group
  <2> DEFINE i == color_marking[<<c, p>>]
  <2>1. c \in Colors /\ p \in Places /\ <<c, p>> \in cells
    BY <1>1, <1>3
  <2>2. i \in DOMAIN tokens /\ tokens[i].color = c
    BY <1>3, <2>1 DEF IInv, MarkInv
  <2>3. c # NoColor
    BY <2>1, BoundAssumption DEF Colors, NoColor
  <2>4. /\ tokens[i].group \in DOMAIN color_groups
        /\ c \in ColorsIn(color_groups, tokens[i].group)
    BY <2>2, <2>3 DEF IInv, TokensInv, InGroup
  <2> QED BY <1>1, <2>1, <2>4, UniqueGroup DEF IInv
<1>7. ASSUME NEW g \in Groups, NEW p \in Places
      PROVE  /\ group_marking'[<<g, p>>] = Cardinality(MarkedColors(g, p)')
             /\ group_marking'[<<g, p>>] \in Nat
  <2> DEFINE marked == MarkedColors(g, p)
  <2>1. /\ group_marking[<<g, p>>] = Cardinality(marked)
        /\ group_marking'[<<g, p>>] =
              IF g = token.group /\ p \in ArcsIn[t]
              THEN group_marking[<<g, p>>] - Cardinality(colors)
              ELSE group_marking[<<g, p>>]
    BY <1>2 DEF IInv, GroupCount
  <2>2. marked \in SUBSET Colors
    BY DEF MarkedColors
  <2>3. ASSUME NEW c \in Colors
        PROVE  c \in MarkedColors(g, p)' <=>
                   c \in marked /\ <<c, p>> \notin cells
    <3>1. <<c, p>> \in Cells
      BY DEF Cells
    <3> QED BY <1>2, <3>1 DEF MarkedColors
  <2>4. MarkedColors(g, p)' \in SUBSET Colors
    BY DEF MarkedColors
  <2>5. CASE g = token.group /\ p \in ArcsIn[t]
    <3>1. colors \subseteq marked
      BY <1>1, <1>3, <1>6, <2>5 DEF MarkedColors
    <3> HIDE DEF marked
    <3>2. MarkedColors(g, p)' = marked \ colors
      BY <2>2, <2>3, <2>4, <2>5
    <3>3. IsFiniteSet(marked) /\ Cardinality(marked) \in Nat
      BY <2>2, ColorSets
    <3>4. marked \cap colors = colors
      BY <3>1
    <3>5. Cardinality(marked \ colors) = Cardinality(marked) - Cardinality(colors)
      BY <3>3, <3>4, FS_Difference
    <3>6. Cardinality(marked \ colors) \in Nat
      BY <2>2, ColorSets
    <3> QED BY <2>1, <2>5, <3>2, <3>5, <3>6
  <2>6. CASE ~(g = token.group /\ p \in ArcsIn[t])
    <3>1. ASSUME NEW c \in marked PROVE <<c, p>> \notin cells
      <4>1. tokens[color_marking[<<c, p>>]].group = g
        BY DEF MarkedColors
      <4> QED BY <1>6, <2>6, <4>1
    <3> HIDE DEF marked
    <3>2. MarkedColors(g, p)' = marked
      BY <2>2, <2>3, <2>4, <3>1
    <3>3. Cardinality(marked) \in Nat
      BY <2>2, ColorSets
    <3> QED BY <2>1, <2>6, <3>2, <3>3
  <2> QED BY <2>5, <2>6
<1>8. group_marking' \in [Groups \X Places -> Nat]
  <2>1. group_marking' = [k \in Groups \X Places |-> group_marking'[k]]
    BY <1>2
  <2>2. \A k \in Groups \X Places : group_marking'[k] \in Nat
    BY <1>7
  <2> QED BY <2>1, <2>2
<1>9. GroupCount'
  BY <1>7 DEF GroupCount, MarkedColors
<1> QED BY <1>4, <1>5, <1>8, <1>9

LEMMA CellSets ==
    ASSUME NEW colors \in SUBSET Colors, colors # {},
           NEW arcs \in SUBSET Places, arcs # {}
    PROVE  /\ colors \X arcs \in SUBSET Cells /\ colors \X arcs # {}
           /\ \A c \in colors \X arcs :
                 c[1] \in Colors /\ c[2] \in Places /\ c = <<c[1], c[2]>>
<1>1. PICK color \in colors, p \in arcs : TRUE
  OBVIOUS
<1>2. <<color, p>> \in colors \X arcs
  BY <1>1
<1> QED BY <1>2 DEF Cells

LEMMA ConsumeEnabledPreserves ==
    ASSUME IInv, NEW w \in Workers, ConsumeEnabled(w)
    PROVE  IInv'
<1> DEFINE token == NotifiedToken(w)
           cells(t) == ConsumedColors(t, token) \X ArcsIn[t]
<1>1. PICK t \in Transitions, tag \in Tags, p \in Places :
          /\ At(w, "consume")
          /\ enablers' = [enablers EXCEPT ![t][tag] = p]
          /\ state' = [state EXCEPT ![t][tag] = {}]
          /\ IF \E c \in cells(t) : color_marking[c] = NoToken
             THEN /\ transient_keys' =
                       [transient_keys EXCEPT ![t] = @ \ {<<"state", tag>>}]
                  /\ PublishAll(w, <<>>)
                  /\ UNCHANGED <<markingVars, active_tokens>>
             ELSE /\ active_tokens' = [active_tokens EXCEPT
                         ![t][tag] = {color_marking[c] : c \in cells(t)}]
                  /\ TakeCells(t, token)
                  /\ transient_keys' = [transient_keys EXCEPT ![t] =
                       (@ \ {<<"state", tag>>}) \cup {<<"active_tokens", tag>>}]
                  /\ Goto(w, "fire")
          /\ UNCHANGED <<objectVars, brokerVars, crashes>>
  BY ZenonT(60) DEF ConsumeEnabled, Notified
<1>2. /\ enablers' \in [Transitions -> [Tags -> Places \cup {NoPlace}]]
      /\ state' \in [Transitions -> [Tags -> SUBSET Places]]
      /\ dead_letters' \in [Messages -> Nat]
      /\ first_token_timestamp' \in SUBSET Places
      /\ UNCHANGED <<tokens, color_groups, next_color, queue, crashes>>
  BY <1>1 DEF IInv, TypeOK, objectVars, brokerVars
\* The script gave up: the state set is gone, and so is its key.
<1>3. CASE \E c \in cells(t) : color_marking[c] = NoToken
  <2>1. StateEmptied(t, tag) /\ UNCHANGED <<markingVars, active_tokens>>
    BY <1>1, <1>3 DEF StateEmptied
  <2>2. /\ worker' \in [Workers -> Worker]
        /\ \A v \in Workers : v # w => worker'[v] = worker[v]
        /\ WorkerOK(tokens, worker'[w])
    BY <1>1, <1>3, PublishNothing DEF At
  <2> QED BY <1>2, <2>1, <2>2, StateEmptiedReplaces, ReadingStep
<1>4. CASE ~ \E c \in cells(t) : color_marking[c] = NoToken
  <2> DEFINE active == {color_marking[c] : c \in cells(t)}
  <2>1. /\ active_tokens' = [active_tokens EXCEPT ![t][tag] = active]
        /\ TakeCells(t, token)
        /\ transient_keys' = [transient_keys EXCEPT ![t] =
               (@ \ {<<"state", tag>>}) \cup {<<"active_tokens", tag>>}]
        /\ Goto(w, "fire")
        /\ \A c \in cells(t) : color_marking[c] # NoToken
    BY <1>1, <1>4
  <2>2. /\ color_marking' \in [Cells -> TokenIdxs \cup {NoToken}]
        /\ group_marking' \in [Groups \X Places -> Nat]
        /\ MarkInv' /\ GroupCount'
    BY <1>1, <1>2, <2>1, Taking
  <2>3. /\ cells(t) \in SUBSET Cells /\ cells(t) # {}
        /\ \A c \in cells(t) : c[1] \in Colors /\ c[2] \in Places /\ c = <<c[1], c[2]>>
    <3>1. /\ ConsumedColors(t, token) \in SUBSET Colors
          /\ ConsumedColors(t, token) # {}
          /\ ArcsIn[t] \in SUBSET Places /\ ArcsIn[t] # {}
      BY <1>1, Consumed, NetAssumption
    <3> QED BY <3>1, CellSets
  <2>4. \A c \in cells(t) : Known(tokens, color_marking[c])
    <3>1. ASSUME NEW c \in cells(t) PROVE Known(tokens, color_marking[c])
      <4>1. /\ color_marking[c] \in DOMAIN tokens
            /\ tokens[color_marking[c]].color = c[1]
        BY <2>1, <2>3 DEF IInv, MarkInv
      <4>2. c[1] # NoColor
        BY <2>3, BoundAssumption DEF Colors, NoColor
      <4> QED BY <4>1, <4>2 DEF Known
    <3> QED BY <3>1
  <2>5. active \in SUBSET TokenIdxs /\ active # {}
    <3>1. DOMAIN tokens \subseteq TokenIdxs
      BY BoundAssumption DEF IInv, TypeOK, TokenIdxs
    <3> QED BY <2>3, <2>4, <3>1 DEF Known
  <2>6. \A i \in active : Known(tokens, i)
    BY <2>4
  <2> HIDE DEF active, token, cells
  <2>7. /\ active_tokens' \in [Transitions -> [Tags -> SUBSET TokenIdxs]]
        /\ active_tokens'[t][tag] = active /\ state'[t][tag] = {}
        /\ \A u \in Transitions, g \in Tags :
              u # t \/ g # tag => /\ active_tokens'[u][g] = active_tokens[u][g]
                                  /\ state'[u][g] = state[u][g]
    BY <1>1, <2>1, <2>5 DEF IInv, TypeOK
  <2>8. /\ transient_keys' \in [Transitions -> SUBSET TransientKey]
        /\ <<"state", tag>> \notin transient_keys'[t]
        /\ <<"active_tokens", tag>> \in transient_keys'[t]
        /\ \A u \in Transitions, g \in Tags, kind \in {"state", "active_tokens"} :
              u # t \/ g # tag =>
                  (<<kind, g>> \in transient_keys'[u] <=>
                      <<kind, g>> \in transient_keys[u])
    BY <2>1 DEF IInv, TypeOK, TransientKey
  <2>9. TransientTracks'
    <3>1. ASSUME NEW u \in Transitions, NEW g \in Tags
          PROVE  /\ state'[u][g] # {} <=> <<"state", g>> \in transient_keys'[u]
                 /\ active_tokens'[u][g] # {} <=>
                       <<"active_tokens", g>> \in transient_keys'[u]
      <4>1. CASE u = t /\ g = tag
        BY <2>5, <2>7, <2>8, <4>1
      <4>2. CASE u # t \/ g # tag
        BY <2>7, <2>8, <4>2 DEF IInv, TransientTracks
      <4> QED BY <4>1, <4>2
    <3> QED BY <3>1 DEF TransientTracks
  <2>10. ActiveInv'
    <3>1. ASSUME NEW u \in Transitions, NEW g \in Tags,
                 NEW i \in active_tokens'[u][g]
          PROVE  Known(tokens, i)
      <4>1. CASE u = t /\ g = tag
        BY <2>6, <2>7, <3>1, <4>1
      <4>2. CASE u # t \/ g # tag
        BY <2>7, <3>1, <4>2 DEF IInv, ActiveInv
      <4> QED BY <4>1, <4>2
    <3> QED BY <1>2, <3>1 DEF ActiveInv, Known
  <2>11. /\ worker' \in [Workers -> Worker]
         /\ \A v \in Workers : v # w => worker'[v] = worker[v]
         /\ worker'[w].pc = "fire" /\ worker'[w].msg = worker[w].msg
    BY <2>1, GotoStep DEF IInv, PCs
  <2>12. WorkerOK(tokens, worker'[w])
    BY <1>1, <2>11, FiringOK DEF At
  <2>13. Grow
    BY <1>2 DEF Grow, IInv, TypeOK
  <2>14. WorkersInv' /\ QueueInv'
    BY <1>2, <2>11, <2>12, <2>13, WorkersFrame, QueueFrame DEF IInv
  <2>15. TypeOK'
    BY <1>2, <2>2, <2>7, <2>8, <2>11 DEF IInv, TypeOK
  <2>16. TokensInv' /\ GroupsInv'
    BY <1>2 DEF IInv, TokensInv, GroupsInv, InGroup, ColorsIn
  <2> QED BY <2>2, <2>9, <2>10, <2>14, <2>15, <2>16 DEF IInv
<1> QED BY <1>3, <1>4

-----------------------------------------------------------------------------
(* push_tokens.                                                            *)

LEMMA MulStep ==
    ASSUME NEW a \in Int, NEW q \in Int, NEW n \in Nat, a <= q
    PROVE  a * n <= q * n
OBVIOUS

\* The k-th of a rows of n entries lies in a row and in a column.
LEMMA PutIndex ==
    ASSUME NEW a \in Nat, NEW n \in Nat, NEW k \in 1 .. a * n
    PROVE  /\ ((k - 1) \div n) + 1 \in 1 .. a
           /\ ((k - 1) % n) + 1 \in 1 .. n
<1> DEFINE q == (k - 1) \div n
<1>1. n > 0
  <2>1. CASE n = 0
    <3>1. a * n = 0
      BY <2>1, Z3
    <3> QED BY <3>1
  <2> QED BY <2>1
<1>2. (k - 1) % n \in 0 .. n - 1
  BY <1>1
<1>3. q \in Int /\ q >= 0 /\ q * n <= k - 1
  BY <1>1, Z3
<1>4. q < a
  <2>1. CASE a <= q
    <3>1. a * n <= q * n
      BY <1>3, <2>1, MulStep
    <3>2. a * n \in Int /\ q * n \in Int
      BY <1>3
    <3> QED BY <1>3, <3>1, <3>2
  <2> QED BY <1>3, <2>1
<1> QED BY <1>1, <1>2, <1>3, <1>4

\* What is pushed are known tokens, to places of the net.
LEMMA PutsTyped ==
    ASSUME IInv, NEW w \in Workers, At(w, "push"),
           \A i \in DOMAIN worker[w].new : tokens[worker[w].new[i]].color # NoColor
    PROVE  LET puts == Puts(Message(w).transition, worker[w].new) IN
           /\ \E n \in Nat : DOMAIN puts = 1 .. n
           /\ \A k \in DOMAIN puts : /\ puts[k].place \in Places
                                     /\ Known(tokens, puts[k].token)
                                     /\ tokens[puts[k].token].color \in Colors
<1> DEFINE t == Message(w).transition
           new == worker[w].new
           puts == Puts(t, new)
           size == Len(ArcsOut[t]) * Len(new)
<1>1. t \in Transitions /\ ArcsOut[t] \in Seq(Places) /\ new \in Seq(TokenIdxs)
  <2>1. worker[w] \in Worker
    BY DEF IInv, TypeOK
  <2> QED BY <2>1, Notification, NetAssumption DEF At, Worker
<1>2. \A i \in DOMAIN new : Known(tokens, new[i])
  BY DEF At, IInv, WorkersInv, WorkerOK, Known
<1>3. Len(ArcsOut[t]) \in Nat /\ Len(new) \in Nat /\ size \in Nat
  <2>1. \A a, b \in Nat : a * b \in Nat
    OBVIOUS
  <2>2. Len(ArcsOut[t]) \in Nat /\ Len(new) \in Nat
    BY <1>1
  <2> QED BY <2>1, <2>2
<1>4. puts = [k \in 1 .. size |->
                 [place |-> ArcsOut[t][((k - 1) \div Len(new)) + 1],
                  token |-> new[((k - 1) % Len(new)) + 1]]]
  BY DEF Puts
<1>5. ASSUME NEW k \in 1 .. size
      PROVE  /\ puts[k].place \in Places /\ Known(tokens, puts[k].token)
             /\ tokens[puts[k].token].color \in Colors
  <2> DEFINE row == ((k - 1) \div Len(new)) + 1
             column == ((k - 1) % Len(new)) + 1
  <2>1. row \in 1 .. Len(ArcsOut[t]) /\ column \in 1 .. Len(new)
    BY <1>3, PutIndex
  <2>2. puts[k].place = ArcsOut[t][row] /\ puts[k].token = new[column]
    <3> HIDE DEF puts, size
    <3>1. puts[k] = [place |-> ArcsOut[t][row], token |-> new[column]]
      BY <1>4, Zenon
    <3> HIDE DEF row, column
    <3> QED BY <3>1
  <2> HIDE DEF row, column, puts, new, t
  <2>3. puts[k].place \in Places
    BY <1>1, <2>1, <2>2
  <2>4. Known(tokens, puts[k].token)
    BY <1>1, <1>2, <2>1, <2>2
  <2>5. tokens[puts[k].token] \in Token
    BY <2>4, ElementOf DEF Known, IInv, TypeOK
  <2> QED BY <2>3, <2>4, <2>5 DEF Known, Token
<1>6. DOMAIN puts = 1 .. size
  BY <1>4
<1> HIDE DEF puts, size
<1>7. /\ \E n \in Nat : DOMAIN puts = 1 .. n
      /\ \A k \in DOMAIN puts : /\ puts[k].place \in Places
                                /\ Known(tokens, puts[k].token)
                                /\ tokens[puts[k].token].color \in Colors
  BY <1>3, <1>5, <1>6
<1> QED BY <1>7 DEF puts

\* Both kinds of push: all the puts were made, or one found its cell taken.
LEMMA PutsMarked ==
    ASSUME IInv, NEW puts,
           \A k \in DOMAIN puts : /\ puts[k].place \in Places
                                  /\ Known(tokens, puts[k].token)
                                  /\ tokens[puts[k].token].color \in Colors,
           MarkPuts(puts, PutsMade(puts)),
           \E n \in Nat : DOMAIN puts = 1 .. n,
           tokens' = tokens
    PROVE  /\ color_marking' \in [Cells -> TokenIdxs \cup {NoToken}]
           /\ group_marking' \in [Groups \X Places -> Nat]
           /\ MarkInv' /\ GroupCount'
<1> DEFINE made == PutsMade(puts)
           cells == {PutCell(puts[k]) : k \in made}
           tokenAt(c) == puts[CHOOSE k \in made : PutCell(puts[k]) = c].token
           at == [c \in cells |-> tokenAt(c)]
<1>1. \A k \in made : k \in DOMAIN puts /\ color_marking[PutCell(puts[k])] = NoToken
  BY DEF PutsMade
<1>2. ASSUME NEW k \in made
      PROVE  /\ PutCell(puts[k]) \in Cells
             /\ PutCell(puts[k])[1] = tokens[puts[k].token].color
  BY <1>1 DEF PutCell, Cells
<1>3. ASSUME NEW c \in cells
      PROVE  /\ c \in Cells /\ color_marking[c] = NoToken
             /\ at[c] \in DOMAIN tokens /\ tokens[at[c]].color = c[1]
  <2> HIDE DEF made
  <2>1. \E k \in made : PutCell(puts[k]) = c
    OBVIOUS
  <2> DEFINE j == CHOOSE k \in made : PutCell(puts[k]) = c
  <2>2. j \in made /\ PutCell(puts[j]) = c
    BY <2>1
  <2>3. at[c] = puts[j].token
    OBVIOUS
  <2> HIDE DEF j, at, cells
  <2> QED BY <1>1, <1>2, <2>2, <2>3 DEF Known
<1>4. color_marking' = [c \in Cells |->
          IF c \in cells THEN at[c] ELSE color_marking[c]]
  BY SMTT(45) DEF MarkPuts
<1>5. group_marking' = [k \in Groups \X Places |->
          group_marking[k] + Cardinality(AddedColors(cells, at, k[1], k[2]))]
  <2> DEFINE added(g, p) == {color \in Colors :
                  /\ <<color, p>> \in cells
                  /\ tokens[tokenAt(<<color, p>>)].group = g}
  <2>1. group_marking' = [k \in Groups \X Places |->
            group_marking[k] + Cardinality(added(k[1], k[2]))]
    BY DEF MarkPuts
  <2>2. \A g, p : added(g, p) = AddedColors(cells, at, g, p)
    <3> HIDE DEF cells
    <3> QED BY DEF AddedColors
  <2> HIDE DEF added, cells, at
  <2> QED BY <2>1, <2>2
<1>6. cells \in SUBSET Cells
  BY <1>3
<1> HIDE DEF cells, at, made
<1> QED BY <1>3, <1>4, <1>5, <1>6, Marking

LEMMA ActiveClearedReplaces ==
    ASSUME IInv, NEW t \in Transitions, NEW tag \in Tags, ActiveCleared(t, tag),
           state' = state, tokens' = tokens
    PROVE  /\ active_tokens' \in [Transitions -> [Tags -> SUBSET TokenIdxs]]
           /\ transient_keys' \in [Transitions -> SUBSET TransientKey]
           /\ TransientTracks' /\ ActiveInv'
<1>1. /\ active_tokens' \in [Transitions -> [Tags -> SUBSET TokenIdxs]]
      /\ active_tokens'[t][tag] = {}
      /\ \A u \in Transitions, g \in Tags :
            u # t \/ g # tag => active_tokens'[u][g] = active_tokens[u][g]
  BY DEF ActiveCleared, IInv, TypeOK
<1>2. /\ transient_keys' \in [Transitions -> SUBSET TransientKey]
      /\ <<"active_tokens", tag>> \notin transient_keys'[t]
      /\ \A u \in Transitions, g \in Tags :
            /\ <<"state", g>> \in transient_keys'[u] <=>
                  <<"state", g>> \in transient_keys[u]
            /\ u # t \/ g # tag =>
                  (<<"active_tokens", g>> \in transient_keys'[u] <=>
                      <<"active_tokens", g>> \in transient_keys[u])
  BY DEF ActiveCleared, IInv, TypeOK
<1>3. ASSUME NEW u \in Transitions, NEW g \in Tags
      PROVE  /\ state'[u][g] # {} <=> <<"state", g>> \in transient_keys'[u]
             /\ active_tokens'[u][g] # {} <=>
                   <<"active_tokens", g>> \in transient_keys'[u]
             /\ active_tokens'[u][g] \subseteq active_tokens[u][g]
  <2>1. CASE u = t /\ g = tag
    BY <1>1, <1>2, <2>1 DEF IInv, TransientTracks
  <2>2. CASE u # t \/ g # tag
    BY <1>1, <1>2, <2>2 DEF IInv, TransientTracks
  <2> QED BY <2>1, <2>2
<1>4. TransientTracks'
  BY <1>3 DEF TransientTracks
<1>5. ActiveInv'
  <2>1. \A u \in Transitions, g \in Tags :
            \A i \in active_tokens'[u][g] : Known(tokens, i)
    BY <1>3 DEF IInv, ActiveInv
  <2> QED BY <2>1 DEF ActiveInv, Known
<1> QED BY <1>1, <1>2, <1>4, <1>5

LEMMA PushTokensPreserves ==
    ASSUME IInv, NEW w \in Workers, PushTokens(w)
    PROVE  IInv'
<1> DEFINE t == Message(w).transition
           tag == NotifiedTag(w)
           new == worker[w].new
           puts == Puts(t, new)
           made == PutsMade(puts)
           msgs == PlaceNotifications(t, new)
<1>1. /\ At(w, "push")
      /\ \A i \in DOMAIN new : tokens[new[i]].color # NoColor
      /\ IF Inactive(t, tag)
         THEN UNCHANGED <<markingVars, active_tokens, transient_keys>>
         ELSE /\ MarkPuts(puts, made)
              /\ IF made = DOMAIN puts
                 THEN ActiveCleared(t, tag)
                 ELSE UNCHANGED <<active_tokens, transient_keys>>
      /\ PublishAll(w, msgs)
      /\ UNCHANGED <<objectVars, state, enablers, brokerVars, crashes>>
  BY DEF PushTokens
<1>2. /\ t \in Transitions /\ tag \in Tags
      /\ Message(w) \in Messages /\ MessageOK(tokens, Message(w))
  BY <1>1, Notification DEF At
<1>3. /\ \E n \in Nat : DOMAIN puts = 1 .. n
      /\ \A k \in DOMAIN puts : /\ puts[k].place \in Places
                                /\ Known(tokens, puts[k].token)
                                /\ tokens[puts[k].token].color \in Colors
  BY <1>1, PutsTyped
<1>4. /\ tokens' = tokens
      /\ UNCHANGED <<color_groups, next_color, queue, crashes, state, enablers>>
      /\ dead_letters' \in [Messages -> Nat]
      /\ first_token_timestamp' \in SUBSET Places
  BY <1>1 DEF IInv, TypeOK, objectVars, brokerVars
<1>5. msgs \in Seq(Messages) /\ \A k \in DOMAIN msgs : MessageOK(tokens, msgs[k])
  <2>1. msgs = [k \in DOMAIN puts |->
                   [type |-> "notify_place", place |-> puts[k].place,
                    color |-> tokens[puts[k].token].color]]
    BY DEF PlaceNotifications
  <2> HIDE DEF puts, msgs
  <2>2. \A k \in DOMAIN puts :
            /\ msgs[k] \in Messages /\ msgs[k].type = "notify_place"
            /\ MessageOK(tokens, msgs[k])
    BY <1>3, <2>1 DEF Messages, NotifyPlaceMessage, MessageOK
  <2>3. PICK n \in Nat : DOMAIN puts = 1 .. n
    BY <1>3
  <2>4. msgs = [k \in 1 .. n |-> msgs[k]]
    BY <2>1, <2>3
  <2> QED BY <2>2, <2>3, <2>4
<1>6. /\ worker' \in [Workers -> Worker]
      /\ \A v \in Workers : v # w => worker'[v] = worker[v]
      /\ worker'[w].pc = "publish" /\ worker'[w].msg = worker[w].msg
      /\ worker'[w].outbox = msgs
  BY <1>1, <1>5, PublishAllStep DEF IInv
<1>7. WorkerOK(tokens, worker'[w])
  BY <1>2, <1>5, <1>6, PublishingOK DEF Message
<1>8. Grow
  BY <1>4 DEF IInv, TypeOK, Grow
<1>9. WorkersInv' /\ QueueInv'
  BY <1>4, <1>6, <1>7, <1>8, WorkersFrame, QueueFrame DEF IInv
<1>10. TokensInv' /\ GroupsInv'
  BY <1>4 DEF IInv, TokensInv, GroupsInv, InGroup, ColorsIn
\* The marking.
<1>11. /\ color_marking' \in [Cells -> TokenIdxs \cup {NoToken}]
       /\ group_marking' \in [Groups \X Places -> Nat]
       /\ MarkInv' /\ GroupCount'
  <2>1. CASE Inactive(t, tag)
    <3>1. UNCHANGED <<markingVars, tokens, color_groups, next_color, active_tokens>>
      BY <1>1, <1>4, <2>1
    <3>2. MarkInv' /\ GroupCount'
      BY <3>1, SameTokens
    <3> QED BY <3>1, <3>2 DEF IInv, TypeOK, markingVars
  <2>2. CASE ~Inactive(t, tag)
    <3>1. MarkPuts(puts, PutsMade(puts))
      BY <1>1, <2>2
    <3> HIDE DEF puts
    <3> QED BY <1>3, <1>4, <3>1, PutsMarked
  <2> QED BY <2>1, <2>2
\* The active set.
<1>12. /\ active_tokens' \in [Transitions -> [Tags -> SUBSET TokenIdxs]]
       /\ transient_keys' \in [Transitions -> SUBSET TransientKey]
       /\ TransientTracks' /\ ActiveInv'
  <2> HIDE DEF t, tag
  <2>1. CASE UNCHANGED <<active_tokens, transient_keys>>
    BY <1>4, <2>1 DEF IInv, TypeOK, TransientTracks, ActiveInv, Known
  <2>2. CASE ActiveCleared(t, tag)
    BY <1>2, <1>4, <2>2, ActiveClearedReplaces
  <2> QED BY <1>1, <2>1, <2>2
<1>13. TypeOK'
  BY <1>4, <1>6, <1>11, <1>12 DEF IInv, TypeOK
<1> QED BY <1>9, <1>10, <1>11, <1>12, <1>13 DEF IInv

-----------------------------------------------------------------------------
(* The invariant.                                                          *)

LEMMA InitEstablishes ==
    ASSUME Init
    PROVE  IInv
<1> USE DEF Init
\* The groups of the clients.
<1>1. /\ color_groups \in Seq(ColorGroup) /\ Len(color_groups) <= MaxGroups
      /\ \A g \in DOMAIN color_groups :
            /\ color_groups[g].parent_color = NoColor
            /\ color_groups[g].begin \in 0 .. MaxColors
            /\ color_groups[g].end \in 0 .. MaxColors
  <2> DEFINE StartGroup == [begin : 0 .. MaxColors, end : 0 .. MaxColors,
                            parent_color : {NoColor}, parent_group : {NoGroup}]
  <2>1. StartGroup \subseteq ColorGroup
    BY DEF ColorGroup
  <2>2. color_groups \in Seq(StartGroup) /\ Len(color_groups) <= MaxGroups
    BY GroupsAssumption
  <2>3. \A g \in DOMAIN color_groups : color_groups[g] \in StartGroup
    <3> HIDE DEF StartGroup
    <3> QED BY <2>2, ElementOf
  <2>4. color_groups \in Seq(ColorGroup)
    <3> HIDE DEF StartGroup
    <3> QED BY <2>1, <2>2, <2>3
  <2> QED BY <2>2, <2>3, <2>4
<1>2. /\ next_color \in 0 .. MaxColors
      /\ \A g \in DOMAIN color_groups : color_groups[g].end <= next_color
  <2>1. CASE color_groups = <<>>
    BY <2>1, BoundAssumption
  <2>2. CASE color_groups # <<>>
    <3> DEFINE last == Len(color_groups)
    <3>1. /\ last \in DOMAIN color_groups /\ last \in Nat
          /\ \A g \in DOMAIN color_groups : g \in Nat /\ (g < last \/ g = last)
      BY <1>1, <2>2
    <3>2. next_color = color_groups[last].end
      BY <2>2 DEF Last
    <3>3. ASSUME NEW g \in DOMAIN color_groups, g < last
          PROVE  color_groups[g].end <= color_groups[last].end
      <4>1. /\ color_groups[g].end <= color_groups[last].begin
            /\ color_groups[last].begin <= color_groups[last].end
        BY <3>1, <3>3, GroupsAssumption
      <4> HIDE DEF last
      <4> QED BY <1>1, <3>1, <4>1, BoundAssumption
    <3> HIDE DEF last
    <3>4. next_color \in 0 .. MaxColors
      BY <1>1, <3>1, <3>2
    <3>5. ASSUME NEW g \in DOMAIN color_groups
          PROVE  color_groups[g].end <= next_color
      <4>1. CASE g < last
        BY <3>2, <3>3, <4>1
      <4>2. CASE g = last
        BY <3>2, <3>4, <4>2, BoundAssumption
      <4> QED BY <3>1, <4>1, <4>2
    <3> QED BY <3>4, <3>5
  <2> QED BY <2>1, <2>2
<1>3. GroupsInv
  <2>1. \A g \in DOMAIN color_groups :
            /\ color_groups[g].begin <= color_groups[g].end
            /\ \A h \in DOMAIN color_groups :
                  g < h => color_groups[g].end <= color_groups[h].begin
    BY GroupsAssumption
  <2>2. \A m \in Requests : InGroup(color_groups, m.color, m.group)
    BY RequestTypes DEF InGroup
  <2> QED BY <1>1, <1>2, <2>1, <2>2 DEF GroupsInv, InGroup
<1>4. TypeOK
  <2>1. queue \in [Messages -> Nat] /\ dead_letters \in [Messages -> Nat]
    OBVIOUS
  <2>2. worker \in [Workers -> Worker]
    BY IdleTyped
  <2>3. crashes \in 0 .. MaxCrashes /\ tokens \in Seq(Token) /\ Len(tokens) <= MaxTokens
    BY BoundAssumption
  <2> QED BY <1>1, <1>2, <2>1, <2>2, <2>3 DEF TypeOK
<1>5. TransientTracks /\ ActiveInv /\ TokensInv
  BY DEF TransientTracks, ActiveInv, TokensInv
<1>6. WorkersInv
  BY IdleTyped DEF WorkersInv
<1>7. QueueInv
  BY RequestTypes DEF QueueInv, MessageOK
<1>8. MarkInv
  BY DEF MarkInv, Cells
<1>9. GroupCount
  <2>1. \A g \in Groups, p \in Places : MarkedColors(g, p) = {}
    BY DEF MarkedColors, Cells
  <2> QED BY <2>1, FS_EmptySet DEF GroupCount
<1> QED BY <1>3, <1>4, <1>5, <1>6, <1>7, <1>8, <1>9 DEF IInv

LEMMA StepPreserves ==
    ASSUME IInv, [Next]_vars
    PROVE  IInv'
<1>1. CASE UNCHANGED vars
  <2>1. /\ UNCHANGED <<markingVars, tokens, color_groups, next_color, active_tokens>>
        /\ TypeOK' /\ WorkersInv' /\ QueueInv' /\ TransientTracks'
    BY <1>1 DEF vars, markingVars, objectVars, transitionVars, brokerVars, IInv,
                TypeOK, WorkersInv, QueueInv, TransientTracks, WorkerOK, MessageOK,
                Known
  <2> QED BY <2>1, SameTokens DEF IInv
<1>2. ASSUME NEW w \in Workers, Receive(w) \/ Crash(w)
      PROVE  IInv'
  BY <1>2, ReceivePreserves, CrashPreserves
<1>3. ASSUME NEW w \in Workers, ConsumeTokens(w)
      PROVE  IInv'
  BY <1>3, ConsumeRemainingPreserves, ConsumeWaitingPreserves,
     ConsumeEnabledByOtherPreserves, ConsumeAlreadyActivePreserves,
     ConsumeIncompletePreserves, ConsumeEnabledPreserves DEF ConsumeTokens
<1>4. ASSUME NEW w \in Workers, Fire(w)
      PROVE  IInv'
  BY <1>4, FireCountPreserves, FireHeadFailsPreserves, FireSinglePreserves,
     FireMergePreserves, FireRemoveDataPreserves, FireRecordTimePreserves,
     FireSplitPreserves, FireJoinPreserves, FireExpirePreserves,
     FireNotImplementedPreserves DEF Fire
<1>5. ASSUME NEW w \in Workers, Handle(w)
      PROVE  IInv'
  BY <1>3, <1>4, <1>5, CreateTokenPreserves, PutTokenPreserves,
     PutTokenFailsPreserves, NotifyPlacePreserves, PushFailsPreserves,
     PushTokensPreserves, PublishPreserves, AckPreserves DEF Handle
<1> QED BY <1>1, <1>2, <1>5 DEF Next

\* Whatever the net, the number of workers and the crashes: the two markings, the
\* active sets, the messages under way and the handlers that hold them stay
\* consistent with each other after every script (IInv).
THEOREM InvariantHolds == Spec => []IInv
<1>1. Init => IInv
  BY InitEstablishes
<1>2. IInv /\ [Next]_vars => IInv'
  BY StepPreserves
<1> QED BY <1>1, <1>2, PTL DEF Spec

\* Every variable keeps its type; no count of a group becomes negative.
THEOREM TypesHold == Spec => []TypeOK
<1>1. IInv => TypeOK
  BY DEF IInv
<1> QED BY <1>1, InvariantHolds, PTL

\* The group counts that barriers decide by are at all times the numbers of the
\* group's colors that are marked, put_token.lua, push_tokens.lua and the two
\* consume_tokens scripts taken together.
THEOREM CountsAgree == Spec => []GroupCount
<1>1. IInv => GroupCount
  BY DEF IInv
<1> QED BY <1>1, InvariantHolds, PTL

\* transient_keys names all the state and active sets, and only those, so that
\* deleting a net leaves none of them behind.
THEOREM TransientKeysComplete == Spec => []TransientTracks
<1>1. IInv => TransientTracks
  BY DEF IInv
<1> QED BY <1>1, InvariantHolds, PTL
=============================================================================
