------------------------------ MODULE PetriNet ------------------------------
(***************************************************************************)
(* The coloured Petri net engine: the marking that Net keeps in Redis, the *)
(* Lua scripts that move tokens, the actions of transitions, and the       *)
(* orchestrator's three message handlers, which drive them.                *)
(*                                                                         *)
(* A worker is one message being handled, each in a process of its own.    *)
(* It runs the handler one Redis command, one script or one published      *)
(* message at a time; between two steps any other worker may run, and the  *)
(* process may crash, which puts its unacknowledged message back into the  *)
(* queue.  A Lua script is atomic, so each is one action.                  *)
(***************************************************************************)
EXTENDS Integers, FiniteSets, Sequences, SequencesExt

CONSTANTS
    Places,         \* the places of the net
    Transitions,    \* its transitions
    ArcsIn,         \* transition -> its set of input places
    ArcsOut,        \* transition -> the list of its output places
    PlaceArcsOut,   \* place -> the list of the transitions it feeds
    Class,          \* transition -> "basic" or "barrier"
    Action,         \* transition -> the action it executes, one of Actions
    SplitSize,      \* transition -> the size argument of a split action
    RemovedFields,  \* transition -> the fields argument of a remove_data action
    GroupsAtStart,  \* the color groups a client allocated before it started
    Requests,       \* the create_token messages published by clients
    Data,           \* the data tokens may carry, as <<field, value>> pairs
    Workers,        \* the messages handled at the same time
    MaxTokens, MaxGroups, MaxColors,    \* bounds: tokens, groups and colors
    CrashAt,        \* the <<message type, pc>> at which a process may crash
    MaxCrashes      \* bound: how often a process crashes

VARIABLES
    color_marking,  \* <<color, place>> -> token index, NoToken where empty
    group_marking,  \* <<group, place>> -> how many tokens of the group
    tokens,         \* the token objects, by index (index 1 is the code's 0)
    color_groups,   \* the color groups, by index (index 1 is the code's 0)
    next_color,     \* the counter colors are allocated from
    first_token_timestamp,      \* the places whose timestamp is set
    state,          \* transition -> tag -> places whose token it waits for
    active_tokens,  \* transition -> tag -> tokens consumed, not yet replaced
    enablers,       \* transition -> tag -> place that enabled it, or NoPlace
    transient_keys, \* transition -> the Redis keys of its non-empty sets
    queue,          \* message -> how many copies the broker has to deliver
    dead_letters,   \* message -> how many copies were rejected
    worker,         \* worker -> the message it handles and how far it is
    crashes,        \* how many crashes there were
    deposited       \* history: the cells a create_token message marked

markingVars == <<color_marking, group_marking>>
objectVars == <<tokens, color_groups, next_color, first_token_timestamp>>
transitionVars == <<state, active_tokens, enablers, transient_keys>>
brokerVars == <<queue, dead_letters>>
vars == <<markingVars, objectVars, transitionVars, brokerVars, worker, crashes, deposited>>

-----------------------------------------------------------------------------
NoToken == 0
NoColor == -1       \* the parent color of a group that has no parent
NoGroup == 0
NoPlace == "no place"

Actions == {"merge", "record_time", "remove_data", "split", "join", "expire",
            "not_implemented"}

Colors == 0 .. MaxColors - 1
Groups == 1 .. MaxGroups
TokenIdxs == 1 .. MaxTokens
Cells == Colors \X Places
Tags == Colors \cup Groups      \* basic transitions go by color, barriers by group

NotifyPlaceMessage ==
    [type : {"notify_place"}, place : Places, color : Colors]
NotifyTransitionMessage ==
    [type : {"notify_transition"}, transition : Transitions, place : Places,
     token : TokenIdxs]
Messages == Requests \cup NotifyPlaceMessage \cup NotifyTransitionMessage

NoMessage == [type |-> "none"]
Idle == [pc |-> "idle", msg |-> NoMessage, count |-> 0, new |-> <<>>,
         outbox |-> <<>>]

-----------------------------------------------------------------------------
(* Tokens, color groups and what a transition needs.                       *)

GroupSizeToLast(g) ==       \* faulty: measures up to cg_last
    color_groups[g].end - 1 - color_groups[g].begin
GroupSize(g) == color_groups[g].end - color_groups[g].begin
GroupColors(g) == color_groups[g].begin .. color_groups[g].end - 1

IsBarrier(t) == Class[t] = "barrier"

\* The suffix of the transition's state and active_tokens keys.
TagByColor(t, token) == token.color     \* faulty: a barrier's too
Tag(t, token) == IF IsBarrier(t) THEN token.group ELSE token.color

\* The colors a transition consumes from each of its input places.
ConsumedColorsButLast(t, token) ==      \* faulty: stops before cg_last
    IF IsBarrier(t) THEN GroupColors(token.group) \ {color_groups[token.group].end - 1}
    ELSE {token.color}
ConsumedColors(t, token) ==
    IF IsBarrier(t) THEN GroupColors(token.group) ELSE {token.color}

\* What the full check finds missing: a barrier only looks at group counts.
Missing(t, token) ==
    IF IsBarrier(t)
    THEN {p \in ArcsIn[t] :
            group_marking[<<token.group, p>>] # GroupSize(token.group)}
    ELSE {p \in ArcsIn[t] : color_marking[<<token.color, p>>] = NoToken}

\* merge_hashes: the union of the tokens' data.
MergedDataSkipsOne(idxs) ==     \* faulty: the loop starts one key late
    UNION {tokens[i].data : i \in {j \in idxs : \E k \in idxs : k < j}}
MergedData(idxs) == UNION {tokens[i].data : i \in idxs}

\* Data that has two values for one field: merge_hashes reports a conflict.
Conflicting(data) ==
    \E x, y \in data : x[1] = y[1] /\ x[2] # y[2]

-----------------------------------------------------------------------------
(* What a worker is at, and the ways a handler ends.                       *)

At(w, pc) == worker[w].pc = pc
Message(w) == worker[w].msg

\* The token a notify_transition message is about.
NotifiedToken(w) == tokens[Message(w).token]
NotifiedTag(w) == Tag(Message(w).transition, NotifiedToken(w))

Goto(w, pc) == worker' = [worker EXCEPT ![w].pc = pc]

\* The handler goes on to publish the given messages, and then is done.
PublishAll(w, msgs) ==
    worker' = [worker EXCEPT ![w].pc = "publish", ![w].outbox = msgs]

\* The handler raised: its message is rejected, which dead-letters it.
Fail(w) ==
    /\ worker' = [worker EXCEPT ![w] = Idle]
    /\ dead_letters' = [dead_letters EXCEPT ![Message(w)] = @ + 1]
    /\ UNCHANGED queue

-----------------------------------------------------------------------------
Init ==
    /\ color_marking = [c \in Cells |-> NoToken]
    /\ group_marking = [c \in Groups \X Places |-> 0]
    /\ tokens = <<>>
    /\ color_groups = GroupsAtStart
    /\ next_color = IF GroupsAtStart = <<>> THEN 0 ELSE Last(GroupsAtStart).end
    /\ first_token_timestamp = {}
    /\ state = [t \in Transitions |-> [g \in Tags |-> {}]]
    /\ active_tokens = [t \in Transitions |-> [g \in Tags |-> {}]]
    /\ enablers = [t \in Transitions |-> [g \in Tags |-> NoPlace]]
    /\ transient_keys = [t \in Transitions |-> {}]
    /\ queue = [m \in Messages |-> IF m \in Requests THEN 1 ELSE 0]
    /\ dead_letters = [m \in Messages |-> 0]
    /\ worker = [w \in Workers |-> Idle]
    /\ crashes = 0
    /\ deposited = {}

-----------------------------------------------------------------------------
(* The broker's side of a handler.                                         *)

FirstStep == [create_token |-> "create", notify_place |-> "read",
              notify_transition |-> "consume"]

Receive(w) ==
    /\ At(w, "idle")
    /\ \E m \in Messages :
          /\ queue[m] > 0
          /\ queue' = [queue EXCEPT ![m] = @ - 1]
          /\ worker' = [worker EXCEPT ![w].pc = FirstStep[m.type],
                                      ![w].msg = m]
    /\ UNCHANGED <<markingVars, objectVars, transitionVars, dead_letters, crashes, deposited>>

Publish(w) ==
    /\ At(w, "publish")
    /\ worker[w].outbox # <<>>
    /\ queue' = [queue EXCEPT ![Head(worker[w].outbox)] = @ + 1]
    /\ worker' = [worker EXCEPT ![w].outbox = Tail(@)]
    /\ UNCHANGED <<markingVars, objectVars, transitionVars, dead_letters, crashes, deposited>>

Ack(w) ==
    /\ At(w, "publish")
    /\ worker[w].outbox = <<>>
    /\ worker' = [worker EXCEPT ![w] = Idle]
    /\ UNCHANGED <<markingVars, objectVars, transitionVars, brokerVars, crashes, deposited>>

\* The process dies: the broker delivers the unacknowledged message again.
Crash(w) ==
    /\ crashes < MaxCrashes
    /\ ~At(w, "idle")
    /\ <<Message(w).type, worker[w].pc>> \in CrashAt
    /\ queue' = [queue EXCEPT ![Message(w)] = @ + 1]
    /\ worker' = [worker EXCEPT ![w] = Idle]
    /\ crashes' = crashes + 1
    /\ UNCHANGED <<markingVars, objectVars, transitionVars, dead_letters, deposited>>

-----------------------------------------------------------------------------
(* create_token and notify_place.                                          *)

NewToken(color, group, data) == [color |-> color, group |-> group, data |-> data]

\* Net.create_token: a new index and a token object only this worker knows.
CreateToken(w) ==
    LET m == Message(w) IN
    /\ At(w, "create")
    /\ Len(tokens) < MaxTokens
    /\ tokens' = Append(tokens, NewToken(m.color, m.group, m.data))
    /\ worker' = [worker EXCEPT ![w].pc = "put",
                                ![w].new = <<Len(tokens) + 1>>]
    /\ UNCHANGED <<markingVars, color_groups, next_color,
                   first_token_timestamp, transitionVars, brokerVars, crashes, deposited>>

\* put_token, whose result its caller ignores.
PutToken(w) ==
    LET m == Message(w)
        cell == <<m.color, m.place>>
    IN
    /\ At(w, "put")
    /\ m.place \in Places
    /\ IF color_marking[cell] = NoToken
       THEN /\ color_marking' =
                 [color_marking EXCEPT ![cell] = worker[w].new[1]]
            /\ group_marking' =
                 [group_marking EXCEPT ![<<m.group, m.place>>] = @ + 1]
            /\ deposited' = deposited \cup {cell}
       ELSE UNCHANGED <<markingVars, deposited>>
    /\ Goto(w, "read")
    /\ UNCHANGED <<objectVars, transitionVars, brokerVars, crashes>>

\* The place does not exist: PlaceNotFoundError.
PutTokenFails(w) ==
    /\ At(w, "put")
    /\ Message(w).place \notin Places
    /\ Fail(w)
    /\ UNCHANGED <<markingVars, objectVars, transitionVars, crashes, deposited>>

\* notify_place: one notification for each transition the place feeds.
NotifyPlace(w) ==
    LET m == Message(w)
        token == color_marking[<<m.color, m.place>>]
        notification(t) == [type |-> "notify_transition", transition |-> t,
                            place |-> m.place, token |-> token]
        arcs == PlaceArcsOut[m.place]
    IN
    /\ At(w, "read")
    /\ IF token = NoToken
       THEN /\ PublishAll(w, <<>>)
            /\ UNCHANGED first_token_timestamp
       ELSE /\ PublishAll(w, [i \in DOMAIN arcs |-> notification(arcs[i])])
            /\ first_token_timestamp' = first_token_timestamp \cup {m.place}
    /\ UNCHANGED <<markingVars, tokens, color_groups, next_color,
                   transitionVars, brokerVars, crashes, deposited>>

-----------------------------------------------------------------------------
(* notify_transition begins with consume_tokens.  The branches of the two  *)
(* scripts, in their order; each guard holds what the ones above it left.  *)

\* The barrier script first counts the notified place.
RemainsAtLeastNone(t, p, token) ==      \* faulty: >= 0
    /\ IsBarrier(t)
    /\ GroupSize(token.group) - group_marking[<<token.group, p>>] >= 0
RemainsNowhere(t, p, token) == FALSE   \* faulty: does not count
RemainsAtPlace(t, p, token) ==
    /\ IsBarrier(t)
    /\ GroupSize(token.group) - group_marking[<<token.group, p>>] > 0

\* The last awaited place has been heard of.
NoneAwaitedBefore(t, tag, p) == state[t][tag] = {}  \* faulty: SCARD before SREM
NoneAwaited(t, tag, p) == state[t][tag] \subseteq {p}

EnabledByNoOther(t, tag, p) == FALSE    \* faulty: enablers not looked at
EnabledByAny(t, tag, p) == enablers[t][tag] # NoPlace   \* faulty: p refused too
EnabledByOther(t, tag, p) == enablers[t][tag] \notin {NoPlace, p}

AlreadyActive(t, tag) == active_tokens[t][tag] # {}

ConsumeRemaining(w) ==
    LET m == Message(w) IN
    /\ At(w, "consume")
    /\ RemainsAtPlace(m.transition, m.place, NotifiedToken(w))
    /\ PublishAll(w, <<>>)
    /\ UNCHANGED <<markingVars, objectVars, transitionVars, brokerVars, crashes, deposited>>

\* SREM of the notified place leaves other places to wait for.
ConsumeWaiting(w) ==
    LET m == Message(w)
        tag == NotifiedTag(w)
    IN
    /\ At(w, "consume")
    /\ ~RemainsAtPlace(m.transition, m.place, NotifiedToken(w))
    /\ ~NoneAwaited(m.transition, tag, m.place)
    /\ state' = [state EXCEPT ![m.transition][tag] = @ \ {m.place}]
    /\ PublishAll(w, <<>>)
    /\ UNCHANGED <<markingVars, objectVars, active_tokens, enablers,
                   transient_keys, brokerVars, crashes, deposited>>

\* From here on the state set is empty and its key no longer transient.
Notified(w, t, tag, p) ==
    /\ At(w, "consume")
    /\ t = Message(w).transition
    /\ tag = NotifiedTag(w)
    /\ p = Message(w).place
    /\ ~RemainsAtPlace(t, p, NotifiedToken(w))
    /\ NoneAwaited(t, tag, p)

StateEmptied(t, tag) ==
    /\ state' = [state EXCEPT ![t][tag] = {}]
    /\ transient_keys' = [transient_keys EXCEPT ![t] = @ \ {<<"state", tag>>}]

ConsumeEnabledByOther(w) ==
    \E t \in Transitions, tag \in Tags, p \in Places :
        /\ Notified(w, t, tag, p)
        /\ EnabledByOther(t, tag, p)
        /\ StateEmptied(t, tag)
        /\ PublishAll(w, <<>>)
        /\ UNCHANGED <<markingVars, objectVars, active_tokens, enablers,
                       brokerVars, crashes, deposited>>

ConsumeAlreadyActive(w) ==
    \E t \in Transitions, tag \in Tags, p \in Places :
        /\ Notified(w, t, tag, p)
        /\ ~EnabledByOther(t, tag, p)
        /\ AlreadyActive(t, tag)
        /\ StateEmptied(t, tag)
        /\ Goto(w, "fire")
        /\ UNCHANGED <<markingVars, objectVars, active_tokens, enablers,
                       brokerVars, crashes, deposited>>

\* The full check: the missing places become the state set.
ConsumeIncomplete(w) ==
    \E t \in Transitions, tag \in Tags, p \in Places :
        LET missing == Missing(t, NotifiedToken(w)) IN
        /\ Notified(w, t, tag, p)
        /\ ~EnabledByOther(t, tag, p)
        /\ ~AlreadyActive(t, tag)
        /\ missing # {}
        /\ state' = [state EXCEPT ![t][tag] = missing]
        /\ transient_keys' =
              [transient_keys EXCEPT ![t] = @ \cup {<<"state", tag>>}]
        /\ PublishAll(w, <<>>)
        /\ UNCHANGED <<markingVars, objectVars, active_tokens, enablers,
                       brokerVars, crashes, deposited>>

\* The cells are emptied and each of their tokens leaves the group's count.
TakeCellsCountingOnly(t, token) ==      \* faulty: no HDEL
    /\ group_marking' = [k \in Groups \X Places |->
          IF k[1] = token.group /\ k[2] \in ArcsIn[t]
          THEN group_marking[k] - Cardinality(ConsumedColors(t, token))
          ELSE group_marking[k]]
    /\ UNCHANGED color_marking
TakeCells(t, token) ==
    LET colors == ConsumedColors(t, token) IN
    /\ color_marking' = [c \in Cells |->
          IF c \in colors \X ArcsIn[t] THEN NoToken ELSE color_marking[c]]
    /\ group_marking' = [k \in Groups \X Places |->
          IF k[1] = token.group /\ k[2] \in ArcsIn[t]
          THEN group_marking[k] - Cardinality(colors) ELSE group_marking[k]]

\* The tokens leave the marking for the active set.  The barrier script gives
\* up, after it wrote the enabler, on a place with the count but not the colors.
ConsumeEnabled(w) ==
    \E t \in Transitions, tag \in Tags, p \in Places :
        LET token == NotifiedToken(w)
            cells == ConsumedColors(t, token) \X ArcsIn[t]
        IN
        /\ Notified(w, t, tag, p)
        /\ ~EnabledByOther(t, tag, p)
        /\ ~AlreadyActive(t, tag)
        /\ Missing(t, token) = {}
        /\ enablers' = [enablers EXCEPT ![t][tag] = p]
        /\ state' = [state EXCEPT ![t][tag] = {}]
        /\ IF \E c \in cells : color_marking[c] = NoToken
           THEN /\ transient_keys' =
                     [transient_keys EXCEPT ![t] = @ \ {<<"state", tag>>}]
                /\ PublishAll(w, <<>>)
                /\ UNCHANGED <<markingVars, active_tokens>>
           ELSE /\ active_tokens' = [active_tokens EXCEPT
                                       ![t][tag] = {color_marking[c] : c \in cells}]
                /\ TakeCells(t, token)
                /\ transient_keys' = [transient_keys EXCEPT ![t] =
                     (@ \ {<<"state", tag>>}) \cup {<<"active_tokens", tag>>}]
                /\ Goto(w, "fire")
        /\ UNCHANGED <<objectVars, brokerVars, crashes, deposited>>

-----------------------------------------------------------------------------
(* TransitionBase.fire: the action turns the active tokens into new ones.  *)

Firing(w, action) ==
    /\ At(w, "fire")
    /\ Action[Message(w).transition] = action

Active(w) == active_tokens[Message(w).transition][NotifiedTag(w)]

\* The action returned these tokens.
Executed(w, new) ==
    worker' = [worker EXCEPT ![w].pc = "push", ![w].new = new,
                             ![w].count = 0]

\* len(active_tokens), which merge tests and remove_data asserts to be 1.
FireCount(w) ==
    /\ Firing(w, "merge") \/ Firing(w, "remove_data")
    /\ LET count == Cardinality(Active(w)) IN
       IF Firing(w, "remove_data") /\ count # 1
       THEN Fail(w)
       ELSE /\ worker' = [worker EXCEPT ![w].pc = "counted", ![w].count = count]
            /\ UNCHANGED brokerVars
    /\ UNCHANGED <<markingVars, objectVars, transitionVars, crashes, deposited>>

\* head(active_tokens) finds nothing when another worker pushed meanwhile.
FireHeadFails(w) ==
    /\ At(w, "counted")
    /\ worker[w].count = 1
    /\ Active(w) = {}
    /\ Fail(w)
    /\ UNCHANGED <<markingVars, objectVars, transitionVars, crashes, deposited>>

\* BasicMergeAction passes a single token on as it is.
FireSingle(w) ==
    /\ At(w, "counted")
    /\ Action[Message(w).transition] = "merge"
    /\ worker[w].count = 1
    /\ \E i \in Active(w) : Executed(w, <<i>>)
    /\ UNCHANGED <<markingVars, objectVars, transitionVars, brokerVars, crashes, deposited>>

\* Any other number of them is merged into a new token of the same color.
FireMerge(w) ==
    LET data == MergedData(Active(w))
        token == NotifiedToken(w)
    IN
    /\ At(w, "counted")
    /\ worker[w].count # 1
    /\ Len(tokens) < MaxTokens
    /\ IF Conflicting(data)
       THEN /\ tokens' = Append(tokens, NewToken(token.color, token.group, {}))
            /\ Fail(w)
       ELSE /\ tokens' = Append(tokens, NewToken(token.color, token.group, data))
            /\ Executed(w, <<Len(tokens) + 1>>)
            /\ UNCHANGED brokerVars
    /\ UNCHANGED <<markingVars, color_groups, next_color,
                   first_token_timestamp, transitionVars, crashes, deposited>>

FireRemoveData(w) ==
    LET t == Message(w).transition
        token == NotifiedToken(w)
    IN
    /\ At(w, "counted")
    /\ Action[t] = "remove_data"
    /\ Len(tokens) < MaxTokens
    /\ \E i \in Active(w) :
          LET kept == {d \in tokens[i].data : d[1] \notin RemovedFields[t]} IN
          tokens' = Append(tokens, NewToken(token.color, token.group, kept))
    /\ Executed(w, <<Len(tokens) + 1>>)
    /\ UNCHANGED <<markingVars, color_groups, next_color,
                   first_token_timestamp, transitionVars, brokerVars, crashes, deposited>>

\* RecordTimeAction returns all the active tokens, in the order SMEMBERS has.
FireRecordTime(w) ==
    /\ Firing(w, "record_time")
    /\ \E new \in SetToSeqs(Active(w)) : Executed(w, new)
    /\ UNCHANGED <<markingVars, objectVars, transitionVars, brokerVars, crashes, deposited>>

\* SplitTransition: a new color group, and a token for each of its colors.
FireSplit(w) ==
    LET token == NotifiedToken(w)
        size == SplitSize[Message(w).transition]
        group == [begin |-> next_color, end |-> next_color + size,
                  parent_color |-> token.color, parent_group |-> token.group]
        idx == Len(color_groups) + 1
    IN
    /\ Firing(w, "split")
    /\ idx <= MaxGroups
    /\ next_color + size <= MaxColors
    /\ Len(tokens) + size <= MaxTokens
    /\ color_groups' = Append(color_groups, group)
    /\ next_color' = group.end
    /\ tokens' = tokens \o
          [i \in 1 .. size |-> NewToken(group.begin + i - 1, idx, {})]
    /\ Executed(w, [i \in 1 .. size |-> Len(tokens) + i])
    /\ UNCHANGED <<markingVars, first_token_timestamp, transitionVars,
                   brokerVars, crashes, deposited>>

\* JoinTransition: one token of the group's parent color.
FireJoin(w) ==
    LET group == color_groups[NotifiedToken(w).group] IN
    /\ Firing(w, "join")
    /\ Len(tokens) < MaxTokens
    /\ tokens' = Append(tokens,
                        NewToken(group.parent_color, group.parent_group, {}))
    /\ Executed(w, <<Len(tokens) + 1>>)
    /\ UNCHANGED <<markingVars, color_groups, next_color,
                   first_token_timestamp, transitionVars, brokerVars, crashes, deposited>>

\* ExpireNetAction returns no tokens.
FireExpire(w) ==
    /\ Firing(w, "expire")
    /\ Executed(w, <<>>)
    /\ UNCHANGED <<markingVars, objectVars, transitionVars, brokerVars, crashes, deposited>>

\* BarrierMergeAction, the default action of a barrier, raises.
FireNotImplemented(w) ==
    /\ Firing(w, "not_implemented")
    /\ Fail(w)
    /\ UNCHANGED <<markingVars, objectVars, transitionVars, crashes, deposited>>

-----------------------------------------------------------------------------
(* push_tokens, and the notifications of the places it pushed to.          *)

\* The puts of push_tokens in its order: place by place, token by token.
Puts(t, new) ==
    [k \in 1 .. Len(ArcsOut[t]) * Len(new) |->
        [place |-> ArcsOut[t][((k - 1) \div Len(new)) + 1],
         token |-> new[((k - 1) % Len(new)) + 1]]]

PutCell(put) == <<tokens[put.token].color, put.place>>

\* The puts that succeed: those before the first that finds its cell taken.
PutsMade(puts) ==
    LET taken(k) == \/ color_marking[PutCell(puts[k])] # NoToken
                    \/ \E j \in 1 .. k - 1 : PutCell(puts[j]) = PutCell(puts[k])
    IN {k \in DOMAIN puts : \A j \in 1 .. k : ~taken(j)}

\* The marking after the puts of the indices made.
MarkPutsUncounted(puts, made) ==        \* faulty: no HINCRBY
    LET cells == {PutCell(puts[k]) : k \in made}
        tokenAt(c) == puts[CHOOSE k \in made : PutCell(puts[k]) = c].token
    IN
    /\ color_marking' = [c \in Cells |->
          IF c \in cells THEN tokenAt(c) ELSE color_marking[c]]
    /\ UNCHANGED group_marking
MarkPutsCountedFirst(puts, made) ==     \* faulty: HINCRBY before HSETNX
    LET cells == {PutCell(puts[k]) : k \in made}
        tokenAt(c) == puts[CHOOSE k \in made : PutCell(puts[k]) = c].token
        tried == {k \in DOMAIN puts : \A j \in 1 .. k - 1 : j \in made}
        counted(g, p) == {k \in tried : /\ puts[k].place = p
                                        /\ tokens[puts[k].token].group = g}
    IN
    /\ color_marking' = [c \in Cells |->
          IF c \in cells THEN tokenAt(c) ELSE color_marking[c]]
    /\ group_marking' = [k \in Groups \X Places |->
          group_marking[k] + Cardinality(counted(k[1], k[2]))]
MarkPuts(puts, made) ==
    LET cells == {PutCell(puts[k]) : k \in made}
        tokenAt(c) == puts[CHOOSE k \in made : PutCell(puts[k]) = c].token
        added(g, p) == {color \in Colors :
            /\ <<color, p>> \in cells
            /\ tokens[tokenAt(<<color, p>>)].group = g}
    IN
    /\ color_marking' = [c \in Cells |->
          IF c \in cells THEN tokenAt(c) ELSE color_marking[c]]
    /\ group_marking' = [k \in Groups \X Places |->
          group_marking[k] + Cardinality(added(k[1], k[2]))]

\* The active set is given up once every put was made.
ActiveForgotten(t, tag) ==      \* faulty: DEL without SREM of its key
    /\ active_tokens' = [active_tokens EXCEPT ![t][tag] = {}]
    /\ UNCHANGED transient_keys
ActiveKept(t, tag) ==           \* faulty: no DEL
    UNCHANGED <<active_tokens, transient_keys>>
ActiveCleared(t, tag) ==
    /\ active_tokens' = [active_tokens EXCEPT ![t][tag] = {}]
    /\ transient_keys' =
          [transient_keys EXCEPT ![t] = @ \ {<<"active_tokens", tag>>}]

\* push_tokens refuses to run without active tokens.
NeverInactive(t, tag) == FALSE  \* faulty: does not look
Inactive(t, tag) == active_tokens[t][tag] = {}

PlaceNotifications(t, new) ==
    LET puts == Puts(t, new) IN
    [k \in DOMAIN puts |-> [type |-> "notify_place", place |-> puts[k].place,
                            color |-> tokens[puts[k].token].color]]

\* A color that no group has cannot be read back: the handler raises.
PushFails(w) ==
    /\ At(w, "push")
    /\ \E i \in DOMAIN worker[w].new : tokens[worker[w].new[i]].color = NoColor
    /\ Fail(w)
    /\ UNCHANGED <<markingVars, objectVars, transitionVars, crashes, deposited>>

\* The result of the script is ignored: the places are notified in any case.
PushTokens(w) ==
    LET t == Message(w).transition
        tag == NotifiedTag(w)
        new == worker[w].new
        puts == Puts(t, new)
        made == PutsMade(puts)
    IN
    /\ At(w, "push")
    /\ \A i \in DOMAIN new : tokens[new[i]].color # NoColor
    /\ IF Inactive(t, tag)
       THEN UNCHANGED <<markingVars, active_tokens, transient_keys>>
       ELSE /\ MarkPuts(puts, made)
            /\ IF made = DOMAIN puts
               THEN ActiveCleared(t, tag)
               ELSE UNCHANGED <<active_tokens, transient_keys>>
    /\ PublishAll(w, PlaceNotifications(t, new))
    /\ UNCHANGED <<objectVars, state, enablers, brokerVars, crashes, deposited>>

-----------------------------------------------------------------------------
ConsumeTokens(w) ==
    \/ ConsumeRemaining(w)
    \/ ConsumeWaiting(w)
    \/ ConsumeEnabledByOther(w)
    \/ ConsumeAlreadyActive(w)
    \/ ConsumeIncomplete(w)
    \/ ConsumeEnabled(w)

Fire(w) ==
    \/ FireCount(w)
    \/ FireHeadFails(w)
    \/ FireSingle(w)
    \/ FireMerge(w)
    \/ FireRemoveData(w)
    \/ FireRecordTime(w)
    \/ FireSplit(w)
    \/ FireJoin(w)
    \/ FireExpire(w)
    \/ FireNotImplemented(w)

\* A handler's next step.
Handle(w) ==
    \/ CreateToken(w)
    \/ PutToken(w)
    \/ PutTokenFails(w)
    \/ NotifyPlace(w)
    \/ ConsumeTokens(w)
    \/ Fire(w)
    \/ PushFails(w)
    \/ PushTokens(w)
    \/ Publish(w)
    \/ Ack(w)

Next == \E w \in Workers : Receive(w) \/ Handle(w) \/ Crash(w)

Spec == Init /\ [][Next]_vars

\* A process that runs goes on, and asks for the next message when it is done.
Fairness == \A w \in Workers : WF_vars(Receive(w)) /\ WF_vars(Handle(w))

FairSpec == Spec /\ Fairness
-----------------------------------------------------------------------------
(* Assumptions about the net and about what its clients send.              *)

ASSUME NetAssumption ==
    /\ IsFiniteSet(Places) /\ IsFiniteSet(Transitions)
    /\ NoPlace \notin Places
    /\ ArcsIn \in [Transitions -> (SUBSET Places) \ {{}}]
    /\ ArcsOut \in [Transitions -> Seq(Places)]
    /\ PlaceArcsOut \in [Places -> Seq(Transitions)]
    /\ \A p \in Places, t \in Transitions :
          p \in ArcsIn[t] <=> \E i \in DOMAIN PlaceArcsOut[p] :
                                 PlaceArcsOut[p][i] = t
    /\ Class \in [Transitions -> {"basic", "barrier"}]
    /\ Action \in [Transitions -> Actions]
    /\ SplitSize \in [Transitions -> Nat]

\* A transition asserts that its action is of the base class it requires: those of
\* barriers are the join and the default one (transitions/base.py).
ASSUME ActionAssumption ==
    \A t \in Transitions :
        Class[t] = "barrier" <=> Action[t] \in {"join", "not_implemented"}

ASSUME BoundAssumption ==
    MaxTokens \in Nat /\ MaxGroups \in Nat /\ MaxColors \in Nat /\ MaxCrashes \in Nat

\* The groups add_color_group made: consecutive ranges of colors from 0.
ASSUME GroupsAssumption ==
    /\ GroupsAtStart \in Seq([begin : 0 .. MaxColors, end : 0 .. MaxColors,
                              parent_color : {NoColor}, parent_group : {NoGroup}])
    /\ Len(GroupsAtStart) <= MaxGroups
    /\ \A g \in DOMAIN GroupsAtStart :
          /\ GroupsAtStart[g].begin <= GroupsAtStart[g].end
          /\ \A h \in DOMAIN GroupsAtStart :
                g < h => GroupsAtStart[g].end <= GroupsAtStart[h].begin

\* A client names a color, and the group that the color is in.
ASSUME RequestAssumption ==
    \A m \in Requests :
        /\ m \in [type : {"create_token"}, place : {m.place}, color : Colors,
                  group : DOMAIN GroupsAtStart, data : SUBSET Data]
        /\ GroupsAtStart[m.group].begin <= m.color
        /\ m.color < GroupsAtStart[m.group].end

-----------------------------------------------------------------------------
(* Types.                                                                  *)

Token == [color : Colors \cup {NoColor}, group : Groups \cup {NoGroup},
          data : SUBSET Data]
ColorGroup == [begin : 0 .. MaxColors, end : 0 .. MaxColors,
               parent_color : Colors \cup {NoColor},
               parent_group : Groups \cup {NoGroup}]
TransientKey == {"state", "active_tokens"} \X Tags
Worker == [pc : {"idle", "create", "put", "read", "consume", "fire", "counted",
                 "push", "publish"},
           msg : Messages \cup {NoMessage}, count : Nat, new : Seq(TokenIdxs),
           outbox : Seq(Messages)]

\* Every variable has its type; in particular no group count is ever negative,
\* however the scripts' HINCRBY +1 and -1 interleave.
TypeOK ==
    /\ color_marking \in [Cells -> TokenIdxs \cup {NoToken}]
    /\ group_marking \in [Groups \X Places -> Nat]
    /\ tokens \in Seq(Token) /\ Len(tokens) <= MaxTokens
    /\ color_groups \in Seq(ColorGroup) /\ Len(color_groups) <= MaxGroups
    /\ next_color \in 0 .. MaxColors
    /\ first_token_timestamp \in SUBSET Places
    /\ state \in [Transitions -> [Tags -> SUBSET Places]]
    /\ active_tokens \in [Transitions -> [Tags -> SUBSET TokenIdxs]]
    /\ enablers \in [Transitions -> [Tags -> Places \cup {NoPlace}]]
    /\ transient_keys \in [Transitions -> SUBSET TransientKey]
    /\ queue \in [Messages -> Nat]
    /\ dead_letters \in [Messages -> Nat]
    /\ worker \in [Workers -> Worker]
    /\ crashes \in 0 .. MaxCrashes

-----------------------------------------------------------------------------
(* Safety.                                                                 *)

MarkedColors(g, p) ==
    {c \in Colors : /\ color_marking[<<c, p>>] # NoToken
                    /\ tokens[color_marking[<<c, p>>]].group = g}

\* The two markings agree: the group marking counts the colors of the group that
\* are marked.  The barrier decides on the counts alone and would otherwise give
\* up on a mismatch (consume_tokens_barrier.lua), so every script must keep them
\* together, put_token on an occupied place and a partial push included.
GroupCount ==
    \A g \in Groups, p \in Places :
        group_marking[<<g, p>>] = Cardinality(MarkedColors(g, p))

\* transient_keys names exactly the state and active sets that exist in Redis.
\* Deleting or expiring a net finds those sets only through it (base.py), so a
\* set left out would outlive the net.
TransientTracks ==
    \A t \in Transitions, tag \in Tags :
        /\ state[t][tag] # {} <=> <<"state", tag>> \in transient_keys[t]
        /\ active_tokens[t][tag] # {} <=>
              <<"active_tokens", tag>> \in transient_keys[t]

\* What a worker has still to publish.
Outgoing(w) == {worker[w].outbox[i] : i \in DOMAIN worker[w].outbox}

\* The message tells transition t, at once or in the end, of a token of this color
\* at place p.
Reports(m, t, p, color) ==
    \/ /\ m.type = "notify_transition"
       /\ m.transition = t /\ m.place = p
       /\ tokens[m.token].color = color
    \/ /\ m.type \in {"notify_place", "create_token"}
       /\ m.place = p /\ m.color = color

\* Such a message is queued, in the hands of a worker who did not come to it, or
\* about to be published.
Pending(t, p, color) ==
    \/ \E m \in Messages : queue[m] > 0 /\ Reports(m, t, p, color)
    \/ \E w \in Workers :
          \/ /\ worker[w].pc \in {"create", "put", "read", "consume"}
             /\ Reports(worker[w].msg, t, p, color)
          \/ \E m \in Outgoing(w) : Reports(m, t, p, color)

\* No wakeup is lost: where a transition has all its tokens of a color (of the
\* group, for a barrier) and has not consumed them, every place it still waits
\* for, and one of its places in any case, is yet to be reported to it.  The
\* state set is read by one script and written by others while tokens arrive,
\* and a place forgotten there leaves the workflow hanging.
NoLostWakeup ==
    \A t \in Transitions, i \in DOMAIN tokens :
        LET token == tokens[i]
            tag == Tag(t, token)
            reported(p) == \A c \in ConsumedColors(t, token) : ~Pending(t, p, c)
        IN
        (/\ token.color # NoColor
         /\ \A c \in ConsumedColors(t, token) \X ArcsIn[t] :
               color_marking[c] # NoToken
         /\ ~AlreadyActive(t, tag))
        =>  /\ \E p \in ArcsIn[t] : ~reported(p)
            /\ \A p \in state[t][tag] : ~reported(p)

Quiescent ==
    /\ \A m \in Messages : queue[m] = 0
    /\ \A w \in Workers : At(w, "idle")

\* Once the broker is drained and nobody works, no transition is left that has
\* all its tokens, and none that consumed tokens and never replaced them: what
\* the net could do it has done.
QuiescentDone ==
    Quiescent =>
        \A t \in Transitions, tag \in Tags :
            /\ active_tokens[t][tag] = {}
            /\ \A i \in DOMAIN tokens :
                  tokens[i].color # NoColor =>
                  \E c \in ConsumedColors(t, tokens[i]) \X ArcsIn[t] :
                      color_marking[c] = NoToken

\* Two notifications of the same firing are not both taken for the enabler: at
\* most one worker at a time executes the action of a transition for a color.
SingleExecutor ==
    \A v, w \in Workers :
        ( /\ worker[v].pc \in {"fire", "counted", "push"}
          /\ worker[w].pc \in {"fire", "counted", "push"}
          /\ Message(v).transition = Message(w).transition
          /\ NotifiedTag(v) = NotifiedTag(w) )
        => v = w

=============================================================================
