-------------------------- MODULE PetriNetPromises --------------------------
(***************************************************************************)
(* Why the engine keeps its promises, and what it needs from the net and   *)
(* from the crashes to do so.  WInv is for the wakeups: what a transition  *)
(* has heard of is spread over its state set, the queues and the handlers, *)
(* and the parts of WInv say how these fit together for each tag, which is *)
(* a color for a basic transition and a group for a barrier.  RInv is for  *)
(* the coloured net: what a handler is about to push replaces what its     *)
(* transition consumed; DInv adds the data that it carries.                *)
(***************************************************************************)
EXTENDS PetriNetInv, PetriNetRefinement

\* A process that pushed its tokens lives until it has notified their places.  If
\* it dies before, its message is delivered again, finds nothing to consume, and
\* the places are never notified.
NotifiesWhatItPushed == <<"notify_transition", "publish">> \notin CrashAt

-----------------------------------------------------------------------------
(* Who carries a message, and what it wakes up.                            *)

\* A handler that has not come to the message yet, or has still to publish it.
Holds(r, m) ==
    \/ r.pc \in {"create", "put", "read", "consume"} /\ r.msg = m
    \/ r.pc = "publish" /\ \E i \in DOMAIN r.outbox : r.outbox[i] = m

Carried(m) == queue[m] > 0 \/ \E w \in Workers : Holds(worker[w], m)

Awaited(t, p, color) == \E m \in Messages : Carried(m) /\ Reports(m, t, p, color)

\* The tags tokens can have, and the colors that go by a tag.
LiveTags(t) ==
    IF IsBarrier(t) THEN {g \in DOMAIN color_groups : GroupColors(g) # {}}
    ELSE Colors
TagColors(t, tag) == IF IsBarrier(t) THEN GroupColors(tag) ELSE {tag}

\* Place p has all the tokens of the tag.
Full(t, tag, p) == \A c \in TagColors(t, tag) : color_marking[<<c, p>>] # NoToken

\* One of them is still to be reported.
AwaitedAt(t, tag, p) == \E c \in TagColors(t, tag) : Awaited(t, p, c)

-----------------------------------------------------------------------------
(* The invariant.                                                          *)

\* Only input places are waited for.
StateInv == \A t \in Transitions, tag \in Tags : state[t][tag] \subseteq ArcsIn[t]

\* What was consumed was consumed for the place that enabled the transition.
EnablerInv ==
    \A t \in Transitions, tag \in Tags :
        active_tokens[t][tag] # {} => enablers[t][tag] # NoPlace

\* A process that dies while it publishes what its place feeds is replaced by one
\* that finds out again.
OutboxOK(toks, r) ==
    /\ r.pc = "read" => r.msg.type # "notify_transition"
    /\ r.pc = "publish" /\ r.msg.type # "notify_transition" =>
          \A i \in DOMAIN r.outbox :
              /\ r.outbox[i].type = "notify_transition"
              /\ r.outbox[i].place = r.msg.place
              /\ toks[r.outbox[i].token].color = r.msg.color

OutboxInv == \A w \in Workers : OutboxOK(tokens, worker[w])

\* A place that is full and in a state set is going to be reported.
WaitingInv ==
    \A t \in Transitions : \A tag \in LiveTags(t), p \in ArcsIn[t] :
        p \in state[t][tag] /\ Full(t, tag, p) => AwaitedAt(t, tag, p)

\* A transition that nothing enabled yet and that has all its tokens is going to be
\* told so.
WakingInv ==
    \A t \in Transitions : \A tag \in LiveTags(t) :
        /\ enablers[t][tag] = NoPlace
        /\ \A p \in ArcsIn[t] : Full(t, tag, p)
        => \E p \in ArcsIn[t] : AwaitedAt(t, tag, p)

WInv ==
    /\ IInv
    /\ StateInv
    /\ EnablerInv
    /\ OutboxInv
    /\ WaitingInv
    /\ WakingInv

\* In a net that puts no second token of a color where the first was consumed, a
\* transition that has all its tokens was not enabled before.
FiredOnce ==
    \A t \in Transitions : \A tag \in LiveTags(t) :
        /\ active_tokens[t][tag] = {}
        /\ \A p \in ArcsIn[t] : Full(t, tag, p)
        => enablers[t][tag] = NoPlace

-----------------------------------------------------------------------------
(* What is enabled has its tokens.                                         *)

Enables(t, tag) == enablers'[t][tag] # enablers[t][tag]

\* The tag's tokens go from all the input places to the active set.
Takes(t, tag) ==
    /\ tag \in LiveTags(t)
    /\ \A c \in TagColors(t, tag), p \in ArcsIn[t] :
          /\ color_marking[<<c, p>>] # NoToken
          /\ color_marking[<<c, p>>] \in active_tokens'[t][tag]
          /\ color_marking'[<<c, p>>] = NoToken

\* Nothing is enabled that does not take all its tokens at once.  enablers is never
\* reset, so a transition that is enabled in vain is lost for the tag.
EnablesWhole ==
    [][\A t \in Transitions, tag \in Tags : Enables(t, tag) => Takes(t, tag)]_vars

-----------------------------------------------------------------------------
(* What was begun is finished.                                             *)

\* A barrier's process lives from when it consumed its tokens until it has pushed.
\* If it dies between, its message is delivered again, counts the tokens it took
\* itself as missing, and gives up (MCSplitCrashWhileFiring).
BarriersSurvive ==
    (\E t \in Transitions : IsBarrier(t)) =>
        \A pc \in {"fire", "push"} : <<"notify_transition", pc>> \notin CrashAt

\* No handler of a notify_transition message raised.
NothingRaised == \A m \in NotifyTransitionMessage : dead_letters[m] = 0

\* The message is about the place that enabled the transition, and a token of the tag.
AboutEnabler(m, t, tag) ==
    /\ m.transition = t
    /\ m.place = enablers[t][tag]
    /\ Known(tokens, m.token)
    /\ Tag(t, tokens[m.token]) = tag

\* A handler that executes the action for the message.  A basic transition that is
\* told again of the place that enabled it executes its action again.
Answers(r, m) ==
    /\ r.msg = m
    /\ \/ r.pc \in {"fire", "counted", "push"}
       \/ r.pc = "consume" /\ ~IsBarrier(m.transition)

\* Somebody does so, is going to, or raised.
Answered(m) ==
    \/ dead_letters[m] > 0
    \/ queue[m] > 0 /\ ~IsBarrier(m.transition)
    \/ \E w \in Workers : Answers(worker[w], m)

\* Where there are active tokens, the notification that enabled the transition is
\* still to be answered.
FinishInv ==
    \A t \in Transitions, tag \in Tags :
        active_tokens[t][tag] # {} =>
            /\ state[t][tag] = {}
            /\ \E m \in NotifyTransitionMessage : AboutEnabler(m, t, tag) /\ Answered(m)

\* Only two actions count the active tokens, both of basic transitions.
CountedInv ==
    \A w \in Workers : At(w, "counted") => ~IsBarrier(Message(w).transition)

FInv == IInv /\ CountedInv /\ FinishInv

-----------------------------------------------------------------------------
(* The coloured net.                                                       *)

\* A process that put a client's token lives until it has notified the place.  If it
\* dies before, its request is delivered again and puts the token again.
PutsOnce ==
    /\ <<"create_token", "read">> \notin CrashAt
    /\ <<"create_token", "publish">> \notin CrashAt

\* Clients ask for one token at each cell.
OneRequestForEachCell ==
    \A m, n \in Requests : m.place = n.place /\ m.color = n.color => m = n

\* A handler that is about to push tokens in place of those it consumed.
Pushing(w) ==
    /\ At(w, "push")
    /\ Active(w) # {}
    /\ \A i \in DOMAIN worker[w].new : tokens[worker[w].new[i]].color # NoColor

WorkerPuts(w) == Puts(Message(w).transition, worker[w].new)

\* push_tokens never finds one of its cells taken after it has filled another.
PushesWhole ==
    \A w \in Workers :
        Pushing(w) => PutsMade(WorkerPuts(w)) \in {{}, DOMAIN WorkerPuts(w)}

\* Nor does it find any of them taken.
PushesAll ==
    \A w \in Workers : Pushing(w) => PutsMade(WorkerPuts(w)) = DOMAIN WorkerPuts(w)

\* What the code leaves to the net, which is safe if it never brings a second token
\* of a color to where there is one, nor a second one to a transition it enabled.
NetIsSafe == FiredOnce /\ PushesAll

\* Active tokens are of a live tag and have its colors.
ActiveTagged ==
    \A t \in Transitions, tag \in Tags :
        active_tokens[t][tag] # {} =>
            /\ tag \in LiveTags(t)
            /\ \A i \in active_tokens[t][tag] : tokens[i].color \in TagColors(t, tag)

\* Where an action is executed its transition was enabled, and only two actions
\* count the active tokens.
FireOK(w) ==
    LET t == Message(w).transition IN
    /\ worker[w].pc \in {"fire", "counted", "push"} =>
          enablers[t][NotifiedTag(w)] # NoPlace
    /\ At(w, "counted") => Action[t] \in {"merge", "remove_data"}

FiringInv == \A w \in Workers : FireOK(w)

NewColors(w) == {tokens[worker[w].new[i]].color : i \in DOMAIN worker[w].new}

\* The colors about to be pushed are those the action gives.  Only record_time can
\* come with nothing in its hands, when another handler has pushed meanwhile.
PushOK(w) ==
    LET t == Message(w).transition
        token == NotifiedToken(w)
        given == NewColors(w)
    IN
    At(w, "push") =>
        /\ Action[t] \in {"merge", "remove_data"} => given = {token.color}
        /\ Action[t] = "record_time" =>
              \/ given = {token.color}
              \/ given = {} /\ active_tokens[t][NotifiedTag(w)] = {}
        /\ Action[t] = "split" =>
              \E g \in DOMAIN color_groups :
                  /\ color_groups[g].parent_color = token.color
                  /\ given = GroupColors(g)
        /\ Action[t] = "join" => given = {color_groups[token.group].parent_color}
        /\ Action[t] = "expire" => given = {}
        /\ Action[t] # "not_implemented"

PushInv == \A w \in Workers : PushOK(w)

\* A worker that has a request's token still to put.
Putting(w, m) == worker[w].pc \in {"create", "put"} /\ worker[w].msg = m

\* Nobody else has a request that somebody is about to put, and nobody has one that
\* was put.
RequestsInv ==
    /\ \A m \in Requests :
          /\ queue[m] <= 1
          /\ \A v \in Workers : Putting(v, m) =>
                /\ queue[m] = 0
                /\ \A w \in Workers : Putting(w, m) => w = v
          /\ <<m.color, m.place>> \in deposited =>
                queue[m] = 0 /\ \A w \in Workers : ~Putting(w, m)
    /\ \A w \in Workers : At(w, "publish") =>
          \A i \in DOMAIN worker[w].outbox : worker[w].outbox[i].type # "create_token"

RInv ==
    /\ IInv
    /\ EnablerInv
    /\ ActiveTagged
    /\ FiringInv
    /\ PushInv
    /\ RequestsInv

-----------------------------------------------------------------------------
(* What the tokens carry.                                                  *)

\* What a transition passes on of the data of the tokens it consumed.
PassedOn(t, active) ==
    LET data == UNION {tokens[i].data : i \in active} IN
    IF Action[t] = "remove_data" THEN {d \in data : d[1] \notin RemovedFields[t]} ELSE data

MakesData(t) == Action[t] \in {"merge", "remove_data"}

\* A step that gives up what the transition has in hand.
Ends(t, tag) == active_tokens[t][tag] # {} /\ active_tokens'[t][tag] = {}

\* It put a token that carries the data on at each output place, all of them empty.
CarriesOn(t, tag) ==
    \A i \in DOMAIN ArcsOut[t] :
        LET cell == <<tag, ArcsOut[t][i]>> IN
        /\ color_marking[cell] = NoToken
        /\ color_marking'[cell] # NoToken
        /\ tokens'[color_marking'[cell]].data = PassedOn(t, active_tokens[t][tag])

\* The tokens that replace those a transition consumed carry all their data but the
\* fields to be removed, whoever made them and however often, although merge and
\* remove_data read the active set twice and make a token of it that is pushed later,
\* while other handlers of the same firing make, push and fail (merge.py:25).
DataPassesOn ==
    [][\A t \in Transitions, tag \in Tags :
          Ends(t, tag) /\ MakesData(t) => CarriesOn(t, tag)]_vars

\* While there are active tokens, the number of them that a handler has counted and
\* the data of the token it has made are those of the active set.
DataOK(w) ==
    LET t == Message(w).transition IN
    /\ At(w, "counted") /\ Active(w) # {} =>
          /\ worker[w].count = Cardinality(Active(w))
          /\ Action[t] = "remove_data" => worker[w].count = 1
    /\ At(w, "push") /\ Active(w) # {} /\ MakesData(t) =>
          \A i \in DOMAIN worker[w].new :
              tokens[worker[w].new[i]].data = PassedOn(t, Active(w))

DataInv == \A w \in Workers : DataOK(w)

DInv == RInv /\ DataInv
=============================================================================
