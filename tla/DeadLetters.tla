---------------------------- MODULE DeadLetters ----------------------------
(***************************************************************************)
(* What becomes of messages that services reject.  configure-rabbitmq      *)
(* gives every queue a dead queue: a rejected copy of a message goes to    *)
(* the exchange "dead" under the routing key it was published with, and    *)
(* what an exchange cannot route ends in missing_routing_key.  An operator *)
(* fetches messages through the HTTP API of RabbitMQ, to publish dead ones *)
(* again (necro revive) or to be rid of them (necro kill).                 *)
(***************************************************************************)
EXTENDS Integers, FiniteSets, Sequences

CONSTANTS
    Messages,
    Topics,
    Queues,         \* the queues of the exchange "flow"
    Dead,           \* queue -> its dead queue
    Missing,        \* the queue missing_routing_key
    Bindings,       \* queue -> the topics it is bound to
    QueueNames,     \* all queues, in the order the commands go through them
    Patterns,       \* what operators match queue names against: sets of queues
    Counts,         \* ... and how many messages they ask for
    MaxCopies,      \* bound: the copies the broker ever has
    MaxCommands     \* bound: the commands that are run

AllQueues == Queues \cup {Dead[q] : q \in Queues} \cup {Missing}

\* A queue's name is the topic of no queue: bench/config/flow.yaml.
ASSUME BrokerAssumption ==
    /\ IsFiniteSet(Queues)
    /\ Bindings \in [Queues -> SUBSET Topics]
    /\ \A q, r \in Queues : q \notin Bindings[r]
    /\ Missing \notin Queues
    /\ \A q \in Queues : Dead[q] \notin Queues \cup {Missing}
    /\ \A q, r \in Queues : Dead[q] = Dead[r] => q = r
    /\ QueueNames \in Seq(AllQueues) /\ AllQueues \subseteq {QueueNames[n] : n \in DOMAIN QueueNames}
    /\ "operator" \notin AllQueues /\ "gone" \notin AllQueues
    /\ Patterns \subseteq SUBSET AllQueues
    /\ Counts \subseteq Int

VARIABLES
    topic,          \* message -> what its client publishes it under
    published,      \* the messages that were published
    copies,         \* every copy there was, with its routing key and where it is
    command,        \* the operator's command
    handled,        \* history: the <<message, queue>> a service acknowledged
    discarded,      \* history: the messages an operator took and did not publish
    commands        \* how many commands were run

vars == <<topic, published, copies, command, handled, discarded, commands>>

-----------------------------------------------------------------------------
NoCommand == [name |-> "none", requeue |-> TRUE, remaining |-> 0,
              todo |-> {}, got |-> {}]

Init ==
    /\ topic \in [Messages -> Topics]
    /\ published = {}
    /\ copies = <<>>
    /\ command = NoCommand
    /\ handled = {}
    /\ discarded = {}
    /\ commands = 0

BoundTo(key) == {q \in Queues : key \in Bindings[q]}

\* Where an exchange routes a message; its alternate exchange "alt" has those
\* that it can route nowhere.
OrMissing(queues) == IF queues = {} THEN {Missing} ELSE queues

FlowRoutes(key) == OrMissing(BoundTo(key))

DeadRoutesWithoutAlt(key) == {Dead[q] : q \in BoundTo(key)} \* faulty: no alternate exchange
DeadRoutesAll(key) == {Dead[q] : q \in Queues}      \* faulty: bound to every topic
DeadRoutesByName(key) ==    \* faulty: dead queues bound to the names of their queues
    OrMissing({Dead[q] : q \in Queues \cap {key}})
DeadRoutesMisnamed(key) == {"dead"}     \* faulty: a queue that is not there
DeadRoutes(key) == OrMissing({Dead[q] : q \in BoundTo(key)})

\* Copies of m, one for each of the queues.
CopiesFor(m, key, queues) ==
    {s \in [1 .. Cardinality(queues) -> [msg : {m}, key : {key}, at : queues]] :
        queues = {s[i].at : i \in DOMAIN s}}

\* The copies, with some of them somewhere else.
Moved(some, place) ==
    [i \in DOMAIN copies |->
        [copies[i] EXCEPT !.at = IF i \in some THEN place ELSE @]]

RoomFor(queues) == Len(copies) + Cardinality(queues) <= MaxCopies

-----------------------------------------------------------------------------
(* Clients and services.                                                   *)

Publish(m) ==
    LET queues == FlowRoutes(topic[m]) IN
    /\ m \notin published /\ RoomFor(queues)
    /\ published' = published \cup {m}
    /\ \E new \in CopiesFor(m, topic[m], queues) : copies' = copies \o new
    /\ UNCHANGED <<topic, command, handled, discarded, commands>>

InService(i) == copies[i].at \in Queues

\* A service acknowledges a message.
Handle(i) ==
    /\ InService(i)
    /\ copies' = Moved({i}, "gone")
    /\ handled' = handled \cup {<<copies[i].msg, copies[i].at>>}
    /\ UNCHANGED <<topic, published, command, discarded, commands>>

\* A service rejects a message.
Reject(i) ==
    LET queues == DeadRoutes(copies[i].key) IN
    /\ InService(i) /\ RoomFor(queues)
    /\ \E new \in CopiesFor(copies[i].msg, copies[i].key, queues) :
          copies' = Moved({i}, "gone") \o new
    /\ UNCHANGED <<topic, published, command, handled, discarded, commands>>

-----------------------------------------------------------------------------
(* The operator's commands.                                                *)

Run(name, requeue, matching) ==
    /\ command.name = "none" /\ commands < MaxCommands
    /\ commands' = commands + 1
    /\ \E n \in Counts :
          command' = [name |-> name, requeue |-> requeue, remaining |-> n,
                      todo |-> matching, got |-> {}]
    /\ UNCHANGED <<topic, published, copies, handled, discarded>>

\* The pattern of revive is put after "dead_.*", that of kill stands alone.
Revive(pattern) ==
    \E requeue \in BOOLEAN :
        Run("revive", requeue, pattern \cap {Dead[q] : q \in Queues})

Kill(pattern) == Run("kill", FALSE, pattern)

\* The queue that queue_names has first.
First(q, queues) ==
    \E n \in DOMAIN QueueNames :
        QueueNames[n] = q /\ \A k \in 1 .. n - 1 : QueueNames[k] \notin queues

\* queue_contents: up to remaining messages of the next queue, which has them
\* again when they are to be requeued.
Get(q) ==
    LET there == {i \in DOMAIN copies : copies[i].at = q} IN
    /\ q \in command.todo /\ First(q, command.todo)
    /\ \E some \in SUBSET there :
          LET left == command.remaining - Cardinality(some) IN
          /\ left = 0 \/ (left > 0 /\ some = there)
          /\ copies' = IF command.requeue THEN copies ELSE Moved(some, "operator")
          /\ command' = [command EXCEPT
                !.remaining = left,
                !.todo = IF left < 1 THEN {} ELSE @ \ {q},
                !.got = @ \cup (some \X {q})]
    /\ UNCHANGED <<topic, published, handled, discarded, commands>>

Taken == {i \in DOMAIN copies : copies[i].at = "operator"}

\* publish_to_queue, through the default exchange: the routing key of the new
\* copy is the name of the queue.
PublishAgain(i, q) ==
    /\ command.name = "revive" /\ command.todo = {}
    /\ <<i, Dead[q]>> \in command.got
    /\ RoomFor({q})
    /\ command' = [command EXCEPT !.got = @ \ {<<i, Dead[q]>>}]
    /\ copies' = Append(Moved({i} \cap Taken, "gone"),
                        [msg |-> copies[i].msg, key |-> q, at |-> q])
    /\ UNCHANGED <<topic, published, handled, discarded, commands>>

\* The command is through, or dies, or raises as a publish fails: what it took
\* and did not publish is in the operator's hands, or nowhere.
Exit ==
    /\ command.name # "none"
    /\ command' = NoCommand
    /\ copies' = Moved(Taken, "gone")
    /\ discarded' = discarded \cup {copies[i].msg : i \in Taken}
    /\ UNCHANGED <<topic, published, handled, commands>>

Next ==
    \/ \E m \in Messages : Publish(m)
    \/ \E i \in DOMAIN copies : Handle(i) \/ Reject(i)
    \/ \E p \in Patterns : Revive(p) \/ Kill(p)
    \/ \E q \in AllQueues : Get(q)
    \/ \E i \in DOMAIN copies, q \in Queues : PublishAgain(i, q)
    \/ Exit

Spec == Init /\ [][Next]_vars

-----------------------------------------------------------------------------
(* Properties.                                                             *)

Copy == [msg : Messages, key : Topics \cup Queues, at : AllQueues \cup {"operator", "gone"}]

Command == [name : {"none", "revive", "kill"}, requeue : BOOLEAN, remaining : Int,
            todo : SUBSET AllQueues, got : SUBSET (Nat \X AllQueues)]

\* Every variable has its type.
TypeOK ==
    /\ topic \in [Messages -> Topics]
    /\ published \subseteq Messages
    /\ copies \in Seq(Copy)
    /\ command \in Command
    /\ \A g \in command.got : g[1] \in DOMAIN copies
    /\ handled \subseteq Messages \X Queues
    /\ discarded \subseteq Messages
    /\ commands \in Nat

\* Who is to handle a message: the queues bound to its topic, or nobody.
Owed == {o \in published \X (Queues \cup {Missing}) : o[2] \in FlowRoutes(topic[o[1]])}

\* Where a message that a queue has to handle may wait.
Waits(q) == IF q = Missing THEN {Missing} ELSE {q, Dead[q], Missing}

\* A copy waits there, or a command has taken it from there.
Keeps(i, q) ==
    \/ copies[i].at \in Waits(q)
    \/ copies[i].at = "operator" /\ \E w \in Waits(q) : <<i, w>> \in command.got

\* Nothing is lost: a message that a queue has still to handle waits for it, in
\* the queue, in its dead queue or in missing_routing_key, and one that no queue
\* is bound to in missing_routing_key, or a command has taken it from there,
\* unless an operator discarded it: killed it, or ended a revive that had it.
NothingLost ==
    \A o \in Owed :
        \/ o \in handled
        \/ o[1] \in discarded
        \/ \E i \in DOMAIN copies : copies[i].msg = o[1] /\ Keeps(i, o[2])

\* However often a message dies and is revived, only the services it is meant for
\* ever get it.
RightQueue ==
    \A i \in DOMAIN copies : \A q \in Queues :
        copies[i].at \in {q, Dead[q]} => topic[copies[i].msg] \in Bindings[q]

\* A message that was never revived is found in a dead queue when it was rejected:
\* in missing_routing_key are those that no queue is bound to, and those that
\* were rejected again after a revive, which published them under the name of
\* their queue.  Revive does not find those.
MissingOnlyRevived ==
    \A i \in DOMAIN copies :
        copies[i].at = Missing =>
            BoundTo(topic[copies[i].msg]) = {} \/ copies[i].key \in Queues

-----------------------------------------------------------------------------
(* The inductive invariant of the proofs.                                  *)

\* A copy in a service's queue came there under its topic or under the queue's name.
KeysKnown ==
    \A i \in DOMAIN copies :
        copies[i].at \in Queues => copies[i].key \in {topic[copies[i].msg], copies[i].at}

\* What a command took it has until it publishes it, and it took it from one queue,
\* where the message was to be.
TakenOnce ==
    /\ command.name = "none" => command = NoCommand
    /\ \A i \in DOMAIN copies : copies[i].at = "operator" => ~command.requeue
    /\ ~command.requeue => \A g \in command.got :
          /\ copies[g[1]].at = "operator"
          /\ \A h \in command.got : h[1] = g[1] => h = g
    /\ \A g \in command.got, q \in Queues :
          g[2] \in {q, Dead[q]} => topic[copies[g[1]].msg] \in Bindings[q]

IInv == TypeOK /\ NothingLost /\ RightQueue /\ MissingOnlyRevived /\ KeysKnown /\ TakenOnce
=============================================================================
