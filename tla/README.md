# flow-core: a formal model

flow-core runs workflows as coloured Petri nets. A net lives in Redis; the
orchestrator's processes move its tokens, driven by messages from RabbitMQ; the
transitions of a net send further messages, above all to the shell command
services, which run jobs and answer with new tokens. What services reject ends in
dead queues, from which an operator revives it; and each process can be watched
in a browser. This directory models that machinery in TLA+, checks small
instances with TLC and proves what matters most for every instance with TLAPS.

## The system

| Component | State it keeps | Operations | Interaction | Modelled in |
|---|---|---|---|---|
| Petri net engine (`flow/petri_net`) | color and group marking, token objects, per transition: state set, active tokens, enablers, transient keys | `create_put_notify`, `notify_place`, `notify_transition`; the Lua scripts `put_token`, `consume_tokens_*`, `push_tokens`, `merge_hashes`; actions | called by the orchestrator's handlers, publishes through its service interface | `PetriNet`, `ColoredNet` |
| Color groups (`Net.add_color_group`) | two counters, the table of groups | allocate, set initial color | called by actions and clients of several processes | `ColorGroups` |
| Orchestrator (`flow/orchestrator`) | none | three message handlers, three senders | one message in, many out | `PetriNet` |
| AMQP broker client (`flow/brokers`) | channel, publish tags, unconfirmed deferreds | connect, publish, confirm, consume, ack, reject | Twisted callbacks; a connection lost ends the process | `AmqpClient` |
| Shell command services (`flow/shell_command`) | monitors of running executors, `sys.stderr` of the service | submit, spawn an executor, read the id, hear its end, answer, settle | answers are `create_token` messages, confirmed by the broker; LSF answers by itself | `ShellCommand` |
| Shell command nets (`flow/shell_command/petri_net`) | tokens of a job | the dispatch action and the net around it | a net of the engine whose answers come from the services | `ShellCommandNet` |
| Dead letters (`configurerabbitmq`, `flow/rabbit`, `necro`) | RabbitMQ's queues | publish, reject, `revive`, `kill`, `get` | exchanges and their bindings; the HTTP API | `DeadLetters` |
| pmon (`flow/pmon`) | the server's `children`; `status_all` of each page | `/basic`, `/basic/<pid>`, `/status`; poll, merge, cull | pages poll the server, the server asks the system | `ProcessMonitor` |
| Local broker (`flow/brokers/local.py`) | a queue in memory | publish, listen | tests and single-process use | - |
| Redis object mapper (`flow/redisom.py`) | objects as families of keys | get, set, delete, expire | used by everything | - |
| Net builder (`builder.py`, `future.py`), LSF requests, message protocol, configuration | none after start | storing arcs, option strings, JSON, settings | - | - |

### What is hard

* Every message may be handled twice: a process that dies returns its
  unacknowledged message to the queue, and handlers change Redis in several
  steps before they are done.
* Handlers of one net run at the same time in several processes. Each Lua script
  is atomic; a handler, which runs several, is not.
* A transition must fire when the last of its tokens arrives, once, although
  every input place notifies it by a message of its own.
* The group marking is redundant with the color marking and barriers decide on it.
* A firing lasts from one script (consume) to another (push), with an action of
  arbitrary length between that may fail.
* The broker client shares deferreds between callers, and numbers publishes on
  its own side in the hope that the broker counts alike.
* A shell command is known to its service by two channels of an executor that
  may fail, be interrupted or be killed between any two of its steps; its answers
  race each other, the token they are to meet, and those of an earlier run.
* A message that died and was revived is not routed as it was the first time.
* A page of pmon sees processes through a server whose own view lags behind and
  which forgets what another page made it find dead, or what it may not inspect.

### What makes each component correct

* Engine: it is a coloured Petri net. A firing takes all its tokens at once and
  replaces them once; enabled transitions fire; the markings agree; a net's keys
  are all known to it.
* Color groups: ranges of colors are disjoint, indices unique.
* Broker client: a publish is confirmed to the caller exactly when the broker
  confirmed it; a message is acknowledged only after it was handled.
* Shell commands: the net's outcome is what happened to the command; a submitted
  message is acknowledged only when the broker has every answer the net needs;
  every message is settled and every net reaches an outcome.
* Dead letters: no message that is still to be handled is lost, and none comes to
  a service it was not for.
* pmon: what a page calls dead is dead or was not to be inspected, what lives and may be
  inspected comes to be shown with the processes above it, what died comes to be
  forgotten.

## Modules

| Module | What it is | Extends |
|---|---|---|
| `PetriNet` | the engine as its processes run it, with its properties | |
| `PetriNetInv` | the inductive invariant `IInv` of the engine | `PetriNet` |
| `PetriNetProofs` | theorems about the engine | `PetriNetInv` |
| `ColoredNet` | the abstract net: deposits, firings that begin and end | |
| `PetriNetRefinement` | the mapping from the engine to the abstract net | `PetriNet`, instance of `ColoredNet` |
| `PetriNetPromises` | why the engine keeps its promises: the conditions on crashes and nets, the inductive invariants `WInv` of the wakeups, `FInv` of what is begun, `RInv` of the refinement, `DInv` of the data | `PetriNetInv`, `PetriNetRefinement` |
| `PetriNetPromiseProofs` | theorems: no lost wakeup, what is begun is finished, the engine implements the coloured net, the data is passed on | `PetriNetPromises`, `PetriNetProofs` |
| `WorkflowNets` | the nets of nested splits and joins (`WellNested`), and the inductive invariants `NestInv` of where their colors are, `SInv` of who is told of them | `PetriNetPromises` |
| `WorkflowNetProofs` | theorems: these nets are safe, so the engine keeps all its promises for them | `WorkflowNets`, `PetriNetPromiseProofs` |
| `ColorGroups`, `ColorGroupsProofs` | allocation of color groups, theorems about it | |
| `AmqpClient`, `AmqpClientProofs` | the AMQP client of one process, and the broker; theorems about them | |
| `ShellCommand` | the two services, their executors, monitors and answers, and LSF | |
| `ShellCommandNet` | the net of a shell command composed with the services; properties, inductive invariant | `ShellCommand`, instance of `ColoredNet` |
| `ShellCommandProofs` | theorems about both, and about a job that is run once | `ShellCommandNet` |
| `DeadLetters`, `DeadLettersProofs` | dead lettering and the operator's commands, theorems about them | |
| `ProcessMonitor`, `ProcessMonitorProofs` | pmon's server and its pages, theorems about them | |
| `MCJoin`, `MCSplit`, `MCConflict` | nets for TLC | `WorkflowNets`, `WorkflowNets`, `PetriNetInv` |
| `MCAmqp`, `MCShell`, `MCDeadLetters` | a service, a job, a set of queues for TLC | the module of that name |

A definition that a comment calls *faulty* is a wrong variant of the definition
after it. The specifications do not use it; it is kept to show that a property
notices the mistake, and `PROJECT.json` says which one.

### How `PetriNet` corresponds to the code

A worker is a message being handled in a process of its own. Its `pc` names the
next command:

| `pc` | Code |
|---|---|
| `create`, `put` | `Net.create_put_notify`: the token object, then `put_token.lua` |
| `read` | `Net.notify_place` |
| `consume` | `consume_tokens_basic.lua` and `consume_tokens_barrier.lua` |
| `fire`, `counted` | `TransitionBase.fire` and the actions; `counted` lies between merge's `len` and `head` of the active set |
| `push` | `push_tokens.lua` |
| `publish` | the messages to send, one at a time, then `ack` or `reject` |

Each Lua script is atomic in Redis and so one action; `consume_tokens` is one
action per branch. Every read or write outside a script that another process
can observe is a step of its own. Creating a token, which is a counter and an
object under a fresh key, is one step: no other process knows the key before the
token is put. `queue` is the broker. It delivers any message to any idle worker
in any order, which is what several consumers with prefetch amount to. `Crash`
kills a process at the places `CrashAt` names and returns its message.
`deposited` is a history variable that only the refinement reads.

Redis keys are abstracted to what tells them apart: a state or active set is
addressed by its transition and its `Tag` (the color, or for a barrier the color
group), token data are sets of field and value pairs, and indices count from 1
because they index sequences (the code counts from 0).

### How `AmqpClient` corresponds to the code

The process runs on Twisted's reactor, so a callback is not interleaved with
another one of the same process. Where one run of the reactor calls several
callbacks (the connect deferred's, or the confirm deferreds of a range of tags)
each is a step and `Busy` keeps the rest of the process waiting. `callbacks` and
`result` are Twisted's deferred: the pending callbacks, and the value each passes
to the next. `handling` maps a receive tag to the publishes that the deferred the
handler returned still waits for; `Awaits` says for which messages there is such a
deferred at all. `firing` is the set of tags that one confirm covers, fired the least
first. Wires are FIFO; a publish on the wire carries its tag as history, which the
broker does not read: it counts by itself. When the process ends, the broker still reads
any beginning of what was written. The broker's part is external and modelled
by what the client relies on.

pika's own state is left out (its queue of blocking calls, the handshake's
frames), and so are the replies to `queue.declare` and `basic.consume`, which
change nothing in flow-core. The broker sees the old channel closed before the
process is started again; a channel that lingers delays the redelivery, no more.

### How `ShellCommand` and `ShellCommandNet` correspond to the code

`submission` is the submitted message: queued, being handled, acknowledged or
rejected. `run` is what a service has of a job while it handles it: the executor,
a process whose steps are those of `fork/executor.py` or `lsf/executor.py`; `id`
and `ended`, the two deferreds of its `ExecutorMonitor`; `sent` and `stored`, the
answers that are published and that the broker has, but did not confirm; and
`failed`, once `gatherResults` failed. `Follow` settles the message as
`handler_base.py` does, when both deferreds and the confirms of all answers are
in, or at the first failure. `stderr_open` is `sys.stderr` of a service, which its
monitors share. `lsf_jobs` are the jobs LSF has, whose pre and post exec commands
answer for them. `Crash` ends a service with its monitors; the broker delivers
again what was not settled, so that a job may run twice. A service also ends itself:
when the broker refuses an answer, `_on_publisher_confirm_nack` exits the process, so
that the message is delivered again and not rejected. `Crash` is that as well.
`Permitted` are the jobs for which `_handle_message` raises nothing, neither about the
user nor about an executable that is not found. `Unopenable` are those whose log file
cannot be opened, which makes `sys.stderr` their log (`WritesToStderr`).

What messages, tokens and executor data carry is left out, and the answers are
named for the places they go to. LSF is external: it runs what it was given.

`ShellCommandNet` puts the services next to `ColoredNet`, instantiated with the
places and transitions that `future_nets.py` and `success_failure_net.py` build; each
job is a color, in a group of its own. `ColoredNet` may stand for the engine because
`ImplementsNet` shows that the engine implements it. `Dispatch` is the action of the
firing between its begin and its end; `Deliver` is the orchestrator putting an
answer's token.

### How `DeadLetters` corresponds to the code

RabbitMQ keeps a copy of a message in every queue it was routed to; `copies` has each
with its routing key and the queue it is in. The routes are those that
`configurerabbitmq` declares. Services acknowledge or reject. A command runs as
`rabbit.py` does: `queue_get` walks the matching queues in their order and takes up
to `count` messages, requeued or not, one HTTP request per queue (`Get`); then
`necro_revive` publishes each (`PublishAgain`). `Exit` is its end, its death, or an
exception in between. The order of messages in a queue is left out, as is what
`kill` and `get` print.

### How `ProcessMonitor` corresponds to the code

Three actors. The system forks processes and lets them exit; their children are then
adopted by someone outside. A process may come to run as another user, as what sudo starts
does (`Setuid`), and some become the first user again (`Dropping`); while it is another
user's (`private`) psutil raises AccessDenied when the server asks for its files or threads.
`process_info.py` catches every error of psutil alike, so the server takes such a
process for dead, or reads no `parent_pid` of it. `denied` is history: what
the server once took for dead though it lived. The server answers one request after the other, but
`/status` in many steps, between which processes are born and die:
`_update_children` (`UpdateChildren`, at most once a second: `recent`), the
`SingleProcessInfo` of each new child, the status of each child, and the
forgetting of those that gave none. Each page goes its round: `/status`, then `/basic/<pid>` for
each process of which it has none, the merge into `status_all`, the marking and
culling of the dead, and a timer. A page that is refused stops for good, as the code
has no rejection handler for `$q.all`.

Time is abstract: a second passes at any moment, and a timer goes off at any later
moment. A scan by `get_children` is one step. A pid is used once, and a process that
exits is reaped at once: psutil compares creation times, so that it does not take a
new process for an old one, and a zombie is reported until it is reaped, as if it lived.
Pages in `Brief` are closed after their first round; the server keeps nothing for a page.
A page that is reloaded is a new page. `Master` itself may always be inspected: it asks
about itself. Of what is shown of a process only its life and its parent is
modelled, not its attributes, files, histories and charts.

## Runs

Every net is acyclic, as those the code builds, so it drains and TLC sees every
behaviour to its end. The bounds on tokens, groups, colors, copies, commands and
faults only bound the state space: `MaxTokens` leaves room for every token a
redelivery can create in the run. `CHECK_DEADLOCK FALSE` is set in every run because a drained net, finished
allocators, a served client, a settled job, an emptied queue and a page that stopped
really stop.

| Run | Instance | What it shows |
|---|---|---|
| `join` | `a, b -> meet -> c -> strip -> d -> last`, two workers, one crash anywhere a redelivery is harmless; `meet` merges, `strip` removes a field, `last` lets the net expire | types, transient keys, no lost wakeup, quiescence means done, and data is passed on |
| `split_net` | `s -> split -> m -> work -> n -> join -> e`, two colors in the new group, no crash, fair | the coloured net is implemented, and it makes progress; each transition is told of each token once, and one handler executes each firing (`SInv`, with `NestInv` in it) |
| `split_crash` | the same with one crash, and a request for a place that is not there | the invariants of the proofs hold (`WInv`, `FInv` and `NestInv`, with `IInv` in each and `RInv` in the last); the net is safe (`NetIsSafe`) |
| `conflict` | two basic transitions with common input places, two barriers with a common input place; tokens with conflicting data; an output place that is full; a barrier whose action raises, one whose group has no parent | the group marking survives a partial push and a failed merge, one executor at a time |
| `color_groups` | three processes, groups of one and two colors, at most four groups, initial color 5 or none set | ranges and indices are unique |
| `amqp` | two messages (two publishes; an invalid one), calls register, declare, publish, declare, two connection attempts, prefetch 2, one fault of any kind, fair | confirms mean stored, tags agree, every delivered message is in one stage, nothing lost, callers get the channel until the process publishes, a process that stays up serves |
| `shell` | one job by either service; commands exit with 0 or 2; LSF executors killed before they submit or before they write the id; one service dies, killed or because an answer is refused (`MaxCrashes`); fair | the outcome is true, an acknowledged message is answered, only the outcome is left, and outcomes and settlement are reached |
| `dead_letters` | two messages, two queues with a common topic, a topic without a queue, two commands with the default pattern or that of dead queues, counts 1 and 1000, five copies | nothing lost, nothing in a wrong queue, what is in missing_routing_key is what may be there |
| `monitor` | two processes anywhere below the master, of which one may become another user's and the other may cease to be; two pages, of which one is closed after its first round; dead processes kept for one round; fair | what is marked dead, refused, or missing above a process is dead or was denied, and pages that go on catch up |
| `crash_while_firing` | `split_crash` with a crash while the barrier fires | **violated**: see findings |
| `confirms_dropped` | `amqp` with a handler that does not wait | **violated**: see findings |
| `shell_no_log_file` | the services alone, a job without a log file and one whose log file cannot be opened | **violated**: see findings |

Why the bounds are enough. A crash is bounded to one because every message is then
already handled twice in all the ways one more delivery can be; a second one repeats
that with other messages. Two workers are enough for two handlers to overlap in
every pair of steps, and a message in the queue is at a third one's disposal as soon
as one is done. Two publish tags and one of another caller are enough for a confirm
of many to cover one, some or all of them. Jobs share nothing but `sys.stderr` of
their service, which matters only without a log file; that is the subject of
`shell_no_log_file`, with two jobs. Five copies let a message of two queues
die in both and be revived, and one of a single queue be revived and die again. Two processes are enough for a
grandchild that is adopted when its parent dies, and for a process below one that the
server may not inspect; each changes its user once at most, before or after the server
read its basic info. Two pages are enough for one to change
what the server knows while the other is between its requests, and one round of the
other does that; that a dead process is
kept for 10 rounds and not one changes how often a counter is increased.
`conflict` and `split_crash` declare the workers symmetric: they check invariants
only and no definition names a worker.

### Fairness

* `PetriNet`: weak fairness of `Receive` and `Handle` for each worker. A Twisted
  process that has a message goes on with it, and one that has none asks for the
  next (`AmqpBroker._get_message_from_queue`); Redis scripts end.
* `AmqpClient`: weak fairness of the reactor, of the broker's steps and of the
  restart of a process that ended (`exit_codes.py` asks for it). `Served` is about
  processes that stay up in the end.
* `ShellCommand`, `ShellCommandNet`: weak fairness, job by job, of what the services,
  executors, LSF, the broker and the orchestrator do. That includes that commands
  end; a command that runs for ever has no outcome to reach.
* `ProcessMonitor`: weak fairness of the server's answering, of the clock and of each
  page's own steps; strong fairness of the taking up of each page's request, because
  the server is busy again and again, but the reactor takes requests in their
  turn.

Nothing is fair about a fault: no crash, refusal, lost connection, killed executor
or failing file has to happen.

## Findings

* **A crash while a barrier fires strands its tokens** (`crash_while_firing`;
  `consume_tokens_barrier.lua:25`). The basic script resumes a firing whose
  tokens are active; the barrier script returns at the group's count first.
* **`notify_transition` does not wait for its notifications** (`confirms_dropped`;
  `net.py:161`). Its message is acknowledged while they are unconfirmed, against the
  contract of `Handler.__call__`. `notify_place` does wait.
* **A monitor closes `sys.stderr`** (`shell_no_log_file`; `monitor.py:68`). For a job
  without a log file `close_log_file` closes the service's own `sys.stderr`; the
  monitor of the next job whose executor fails and that has no log file, or one that
  cannot be opened, raises when it writes there, before it fires its deferred, and the
  message is never settled.

### Known behaviours that the runs leave out

These follow from the models when a run allows them; the passing runs leave them out,
to show that nothing else goes wrong.

* A process that dies after `push_tokens` and before it notified the output places
  (`net.py:161`) loses the notifications: the redelivered message finds nothing to
  consume and is acknowledged. `CrashAt` of the runs has every place but this.
* A `create_token` message that is handled again after its token was put
  (`net.py:219`) creates a second one, which is put once the first was consumed, and
  stays. `CrashAt` has the places before.
* All callers of `ConnectionManager.connect` share one deferred, to which the first
  publish returns None (`channel_facade.py:58`). Callers get the channel until then and
  None from then on (`ChannelUntilPublish`), although `connection_manager.py:50-54` says
  that the deferred "will callback with a pika channel object". Only a declare or bind uses
  what it is given: called after a publish, before the connection is open, it ends the
  process (`DoOnChannel`), as the last call of the run `amqp` does unless the
  connection is open by then. No command makes these calls in that order; `bench`
  declares first.
* A fork executor that a signal kills has the exit code None, on which
  `on_job_ended_failure` raises (`fork/handler.py:50`): its message is not settled.
  `KilledAt` of the runs names LSF executors only.
* A message that the service rejects because it may not run as the job's user is not
  answered (`handler_base.py:48`), and the net waits. `OutcomeReached` is about jobs
  of permitted users.
* `OutcomeReached` names what else keeps a net from its outcome: a job of the fork service that was begun and cannot be started again
  after a crash; a job that the LSF service rejected before the broker had the answer.
* `necro kill` matches its pattern, by default `.*` (`rabbit.py:92`), against all
  queues, so it takes messages that services have yet to handle, and those in
  missing_routing_key. `NothingLost` counts them as discarded by the operator. So it does
  with what a `revive` that removes the messages it fetches held when it died: nothing in
  the code puts that back.
* A revived message that is rejected again ends in missing_routing_key, where
  `revive` does not look (`MissingOnlyRevived`).
* pmon takes every error of psutil for the end of a process (`process_info.py:49`). A living
  process that the server may not inspect is shown as dead and culled, while the server finds it
  anew at each scan and forgets it again; it may be refused to another page, and is missing above
  its children. If its basic info was read meanwhile, it has no `parent_pid`
  (`process_info.py:37`) and is not in the tree even when it may be inspected later, as
  basic info is read once. `MarkedHasReason`, `RefusedHasReason`, `ParentShown` and
  `PagesCatchUp` say that this befalls no process but these (`Traceable`, `Inspected`).
* A page of pmon stops polling for good when `/status` fails, for instance because an
  open file was removed (`process_info.py:129`), or when its `/basic/<pid>` is refused.
  The second needs another page, whose `/status` made the server forget that process
  meanwhile; `AloneNeverRefused` proves so.
* The children of a culled process are not culled with it: `status.processes`
  (`services.js:261`) is not the page's `status_all`. They are culled when they die.

## What is proved

All theorems are checked by TLAPS for every value of the constants: any net, any
workers, queues, jobs, processes and pages, and any natural number for each bound.
Each rests on an invariant `IInv` that the initial states satisfy and every step
preserves, one lemma per action.

**`ColorGroupsProofs`**: `InvariantHolds`, `TypeCorrect` (`TypeOK`), `GroupsDisjoint`
(`RangesDisjoint`), `StoredGroupsStable` (`GroupsStable`). A process between its two
counters holds an index nobody else has, and one between the second counter and the
store holds a range below the counter that overlaps no stored or held one; those two
facts with the property itself are the invariant.

**`PetriNetProofs`**: `InvariantHolds`, `TypesHold` (`TypeOK`), `CountsAgree`
(`GroupCount`), `TransientKeysComplete` (`TransientTracks`). `GroupCount` is not
inductive. `push_tokens` and `consume_tokens` adjust a group's count by what they
read from the token objects and from the color group, so the count stays right only
if a marked cell holds a token of that very color, the token's color lies in its
group, groups are disjoint ranges, active tokens are in no cell, a worker's new
tokens are nowhere yet, and every message names tokens that exist. `IInv`
(`PetriNetInv`) is the conjunction of these: `TypeOK`, `TokensInv`, `GroupsInv`,
`MarkInv`, `ActiveInv`, `WorkersInv`, `QueueInv`, `GroupCount`, `TransientTracks`. The
cardinality steps (one cell more or less in a group's set) and the counting of a
script's loop are lemmas of their own.

**`PetriNetPromiseProofs`** has two invariants that contain `IInv`, and conditions, since
the code does not keep its promises whatever happens. `WakeupInvariance` (`WInv`) and
`NoWakeupIsLost` (`NoLostWakeup`) are about the state sets that say which places a
transition still waits for. One script writes a set from the marking it finds, other
handlers mark cells meanwhile, and each message removes a place from it. `WInv` argues by
tag, a color for a basic transition and a group for a barrier: a place that is full and
in the state set is going to be reported by a message that somebody still carries
(`WaitingInv`), and a transition that nothing enabled and that has all its tokens is
going to be told so (`WakingInv`). The second is what the script relies on when the last
awaited place was struck out of the set: whoever comes last finds everything. A handler
that publishes what its place feeds holds messages about that place and color only
(`OutboxInv`), so that its death, which puts its message back, loses none of them. The
conditions are

* `NotifiesWhatItPushed`: no process dies between pushing tokens and notifying their
  places, which does lose the notifications (see the known behaviours);
* `FiredOnce`: a transition that has all its tokens and no active ones was not enabled
  before. `enablers` is never reset, so a second set of tokens may be refused.

`PushInvariance` (`RInv`) and `EngineImplementsNet` (`ImplementsNet`) are the refinement.
The scripts are single steps; what they are applied to is not. The tokens that are
pushed were made from an active set, a group and a message that were read in earlier
steps, while other handlers of the same firing do the same. `RInv` says that what a
handler holds is, color by color, what replaces the firing it is about (`PushInv`): the
notified color, a whole group whose parent it is, the parent of the group, or nothing;
only `record_time` may come with nothing because another handler has pushed, and then
the active set is empty and stays so, since what was enabled once consumes nothing more
(`FiringInv`). Active tokens go by a tag that exists (`ActiveTagged`), so that a firing
of the coloured net, a transition with a set of colors, is one active set. A request is
in the queue, or with one worker who has still to put its token, or was put
(`RequestsInv`). Each step then maps to a step of `ColoredNet` or to none: `put_token` to
`Deposit`, the last branch of `consume_tokens` to `Begin`, a push of all tokens to `End`, a
split to `NewGroup`. A group may be empty, as `split` with size 0 makes one. The conditions
are

* `PutsOnce`: no process dies between putting a client's token and notifying its place,
  after which the request would be put again (see the known behaviours);
* `OneRequestForEachCell`: clients do not ask twice for a token of a color at a place;
* `FiredOnce`, and `PushesWhole`: `push_tokens` finds all its cells free, or one taken
  before it filled any. It does not undo what it put before. In the net of
  `conflict`, which is not safe, it stops halfway.

The crash of a process anywhere else is allowed, also one that strands the tokens of a
barrier: that is a firing that never ends, which the safety part of the coloured net
permits.

`DataInvariance` (`DInv`) and `DataIsPassedOn` (`DataPassesOn`) are about what the tokens
carry, which the coloured net does not see. `merge` and `remove_data` read the active set
twice, once for its size and once for its tokens, make a token of what they found, and it
is pushed in a later step; other handlers of the same firing count, make, push and fail
in between, and a merge of a single token passes on the token itself. `DInv` adds
to `RInv` that the size a handler knows and the data of what it has made are those of
the active set, as long as there is one. Others can only empty it (`ActiveStays`), and
`push_tokens` pushes only while it is not empty. So whoever pushes, each output place gets a
token with exactly the data consumed, but for the fields to be removed. The conditions
are those of `RInv`.

`FinishInvariance` (`FInv`) and `QuiescenceIsDone` (`QuiescentDone`) say that what is
begun is finished, in so far as safety can: when nothing is under way, nothing is left to
do. That is not inductive. `FInv` says why active tokens will be pushed: the
notification that enabled the transition, which is about the place that `enablers` names,
is still in the queue or with a handler that has not pushed yet, unless it raised
(`FinishInv`); and then
the state set is empty, so that the script that is asked again passes over it to the
active tokens. Whoever pushes empties the active set, so the message need not be
there any longer. The conditions are those of the wakeups and

* `BarriersSurvive`: no process dies between the script that consumes a barrier's tokens
  and its push (`crash_while_firing` shows that it is needed; a basic transition needs
  no such condition, as its script takes up the active tokens when it is asked again);
* `PushesAll`: `push_tokens` finds all its cells free, or its active set stays;
* `NothingRaised`: no handler of a notification raised, as a merge of tokens that
  disagree does. What it had in hand stays, by design, with its message in a dead queue.

`EnabledHasTaken` (`EnablesWhole`) needs none of them. The barrier script counts the
group's tokens at each input place, names itself the enabler, reads the cells one
by one, and gives up when one is empty. `enablers` is never reset, so giving up there
would lose the group. It never does: as the counts agree with the cells (`GroupCount`), the
cells of a place that is not missing are all full. No run checks this, TLAPS proves it.

**`WorkflowNetProofs`** removes the hypotheses about behaviours. `NetIsSafe` (`FiredOnce`
and `PushesAll`) is what the code leaves to whoever builds the net, and it is not a
property of single steps: that a color does not come to a place a second time depends
on all the ways it can go. `WellNested` (`WorkflowNets`) says of the shape of a net what
a workflow has: it is covered by *machines*, sets of places between which a
transition moves the token of a color from one place to a later one; a split takes
the token of its color and puts the colors of its new group into a machine of their own,
its *body*, which no other split puts colors into; a join that takes from the body
gives the split's token back to a later place. Splits may nest, paths may fork,
meet and compete. `MCSplit` and `MCJoin` have such machines, and TLC evaluates `WellNested` for
them. The invariant `NestInv` is about where a color is:

* it is at one place of a machine, or in one transition's hands (`OnePlace`,
  `PlaceOrHand`, `OneHand`), where a split has it in hand until a join of its group has
  returned it (`Returned`), although the active tokens are long gone;
* it is later than any place it was taken from (`Later`), and gone for good when a barrier
  took it (`GoneAtBarrier`, `OneBarrier`); a client's color was not there before
  (`RequestFirst`);
* the colors of a group are in the body only once the split was done with the parent, and
  only one group of each parent is ever pushed (`ReachedBySplit`, `OneGroup`), although a
  crash and a redelivery can allocate two.

`NestInvariance` proves it, without supposing safety, and `WorkflowNetIsSafe` draws
`NetIsSafe` from it: a transition that finds all its tokens a second time finds them in
places they have left. Then `WorkflowImplementsNet` (`ImplementsNet`),
`WorkflowLosesNoWakeup` (`NoLostWakeup`), `WorkflowFinishes` (`QuiescentDone`) and
`WorkflowPassesData` (`DataPassesOn`) are the theorems above with only the net's shape, the clients' requests and the points of
crashes as assumptions, all about constants.

The last theorem there, `WorkflowExecutesOnce` (`SingleExecutor`), is that no two handlers
execute the action of a transition for the same tokens. The scripts alone do not
ensure it: a handler may resume the firing of the place that enabled the transition, so
two handlers that were told of the same token by the same place would both execute. The
invariant `SInv` adds to `NestInv` what excludes them:

* of each token, a place tells each of its transitions once, and what it tells is in one place:
  a message in the queue, a handler that has not passed it on, or the outbox of one
  (`OneReport`), and is told to transitions of that place only (`InputsTold`);
* a token that is told of came to its place, where it is or which it left for a later one, or is
  that of a client whose request is not handled yet (`ReportsTrue`); because colors only
  go on, no color that is pushed comes to a place that has told of it;
* who executes an action was told by the place that is the enabler (`ExecutorInv`). Of a barrier,
  whose handlers were told of different tokens of the group, a second one does not get
  past the count of the group's cells, which are gone for good (`GoneAtBarrier`).

It has two hypotheses more. `ArcsOnce`: a place lists each of its transitions once (the
builder keeps arcs in a set, `builder/future.py`). `NotifiesOnce`: no process dies
between the transitions it tells of a token. After such a crash the message is delivered
again and the first transitions are told twice; in the net of `join` TLC then finds two
handlers that execute the same firing (`SingleExecutor`). That does no harm to the net,
because merge and push are made for handlers that overlap: `ImplementsNet` and
`DataPassesOn` hold with that crash too.

**`ShellCommandProofs`**: `Invariance`, `TypeCorrect` (`TypeOK`), `OutcomeIsTrue`
(`OutcomeTrue`), `AckedIsAnswered` (`AckedAnswered`). That a net reports no more than
one outcome, however many answers come, is not visible at the outcome's place: it
follows from `OneToken`, that apart from answers a job has one token in the whole net.
That the outcome is true is carried along the way of an answer: what is sent, under
way, or has met the token is so (`HeardTrue`), because a monitor knows of its executor
only what is so (`ExecutorKnown`). That an acknowledged message is answered rests on
`NothingUnsaid`: once a deferred fired, its answers are with the broker or still to
be confirmed.

`OnceInvariance` and `OnlyOutcomeIsMarked` (`OnlyOutcomeMarked`), in the second part of
the module: the invariant `OInv`, relative to the one before, is about a job
until it is run a second time. The place of the token tells
which answers it has met on its way (`Met`); all other answers that the broker had are
there as one copy, or lie in their place as a token (`Accounted`); and which answers
were said follows from the executor's end (`OnceSaid`, `OnceKnown`). At rest nothing is
on its way and no transition can begin: the token is then at an outcome, for wherever
else it would wait, the answer that it waits for was said and not met, so it would be
in its place. What the token did not meet is what is left over.

**`AmqpClientProofs`**: `Invariance`, `TypeCorrect` (`TypeOK`), `ConfirmedIsStored`
(`ConfirmedStored`), `TagsAlwaysAgree` (`TagsAgree`), `OneStageAlways` (`OneStage`),
`NothingIsLost` (`NothingLost`), `ChannelOnlyUntilPublish` (`ChannelUntilPublish`). The
invariant follows a tag from the client's counter over the wire to the broker's: the
publishes on the wire bear exactly the tags between the two counters, in order, each
with the deferred the client keeps for it (`TagInv`), and none is sent before confirms
are enabled (`SelectInv`). A publish that the broker counted is unconfirmed there, or
stored, or was refused, and a refusal ends the process: so a confirm of many is right
about every tag it covers unless a refusal is on the wire before it (`ConfirmInv`).
Each delivered message is on the wire, with a handler, or settled on the wire back, in
one of these only (`StageInv`). One of the theorems has a hypothesis: `NothingIsLost`
is about services whose handlers wait for what they publish (`AllAwaited`), where the
handler's deferred has a tag for each publish that is not stored (`DeliveryInv`);
`confirms_dropped` shows that the orchestrator, whose handlers do not, loses messages.
`ChannelUntilPublish` is inductive with `ChannelInv`, by which a connection that is not
open has published nothing.

**`DeadLettersProofs`**: `Invariance`, `TypeCorrect` (`TypeOK`), `NothingIsLost`
(`NothingLost`), `RightQueueAlways` (`RightQueue`), `MissingOnlyRevivedAlways`
(`MissingOnlyRevived`). What makes them inductive is where a copy's routing key comes
from (`KeysKnown`): in a service's queue it is the message's topic or the queue's own
name, never another queue's; and that what a command took is in its hands exactly
once, from a queue the message was to be in, until it is published or the command
ends (`TakenOnce`).

**`ProcessMonitorProofs`**: `Invariance`, `TypeCorrect` (`TypeOK`), `OnlyMarkedWithReason`
(`MarkedHasReason`), `OnlyRefusedWithReason` (`RefusedHasReason`), `ShownWithParent`
(`ParentShown`), `AloneNeverRefused`. The heart is that what a page ever heard of, still
lives and was never denied to the server (`Traceable`) is a child of the server
(`PageInv`): the server drops none but the others, so each answer to `/status` has
everything that is shown and traceable, and what an answer lacks is dead or was denied.
The server's children are closed under traceable parents (`ServerInv`), although they are
found in one scan and read later; adoption by someone outside is what keeps that true
when a process above them dies. A parent that was denied may have been dropped while
its child stays, which is why the invariant, like the properties, excepts it for good:
the server finds it again at the next scan, but a page's answer may be older.
`AloneNeverRefused` adds that with a single page no `/status` is answered between its
own and its requests for basic info.

Assumptions, which TLC evaluates in the runs of the modules that state them: `NetAssumption` (the net is finite, a
place lists the transitions it is an input of, every transition has an input, sizes
are naturals), `ActionAssumption` (a barrier executes the join action or the default one,
and no other transition does, which `transitions/base.py` asserts), `BoundAssumption`, `GroupsAssumption` (the groups clients allocated
before are ranges that follow one another, without parents; `ColorGroups` proves that
allocation yields disjoint ranges), `RequestAssumption` (a client asks for a color of
the group it names, as `bench` and the workflow clients do), `ClientAssumption` (each
message has a queue and a list of publishes), `ServicesAssumption`,
`BrokerAssumption` (dead queues have names of their own, and no queue's name is a topic,
as in `bench/config/flow.yaml`), `MonitorAssumption`.

Only model-checked: all liveness (`ImplementsProgress`, `Served`, `OutcomeReached`,
`Settled`, `PagesCatchUp`), which the prover does not do. The net of `conflict` is not
well nested (its transitions fail and find places full on purpose), so what the run says
of it (`SingleExecutor`) is checked for that net alone; `GroupCount` is proved for every net.

## What is not modelled

* Deleting and expiring a net (but for the action that sets its expiry), its constants
  and variables, and cycles: the `enablers` of a transition are never reset, so in a
  net with a cycle a second round may be refused because another place is the last to
  be notified. The nets the code builds have no cycle, and neither have those checked;
  the theorems
  suppose `NetIsSafe`, or a net in which colors only go on.
* The local broker: one process works a queue off in order, without failures; the nets
  over it behave as `PetriNet` with one worker.
* The object mapper and the net builder: one Redis command for each method, and storing
  done before a net starts; what they leave in Redis is the state of `PetriNet`.
* LSF requests, message encoding, configuration, start-up, logging and reports: input,
  output and conversions without state.
* Of pmon: files, histories and charts, the detail page and the tree's controls. Two
  things a reader should know of them: `mergeProcess` merges a shown file into the new
  one instead of the new into it (`underscore-mergeProcess.js:22`), so that files are
  shown as they first were; and a detail page that is opened before its process is known
  tries once more, after a second, and then gives up (`controllers.js`).
* The vendored javascript under `pmon/web/lib` (angular, jquery, d3, underscore and
  others), which is nearly all the javascript there is; pmon's own is the
  `services.js` and `app.js` that `ProcessMonitor` models, and views.

## Plan

1. Done: the engine, its refinement of the coloured net, and its invariant; color
   groups; the AMQP client; shell commands, from their nets to their executors; dead
   letters; pmon.
2. `NetLifecycle`: `Net.delete`, expiry and the object mapper's associated keys,
   against handlers that still run. Property: no key outlives its net.
3. `WellNested` of the nets that `future_nets.py` builds, whose answers may come twice.
4. `Builder`: numbering of nodes and storing of arcs as functions, compared with a
   reference definition over small future nets.
