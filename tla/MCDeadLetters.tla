--------------------------- MODULE MCDeadLetters ----------------------------
(* Two queues of the engine that share a topic, as bindings may, and a topic *)
(* that no queue is bound to.                                                *)
EXTENDS DeadLetters

CONSTANTS m1, m2

MCQueues == {"create_token", "notify_place"}
MCDead == [create_token |-> "dead_create_token", notify_place |-> "dead_notify_place"]
MCBindings == [create_token |-> {"place.create", "place"}, notify_place |-> {"place"}]
MCTopics == {"place.create", "place", "other"}
MCQueueNames == <<"missing_routing_key", "create_token", "notify_place",
                  "dead_create_token", "dead_notify_place">>
\* The default pattern, and the pattern of dead queues.
MCPatterns == {AllQueues, {MCDead[q] : q \in MCQueues}}
MCCounts == {1, 1000}
=============================================================================
