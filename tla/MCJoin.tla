------------------------------ MODULE MCJoin --------------------------------
(***************************************************************************)
(* Two client tokens a and b meet at a basic transition, whose token goes  *)
(* on through a second one and out of the net through a third:             *)
(*     a, b -> meet -> c -> strip -> d -> last                             *)
(***************************************************************************)
EXTENDS WorkflowNets

MCPlaces == {"a", "b", "c", "d"}
MCTransitions == {"meet", "strip", "last"}
MCArcsIn == [meet |-> {"a", "b"}, strip |-> {"c"}, last |-> {"d"}]
MCArcsOut == [meet |-> <<"c">>, strip |-> <<"d">>, last |-> <<>>]
MCPlaceArcsOut == [a |-> <<"meet">>, b |-> <<"meet">>, c |-> <<"strip">>,
                   d |-> <<"last">>]
MCClass == [t \in MCTransitions |-> "basic"]
MCAction == [meet |-> "merge", strip |-> "remove_data", last |-> "expire"]
MCSplitSize == [t \in MCTransitions |-> 0]
MCRemovedFields == [t \in MCTransitions |-> {"f"}]
MCGroupsAtStart == <<[begin |-> 0, end |-> 1, parent_color |-> NoColor,
                      parent_group |-> NoGroup]>>
MCData == {<<"f", 1>>, <<"g", 1>>}
Create(p, d) == [type |-> "create_token", place |-> p, color |-> 0, group |-> 1,
                 data |-> d]
MCRequests == {Create("a", {<<"f", 1>>}), Create("b", {<<"g", 1>>})}

\* A notify_transition handler may crash anywhere but after it pushed.
MCCrashAt == {<<"notify_transition", pc>> : pc \in {"consume", "fire", "counted", "push"}}
             \cup {<<"notify_place", pc>> : pc \in {"read", "publish"}}
             \cup {<<"create_token", pc>> : pc \in {"create", "put"}}

\* One of the two tokens is the one that goes on.  Nothing splits.
MCMachines == {{"a", "c", "d"}, {"b"}}
MCRank == [a |-> 0, b |-> 0, c |-> 1, d |-> 2]
MCBody == [t \in MCTransitions |-> {"b"}]

ASSUME NetIsWellNested == WellNested
=============================================================================
