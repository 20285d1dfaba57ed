------------------------------ MODULE MCSplit -------------------------------
(***************************************************************************)
(* The net of the benchmark command, without its timers: a token splits    *)
(* into a new color group, each color goes through a transition of its     *)
(* own, and a barrier joins them again:                                    *)
(*     s -> split -> m -> work -> n -> join -> e                           *)
(***************************************************************************)
EXTENDS WorkflowNets, TLC

MCPlaces == {"s", "m", "n", "e"}
MCTransitions == {"split", "work", "join"}
MCArcsIn == [split |-> {"s"}, work |-> {"m"}, join |-> {"n"}]
MCArcsOut == [split |-> <<"m">>, work |-> <<"n">>, join |-> <<"e">>]
MCPlaceArcsOut == [s |-> <<"split">>, m |-> <<"work">>, n |-> <<"join">>,
                   e |-> <<>>]
MCClass == [split |-> "basic", work |-> "basic", join |-> "barrier"]
MCAction == [split |-> "split", work |-> "merge", join |-> "join"]
MCSplitSize == [t \in MCTransitions |-> 2]
MCRemovedFields == [t \in MCTransitions |-> {}]
MCGroupsAtStart == <<[begin |-> 0, end |-> 1, parent_color |-> NoColor,
                      parent_group |-> NoGroup]>>
MCRequests == {[type |-> "create_token", place |-> "s", color |-> 0,
                group |-> 1, data |-> {}]}
\* A client may also name a place that is not there.
MCRequestsNowhere == MCRequests \cup {[type |-> "create_token", place |-> "nowhere",
                                       color |-> 0, group |-> 1, data |-> {}]}

MCNoCrash == {}
\* A process may crash anywhere a redelivered message can be handled again.
MCCrashAt == {<<"notify_transition", pc>> : pc \in {"consume", "counted"}}
             \cup {<<"notify_place", pc>> : pc \in {"read", "publish"}}
             \cup {<<"create_token", pc>> : pc \in {"create", "put"}}
\* A process dies after a barrier consumed its tokens, before it pushed.
MCCrashWhileFiring == {<<"notify_transition", "push">>}

\* The token's own machine, and that of the colors it splits into.
MCMachines == {{"s", "e"}, {"m", "n"}}
MCRank == [s |-> 0, m |-> 0, n |-> 1, e |-> 1]
MCBody == [t \in MCTransitions |-> {"m", "n"}]

ASSUME NetIsWellNested == WellNested

\* No invariant tells one worker from another.
WorkersAlike == Permutations(Workers)
=============================================================================
