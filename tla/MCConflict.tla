----------------------------- MODULE MCConflict -----------------------------
(***************************************************************************)
(* Two transitions compete for the tokens at x and y: mix, which finds     *)
(* that their data disagrees, and both, which passes the two of them on    *)
(* and finds its output place full after the first.  Two barriers compete  *)
(* for what it passed on: one whose default action raises, and a join of a *)
(* group that has no parent.                                               *)
(***************************************************************************)
EXTENDS PetriNetInv, TLC

MCPlaces == {"x", "y", "c", "z"}
MCTransitions == {"mix", "both", "hold", "rejoin"}
MCArcsIn == [mix |-> {"x", "y"}, both |-> {"x", "y"}, hold |-> {"z"}, rejoin |-> {"z"}]
MCArcsOut == [mix |-> <<"c">>, both |-> <<"z">>, hold |-> <<>>, rejoin |-> <<"c">>]
MCPlaceArcsOut == [x |-> <<"mix", "both">>, y |-> <<"mix", "both">>,
                   c |-> <<>>, z |-> <<"hold", "rejoin">>]
MCClass == [t \in MCTransitions |->
               IF t \in {"hold", "rejoin"} THEN "barrier" ELSE "basic"]
MCAction == [mix |-> "merge", both |-> "record_time", hold |-> "not_implemented",
             rejoin |-> "join"]
MCSplitSize == [t \in MCTransitions |-> 0]
MCRemovedFields == [t \in MCTransitions |-> {}]
MCGroupsAtStart == <<[begin |-> 0, end |-> 1, parent_color |-> NoColor,
                      parent_group |-> NoGroup]>>
MCData == {<<"f", 1>>, <<"f", 2>>}
Create(p, d) == [type |-> "create_token", place |-> p, color |-> 0, group |-> 1,
                 data |-> d]
MCRequests == {Create("x", {<<"f", 1>>}), Create("y", {<<"f", 2>>})}
MCNoCrash == {}

\* No property tells one worker from another.
WorkersAlike == Permutations(Workers)
=============================================================================
