------------------------- MODULE PetriNetRefinement -------------------------
(***************************************************************************)
(* The engine implements the coloured net.  No action reads the history    *)
(* variable deposited; it tells a request that was put from one that is    *)
(* delivered again.                                                        *)
(***************************************************************************)
EXTENDS PetriNet

-----------------------------------------------------------------------------
(* The refinement mapping.                                                 *)

GroupView ==
    {[colors |-> GroupColors(g), parent |-> color_groups[g].parent_color] :
        g \in DOMAIN color_groups}

MarkingView == {c \in Cells : color_marking[c] # NoToken}

\* A firing is under way as long as its active set exists.
FiringView ==
    UNION {{<<t, IF IsBarrier(t) THEN GroupColors(tag) ELSE {tag}>> :
              tag \in {g \in Tags : active_tokens[t][g] # {}}} : t \in Transitions}

RequestedCells == {<<m.color, m.place>> : m \in {r \in Requests : r.place \in Places}}

EffectOf ==
    [t \in Transitions |->
        CASE Action[t] \in {"merge", "remove_data", "record_time"} -> "same"
          [] Action[t] = "split" -> "split"
          [] Action[t] = "join" -> "join"
          [] OTHER -> "none"]

CN == INSTANCE ColoredNet WITH
    Inputs <- ArcsIn,
    Outputs <- [t \in Transitions |-> ToSet(ArcsOut[t])],
    Effect <- EffectOf,
    IsBarrierTransition <- [t \in Transitions |-> IsBarrier(t)],
    StartGroups <- {[colors |-> GroupsAtStart[g].begin .. GroupsAtStart[g].end - 1,
                     parent |-> NoColor] : g \in DOMAIN GroupsAtStart},
    Deposits <- RequestedCells,
    due <- RequestedCells \ deposited,
    groups <- GroupView,
    marking <- MarkingView,
    firing <- FiringView

\* Every step of the engine is a step of the coloured net or none at all: a
\* request deposits one token, a firing takes all its tokens together and
\* replaces them exactly once, whatever is delivered twice or handled at the
\* same time.
ImplementsNet == CN!AbstractSpec

\* And it makes the progress the coloured net promises: nothing enabled is left
\* undone, and nothing begun is left unfinished.
ImplementsProgress == CN!AbstractProgress
=============================================================================
