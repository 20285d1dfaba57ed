----------------------------- MODULE ColoredNet -----------------------------
(***************************************************************************)
(* What the engine promises: a coloured Petri net.  No messages, workers,  *)
(* waiting lists or crashes: a token is deposited once for each request, a *)
(* transition that has all its tokens takes them in one step and gives     *)
(* their replacement, once, in a later one.                                *)
(*                                                                         *)
(* A firing is named by its transition and the set of colors it takes from *)
(* each input place: one color for a basic transition, all the colors of a *)
(* group for a barrier.                                                    *)
(***************************************************************************)
EXTENDS Integers, FiniteSets

CONSTANTS
    Places, Transitions,
    Inputs,     \* transition -> its set of input places
    Outputs,    \* transition -> its set of output places
    Effect,     \* transition -> "same", "split", "join" or "none"
    IsBarrierTransition,    \* transition -> whether it takes whole groups
    Colors,
    StartGroups,    \* the color groups that exist from the start
    Deposits    \* the <<color, place>> cells that clients put a token in

VARIABLES
    due,        \* the deposits still to be made
    groups,     \* the color groups, as [colors, parent] records
    marking,    \* the cells that hold a token
    firing      \* the firings that took their tokens and have not replaced them

avars == <<due, groups, marking, firing>>

Firings == Transitions \X SUBSET Colors

Disjoint(colors) == \A g \in groups : g.colors \cap colors = {}

AbstractInit ==
    /\ due = Deposits
    /\ groups = StartGroups
    /\ marking = {}
    /\ firing = {}

Deposit ==
    \E cell \in due :
        /\ cell \notin marking
        /\ marking' = marking \cup {cell}
        /\ due' = due \ {cell}
        /\ UNCHANGED <<groups, firing>>

\* Colors are never shared between groups.  A group may be empty.
NewGroup ==
    \E colors \in SUBSET Colors, parent \in Colors :
        /\ Disjoint(colors)
        /\ groups' = groups \cup {[colors |-> colors, parent |-> parent]}
        /\ UNCHANGED <<due, marking, firing>>

\* The sets of colors a transition may take.
Takes(t) ==
    IF IsBarrierTransition[t] THEN {g.colors : g \in groups}
    ELSE {{c} : c \in UNION {g.colors : g \in groups}}

CanBegin(t, colors) ==
    /\ colors \in Takes(t)
    /\ colors # {}
    /\ colors \X Inputs[t] \subseteq marking
    /\ <<t, colors>> \notin firing

Begin(t, colors) ==
    /\ CanBegin(t, colors)
    /\ marking' = marking \ (colors \X Inputs[t])
    /\ firing' = firing \cup {<<t, colors>>}
    /\ UNCHANGED <<due, groups>>

\* The colors of the tokens that replace those a firing took.
Gives(t, colors) ==
    CASE Effect[t] = "same"  -> {colors}
      [] Effect[t] = "split" -> {g.colors : g \in {h \in groups : h.parent \in colors}}
      [] Effect[t] = "join"  -> {{g.parent} : g \in {h \in groups : h.colors = colors}}
      [] Effect[t] = "none"  -> {{}}

End(t, colors) ==
    \E given \in Gives(t, colors) :
        /\ <<t, colors>> \in firing
        /\ (given \X Outputs[t]) \cap marking = {}
        /\ marking' = marking \cup (given \X Outputs[t])
        /\ firing' = firing \ {<<t, colors>>}
        /\ UNCHANGED <<due, groups>>

AbstractNext ==
    \/ Deposit
    \/ NewGroup
    \/ \E t \in Transitions, colors \in SUBSET Colors :
          Begin(t, colors) \/ End(t, colors)

AbstractSpec == AbstractInit /\ [][AbstractNext]_avars

\* Every deposit is made; what can begin does, unless another transition takes
\* a token of it; and what has begun ends.
AbstractProgress ==
    /\ <>(due = {})
    /\ \A t \in Transitions, colors \in SUBSET Colors :
          /\ CanBegin(t, colors) ~> ~CanBegin(t, colors)
          /\ <<t, colors>> \in firing ~> <<t, colors>> \notin firing
=============================================================================
