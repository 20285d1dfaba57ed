----------------------------- MODULE ColorGroups -----------------------------
(***************************************************************************)
(* Net.add_color_group and Net.set_initial_color, run by any number of     *)
(* processes at once.  A group's index and its range of colors come from   *)
(* two counters in Redis, incremented by two commands; a third stores the  *)
(* group.  Other processes run, and a process may crash, between them.     *)
(***************************************************************************)
EXTENDS Integers

CONSTANTS
    Procs,          \* the processes that share the net
    Sizes,          \* the sizes of the groups they ask for
    InitialColors,  \* the colors set_initial_color may be called with
    MaxGroups       \* bound: how many groups are ever begun

VARIABLES
    group_counter,  \* the counter "G"
    color_counter,  \* the counter "C", Unset as long as nobody wrote it
    color_groups,   \* the group at an index, or NoGroup
    proc            \* process -> its pc, and what add_color_group knows there

vars == <<group_counter, color_counter, color_groups, proc>>

Unset == -1     \* the counter's key is absent
NoGroup == [begin |-> -1, end |-> -1]

ASSUME SizesAssumption == Sizes \subseteq Nat /\ InitialColors \subseteq Nat
ASSUME MaxGroupsAssumption == MaxGroups \in Nat

GroupIdxs == 0 .. MaxGroups - 1
Range == [begin : Nat, end : Nat]
Idle == [pc |-> "idle", size |-> 0, idx |-> 0, end |-> 0]

Init ==
    /\ group_counter = 0
    /\ color_counter = Unset
    /\ color_groups = [g \in GroupIdxs |-> NoGroup]
    /\ proc = [p \in Procs |-> Idle]

\* SETNX: refused, with a ValueError, once colors were counted.
AlwaysSet == TRUE               \* faulty: SET in place of SETNX
MaySetInitialColor == color_counter = Unset

SetInitialColor(color) ==
    /\ MaySetInitialColor
    /\ color_counter' = color
    /\ UNCHANGED <<group_counter, color_groups, proc>>

\* INCR of the group counter: the index is what it held before.
LostIncr == group_counter' \in {group_counter, group_counter + 1}   \* faulty: GET, SET
IncrGroupCounter == group_counter' = group_counter + 1

TakeIndex(p, size) ==
    /\ proc[p].pc = "idle"
    /\ group_counter < MaxGroups
    /\ IncrGroupCounter
    /\ proc' = [proc EXCEPT ![p] =
                  [pc |-> "color", size |-> size, idx |-> group_counter, end |-> 0]]
    /\ UNCHANGED <<color_counter, color_groups>>

\* INCRBY takes an absent counter for 0 and returns the range's end.
IncrBy(counter, size) == (IF counter = Unset THEN 0 ELSE counter) + size

TakeColors(p) ==
    /\ proc[p].pc = "color"
    /\ color_counter' = IncrBy(color_counter, proc[p].size)
    /\ proc' = [proc EXCEPT ![p].pc = "store", ![p].end = color_counter']
    /\ UNCHANGED <<group_counter, color_groups>>

\* begin = end - size, and HSET of the group.
TakenRangeEarly(r) == [begin |-> r.end - r.size - 1, end |-> r.end]  \* faulty
TakenRange(r) == [begin |-> r.end - r.size, end |-> r.end]

StoreGroup(p) ==
    /\ proc[p].pc = "store"
    /\ color_groups' = [color_groups EXCEPT ![proc[p].idx] = TakenRange(proc[p])]
    /\ proc' = [proc EXCEPT ![p] = Idle]
    /\ UNCHANGED <<group_counter, color_counter>>

\* The process dies: its index and its colors are never used.
Crash(p) ==
    /\ proc[p].pc # "idle"
    /\ proc' = [proc EXCEPT ![p] = Idle]
    /\ UNCHANGED <<group_counter, color_counter, color_groups>>

Next ==
    \/ \E color \in InitialColors : SetInitialColor(color)
    \/ \E p \in Procs :
          \/ \E size \in Sizes : TakeIndex(p, size)
          \/ TakeColors(p)
          \/ StoreGroup(p)
          \/ Crash(p)

Spec == Init /\ [][Next]_vars

-----------------------------------------------------------------------------
ProcState == [pc : {"idle", "color", "store"}, size : Nat, idx : Nat, end : Nat]

\* Every variable has its type.
TypeOK ==
    /\ group_counter \in 0 .. MaxGroups
    /\ color_counter \in Nat \cup {Unset}
    /\ color_groups \in [GroupIdxs -> Range \cup {NoGroup}]
    /\ proc \in [Procs -> ProcState]

Stored(g) == color_groups[g] # NoGroup

Before(r, s) == r.end <= s.begin

\* No color is in two groups, whoever allocated them, in which order the two
\* counters were incremented, and who crashed between.  A basic transition's
\* tokens are told apart by their color alone, so a shared color would let the
\* workflows of two groups take each other's tokens.
RangesDisjoint ==
    \A g, h \in GroupIdxs :
        Stored(g) /\ Stored(h) /\ g # h =>
            \/ Before(color_groups[g], color_groups[h])
            \/ Before(color_groups[h], color_groups[g])

\* A stored group is never overwritten: the tokens that hold its index would
\* change group.
GroupsStable ==
    [][\A g \in GroupIdxs : Stored(g) => color_groups'[g] = color_groups[g]]_vars

-----------------------------------------------------------------------------
(* The inductive invariant: the ranges that processes still carry are as   *)
(* disjoint as the stored ones, and all lie below the counter.             *)

Carries(p) == proc[p].pc = "store"
Carried(p) == TakenRange(proc[p])

\* The indices in flight are taken, not stored, and each is one process's own.
IndexInv ==
    /\ \A g \in GroupIdxs : Stored(g) => g < group_counter
    /\ \A p \in Procs : proc[p].pc # "idle" =>
          /\ proc[p].idx \in GroupIdxs
          /\ proc[p].idx < group_counter
          /\ ~Stored(proc[p].idx)
    /\ \A p, q \in Procs :
          proc[p].pc # "idle" /\ proc[q].pc # "idle" /\ p # q =>
              proc[p].idx # proc[q].idx

\* Every range lies below the color counter.
BelowInv ==
    /\ \A g \in GroupIdxs : Stored(g) =>
          color_groups[g] \in Range /\ color_groups[g].end <= color_counter
    /\ \A p \in Procs : Carries(p) =>
          proc[p].size <= proc[p].end /\ proc[p].end <= color_counter

\* A carried range overlaps no other.
CarriedInv ==
    /\ \A p \in Procs, g \in GroupIdxs : Carries(p) /\ Stored(g) =>
          Before(Carried(p), color_groups[g]) \/ Before(color_groups[g], Carried(p))
    /\ \A p, q \in Procs : Carries(p) /\ Carries(q) /\ p # q =>
          Before(Carried(p), Carried(q)) \/ Before(Carried(q), Carried(p))

\* What every step preserves: the parts above, and with them RangesDisjoint.
IInv == TypeOK /\ IndexInv /\ BelowInv /\ CarriedInv /\ RangesDisjoint
=============================================================================
