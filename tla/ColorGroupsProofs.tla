-------------------------- MODULE ColorGroupsProofs --------------------------
(***************************************************************************)
(* For any number of processes, sizes, interleavings and crashes, the      *)
(* groups that add_color_group allocates share no color, and none is ever  *)
(* overwritten.                                                            *)
(***************************************************************************)
EXTENDS ColorGroups, TLAPS

\* The invariant holds at the start: there are no groups.
LEMMA InitIInv == Init => IInv
BY SizesAssumption, MaxGroupsAssumption
   DEF Init, IInv, TypeOK, IndexInv, BelowInv, CarriedInv, RangesDisjoint,
       GroupIdxs, Idle, ProcState, Carries, Stored, NoGroup, Unset, Range

\* set_initial_color only ever runs before there are colors.
LEMMA SetInitialColorIInv ==
    ASSUME IInv, NEW color \in InitialColors, SetInitialColor(color)
    PROVE  IInv'
<1>1. color \in Nat
  BY SizesAssumption
<1>2. \A g \in GroupIdxs : ~Stored(g)
  BY DEF IInv, TypeOK, BelowInv, SetInitialColor, MaySetInitialColor, Unset, Range
<1>3. \A p \in Procs : ~Carries(p)
  BY DEF IInv, TypeOK, BelowInv, ProcState, SetInitialColor, MaySetInitialColor,
         Unset, Carries
<1> QED
  BY <1>1, <1>2, <1>3
     DEF IInv, TypeOK, IndexInv, BelowInv, CarriedInv, RangesDisjoint,
         SetInitialColor, Stored, Carries, Carried, TakenRange

\* A fresh index is below the counter and nobody's.
LEMMA TakeIndexIInv ==
    ASSUME IInv, NEW p \in Procs, NEW size \in Sizes, TakeIndex(p, size)
    PROVE  IInv'
<1> USE MaxGroupsAssumption
<1>1. size \in Nat /\ group_counter \in GroupIdxs
  BY SizesAssumption DEF IInv, TypeOK, TakeIndex, GroupIdxs
<1>2. TypeOK'
  BY <1>1 DEF IInv, TypeOK, TakeIndex, IncrGroupCounter, ProcState, GroupIdxs
<1>3. \A q \in Procs : Carries(q)' => Carries(q) /\ q # p /\ proc'[q] = proc[q]
  BY DEF IInv, TypeOK, TakeIndex, Carries
<1>4. IndexInv'
  BY <1>1 DEF IInv, TypeOK, IndexInv, TakeIndex, IncrGroupCounter, Stored,
              GroupIdxs, ProcState
<1>5. BelowInv' /\ CarriedInv' /\ RangesDisjoint'
  BY <1>3 DEF IInv, BelowInv, CarriedInv, RangesDisjoint, TakeIndex, Stored,
              Carried, TakenRange, Carries
<1> QED
  BY <1>2, <1>4, <1>5 DEF IInv

\* A fresh range begins where the counter was, at or above the end of the rest.
LEMMA TakeColorsIInv ==
    ASSUME IInv, NEW p \in Procs, TakeColors(p)
    PROVE  IInv'
<1> DEFINE old == IF color_counter = Unset THEN 0 ELSE color_counter
<1>1. /\ old \in Nat /\ proc[p].size \in Nat
      /\ color_counter' = old + proc[p].size
      /\ proc' = [proc EXCEPT ![p].pc = "store", ![p].end = color_counter']
      /\ UNCHANGED <<group_counter, color_groups>>
  BY DEF IInv, TypeOK, ProcState, TakeColors, IncrBy
<1>2. /\ proc'[p] = [pc |-> "store", size |-> proc[p].size, idx |-> proc[p].idx,
                     end |-> color_counter']
      /\ \A q \in Procs : q # p => proc'[q] = proc[q]
  BY <1>1 DEF IInv, TypeOK, ProcState
<1>3. TypeOK'
  <2>1. color_counter' \in Nat
    BY <1>1
  <2>2. proc' \in [Procs -> ProcState]
    BY <1>1, <1>2, <2>1 DEF IInv, TypeOK, ProcState
  <2> QED BY <1>1, <2>1, <2>2 DEF IInv, TypeOK
<1>4. IndexInv'
  BY <1>1, <1>2 DEF IInv, TypeOK, IndexInv, ProcState, Stored, TakeColors
<1>5. color_counter <= old
  BY DEF IInv, TypeOK, Unset
<1>6. /\ \A g \in GroupIdxs : Stored(g) => color_groups[g] \in Range /\ color_groups[g].end <= old
      /\ \A q \in Procs : Carries(q) => proc[q].end <= old /\ proc[q].size <= proc[q].end
  BY <1>1, <1>5 DEF IInv, TypeOK, BelowInv, ProcState, Range, Unset
<1>7. BelowInv'
  BY <1>1, <1>2, <1>3, <1>6 DEF BelowInv, Stored, Carries, TypeOK, ProcState, Range
<1>8. Carried(p)' = [begin |-> old, end |-> old + proc[p].size]
  BY <1>1, <1>2 DEF Carried, TakenRange, IInv, TypeOK, ProcState
<1>9. CarriedInv'
  <2>1. ASSUME NEW q \in Procs, NEW g \in GroupIdxs, Carries(q)', Stored(g)'
        PROVE  \/ Before(Carried(q)', color_groups'[g])
               \/ Before(color_groups'[g], Carried(q)')
    <3>1. CASE q = p
      BY <1>1, <1>6, <1>8, <2>1, <3>1 DEF Before, Stored
    <3>2. CASE q # p
      BY <1>1, <1>2, <2>1, <3>2 DEF IInv, CarriedInv, Carries, Carried, Stored
    <3> QED BY <3>1, <3>2
  <2>2. ASSUME NEW q \in Procs, NEW r \in Procs, Carries(q)', Carries(r)', q # r
        PROVE  Before(Carried(q)', Carried(r)') \/ Before(Carried(r)', Carried(q)')
    <3>1. ASSUME NEW s \in Procs, s # p, Carries(s)'
          PROVE  Before(Carried(s)', Carried(p)')
      BY <1>2, <1>6, <1>8, <3>1 DEF Before, Carries, Carried, TakenRange
    <3>2. CASE q # p /\ r # p
      BY <1>2, <2>2, <3>2 DEF IInv, CarriedInv, Carries, Carried
    <3> QED BY <2>2, <3>1, <3>2
  <2> QED BY <2>1, <2>2 DEF CarriedInv, Before
<1>10. RangesDisjoint'
  BY <1>1 DEF IInv, RangesDisjoint, Stored, Before
<1> QED
  BY <1>3, <1>4, <1>7, <1>9, <1>10 DEF IInv

\* A stored range was carried before, so it overlapped no other already.
LEMMA StoreGroupIInv ==
    ASSUME IInv, NEW p \in Procs, StoreGroup(p)
    PROVE  IInv'
<1> DEFINE idx == proc[p].idx
<1>1. /\ idx \in GroupIdxs /\ ~Stored(idx) /\ Carries(p)
      /\ color_groups' = [color_groups EXCEPT ![idx] = Carried(p)]
      /\ proc' = [proc EXCEPT ![p] = Idle]
      /\ UNCHANGED <<group_counter, color_counter>>
  BY DEF IInv, IndexInv, StoreGroup, Carries, Carried
<1>2. /\ Carried(p) \in Range /\ Carried(p).end <= color_counter
      /\ Carried(p) # NoGroup
  BY <1>1 DEF IInv, TypeOK, ProcState, BelowInv, Carried, TakenRange, Range, NoGroup
<1>3. /\ color_groups'[idx] = Carried(p)
      /\ \A g \in GroupIdxs : g # idx => color_groups'[g] = color_groups[g]
  BY <1>1 DEF IInv, TypeOK
<1>4. \A q \in Procs : proc'[q].pc # "idle" => q # p /\ proc'[q] = proc[q]
  BY <1>1 DEF IInv, TypeOK, Idle
<1>5. TypeOK'
  BY <1>1, <1>2 DEF IInv, TypeOK, ProcState, Idle
<1>6. IndexInv'
  <2>1. \A g \in GroupIdxs : Stored(g)' => Stored(g) \/ g = idx
    BY <1>3 DEF Stored
  <2>2. \A q \in Procs : q # p /\ proc[q].pc # "idle" => proc[q].idx # idx
    BY <1>1 DEF IInv, IndexInv, Carries
  <2>3. idx < group_counter
    BY <1>1 DEF IInv, IndexInv, Carries
  <2> QED
    BY <1>1, <1>4, <2>1, <2>2, <2>3 DEF IInv, IndexInv
<1>7. BelowInv'
  BY <1>1, <1>2, <1>3, <1>4 DEF IInv, BelowInv, Stored, Carries
<1>8. CarriedInv'
  <2>1. ASSUME NEW q \in Procs, Carries(q)'
        PROVE  Carries(q) /\ q # p /\ Carried(q)' = Carried(q)
    BY <1>4, <2>1 DEF Carries, Carried, TakenRange
  <2> QED
    BY <1>1, <1>3, <2>1 DEF IInv, CarriedInv, Stored, Before
<1>9. RangesDisjoint'
  BY <1>1, <1>3 DEF IInv, CarriedInv, RangesDisjoint, Stored, Before
<1> QED
  BY <1>5, <1>6, <1>7, <1>8, <1>9 DEF IInv

\* A crash forgets an index and a range; nothing else changes.
LEMMA CrashIInv ==
    ASSUME IInv, NEW p \in Procs, Crash(p)
    PROVE  IInv'
<1>1. \A q \in Procs : proc'[q].pc # "idle" => q # p /\ proc'[q] = proc[q]
  BY DEF IInv, TypeOK, Crash, Idle
<1>2. TypeOK'
  BY DEF IInv, TypeOK, Crash, ProcState, Idle
<1>3. \A q \in Procs : Carries(q)' => Carries(q) /\ Carried(q)' = Carried(q)
  BY <1>1 DEF Carries, Carried, TakenRange
<1>4. IndexInv' /\ RangesDisjoint'
  BY <1>1 DEF IInv, IndexInv, RangesDisjoint, Crash, Stored, Before
<1>5. BelowInv'
  BY <1>1 DEF IInv, BelowInv, Crash, Stored, Carries
<1>6. CarriedInv'
  BY <1>3 DEF IInv, CarriedInv, Crash, Stored, Before
<1> QED
  BY <1>2, <1>4, <1>5, <1>6 DEF IInv

\* Every step preserves the invariant.
LEMMA StepIInv == IInv /\ [Next]_vars => IInv'
<1> SUFFICES ASSUME IInv, [Next]_vars PROVE IInv'
  OBVIOUS
<1>1. CASE UNCHANGED vars
  BY <1>1 DEF vars, IInv, TypeOK, IndexInv, BelowInv, CarriedInv, RangesDisjoint,
              Stored, Carries, Carried, TakenRange, Before
<1>2. CASE Next
  BY <1>2, SetInitialColorIInv, TakeIndexIInv, TakeColorsIInv, StoreGroupIInv,
     CrashIInv DEF Next
<1> QED BY <1>1, <1>2

\* Any number of processes that call add_color_group at once, and crash in it,
\* leave every variable with its type and every two groups without a common color.
THEOREM InvariantHolds == Spec => []IInv
<1>1. Init => IInv
  BY InitIInv
<1>2. IInv /\ [Next]_vars => IInv'
  BY StepIInv
<1> QED BY <1>1, <1>2, PTL DEF Spec

\* Every process and every key of a net's color groups has its type.
THEOREM TypeCorrect == Spec => []TypeOK
<1>1. IInv => TypeOK
  BY DEF IInv
<1> QED BY <1>1, InvariantHolds, PTL

\* No color is ever in two groups of a net (net.py, add_color_group).
THEOREM GroupsDisjoint == Spec => []RangesDisjoint
<1>1. IInv => RangesDisjoint
  BY DEF IInv
<1> QED BY <1>1, InvariantHolds, PTL

\* No stored group is ever overwritten: its index was taken by one process only.
THEOREM StoredGroupsStable == Spec => GroupsStable
<1> DEFINE Stable == \A g \in GroupIdxs : Stored(g) => color_groups'[g] = color_groups[g]
<1>1. IInv /\ [Next]_vars => [Stable]_vars
  <2> SUFFICES ASSUME IInv, Next PROVE Stable
    OBVIOUS
  <2>1. ASSUME NEW p \in Procs, StoreGroup(p) PROVE Stable
    BY <2>1 DEF StoreGroup, IInv, TypeOK, IndexInv
  <2>2. ASSUME UNCHANGED color_groups PROVE Stable
    BY <2>2
  <2> QED
    BY <2>1, <2>2 DEF Next, SetInitialColor, TakeIndex, TakeColors, Crash
<1> QED BY <1>1, InvariantHolds, PTL DEF Spec, GroupsStable
=============================================================================
