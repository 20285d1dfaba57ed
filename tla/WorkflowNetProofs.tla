------------------------- MODULE WorkflowNetProofs --------------------------
(***************************************************************************)
(* A net that is covered by machines is safe, for any number of handlers,  *)
(* any order of their messages and any crashes that do not put a client's  *)
(* token twice.  So the engine implements the coloured net, loses no       *)
(* wakeup, and finishes what it began, without a condition on what the     *)
(* net does when it runs.                                                  *)
(***************************************************************************)
EXTENDS WorkflowNets, PetriNetPromiseProofs

-----------------------------------------------------------------------------
(* What a step that moves no color keeps.                                  *)

\* Who took a color depends on the groups and the enablers only.
LEMMA TakenSame ==
    ASSUME UNCHANGED <<color_groups, enablers>>, NEW t, NEW K, NEW c
    PROVE  Taken(t, K, c)' <=> Taken(t, K, c)
BY DEF Taken, Enabled, InputsIn, LiveTags, TagColors, GroupColors, IsBarrier

\* A group's tag, colors and parent are what they should be.
LEMMA GroupFacts ==
    ASSUME IInv, NEW g \in DOMAIN color_groups
    PROVE  /\ g \in Tags /\ g \in Groups /\ GroupColors(g) \subseteq Colors
           /\ Parent(g) # NoColor => Parent(g) \in Colors /\ Parent(g) \in Tags
<1>1. /\ color_groups \in Seq(ColorGroup) /\ Len(color_groups) <= MaxGroups
      /\ color_groups[g] \in ColorGroup
  BY ElementOf DEF IInv, TypeOK
<1>2. g \in Groups
  BY <1>1, BoundAssumption DEF Groups
<1>3. GroupColors(g) \subseteq Colors
  BY <1>1, BoundAssumption DEF ColorGroup, GroupColors, Colors
<1>4. Parent(g) # NoColor => Parent(g) \in Colors
  BY <1>1 DEF ColorGroup, Parent
<1> QED BY <1>2, <1>3, <1>4 DEF Tags

\* A client's group has no parent.
LEMMA ClientsOwn ==
    ASSUME NEW g \in DOMAIN GroupsAtStart
    PROVE  GroupsAtStart[g].parent_color = NoColor
<1> DEFINE S == [begin : 0 .. MaxColors, end : 0 .. MaxColors,
                 parent_color : {NoColor}, parent_group : {NoGroup}]
<1>1. GroupsAtStart \in Seq(S)
  BY GroupsAssumption
<1>2. \A x \in S : x.parent_color = NoColor
  OBVIOUS
<1> HIDE DEF S
<1>3. GroupsAtStart[g] \in S
  BY <1>1, ElementOf
<1> QED BY <1>2, <1>3

\* The tag that was enabled is the one that has the color.
LEMMA TakenTag ==
    ASSUME IInv, NEW t \in Transitions, NEW tag \in LiveTags(t), NEW K,
           NEW c \in TagColors(t, tag)
    PROVE  Taken(t, K, c) <=> InputsIn(t, K) # {} /\ Enabled(t, tag)
BY OneTag DEF Taken

\* A color that was given back stays so.
LEMMA ReturnedKept ==
    ASSUME \A g \in DOMAIN color_groups :
              g \in DOMAIN color_groups' /\ color_groups'[g] = color_groups[g],
           \A t \in Transitions, g \in DOMAIN color_groups : Done(t, g) => Done(t, g)',
           NEW u, NEW K, NEW c, Returned(u, K, c)
    PROVE  Returned(u, K, c)'
<1>1. PICK j \in Transitions, g \in DOMAIN color_groups :
          Closes(j, u, K) /\ Parent(g) = c /\ Done(j, g)
  BY DEF Returned
<1>2. Closes(j, u, K)'
  BY <1>1 DEF Closes, OutputsIn, InputsIn, Opens
<1>3. Parent(g)' = c /\ Done(j, g)' /\ g \in DOMAIN color_groups'
  BY <1>1 DEF Parent
<1> QED BY <1>2, <1>3 DEF Returned

\* Nothing comes into the hands of a transition that becomes neither enabled nor active.
LEMMA HandKept ==
    ASSUME \A g \in DOMAIN color_groups :
              g \in DOMAIN color_groups' /\ color_groups'[g] = color_groups[g],
           \A t \in Transitions, g \in DOMAIN color_groups : Done(t, g) => Done(t, g)',
           NEW u, NEW K, NEW c,
           active_tokens'[u][c] # {} => active_tokens[u][c] # {},
           Enabled(u, c)' => Enabled(u, c),
           InHand(u, K, c)'
    PROVE  InHand(u, K, c)
<1>1. Returned(u, K, c) => Returned(u, K, c)'
  BY ReturnedKept
<1> QED BY <1>1 DEF InHand, IsBarrier, InputsIn

\* What a transition has in hand it took.
LEMMA HandTaken ==
    ASSUME IInv, EnablerInv, NEW u \in Transitions, NEW K, NEW c \in Colors, InHand(u, K, c)
    PROVE  Taken(u, K, c) /\ Enabled(u, c)
<1>1. c \in Tags /\ ~IsBarrier(u) /\ InputsIn(u, K) # {}
  BY DEF InHand, Tags
<1>2. Enabled(u, c)
  BY <1>1 DEF InHand, EnablerInv, Enabled
<1> QED BY <1>1, <1>2 DEF Taken, LiveTags, TagColors

\* A step that the colors do not see.
LEMMA ShapeFrame ==
    ASSUME ShapeInv,
           UNCHANGED <<color_marking, color_groups, next_color, active_tokens, enablers,
                       deposited>>
    PROVE  ShapeInv'
<1>1. \A c, q : Marked(c, q)' <=> Marked(c, q)
  BY DEF Marked
<1>2. \A t, tag : /\ Enabled(t, tag)' <=> Enabled(t, tag)
                  /\ Done(t, tag)' <=> Done(t, tag)
  BY DEF Enabled, Done
<1>3. \A t, K, c : Taken(t, K, c)' <=> Taken(t, K, c)
  BY TakenSame
<1>4. \A u, K, c : Returned(u, K, c)' <=> Returned(u, K, c)
  BY <1>2 DEF Returned, Parent, Closes, Opens, OutputsIn, InputsIn
<1>5. \A u, K, c : InHand(u, K, c)' <=> InHand(u, K, c)
  BY <1>2, <1>4 DEF InHand, IsBarrier, InputsIn
<1>6. \A K, c : Reached(K, c)' <=> Reached(K, c)
  BY <1>1, <1>3 DEF Reached
<1>7. /\ EnabledLive' /\ StartKept' /\ LoneActive'
  BY <1>2 DEF ShapeInv, EnabledLive, StartKept, LoneActive, LiveTags, IsBarrier, GroupColors
<1>8. OnePlace' /\ PlaceOrHand' /\ OneHand' /\ RequestFirst'
  BY <1>1, <1>5, <1>6 DEF ShapeInv, OnePlace, PlaceOrHand, OneHand, RequestFirst
<1>9. Later'
  BY <1>1, <1>3, <1>5 DEF ShapeInv, Later, InputsIn
<1>10. GoneAtBarrier' /\ OneBarrier'
  BY <1>1, <1>3, <1>5 DEF ShapeInv, GoneAtBarrier, OneBarrier, IsBarrier
<1>11. ReachedBySplit' /\ OneGroup'
  BY <1>2, <1>6
     DEF ShapeInv, ReachedBySplit, OneGroup, Parent, GroupColors, Opens, OutputsIn
<1> QED BY <1>7, <1>8, <1>9, <1>10, <1>11 DEF ShapeInv

-----------------------------------------------------------------------------
(* Tokens come to places: the colors D to the places O.                    *)

Marks(D, O) ==
    /\ D \subseteq Colors /\ O \subseteq Places
    /\ \A c \in Colors, p \in Places :
          Marked(c, p)' <=> Marked(c, p) \/ (c \in D /\ p \in O)
    /\ UNCHANGED <<color_groups, next_color, enablers>>
    /\ deposited \subseteq deposited'
    /\ \A t \in Transitions, tag \in Tags :
          active_tokens'[t][tag] \in {{}, active_tokens[t][tag]}

\* The machine has room for color c at its places of O, and c comes to where it should.
Fits(K, c, O) ==
    /\ \A p, q \in O \cap K : p = q
    /\ \A p \in K : ~Marked(c, p)
    /\ \A u \in Transitions : ~InHand(u, K, c)'
    /\ \A t \in Transitions : Taken(t, K, c) =>
          /\ ~IsBarrier(t)
          /\ \A q \in InputsIn(t, K), p \in O \cap K : Rank[q] < Rank[p]
    /\ \A m \in Requests :
          m.place \in K /\ m.color = c => <<m.color, m.place>> \in deposited'
    /\ \A u \in Transitions, g \in DOMAIN color_groups :
          Opens(u, K) /\ c \in GroupColors(g) /\ Parent(g) # NoColor => Done(u, Parent(g))'
    /\ \A u \in Transitions, g, h \in DOMAIN color_groups : \A d \in GroupColors(h) :
          /\ Opens(u, K) /\ c \in GroupColors(g)
          /\ Parent(g) # NoColor /\ Parent(g) = Parent(h)
          /\ Reached(K, d)'
          => g = h

\* Nobody takes a color meanwhile, and only the colors that come are reached anew.
LEMMA MarksFacts ==
    ASSUME WellNested, IInv, NEW D, NEW O, Marks(D, O)
    PROVE  /\ \A t, K, c : Taken(t, K, c)' <=> Taken(t, K, c)
           /\ \A t \in Transitions, tag \in Tags : Done(t, tag) => Done(t, tag)'
           /\ \A t \in Transitions, tag \in Tags : Enabled(t, tag)' <=> Enabled(t, tag)
           /\ \A u \in Transitions, K \in Machines, c \in Colors :
                 InHand(u, K, c)' => InHand(u, K, c)
           /\ \A K \in Machines, c \in Colors :
                 Reached(K, c)' => Reached(K, c) \/ (c \in D /\ O \cap K # {})
<1>1. \A t, K, c : Taken(t, K, c)' <=> Taken(t, K, c)
  BY TakenSame DEF Marks
<1>2. \A t \in Transitions, tag \in Tags : Enabled(t, tag)' <=> Enabled(t, tag)
  BY DEF Marks, Enabled
<1>3. \A t \in Transitions, tag \in Tags : Done(t, tag) => Done(t, tag)'
  BY <1>2 DEF Marks, Done
<1>4. ASSUME NEW u \in Transitions, NEW K \in Machines, NEW c \in Colors, InHand(u, K, c)'
      PROVE  InHand(u, K, c)
  <2>1. c \in Tags
    BY DEF Tags
  <2>2. active_tokens'[u][c] # {} => active_tokens[u][c] # {}
    BY <2>1 DEF Marks
  <2>3. \A t \in Transitions, g \in DOMAIN color_groups : Done(t, g) => Done(t, g)'
    BY <1>3, GroupFacts
  <2> QED BY <1>2, <1>4, <2>1, <2>2, <2>3, HandKept DEF Marks
<1>5. ASSUME NEW K \in Machines, NEW c \in Colors, Reached(K, c)'
      PROVE  Reached(K, c) \/ (c \in D /\ O \cap K # {})
  <2>1. K \subseteq Places
    BY DEF WellNested
  <2> QED BY <1>1, <1>5, <2>1 DEF Reached, Marks
<1> QED BY <1>1, <1>2, <1>3, <1>4, <1>5

\* The shape is kept if each color fits into the machines it comes to.
LEMMA MarkStep ==
    ASSUME WellNested, IInv, ShapeInv, NEW D, NEW O, Marks(D, O),
           \A K \in Machines, c \in D : O \cap K # {} => Fits(K, c, O)
    PROVE  ShapeInv'
<1>1. /\ \A t, K, c : Taken(t, K, c)' <=> Taken(t, K, c)
      /\ \A t \in Transitions, tag \in Tags : Done(t, tag) => Done(t, tag)'
      /\ \A t \in Transitions, tag \in Tags : Enabled(t, tag)' <=> Enabled(t, tag)
      /\ \A u \in Transitions, K \in Machines, c \in Colors :
            InHand(u, K, c)' => InHand(u, K, c)
      /\ \A K \in Machines, c \in Colors :
            Reached(K, c)' => Reached(K, c) \/ (c \in D /\ O \cap K # {})
  BY MarksFacts
<1>2. /\ D \subseteq Colors /\ \A K \in Machines : K \subseteq Places
      /\ \A c \in Colors, p \in Places :
            Marked(c, p)' <=> Marked(c, p) \/ (c \in D /\ p \in O)
      /\ UNCHANGED <<color_groups, next_color, enablers>>
      /\ deposited \subseteq deposited'
  BY DEF Marks, WellNested
<1>3. EnabledLive' /\ StartKept'
  BY <1>1, <1>2 DEF ShapeInv, EnabledLive, StartKept, LiveTags, IsBarrier, GroupColors
<1>4. LoneActive'
  BY DEF ShapeInv, LoneActive, Marks
<1>5. OnePlace'
  <2>1. ASSUME NEW K \in Machines, NEW c \in Colors, NEW p \in K, NEW q \in K,
               Marked(c, p)', Marked(c, q)'
        PROVE  p = q
    <3>1. CASE c \in D /\ O \cap K # {}
      BY <1>2, <2>1, <3>1 DEF Fits
    <3>2. CASE ~(c \in D /\ O \cap K # {})
      BY <1>2, <2>1, <3>2 DEF ShapeInv, OnePlace
    <3> QED BY <3>1, <3>2
  <2> QED BY <2>1 DEF OnePlace
<1>6. PlaceOrHand'
  <2>1. ASSUME NEW K \in Machines, NEW c \in Colors, NEW u \in Transitions,
               InHand(u, K, c)', NEW p \in K, Marked(c, p)'
        PROVE  FALSE
    <3>1. CASE c \in D /\ O \cap K # {}
      BY <2>1, <3>1 DEF Fits
    <3>2. CASE ~(c \in D /\ O \cap K # {})
      BY <1>1, <1>2, <2>1, <3>2 DEF ShapeInv, PlaceOrHand
    <3> QED BY <3>1, <3>2
  <2> QED BY <2>1 DEF PlaceOrHand
<1>7. OneHand'
  BY <1>1 DEF ShapeInv, OneHand
<1>8. RequestFirst'
  <2>1. ASSUME NEW K \in Machines, NEW m \in Requests, m.place \in K,
               <<m.color, m.place>> \notin deposited', Reached(K, m.color)'
        PROVE  FALSE
    <3>1. m.color \in Colors /\ <<m.color, m.place>> \notin deposited
      BY <1>2, <2>1, RequestTypes
    <3>2. CASE Reached(K, m.color)
      BY <2>1, <3>1, <3>2 DEF ShapeInv, RequestFirst
    <3>3. CASE m.color \in D /\ O \cap K # {}
      BY <2>1, <3>3 DEF Fits
    <3> QED BY <1>1, <2>1, <3>1, <3>2, <3>3
  <2> QED BY <2>1 DEF RequestFirst
<1>9. Later'
  <2>1. ASSUME NEW K \in Machines, NEW c \in Colors, NEW t \in Transitions,
               Taken(t, K, c), NEW p \in InputsIn(t, K)
        PROVE  /\ \A q \in K : Marked(c, q)' => Rank[p] < Rank[q]
               /\ \A u \in Transitions : InHand(u, K, c)' =>
                     \A q \in InputsIn(u, K) : Rank[p] <= Rank[q]
    <3>1. ASSUME NEW q \in K, Marked(c, q)'
          PROVE  Rank[p] < Rank[q]
      <4>1. CASE Marked(c, q)
        BY <2>1, <3>1, <4>1 DEF ShapeInv, Later
      <4>2. CASE c \in D /\ q \in O
        BY <2>1, <3>1, <4>2 DEF Fits
      <4> QED BY <1>2, <3>1, <4>1, <4>2
    <3>2. \A u \in Transitions : InHand(u, K, c)' =>
             \A q \in InputsIn(u, K) : Rank[p] <= Rank[q]
      BY <1>1, <2>1 DEF ShapeInv, Later
    <3> QED BY <3>1, <3>2
  <2> QED BY <1>1, <2>1 DEF Later, InputsIn
<1>10. GoneAtBarrier'
  <2>1. ASSUME NEW K \in Machines, NEW c \in Colors, NEW t \in Transitions,
               IsBarrier(t), Taken(t, K, c)
        PROVE  /\ \A p \in K : ~Marked(c, p)'
               /\ \A u \in Transitions : ~InHand(u, K, c)'
    <3>1. ~(c \in D /\ O \cap K # {})
      BY <2>1 DEF Fits
    <3> QED BY <1>1, <1>2, <2>1, <3>1 DEF ShapeInv, GoneAtBarrier
  <2> QED BY <1>1, <2>1 DEF GoneAtBarrier, IsBarrier
<1>11. OneBarrier'
  BY <1>1 DEF ShapeInv, OneBarrier, IsBarrier
<1>12. ReachedBySplit'
  <2>1. ASSUME NEW K \in Machines, NEW u \in Transitions, NEW g \in DOMAIN color_groups,
               NEW c \in GroupColors(g), Opens(u, K), Parent(g) # NoColor, Reached(K, c)'
        PROVE  Done(u, Parent(g))'
    <3>1. PICK b \in Tags : b = Parent(g) /\ c \in Colors
      BY <2>1, GroupFacts
    <3>2. CASE Reached(K, c)
      <4>1. Done(u, b)
        BY <2>1, <3>1, <3>2 DEF ShapeInv, ReachedBySplit
      <4>2. Done(u, b)' /\ b = Parent(g)'
        BY <1>1, <1>2, <3>1, <4>1 DEF Parent
      <4> QED BY <4>2
    <3>3. CASE c \in D /\ O \cap K # {}
      BY <2>1, <3>3 DEF Fits
    <3> QED BY <1>1, <2>1, <3>1, <3>2, <3>3
  <2> QED BY <1>2, <2>1 DEF ReachedBySplit, Parent, GroupColors, Opens, OutputsIn
<1>13. OneGroup'
  <2>1. ASSUME NEW K \in Machines, NEW u \in Transitions,
               NEW g \in DOMAIN color_groups, NEW h \in DOMAIN color_groups,
               NEW c \in GroupColors(g), NEW d \in GroupColors(h),
               Opens(u, K), Parent(g) # NoColor, Parent(g) = Parent(h),
               Reached(K, c)', Reached(K, d)'
        PROVE  g = h
    <3>1. c \in Colors /\ d \in Colors
      BY <2>1, GroupFacts
    <3>2. CASE Reached(K, c) /\ Reached(K, d)
      BY <2>1, <3>2 DEF ShapeInv, OneGroup
    <3>3. CASE c \in D /\ O \cap K # {}
      BY <2>1, <3>3 DEF Fits
    <3>4. CASE d \in D /\ O \cap K # {}
      BY <2>1, <3>4 DEF Fits
    <3> QED BY <1>1, <2>1, <3>1, <3>2, <3>3, <3>4
  <2> QED BY <1>2, <2>1 DEF OneGroup, Parent, GroupColors, Opens, OutputsIn
<1> QED
  BY <1>3, <1>4, <1>5, <1>6, <1>7, <1>8, <1>9, <1>10, <1>11, <1>12, <1>13 DEF ShapeInv

-----------------------------------------------------------------------------
(* Transition t takes the colors C of a tag from its input places.         *)

TakesTag(t, tag, C) ==
    /\ tag \in LiveTags(t) /\ C = TagColors(t, tag)
    /\ ~Enabled(t, tag) /\ Enabled(t, tag)'
    /\ ~IsBarrier(t) => tag < next_color
    /\ \A p \in ArcsIn[t], c \in C : Marked(c, p)
    /\ \A c \in Colors, p \in Places :
          Marked(c, p)' <=> Marked(c, p) /\ ~(c \in C /\ p \in ArcsIn[t])
    /\ UNCHANGED <<color_groups, next_color, deposited>>
    /\ \A u \in Transitions, g \in Tags : u # t \/ g # tag =>
          active_tokens'[u][g] = active_tokens[u][g] /\ enablers'[u][g] = enablers[u][g]
    /\ Action[t] = "record_time" => \A i, j \in active_tokens'[t][tag] : i = j

\* Only this transition takes, and only these colors.
LEMMA TakesFacts ==
    ASSUME WellNested, IInv, NEW t \in Transitions, NEW tag, NEW C, TakesTag(t, tag, C)
    PROVE  /\ tag \in Tags /\ C \subseteq Colors
           /\ \A u \in Transitions, g \in Tags :
                 Enabled(u, g)' <=> Enabled(u, g) \/ (u = t /\ g = tag)
           /\ \A u \in Transitions, g \in Tags : Done(u, g) => Done(u, g)'
           /\ \A u \in Transitions, K \in Machines, c \in Colors :
                 Taken(u, K, c)' =>
                    Taken(u, K, c) \/ (u = t /\ InputsIn(t, K) # {} /\ c \in C)
           /\ \A u \in Transitions, K \in Machines, c \in Colors :
                 InHand(u, K, c)' =>
                    \/ InHand(u, K, c)
                    \/ u = t /\ ~IsBarrier(t) /\ InputsIn(t, K) # {} /\ c \in C
           /\ \A K \in Machines, c \in Colors : Reached(K, c)' => Reached(K, c)
<1>1. /\ tag \in LiveTags(t) /\ C = TagColors(t, tag)
      /\ tag \in Tags /\ C \subseteq Colors
  BY LiveTag DEF TakesTag
<1>2. \A u \in Transitions, g \in Tags :
          Enabled(u, g)' <=> Enabled(u, g) \/ (u = t /\ g = tag)
  BY DEF TakesTag, Enabled
<1>3. \A u \in Transitions, g \in Tags : Done(u, g) => Done(u, g)'
  BY <1>2 DEF TakesTag, Done
<1>4. ASSUME NEW u \in Transitions, NEW K \in Machines, NEW c \in Colors, Taken(u, K, c)'
      PROVE  Taken(u, K, c) \/ (u = t /\ InputsIn(t, K) # {} /\ c \in C)
  <2>1. /\ InputsIn(u, K) # {}
        /\ \E g \in LiveTags(u) : c \in TagColors(u, g) /\ Enabled(u, g)'
    BY <1>4, SameTags DEF Taken, InputsIn, TakesTag
  <2>2. PICK g \in LiveTags(u) : c \in TagColors(u, g) /\ Enabled(u, g)'
    BY <2>1
  <2>3. g \in Tags
    BY LiveTag
  <2> QED BY <1>1, <1>2, <2>1, <2>2, <2>3 DEF Taken
<1>5. ASSUME NEW u \in Transitions, NEW K \in Machines, NEW c \in Colors, InHand(u, K, c)'
      PROVE  \/ InHand(u, K, c)
             \/ u = t /\ ~IsBarrier(t) /\ InputsIn(t, K) # {} /\ c \in C
  <2>1. c \in Tags
    BY DEF Tags
  <2>2. CASE u = t /\ c = tag
    BY <1>1, <1>5, <2>2 DEF InHand, IsBarrier, InputsIn, TagColors
  <2>3. CASE ~(u = t /\ c = tag)
    <3>1. active_tokens'[u][c] = active_tokens[u][c] /\ (Enabled(u, c)' => Enabled(u, c))
      BY <1>2, <2>1, <2>3 DEF TakesTag
    <3>2. /\ \A g \in DOMAIN color_groups :
                g \in DOMAIN color_groups' /\ color_groups'[g] = color_groups[g]
          /\ \A v \in Transitions, g \in DOMAIN color_groups : Done(v, g) => Done(v, g)'
      BY <1>3, GroupFacts DEF TakesTag
    <3> QED BY <1>5, <3>1, <3>2, HandKept
  <2> QED BY <2>2, <2>3
<1>6. ASSUME NEW K \in Machines, NEW c \in Colors, Reached(K, c)'
      PROVE  Reached(K, c)
  <2>1. K \subseteq Places
    BY DEF WellNested
  <2>2. CASE \E p \in K : Marked(c, p)'
    BY <2>1, <2>2 DEF Reached, TakesTag
  <2>3. ASSUME NEW u \in Transitions, Taken(u, K, c)'
        PROVE  Reached(K, c)
    <3>1. CASE Taken(u, K, c)
      BY <3>1 DEF Reached
    <3>2. CASE InputsIn(t, K) # {} /\ c \in C
      BY <3>2 DEF InputsIn, TakesTag, Reached
    <3> QED BY <1>4, <2>3, <3>1, <3>2
  <2> QED BY <1>6, <2>2, <2>3 DEF Reached
<1> QED BY <1>1, <1>2, <1>3, <1>4, <1>5, <1>6

\* Where the machine's token of the color was.
LEMMA TakesFrom ==
    ASSUME WellNested, IInv, ShapeInv, NEW t \in Transitions, NEW tag, NEW C,
           TakesTag(t, tag, C),
           NEW K \in Machines, InputsIn(t, K) # {}, NEW c \in C
    PROVE  \E r \in InputsIn(t, K) :
              /\ InputsIn(t, K) = {r}
              /\ \A p \in K : ~Marked(c, p)'
              /\ \A u \in Transitions : ~InHand(u, K, c)
              /\ \A u \in Transitions : Taken(u, K, c) =>
                    /\ ~IsBarrier(u)
                    /\ \A p \in InputsIn(u, K) : Rank[p] < Rank[r]
<1>1. PICK r \in InputsIn(t, K) : TRUE
  OBVIOUS
<1>2. InputsIn(t, K) = {r}
  BY <1>1 DEF WellNested
<1>3. c \in Colors /\ K \subseteq Places /\ r \in K /\ r \in ArcsIn[t] /\ Marked(c, r)
  BY TakesFacts DEF WellNested, InputsIn, TakesTag
<1>4. \A p \in K : ~Marked(c, p)'
  BY <1>3 DEF TakesTag, ShapeInv, OnePlace
<1>5. \A u \in Transitions : ~InHand(u, K, c)
  BY <1>3 DEF ShapeInv, PlaceOrHand
<1>6. \A u \in Transitions : Taken(u, K, c) =>
          /\ ~IsBarrier(u)
          /\ \A p \in InputsIn(u, K) : Rank[p] < Rank[r]
  BY <1>3 DEF ShapeInv, GoneAtBarrier, Later
<1> QED BY <1>2, <1>4, <1>5, <1>6

\* The colors go from a place of each machine into the transition's hands.
LEMMA TakeStep ==
    ASSUME WellNested, IInv, ShapeInv, NEW t \in Transitions, NEW tag, NEW C,
           TakesTag(t, tag, C)
    PROVE  ShapeInv'
<1>1. /\ tag \in Tags /\ C \subseteq Colors
      /\ \A u \in Transitions, g \in Tags :
            Enabled(u, g)' <=> Enabled(u, g) \/ (u = t /\ g = tag)
      /\ \A u \in Transitions, g \in Tags : Done(u, g) => Done(u, g)'
      /\ \A u \in Transitions, K \in Machines, c \in Colors :
            Taken(u, K, c)' =>
               Taken(u, K, c) \/ (u = t /\ InputsIn(t, K) # {} /\ c \in C)
      /\ \A u \in Transitions, K \in Machines, c \in Colors :
            InHand(u, K, c)' =>
               \/ InHand(u, K, c)
               \/ u = t /\ ~IsBarrier(t) /\ InputsIn(t, K) # {} /\ c \in C
      /\ \A K \in Machines, c \in Colors : Reached(K, c)' => Reached(K, c)
  BY TakesFacts
<1>2. /\ \A K \in Machines : K \subseteq Places
      /\ \A c \in Colors, p \in Places : Marked(c, p)' => Marked(c, p)
      /\ UNCHANGED <<color_groups, next_color, deposited>>
      /\ Rank \in [Places -> Nat]
  BY DEF TakesTag, WellNested
<1>3. \A K \in Machines, c \in C : InputsIn(t, K) # {} =>
          \E r \in InputsIn(t, K) :
             /\ InputsIn(t, K) = {r}
             /\ \A p \in K : ~Marked(c, p)'
             /\ \A u \in Transitions : ~InHand(u, K, c)
             /\ \A u \in Transitions : Taken(u, K, c) =>
                   /\ ~IsBarrier(u)
                   /\ \A p \in InputsIn(u, K) : Rank[p] < Rank[r]
  BY TakesFrom
<1>4. EnabledLive' /\ StartKept'
  BY <1>1, <1>2 DEF TakesTag, ShapeInv, EnabledLive, StartKept, LiveTags, IsBarrier,
                    GroupColors
<1>5. LoneActive'
  BY DEF TakesTag, ShapeInv, LoneActive
<1>6. OnePlace'
  BY <1>2 DEF ShapeInv, OnePlace
<1>7. PlaceOrHand'
  <2>1. ASSUME NEW K \in Machines, NEW c \in Colors, NEW u \in Transitions,
               InHand(u, K, c)', NEW p \in K, Marked(c, p)'
        PROVE  FALSE
    <3>1. CASE InHand(u, K, c)
      BY <1>2, <2>1, <3>1 DEF ShapeInv, PlaceOrHand
    <3>2. CASE InputsIn(t, K) # {} /\ c \in C
      BY <1>3, <2>1, <3>2
    <3> QED BY <1>1, <2>1, <3>1, <3>2
  <2> QED BY <2>1 DEF PlaceOrHand
<1>8. OneHand'
  <2>1. ASSUME NEW K \in Machines, NEW c \in Colors, NEW u \in Transitions,
               NEW v \in Transitions, InHand(u, K, c)', InHand(v, K, c)'
        PROVE  u = v
    <3>1. CASE InHand(u, K, c) /\ InHand(v, K, c)
      BY <3>1 DEF ShapeInv, OneHand
    <3>2. CASE InputsIn(t, K) # {} /\ c \in C
      BY <1>1, <1>3, <2>1, <3>2
    <3> QED BY <1>1, <2>1, <3>1, <3>2
  <2> QED BY <2>1 DEF OneHand
<1>9. RequestFirst'
  BY <1>1, <1>2, RequestTypes DEF ShapeInv, RequestFirst
<1>10. Later'
  <2>1. ASSUME NEW K \in Machines, NEW c \in Colors, NEW u \in Transitions,
               Taken(u, K, c)', NEW p \in InputsIn(u, K)
        PROVE  /\ \A q \in K : Marked(c, q)' => Rank[p] < Rank[q]
               /\ \A v \in Transitions : InHand(v, K, c)' =>
                     \A q \in InputsIn(v, K) : Rank[p] <= Rank[q]
    <3>1. ASSUME NEW q \in K, Marked(c, q)'
          PROVE  Rank[p] < Rank[q]
      <4>1. CASE Taken(u, K, c)
        BY <1>2, <2>1, <3>1, <4>1 DEF ShapeInv, Later
      <4>2. CASE InputsIn(t, K) # {} /\ c \in C
        BY <1>3, <3>1, <4>2
      <4> QED BY <1>1, <2>1, <4>1, <4>2
    <3>2. ASSUME NEW v \in Transitions, InHand(v, K, c)', NEW q \in InputsIn(v, K)
          PROVE  Rank[p] <= Rank[q]
      <4>1. CASE Taken(u, K, c) /\ InHand(v, K, c)
        BY <2>1, <3>2, <4>1 DEF ShapeInv, Later
      <4>2. CASE InputsIn(t, K) # {} /\ c \in C
        <5>1. PICK r : /\ InputsIn(t, K) = {r}
                       /\ \A x \in Transitions : ~InHand(x, K, c)
                       /\ \A x \in Transitions : Taken(x, K, c) =>
                             \A y \in InputsIn(x, K) : Rank[y] < Rank[r]
          BY <1>3, <4>2
        <5>2. v = t /\ q = r
          BY <1>1, <3>2, <5>1
        <5>3. Rank[p] \in Nat /\ Rank[q] \in Nat
          BY <1>2, <2>1, <3>2 DEF InputsIn
        <5>4. CASE Taken(u, K, c)
          BY <2>1, <5>1, <5>2, <5>3, <5>4
        <5>5. CASE u = t
          BY <2>1, <5>1, <5>2, <5>3, <5>5
        <5> QED BY <1>1, <2>1, <5>4, <5>5
      <4> QED BY <1>1, <2>1, <3>2, <4>1, <4>2
    <3> QED BY <3>1, <3>2
  <2> QED BY <2>1 DEF Later, InputsIn
<1>11. GoneAtBarrier'
  <2>1. ASSUME NEW K \in Machines, NEW c \in Colors, NEW u \in Transitions,
               IsBarrier(u), Taken(u, K, c)'
        PROVE  /\ \A p \in K : ~Marked(c, p)'
               /\ \A v \in Transitions : ~InHand(v, K, c)'
    <3>1. CASE Taken(u, K, c)
      <4>1. ~(InputsIn(t, K) # {} /\ c \in C)
        BY <1>3, <2>1, <3>1
      <4> QED BY <1>1, <1>2, <2>1, <3>1, <4>1 DEF ShapeInv, GoneAtBarrier
    <3>2. CASE u = t /\ InputsIn(t, K) # {} /\ c \in C
      BY <1>1, <1>3, <2>1, <3>2
    <3> QED BY <1>1, <2>1, <3>1, <3>2
  <2> QED BY <2>1 DEF GoneAtBarrier, IsBarrier
<1>12. OneBarrier'
  <2>1. ASSUME NEW K \in Machines, NEW c \in Colors, NEW u \in Transitions,
               NEW v \in Transitions, IsBarrier(u), IsBarrier(v),
               Taken(u, K, c)', Taken(v, K, c)'
        PROVE  u = v
    <3>1. CASE Taken(u, K, c) /\ Taken(v, K, c)
      BY <2>1, <3>1 DEF ShapeInv, OneBarrier
    <3>2. CASE InputsIn(t, K) # {} /\ c \in C
      BY <1>1, <1>3, <2>1, <3>2
    <3> QED BY <1>1, <2>1, <3>1, <3>2
  <2> QED BY <2>1 DEF OneBarrier, IsBarrier
<1>13. ReachedBySplit'
  <2>1. ASSUME NEW K \in Machines, NEW u \in Transitions, NEW g \in DOMAIN color_groups,
               NEW c \in GroupColors(g), Opens(u, K), Parent(g) # NoColor, Reached(K, c)'
        PROVE  Done(u, Parent(g))'
    <3>1. PICK b \in Tags : b = Parent(g) /\ c \in Colors
      BY <2>1, GroupFacts
    <3>2. Done(u, b)
      BY <1>1, <2>1, <3>1 DEF ShapeInv, ReachedBySplit
    <3>3. Done(u, b)' /\ b = Parent(g)'
      BY <1>1, <1>2, <3>1, <3>2 DEF Parent
    <3> QED BY <3>3
  <2> QED BY <1>2, <2>1 DEF ReachedBySplit, Parent, GroupColors, Opens, OutputsIn
<1>14. OneGroup'
  <2>1. ASSUME NEW K \in Machines, NEW u \in Transitions,
               NEW g \in DOMAIN color_groups, NEW h \in DOMAIN color_groups,
               NEW c \in GroupColors(g), NEW d \in GroupColors(h),
               Opens(u, K), Parent(g) # NoColor, Parent(g) = Parent(h),
               Reached(K, c)', Reached(K, d)'
        PROVE  g = h
    <3>1. c \in Colors /\ d \in Colors
      BY <2>1, GroupFacts
    <3> QED BY <1>1, <2>1, <3>1 DEF ShapeInv, OneGroup
  <2> QED BY <1>2, <2>1 DEF OneGroup, Parent, GroupColors, Opens, OutputsIn
<1> QED
  BY <1>4, <1>5, <1>6, <1>7, <1>8, <1>9, <1>10, <1>11, <1>12, <1>13, <1>14 DEF ShapeInv

-----------------------------------------------------------------------------
(* A split allocates a group.                                              *)

\* No color that is still to be allocated has been anywhere.
LEMMA NewColorsUnreached ==
    ASSUME WellNested, IInv, ShapeInv, NEW c \in Colors, c >= next_color, NEW K \in Machines
    PROVE  ~Reached(K, c)
<1>1. \A p \in K : ~Marked(c, p)
  BY NewColorsUnmarked DEF WellNested, Marked
<1>2. ASSUME NEW t \in Transitions, NEW tag \in LiveTags(t), c \in TagColors(t, tag),
             Enabled(t, tag)
      PROVE  FALSE
  <2>1. tag \in Tags /\ next_color \in Nat /\ c \in Nat
    BY LiveTag, BoundAssumption DEF IInv, TypeOK, Colors
  <2>2. CASE ~IsBarrier(t)
    BY <1>2, <2>1, <2>2 DEF ShapeInv, EnabledLive, TagColors
  <2>3. CASE IsBarrier(t)
    <3>1. tag \in DOMAIN color_groups /\ c \in GroupColors(tag)
      BY <1>2, <2>3 DEF LiveTags, TagColors
    <3>2. color_groups[tag] \in ColorGroup /\ color_groups[tag].end <= next_color
      BY <3>1, ElementOf DEF IInv, TypeOK, GroupsInv
    <3> QED BY <2>1, <3>1, <3>2, BoundAssumption DEF GroupColors, ColorGroup
  <2> QED BY <2>2, <2>3
<1> QED BY <1>1, <1>2 DEF Reached, Taken

\* The colors of the new group have been nowhere.
LEMMA GroupStep ==
    ASSUME WellNested, IInv, IInv', ShapeInv, GroupsGrow, NEW n,
           n \in DOMAIN color_groups', color_groups'[n].begin = next_color,
           \A g \in DOMAIN color_groups' : g \in DOMAIN color_groups \/ g = n,
           UNCHANGED <<color_marking, active_tokens, enablers, deposited>>
    PROVE  ShapeInv'
<1>1. \A g \in DOMAIN color_groups :
          /\ g \in DOMAIN color_groups' /\ color_groups'[g] = color_groups[g]
          /\ GroupColors(g)' = GroupColors(g) /\ Parent(g)' = Parent(g)
  BY DEF GroupsGrow, GroupColors, Parent
<1>2. /\ \A c, p : Marked(c, p)' <=> Marked(c, p)
      /\ \A t, tag : Enabled(t, tag)' <=> Enabled(t, tag)
      /\ \A t, tag : Done(t, tag)' <=> Done(t, tag)
  BY DEF Marked, Enabled, Done
<1>3. ASSUME NEW t \in Transitions, NEW tag \in LiveTags(t)'
      PROVE  tag \in Tags /\ (Enabled(t, tag) => tag \in LiveTags(t))
  <2>1. tag \in Tags
    <3>1. \A g \in DOMAIN color_groups' : g \in Groups
      BY BoundAssumption DEF IInv, TypeOK, Groups
    <3> QED BY <3>1 DEF LiveTags, Tags
  <2> QED BY <2>1 DEF ShapeInv, EnabledLive
<1>4. ASSUME NEW t \in Transitions, NEW K, NEW c
      PROVE  Taken(t, K, c)' <=> Taken(t, K, c)
  <2>1. ASSUME Taken(t, K, c)'
        PROVE  Taken(t, K, c)
    <3>1. /\ InputsIn(t, K) # {}
          /\ \E tag \in LiveTags(t)' : c \in TagColors(t, tag)' /\ Enabled(t, tag)
      BY <1>2, <2>1 DEF Taken, InputsIn
    <3>2. PICK tag \in LiveTags(t)' : c \in TagColors(t, tag)' /\ Enabled(t, tag)
      BY <3>1
    <3>3. tag \in LiveTags(t) /\ TagColors(t, tag)' = TagColors(t, tag)
      BY <1>3, <3>2, TagKept
    <3> QED BY <3>1, <3>2, <3>3 DEF Taken
  <2>2. ASSUME Taken(t, K, c)
        PROVE  Taken(t, K, c)'
    <3>1. PICK tag \in LiveTags(t) : c \in TagColors(t, tag) /\ Enabled(t, tag)
      BY <2>2 DEF Taken
    <3>2. /\ tag \in LiveTags(t)' /\ c \in TagColors(t, tag)' /\ Enabled(t, tag)'
      BY <1>2, <3>1, TagKept
    <3> QED BY <2>2, <3>2 DEF Taken, InputsIn
  <2> QED BY <2>1, <2>2
<1>5. ASSUME NEW u, NEW K, NEW c, InHand(u, K, c)'
      PROVE  InHand(u, K, c)
  BY <1>1, <1>2, <1>5, HandKept
<1>6. \A K, c : Reached(K, c)' <=> Reached(K, c)
  BY <1>2, <1>4 DEF Reached
<1>7. next_color \in Nat /\ next_color' \in Nat /\ next_color <= next_color'
  <2>1. /\ color_groups'[n] \in ColorGroup
        /\ color_groups'[n].begin <= color_groups'[n].end
        /\ color_groups'[n].end <= next_color'
    BY ElementOf DEF IInv, TypeOK, GroupsInv
  <2> QED BY <2>1, BoundAssumption DEF IInv, TypeOK, ColorGroup
<1>8. EnabledLive'
  <2>1. ASSUME NEW t \in Transitions, NEW tag \in Tags, Enabled(t, tag)
        PROVE  tag \in LiveTags(t)' /\ (~IsBarrier(t) => tag < next_color')
    <3>1. tag \in LiveTags(t) /\ (~IsBarrier(t) => tag < next_color)
      BY <2>1 DEF ShapeInv, EnabledLive
    <3>2. ~IsBarrier(t) => tag \in Int
      BY <3>1, BoundAssumption DEF LiveTags, Colors
    <3> QED BY <1>7, <3>1, <3>2, TagKept
  <2> QED BY <1>2, <2>1 DEF EnabledLive, IsBarrier
<1>9. StartKept' /\ LoneActive'
  BY <1>1 DEF ShapeInv, StartKept, LoneActive
<1>10. OnePlace' /\ PlaceOrHand' /\ OneHand' /\ RequestFirst'
  BY <1>2, <1>5, <1>6 DEF ShapeInv, OnePlace, PlaceOrHand, OneHand, RequestFirst
<1>11. Later'
  BY <1>2, <1>4, <1>5 DEF ShapeInv, Later, InputsIn
<1>12. GoneAtBarrier' /\ OneBarrier'
  BY <1>2, <1>4, <1>5 DEF ShapeInv, GoneAtBarrier, OneBarrier, IsBarrier
<1>13. ASSUME NEW K \in Machines, NEW g \in DOMAIN color_groups',
              NEW c \in GroupColors(g)', Reached(K, c)'
       PROVE  g \in DOMAIN color_groups /\ c \in GroupColors(g)
  <2>1. CASE g \in DOMAIN color_groups
    BY <1>1, <1>13, <2>1
  <2>2. CASE g = n
    <3>1. color_groups'[n] \in ColorGroup
      BY ElementOf DEF IInv, TypeOK
    <3>2. c \in Colors /\ c >= next_color
      BY <1>7, <1>13, <2>2, <3>1, BoundAssumption DEF GroupColors, ColorGroup, Colors
    <3> QED BY <1>6, <1>13, <3>2, NewColorsUnreached
  <2> QED BY <2>1, <2>2
<1>14. ReachedBySplit'
  <2>1. ASSUME NEW K \in Machines, NEW u \in Transitions, NEW g \in DOMAIN color_groups',
               NEW c \in GroupColors(g)', Opens(u, K), Parent(g)' # NoColor, Reached(K, c)'
        PROVE  Done(u, Parent(g))'
    <3>1. g \in DOMAIN color_groups /\ c \in GroupColors(g) /\ Reached(K, c)
      BY <1>6, <1>13, <2>1
    <3>2. PICK b : b = Parent(g) /\ b = Parent(g)'
      BY <1>1, <3>1
    <3>3. Done(u, b)
      BY <2>1, <3>1, <3>2 DEF ShapeInv, ReachedBySplit
    <3>4. Done(u, b)'
      BY <1>2, <3>3
    <3> QED BY <3>2, <3>4
  <2> QED BY <2>1 DEF ReachedBySplit, Opens, OutputsIn
<1>15. OneGroup'
  <2>1. ASSUME NEW K \in Machines, NEW u \in Transitions,
               NEW g \in DOMAIN color_groups', NEW h \in DOMAIN color_groups',
               NEW c \in GroupColors(g)', NEW d \in GroupColors(h)',
               Opens(u, K), Parent(g)' # NoColor, Parent(g)' = Parent(h)',
               Reached(K, c)', Reached(K, d)'
        PROVE  g = h
    <3>1. /\ g \in DOMAIN color_groups /\ c \in GroupColors(g) /\ Reached(K, c)
          /\ h \in DOMAIN color_groups /\ d \in GroupColors(h) /\ Reached(K, d)
      BY <1>6, <1>13, <2>1
    <3> QED BY <1>1, <2>1, <3>1 DEF ShapeInv, OneGroup
  <2> QED BY <2>1 DEF OneGroup, Opens, OutputsIn
<1> QED
  BY <1>8, <1>9, <1>10, <1>11, <1>12, <1>14, <1>15 DEF ShapeInv

-----------------------------------------------------------------------------
(* No transition is enabled twice.                                         *)

\* Whoever took a color finds it at later places only.
LEMMA NestFiresOnce ==
    ASSUME WellNested, IInv, ShapeInv
    PROVE  FiredOnce
<1>1. ASSUME NEW t \in Transitions, NEW tag \in LiveTags(t),
             \A p \in ArcsIn[t] : Full(t, tag, p), enablers[t][tag] # NoPlace
      PROVE  FALSE
  <2>1. PICK p \in ArcsIn[t], K \in Machines : p \in K /\ p \in Places
    BY NetAssumption DEF WellNested
  <2>2. PICK c \in TagColors(t, tag) : c \in Colors
    BY LiveTag
  <2>3. p \in InputsIn(t, K) /\ Marked(c, p)
    BY <1>1, <2>1, <2>2 DEF InputsIn, Full, Marked
  <2>4. Taken(t, K, c)
    BY <1>1, <2>2, <2>3, TakenTag DEF Enabled
  <2>5. Rank[p] < Rank[p] /\ Rank[p] \in Nat
    BY <2>1, <2>2, <2>3, <2>4 DEF ShapeInv, Later, WellNested
  <2> QED BY <2>5
<1> QED BY <1>1 DEF FiredOnce

-----------------------------------------------------------------------------
(* Every step but push_tokens keeps the shape.                             *)

\* The steps that move no token and allocate no color.
LEMMA PlainShape ==
    ASSUME IInv, ShapeInv, NEW w \in Workers,
           \/ Receive(w) \/ Crash(w) \/ Publish(w) \/ Ack(w) \/ CreateToken(w)
           \/ PutTokenFails(w) \/ NotifyPlace(w) \/ PushFails(w)
           \/ FireCount(w) \/ FireHeadFails(w) \/ FireSingle(w) \/ FireMerge(w)
           \/ FireRemoveData(w) \/ FireRecordTime(w) \/ FireJoin(w) \/ FireExpire(w)
           \/ FireNotImplemented(w)
           \/ ConsumeRemaining(w) \/ ConsumeWaiting(w) \/ ConsumeEnabledByOther(w)
           \/ ConsumeAlreadyActive(w) \/ ConsumeIncomplete(w)
    PROVE  ShapeInv'
<1>1. CASE \/ Receive(w) \/ Crash(w) \/ Publish(w) \/ Ack(w) \/ CreateToken(w)
           \/ PutTokenFails(w) \/ NotifyPlace(w) \/ PushFails(w)
  BY <1>1, ShapeFrame
     DEF Receive, Crash, Publish, Ack, CreateToken, PutTokenFails, NotifyPlace,
         PushFails, markingVars, objectVars, transitionVars
<1>2. CASE \/ FireCount(w) \/ FireHeadFails(w) \/ FireSingle(w) \/ FireMerge(w)
           \/ FireRemoveData(w) \/ FireRecordTime(w) \/ FireJoin(w) \/ FireExpire(w)
           \/ FireNotImplemented(w)
  BY <1>2, ShapeFrame
     DEF FireCount, FireHeadFails, FireSingle, FireMerge, FireRemoveData,
         FireRecordTime, FireJoin, FireExpire, FireNotImplemented, markingVars,
         objectVars, transitionVars
<1>3. CASE \/ ConsumeRemaining(w) \/ ConsumeWaiting(w) \/ ConsumeEnabledByOther(w)
           \/ ConsumeAlreadyActive(w) \/ ConsumeIncomplete(w)
  BY <1>3, ShapeFrame
     DEF ConsumeRemaining, ConsumeWaiting, ConsumeEnabledByOther,
         ConsumeAlreadyActive, ConsumeIncomplete, markingVars, objectVars,
         transitionVars
<1> QED BY <1>1, <1>2, <1>3

\* A color that was in no place of the machine and in no hands comes to where nobody
\* took it before.
LEMMA PutTokenShape ==
    ASSUME WellNested, RInv, ShapeInv, NEW w \in Workers, PutToken(w)
    PROVE  ShapeInv'
<1> USE DEF RInv
<1>1. PICK m, cell : m = Message(w) /\ cell = <<m.color, m.place>>
  OBVIOUS
<1>2. /\ m \in Requests /\ m.place \in Places /\ m.color \in Colors
      /\ worker[w].new[1] # NoToken /\ cell \in Cells
  <2>1. worker[w].pc = "put" /\ m.place \in Places
    BY <1>1 DEF PutToken, At
  <2>2. /\ m \in Requests /\ Len(worker[w].new) = 1 /\ worker[w].new \in Seq(TokenIdxs)
    BY <1>1, <2>1 DEF Message, IInv, WorkersInv, WorkerOK
  <2>3. worker[w].new[1] \in TokenIdxs
    BY <2>2, ElementOf
  <2> QED BY <1>1, <2>1, <2>2, <2>3, RequestTypes DEF NoToken, TokenIdxs, Cells
<1>3. cell \notin deposited
  BY <1>1, <1>2 DEF RequestsInv, Putting, PutToken, At, Message
<1>4. UNCHANGED <<color_groups, next_color, active_tokens, enablers>>
  BY DEF PutToken, objectVars, transitionVars
<1>5. CASE color_marking[cell] # NoToken
  <2>1. UNCHANGED <<color_marking, deposited>>
    BY <1>1, <1>5 DEF PutToken, markingVars
  <2> QED BY <1>4, <2>1, ShapeFrame
<1>6. CASE color_marking[cell] = NoToken
  <2>1. /\ color_marking' = [color_marking EXCEPT ![cell] = worker[w].new[1]]
        /\ deposited' = deposited \cup {cell}
    BY <1>1, <1>6 DEF PutToken
  <2>2. Marks({m.color}, {m.place})
    <3>1. ASSUME NEW c \in Colors, NEW p \in Places
          PROVE  Marked(c, p)' <=> Marked(c, p) \/ (c \in {m.color} /\ p \in {m.place})
      <4>1. <<c, p>> \in Cells
        BY DEF Cells
      <4>2. <<c, p>> = cell <=> c = m.color /\ p = m.place
        BY <1>1
      <4> QED BY <1>2, <2>1, <4>1, <4>2 DEF Marked, IInv, TypeOK
    <3> QED BY <1>2, <1>4, <2>1, <3>1 DEF Marks
  <2>3. ASSUME NEW K \in Machines, {m.place} \cap K # {}
        PROVE  Fits(K, m.color, {m.place})
    <3>1. m.place \in K /\ ~Reached(K, m.color)
      BY <1>1, <1>2, <1>3, <2>3 DEF ShapeInv, RequestFirst
    <3>2. /\ \A p \in K : ~Marked(m.color, p)
          /\ \A t \in Transitions : ~Taken(t, K, m.color)
      BY <3>1 DEF Reached
    <3>3. \A u \in Transitions : ~InHand(u, K, m.color)'
      BY <1>2, <2>2, <3>2, MarksFacts, HandTaken
    <3>4. \A n \in Requests :
              n.place \in K /\ n.color = m.color => <<n.color, n.place>> \in deposited'
      BY <1>1, <1>2, <2>1, <3>1 DEF WellNested
    <3>5. \A g \in DOMAIN color_groups : m.color \in GroupColors(g) => Parent(g) = NoColor
      <4>1. PICK n : /\ n = m.group
                     /\ n \in DOMAIN GroupsAtStart /\ m.color \in ColorsIn(GroupsAtStart, n)
        BY <1>2, RequestTypes
      <4>2. n \in DOMAIN color_groups /\ color_groups[n] = GroupsAtStart[n]
        BY <4>1 DEF ShapeInv, StartKept
      <4>3. GroupsAtStart[n].parent_color = NoColor
        BY <4>1, ClientsOwn
      <4>4. \A g \in DOMAIN color_groups : m.color \in GroupColors(g) => g = n
        BY <1>2, <4>1, <4>2, UniqueGroup DEF IInv, ColorsIn, GroupColors
      <4> QED BY <4>2, <4>3, <4>4 DEF Parent
    <3> QED BY <3>2, <3>3, <3>4, <3>5 DEF Fits
  <2> QED BY <2>2, <2>3, MarkStep
<1> QED BY <1>5, <1>6

\* consume_tokens takes all the tokens of its tag, which nobody took for it before.
LEMMA ConsumeTakesTag ==
    ASSUME WellNested, IInv, ShapeInv, NEW w \in Workers, ConsumeEnabled(w),
           NEW t, t = Message(w).transition, NEW tag, tag = NotifiedTag(w)
    PROVE  /\ t \in Transitions /\ TakesTag(t, tag, TagColors(t, tag))
           /\ enablers'[t][tag] = Message(w).place /\ active_tokens'[t][tag] # {}
           /\ active_tokens[t][tag] = {}
<1>1. PICK C : C = TagColors(t, tag)
  OBVIOUS
<1>2. /\ At(w, "consume") /\ t \in Transitions
      /\ Message(w).place \in Places /\ Message(w).place # NoPlace
      /\ tag \in LiveTags(t) /\ tag \in Tags /\ C \in SUBSET Colors /\ C # {}
      /\ ArcsIn[t] \subseteq Places /\ ArcsIn[t] # {}
  <2>1. At(w, "consume")
    BY DEF ConsumeEnabled, Notified
  <2> QED BY <1>1, <2>1, NotifiedLive, LiveTag, NetAssumption
<1>3. UNCHANGED <<color_groups, next_color, deposited>>
  BY DEF ConsumeEnabled, objectVars
<1>4. PICK cells, taken :
          /\ cells = C \X ArcsIn[t]
          /\ taken = {color_marking[c] : c \in cells}
          /\ active_tokens' = [active_tokens EXCEPT ![t][tag] = taken]
          /\ color_marking' = [c \in Cells |->
                IF c \in cells THEN NoToken ELSE color_marking[c]]
          /\ \A p \in ArcsIn[t] : Full(t, tag, p)
          /\ active_tokens[t][tag] = {}
  <2>1. TakesAll(w, t, tag)
    BY <1>1, NeverGivesUp
  <2> QED BY <1>1, <2>1 DEF TakesAll
<1>5. enablers' = [enablers EXCEPT ![t][tag] = Message(w).place]
  BY <1>1, EnabledTakes
<1>6. /\ active_tokens'[t][tag] = taken /\ enablers'[t][tag] = Message(w).place
      /\ \A u \in Transitions, g \in Tags : u # t \/ g # tag =>
            active_tokens'[u][g] = active_tokens[u][g] /\ enablers'[u][g] = enablers[u][g]
  BY <1>2, <1>4, <1>5 DEF IInv, TypeOK
<1>7. ~Enabled(t, tag)
  BY <1>2, <1>4, NestFiresOnce DEF FiredOnce, Enabled
<1>8. \A p \in ArcsIn[t], c \in C : Marked(c, p)
  BY <1>1, <1>4 DEF Full, Marked
<1>9. ASSUME NEW c \in Colors, NEW p \in Places
      PROVE  Marked(c, p)' <=> Marked(c, p) /\ ~(c \in C /\ p \in ArcsIn[t])
  <2>1. <<c, p>> \in Cells /\ (<<c, p>> \in cells <=> c \in C /\ p \in ArcsIn[t])
    BY <1>4 DEF Cells
  <2> QED BY <1>4, <2>1 DEF Marked
<1>10. ~IsBarrier(t) => tag < next_color
  <2>1. SUFFICES ASSUME ~IsBarrier(t)
                 PROVE  tag < next_color
    OBVIOUS
  <2>2. PICK g \in DOMAIN color_groups : tag \in ColorsIn(color_groups, g)
    BY <1>1, <1>2, <2>1, Notification
       DEF At, InGroup, NotifiedTag, Tag, Colors, NoColor
  <2>3. color_groups[g] \in ColorGroup /\ color_groups[g].end <= next_color
    BY ElementOf DEF IInv, TypeOK, GroupsInv
  <2> QED BY <2>2, <2>3, BoundAssumption DEF ColorsIn, ColorGroup, IInv, TypeOK
<1>11. Action[t] = "record_time" => \A i, j \in taken : i = j
  <2>1. SUFFICES ASSUME Action[t] = "record_time"
                 PROVE  \A x, y \in cells : x = y
    BY <1>4
  <2>2. C = {tag} /\ \A p, q \in ArcsIn[t] : p = q
    BY <1>1, <1>2, <2>1, ActionAssumption DEF TagColors, IsBarrier, WellNested
  <2> QED BY <1>4, <2>2
<1>12. TakesTag(t, tag, C)
  BY <1>1, <1>2, <1>3, <1>6, <1>7, <1>8, <1>9, <1>10, <1>11 DEF TakesTag, Enabled
<1>13. taken # {}
  <2>1. PICK c \in C, p \in ArcsIn[t] : <<c, p>> \in C \X ArcsIn[t]
    BY <1>2
  <2> QED BY <1>4, <2>1
<1> QED BY <1>1, <1>2, <1>4, <1>6, <1>12, <1>13

\* The consume script keeps the shape: it takes the tokens of one tag, of its own transition.
LEMMA ConsumeShape ==
    ASSUME WellNested, IInv, ShapeInv, NEW w \in Workers, ConsumeEnabled(w)
    PROVE  ShapeInv'
BY ConsumeTakesTag, TakeStep

\* A split puts nothing yet: it allocates the group.
LEMMA SplitShape ==
    ASSUME WellNested, IInv, IInv', ShapeInv, NEW w \in Workers, FireSplit(w)
    PROVE  ShapeInv'
<1>1. PICK group : /\ color_groups' = Append(color_groups, group)
                   /\ group.begin = next_color
  BY SplitGives
<1>2. PICK n : /\ GroupsGrow
               /\ n \in DOMAIN color_groups' /\ color_groups'[n] = group
               /\ \A g \in DOMAIN color_groups' : g \in DOMAIN color_groups \/ g = n
  BY <1>1, GroupAppended
<1>3. UNCHANGED <<color_marking, active_tokens, enablers, deposited>>
  BY DEF FireSplit, markingVars, transitionVars
<1> QED BY <1>1, <1>2, <1>3, GroupStep

-----------------------------------------------------------------------------
(* push_tokens finds its cells free.                                       *)

\* A transition that has active tokens holds the colors of their tag.
LEMMA ActiveTakes ==
    ASSUME RInv, NEW w \in Workers, At(w, "push"), Active(w) # {},
           NEW t, t = Message(w).transition, NEW tag, tag = NotifiedTag(w)
    PROVE  /\ t \in Transitions /\ tag \in Tags /\ tag \in LiveTags(t)
           /\ active_tokens[t][tag] # {} /\ Enabled(t, tag)
           /\ ArcsOut[t] \in Seq(Places)
           /\ Action[t] # "not_implemented"
           /\ Action[t] # "join" => tag = NotifiedToken(w).color /\ tag \in Colors
           /\ Action[t] = "join" => tag = NotifiedToken(w).group /\ IsBarrier(t)
<1>1. t \in Transitions /\ tag \in Tags /\ active_tokens[t][tag] # {}
  BY Notification DEF RInv, At, Active
<1>2. tag \in LiveTags(t) /\ Enabled(t, tag)
  BY <1>1 DEF RInv, ActiveTagged, EnablerInv, Enabled
<1>3. Action[t] # "not_implemented"
  BY DEF RInv, PushInv, PushOK
<1>4. IsBarrier(t) <=> Action[t] = "join"
  BY <1>1, <1>3, ActionAssumption DEF IsBarrier
<1>5. NotifiedToken(w).color \in Colors
  BY Notification DEF RInv, At
<1> QED BY <1>1, <1>2, <1>3, <1>4, <1>5, NetAssumption DEF NotifiedTag, Tag

\* A transition u has the color in hand, and took it before the place where the push
\* puts it; after the push the color is in its hands no more.
Hands(w, K, c, u) ==
    LET t == Message(w).transition IN
    /\ InHand(u, K, c)
    /\ \A p \in InputsIn(u, K), i \in OutputsIn(t, K) : Rank[p] < Rank[ArcsOut[t][i]]
    /\ \/ u = t /\ Action[t] # "split" /\ c = NotifiedTag(w)
       \/ /\ Closes(t, u, K) /\ Parent(NotifiedTag(w)) = c /\ Done(u, c)
          /\ NotifiedTag(w) \in DOMAIN color_groups

\* A transition that keeps its token's color has it in hand until it pushes.
LEMMA SameHands ==
    ASSUME WellNested, RInv, ShapeInv, NEW w \in Workers, Pushing(w),
           NEW t, t = Message(w).transition, KeepsColor(t),
           NEW K \in Machines, OutputsIn(t, K) # {}, NEW c \in NewColors(w)
    PROVE  Hands(w, K, c, t)
<1>1. PICK tag : tag = NotifiedTag(w)
  OBVIOUS
<1>2. At(w, "push") /\ Active(w) # {}
  BY DEF Pushing
<1>3. /\ t \in Transitions /\ tag \in Tags /\ active_tokens[t][tag] # {}
      /\ tag = NotifiedToken(w).color
      /\ Action[t] \notin {"split", "join", "not_implemented"}
  BY <1>1, <1>2, ActiveTakes DEF KeepsColor
<1>4. c = tag
  BY <1>2, <1>3 DEF RInv, PushInv, PushOK, Active, KeepsColor
<1>5. ~IsBarrier(t)
  BY <1>3, ActionAssumption DEF IsBarrier
<1>6. PICK i \in OutputsIn(t, K) : Moves(t, K, i)
  BY <1>3 DEF WellNested
<1>7. PICK r \in InputsIn(t, K) : Rank[r] < Rank[ArcsOut[t][i]]
  BY <1>6 DEF Moves
<1>8. \A p \in InputsIn(t, K), j \in OutputsIn(t, K) : p = r /\ j = i
  BY <1>3, <1>6, <1>7 DEF WellNested
<1>9. InHand(t, K, c)
  BY <1>3, <1>4, <1>5, <1>7 DEF InHand
<1> QED BY <1>1, <1>3, <1>4, <1>7, <1>8, <1>9 DEF Hands

\* A join gives a color back to the machine where its split took it.
LEMMA JoinHands ==
    ASSUME WellNested, RInv, ShapeInv, NEW w \in Workers, Pushing(w),
           NEW t, t = Message(w).transition, Action[t] = "join",
           NEW K \in Machines, OutputsIn(t, K) # {}, NEW c \in NewColors(w)
    PROVE  \E u \in Transitions : Hands(w, K, c, u)
<1> USE DEF RInv
<1>1. PICK g : g = NotifiedTag(w)
  OBVIOUS
<1>2. /\ At(w, "push") /\ Active(w) # {} /\ c # NoColor
  BY DEF Pushing, NewColors
<1>3. /\ t \in Transitions /\ g \in Tags /\ active_tokens[t][g] # {}
      /\ g \in LiveTags(t) /\ Enabled(t, g) /\ IsBarrier(t)
      /\ g = NotifiedToken(w).group
  BY <1>1, <1>2, ActiveTakes
<1>4. /\ g \in DOMAIN color_groups /\ GroupColors(g) # {} /\ Parent(g) = c
      /\ c \in Colors /\ c \in Tags
  <2>1. g \in DOMAIN color_groups /\ GroupColors(g) # {}
    BY <1>3 DEF LiveTags
  <2>2. Parent(g) = c
    BY <1>2, <1>3 DEF PushInv, PushOK, Parent
  <2> QED BY <1>2, <2>1, <2>2, GroupFacts
<1>5. PICK i \in OutputsIn(t, K) : TRUE
  OBVIOUS
<1>6. PICK u \in Transitions :
          Closes(t, u, K) /\ \A p \in InputsIn(u, K) : Rank[p] < Rank[ArcsOut[t][i]]
  BY <1>3 DEF WellNested
<1>7. PICK B \in Machines : B = Body[u] /\ Opens(u, B)
  BY <1>6 DEF Closes, WellNested
<1>8. ASSUME NEW j \in Transitions, Closes(j, u, K),
             NEW h \in DOMAIN color_groups, h \in LiveTags(j), Enabled(j, h)
      PROVE  /\ IsBarrier(j)
             /\ \E d \in GroupColors(h) : TRUE
             /\ \A d \in GroupColors(h) : d \in Colors /\ Taken(j, B, d) /\ Reached(B, d)
  <2>1. IsBarrier(j) /\ InputsIn(j, B) # {}
    BY <1>7, <1>8, ActionAssumption DEF Closes, IsBarrier
  <2>2. GroupColors(h) # {} /\ GroupColors(h) \subseteq Colors
    BY <1>8, <2>1, GroupFacts DEF LiveTags
  <2>3. \A d \in GroupColors(h) : Taken(j, B, d)
    BY <1>8, <2>1 DEF Taken, TagColors
  <2> QED BY <2>1, <2>2, <2>3 DEF Reached
<1>9. PICK d \in GroupColors(g) : d \in Colors /\ Taken(t, B, d) /\ Reached(B, d)
  BY <1>3, <1>4, <1>6, <1>8
<1>10. Done(u, c)
  BY <1>2, <1>4, <1>7, <1>9 DEF ShapeInv, ReachedBySplit
<1>11. ~Returned(u, K, c)
  <2>1. ASSUME NEW j \in Transitions, NEW h \in DOMAIN color_groups,
               Closes(j, u, K), Parent(h) = c, Done(j, h)
        PROVE  FALSE
    <3>1. h \in Tags /\ Enabled(j, h) /\ h \in LiveTags(j)
      BY <2>1, GroupFacts DEF Done, ShapeInv, EnabledLive
    <3>2. PICK e \in GroupColors(h) : e \in Colors /\ Taken(j, B, e) /\ Reached(B, e)
      BY <1>8, <2>1, <3>1
    <3>3. h = g
      BY <1>2, <1>4, <1>7, <1>9, <2>1, <3>2 DEF ShapeInv, OneGroup
    <3>4. Taken(j, B, d) /\ IsBarrier(j)
      BY <1>8, <2>1, <3>1, <3>3
    <3>5. j = t
      BY <1>3, <1>9, <3>4 DEF ShapeInv, OneBarrier
    <3> QED BY <1>3, <2>1, <3>3, <3>5 DEF Done
  <2> QED BY <2>1 DEF Returned
<1>12. InHand(u, K, c)
  <2>1. ~IsBarrier(u) /\ InputsIn(u, K) # {} /\ Action[u] = "split"
    BY <1>6, ActionAssumption DEF Closes, IsBarrier
  <2> QED BY <1>10, <1>11, <2>1 DEF InHand, Done
<1>13. \A j \in OutputsIn(t, K) : j = i
  BY <1>3, <1>5 DEF WellNested
<1> QED BY <1>1, <1>4, <1>6, <1>10, <1>12, <1>13 DEF Hands

\* The colors of a new group are nowhere in the machine.
LEMMA SplitFresh ==
    ASSUME WellNested, RInv, ShapeInv, NEW w \in Workers, Pushing(w),
           NEW t, t = Message(w).transition, Action[t] = "split",
           NEW K \in Machines, OutputsIn(t, K) # {}
    PROVE  \E g \in DOMAIN color_groups :
              /\ NewColors(w) = GroupColors(g)
              /\ Parent(g) = NotifiedTag(w) /\ Parent(g) # NoColor
              /\ Opens(t, K)
              /\ \A c \in NewColors(w) : ~Reached(K, c)
<1> USE DEF RInv
<1>1. PICK tag : tag = NotifiedTag(w)
  OBVIOUS
<1>2. At(w, "push") /\ Active(w) # {}
  BY DEF Pushing
<1>3. /\ t \in Transitions /\ active_tokens[t][tag] # {}
      /\ tag = NotifiedToken(w).color /\ tag \in Colors
  BY <1>1, <1>2, ActiveTakes
<1>4. PICK g \in DOMAIN color_groups : Parent(g) = tag /\ NewColors(w) = GroupColors(g)
  BY <1>2, <1>3 DEF PushInv, PushOK, Parent
<1>5. Parent(g) # NoColor
  BY <1>3, <1>4, BoundAssumption DEF Colors, NoColor
<1>6. Opens(t, K)
  BY DEF Opens
<1>7. \A c \in NewColors(w) : ~Reached(K, c)
  BY <1>3, <1>4, <1>5, <1>6 DEF ShapeInv, ReachedBySplit, Done
<1> QED BY <1>1, <1>4, <1>5, <1>6, <1>7

\* There is room where a transition pushes.
LEMMA PushRoom ==
    ASSUME WellNested, RInv, ShapeInv, NEW w \in Workers, Pushing(w),
           NEW t, t = Message(w).transition,
           NEW K \in Machines, OutputsIn(t, K) # {}, NEW c \in NewColors(w)
    PROVE  /\ c \in Colors
           /\ \A p \in K : ~Marked(c, p)
           /\ \/ \E u \in Transitions : Hands(w, K, c, u) /\ NewColors(w) = {c}
              \/ Action[t] = "split"
<1>1. /\ At(w, "push") /\ Active(w) # {} /\ c # NoColor
  BY DEF Pushing, NewColors
<1>2. t \in Transitions /\ Action[t] # "not_implemented"
  BY <1>1, ActiveTakes
<1>3. c \in Colors
  <2>1. PICK i \in DOMAIN worker[w].new : c = tokens[worker[w].new[i]].color
    BY DEF NewColors
  <2>2. worker[w].new[i] \in DOMAIN tokens
    BY <1>1 DEF RInv, IInv, WorkersInv, WorkerOK, At
  <2>3. tokens[worker[w].new[i]] \in Token
    BY <2>2, ElementOf DEF RInv, IInv, TypeOK
  <2> QED BY <1>1, <2>1, <2>3 DEF Token
<1>4. ASSUME NEW u \in Transitions, Hands(w, K, c, u)
      PROVE  \A p \in K : ~Marked(c, p)
  BY <1>3, <1>4 DEF Hands, ShapeInv, PlaceOrHand
<1>5. CASE KeepsColor(t)
  <2>1. Hands(w, K, c, t)
    BY <1>5, SameHands
  <2>2. \E d : NewColors(w) \subseteq {d}
    BY <1>1, <1>5 DEF RInv, PushInv, PushOK, KeepsColor
  <2> QED BY <1>2, <1>3, <1>4, <2>1, <2>2
<1>6. CASE Action[t] = "join"
  <2>1. PICK u \in Transitions : Hands(w, K, c, u)
    BY <1>6, JoinHands
  <2>2. \E d : NewColors(w) \subseteq {d}
    BY <1>1, <1>6 DEF RInv, PushInv, PushOK
  <2> QED BY <1>3, <1>4, <2>1, <2>2
<1>7. CASE Action[t] = "split"
  BY <1>3, <1>7, SplitFresh DEF Reached
<1>8. CASE Action[t] = "expire"
  <2>1. NewColors(w) = {}
    BY <1>1, <1>8 DEF RInv, PushInv, PushOK
  <2> QED BY <2>1
<1> QED BY <1>2, <1>5, <1>6, <1>7, <1>8, NetAssumption DEF Actions, KeepsColor

\* An entry is found from its row and its column.
LEMMA EntryIs ==
    ASSUME NEW n \in Nat, n > 0, NEW a \in Nat
    PROVE  a = (a \div n) * n + (a % n)
BY Z3

\* No two entries lie in the same row and column.
LEMMA OneEntry ==
    ASSUME NEW n \in Nat, n > 0, NEW a \in Nat, NEW b \in Nat,
           a \div n = b \div n, a % n = b % n
    PROVE  a = b
<1>1. PICK q, r : q = a \div n /\ r = a % n
  OBVIOUS
<1>2. a = (a \div n) * n + (a % n)
  BY EntryIs
<1>3. b = (b \div n) * n + (b % n)
  BY EntryIs
<1>4. a = q * n + r
  BY <1>1, <1>2, Zenon
<1>5. b = q * n + r
  BY <1>1, <1>3, Zenon
<1> QED BY <1>4, <1>5, Zenon

\* Nor do any two puts of a push go to the same cell.
LEMMA PutsDiffer ==
    ASSUME WellNested, RInv, NewOnce, NEW w \in Workers, Pushing(w),
           NEW j \in DOMAIN WorkerPuts(w), NEW k \in DOMAIN WorkerPuts(w),
           PutCell(WorkerPuts(w)[j]) = PutCell(WorkerPuts(w)[k])
    PROVE  j = k
<1>1. PICK t, new, arcs, a, n, puts :
          /\ t = Message(w).transition /\ new = worker[w].new /\ arcs = ArcsOut[t]
          /\ a = Len(arcs) /\ n = Len(new) /\ puts = WorkerPuts(w)
  OBVIOUS
<1>2. At(w, "push") /\ Active(w) # {}
  BY DEF Pushing
<1>3. t \in Transitions /\ arcs \in Seq(Places) /\ new \in Seq(TokenIdxs)
  BY <1>1, <1>2, ActiveTakes DEF RInv, IInv, TypeOK, Worker
<1>4. a \in Nat /\ n \in Nat /\ DOMAIN arcs = 1 .. a /\ DOMAIN new = 1 .. n
  BY <1>1, <1>3
<1>5. puts = [i \in 1 .. a * n |-> [place |-> arcs[((i - 1) \div n) + 1],
                                    token |-> new[((i - 1) % n) + 1]]]
  BY <1>1 DEF WorkerPuts, Puts
<1>6. DOMAIN puts = 1 .. a * n /\ j \in 1 .. a * n /\ k \in 1 .. a * n
  BY <1>1, <1>5
<1>7. ASSUME NEW i \in 1 .. a * n
      PROVE  \E row, column :
                /\ row = ((i - 1) \div n) + 1 /\ row \in 1 .. a
                /\ column = ((i - 1) % n) + 1 /\ column \in 1 .. n
                /\ PutCell(puts[i]) = <<tokens[new[column]].color, arcs[row]>>
  <2>1. PICK row, column : row = ((i - 1) \div n) + 1 /\ column = ((i - 1) % n) + 1
    OBVIOUS
  <2>2. row \in 1 .. a /\ column \in 1 .. n
    BY <1>4, <2>1, PutIndex
  <2>3. puts[i] = [place |-> arcs[row], token |-> new[column]]
    BY <1>5, <2>1, Zenon
  <2>4. PutCell(puts[i]) = <<tokens[new[column]].color, arcs[row]>>
    BY <2>3 DEF PutCell
  <2> QED BY <2>1, <2>2, <2>4
<1>8. PICK x, p : /\ x = ((j - 1) \div n) + 1 /\ x \in 1 .. a
                  /\ p = ((j - 1) % n) + 1 /\ p \in 1 .. n
                  /\ PutCell(puts[j]) = <<tokens[new[p]].color, arcs[x]>>
  BY <1>6, <1>7
<1>9. PICK y, q : /\ y = ((k - 1) \div n) + 1 /\ y \in 1 .. a
                  /\ q = ((k - 1) % n) + 1 /\ q \in 1 .. n
                  /\ PutCell(puts[k]) = <<tokens[new[q]].color, arcs[y]>>
  BY <1>6, <1>7
<1>10. tokens[new[p]].color = tokens[new[q]].color /\ arcs[x] = arcs[y]
  <2>1. PutCell(puts[j]) = PutCell(puts[k])
    BY <1>1
  <2> QED BY <1>8, <1>9, <2>1
<1>11. p = q
  BY <1>1, <1>2, <1>4, <1>8, <1>9, <1>10 DEF NewOnce
<1>12. x = y
  <2>1. arcs[x] \in Places
    BY <1>3, <1>4, <1>8, ElementOf
  <2>2. PICK K \in Machines : arcs[x] \in K
    BY <2>1 DEF WellNested
  <2>3. x \in OutputsIn(t, K) /\ y \in OutputsIn(t, K)
    BY <1>1, <1>4, <1>8, <1>9, <1>10, <2>2 DEF OutputsIn
  <2> QED BY <1>3, <2>2, <2>3 DEF WellNested
<1>13. j - 1 \in Nat /\ k - 1 \in Nat /\ j \in Nat /\ k \in Nat /\ n > 0
  <2>1. a * n \in Nat
    <3>1. \A u, v \in Nat : u * v \in Nat
      OBVIOUS
    <3> QED BY <1>4, <3>1
  <2> QED BY <1>4, <1>6, <1>8, <2>1
<1>14. (j - 1) \div n = (k - 1) \div n /\ (j - 1) % n = (k - 1) % n
  <2>1. /\ (j - 1) \div n \in Int /\ (k - 1) \div n \in Int
        /\ (j - 1) % n \in Int /\ (k - 1) % n \in Int
    BY <1>4, <1>13
  <2> QED BY <1>8, <1>9, <1>11, <1>12, <2>1
<1>15. j - 1 = k - 1
  BY <1>4, <1>13, <1>14, OneEntry
<1> QED BY <1>13, <1>15

\* So push_tokens puts all its tokens: the cells were free, and they differ.
LEMMA NestPushesAll ==
    ASSUME WellNested, RInv, NewOnce, ShapeInv
    PROVE  PushesAll
<1> USE DEF RInv
<1>1. ASSUME NEW w \in Workers, Pushing(w)
      PROVE  PutsMade(WorkerPuts(w)) = DOMAIN WorkerPuts(w)
  <2>1. PICK t, new, puts : /\ t = Message(w).transition /\ new = worker[w].new
                            /\ puts = WorkerPuts(w)
    OBVIOUS
  <2>2. At(w, "push") /\ Active(w) # {}
    BY <1>1 DEF Pushing
  <2>3. t \in Transitions /\ ArcsOut[t] \in Seq(Places) /\ new \in Seq(TokenIdxs)
    BY <2>1, <2>2, ActiveTakes DEF IInv, TypeOK, Worker
  <2>4. {PutCell(puts[k]) : k \in DOMAIN puts} = NewColors(w) \X ToSet(ArcsOut[t])
    BY <2>1, <2>3, PutsCover DEF WorkerPuts, NewColors
  <2>5. ASSUME NEW k \in DOMAIN puts
        PROVE  color_marking[PutCell(puts[k])] = NoToken
    <3>1. PICK c \in NewColors(w), i \in DOMAIN ArcsOut[t] :
              PutCell(puts[k]) = <<c, ArcsOut[t][i]>>
      BY <2>4 DEF ToSet
    <3>2. PICK K \in Machines : ArcsOut[t][i] \in K
      BY <2>3, ElementOf DEF WellNested
    <3>3. OutputsIn(t, K) # {}
      BY <3>2 DEF OutputsIn
    <3>4. ~Marked(c, ArcsOut[t][i])
      BY <1>1, <2>1, <3>2, <3>3, PushRoom
    <3> QED BY <3>1, <3>4 DEF Marked
  <2>6. \A j, k \in DOMAIN puts : PutCell(puts[j]) = PutCell(puts[k]) => j = k
    BY <1>1, <2>1, PutsDiffer
  <2>7. PICK size \in Nat : DOMAIN puts = 1 .. size
    BY <1>1, <2>1, PutsTyped DEF WorkerPuts, Pushing
  <2>8. \A k \in DOMAIN puts : \A j \in 1 .. k : j \in DOMAIN puts
    BY <2>7
  <2>9. \A k \in DOMAIN puts : \A j \in 1 .. k - 1 :
            j \in DOMAIN puts /\ j # k
    BY <2>7
  <2>10. PutsMade(puts) = DOMAIN puts
    BY <2>5, <2>6, <2>8, <2>9 DEF PutsMade
  <2> QED BY <2>1, <2>10
<1> QED BY <1>1 DEF PushesAll

-----------------------------------------------------------------------------
(* push_tokens keeps the shape.                                            *)

\* What a push marks: its colors at all its places.
LEMMA PushMarks ==
    ASSUME WellNested, RInv, NewOnce, ShapeInv, NEW w \in Workers, PushTokens(w),
           Active(w) # {},
           NEW t, t = Message(w).transition, NEW tag, tag = NotifiedTag(w)
    PROVE  /\ Pushing(w)
           /\ Marks(NewColors(w), ToSet(ArcsOut[t]))
           /\ active_tokens'[t][tag] = {}
<1> USE DEF RInv
<1>1. /\ At(w, "push") /\ Pushing(w)
      /\ UNCHANGED <<color_groups, next_color, enablers, deposited>>
  BY DEF PushTokens, Pushing, objectVars
<1>2. PutsMade(Puts(t, worker[w].new)) = DOMAIN Puts(t, worker[w].new)
  BY <1>1, NestPushesAll DEF PushesAll, WorkerPuts
<1>3. MarkingView' = MarkingView \cup (NewColors(w) \X ToSet(ArcsOut[t]))
  BY <1>2, PutsFill
<1>4. /\ t \in Transitions /\ tag \in Tags /\ ArcsOut[t] \in Seq(Places)
  BY <1>1, ActiveTakes
<1>5. active_tokens' = [active_tokens EXCEPT ![t][tag] = {}]
  BY <1>2 DEF PushTokens, Inactive, Active, ActiveCleared
<1>6. /\ active_tokens'[t][tag] = {}
      /\ \A u \in Transitions, g \in Tags :
            active_tokens'[u][g] \in {{}, active_tokens[u][g]}
  BY <1>4, <1>5 DEF IInv, TypeOK
<1>7. NewColors(w) \subseteq Colors
  <2>1. ASSUME NEW i \in DOMAIN worker[w].new
        PROVE  tokens[worker[w].new[i]].color \in Colors
    <3>1. worker[w].new[i] \in DOMAIN tokens
      BY <1>1 DEF IInv, WorkersInv, WorkerOK, At
    <3>2. tokens[worker[w].new[i]] \in Token
      BY <3>1, ElementOf DEF IInv, TypeOK
    <3> QED BY <1>1, <3>2 DEF Pushing, Token
  <2> QED BY <2>1 DEF NewColors
<1>8. ToSet(ArcsOut[t]) \subseteq Places
  BY <1>4, ElementOf DEF ToSet
<1>9. ASSUME NEW c \in Colors, NEW p \in Places
      PROVE  Marked(c, p)' <=> Marked(c, p) \/ (c \in NewColors(w) /\ p \in ToSet(ArcsOut[t]))
  <2>1. <<c, p>> \in Cells
    BY DEF Cells
  <2>2. /\ Marked(c, p) <=> <<c, p>> \in MarkingView
        /\ Marked(c, p)' <=> <<c, p>> \in MarkingView'
    BY <2>1 DEF Marked, MarkingView
  <2> QED BY <1>3, <2>2
<1> QED BY <1>1, <1>6, <1>7, <1>8, <1>9 DEF Marks

\* A token of a color that a transition has in hand comes back to the machine.
LEMMA HeldFits ==
    ASSUME WellNested, RInv, ShapeInv, NEW c \in Colors, NEW O, Marks({c}, O),
           NEW K \in Machines, \A p, q \in O \cap K : p = q,
           NEW u \in Transitions, InHand(u, K, c), ~InHand(u, K, c)',
           \A q \in InputsIn(u, K), p \in O \cap K : Rank[q] < Rank[p]
    PROVE  Fits(K, c, O)
<1>1. IInv /\ EnablerInv
  BY DEF RInv
<1>2. /\ \A t \in Transitions, tag \in Tags : Done(t, tag) => Done(t, tag)'
      /\ \A v \in Transitions, M \in Machines, d \in Colors :
            InHand(v, M, d)' => InHand(v, M, d)
      /\ \A M \in Machines, d \in Colors :
            Reached(M, d)' => Reached(M, d) \/ (d \in {c} /\ O \cap M # {})
  BY <1>1, MarksFacts
<1>3. Taken(u, K, c) /\ Reached(K, c)
  BY <1>1, HandTaken DEF Reached
<1>4. \A p \in K : ~Marked(c, p)
  BY DEF ShapeInv, PlaceOrHand
<1>5. \A v \in Transitions : ~InHand(v, K, c)'
  BY <1>2 DEF ShapeInv, OneHand
<1>6. ASSUME NEW t \in Transitions, Taken(t, K, c)
      PROVE  /\ ~IsBarrier(t)
             /\ \A q \in InputsIn(t, K), p \in O \cap K : Rank[q] < Rank[p]
  <2>1. ~IsBarrier(t)
    BY <1>6 DEF ShapeInv, GoneAtBarrier
  <2>2. ASSUME NEW q \in InputsIn(t, K), NEW p \in O \cap K
        PROVE  Rank[q] < Rank[p]
    <3>1. PICK r \in InputsIn(u, K) : TRUE
      BY DEF InHand
    <3>2. Rank[q] <= Rank[r] /\ Rank[r] < Rank[p]
      BY <1>6, <2>2, <3>1 DEF ShapeInv, Later
    <3>3. Rank[q] \in Nat /\ Rank[r] \in Nat /\ Rank[p] \in Nat
      BY <2>2, <3>1 DEF WellNested, InputsIn
    <3> QED BY <3>2, <3>3
  <2> QED BY <2>1, <2>2
<1>7. \A m \in Requests :
          m.place \in K /\ m.color = c => <<m.color, m.place>> \in deposited'
  BY <1>3 DEF ShapeInv, RequestFirst, Marks
<1>8. ASSUME NEW v \in Transitions, NEW g \in DOMAIN color_groups,
             Opens(v, K), c \in GroupColors(g), Parent(g) # NoColor
      PROVE  Done(v, Parent(g))'
  <2>1. PICK b \in Tags : b = Parent(g)
    BY <1>1, <1>8, GroupFacts
  <2>2. Done(v, b)
    BY <1>3, <1>8, <2>1 DEF ShapeInv, ReachedBySplit
  <2>3. Done(v, b)' /\ b = Parent(g)'
    BY <1>2, <2>1, <2>2 DEF Parent, Marks
  <2> QED BY <2>3
<1>9. ASSUME NEW v \in Transitions, NEW g \in DOMAIN color_groups,
             NEW h \in DOMAIN color_groups, NEW d \in GroupColors(h),
             Opens(v, K), c \in GroupColors(g),
             Parent(g) # NoColor, Parent(g) = Parent(h), Reached(K, d)'
      PROVE  g = h
  <2>1. d \in Colors
    BY <1>1, <1>9, GroupFacts
  <2>2. Reached(K, d)
    BY <1>2, <1>3, <1>9, <2>1
  <2> QED BY <1>3, <1>9, <2>2 DEF ShapeInv, OneGroup
<1> QED BY <1>4, <1>5, <1>6, <1>7, <1>8, <1>9 DEF Fits

\* A new color comes to the machine where its split works.
LEMMA NewFits ==
    ASSUME WellNested, RInv, ShapeInv, NEW D, NEW O, Marks(D, O),
           NEW K \in Machines, \A p, q \in O \cap K : p = q,
           NEW t \in Transitions, Opens(t, K),
           NEW n \in DOMAIN color_groups, D = GroupColors(n), Parent(n) # NoColor,
           \A d \in D : ~Reached(K, d), ~Done(t, Parent(n)), Done(t, Parent(n))',
           NEW c \in D
    PROVE  Fits(K, c, O)
<1>1. IInv /\ EnablerInv
  BY DEF RInv
<1>2. /\ \A v \in Transitions, M \in Machines, d \in Colors :
            InHand(v, M, d)' => InHand(v, M, d)
      /\ \A M \in Machines, d \in Colors :
            Reached(M, d)' => Reached(M, d) \/ (d \in D /\ O \cap M # {})
  BY <1>1, MarksFacts
<1>3. c \in Colors /\ ~Reached(K, c)
  BY DEF Marks
<1>4. /\ \A p \in K : ~Marked(c, p)
      /\ \A v \in Transitions : ~Taken(v, K, c)
  BY <1>3 DEF Reached
<1>5. \A v \in Transitions : ~InHand(v, K, c)'
  BY <1>1, <1>2, <1>3, <1>4, HandTaken
<1>6. \A g \in DOMAIN color_groups : \A d \in D : d \in GroupColors(g) => g = n
  BY <1>1, GroupFacts, UniqueGroup DEF IInv, ColorsIn, GroupColors
<1>7. \A m \in Requests : m.color # c
  <2>1. ASSUME NEW m \in Requests, m.color = c
        PROVE  FALSE
    <3>1. PICK g : /\ g = m.group
                   /\ g \in DOMAIN GroupsAtStart /\ c \in ColorsIn(GroupsAtStart, g)
      BY <2>1, RequestTypes
    <3>2. g \in DOMAIN color_groups /\ color_groups[g] = GroupsAtStart[g]
      BY <3>1 DEF ShapeInv, StartKept
    <3>3. g = n
      BY <1>6, <3>1, <3>2 DEF ColorsIn, GroupColors
    <3>4. GroupsAtStart[g].parent_color = NoColor
      BY <3>1, ClientsOwn
    <3> QED BY <3>2, <3>3, <3>4 DEF Parent
  <2> QED BY <2>1
<1>8. \A v \in Transitions, g \in DOMAIN color_groups :
          Opens(v, K) /\ c \in GroupColors(g) /\ Parent(g) # NoColor => Done(v, Parent(g))'
  <2>1. \A v \in Transitions : Opens(v, K) => v = t
    BY DEF WellNested
  <2> QED BY <1>6, <2>1
<1>9. ASSUME NEW v \in Transitions, NEW g \in DOMAIN color_groups,
             NEW h \in DOMAIN color_groups, NEW d \in GroupColors(h),
             Opens(v, K), c \in GroupColors(g),
             Parent(g) # NoColor, Parent(g) = Parent(h), Reached(K, d)'
      PROVE  g = h
  <2>1. v = t /\ g = n
    BY <1>6, <1>9 DEF WellNested
  <2>2. d \in Colors
    BY <1>1, <1>9, GroupFacts
  <2>3. ~Reached(K, d)
    BY <1>9, <2>1 DEF ShapeInv, ReachedBySplit
  <2>4. d \in D
    BY <1>2, <1>9, <2>2, <2>3
  <2> QED BY <1>6, <1>9, <2>1, <2>4
<1> QED BY <1>4, <1>5, <1>7, <1>8, <1>9 DEF Fits

\* Each color of a push fits, be it held or new.
LEMMA PushFits ==
    ASSUME WellNested, RInv, NewOnce, ShapeInv, NEW w \in Workers, PushTokens(w),
           Active(w) # {}, NEW t, t = Message(w).transition,
           NEW D, D = NewColors(w), NEW O, O = ToSet(ArcsOut[t]),
           NEW K \in Machines, NEW c \in D, O \cap K # {}
    PROVE  Fits(K, c, O)
<1> USE DEF RInv
<1>1. UNCHANGED <<color_groups, next_color, enablers, deposited>>
  BY DEF PushTokens, objectVars
<1>2. PICK tag : tag = NotifiedTag(w)
  OBVIOUS
<1>3. /\ Pushing(w) /\ At(w, "push") /\ Marks(D, O) /\ active_tokens'[t][tag] = {}
  BY <1>2, PushMarks DEF PushTokens
<1>4. /\ t \in Transitions /\ tag \in Tags /\ active_tokens[t][tag] # {}
      /\ Enabled(t, tag) /\ Action[t] # "not_implemented"
  BY <1>2, <1>3, ActiveTakes
<1>5. Done(t, tag)' /\ ~Done(t, tag)
  BY <1>1, <1>3, <1>4 DEF Done, Enabled
<1>6. \A p \in O \cap K : \E i \in OutputsIn(t, K) : p = ArcsOut[t][i]
  BY DEF ToSet, OutputsIn
<1>7. OutputsIn(t, K) # {} /\ \A p, q \in O \cap K : p = q
  BY <1>4, <1>6 DEF WellNested
<1>8. c \in Colors
  BY <1>3, <1>7, PushRoom
<1>9. CASE Action[t] = "split"
  <2>1. PICK n \in DOMAIN color_groups :
            /\ D = GroupColors(n) /\ Parent(n) = tag /\ Parent(n) # NoColor
            /\ Opens(t, K) /\ \A d \in D : ~Reached(K, d)
    BY <1>2, <1>3, <1>7, <1>9, SplitFresh
  <2>2. Parent(n)' = tag
    BY <1>1, <2>1 DEF Parent
  <2>3. ~Done(t, Parent(n)) /\ Done(t, Parent(n))'
    BY <1>5, <2>1, <2>2
  <2> QED BY <1>3, <1>4, <1>7, <2>1, <2>3, NewFits
<1>10. CASE Action[t] # "split"
  <2>1. PICK u \in Transitions : Hands(w, K, c, u) /\ D = {c}
    BY <1>3, <1>7, <1>10, PushRoom
  <2>2. /\ InHand(u, K, c)
        /\ \A q \in InputsIn(u, K), p \in O \cap K : Rank[q] < Rank[p]
    BY <1>6, <2>1 DEF Hands
  <2>3. ~InHand(u, K, c)'
    <3>1. CASE u = t /\ c = tag
      BY <1>3, <1>10, <3>1 DEF InHand
    <3>2. CASE /\ Closes(t, u, K) /\ Parent(tag) = c /\ Done(u, c)
               /\ tag \in DOMAIN color_groups
      <4>1. c \in Tags
        BY <1>8 DEF Tags
      <4>2. Done(u, c)'
        BY <1>3, <3>2, <4>1, MarksFacts
      <4>3. Closes(t, u, K)' /\ Parent(tag)' = c /\ tag \in DOMAIN color_groups'
        BY <1>1, <3>2 DEF Closes, Parent, OutputsIn, InputsIn, Opens
      <4>4. Returned(u, K, c)'
        BY <1>4, <1>5, <4>3 DEF Returned
      <4> QED BY <4>2, <4>4 DEF InHand, Done
    <3> QED BY <1>2, <2>1, <3>1, <3>2 DEF Hands
  <2> QED BY <1>3, <1>7, <1>8, <2>1, <2>2, <2>3, HeldFits
<1> QED BY <1>9, <1>10

\* The push script keeps the shape: it puts what the transition had in hand.
LEMMA PushShape ==
    ASSUME WellNested, RInv, NewOnce, ShapeInv, NEW w \in Workers, PushTokens(w)
    PROVE  ShapeInv'
<1> USE DEF RInv
<1>1. CASE Active(w) = {}
  <2>1. UNCHANGED <<color_marking, active_tokens, color_groups, next_color, enablers,
                    deposited>>
    BY <1>1 DEF PushTokens, Inactive, Active, markingVars, objectVars
  <2> QED BY <2>1, ShapeFrame
<1>2. CASE Active(w) # {}
  <2>1. PICK t, D, O : /\ t = Message(w).transition
                       /\ D = NewColors(w) /\ O = ToSet(ArcsOut[t])
    OBVIOUS
  <2>2. Marks(D, O)
    BY <1>2, <2>1, PushMarks
  <2>3. \A K \in Machines, c \in D : O \cap K # {} => Fits(K, c, O)
    BY <1>2, <2>1, PushFits
  <2> QED BY <2>2, <2>3, MarkStep
<1> QED BY <1>1, <1>2

-----------------------------------------------------------------------------
(* Nobody comes with two tokens of a color.                                *)

\* The tokens a worker is about to push are of different colors.
GivesOnce(w) ==
    At(w, "push") =>
        \A i, j \in DOMAIN worker[w].new :
            tokens[worker[w].new[i]].color = tokens[worker[w].new[j]].color => i = j

\* What the others are about to push stays as it is.
LEMMA GivesOnceStep ==
    ASSUME IInv, NewOnce, Grow, NEW w \in Workers,
           \A v \in Workers : v # w => worker'[v] = worker[v],
           GivesOnce(w)'
    PROVE  NewOnce'
<1>1. ASSUME NEW v \in Workers, v # w
      PROVE  GivesOnce(v)'
  <2>1. SUFFICES ASSUME worker[v].pc = "push"
                 PROVE  GivesOnce(v)'
    BY <1>1 DEF GivesOnce, At
  <2>2. \A i \in DOMAIN worker[v].new : worker[v].new[i] \in DOMAIN tokens
    BY <2>1 DEF IInv, WorkersInv, WorkerOK
  <2>3. \A i \in DOMAIN worker[v].new :
            tokens'[worker[v].new[i]] = tokens[worker[v].new[i]]
    BY <2>2 DEF Grow
  <2>4. GivesOnce(v)
    BY DEF NewOnce, GivesOnce
  <2> QED BY <1>1, <2>1, <2>3, <2>4 DEF GivesOnce, At
<1>2. \A v \in Workers : GivesOnce(v)'
  BY <1>1
<1> QED BY <1>2 DEF NewOnce, GivesOnce

\* One token, or none.
LEMMA FewGiven ==
    ASSUME IInv, NEW w \in Workers, NEW new, new = <<>> \/ \E i : new = <<i>>,
           Executed(w, new)
    PROVE  GivesOnce(w)'
<1>1. \A i, j \in DOMAIN new : i = j
  <2>1. CASE new = <<>>
    BY <2>1
  <2>2. CASE \E i : new = <<i>>
    BY <2>2
  <2> QED BY <2>1, <2>2
<1>2. worker'[w].new = new
  BY ExecutedGives
<1> QED BY <1>1, <1>2 DEF GivesOnce

\* A handler that raises pushes nothing.
LEMMA FailGives ==
    ASSUME IInv, NEW w \in Workers, Fail(w)
    PROVE  GivesOnce(w)'
<1>1. worker'[w].pc = "idle"
  BY FailMoves DEF IInv
<1> QED BY <1>1 DEF GivesOnce, At

\* The active tokens of record_time are one.
LEMMA RecordedOnce ==
    ASSUME IInv, ShapeInv, NEW w \in Workers, FireRecordTime(w)
    PROVE  GivesOnce(w)'
<1>1. /\ worker[w].pc = "fire" /\ Action[Message(w).transition] = "record_time"
      /\ tokens' = tokens
  BY DEF FireRecordTime, Firing, At, objectVars
<1>2. PICK new \in SetToSeqs(Active(w)) : Executed(w, new)
  BY DEF FireRecordTime
<1>3. /\ new \in [1 .. Cardinality(Active(w)) -> Active(w)]
      /\ \A i, j \in 1 .. Cardinality(Active(w)) : i # j => new[i] # new[j]
  BY <1>2 DEF SetToSeqs
<1>4. \A x, y \in Active(w) : x = y
  <2>1. Message(w).transition \in Transitions /\ NotifiedTag(w) \in Tags
    BY <1>1, Notification
  <2> QED BY <1>1, <2>1 DEF ShapeInv, LoneActive, Active
<1>5. \A i, j \in DOMAIN new : i = j
  BY <1>3, <1>4
<1>6. worker'[w].new = new
  BY <1>2, ExecutedGives
<1> QED BY <1>5, <1>6 DEF GivesOnce

\* Every action gives each color once.
LEMMA FireGivesOnce ==
    ASSUME IInv, IInv', NewOnce, ShapeInv, NEW w \in Workers, Fire(w)
    PROVE  NewOnce'
<1>1. CASE FireSplit(w)
  <2>1. Fired(w) /\ Grow
    BY <1>1, SplitFire
  <2>2. GivesOnce(w)'
    BY <1>1, SplitGives DEF GivesOnce
  <2> QED BY <2>1, <2>2, GivesOnceStep DEF Fired
<1>2. CASE FireMerge(w) \/ FireRemoveData(w) \/ FireJoin(w)
  <2>1. Fired(w) /\ Grow
    BY <1>2, MakingFire, OneTokenGrows
  <2>2. Fail(w) \/ \E i : Executed(w, <<i>>)
    BY <1>2 DEF FireMerge, FireRemoveData, FireJoin
  <2>3. CASE Fail(w)
    BY <2>1, <2>3, FailGives, GivesOnceStep DEF Fired
  <2>4. CASE \E i : Executed(w, <<i>>)
    <3>1. PICK i, new : new = <<i>> /\ Executed(w, new)
      BY <2>4
    <3>2. GivesOnce(w)'
      BY <3>1, FewGiven
    <3> QED BY <2>1, <3>2, GivesOnceStep DEF Fired
  <2> QED BY <2>2, <2>3, <2>4
<1>3. CASE FireRecordTime(w)
  <2>1. Fired(w) /\ Grow
    BY <1>3, SimpleFire, SameTokensGrow
  <2> QED BY <1>3, <2>1, RecordedOnce, GivesOnceStep DEF Fired
<1>4. CASE FireCount(w) \/ FireHeadFails(w) \/ FireSingle(w) \/ FireExpire(w)
           \/ FireNotImplemented(w)
  <2>1. Fired(w) /\ Grow
    BY <1>4, SimpleFire, SameTokensGrow
  <2>2. \/ Fail(w)
        \/ \E count : worker' = [worker EXCEPT ![w].pc = "counted", ![w].count = count]
        \/ \E new : (new = <<>> \/ \E i : new = <<i>>) /\ Executed(w, new)
    BY <1>4 DEF FireCount, FireHeadFails, FireSingle, FireExpire, FireNotImplemented
  <2>3. CASE Fail(w)
    BY <2>1, <2>3, FailGives, GivesOnceStep DEF Fired
  <2>4. CASE \E count : worker' = [worker EXCEPT ![w].pc = "counted", ![w].count = count]
    <3>1. worker'[w].pc = "counted"
      BY <2>4 DEF IInv, TypeOK, Worker
    <3>2. GivesOnce(w)'
      BY <3>1 DEF GivesOnce, At
    <3> QED BY <2>1, <3>2, GivesOnceStep DEF Fired
  <2>5. CASE \E new : (new = <<>> \/ \E i : new = <<i>>) /\ Executed(w, new)
    <3>1. GivesOnce(w)'
      BY <2>5, FewGiven
    <3> QED BY <2>1, <3>1, GivesOnceStep DEF Fired
  <2> QED BY <2>2, <2>3, <2>4, <2>5
<1> QED BY <1>1, <1>2, <1>3, <1>4 DEF Fire

\* Whoever does anything else comes with nothing to push, or with what it came before.
LEMMA OtherGivesOnce ==
    ASSUME IInv, IInv', NewOnce, NEW w \in Workers,
           \/ Receive(w) \/ Crash(w) \/ CreateToken(w) \/ PutToken(w) \/ PutTokenFails(w)
           \/ NotifyPlace(w) \/ ConsumeTokens(w) \/ PushFails(w) \/ PushTokens(w)
           \/ Publish(w) \/ Ack(w)
    PROVE  NewOnce'
<1>1. /\ Grow
      /\ \A v \in Workers : v # w => worker'[v] = worker[v]
      /\ worker'[w].pc # "push"
  BY OtherMoves
<1>2. GivesOnce(w)'
  BY <1>1 DEF GivesOnce, At
<1> QED BY <1>1, <1>2, GivesOnceStep

-----------------------------------------------------------------------------
(* Every step.                                                             *)

\* No token is anywhere at the start.
LEMMA InitNests ==
    ASSUME WellNested, Init, IInv
    PROVE  NestInv
<1>1. RInv
  BY InitKeeps
<1>2. NewOnce
  BY DEF Init, Idle, NewOnce, At
<1>3. /\ \A K \in Machines, c \in Colors : \A p \in K : ~Marked(c, p)
      /\ \A t \in Transitions, tag \in Tags : ~Enabled(t, tag) /\ active_tokens[t][tag] = {}
      /\ color_groups = GroupsAtStart
  BY DEF Init, Marked, Enabled, Cells, WellNested
<1>4. \A K \in Machines, c \in Colors, t \in Transitions :
          ~Taken(t, K, c) /\ ~InHand(t, K, c)
  <2>1. \A t \in Transitions : \A tag \in LiveTags(t) : tag \in Tags
    BY LiveTag
  <2> QED BY <1>3, <2>1 DEF Taken, InHand, Tags
<1>5. \A K \in Machines, c \in Colors : ~Reached(K, c)
  BY <1>3, <1>4 DEF Reached
<1>6. \A g \in DOMAIN color_groups : GroupColors(g) \subseteq Colors
  BY GroupFacts
<1>7. EnabledLive /\ StartKept /\ LoneActive
  BY <1>3 DEF EnabledLive, StartKept, LoneActive
<1>8. OnePlace /\ PlaceOrHand /\ OneHand /\ RequestFirst
  <2>1. \A m \in Requests : m.color \in Colors
    BY RequestTypes
  <2> QED BY <1>3, <1>4, <1>5, <2>1 DEF OnePlace, PlaceOrHand, OneHand, RequestFirst
<1>9. Later /\ GoneAtBarrier /\ OneBarrier
  BY <1>4 DEF Later, GoneAtBarrier, OneBarrier
<1>10. ReachedBySplit /\ OneGroup
  BY <1>5, <1>6 DEF ReachedBySplit, OneGroup
<1> QED BY <1>1, <1>2, <1>7, <1>8, <1>9, <1>10 DEF NestInv, ShapeInv

\* No step of any process breaks it.
LEMMA StepNests ==
    ASSUME WellNested, PutsOnce, OneRequestForEachCell, NestInv, [Next]_vars
    PROVE  NestInv'
<1> USE DEF NestInv
<1>1. IInv /\ IInv'
  BY StepPreserves DEF RInv
<1>2. RInv'
  BY <1>1, NestFiresOnce, StepKeeps
<1>3. CASE UNCHANGED vars
  <2>1. UNCHANGED <<color_marking, color_groups, next_color, active_tokens, enablers,
                    deposited, worker, tokens>>
    BY <1>3 DEF vars, markingVars, objectVars, transitionVars
  <2>2. NewOnce'
    BY <2>1 DEF NewOnce, At
  <2> QED BY <1>2, <2>1, <2>2, ShapeFrame
<1>4. ASSUME NEW w \in Workers, Receive(w) \/ Crash(w)
      PROVE  NestInv'
  BY <1>1, <1>2, <1>4, PlainShape, OtherGivesOnce
<1>5. ASSUME NEW w \in Workers, Fire(w)
      PROVE  NestInv'
  <2>1. ShapeInv'
    BY <1>1, <1>5, SplitShape, PlainShape DEF Fire
  <2> QED BY <1>1, <1>2, <1>5, <2>1, FireGivesOnce
<1>6. ASSUME NEW w \in Workers, ConsumeTokens(w)
      PROVE  NestInv'
  <2>1. ShapeInv'
    BY <1>1, <1>6, ConsumeShape, PlainShape DEF ConsumeTokens
  <2> QED BY <1>1, <1>2, <1>6, <2>1, OtherGivesOnce
<1>7. ASSUME NEW w \in Workers, Handle(w)
      PROVE  NestInv'
  <2>1. CASE PutToken(w) \/ PushTokens(w)
    BY <1>1, <1>2, <2>1, PutTokenShape, PushShape, OtherGivesOnce
  <2>2. CASE \/ CreateToken(w) \/ PutTokenFails(w) \/ NotifyPlace(w) \/ PushFails(w)
             \/ Publish(w) \/ Ack(w)
    BY <1>1, <1>2, <2>2, PlainShape, OtherGivesOnce
  <2> QED BY <1>5, <1>6, <1>7, <2>1, <2>2 DEF Handle
<1> QED BY <1>3, <1>4, <1>7 DEF Next

\* In a net that is covered by machines, and whose clients put their tokens once, every
\* color of a machine stays in one place or in one transition's hands, and goes on to
\* later places only, whatever the order and the crashes of the handlers.
THEOREM NestInvariance ==
    ASSUME WellNested, PutsOnce, OneRequestForEachCell
    PROVE  Spec => []NestInv
<1>1. Init => NestInv
  BY InitEstablishes, InitNests
<1>2. NestInv /\ [Next]_vars => NestInv'
  BY StepNests
<1> QED BY <1>1, <1>2, PTL DEF Spec

\* So such a net is safe: no transition is offered a second set of tokens of a color or
\* group, and push_tokens never finds a cell taken.
THEOREM WorkflowNetIsSafe ==
    ASSUME WellNested, PutsOnce, OneRequestForEachCell
    PROVE  Spec => []NetIsSafe
<1>1. NestInv => NetIsSafe
  BY NestFiresOnce, NestPushesAll DEF NestInv, NetIsSafe, RInv
<1> QED BY <1>1, NestInvariance, PTL

\* The engine implements the coloured net: every consume_tokens and push_tokens is one
\* firing, which takes the tokens of one color or group whole and replaces them once.
THEOREM WorkflowImplementsNet ==
    ASSUME WellNested, PutsOnce, OneRequestForEachCell
    PROVE  Spec => ImplementsNet
<1>1. NetIsSafe => FiredOnce
  BY DEF NetIsSafe
<1>2. NetIsSafe => PushesWhole
  BY DEF NetIsSafe, PushesAll, PushesWhole
<1> QED BY <1>1, <1>2, WorkflowNetIsSafe, EngineImplementsNet, PTL

\* No wakeup of a transition is lost, if the processes that die do so before they put
\* tokens or after they notified their places.
THEOREM WorkflowLosesNoWakeup ==
    ASSUME WellNested, PutsOnce, OneRequestForEachCell, NotifiesWhatItPushed
    PROVE  Spec => []NoLostWakeup
<1>1. NetIsSafe => FiredOnce
  BY DEF NetIsSafe
<1> QED BY <1>1, WorkflowNetIsSafe, NoWakeupIsLost, PTL

\* Once the broker is drained and nobody works, what the net could do it has done,
\* unless a handler of a notification raised.
THEOREM WorkflowFinishes ==
    ASSUME WellNested, PutsOnce, OneRequestForEachCell, NotifiesWhatItPushed,
           BarriersSurvive
    PROVE  Spec => [](NothingRaised => QuiescentDone)
BY WorkflowNetIsSafe, QuiescenceIsDone, PTL

\* Every token that merge and remove_data make carries on the data of those it replaces.
THEOREM WorkflowPassesData ==
    ASSUME WellNested, PutsOnce, OneRequestForEachCell
    PROVE  Spec => DataPassesOn
<1>1. NetIsSafe => FiredOnce
  BY DEF NetIsSafe
<1> QED BY <1>1, WorkflowNetIsSafe, DataIsPassedOn, PTL

-----------------------------------------------------------------------------
(* Where reports move to.                                                  *)

\* A message that exists reports the same before and after a step.
LEMMA ReportsSame ==
    ASSUME IInv, Grow, NEW m, MessageOK(tokens, m), NEW t, NEW p, NEW c
    PROVE  Reports(m, t, p, c)' <=> Reports(m, t, p, c)
BY KnownGrows DEF Grow, MessageOK, Known, Reports

\* The three kinds of reporters.
LEMMA ReporterIs ==
    ASSUME NEW t, NEW p, NEW c
    PROVE  /\ \A x : x \in Reporters(t, p, c) <=>
                 \/ \E m \in Messages :
                       x = <<"queue", m>> /\ queue[m] > 0 /\ Reports(m, t, p, c)
                 \/ \E w \in Workers :
                       /\ x = <<"worker", w>>
                       /\ Bears(worker[w]) /\ Reports(worker[w].msg, t, p, c)
                 \/ \E w \in Workers : x = <<"outbox", w>> /\ Sends(worker[w], t, p, c)
           /\ \A m : <<"queue", m>> \in Reporters(t, p, c) <=>
                 m \in Messages /\ queue[m] > 0 /\ Reports(m, t, p, c)
           /\ \A w : <<"worker", w>> \in Reporters(t, p, c) <=>
                 w \in Workers /\ Bears(worker[w]) /\ Reports(worker[w].msg, t, p, c)
           /\ \A w : <<"outbox", w>> \in Reporters(t, p, c) <=>
                 w \in Workers /\ Sends(worker[w], t, p, c)
BY DEF Reporters

\* Only the worker that takes the step and the queue can report anew.
LEMMA ReportersFrame ==
    ASSUME IInv, Grow, NEW w \in Workers,
           \A v \in Workers : v # w => worker'[v] = worker[v],
           NEW t, NEW p, NEW c, NEW x \in Reporters(t, p, c)',
           x # <<"worker", w>>, x # <<"outbox", w>>,
           \A m \in Messages : x = <<"queue", m>> /\ queue'[m] > 0 => queue[m] > 0
    PROVE  x \in Reporters(t, p, c)
<1>1. CASE \E m \in Messages :
              x = <<"queue", m>> /\ queue'[m] > 0 /\ Reports(m, t, p, c)'
  <2>1. PICK m \in Messages :
            x = <<"queue", m>> /\ queue'[m] > 0 /\ Reports(m, t, p, c)'
    BY <1>1
  <2>2. queue[m] > 0 /\ MessageOK(tokens, m)
    BY <2>1 DEF IInv, QueueInv
  <2> QED BY <2>1, <2>2, ReportsSame, ReporterIs
<1>2. CASE \E v \in Workers :
              /\ x = <<"worker", v>>
              /\ Bears(worker'[v]) /\ Reports(worker[v].msg, t, p, c)'
  <2>1. PICK v \in Workers :
            /\ x = <<"worker", v>>
            /\ Bears(worker'[v]) /\ Reports(worker[v].msg, t, p, c)'
    BY <1>2
  <2>2. v # w /\ worker'[v] = worker[v] /\ worker[v].pc # "idle"
    BY <2>1 DEF Bears
  <2>3. MessageOK(tokens, worker[v].msg)
    BY <2>2 DEF IInv, WorkersInv, WorkerOK
  <2>4. PICK m : m = worker[v].msg /\ Reports(m, t, p, c)'
    BY <2>1, <2>2 DEF Reports
  <2> QED BY <2>1, <2>2, <2>3, <2>4, ReportsSame, ReporterIs
<1>3. CASE \E v \in Workers : x = <<"outbox", v>> /\ Sends(worker[v], t, p, c)'
  <2>1. PICK v \in Workers : x = <<"outbox", v>> /\ Sends(worker[v], t, p, c)'
    BY <1>3
  <2>2. v # w /\ worker'[v] = worker[v] /\ worker[v].pc = "publish"
    BY <2>1 DEF Sends
  <2>3. \E i \in DOMAIN worker[v].outbox : \E n :
            n = worker[v].outbox[i] /\ Reports(n, t, p, c)'
    BY <2>1, <2>2 DEF Sends, Reports
  <2>3a. PICK i \in DOMAIN worker[v].outbox : \E n :
            n = worker[v].outbox[i] /\ Reports(n, t, p, c)'
    BY <2>3
  <2>3b. PICK m : m = worker[v].outbox[i] /\ Reports(m, t, p, c)'
    BY <2>3a
  <2>4. MessageOK(tokens, m)
    BY <2>2, <2>3b DEF IInv, WorkersInv, WorkerOK
  <2>5. Sends(worker[v], t, p, c)
    BY <2>2, <2>3b, <2>4, ReportsSame DEF Sends
  <2> QED BY <2>1, <2>5, ReporterIs
<1> QED BY <1>1, <1>2, <1>3 DEF Reporters

\* A step that at most moves the one report from a to b.
ReportStays(t, p, c) ==
    ReportedOnce(t, p, c)' /\ (Reporters(t, p, c)' # {} => Reporters(t, p, c) # {})

\* A step that moves a report from one reporter to another keeps it the only one.
LEMMA ReportMoves ==
    ASSUME IInv, Grow, NEW w \in Workers,
           \A v \in Workers : v # w => worker'[v] = worker[v],
           NEW t, NEW p, NEW c, ReportedOnce(t, p, c), NEW a, NEW b,
           \A x \in Reporters(t, p, c)' : x = b \/ x \in Reporters(t, p, c),
           b \in Reporters(t, p, c)' /\ b \notin Reporters(t, p, c) =>
              a \in Reporters(t, p, c) /\ a \notin Reporters(t, p, c)',
           \A m \in Messages : queue'[m] > 1 => ~Reports(m, t, p, c)',
           worker'[w].pc = "publish" =>
              \A i, j \in DOMAIN worker'[w].outbox :
                 /\ Reports(worker[w].outbox[i], t, p, c)'
                 /\ Reports(worker[w].outbox[j], t, p, c)'
                 => i = j
    PROVE  ReportStays(t, p, c)
<1>1. \A x, y \in Reporters(t, p, c) : x = y
  BY DEF ReportedOnce
<1>2. \A x, y \in Reporters(t, p, c)' : x = y
  BY <1>1
<1>3. Reporters(t, p, c)' # {} => Reporters(t, p, c) # {}
  OBVIOUS
<1>4. ASSUME NEW v \in Workers, worker'[v].pc = "publish",
             NEW i \in DOMAIN worker'[v].outbox, NEW j \in DOMAIN worker'[v].outbox,
             Reports(worker[v].outbox[i], t, p, c)', Reports(worker[v].outbox[j], t, p, c)'
      PROVE  i = j
  <2>1. CASE v = w
    BY <1>4, <2>1
  <2>2. CASE v # w
    <3>1. worker'[v] = worker[v]
      BY <2>2
    <3>2. PICK m, n : /\ m = worker[v].outbox[i] /\ n = worker[v].outbox[j]
                      /\ Reports(m, t, p, c)' /\ Reports(n, t, p, c)'
      BY <1>4, <3>1 DEF Reports
    <3>3. MessageOK(tokens, m) /\ MessageOK(tokens, n)
      BY <1>4, <3>1, <3>2 DEF IInv, WorkersInv, WorkerOK
    <3>4. Reports(m, t, p, c) /\ Reports(n, t, p, c)
      BY <3>2, <3>3, ReportsSame
    <3> QED BY <1>4, <3>1, <3>2, <3>4 DEF ReportedOnce, At
  <2> QED BY <2>1, <2>2
<1>5. ReportedOnce(t, p, c)'
  BY <1>2, <1>4 DEF ReportedOnce, At
<1> QED BY <1>3, <1>5 DEF ReportStays

\* A handler's step that tells nobody of anything.
Quiet(w) ==
    /\ \A v \in Workers : v # w => worker'[v] = worker[v]
    /\ queue' = queue
    /\ worker'[w].pc # "idle" => worker[w].pc # "idle" /\ worker'[w].msg = worker[w].msg
    /\ worker'[w].pc \in {"create", "put", "read"} => worker[w].pc \in {"create", "put"}
    /\ worker'[w].pc = "publish" => worker'[w].outbox = <<>>

\* A step that sends nothing and passes nothing on adds no report.
LEMMA QuietReports ==
    ASSUME IInv, Grow, NEW w \in Workers, Quiet(w),
           NEW t, NEW p, NEW c, ReportedOnce(t, p, c)
    PROVE  ReportStays(t, p, c)
<1>1. ASSUME NEW x \in Reporters(t, p, c)'
      PROVE  x \in Reporters(t, p, c)
  <2>1. CASE x = <<"worker", w>>
    <3>1. Bears(worker'[w]) /\ Reports(worker[w].msg, t, p, c)'
      BY <1>1, <2>1 DEF Reporters
    <3>2. /\ worker'[w].pc # "idle" /\ worker'[w].msg = worker[w].msg
          /\ worker[w].pc # "idle" /\ Bears(worker[w])
      BY <3>1 DEF Bears, Quiet
    <3>3. PICK m : m = worker[w].msg /\ Reports(m, t, p, c)'
      BY <3>1, <3>2 DEF Reports
    <3>4. MessageOK(tokens, m)
      BY <3>2, <3>3 DEF IInv, WorkersInv, WorkerOK
    <3> QED BY <2>1, <3>2, <3>3, <3>4, ReportsSame, ReporterIs
  <2>2. CASE x = <<"outbox", w>>
    BY <1>1, <2>2 DEF Reporters, Sends, Quiet
  <2>3. CASE x # <<"worker", w>> /\ x # <<"outbox", w>>
    BY <1>1, <2>3, ReportersFrame DEF Quiet
  <2> QED BY <2>1, <2>2, <2>3
<1>2. \A m \in Messages : queue'[m] > 1 => ~Reports(m, t, p, c)'
  <2>1. ASSUME NEW m \in Messages, queue'[m] > 1
        PROVE  ~Reports(m, t, p, c)'
    <3>1. queue[m] > 1 /\ queue[m] > 0
      BY <2>1 DEF Quiet, IInv, TypeOK
    <3>2. MessageOK(tokens, m) /\ ~Reports(m, t, p, c)
      BY <3>1 DEF IInv, QueueInv, ReportedOnce
    <3> QED BY <3>2, ReportsSame
  <2> QED BY <2>1
<1>3. worker'[w].pc = "publish" => \A i, j \in DOMAIN worker'[w].outbox : i = j
  BY DEF Quiet
<1>4. \A v \in Workers : v # w => worker'[v] = worker[v]
  BY DEF Quiet
<1>5. PICK a : a = <<"worker", w>>
  OBVIOUS
<1> QED BY <1>1, <1>2, <1>3, <1>4, <1>5, ReportMoves

\* The broker's message is the worker's now.
LEMMA ReceiveReports ==
    ASSUME IInv, NEW w \in Workers, Receive(w),
           NEW t, NEW p, NEW c, ReportedOnce(t, p, c)
    PROVE  ReportStays(t, p, c)
<1>1. PICK m \in Messages :
          /\ queue[m] > 0
          /\ queue' = [queue EXCEPT ![m] = @ - 1]
          /\ worker' = [worker EXCEPT ![w].pc = FirstStep[m.type], ![w].msg = m]
  BY DEF Receive
<1>2. FirstStep[m.type] \in {"create", "read", "consume"}
  BY MessageTypes DEF FirstStep
<1>3. /\ \A v \in Workers : v # w => worker'[v] = worker[v]
      /\ worker'[w].pc \notin {"publish", "idle"} /\ worker'[w].msg = m
  BY <1>1, <1>2 DEF IInv, TypeOK, Worker
<1>4. /\ queue'[m] = queue[m] - 1 /\ queue[m] \in Nat
      /\ \A n \in Messages : n # m => queue'[n] = queue[n]
      /\ \A n \in Messages : queue[n] \in Nat
  BY <1>1 DEF IInv, TypeOK
<1>5. Grow
  BY SameTokensGrow DEF Receive, objectVars
<1>6. \A n \in Messages : queue[n] > 0 => (Reports(n, t, p, c)' <=> Reports(n, t, p, c))
  BY <1>5, ReportsSame DEF IInv, QueueInv
<1>7. PICK a, b : a = <<"queue", m>> /\ b = <<"worker", w>>
  OBVIOUS
<1>8. ASSUME NEW x \in Reporters(t, p, c)', x # b
      PROVE  x \in Reporters(t, p, c)
  <2>1. x # <<"outbox", w>>
    BY <1>3, <1>8 DEF Reporters, Sends
  <2>2. \A n \in Messages : queue'[n] > 0 => queue[n] > 0
    BY <1>4
  <2> QED BY <1>3, <1>5, <1>7, <1>8, <2>1, <2>2, ReportersFrame
<1>9. ASSUME b \in Reporters(t, p, c)'
      PROVE  a \in Reporters(t, p, c) /\ a \notin Reporters(t, p, c)'
  <2>1. Reports(worker[w].msg, t, p, c)'
    BY <1>7, <1>9 DEF Reporters
  <2>2. Reports(m, t, p, c)'
    BY <1>3, <2>1 DEF Reports
  <2>3. Reports(m, t, p, c)
    BY <1>1, <1>6, <2>2
  <2>4. ~(queue'[m] > 0)
    BY <1>4, <2>3 DEF ReportedOnce
  <2>5. a \notin Reporters(t, p, c)'
    BY <1>7, <2>4 DEF Reporters
  <2> QED BY <1>1, <1>7, <2>3, <2>5, ReporterIs
<1>10. \A n \in Messages : queue'[n] > 1 => ~Reports(n, t, p, c)'
  <2>1. \A n \in Messages : queue'[n] > 1 => queue[n] > 1 /\ queue[n] > 0
    BY <1>4
  <2> QED BY <1>6, <2>1 DEF ReportedOnce
<1> QED BY <1>3, <1>5, <1>8, <1>9, <1>10, ReportMoves

\* A message of the worker's is the broker's now.
LEMMA QueuedReports ==
    ASSUME IInv, Grow, NEW w \in Workers,
           \A v \in Workers : v # w => worker'[v] = worker[v],
           NEW m \in Messages, MessageOK(tokens, m), queue' = [queue EXCEPT ![m] = @ + 1],
           NEW t, NEW p, NEW c, ReportedOnce(t, p, c), NEW a, a # <<"queue", m>>,
           Reports(m, t, p, c) =>
              a \in Reporters(t, p, c) /\ a \notin Reporters(t, p, c)',
           \A x \in {<<"worker", w>>, <<"outbox", w>>} :
              x \in Reporters(t, p, c)' => x \in Reporters(t, p, c),
           worker'[w].pc = "publish" =>
              \A i, j \in DOMAIN worker'[w].outbox :
                 /\ Reports(worker[w].outbox[i], t, p, c)'
                 /\ Reports(worker[w].outbox[j], t, p, c)'
                 => i = j
    PROVE  ReportStays(t, p, c)
<1>1. /\ queue'[m] = queue[m] + 1
      /\ \A n \in Messages : n # m => queue'[n] = queue[n]
      /\ \A n \in Messages : queue[n] \in Nat
  BY DEF IInv, TypeOK
<1>2. \A n \in Messages :
          n = m \/ queue[n] > 0 => (Reports(n, t, p, c)' <=> Reports(n, t, p, c))
  BY ReportsSame DEF IInv, QueueInv
<1>3. PICK b : b = <<"queue", m>>
  OBVIOUS
<1>4. ASSUME NEW x \in Reporters(t, p, c)', x # b
      PROVE  x \in Reporters(t, p, c)
  <2>1. \A n \in Messages : x = <<"queue", n>> => n # m
    BY <1>3, <1>4
  <2> QED BY <1>1, <1>4, <2>1, ReportersFrame
<1>5. b \in Reporters(t, p, c)' => Reports(m, t, p, c)
  BY <1>2, <1>3 DEF Reporters
<1>6. ASSUME NEW n \in Messages, queue'[n] > 1, Reports(n, t, p, c)'
      PROVE  FALSE
  <2>1. queue[n] > 0
    BY <1>1, <1>6
  <2>2. Reports(n, t, p, c)
    BY <1>2, <1>6, <2>1
  <2>3. CASE n = m
    <3>1. b \in Reporters(t, p, c)
      BY <1>3, <2>1, <2>2, <2>3, ReporterIs
    <3> QED BY <1>3, <2>2, <2>3, <3>1 DEF ReportedOnce
  <2>4. CASE n # m
    BY <1>1, <1>6, <2>2, <2>4 DEF ReportedOnce
  <2> QED BY <2>3, <2>4
<1> QED BY <1>4, <1>5, <1>6, ReportMoves

\* Publishing sends the first message of the outbox.
LEMMA PublishMoves ==
    ASSUME IInv, NEW w \in Workers, Publish(w)
    PROVE  /\ Grow
           /\ \A v \in Workers : v # w => worker'[v] = worker[v]
           /\ worker[w].pc = "publish" /\ worker'[w].pc = "publish"
           /\ worker'[w].msg = worker[w].msg
           /\ \E m \in Messages :
                 /\ queue' = [queue EXCEPT ![m] = @ + 1]
                 /\ 1 \in DOMAIN worker[w].outbox /\ m = worker[w].outbox[1]
           /\ \A i \in DOMAIN worker'[w].outbox :
                 /\ i + 1 \in DOMAIN worker[w].outbox /\ i \in Nat \ {0}
                 /\ worker'[w].outbox[i] = worker[w].outbox[i + 1]
<1> DEFINE outbox == worker[w].outbox
<1>1. /\ outbox \in Seq(Messages) /\ outbox # <<>>
      /\ worker[w] \in Worker /\ worker[w].pc = "publish"
  BY DEF IInv, TypeOK, Publish, At, Worker
<1>2. /\ Head(outbox) \in Messages /\ Head(outbox) = outbox[1] /\ 1 \in DOMAIN outbox
      /\ \A i \in DOMAIN Tail(outbox) :
            /\ i + 1 \in DOMAIN outbox /\ i \in Nat \ {0}
            /\ Tail(outbox)[i] = outbox[i + 1]
  <2> HIDE DEF outbox
  <2> QED BY <1>1
<1>3. /\ \A v \in Workers : v # w => worker'[v] = worker[v]
      /\ worker'[w].pc = "publish" /\ worker'[w].msg = worker[w].msg
      /\ worker'[w].outbox = Tail(outbox)
      /\ queue' = [queue EXCEPT ![Head(outbox)] = @ + 1]
      /\ tokens' = tokens
  BY <1>1 DEF Publish, IInv, TypeOK, Worker, objectVars
<1> QED BY <1>1, <1>2, <1>3, SameTokensGrow

\* What was in the outbox is in the queue.
LEMMA PublishReports ==
    ASSUME IInv, NEW w \in Workers, Publish(w),
           NEW t, NEW p, NEW c, ReportedOnce(t, p, c)
    PROVE  ReportStays(t, p, c)
<1>1. /\ Grow
      /\ \A v \in Workers : v # w => worker'[v] = worker[v]
      /\ worker[w].pc = "publish" /\ worker'[w].pc = "publish"
      /\ worker'[w].msg = worker[w].msg
  BY PublishMoves
<1>2. PICK m \in Messages :
          /\ queue' = [queue EXCEPT ![m] = @ + 1]
          /\ 1 \in DOMAIN worker[w].outbox /\ m = worker[w].outbox[1]
  BY PublishMoves
<1>3. ASSUME NEW i \in DOMAIN worker'[w].outbox, Reports(worker[w].outbox[i], t, p, c)'
      PROVE  /\ i + 1 \in DOMAIN worker[w].outbox /\ i \in Nat \ {0}
             /\ Reports(worker[w].outbox[i + 1], t, p, c)
  <2>1. /\ i + 1 \in DOMAIN worker[w].outbox /\ i \in Nat \ {0}
        /\ worker'[w].outbox[i] = worker[w].outbox[i + 1]
    BY PublishMoves
  <2>2. PICK n : n = worker[w].outbox[i + 1] /\ Reports(n, t, p, c)'
    BY <1>3, <2>1 DEF Reports
  <2>3. MessageOK(tokens, n)
    BY <1>1, <2>1, <2>2 DEF IInv, WorkersInv, WorkerOK
  <2> QED BY <1>1, <2>1, <2>2, <2>3, ReportsSame
<1>4. \A i, j \in DOMAIN worker[w].outbox :
          /\ Reports(worker[w].outbox[i], t, p, c)
          /\ Reports(worker[w].outbox[j], t, p, c)
          => i = j
  BY <1>1 DEF ReportedOnce, At
<1>5. MessageOK(tokens, m)
  BY <1>1, <1>2 DEF IInv, WorkersInv, WorkerOK
<1>6. PICK a : a = <<"outbox", w>>
  OBVIOUS
<1>7. ASSUME Reports(m, t, p, c)
      PROVE  a \in Reporters(t, p, c) /\ a \notin Reporters(t, p, c)'
  <2>1. Sends(worker[w], t, p, c)
    BY <1>1, <1>2, <1>7 DEF Sends
  <2>2. ~Sends(worker[w], t, p, c)'
    <3>1. ASSUME NEW i \in DOMAIN worker'[w].outbox, Reports(worker[w].outbox[i], t, p, c)'
          PROVE  FALSE
      <4>1. i + 1 = 1 /\ i \in Nat \ {0}
        BY <1>2, <1>3, <1>4, <1>7, <3>1
      <4> QED BY <4>1
    <3> QED BY <3>1 DEF Sends
  <2> QED BY <1>6, <2>1, <2>2, ReporterIs DEF Reporters
<1>8. ASSUME <<"worker", w>> \in Reporters(t, p, c)'
      PROVE  <<"worker", w>> \in Reporters(t, p, c)
  <2>1. Bears(worker'[w]) /\ Reports(worker[w].msg, t, p, c)'
    BY <1>8 DEF Reporters
  <2>2. PICK n : n = worker[w].msg /\ Reports(n, t, p, c)'
    BY <1>1, <2>1 DEF Reports
  <2>3. MessageOK(tokens, n) /\ Bears(worker[w])
    BY <1>1, <2>1, <2>2 DEF IInv, WorkersInv, WorkerOK, Bears
  <2> QED BY <1>1, <2>2, <2>3, ReportsSame, ReporterIs
<1>9. ASSUME <<"outbox", w>> \in Reporters(t, p, c)'
      PROVE  <<"outbox", w>> \in Reporters(t, p, c)
  <2>1. PICK i \in DOMAIN worker'[w].outbox : Reports(worker[w].outbox[i], t, p, c)'
    BY <1>9 DEF Reporters, Sends
  <2>2. Sends(worker[w], t, p, c)
    BY <1>1, <1>3, <2>1 DEF Sends
  <2> QED BY <2>2, ReporterIs
<1>10. ASSUME NEW i \in DOMAIN worker'[w].outbox, NEW j \in DOMAIN worker'[w].outbox,
              Reports(worker[w].outbox[i], t, p, c)', Reports(worker[w].outbox[j], t, p, c)'
       PROVE  i = j
  <2>1. i + 1 = j + 1 /\ i \in Nat /\ j \in Nat
    BY <1>3, <1>4, <1>10
  <2> QED BY <2>1
<1>11. a # <<"queue", m>>
  BY <1>6
<1>12. \A x \in {<<"worker", w>>, <<"outbox", w>>} :
          x \in Reporters(t, p, c)' => x \in Reporters(t, p, c)
  BY <1>8, <1>9
<1> QED BY <1>1, <1>2, <1>5, <1>7, <1>10, <1>11, <1>12, QueuedReports

\* What the process that dies was told is in the queue again, and only there.
LEMMA CrashReports ==
    ASSUME PutsOnce, NotifiesOnce, IInv, NEW w \in Workers, Crash(w),
           NEW t, NEW p, NEW c, ReportedOnce(t, p, c)
    PROVE  ReportStays(t, p, c)
<1>1. PICK m \in Messages : m = Message(w) /\ MessageOK(tokens, m)
  BY HandledMessage DEF Crash, IInv
<1>2. /\ \A v \in Workers : v # w => worker'[v] = worker[v]
      /\ worker'[w].pc = "idle" /\ worker[w].pc # "idle"
      /\ queue' = [queue EXCEPT ![m] = @ + 1]
      /\ tokens' = tokens
      /\ <<m.type, worker[w].pc>> \in CrashAt
  BY <1>1 DEF Crash, IInv, TypeOK, objectVars, Idle, At
<1>3. Grow
  BY <1>2, SameTokensGrow
<1>4. Bears(worker[w]) /\ worker[w].msg = m
  <2>1. CASE m.type = "notify_transition"
    BY <1>1, <1>2, <2>1 DEF Bears, Message
  <2>2. CASE m.type # "notify_transition"
    <3>1. m.type \in {"create_token", "notify_place"}
      BY <2>2, MessageTypes
    <3>2. worker[w].pc \notin {"consume", "fire", "counted", "push"}
      BY <1>1, <2>2, Notification DEF Message, NotifyTransitionMessage
    <3>3. worker[w].pc # "publish"
      BY <1>2, <3>1 DEF PutsOnce, NotifiesOnce
    <3>4. worker[w].pc \in {"create", "put", "read"}
      BY <1>2, <3>2, <3>3 DEF IInv, TypeOK, Worker
    <3> QED BY <1>1, <3>4 DEF Bears, Message
  <2> QED BY <2>1, <2>2
<1>5. PICK a : a = <<"worker", w>>
  OBVIOUS
<1>6. /\ <<"worker", w>> \notin Reporters(t, p, c)'
      /\ <<"outbox", w>> \notin Reporters(t, p, c)'
  BY <1>2 DEF Reporters, Bears, Sends
<1>7. Reports(m, t, p, c) => a \in Reporters(t, p, c) /\ a \notin Reporters(t, p, c)'
  BY <1>4, <1>5, <1>6, ReporterIs
<1>8. a # <<"queue", m>>
  BY <1>5
<1>9. worker'[w].pc # "publish"
  BY <1>2
<1> QED BY <1>1, <1>2, <1>3, <1>6, <1>7, <1>8, <1>9, QueuedReports

\* notify_place makes one message for each arc, of the token it found.
LEMMA NotifyPlaceMoves ==
    ASSUME IInv, NEW w \in Workers, NotifyPlace(w), NEW m, m = Message(w)
    PROVE  /\ Grow
           /\ \A v \in Workers : v # w => worker'[v] = worker[v]
           /\ queue' = queue
           /\ worker[w].pc = "read" /\ worker'[w].pc = "publish"
           /\ worker'[w].msg = m
           /\ m \in Messages /\ m.place \in Places /\ m.color \in Colors
           /\ \A i \in DOMAIN worker'[w].outbox :
                 /\ i \in DOMAIN PlaceArcsOut[m.place]
                 /\ worker'[w].outbox[i].type = "notify_transition"
                 /\ worker'[w].outbox[i].transition = PlaceArcsOut[m.place][i]
                 /\ worker'[w].outbox[i].place = m.place
                 /\ tokens'[worker'[w].outbox[i].token].color = m.color
<1>1. PICK token, arcs, out :
          /\ token = color_marking[<<m.color, m.place>>]
          /\ arcs = PlaceArcsOut[m.place]
          /\ out = IF token = NoToken THEN <<>>
                   ELSE [i \in DOMAIN arcs |->
                            [type |-> "notify_transition", transition |-> arcs[i],
                             place |-> m.place, token |-> token]]
  OBVIOUS
<1>2. /\ m.place \in Places /\ m.color \in Colors /\ worker[w].pc = "read"
      /\ m \in Messages
  BY DEF IInv, WorkersInv, WorkerOK, NotifyPlace, At, Message
<1>3. PublishAll(w, out) /\ queue' = queue /\ tokens' = tokens
  BY <1>1 DEF NotifyPlace, brokerVars
<1>4. /\ \A v \in Workers : v # w => worker'[v] = worker[v]
      /\ worker'[w].pc = "publish" /\ worker'[w].msg = m
      /\ worker'[w].outbox = out
  BY <1>3 DEF PublishAll, IInv, TypeOK, Worker, Message
<1>5. \A i \in DOMAIN out :
          /\ token # NoToken /\ i \in DOMAIN arcs
          /\ out[i].type = "notify_transition" /\ out[i].transition = arcs[i]
          /\ out[i].place = m.place /\ out[i].token = token
  BY <1>1
<1>6. token # NoToken => tokens'[token].color = m.color
  BY <1>1, <1>2, <1>3 DEF IInv, MarkInv
<1> QED BY <1>1, <1>2, <1>3, <1>4, <1>5, <1>6, SameTokensGrow

\* A process that was told of a token tells each transition of its place once.
LEMMA NotifyPlaceReports ==
    ASSUME ArcsOnce, IInv, NEW w \in Workers, NotifyPlace(w),
           Message(w).type # "notify_transition",
           NEW t, NEW p, NEW c, ReportedOnce(t, p, c)
    PROVE  ReportStays(t, p, c)
<1>1. PICK m : m = Message(w)
  OBVIOUS
<1>2. /\ Grow
      /\ \A v \in Workers : v # w => worker'[v] = worker[v]
      /\ queue' = queue
      /\ worker[w].pc = "read" /\ worker'[w].pc = "publish"
      /\ worker'[w].msg = m
      /\ m \in Messages /\ m.place \in Places
      /\ m.type \in {"notify_place", "create_token"}
  BY <1>1, NotifyPlaceMoves, MessageTypes
<1>3. ASSUME NEW i \in DOMAIN worker'[w].outbox, Reports(worker[w].outbox[i], t, p, c)'
      PROVE  /\ i \in DOMAIN PlaceArcsOut[m.place] /\ PlaceArcsOut[m.place][i] = t
             /\ m.place = p /\ m.color = c
  BY <1>1, <1>3, NotifyPlaceMoves DEF Reports
<1>4. PICK a, b : a = <<"worker", w>> /\ b = <<"outbox", w>>
  OBVIOUS
<1>5. a \notin Reporters(t, p, c)'
  BY <1>2, <1>4 DEF Reporters, Bears
<1>6. b \in Reporters(t, p, c)' => a \in Reporters(t, p, c)
  <2>1. SUFFICES ASSUME b \in Reporters(t, p, c)'
                 PROVE  a \in Reporters(t, p, c)
    OBVIOUS
  <2>2. PICK i \in DOMAIN worker'[w].outbox : Reports(worker[w].outbox[i], t, p, c)'
    BY <1>4, <2>1 DEF Reporters, Sends
  <2>3. Reports(m, t, p, c)
    BY <1>2, <1>3, <2>2 DEF Reports
  <2> QED BY <1>1, <1>2, <1>4, <2>3, ReporterIs DEF Bears, Message
<1>7. ASSUME NEW x \in Reporters(t, p, c)', x # b
      PROVE  x \in Reporters(t, p, c)
  BY <1>2, <1>4, <1>5, <1>7, ReportersFrame
<1>8. \A n \in Messages : queue'[n] > 1 => ~Reports(n, t, p, c)'
  <2>1. ASSUME NEW n \in Messages, queue[n] > 1
        PROVE  ~Reports(n, t, p, c)'
    <3>1. queue[n] > 0
      BY <2>1 DEF IInv, TypeOK
    <3> QED BY <1>2, <2>1, <3>1, ReportsSame DEF ReportedOnce, IInv, QueueInv
  <2> QED BY <1>2, <2>1
<1>9. \A i, j \in DOMAIN worker'[w].outbox :
          /\ Reports(worker[w].outbox[i], t, p, c)'
          /\ Reports(worker[w].outbox[j], t, p, c)'
          => i = j
  BY <1>2, <1>3 DEF ArcsOnce
<1> QED BY <1>2, <1>5, <1>6, <1>7, <1>8, <1>9, ReportMoves

\* Who executes an action goes on with it, or raises.
LEMMA FireMoves ==
    ASSUME IInv, IInv', NEW w \in Workers, Fire(w) \/ PushFails(w)
    PROVE  /\ Fired(w) /\ Grow
           /\ worker'[w].pc # "idle" => worker'[w].msg = worker[w].msg
<1>1. Fired(w) /\ Grow
  BY FireGrows, SimpleFire, SameTokensGrow
<1>2. \/ Fail(w)
      \/ \E new : Executed(w, new)
      \/ \E count : worker' = [worker EXCEPT ![w].pc = "counted", ![w].count = count]
  BY DEF Fire, FireCount, FireHeadFails, FireSingle, FireMerge, FireRemoveData,
     FireRecordTime, FireSplit, FireJoin, FireExpire, FireNotImplemented, PushFails
<1>3. worker'[w].pc # "idle" => worker'[w].msg = worker[w].msg
  <2>1. CASE Fail(w)
    BY <2>1, FailMoves DEF IInv
  <2>2. CASE \E new : Executed(w, new)
    BY <2>2, ExecutedGives
  <2>3. CASE \E count : worker' = [worker EXCEPT ![w].pc = "counted", ![w].count = count]
    BY <2>3 DEF IInv, TypeOK, Worker
  <2> QED BY <1>2, <2>1, <2>2, <2>3
<1> QED BY <1>1, <1>3

\* The steps that tell nobody of anything.
LEMMA QuietSteps ==
    ASSUME IInv, IInv', NEW w \in Workers,
           \/ CreateToken(w) \/ PutToken(w) \/ PutTokenFails(w) \/ ConsumeTokens(w)
           \/ Fire(w) \/ PushFails(w) \/ Ack(w)
    PROVE  Grow /\ Quiet(w)
<1>1. CASE Fire(w) \/ PushFails(w)
  BY <1>1, FireMoves DEF Fired, Quiet
<1>2. CASE ConsumeTokens(w)
  <2>1. PublishAll(w, <<>>) \/ Goto(w, "fire")
    BY <1>2 DEF ConsumeTokens, ConsumeRemaining, ConsumeWaiting, ConsumeEnabledByOther,
       ConsumeAlreadyActive, ConsumeIncomplete, ConsumeEnabled
  <2>2. worker'[w].msg = worker[w].msg
    BY <2>1 DEF PublishAll, Goto, IInv, TypeOK, Worker
  <2> QED BY <1>2, <2>2, ConsumeFacts, SameTokensGrow DEF Quiet, At
<1>3. CASE CreateToken(w) \/ PutToken(w) \/ PutTokenFails(w) \/ Ack(w)
  <2>1. Grow
    BY <1>3, OtherMoves
  <2>2. queue' = queue
    BY <1>3 DEF CreateToken, PutToken, PutTokenFails, Ack, Fail, brokerVars
  <2>3. \/ /\ \E new : worker' = [worker EXCEPT ![w].pc = "put", ![w].new = new]
           /\ worker[w].pc = "create"
        \/ Goto(w, "read") /\ worker[w].pc = "put"
        \/ worker' = [worker EXCEPT ![w] = Idle]
    BY <1>3 DEF CreateToken, PutToken, PutTokenFails, Ack, Fail, At
  <2>4. worker \in [Workers -> Worker] /\ Idle.pc = "idle"
    BY DEF IInv, TypeOK, Idle
  <2>5. CASE \/ /\ \E new : worker' = [worker EXCEPT ![w].pc = "put", ![w].new = new]
                /\ worker[w].pc = "create"
             \/ Goto(w, "read") /\ worker[w].pc = "put"
    BY <2>1, <2>2, <2>4, <2>5 DEF Quiet, Goto, Worker
  <2>6. CASE worker' = [worker EXCEPT ![w] = Idle]
    BY <2>1, <2>2, <2>4, <2>6 DEF Quiet
  <2> QED BY <2>3, <2>5, <2>6
<1> QED BY <1>1, <1>2, <1>3

-----------------------------------------------------------------------------
(* push_tokens tells of tokens that nobody tells of yet.                   *)

\* The push script's messages are of distinct places, with tokens that are new.
LEMMA PushMoves ==
    ASSUME WellNested, RInv, NewOnce, NEW w \in Workers, PushTokens(w), Active(w) # {},
           NEW t, t = Message(w).transition
    PROVE  /\ Grow /\ queue' = queue
           /\ \A v \in Workers : v # w => worker'[v] = worker[v]
           /\ worker[w].pc = "push" /\ worker'[w].pc = "publish"
           /\ worker'[w].msg = worker[w].msg
           /\ \A i \in DOMAIN worker'[w].outbox :
                 LET m == worker'[w].outbox[i] IN
                 /\ m.type = "notify_place"
                 /\ m.color \in NewColors(w) /\ m.place \in ToSet(ArcsOut[t])
           /\ \A i, j \in DOMAIN worker'[w].outbox :
                 /\ worker'[w].outbox[i].place = worker'[w].outbox[j].place
                 /\ worker'[w].outbox[i].color = worker'[w].outbox[j].color
                 => i = j
<1> USE DEF RInv
<1>1. PICK new, puts, msgs :
          /\ new = worker[w].new /\ puts = WorkerPuts(w)
          /\ msgs = [k \in DOMAIN puts |->
                        [type |-> "notify_place", place |-> puts[k].place,
                         color |-> tokens[puts[k].token].color]]
  OBVIOUS
<1>2. /\ worker[w].pc = "push" /\ Pushing(w)
      /\ PublishAll(w, msgs) /\ queue' = queue /\ tokens' = tokens
  BY <1>1 DEF PushTokens, At, Pushing, PlaceNotifications, WorkerPuts, brokerVars, objectVars
<1>3. /\ \A v \in Workers : v # w => worker'[v] = worker[v]
      /\ worker'[w].pc = "publish" /\ worker'[w].msg = worker[w].msg
      /\ worker'[w].outbox = msgs
  BY <1>2 DEF PublishAll, IInv, TypeOK, Worker
<1>4. t \in Transitions /\ ArcsOut[t] \in Seq(Places) /\ new \in Seq(TokenIdxs)
  BY <1>1, <1>2, ActiveTakes DEF IInv, TypeOK, Worker, At
<1>5. {PutCell(puts[k]) : k \in DOMAIN puts} = NewColors(w) \X ToSet(ArcsOut[t])
  BY <1>1, <1>4, PutsCover DEF WorkerPuts, NewColors
<1>6. ASSUME NEW k \in DOMAIN msgs
      PROVE  /\ k \in DOMAIN puts /\ msgs[k].type = "notify_place"
             /\ PutCell(puts[k]) = <<msgs[k].color, msgs[k].place>>
             /\ msgs[k].color \in NewColors(w) /\ msgs[k].place \in ToSet(ArcsOut[t])
  <2>1. k \in DOMAIN puts /\ msgs[k].type = "notify_place"
        /\ PutCell(puts[k]) = <<msgs[k].color, msgs[k].place>>
    BY <1>1, <1>6 DEF PutCell
  <2>2. PutCell(puts[k]) \in NewColors(w) \X ToSet(ArcsOut[t])
    BY <1>5, <2>1
  <2> QED BY <2>1, <2>2
<1>7. \A j, k \in DOMAIN msgs :
          msgs[j].place = msgs[k].place /\ msgs[j].color = msgs[k].color => j = k
  BY <1>1, <1>2, <1>6, PutsDiffer
<1> QED BY <1>2, <1>3, <1>6, <1>7, SameTokensGrow

\* What is reported did not come yet, or is past: a machine has no room for it.
LEMMA UnreportedFits ==
    ASSUME WellNested, ReportsTrue, deposited' = deposited,
           NEW t \in Transitions, NEW p \in Places, NEW c \in Colors, NEW O, p \in O,
           \A K \in Machines : p \in K => Fits(K, c, O)
    PROVE  Reporters(t, p, c) = {}
<1>1. PICK K \in Machines : p \in K
  BY DEF WellNested
<1>2. Fits(K, c, O) /\ Rank[p] \in Nat /\ K \subseteq Places
  BY <1>1 DEF WellNested
<1>3. ~Asked(p, c)
  BY <1>1, <1>2 DEF Asked, Fits
<1>4. ~Arrived(K, p, c)
  <2>1. ASSUME NEW u \in Transitions, Taken(u, K, c),
               NEW q \in InputsIn(u, K), Rank[p] <= Rank[q]
        PROVE  FALSE
    <3>1. Rank[q] < Rank[p] /\ Rank[q] \in Nat
      BY <1>1, <1>2, <2>1 DEF Fits, InputsIn, WellNested
    <3> QED BY <1>2, <2>1, <3>1
  <2> QED BY <1>2, <2>1 DEF Arrived, Fits
<1> QED BY <1>1, <1>3, <1>4 DEF ReportsTrue

\* What is pushed was not reported before: its color comes to its place now.
LEMMA PushReports ==
    ASSUME WellNested, RInv, NewOnce, ShapeInv, ReportsTrue,
           NEW w \in Workers, PushTokens(w), Active(w) # {},
           NEW t \in Transitions, NEW p \in Places, NEW c \in Colors, ReportedOnce(t, p, c)
    PROVE  /\ ReportedOnce(t, p, c)'
           /\ Reporters(t, p, c)' # {} => Reporters(t, p, c) # {} \/ Marked(c, p)'
<1> USE DEF RInv
<1>1. PICK u, D, O : /\ u = Message(w).transition
                     /\ D = NewColors(w) /\ O = ToSet(ArcsOut[u])
  OBVIOUS
<1>2. /\ Grow /\ queue' = queue
      /\ \A v \in Workers : v # w => worker'[v] = worker[v]
      /\ worker[w].pc = "push" /\ worker'[w].pc = "publish"
      /\ worker'[w].msg = worker[w].msg
  BY PushMoves
<1>3. ASSUME NEW i \in DOMAIN worker'[w].outbox, Reports(worker[w].outbox[i], t, p, c)'
      PROVE  /\ worker'[w].outbox[i].place = p /\ worker'[w].outbox[i].color = c
             /\ p \in O /\ c \in D
  BY <1>1, <1>3, PushMoves DEF Reports
<1>4. \A i, j \in DOMAIN worker'[w].outbox :
          /\ Reports(worker[w].outbox[i], t, p, c)'
          /\ Reports(worker[w].outbox[j], t, p, c)'
          => i = j
  BY <1>3, PushMoves
<1>5. \A n \in Messages : queue'[n] > 1 => ~Reports(n, t, p, c)'
  <2>1. ASSUME NEW n \in Messages, queue[n] > 1
        PROVE  ~Reports(n, t, p, c)'
    <3>1. queue[n] > 0
      BY <2>1 DEF IInv, TypeOK
    <3> QED BY <1>2, <2>1, <3>1, ReportsSame DEF ReportedOnce, IInv, QueueInv
  <2> QED BY <1>2, <2>1
<1>6. ASSUME NEW x \in Reporters(t, p, c)', x # <<"outbox", w>>
      PROVE  x \in Reporters(t, p, c)
  <2>1. CASE x # <<"worker", w>>
    BY <1>2, <1>6, <2>1, ReportersFrame
  <2>2. CASE x = <<"worker", w>>
    <3>1. Bears(worker'[w]) /\ Reports(worker[w].msg, t, p, c)'
      BY <1>6, <2>2 DEF Reporters
    <3>2. PICK n : n = worker[w].msg /\ Reports(n, t, p, c)'
      BY <1>2, <3>1 DEF Reports
    <3>3. MessageOK(tokens, n) /\ Bears(worker[w])
      BY <1>2, <3>1, <3>2 DEF IInv, WorkersInv, WorkerOK, Bears
    <3> QED BY <1>2, <2>2, <3>2, <3>3, ReportsSame, ReporterIs
  <2> QED BY <2>1, <2>2
<1>7. PICK b : b = <<"outbox", w>>
  OBVIOUS
<1>8. b \in Reporters(t, p, c)' => p \in O /\ c \in D
  BY <1>3, <1>7 DEF Reporters, Sends
<1>9. CASE p \in O /\ c \in D
  <2>1. Reporters(t, p, c) = {}
    <3>1. \A K \in Machines : p \in K => Fits(K, c, O)
      BY <1>1, <1>9, PushFits
    <3>2. deposited' = deposited
      BY DEF PushTokens
    <3> QED BY <1>9, <3>1, <3>2, UnreportedFits
  <2>2. \A x, y \in Reporters(t, p, c)' : x = y
    BY <1>6, <2>1
  <2>3. ASSUME NEW v \in Workers, worker'[v].pc = "publish",
               NEW i \in DOMAIN worker'[v].outbox, NEW j \in DOMAIN worker'[v].outbox,
               Reports(worker[v].outbox[i], t, p, c)',
               Reports(worker[v].outbox[j], t, p, c)'
        PROVE  i = j
    <3>1. CASE v = w
      BY <1>4, <2>3, <3>1
    <3>2. CASE v # w
      <4>1. <<"outbox", v>> \in Reporters(t, p, c)'
        BY <2>3 DEF Reporters, Sends
      <4>2. <<"outbox", v>> # <<"outbox", w>>
        BY <3>2
      <4> QED BY <1>6, <2>1, <4>1, <4>2
    <3> QED BY <3>1, <3>2
  <2>4. ReportedOnce(t, p, c)'
    BY <1>5, <2>2, <2>3 DEF ReportedOnce, At
  <2>5. Marked(c, p)'
    <3>1. Marks(D, O)
      BY <1>1, PushMarks
    <3> QED BY <1>9, <3>1 DEF Marks
  <2> QED BY <2>4, <2>5
<1>10. CASE ~(p \in O /\ c \in D)
  <2>1. ReportStays(t, p, c)
    BY <1>2, <1>4, <1>5, <1>6, <1>7, <1>8, <1>10, ReportMoves
  <2> QED BY <2>1 DEF ReportStays
<1> QED BY <1>9, <1>10

-----------------------------------------------------------------------------
(* Who reports what, after every step.                                     *)

\* No step makes a second report, and what is reported anew is there.
LEMMA StepReports ==
    ASSUME WellNested, PutsOnce, NotifiesOnce, ArcsOnce, SInv, IInv', Next,
           NEW t \in Transitions, NEW p \in Places, NEW c \in Colors
    PROVE  /\ ReportedOnce(t, p, c)'
           /\ Reporters(t, p, c)' # {} => Reporters(t, p, c) # {} \/ Marked(c, p)'
<1> USE DEF SInv, NestInv, RInv
<1>1. ReportedOnce(t, p, c)
  BY DEF OneReport
<1>2. PICK w \in Workers : Receive(w) \/ Handle(w) \/ Crash(w)
  BY DEF Next
<1>3. CASE Receive(w)
  BY <1>1, <1>3, ReceiveReports DEF ReportStays
<1>4. CASE Crash(w)
  BY <1>1, <1>4, CrashReports DEF ReportStays
<1>5. CASE Publish(w)
  BY <1>1, <1>5, PublishReports DEF ReportStays
<1>6. CASE NotifyPlace(w)
  <2>1. Message(w).type # "notify_transition"
    BY <1>6 DEF NotifyPlace, ExecutorInv, ExecutorOK
  <2> QED BY <1>1, <1>6, <2>1, NotifyPlaceReports DEF ReportStays
<1>7. CASE PushTokens(w)
  <2>1. Active(w) # {}
    BY <1>7 DEF PushTokens, At, ExecutorInv, ExecutorOK
  <2> QED BY <1>1, <1>7, <2>1, PushReports
<1>8. CASE \/ CreateToken(w) \/ PutToken(w) \/ PutTokenFails(w) \/ ConsumeTokens(w)
           \/ Fire(w) \/ PushFails(w) \/ Ack(w)
  BY <1>1, <1>8, QuietSteps, QuietReports DEF ReportStays
<1> QED BY <1>2, <1>3, <1>4, <1>5, <1>6, <1>7, <1>8 DEF Handle

\* No transition is told of a place that is not its own.
LEMMA ToldKept ==
    ASSUME InputsTold, NEW w \in Workers,
           \A v \in Workers : v # w => worker'[v] = worker[v],
           \A m \in NotifyTransitionMessage : queue'[m] > 0 => Underway(m),
           NEW m \in NotifyTransitionMessage, Underway(m)',
           worker'[w].pc # "idle" /\ worker'[w].msg = m => Underway(m),
           worker'[w].pc = "publish" =>
              \A i \in DOMAIN worker'[w].outbox : worker'[w].outbox[i] = m =>
                 Underway(m) \/ m.place \in ArcsIn[m.transition]
    PROVE  m.place \in ArcsIn[m.transition]
<1>1. CASE queue'[m] > 0
  BY <1>1 DEF InputsTold
<1>2. ASSUME NEW v \in Workers, worker'[v].pc # "idle", worker'[v].msg = m
      PROVE  m.place \in ArcsIn[m.transition]
  BY <1>2 DEF InputsTold, Underway, At, Message
<1>3. ASSUME NEW v \in Workers, worker'[v].pc = "publish",
             NEW i \in DOMAIN worker'[v].outbox, worker'[v].outbox[i] = m
      PROVE  m.place \in ArcsIn[m.transition]
  BY <1>3 DEF InputsTold, Underway, At
<1> QED BY <1>1, <1>2, <1>3 DEF Underway, At, Message

\* No step tells a transition of a place that is not its input.
LEMMA StepTellsInputs ==
    ASSUME WellNested, SInv, IInv', Next
    PROVE  InputsTold'
<1> USE DEF SInv, NestInv, RInv
<1>1. PICK w \in Workers : Receive(w) \/ Handle(w) \/ Crash(w)
  BY DEF Next
<1>2. SUFFICES ASSUME NEW m \in NotifyTransitionMessage, Underway(m)'
               PROVE  m.place \in ArcsIn[m.transition]
  BY DEF InputsTold
<1>3. /\ queue \in [Messages -> Nat] /\ worker \in [Workers -> Worker]
      /\ \A n \in NotifyTransitionMessage : n \in Messages
  BY DEF IInv, TypeOK, Messages
<1>4. CASE Receive(w)
  <2>1. PICK n \in Messages :
            /\ queue[n] > 0
            /\ queue' = [queue EXCEPT ![n] = @ - 1]
            /\ worker' = [worker EXCEPT ![w].pc = FirstStep[n.type], ![w].msg = n]
    BY <1>4 DEF Receive
  <2>2. /\ \A v \in Workers : v # w => worker'[v] = worker[v]
        /\ worker'[w].msg = n /\ worker'[w].pc # "publish"
    BY <1>3, <2>1, MessageTypes DEF FirstStep, Worker
  <2>3. \A k \in Messages : queue'[k] > 0 => queue[k] > 0
    BY <1>3, <2>1
  <2>4. \A k \in NotifyTransitionMessage : queue'[k] > 0 => Underway(k)
    BY <1>3, <2>3 DEF Underway
  <2>5. worker'[w].msg = m => Underway(m)
    BY <2>1, <2>2 DEF Underway
  <2> QED BY <1>2, <2>2, <2>4, <2>5, ToldKept
<1>5. CASE Crash(w)
  <2>1. /\ ~At(w, "idle") /\ Message(w) \in Messages
        /\ \A k \in Messages : k # Message(w) => queue'[k] = queue[k]
        /\ \A v \in Workers : v # w => worker'[v] = worker[v]
        /\ worker'[w].pc = "idle"
    <3>1. ~At(w, "idle") /\ Message(w) \in Messages
      BY <1>5, HandledMessage DEF Crash, IInv
    <3>2. /\ queue' = [queue EXCEPT ![Message(w)] = @ + 1]
          /\ worker' = [worker EXCEPT ![w] = Idle]
      BY <1>5 DEF Crash
    <3> QED BY <1>3, <3>1, <3>2 DEF Idle
  <2>2. \A k \in NotifyTransitionMessage : queue'[k] > 0 => Underway(k)
    BY <1>3, <2>1 DEF Underway
  <2> QED BY <1>2, <2>1, <2>2, ToldKept
<1>6. CASE Publish(w)
  <2>1. /\ \A v \in Workers : v # w => worker'[v] = worker[v]
        /\ worker[w].pc = "publish" /\ worker'[w].pc = "publish"
        /\ worker'[w].msg = worker[w].msg
    BY <1>6, PublishMoves
  <2>2. PICK n \in Messages :
            /\ queue' = [queue EXCEPT ![n] = @ + 1]
            /\ 1 \in DOMAIN worker[w].outbox /\ n = worker[w].outbox[1]
    BY <1>6, PublishMoves
  <2>3. \A k \in NotifyTransitionMessage : queue'[k] > 0 => Underway(k)
    <3>1. ASSUME NEW k \in NotifyTransitionMessage, queue'[k] > 0
          PROVE  Underway(k)
      <4>1. CASE k = n
        BY <2>1, <2>2, <4>1 DEF Underway, At
      <4>2. CASE k # n
        BY <1>3, <2>2, <3>1, <4>2 DEF Underway
      <4> QED BY <4>1, <4>2
    <3> QED BY <3>1
  <2>3a. worker'[w].msg = m => Underway(m)
    BY <2>1 DEF Underway, At, Message
  <2>4. \A i \in DOMAIN worker'[w].outbox : worker'[w].outbox[i] = m => Underway(m)
    <3>1. \A i \in DOMAIN worker'[w].outbox :
              /\ i + 1 \in DOMAIN worker[w].outbox
              /\ worker'[w].outbox[i] = worker[w].outbox[i + 1]
      BY <1>6, PublishMoves
    <3> QED BY <2>1, <3>1 DEF Underway, At
  <2> QED BY <1>2, <2>1, <2>3, <2>3a, <2>4, ToldKept
<1>7. CASE ~Receive(w) /\ ~Crash(w) /\ ~Publish(w)
  <2>1. /\ \A v \in Workers : v # w => worker'[v] = worker[v]
        /\ queue' = queue
        /\ worker'[w].pc # "idle" => worker[w].pc # "idle" /\ worker'[w].msg = worker[w].msg
        /\ worker'[w].pc = "publish" => \A i \in DOMAIN worker'[w].outbox :
              worker'[w].outbox[i] = m => m.place \in ArcsIn[m.transition]
    <3>1. CASE NotifyPlace(w)
      <4>1. PICK n : n = Message(w)
        OBVIOUS
      <4>2. /\ \A v \in Workers : v # w => worker'[v] = worker[v]
            /\ queue' = queue
            /\ worker[w].pc # "idle" /\ worker'[w].msg = worker[w].msg
            /\ n.place \in Places
        BY <3>1, <4>1, NotifyPlaceMoves DEF Message
      <4>3. ASSUME NEW i \in DOMAIN worker'[w].outbox, worker'[w].outbox[i] = m
            PROVE  m.place \in ArcsIn[m.transition]
        <5>1. /\ i \in DOMAIN PlaceArcsOut[n.place]
              /\ m.transition = PlaceArcsOut[n.place][i] /\ m.place = n.place
          BY <3>1, <4>1, <4>3, NotifyPlaceMoves
        <5>2. m.transition \in Transitions
          BY DEF NotifyTransitionMessage
        <5> QED BY <4>2, <5>1, <5>2, NetAssumption
      <4> QED BY <4>2, <4>3
    <3>2. CASE PushTokens(w)
      <4>1. Active(w) # {}
        BY <3>2 DEF PushTokens, At, ExecutorInv, ExecutorOK
      <4>2. /\ \A v \in Workers : v # w => worker'[v] = worker[v]
            /\ queue' = queue
            /\ worker[w].pc # "idle" /\ worker'[w].msg = worker[w].msg
        BY <3>2, <4>1, PushMoves
      <4>3. \A i \in DOMAIN worker'[w].outbox : worker'[w].outbox[i].type = "notify_place"
        BY <3>2, <4>1, PushMoves
      <4>4. m.type # "notify_place"
        BY DEF NotifyTransitionMessage
      <4> QED BY <4>2, <4>3, <4>4
    <3>3. CASE ~NotifyPlace(w) /\ ~PushTokens(w)
      <4>1. Quiet(w)
        BY <1>1, <1>7, <3>3, QuietSteps DEF Handle
      <4> QED BY <4>1 DEF Quiet
    <3> QED BY <3>1, <3>2, <3>3
  <2>2. \A k \in NotifyTransitionMessage : queue'[k] > 0 => Underway(k)
    BY <2>1 DEF Underway
  <2>3. worker'[w].pc # "idle" /\ worker'[w].msg = m => Underway(m)
    BY <2>1 DEF Underway, At, Message
  <2> QED BY <1>2, <2>1, <2>2, <2>3, ToldKept
<1> QED BY <1>4, <1>5, <1>6, <1>7

-----------------------------------------------------------------------------
(* What is reported is there, was there, or is asked for.                  *)

\* The colors a step takes were taken by a transition that it enabled, and a client's
\* color is marked when it is deposited.
Follows ==
    /\ GroupsGrow
    /\ \A t \in Transitions, tag \in Tags : Enabled(t, tag) => Enabled(t, tag)'
    /\ \A c \in Colors, p \in Places : Marked(c, p) =>
          \/ Marked(c, p)'
          \/ \E t \in Transitions : \E tag \in LiveTags(t) :
                p \in ArcsIn[t] /\ c \in TagColors(t, tag) /\ Enabled(t, tag)'
    /\ \A c \in Colors, p \in Places :
          <<c, p>> \in deposited' => <<c, p>> \in deposited \/ Marked(c, p)'

\* Where nothing is put or taken, colors stay where they are.
LEMMA StillFollows ==
    ASSUME UNCHANGED <<color_marking, color_groups, enablers, deposited>>
    PROVE  Follows
BY SameGroupsGrow DEF Follows, Enabled, Marked

\* Putting tokens takes no color away.
LEMMA MarksFollow ==
    ASSUME WellNested, IInv, NEW D, NEW O, Marks(D, O),
           \A c \in Colors, p \in Places :
              <<c, p>> \in deposited' => <<c, p>> \in deposited \/ Marked(c, p)'
    PROVE  Follows
BY SameGroupsGrow DEF Follows, Marks, Enabled

\* What is taken is taken by the transition that is enabled for its tag.
LEMMA TakesFollow ==
    ASSUME WellNested, IInv, NEW t \in Transitions, NEW tag, TakesTag(t, tag, TagColors(t, tag))
    PROVE  Follows
<1>1. PICK C : C = TagColors(t, tag) /\ TakesTag(t, tag, C)
  OBVIOUS
<1>2. \A u \in Transitions, g \in Tags :
          Enabled(u, g)' <=> Enabled(u, g) \/ (u = t /\ g = tag)
  BY <1>1, TakesFacts
<1>3. tag \in LiveTags(t) /\ tag \in Tags /\ color_groups' = color_groups
      /\ deposited' = deposited
  BY <1>1, TakesFacts DEF TakesTag
<1>4. \A c \in Colors, p \in Places :
          Marked(c, p)' <=> Marked(c, p) /\ ~(c \in C /\ p \in ArcsIn[t])
  BY <1>1 DEF TakesTag
<1>5. ASSUME NEW c \in Colors, NEW p \in Places, Marked(c, p), ~Marked(c, p)'
      PROVE  \E u \in Transitions : \E g \in LiveTags(u) :
                p \in ArcsIn[u] /\ c \in TagColors(u, g) /\ Enabled(u, g)'
  BY <1>1, <1>2, <1>3, <1>4, <1>5
<1> QED BY <1>2, <1>3, <1>5, SameGroupsGrow DEF Follows

\* Colors leave places in no other way.
LEMMA StepFollows ==
    ASSUME WellNested, SInv, IInv', Next
    PROVE  Follows
<1> USE DEF SInv, NestInv, RInv
<1>1. PICK w \in Workers : Receive(w) \/ Handle(w) \/ Crash(w)
  BY DEF Next
<1>2. CASE \/ Receive(w) \/ Crash(w) \/ Publish(w) \/ Ack(w) \/ CreateToken(w)
           \/ PutTokenFails(w) \/ NotifyPlace(w) \/ PushFails(w)
  BY <1>2, StillFollows
     DEF Receive, Crash, Publish, Ack, CreateToken, PutTokenFails, NotifyPlace,
         PushFails, markingVars, objectVars, transitionVars
<1>3. CASE \/ FireCount(w) \/ FireHeadFails(w) \/ FireSingle(w) \/ FireMerge(w)
           \/ FireRemoveData(w) \/ FireRecordTime(w) \/ FireJoin(w) \/ FireExpire(w)
           \/ FireNotImplemented(w)
  BY <1>3, StillFollows
     DEF FireCount, FireHeadFails, FireSingle, FireMerge, FireRemoveData,
         FireRecordTime, FireJoin, FireExpire, FireNotImplemented, markingVars,
         objectVars, transitionVars
<1>4. CASE \/ ConsumeRemaining(w) \/ ConsumeWaiting(w) \/ ConsumeEnabledByOther(w)
           \/ ConsumeAlreadyActive(w) \/ ConsumeIncomplete(w)
  BY <1>4, StillFollows
     DEF ConsumeRemaining, ConsumeWaiting, ConsumeEnabledByOther,
         ConsumeAlreadyActive, ConsumeIncomplete, markingVars, objectVars,
         transitionVars
<1>5. CASE ConsumeEnabled(w)
  BY <1>5, ConsumeTakesTag, TakesFollow
<1>6. CASE FireSplit(w)
  <2>1. GroupsGrow
    BY <1>6, SplitGives, GroupAppended
  <2>2. UNCHANGED <<color_marking, enablers, deposited>>
    BY <1>6 DEF FireSplit, markingVars, transitionVars
  <2> QED BY <2>1, <2>2 DEF Follows, Enabled, Marked
<1>7. CASE PutToken(w)
  <2>1. PICK m, cell : m = Message(w) /\ cell = <<m.color, m.place>>
    OBVIOUS
  <2>2. /\ m \in Requests /\ m.place \in Places /\ m.color \in Colors
        /\ worker[w].new[1] # NoToken /\ cell \in Cells
    <3>1. worker[w].pc = "put" /\ m.place \in Places
      BY <1>7, <2>1 DEF PutToken, At
    <3>2. /\ m \in Requests /\ Len(worker[w].new) = 1 /\ worker[w].new \in Seq(TokenIdxs)
      BY <2>1, <3>1 DEF Message, IInv, WorkersInv, WorkerOK
    <3>3. worker[w].new[1] \in TokenIdxs
      BY <3>2, ElementOf
    <3> QED BY <2>1, <3>1, <3>2, <3>3, RequestTypes DEF NoToken, TokenIdxs, Cells
  <2>3. UNCHANGED <<color_groups, enablers>>
    BY <1>7 DEF PutToken, objectVars, transitionVars
  <2>4. CASE color_marking[cell] # NoToken
    BY <1>7, <2>1, <2>3, <2>4, StillFollows DEF PutToken, markingVars
  <2>5. CASE color_marking[cell] = NoToken
    <3>1. /\ color_marking' = [color_marking EXCEPT ![cell] = worker[w].new[1]]
          /\ deposited' = deposited \cup {cell}
      BY <1>7, <2>1, <2>5 DEF PutToken
    <3>2. color_marking \in [Cells -> TokenIdxs \cup {NoToken}]
      BY DEF IInv, TypeOK
    <3>3. ASSUME NEW c \in Colors, NEW p \in Places
          PROVE  /\ Marked(c, p) => Marked(c, p)'
                 /\ <<c, p>> \in deposited' => <<c, p>> \in deposited \/ Marked(c, p)'
      <4>1. <<c, p>> \in Cells
        BY DEF Cells
      <4> QED BY <2>2, <3>1, <3>2, <4>1 DEF Marked
    <3> QED BY <2>3, <3>3, SameGroupsGrow DEF Follows, Enabled
  <2> QED BY <2>4, <2>5
<1>8. CASE PushTokens(w)
  <2>1. PICK t, tag : t = Message(w).transition /\ tag = NotifiedTag(w)
    OBVIOUS
  <2>2. Active(w) # {}
    BY <1>8 DEF PushTokens, At, ExecutorInv, ExecutorOK
  <2>3. Marks(NewColors(w), ToSet(ArcsOut[t]))
    BY <1>8, <2>1, <2>2, PushMarks
  <2>4. deposited' = deposited
    BY <1>8 DEF PushTokens
  <2> QED BY <2>3, <2>4, MarksFollow
<1> QED
  BY <1>1, <1>2, <1>3, <1>4, <1>5, <1>6, <1>7, <1>8 DEF Handle, ConsumeTokens, Fire

\* A color that came to a place goes on to later ones only.
LEMMA ArrivedKept ==
    ASSUME WellNested, IInv, Follows, NEW K \in Machines, NEW p, NEW c \in Colors,
           Arrived(K, p, c)
    PROVE  Arrived(K, p, c)'
<1>0. GroupsGrow /\ K \subseteq Places
  BY DEF Follows, WellNested
<1>1. ASSUME NEW u \in Transitions, NEW tag \in LiveTags(u), Enabled(u, tag)',
             c \in TagColors(u, tag), NEW q \in InputsIn(u, K), Rank[p] <= Rank[q]
      PROVE  Arrived(K, p, c)'
  <2>1. tag \in LiveTags(u)' /\ c \in TagColors(u, tag)'
    BY <1>0, <1>1, TagKept
  <2>2. q \in InputsIn(u, K)' /\ InputsIn(u, K)' # {}
    BY <1>1 DEF InputsIn
  <2>3. Taken(u, K, c)'
    BY <1>1, <2>1, <2>2 DEF Taken
  <2> QED BY <1>1, <2>2, <2>3 DEF Arrived
<1>2. ASSUME NEW q \in K, Marked(c, q), Rank[p] <= Rank[q]
      PROVE  Arrived(K, p, c)'
  <2>1. CASE Marked(c, q)'
    BY <1>2, <2>1 DEF Arrived
  <2>2. CASE ~Marked(c, q)'
    <3>1. PICK u \in Transitions : \E tag \in LiveTags(u) :
              q \in ArcsIn[u] /\ c \in TagColors(u, tag) /\ Enabled(u, tag)'
      BY <1>0, <1>2, <2>2 DEF Follows
    <3> QED BY <1>1, <1>2, <3>1 DEF InputsIn
  <2> QED BY <2>1, <2>2
<1>3. ASSUME NEW u \in Transitions, Taken(u, K, c),
             NEW q \in InputsIn(u, K), Rank[p] <= Rank[q]
      PROVE  Arrived(K, p, c)'
  <2>1. PICK tag \in LiveTags(u) : Enabled(u, tag) /\ c \in TagColors(u, tag)
    BY <1>3 DEF Taken
  <2>2. Enabled(u, tag)'
    BY <2>1, LiveTag DEF Follows
  <2> QED BY <1>1, <1>3, <2>1, <2>2
<1> QED BY <1>2, <1>3 DEF Arrived

\* So what was reported is there, or was and went on.
LEMMA StepReportsTrue ==
    ASSUME WellNested, SInv, IInv', Next,
           \A t \in Transitions, p \in Places, c \in Colors :
              Reporters(t, p, c)' # {} => Reporters(t, p, c) # {} \/ Marked(c, p)'
    PROVE  ReportsTrue'
<1> USE DEF SInv, NestInv, RInv
<1>1. Follows
  BY StepFollows
<1>2. SUFFICES ASSUME NEW t \in Transitions, NEW p \in Places, NEW c \in Colors,
                      Reporters(t, p, c)' # {}
               PROVE  Asked(p, c)' \/ \A K \in Machines : p \in K => Arrived(K, p, c)'
  BY DEF ReportsTrue
<1>3. CASE Marked(c, p)'
  <2>1. Rank[p] <= Rank[p]
    <3>1. Rank[p] \in Nat
      BY DEF WellNested
    <3> QED BY <3>1
  <2> QED BY <1>3, <2>1 DEF Arrived
<1>4. CASE ~Marked(c, p)'
  <2>1. Asked(p, c) \/ \A K \in Machines : p \in K => Arrived(K, p, c)
    BY <1>2, <1>4 DEF ReportsTrue
  <2>2. Asked(p, c) => Asked(p, c)'
    BY <1>1, <1>4 DEF Asked, Follows
  <2> QED BY <1>1, <2>1, <2>2, ArrivedKept
<1> QED BY <1>3, <1>4

-----------------------------------------------------------------------------
(* Nobody executes an action for the same tokens as another.               *)

Executing(v) == worker[v].pc \in {"fire", "counted", "push"}
ForTheSame(v, w) ==
    /\ Message(v).transition = Message(w).transition
    /\ NotifiedTag(v) = NotifiedTag(w)

\* The tokens that somebody else works with stay active, and w does not begin to work
\* with them.
LEMMA ExecutorStep ==
    ASSUME IInv, Grow, ExecutorInv, SingleExecutor, NEW w \in Workers,
           \A v \in Workers : v # w => worker'[v] = worker[v],
           \A t \in Transitions, tag \in Tags :
              active_tokens[t][tag] # {} =>
                 /\ enablers'[t][tag] = enablers[t][tag]
                 /\ \/ active_tokens'[t][tag] # {}
                    \/ Executing(w) /\ t = Message(w).transition /\ tag = NotifiedTag(w),
           ExecutorOK(w)',
           Executing(w)' =>
              /\ worker'[w].msg = worker[w].msg
              /\ worker[w].pc \in {"consume", "fire", "counted", "push"}
              /\ \A v \in Workers : v # w /\ Executing(v) => ~ForTheSame(v, w)
    PROVE  ExecutorInv' /\ SingleExecutor'
<1>1. ASSUME NEW v \in Workers, v # w, Executing(v)
      PROVE  /\ Message(v)' = Message(v) /\ NotifiedTag(v)' = NotifiedTag(v)
             /\ Message(v).transition \in Transitions /\ NotifiedTag(v) \in Tags
  <2>1. worker'[v].msg = worker[v].msg
    BY <1>1
  <2> QED BY <1>1, <2>1, NotificationKept, Notification DEF Executing
<1>2. ASSUME NEW v \in Workers, v # w
      PROVE  ExecutorOK(v)'
  <2>1. CASE Executing(v)
    <3>1. PICK t, tag : t = Message(v).transition /\ tag = NotifiedTag(v)
      OBVIOUS
    <3>2. active_tokens[t][tag] # {} /\ enablers[t][tag] = Message(v).place
      BY <2>1, <3>1 DEF ExecutorInv, ExecutorOK, Executing, Active
    <3>3. ~(Executing(w) /\ t = Message(w).transition /\ tag = NotifiedTag(w))
      BY <1>2, <2>1, <3>1 DEF SingleExecutor, Executing
    <3>4. active_tokens'[t][tag] # {} /\ enablers'[t][tag] = Message(v).place
      BY <1>1, <1>2, <2>1, <3>1, <3>2, <3>3
    <3>5. ~At(v, "read")'
      BY <1>2, <2>1 DEF Executing, At
    <3> QED BY <1>1, <1>2, <2>1, <3>1, <3>4, <3>5 DEF ExecutorOK, Active
  <2>2. CASE ~Executing(v)
    <3>1. ~Executing(v)' /\ (At(v, "read")' => At(v, "read"))
      BY <1>2, <2>2 DEF Executing, At
    <3> QED BY <1>2, <3>1 DEF ExecutorOK, Executing, ExecutorInv, Message
  <2> QED BY <2>1, <2>2
<1>3. ExecutorInv'
  BY <1>2 DEF ExecutorInv
<1>4. ASSUME NEW v \in Workers, v # w, Executing(v)', Executing(w)', ForTheSame(v, w)'
      PROVE  FALSE
  <2>1. Executing(v)
    BY <1>4 DEF Executing
  <2>2. /\ Message(v)' = Message(v) /\ NotifiedTag(v)' = NotifiedTag(v)
        /\ Message(w)' = Message(w) /\ NotifiedTag(w)' = NotifiedTag(w)
    BY <1>1, <1>4, <2>1, NotificationKept
  <2>3. ForTheSame(v, w)
    BY <1>4, <2>2 DEF ForTheSame
  <2> QED BY <1>4, <2>1, <2>3
<1>5. ASSUME NEW u \in Workers, NEW v \in Workers, u # v,
             Executing(u)', Executing(v)', ForTheSame(u, v)'
      PROVE  FALSE
  <2>1. CASE v = w
    BY <1>4, <1>5, <2>1
  <2>2. CASE u = w
    <3>1. ForTheSame(v, u)'
      BY <1>5 DEF ForTheSame
    <3> QED BY <1>4, <1>5, <2>2, <3>1
  <2>3. CASE u # w /\ v # w
    <3>1. Executing(u) /\ Executing(v)
      BY <1>5, <2>3 DEF Executing
    <3>2. ForTheSame(u, v)
      BY <1>1, <1>5, <2>3, <3>1 DEF ForTheSame
    <3> QED BY <1>5, <3>1, <3>2 DEF SingleExecutor, Executing, ForTheSame
  <2> QED BY <2>1, <2>2, <2>3
<1>6. SingleExecutor'
  BY <1>5 DEF SingleExecutor, Executing, ForTheSame
<1> QED BY <1>3, <1>6

\* A barrier's message that counts enough of its group at its place found some.
LEMMA CountedIsMarked ==
    ASSUME IInv, NEW w \in Workers, At(w, "consume"),
           NEW t, t = Message(w).transition, IsBarrier(t),
           NEW p, p = Message(w).place, ~RemainsAtPlace(t, p, NotifiedToken(w))
    PROVE  \E c \in GroupColors(NotifiedTag(w)) : c \in Colors /\ Marked(c, p)
<1>1. PICK token, g : token = NotifiedToken(w) /\ g = token.group
  OBVIOUS
<1>2. /\ token.color \in Colors /\ p \in Places /\ NotifiedTag(w) = g
      /\ g \in Groups /\ g \in DOMAIN color_groups
      /\ InGroup(color_groups, token.color, g)
  BY <1>1, Notification DEF At, NotifiedTag, Tag
<1>3. color_groups[g] \in ColorGroup
  BY <1>2, ElementOf DEF IInv, TypeOK
<1>4. GroupSize(g) > 0 /\ GroupSize(g) \in Int
  BY <1>2, <1>3, BoundAssumption
     DEF ColorGroup, InGroup, ColorsIn, GroupSize, Colors, NoColor
<1>5. group_marking[<<g, p>>] \in Nat /\ group_marking[<<g, p>>] # 0
  <2>1. group_marking[<<g, p>>] \in Nat
    BY <1>2 DEF IInv, TypeOK
  <2>2. ~(GroupSize(g) - group_marking[<<g, p>>] > 0)
    BY <1>1 DEF RemainsAtPlace
  <2> QED BY <1>4, <2>1, <2>2
<1>6. MarkedColors(g, p) # {}
  <2>1. group_marking[<<g, p>>] = Cardinality(MarkedColors(g, p))
    BY <1>2 DEF IInv, GroupCount
  <2> QED BY <1>5, <2>1, FS_EmptySet
<1>7. PICK c \in Colors : /\ color_marking[<<c, p>>] # NoToken
                          /\ tokens[color_marking[<<c, p>>]].group = g
  BY <1>6 DEF MarkedColors
<1>8. /\ color_marking[<<c, p>>] \in DOMAIN tokens
      /\ tokens[color_marking[<<c, p>>]].color = c /\ c # NoColor
  BY <1>2, <1>7, BoundAssumption DEF IInv, MarkInv, Colors, NoColor
<1>9. c \in GroupColors(g)
  BY <1>7, <1>8 DEF IInv, TokensInv, InGroup, ColorsIn, GroupColors
<1> QED BY <1>2, <1>7, <1>9 DEF Marked

\* Who finds tokens active that its place enabled is the only one.
LEMMA AlreadyActiveAlone ==
    ASSUME WellNested, SInv, NEW w \in Workers, ConsumeAlreadyActive(w),
           NEW v \in Workers, v # w, Executing(v), ForTheSame(v, w)
    PROVE  FALSE
<1> USE DEF SInv, NestInv, RInv
<1>1. PICK t, tag, p :
          t = Message(w).transition /\ tag = NotifiedTag(w) /\ p = Message(w).place
  OBVIOUS
<1>2. /\ At(w, "consume") /\ ~RemainsAtPlace(t, p, NotifiedToken(w))
      /\ enablers[t][tag] \in {NoPlace, p} /\ active_tokens[t][tag] # {}
  BY <1>1 DEF ConsumeAlreadyActive, Notified, EnabledByOther, AlreadyActive
<1>3. /\ Message(w) \in NotifyTransitionMessage /\ t \in Transitions /\ p \in Places
      /\ NotifiedToken(w).color \in Colors /\ tag \in Tags
      /\ tag \in LiveTags(t) /\ NotifiedToken(w).color \in TagColors(t, tag)
  BY <1>1, <1>2, Notification, NotifiedLive DEF At
<1>4. Enabled(t, tag)
  BY <1>2, <1>3 DEF EnablerInv, Enabled
<1>5. CASE ~IsBarrier(t)
  <2>1. Message(v) \in NotifyTransitionMessage /\ Message(v).transition = t
    BY <1>1, Notification DEF Executing, ForTheSame
  <2>2. Message(v).place = p
    BY <1>1, <1>2, <1>4 DEF ExecutorInv, ExecutorOK, Executing, ForTheSame, Enabled
  <2>3. NotifiedToken(v).color = tag /\ NotifiedToken(w).color = tag
    BY <1>1, <1>5, <2>1 DEF ForTheSame, NotifiedTag, Tag
  <2>4. /\ Reports(worker[v].msg, t, p, tag) /\ Reports(worker[w].msg, t, p, tag)
        /\ worker[v].msg.type = "notify_transition"
        /\ worker[w].msg.type = "notify_transition"
    BY <1>1, <1>3, <2>1, <2>2, <2>3
       DEF Reports, Message, NotifiedToken, NotifyTransitionMessage
  <2>5. Bears(worker[v]) /\ Bears(worker[w])
    BY <1>2, <2>4 DEF Bears, Executing, At
  <2>6. <<"worker", v>> = <<"worker", w>>
    <3>1. <<"worker", v>> \in Reporters(t, p, tag) /\ <<"worker", w>> \in Reporters(t, p, tag)
      BY <2>4, <2>5, ReporterIs
    <3> QED BY <1>3, <2>3, <3>1 DEF OneReport, ReportedOnce
  <2> QED BY <2>6
<1>6. CASE IsBarrier(t)
  <2>1. PICK c \in GroupColors(tag) : c \in Colors /\ Marked(c, p)
    BY <1>1, <1>2, <1>6, CountedIsMarked
  <2>2. p \in ArcsIn[t]
    BY <1>1, <1>2, <1>3 DEF InputsTold, Underway, At
  <2>3. PICK K \in Machines : p \in K
    BY <1>3 DEF WellNested
  <2>4. Taken(t, K, c)
    BY <1>3, <1>4, <1>6, <2>1, <2>2, <2>3 DEF Taken, TagColors, InputsIn
  <2> QED BY <1>3, <1>6, <2>1, <2>3, <2>4 DEF ShapeInv, GoneAtBarrier
<1> QED BY <1>5, <1>6

\* The script lets a handler execute the action only if no other does.
LEMMA ConsumeExecutes ==
    ASSUME WellNested, SInv, IInv', NEW w \in Workers, ConsumeTokens(w)
    PROVE  ExecutorInv' /\ SingleExecutor'
<1> USE DEF SInv, NestInv, RInv
<1>1. PICK t, tag : t = Message(w).transition /\ tag = NotifiedTag(w)
  OBVIOUS
<1>2. /\ worker[w].pc = "consume"
      /\ \A v \in Workers : v # w => worker'[v] = worker[v]
      /\ worker'[w].pc = "fire" \/ worker'[w].pc = "publish"
      /\ Grow
  BY ConsumeFacts, SameTokensGrow DEF At
<1>3. worker'[w].pc = "fire" => worker'[w].msg = worker[w].msg
  BY QuietSteps, <1>2 DEF Quiet
<1>4. worker'[w].msg = worker[w].msg =>
          Message(w)' = Message(w) /\ NotifiedTag(w)' = NotifiedTag(w)
  BY <1>2, NotificationKept
<1>5. CASE ConsumeEnabled(w)
  <2>1. /\ t \in Transitions /\ TakesTag(t, tag, TagColors(t, tag))
        /\ enablers'[t][tag] = Message(w).place /\ active_tokens'[t][tag] # {}
        /\ active_tokens[t][tag] = {}
    BY <1>1, <1>5, ConsumeTakesTag
  <2>2. \A u \in Transitions, g \in Tags : active_tokens[u][g] # {} =>
            /\ enablers'[u][g] = enablers[u][g] /\ active_tokens'[u][g] # {}
    BY <2>1 DEF TakesTag
  <2>3. ExecutorOK(w)'
    BY <1>1, <1>2, <1>3, <1>4, <2>1 DEF ExecutorOK, At, Active
  <2>4. \A v \in Workers : v # w /\ Executing(v) => ~ForTheSame(v, w)
    BY <1>1, <2>1 DEF ExecutorInv, ExecutorOK, Executing, ForTheSame, Active
  <2>5. Executing(w)' =>
            /\ worker'[w].msg = worker[w].msg
            /\ worker[w].pc \in {"consume", "fire", "counted", "push"}
            /\ \A v \in Workers : v # w /\ Executing(v) => ~ForTheSame(v, w)
    BY <1>2, <1>3, <2>4 DEF Executing
  <2> QED BY <1>2, <2>2, <2>3, <2>5, ExecutorStep
<1>6. CASE ConsumeAlreadyActive(w)
  <2>1. /\ UNCHANGED <<active_tokens, enablers>>
        /\ enablers[t][tag] \in {NoPlace, Message(w).place} /\ active_tokens[t][tag] # {}
    BY <1>1, <1>6 DEF ConsumeAlreadyActive, Notified, EnabledByOther, AlreadyActive
  <2>2. t \in Transitions /\ tag \in Tags
    BY <1>1, <1>2, Notification
  <2>3. enablers[t][tag] = Message(w).place
    BY <2>1, <2>2 DEF EnablerInv
  <2>4. ExecutorOK(w)'
    BY <1>1, <1>2, <1>3, <1>4, <2>1, <2>3 DEF ExecutorOK, At, Active
  <2>5. \A v \in Workers : v # w /\ Executing(v) => ~ForTheSame(v, w)
    BY <1>6, AlreadyActiveAlone
  <2>6. Executing(w)' =>
            /\ worker'[w].msg = worker[w].msg
            /\ worker[w].pc \in {"consume", "fire", "counted", "push"}
            /\ \A v \in Workers : v # w /\ Executing(v) => ~ForTheSame(v, w)
    BY <1>2, <1>3, <2>5 DEF Executing
  <2> QED BY <1>2, <2>1, <2>4, <2>6, ExecutorStep
<1>7. CASE \/ ConsumeRemaining(w) \/ ConsumeWaiting(w) \/ ConsumeEnabledByOther(w)
           \/ ConsumeIncomplete(w)
  <2>1. UNCHANGED <<active_tokens, enablers>> /\ PublishAll(w, <<>>)
    BY <1>7 DEF ConsumeRemaining, ConsumeWaiting, ConsumeEnabledByOther,
                ConsumeIncomplete, transitionVars
  <2>2. worker'[w].pc = "publish"
    BY <2>1 DEF PublishAll, IInv, TypeOK, Worker
  <2>3. ExecutorOK(w)' /\ ~Executing(w)'
    BY <2>2 DEF ExecutorOK, At, Executing
  <2> QED BY <1>2, <2>1, <2>3, ExecutorStep
<1> QED BY <1>5, <1>6, <1>7 DEF ConsumeTokens

\* An executor that fires or fails to push remains the only one.
LEMMA FireExecutes ==
    ASSUME SInv, IInv', NEW w \in Workers, Fire(w) \/ PushFails(w)
    PROVE  ExecutorInv' /\ SingleExecutor'
<1> USE DEF SInv, NestInv, RInv
<1>1. /\ Fired(w) /\ Grow
      /\ worker'[w].pc # "idle" => worker'[w].msg = worker[w].msg
  BY FireMoves
<1>2. /\ \A v \in Workers : v # w => worker'[v] = worker[v]
      /\ Executing(w) /\ worker[w].pc \in {"consume", "fire", "counted", "push"}
      /\ worker'[w].pc \in {"counted", "push", "idle"}
      /\ UNCHANGED <<active_tokens, enablers>>
  BY <1>1 DEF Fired, Executing
<1>3. worker'[w].pc # "idle" =>
          Message(w)' = Message(w) /\ NotifiedTag(w)' = NotifiedTag(w)
  BY <1>1, <1>2, NotificationKept
<1>4. ExecutorOK(w)
  BY DEF ExecutorInv
<1>5. ExecutorOK(w)'
  BY <1>2, <1>3, <1>4 DEF ExecutorOK, At, Active, Executing
<1>6. Executing(w)' =>
          /\ worker'[w].msg = worker[w].msg
          /\ worker[w].pc \in {"consume", "fire", "counted", "push"}
          /\ \A v \in Workers : v # w /\ Executing(v) => ~ForTheSame(v, w)
  BY <1>1, <1>2 DEF Executing, SingleExecutor, ForTheSame
<1> QED BY <1>1, <1>2, <1>5, <1>6, ExecutorStep

\* No step makes a second executor.
LEMMA StepExecutes ==
    ASSUME WellNested, SInv, IInv', Next
    PROVE  ExecutorInv' /\ SingleExecutor'
<1> USE DEF SInv, NestInv, RInv
<1>1. PICK w \in Workers : Receive(w) \/ Handle(w) \/ Crash(w)
  BY DEF Next
<1>2. CASE ConsumeTokens(w)
  BY <1>2, ConsumeExecutes
<1>3. CASE Fire(w) \/ PushFails(w)
  BY <1>3, FireExecutes
<1>4. CASE ~ConsumeTokens(w) /\ ~Fire(w) /\ ~PushFails(w)
  <2>1. /\ Grow
        /\ \A v \in Workers : v # w => worker'[v] = worker[v]
    BY <1>1, <1>4, OtherMoves DEF Handle
  <2>2. ExecutorOK(w)' /\ ~Executing(w)'
    <3>1. \/ \E m \in Messages :
                worker' = [worker EXCEPT ![w].pc = FirstStep[m.type], ![w].msg = m]
          \/ worker' = [worker EXCEPT ![w] = Idle]
          \/ \E new : worker' = [worker EXCEPT ![w].pc = "put", ![w].new = new]
          \/ \E msgs : PublishAll(w, msgs)
          \/ At(w, "put") /\ Goto(w, "read")
          \/ At(w, "publish") /\ worker' = [worker EXCEPT ![w].outbox = Tail(@)]
      <4>1. CASE Receive(w) \/ Crash(w) \/ Publish(w) \/ Ack(w)
        BY <4>1 DEF Receive, Crash, Publish, Ack
      <4>2. CASE CreateToken(w) \/ PutToken(w) \/ PutTokenFails(w)
        BY <4>2 DEF CreateToken, PutToken, PutTokenFails, Fail
      <4>3. CASE NotifyPlace(w) \/ PushTokens(w)
        BY <4>3 DEF NotifyPlace, PushTokens
      <4> QED BY <1>1, <1>4, <4>1, <4>2, <4>3 DEF Handle
    <3>2. worker \in [Workers -> Worker] /\ Idle.pc = "idle"
      BY DEF IInv, TypeOK, Idle
    <3>3. CASE \E m \in Messages :
                  worker' = [worker EXCEPT ![w].pc = FirstStep[m.type], ![w].msg = m]
      <4>1. PICK m \in Messages :
                worker' = [worker EXCEPT ![w].pc = FirstStep[m.type], ![w].msg = m]
        BY <3>3
      <4>2. worker'[w].pc = FirstStep[m.type] /\ worker'[w].msg = m
        BY <3>2, <4>1 DEF Worker
      <4>3. /\ FirstStep[m.type] \in {"create", "read", "consume"}
            /\ FirstStep[m.type] = "read" => m.type # "notify_transition"
        BY MessageTypes DEF FirstStep
      <4> QED BY <4>2, <4>3 DEF ExecutorOK, At, Executing, Message
    <3>4. CASE \/ worker' = [worker EXCEPT ![w] = Idle]
               \/ \E new : worker' = [worker EXCEPT ![w].pc = "put", ![w].new = new]
               \/ \E msgs : PublishAll(w, msgs)
               \/ At(w, "publish") /\ worker' = [worker EXCEPT ![w].outbox = Tail(@)]
      <4>1. worker'[w].pc \in {"idle", "put", "publish"}
        BY <3>2, <3>4 DEF PublishAll, At, Worker
      <4> QED BY <4>1 DEF ExecutorOK, At, Executing
    <3>5. CASE At(w, "put") /\ Goto(w, "read")
      <4>1. worker'[w].pc = "read" /\ worker'[w].msg = worker[w].msg
        BY <3>2, <3>5 DEF Goto, Worker
      <4>2. worker[w].msg \in Requests
        BY <3>5 DEF IInv, WorkersInv, WorkerOK, At
      <4>3. worker[w].msg.type = "create_token"
        BY <4>2, RequestTypes
      <4> QED BY <4>1, <4>3 DEF ExecutorOK, At, Executing, Message
    <3> QED BY <3>1, <3>3, <3>4, <3>5
  <2>3. enablers' = enablers
    BY <1>1, <1>4
       DEF Handle, Receive, Crash, CreateToken, PutToken, PutTokenFails, NotifyPlace,
           PushTokens, Publish, Ack, transitionVars
  <2>4. ASSUME NEW t \in Transitions, NEW tag \in Tags, active_tokens[t][tag] # {}
        PROVE  \/ active_tokens'[t][tag] # {}
               \/ Executing(w) /\ t = Message(w).transition /\ tag = NotifiedTag(w)
    <3>1. CASE PushTokens(w)
      <4>1. \/ active_tokens' = active_tokens
            \/ active_tokens' =
                  [active_tokens EXCEPT ![Message(w).transition][NotifiedTag(w)] = {}]
        BY <3>1 DEF PushTokens, ActiveCleared
      <4>2. Executing(w)
        BY <3>1 DEF PushTokens, At, Executing
      <4> QED BY <2>4, <4>1, <4>2 DEF IInv, TypeOK
    <3>2. CASE ~PushTokens(w)
      <4>1. active_tokens' = active_tokens
        BY <1>1, <1>4, <3>2
           DEF Handle, Receive, Crash, CreateToken, PutToken, PutTokenFails, NotifyPlace,
               Publish, Ack, transitionVars
      <4> QED BY <2>4, <4>1
    <3> QED BY <3>1, <3>2
  <2> QED BY <2>1, <2>2, <2>3, <2>4, ExecutorStep
<1> QED BY <1>2, <1>3, <1>4

-----------------------------------------------------------------------------
(* Every step, and the theorem.                                            *)

\* At the start only clients' requests report, each of a token of its own.
LEMMA InitSingle ==
    ASSUME WellNested, Init, IInv
    PROVE  SInv
<1>1. NestInv
  BY InitNests
<1>2. /\ \A w \in Workers : worker[w].pc = "idle"
      /\ \A m \in Messages : queue[m] = IF m \in Requests THEN 1 ELSE 0
      /\ deposited = {}
  BY DEF Init, Idle
<1>3. ASSUME NEW t \in Transitions, NEW p \in Places, NEW c \in Colors,
             NEW x \in Reporters(t, p, c)
      PROVE  \E m \in Requests : x = <<"queue", m>> /\ m.place = p /\ m.color = c
  <2>1. PICK m \in Messages : x = <<"queue", m>> /\ queue[m] > 0 /\ Reports(m, t, p, c)
    BY <1>2, <1>3, ReporterIs DEF Bears, Sends
  <2>2. m \in Requests
    BY <1>2, <2>1
  <2>3. m.type = "create_token"
    BY <2>2, RequestTypes
  <2> QED BY <2>1, <2>2, <2>3 DEF Reports
<1>4. ReportsTrue
  BY <1>2, <1>3 DEF ReportsTrue, Asked
<1>5. InputsTold
  <2>1. ASSUME NEW m \in NotifyTransitionMessage
        PROVE  m \in Messages /\ m \notin Requests
    <3>1. m.type = "notify_transition"
      BY DEF NotifyTransitionMessage
    <3>2. \A n \in Requests : n.type = "create_token"
      BY RequestTypes
    <3> QED BY <3>1, <3>2 DEF Messages
  <2> QED BY <1>2, <2>1 DEF InputsTold, Underway, At
<1>6. ExecutorInv /\ SingleExecutor
  BY <1>2 DEF ExecutorInv, ExecutorOK, At, SingleExecutor
<1>7. ASSUME NEW t \in Transitions, NEW p \in Places, NEW c \in Colors
      PROVE  ReportedOnce(t, p, c)
  <2>1. PICK K \in Machines : p \in K
    BY DEF WellNested
  <2>2. \A m, n \in Requests :
            m.place = p /\ n.place = p /\ m.color = c /\ n.color = c => m = n
    BY <2>1 DEF WellNested
  <2>3. \A x, y \in Reporters(t, p, c) : x = y
    BY <1>3, <2>2
  <2> QED BY <1>2, <2>3 DEF ReportedOnce, At
<1> QED BY <1>1, <1>4, <1>5, <1>6, <1>7 DEF SInv, OneReport

\* No step of any process breaks it.
LEMMA StepSingle ==
    ASSUME WellNested, PutsOnce, OneRequestForEachCell, NotifiesOnce, ArcsOnce,
           SInv, [Next]_vars
    PROVE  SInv'
<1>1. NestInv'
  BY StepNests DEF SInv
<1>2. CASE Next
  <2>1. IInv'
    BY <1>1 DEF NestInv, RInv
  <2>2. \A t \in Transitions, p \in Places, c \in Colors :
            /\ ReportedOnce(t, p, c)'
            /\ Reporters(t, p, c)' # {} => Reporters(t, p, c) # {} \/ Marked(c, p)'
    BY <1>2, <2>1, StepReports
  <2>3. OneReport'
    BY <2>2 DEF OneReport
  <2>4. ReportsTrue'
    BY <1>2, <2>1, <2>2, StepReportsTrue
  <2>5. InputsTold' /\ ExecutorInv' /\ SingleExecutor'
    BY <1>2, <2>1, StepTellsInputs, StepExecutes
  <2> QED BY <1>1, <2>3, <2>4, <2>5 DEF SInv
<1>3. CASE UNCHANGED vars
  <2>1. UNCHANGED <<queue, worker, tokens, color_marking, color_groups, enablers,
                    active_tokens, deposited>>
    BY <1>3 DEF vars, markingVars, objectVars, transitionVars, brokerVars
  <2>2. \A t, p, c : Reporters(t, p, c)' = Reporters(t, p, c)
    BY <2>1 DEF Reporters, Bears, Sends, Reports
  <2>3. OneReport'
    BY <2>1, <2>2 DEF SInv, OneReport, ReportedOnce, Reports, At
  <2>4. InputsTold'
    BY <2>1 DEF SInv, InputsTold, Underway, At, Message
  <2>5. ReportsTrue'
    <3>1. \A K, p, c : Arrived(K, p, c)' <=> Arrived(K, p, c)
      BY <2>1, TakenSame DEF Arrived, Marked, InputsIn
    <3> QED BY <2>1, <2>2, <3>1 DEF SInv, ReportsTrue, Asked
  <2>6. ExecutorInv' /\ SingleExecutor'
    BY <2>1
       DEF SInv, ExecutorInv, ExecutorOK, SingleExecutor, At, Message, Active,
           NotifiedTag, NotifiedToken, Tag, IsBarrier
  <2> QED BY <1>1, <2>3, <2>4, <2>5, <2>6 DEF SInv
<1> QED BY <1>2, <1>3

\* In such a net a place tells each of its transitions once of each token, if no process
\* dies while it tells them.
THEOREM SingleInvariance ==
    ASSUME WellNested, PutsOnce, OneRequestForEachCell, NotifiesOnce, ArcsOnce
    PROVE  Spec => []SInv
<1>1. Init => SInv
  BY InitEstablishes, InitSingle
<1>2. SInv /\ [Next]_vars => SInv'
  BY StepSingle
<1> QED BY <1>1, <1>2, PTL DEF Spec

\* So no two handlers ever execute the action of a transition for the same tokens: the
\* tokens are merged, split or joined once, although every place of the transition is
\* notified by a process of its own, and a process that dies while it executes the
\* action is replaced by another.
THEOREM WorkflowExecutesOnce ==
    ASSUME WellNested, PutsOnce, OneRequestForEachCell, NotifiesOnce, ArcsOnce
    PROVE  Spec => []SingleExecutor
<1>1. SInv => SingleExecutor
  BY DEF SInv
<1> QED BY <1>1, SingleInvariance, PTL
=============================================================================
