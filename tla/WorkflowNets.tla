---------------------------- MODULE WorkflowNets ----------------------------
(***************************************************************************)
(* The nets that are safe by their shape.  A net is covered by machines,   *)
(* sets of places in which a color has at most one token: a transition     *)
(* takes it from one place of the machine and puts it back to a later one. *)
(* A split holds the token of its color back, works with the colors of the *)
(* new group, in a machine of their own, its body, and the join that takes *)
(* that group from the body gives the token back.                          *)
(*                                                                         *)
(* Machines, the rank of a place and the body of a split describe the net; *)
(* the code has no counterpart of them.                                    *)
(***************************************************************************)
EXTENDS PetriNetPromises

CONSTANTS
    Machines,   \* the machines of the net, sets of places
    Rank,       \* place -> how late it comes
    Body        \* transition -> the machine a split works in

-----------------------------------------------------------------------------
(* The shape of a net.                                                     *)

InputsIn(t, K) == ArcsIn[t] \cap K
OutputsIn(t, K) == {i \in DOMAIN ArcsOut[t] : ArcsOut[t][i] \in K}

KeepsColor(t) == Action[t] \in {"merge", "record_time", "remove_data"}

\* The split begins new colors in the machine.
Opens(u, K) == Action[u] = "split" /\ OutputsIn(u, K) # {}

\* The join gives back to machine K the token that split u took from it.
Closes(j, u, K) ==
    /\ Action[j] = "join" /\ Action[u] = "split"
    /\ OutputsIn(j, K) # {}
    /\ InputsIn(u, K) # {}
    /\ Opens(u, Body[u])
    /\ InputsIn(j, Body[u]) # {}

Moves(t, K, i) == \E p \in InputsIn(t, K) : Rank[p] < Rank[ArcsOut[t][i]]

WellNested ==
    /\ Machines \subseteq SUBSET Places
    /\ Rank \in [Places -> Nat]
    /\ Body \in [Transitions -> Machines]
    /\ \A p \in Places : \E K \in Machines : p \in K
    /\ \A K \in Machines, t \in Transitions :
          /\ \A p, q \in InputsIn(t, K) : p = q
          /\ \A i, j \in OutputsIn(t, K) : i = j
          /\ KeepsColor(t) => \A i \in OutputsIn(t, K) : Moves(t, K, i)
          /\ Action[t] = "join" =>
                \A i \in OutputsIn(t, K) :
                   \E u \in Transitions :
                      /\ Closes(t, u, K)
                      /\ \A p \in InputsIn(u, K) : Rank[p] < Rank[ArcsOut[t][i]]
    /\ \A K \in Machines, t, u \in Transitions : Opens(t, K) /\ Opens(u, K) => t = u
    /\ \A t \in Transitions : Action[t] = "record_time" => \A p, q \in ArcsIn[t] : p = q
    /\ \A K \in Machines, m, n \in Requests :
          m.place \in K /\ n.place \in K /\ m.color = n.color => m = n

-----------------------------------------------------------------------------
(* Where a color is.                                                       *)

Marked(c, p) == color_marking[<<c, p>>] # NoToken
Enabled(t, tag) == enablers[t][tag] # NoPlace
Done(t, tag) == Enabled(t, tag) /\ active_tokens[t][tag] = {}
Parent(g) == color_groups[g].parent_color

\* A join has given the token of color c back.
Returned(u, K, c) ==
    \E j \in Transitions, g \in DOMAIN color_groups :
        Closes(j, u, K) /\ Parent(g) = c /\ Done(j, g)

\* Transition u has the token of color c that it took from the machine.
InHand(u, K, c) ==
    /\ ~IsBarrier(u)
    /\ InputsIn(u, K) # {}
    /\ \/ active_tokens[u][c] # {}
       \/ Action[u] = "split" /\ Enabled(u, c) /\ ~Returned(u, K, c)

\* A transition that takes from the machine was enabled for color c.
Taken(t, K, c) ==
    /\ InputsIn(t, K) # {}
    /\ \E tag \in LiveTags(t) : Enabled(t, tag) /\ c \in TagColors(t, tag)

Reached(K, c) ==
    \/ \E p \in K : Marked(c, p)
    \/ \E t \in Transitions : Taken(t, K, c)

-----------------------------------------------------------------------------
(* The invariant.                                                          *)

\* Only live tags were enabled, of colors that are allocated.
EnabledLive ==
    \A t \in Transitions, tag \in Tags :
        Enabled(t, tag) =>
            /\ tag \in LiveTags(t)
            /\ ~IsBarrier(t) => tag < next_color

\* The clients' groups stay what they are.
StartKept ==
    \A g \in DOMAIN GroupsAtStart :
        g \in DOMAIN color_groups /\ color_groups[g] = GroupsAtStart[g]

\* record_time has one active token, and nobody pushes two tokens of a color.
LoneActive ==
    \A t \in Transitions, tag \in Tags :
        Action[t] = "record_time" => \A i, j \in active_tokens[t][tag] : i = j
NewOnce ==
    \A w \in Workers : At(w, "push") =>
        \A i, j \in DOMAIN worker[w].new :
            tokens[worker[w].new[i]].color = tokens[worker[w].new[j]].color => i = j

\* A color is at one place of a machine, or in one transition's hands.
OnePlace ==
    \A K \in Machines, c \in Colors :
        \A p, q \in K : Marked(c, p) /\ Marked(c, q) => p = q
PlaceOrHand ==
    \A K \in Machines, c \in Colors, u \in Transitions :
        InHand(u, K, c) => \A p \in K : ~Marked(c, p)
OneHand ==
    \A K \in Machines, c \in Colors, t \in Transitions :
        InHand(t, K, c) => \A u \in Transitions : InHand(u, K, c) => t = u

\* A client's color is not in the machine before the client puts it there.
RequestFirst ==
    \A K \in Machines, m \in Requests :
        m.place \in K /\ <<m.color, m.place>> \notin deposited => ~Reached(K, m.color)

\* A color only goes to later places.
Later ==
    \A K \in Machines, c \in Colors, t \in Transitions :
        Taken(t, K, c) => \A p \in InputsIn(t, K) :
            /\ \A q \in K : Marked(c, q) => Rank[p] < Rank[q]
            /\ \A u \in Transitions : InHand(u, K, c) =>
                  \A q \in InputsIn(u, K) : Rank[p] <= Rank[q]

\* The colors a barrier took are gone, and no other barrier took them.
GoneAtBarrier ==
    \A t \in Transitions : IsBarrier(t) =>
        \A K \in Machines, c \in Colors : Taken(t, K, c) =>
            /\ \A p \in K : ~Marked(c, p)
            /\ \A u \in Transitions : ~InHand(u, K, c)
OneBarrier ==
    \A t, u \in Transitions : IsBarrier(t) /\ IsBarrier(u) =>
        \A K \in Machines, c \in Colors : Taken(t, K, c) /\ Taken(u, K, c) => t = u

\* The colors of a split's group come from the one firing of the split.
ReachedBySplit ==
    \A K \in Machines, u \in Transitions : Opens(u, K) =>
        \A g \in DOMAIN color_groups : Parent(g) # NoColor =>
            \A c \in GroupColors(g) : Reached(K, c) => Done(u, Parent(g))
OneGroup ==
    \A K \in Machines, u \in Transitions : Opens(u, K) =>
        \A g, h \in DOMAIN color_groups : Parent(g) # NoColor /\ Parent(g) = Parent(h) =>
            \A c \in GroupColors(g), d \in GroupColors(h) :
                Reached(K, c) /\ Reached(K, d) => g = h

\* Where the colors are, and where they have been.
ShapeInv ==
    /\ EnabledLive
    /\ StartKept
    /\ LoneActive
    /\ OnePlace
    /\ PlaceOrHand
    /\ OneHand
    /\ RequestFirst
    /\ Later
    /\ GoneAtBarrier
    /\ OneBarrier
    /\ ReachedBySplit
    /\ OneGroup

NestInv == RInv /\ NewOnce /\ ShapeInv

-----------------------------------------------------------------------------
(* Who tells a transition of a token.  No two handlers execute an action   *)
(* for the same tokens, because no two messages are about the same token:  *)
(* a color comes to a place once, the place is notified once for it, and   *)
(* tells each of its transitions once.                                     *)

\* A process that tells the transitions of a place of a token lives until it has told
\* them all.  If it dies between, its message is delivered again, and the first ones are
\* told twice.
NotifiesOnce == <<"notify_place", "publish">> \notin CrashAt

\* One arc leads from a place to a transition.
ArcsOnce ==
    \A p \in Places : \A i, j \in DOMAIN PlaceArcsOut[p] :
        PlaceArcsOut[p][i] = PlaceArcsOut[p][j] => i = j

\* A handler that did not pass its message on, or that brings it back if it dies.
Bears(r) ==
    \/ r.pc \in {"create", "put", "read"}
    \/ r.pc # "idle" /\ r.msg.type = "notify_transition"

Sends(r, t, p, color) ==
    r.pc = "publish" /\ \E i \in DOMAIN r.outbox : Reports(r.outbox[i], t, p, color)

\* Where the reports of a token of this color at p to transition t are.
Reporters(t, p, color) ==
    {<<"queue", m>> : m \in {n \in Messages : queue[n] > 0 /\ Reports(n, t, p, color)}}
    \cup {<<"worker", w>> : w \in {v \in Workers :
             Bears(worker[v]) /\ Reports(worker[v].msg, t, p, color)}}
    \cup {<<"outbox", w>> : w \in {v \in Workers : Sends(worker[v], t, p, color)}}

\* There is one report of a token to a transition, and one copy of it.
ReportedOnce(t, p, color) ==
    /\ \A x, y \in Reporters(t, p, color) : x = y
    /\ \A m \in Messages : queue[m] > 1 => ~Reports(m, t, p, color)
    /\ \A w \in Workers : At(w, "publish") =>
          \A i, j \in DOMAIN worker[w].outbox :
             /\ Reports(worker[w].outbox[i], t, p, color)
             /\ Reports(worker[w].outbox[j], t, p, color)
             => i = j

OneReport ==
    \A t \in Transitions, p \in Places, c \in Colors : ReportedOnce(t, p, c)

\* A transition is told of its input places only.
Underway(m) ==
    \/ queue[m] > 0
    \/ \E w \in Workers :
          \/ ~At(w, "idle") /\ Message(w) = m
          \/ At(w, "publish") /\ \E i \in DOMAIN worker[w].outbox : worker[w].outbox[i] = m

InputsTold ==
    \A m \in NotifyTransitionMessage : Underway(m) => m.place \in ArcsIn[m.transition]

\* A client has still to put the color there.
Asked(p, c) ==
    \E m \in Requests : m.place = p /\ m.color = c /\ <<c, p>> \notin deposited

\* The color came to the place, or past it.
Arrived(K, p, c) ==
    \/ \E q \in K : Marked(c, q) /\ Rank[p] <= Rank[q]
    \/ \E u \in Transitions : Taken(u, K, c) /\ \E q \in InputsIn(u, K) : Rank[p] <= Rank[q]

\* What is reported is there, was there, or is asked for.
ReportsTrue ==
    \A t \in Transitions, p \in Places, c \in Colors :
        Reporters(t, p, c) # {} =>
            Asked(p, c) \/ \A K \in Machines : p \in K => Arrived(K, p, c)

\* Who executes an action has active tokens, and was told of the place that enabled
\* the transition.
ExecutorOK(w) ==
    LET t == Message(w).transition IN
    /\ At(w, "read") => Message(w).type # "notify_transition"
    /\ worker[w].pc \in {"fire", "counted", "push"} =>
          Active(w) # {} /\ enablers[t][NotifiedTag(w)] = Message(w).place

ExecutorInv == \A w \in Workers : ExecutorOK(w)

SInv ==
    /\ NestInv
    /\ OneReport
    /\ InputsTold
    /\ ReportsTrue
    /\ ExecutorInv
    /\ SingleExecutor
=============================================================================
