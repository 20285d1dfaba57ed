---------------------------- MODULE PetriNetInv ----------------------------
(***************************************************************************)
(* The inductive invariant of the engine.  The agreement of the two        *)
(* markings is not inductive alone: a script changes the count of a group  *)
(* because a token of a color moved, so the token at a cell must have the  *)
(* cell's color, a color must be in one group only, and whatever refers to *)
(* a token, in Redis, in a message or in a worker, must refer to one that  *)
(* exists.                                                                 *)
(***************************************************************************)
EXTENDS PetriNet

\* A token that exists and has a color, among the given token objects.
Known(toks, i) == i \in DOMAIN toks /\ toks[i].color # NoColor

\* A message refers to a known token, if to any.
MessageOK(toks, m) == m.type = "notify_transition" => Known(toks, m.token)

\* What a handler relies on where it is.
WorkerOK(toks, r) ==
    /\ r.pc # "idle" => r.msg \in Messages /\ MessageOK(toks, r.msg)
    /\ r.pc \in {"create", "put"} => r.msg \in Requests
    /\ r.pc = "put" =>
          /\ r.new \in Seq(TokenIdxs) /\ Len(r.new) = 1 /\ Known(toks, r.new[1])
          /\ toks[r.new[1]].color = r.msg.color
          /\ toks[r.new[1]].group = r.msg.group
    /\ r.pc = "read" => r.msg.place \in Places /\ r.msg.color \in Colors
    /\ r.pc \in {"consume", "fire", "counted", "push"} =>
          r.msg \in NotifyTransitionMessage
    /\ r.pc = "push" => \A i \in DOMAIN r.new : r.new[i] \in DOMAIN toks
    /\ r.pc = "publish" => \A i \in DOMAIN r.outbox : MessageOK(toks, r.outbox[i])

WorkersInv == \A w \in Workers : WorkerOK(tokens, worker[w])

QueueInv == \A m \in Messages : queue[m] > 0 => MessageOK(tokens, m)

\* The colors of group g, among the given groups.
ColorsIn(groups, g) == groups[g].begin .. groups[g].end - 1

\* A color that names its group names it rightly, for tokens and parents alike.
InGroup(groups, color, g) ==
    color # NoColor => g \in DOMAIN groups /\ color \in ColorsIn(groups, g)

TokensInv ==
    \A i \in DOMAIN tokens : InGroup(color_groups, tokens[i].color, tokens[i].group)

\* Groups are consecutive ranges below the counter, and the colors that clients
\* name stay in theirs.
GroupsInv ==
    /\ \A g \in DOMAIN color_groups :
          /\ color_groups[g].begin <= color_groups[g].end
          /\ color_groups[g].end <= next_color
          /\ InGroup(color_groups, color_groups[g].parent_color,
                     color_groups[g].parent_group)
          /\ \A h \in DOMAIN color_groups :
                g < h => color_groups[g].end <= color_groups[h].begin
    /\ \A m \in Requests : InGroup(color_groups, m.color, m.group)

\* The token at a cell exists and has the cell's color.
MarkInv ==
    \A c \in Colors, p \in Places :
        color_marking[<<c, p>>] # NoToken =>
            /\ color_marking[<<c, p>>] \in DOMAIN tokens
            /\ tokens[color_marking[<<c, p>>]].color = c

ActiveInv ==
    \A t \in Transitions, tag \in Tags :
        \A i \in active_tokens[t][tag] : Known(tokens, i)

\* What every step of the engine preserves, crashes included.
IInv ==
    /\ TypeOK
    /\ TransientTracks
    /\ WorkersInv
    /\ QueueInv
    /\ TokensInv
    /\ GroupsInv
    /\ MarkInv
    /\ ActiveInv
    /\ GroupCount
=============================================================================
