----------------------- MODULE ProcessMonitorProofs -----------------------
(***************************************************************************)
(* Theorems about pmon, for any number of processes and of pages.          *)
(*                                                                          *)
(* A page marks a process as dead because the last answer lacks it. That   *)
(* the process is dead, or was once denied to the server, follows from     *)
(* what the server and the pages have in common, IInv: whatever else a     *)
(* page heard of is a child of the server, and an answer has all of these. *)
(***************************************************************************)
EXTENDS ProcessMonitor, TLAPS

-----------------------------------------------------------------------------
(* Below is closed under parents: the reason why children come with theirs. *)

LEMMA BelowHasParents ==
    ASSUME NEW root, NEW parents, NEW c \in Below(root, parents)
    PROVE  /\ c \in DOMAIN parents
           /\ parents[c] = root \/ parents[c] \in Below(root, parents)
<1> DEFINE B == Below(root, parents)
           D == {d \in DOMAIN parents : parents[d] \in B \cup {root}}
<1>1. c \in DOMAIN parents
  BY DEF Below
<1>2. D \in SUBSET DOMAIN parents
  OBVIOUS
<1>3. D \subseteq B
  <2> SUFFICES ASSUME NEW d \in D,
                      NEW S \in SUBSET DOMAIN parents,
                      \A e \in DOMAIN parents : parents[e] \in S \cup {root} => e \in S
               PROVE  d \in S
    BY DEF Below
  <2>1. parents[d] = root \/ parents[d] \in S
    BY DEF Below
  <2> QED BY <2>1
<1>4. \A d \in DOMAIN parents : parents[d] \in D \cup {root} => d \in D
  BY <1>3
<1>5. c \in D
  BY <1>2, <1>4 DEF Below
<1> QED BY <1>1, <1>5

LEMMA GetChildrenLive ==
    ASSUME TypeOK, NEW c \in GetChildren
    PROVE  c \in Alive /\ (ppid[c] \in GetChildren \/ ppid[c] = Master)
BY BelowHasParents DEF GetChildren, Alive

-----------------------------------------------------------------------------
LEMMA InitInv == Init => IInv
<1> SUFFICES ASSUME Init PROVE IInv
  OBVIOUS
<1> USE DEF Init
<1>1. TypeOK
  BY MonitorAssumption DEF TypeOK, Alive, Pids, Parents, Phases
<1>2. ServerInv
  BY MonitorAssumption DEF ServerInv, Idle, Alive, HasOrFinds
<1>3. \A p \in Pages : PageInv(p)
  BY MonitorAssumption DEF PageInv, HeardOf
<1> QED BY <1>1, <1>2, <1>3 DEF IInv, MarkedHasReason, RefusedHasReason, ParentShown

-----------------------------------------------------------------------------
(* The operating system: nobody hears of a new pid at once, and a death only makes *)
(* what is said of the living hold for fewer.                                      *)

LEMMA ForkInv ==
    ASSUME IInv, NEW q \in Alive, NEW c \in Processes, Fork(q, c)
    PROVE  IInv'
<1> USE DEF IInv, Fork, serverVars, pageVars
<1>1. /\ Alive' = Alive \cup {c} /\ c \notin Alive
      /\ Traceable' = Traceable \cup {c} /\ c \notin Traceable
  BY DEF Alive, TypeOK, Traceable
<1>2. \A d \in Alive : ppid'[d] = ppid[d]
  BY DEF Alive, TypeOK
<1>3. TypeOK'
  <2>1. ppid' \in [Alive' -> Alive' \cup {Outside}]
    BY <1>1 DEF TypeOK, Alive
  <2>2. Parents \subseteq Parents'
    BY DEF Parents
  <2>3. Shown \subseteq Shown'
    BY <2>2 DEF Shown
  <2>4. \A p \in Pages : status_all[p] \in [DOMAIN status_all[p] -> Shown']
    BY <2>3 DEF TypeOK
  <2> QED BY <1>1, <2>1, <2>2, <2>4, MonitorAssumption DEF TypeOK, Pids
<1>4. ServerInv'
  <2>1. \A d \in DOMAIN children : children[d] # c
    BY MonitorAssumption DEF TypeOK, Parents, Pids
  <2>2. c \notin DOMAIN children \cup found
    BY DEF ServerInv
  <2>3. \A d \in Alive : ppid[d] # c
    BY <1>1, MonitorAssumption DEF TypeOK, Pids
  <2> QED BY <1>1, <1>2, <2>1, <2>2, <2>3 DEF ServerInv, Idle, HasOrFinds
<1>5. ASSUME NEW p \in Pages PROVE PageInv(p)'
  <2>1. \A d \in DOMAIN results[p] : results[p][d] # c
    BY MonitorAssumption DEF TypeOK, Parents, Pids
  <2>2. \A d \in DOMAIN children : children[d] # c
    BY MonitorAssumption DEF TypeOK, Parents, Pids
  <2>3. c \notin HeardOf(p) \cup refused[p]
    BY DEF PageInv
  <2>4. \A d \in Alive : ppid[d] # c
    BY <1>1, MonitorAssumption DEF TypeOK, Pids
  <2>5. phase[p] = "basic" => UpdateInv(p)'
    BY <1>1, <1>2, <2>1, <2>2, <2>3, <2>4 DEF PageInv, UpdateInv, HasBasic, HeardOf
  <2> QED BY <1>1, <2>3, <2>5 DEF PageInv, HeardOf
<1>6. (MarkedHasReason /\ RefusedHasReason)'
  BY <1>1 DEF MarkedHasReason, RefusedHasReason, PageInv, HeardOf
<1>7. ParentShown'
  <2>1. \A p \in Pages : \A d \in DOMAIN status_all[p] : status_all[p][d].parent_pid # c
    BY MonitorAssumption DEF TypeOK, Shown, Parents, Pids
  <2> QED BY <1>1, <2>1 DEF ParentShown
<1> QED BY <1>3, <1>4, <1>5, <1>6, <1>7

LEMMA ExitInv ==
    ASSUME IInv, NEW c \in Alive, ProcessExits(c)
    PROVE  IInv'
<1> USE DEF IInv, ProcessExits, serverVars, pageVars
<1>1. Alive' = Alive \ {c} /\ Master \in Alive' /\ Traceable' = Traceable \ {c}
  BY DEF Alive, TypeOK, Traceable
<1>2. \A d \in Alive' : ppid'[d] = ppid[d] \/ ppid'[d] = Outside
  BY DEF Alive, TypeOK
<1>3. Outside \notin Traceable
  BY MonitorAssumption DEF TypeOK, Pids, Traceable
<1>4. TypeOK'
  <2>1. ppid' \in [Alive' -> Alive' \cup {Outside}]
    BY <1>1 DEF TypeOK, Alive
  <2>2. Parents' = Parents /\ Shown' = Shown
    BY DEF Parents, Shown
  <2> QED BY <1>1, <2>1, <2>2 DEF TypeOK
<1>5. ServerInv'
  BY <1>1, <1>2, <1>3 DEF ServerInv, Idle, HasOrFinds
<1>6. ASSUME NEW p \in Pages PROVE PageInv(p)'
  <2>1. phase[p] = "basic" => UpdateInv(p)'
    BY <1>1, <1>2, <1>3 DEF PageInv, UpdateInv, HasBasic
  <2> QED BY <1>1, <2>1 DEF PageInv, HeardOf
<1>7. (MarkedHasReason /\ RefusedHasReason /\ ParentShown)'
  BY <1>1 DEF MarkedHasReason, RefusedHasReason, ParentShown
<1> QED BY <1>4, <1>5, <1>6, <1>7

LEMMA ChangesUserInv ==
    ASSUME IInv, NEW c \in Alive, ChangesUser(c)
    PROVE  IInv'
<1> USE DEF IInv, ChangesUser, serverVars, pageVars
<1>1. Alive' = Alive /\ Traceable' = Traceable /\ Parents' = Parents /\ Shown' = Shown
  BY DEF Alive, Traceable, Parents, Shown
<1>2. TypeOK'
  <2>1. private' \subseteq Alive \ {Master}
    BY MonitorAssumption DEF TypeOK
  <2> QED BY <1>1, <2>1 DEF TypeOK
<1>3. ServerInv'
  BY <1>1 DEF ServerInv, Idle, HasOrFinds
<1>4. \A p \in Pages : PageInv(p)'
  BY <1>1 DEF PageInv, UpdateInv, HasBasic, HeardOf
<1>5. (MarkedHasReason /\ RefusedHasReason /\ ParentShown)'
  BY <1>1 DEF MarkedHasReason, RefusedHasReason, ParentShown
<1> QED BY <1>2, <1>3, <1>4, <1>5

-----------------------------------------------------------------------------
(* The server. A page sees none of its steps but the last.                         *)

\* What the pages' part of IInv needs of a step that no page takes part in: the
\* server forgets nothing traceable, and learns of no parent that a page lacks.
LEMMA PagesUntouched ==
    ASSUME IInv, UNCHANGED <<born, ppid, pageVars>>, denied \subseteq denied',
           DOMAIN children \cap Traceable' \subseteq DOMAIN children',
           \A p \in Pages : phase[p] = "basic" =>
               \A c \in status[p] \cap DOMAIN children' :
                   children'[c] \in Traceable' => children'[c] \in status[p],
           \A p \in Pages : serving' = p => phase[p] = "status"
    PROVE  /\ \A p \in Pages : PageInv(p)'
           /\ (MarkedHasReason /\ RefusedHasReason /\ ParentShown)'
<1> USE DEF IInv, pageVars
<1>1. Alive' = Alive /\ Traceable' \subseteq Traceable
  BY DEF Alive, Traceable
<1>2. ASSUME NEW p \in Pages PROVE PageInv(p)'
  <2>1. phase[p] = "basic" => UpdateInv(p)'
    BY <1>1 DEF PageInv, UpdateInv, HasBasic
  <2>2. HeardOf(p)' = HeardOf(p)
    BY DEF HeardOf
  <2> QED BY <1>1, <2>1, <2>2 DEF PageInv
<1>3. (MarkedHasReason /\ RefusedHasReason /\ ParentShown)'
  BY <1>1 DEF MarkedHasReason, RefusedHasReason, ParentShown
<1> QED BY <1>2, <1>3

LEMMA UpdateChildrenInv ==
    ASSUME IInv, NEW p \in Pages, UpdateChildren(p)
    PROVE  IInv'
<1> USE DEF IInv, UpdateChildren, osVars, pageVars
<1>1. Alive' = Alive /\ Traceable' = Traceable
  BY DEF Alive, Traceable
<1>2. \A c \in found' : c \in Alive /\ c \notin DOMAIN children /\ c \in Processes
  <2>1. \A c \in GetChildren : ppid[c] # Outside
    BY GetChildrenLive, MonitorAssumption DEF TypeOK, Pids
  <2>2. \A c \in GetChildren : c # Master
    BY <2>1 DEF TypeOK
  <2> QED BY <2>2, GetChildrenLive DEF TypeOK, Pids
<1>3. TypeOK'
  <2>1. Parents' = Parents /\ Shown' = Shown
    BY DEF Parents, Shown
  <2> QED BY <1>1, <1>2, <2>1 DEF TypeOK
<1>4. ServerInv'
  <2>1. \A c \in found' : ppid[c] \in Traceable => ppid[c] \in HasOrFinds'
    BY GetChildrenLive DEF HasOrFinds
  <2>2. found = {}
    BY DEF ServerInv
  <2>3. \A c \in DOMAIN children : children[c] \in Traceable => children[c] \in HasOrFinds'
    BY <2>2 DEF ServerInv, HasOrFinds
  <2>4. p # NoPage
    BY MonitorAssumption
  <2>5. \A c \in DOMAIN children \cap Alive :
            ppid[c] \in Traceable => ppid[c] \in HasOrFinds'
    BY <2>2 DEF ServerInv, HasOrFinds
  <2> QED BY <1>1, <1>2, <2>1, <2>3, <2>4, <2>5 DEF ServerInv, Idle, TypeOK
<1>5. /\ \A q \in Pages : PageInv(q)'
      /\ (MarkedHasReason /\ RefusedHasReason /\ ParentShown)'
  <2>1. \A q \in Pages : serving' = q => phase[q] = "status"
    OBVIOUS
  <2>2. \A q \in Pages : phase[q] = "basic" =>
            \A d \in status[q] \cap DOMAIN children' :
                children'[d] \in Traceable' => children'[d] \in status[q]
    BY <1>1 DEF PageInv, UpdateInv
  <2> QED BY <1>1, <2>1, <2>2, PagesUntouched
<1> QED BY <1>3, <1>4, <1>5

LEMMA ReadBasicInfoInv ==
    ASSUME IInv, NEW c \in Processes, ReadBasicInfo(c)
    PROVE  IInv'
<1> USE DEF IInv, ReadBasicInfo, osVars, pageVars
<1>1. Alive' = Alive /\ Traceable' = Traceable
  BY DEF Alive, Traceable
<1>2. c \notin DOMAIN children /\ DOMAIN children' = DOMAIN children \cup {c}
  BY DEF ServerInv
<1>3. \A d \in DOMAIN children : children'[d] = children[d]
  BY <1>2
<1>4. (c \in Alive /\ children'[c] = ppid[c]) \/ children'[c] = NoPid
  BY DEF Readable
<1>5. NoPid \notin Traceable
  BY MonitorAssumption DEF TypeOK, Traceable
<1>6. TypeOK'
  <2>1. Parents' = Parents /\ Shown' = Shown
    BY DEF Parents, Shown
  <2>2. children'[c] \in Parents
    BY <1>4 DEF TypeOK, Parents
  <2>3. children' \in [DOMAIN children' -> Parents]
    BY <1>2, <1>3, <2>2 DEF TypeOK
  <2> QED BY <1>1, <1>2, <2>1, <2>3 DEF TypeOK
<1>7. ServerInv'
  <2>1. HasOrFinds' = HasOrFinds
    BY <1>2 DEF HasOrFinds
  <2>2. children'[c] \in Traceable => children'[c] \in HasOrFinds
    BY <1>4, <1>5 DEF ServerInv
  <2> QED BY <1>1, <1>2, <1>3, <2>1, <2>2 DEF ServerInv, Idle
<1>8. \A p \in Pages : phase[p] = "basic" =>
        \A d \in status[p] \cap DOMAIN children' :
            children'[d] \in Traceable => children'[d] \in status[p]
  BY <1>2, <1>3, <1>4, <1>5 DEF PageInv, UpdateInv
<1>9. /\ \A p \in Pages : PageInv(p)'
      /\ (MarkedHasReason /\ RefusedHasReason /\ ParentShown)'
  <2>1. \A p \in Pages : serving' = p => phase[p] = "status"
    BY DEF PageInv
  <2>2. DOMAIN children \cap Traceable \subseteq DOMAIN children'
    BY <1>2
  <2>3. UNCHANGED <<born, ppid, pageVars>> /\ denied' = denied
    OBVIOUS
  <2> QED BY <1>1, <1>8, <2>1, <2>2, <2>3, PagesUntouched
<1> QED BY <1>6, <1>7, <1>9

LEMMA ReadProcessStatusInv ==
    ASSUME IInv, NEW c \in Processes, ReadProcessStatus(c)
    PROVE  IInv'
<1> USE DEF IInv, ReadProcessStatus, Readable, pageVars
<1>1. /\ Alive' = Alive /\ Traceable' \subseteq Traceable
      /\ denied \subseteq denied' /\ denied' \subseteq born
      /\ c \in dead_children' => c \in dead_children \/ c \notin Traceable'
  BY DEF Alive, Traceable, TypeOK, ServerInv
<1>2. TypeOK'
  <2>1. Parents' = Parents /\ Shown' = Shown
    BY DEF Parents, Shown
  <2> QED BY <1>1, <2>1 DEF TypeOK
<1>3. ServerInv'
  BY <1>1 DEF ServerInv, Idle, HasOrFinds, Unread
<1>4. /\ \A p \in Pages : PageInv(p)'
      /\ (MarkedHasReason /\ RefusedHasReason /\ ParentShown)'
  <2>1. \A p \in Pages : serving' = p => phase[p] = "status"
    BY DEF PageInv
  <2>2. \A p \in Pages : phase[p] = "basic" =>
            \A d \in status[p] \cap DOMAIN children' :
                children'[d] \in Traceable' => children'[d] \in status[p]
    BY <1>1 DEF PageInv, UpdateInv
  <2> QED BY <1>1, <2>1, <2>2, PagesUntouched
<1> QED BY <1>2, <1>3, <1>4

LEMMA SecondPassesInv ==
    ASSUME IInv, SecondPasses
    PROVE  IInv'
<1> USE DEF IInv, SecondPasses, osVars, pageVars
<1>1. Alive' = Alive /\ Traceable' = Traceable
  BY DEF Alive, Traceable
<1>2. TypeOK'
  <2>1. Parents' = Parents /\ Shown' = Shown
    BY DEF Parents, Shown
  <2> QED BY <1>1, <2>1 DEF TypeOK
<1>3. ServerInv'
  BY <1>1 DEF ServerInv, Idle, HasOrFinds
<1>4. /\ \A p \in Pages : PageInv(p)'
      /\ (MarkedHasReason /\ RefusedHasReason /\ ParentShown)'
  <2>1. \A p \in Pages : serving' = p => phase[p] = "status"
    BY DEF PageInv
  <2>2. \A p \in Pages : phase[p] = "basic" =>
            \A d \in status[p] \cap DOMAIN children' :
                children'[d] \in Traceable' => children'[d] \in status[p]
    BY <1>1 DEF PageInv, UpdateInv
  <2> QED BY <1>1, <2>1, <2>2, PagesUntouched
<1> QED BY <1>2, <1>3, <1>4

\* The answer: what the server keeps and what it answers are the same.
LEMMA GetProcessStatusInv ==
    ASSUME IInv, NEW p \in Pages, GetProcessStatus(p)
    PROVE  IInv'
<1> USE DEF IInv, GetProcessStatus, Answered, osVars
<1>1. Alive' = Alive /\ Traceable' = Traceable
  BY DEF Alive, Traceable
<1>2. Kept = info /\ DOMAIN children' = info /\ DOMAIN children \cap Traceable \subseteq info
  BY DEF Kept, Unread, ServerInv
<1>3. \A c \in info : c \in DOMAIN children /\ children'[c] = children[c]
  BY <1>2 DEF ServerInv
<1>4. status'[p] = info \cup {Master} /\ phase'[p] = "basic"
      /\ asked'[p] = {c \in info \cup {Master} : ~HasBasic(p, c)}
  BY DEF TypeOK
<1>5. TypeOK'
  <2>1. Parents' = Parents /\ Shown' = Shown
    BY DEF Parents, Shown
  <2>2. children' \in [DOMAIN children' -> Parents]
    BY <1>2, <1>3 DEF TypeOK
  <2>3. DOMAIN children' \subseteq Processes
    BY <1>2 DEF TypeOK
  <2>4. info \cup {Master} \subseteq Pids
    BY DEF TypeOK, Pids
  <2>5. phase' \in [Pages -> Phases] /\ status' \in [Pages -> SUBSET Pids]
    BY <2>4 DEF TypeOK, Phases
  <2>6. asked' \in [Pages -> SUBSET Pids]
    BY <2>4 DEF TypeOK
  <2> QED BY <1>1, <2>1, <2>2, <2>3, <2>5, <2>6 DEF TypeOK
<1>6. ServerInv'
  <2>1. \A c \in info : children'[c] \in Traceable => children'[c] \in info \cup {Master}
    BY <1>2, <1>3 DEF ServerInv, HasOrFinds
  <2> QED BY <1>1, <1>2, <1>3, <2>1 DEF ServerInv, Idle, HasOrFinds
<1>7. PageInv(p)'
  <2>1. phase[p] = "status" /\ DOMAIN results[p] = {}
    BY DEF PageInv
  <2>2. DOMAIN status_all[p] \cap Traceable \subseteq info \cup {Master}
    BY <1>2 DEF PageInv, HeardOf
  <2>3. \A c \in info : children'[c] \in Traceable => children'[c] \in info \cup {Master}
    BY <1>2, <1>3 DEF ServerInv, HasOrFinds
  <2>4. \A c \in status'[p] : c \in asked'[p] \/ HasBasic(p, c)
    BY <1>4
  <2>5. HasBasic(p, Master)' = HasBasic(p, Master)
        /\ \A c \in info : HasBasic(p, c)' = HasBasic(p, c)
    BY DEF HasBasic
  <2>6. \A c \in (info \cup {Master}) \cap Alive :
            ppid[c] \in Traceable => ppid[c] \in info \cup {Master}
    BY <1>2, MonitorAssumption DEF ServerInv, HasOrFinds, TypeOK, Traceable, Pids
  <2>7. UpdateInv(p)'
    BY <1>1, <1>2, <1>4, <2>1, <2>2, <2>3, <2>4, <2>5, <2>6 DEF UpdateInv
  <2>8. p # NoPage
    BY MonitorAssumption
  <2>9. info \cup {Master} \subseteq born
    BY DEF ServerInv, TypeOK
  <2>10. (HeardOf(p) \cup refused[p])' \subseteq born
    BY <1>4, <2>9 DEF HeardOf, PageInv
  <2>11. HeardOf(p)' \cap Traceable \subseteq info \cup {Master}
    BY <1>4, <2>2 DEF HeardOf
  <2> QED BY <1>1, <1>2, <1>4, <2>7, <2>8, <2>10, <2>11 DEF PageInv
<1>8. ASSUME NEW q \in Pages, q # p PROVE PageInv(q)'
  <2>1. status'[q] = status[q] /\ asked'[q] = asked[q] /\ phase'[q] = phase[q]
    BY <1>8 DEF TypeOK
  <2>2. HeardOf(q)' = HeardOf(q)
    BY <2>1 DEF HeardOf
  <2>3. phase[q] = "basic" => UpdateInv(q)'
    BY <1>1, <1>2, <1>3, <2>1 DEF PageInv, UpdateInv, HasBasic
  <2>4. q # NoPage
    BY MonitorAssumption
  <2> QED BY <1>1, <1>2, <2>1, <2>2, <2>3, <2>4 DEF PageInv
<1>9. (MarkedHasReason /\ RefusedHasReason /\ ParentShown)'
  BY <1>1 DEF MarkedHasReason, RefusedHasReason, ParentShown
<1> QED BY <1>5, <1>6, <1>7, <1>8, <1>9

-----------------------------------------------------------------------------
(* The pages. Each of their steps changes what one page knows, and no page's view  *)
(* depends on another page's.                                                      *)

LEMMA OtherPage ==
    ASSUME IInv, NEW q \in Pages, UNCHANGED <<osVars, serverVars>>,
           phase'[q] = phase[q], status'[q] = status[q], asked'[q] = asked[q],
           results'[q] = results[q], refused'[q] = refused[q],
           status_all'[q] = status_all[q]
    PROVE  PageInv(q)'
<1> USE DEF osVars, serverVars
<1>1. Alive' = Alive /\ Traceable' = Traceable /\ HeardOf(q)' = HeardOf(q)
  BY DEF Alive, Traceable, HeardOf
<1>2. phase[q] = "basic" => UpdateInv(q)'
  BY <1>1 DEF IInv, PageInv, UpdateInv, HasBasic
<1> QED BY <1>1, <1>2 DEF IInv, PageInv

LEMMA ServerUntouched ==
    ASSUME IInv, UNCHANGED <<osVars, serverVars>>
    PROVE  /\ ServerInv' /\ Alive' = Alive /\ Traceable' = Traceable
      /\ Parents' = Parents /\ Shown' = Shown
<1> USE DEF osVars, serverVars
<1>1. /\ Alive' = Alive /\ Traceable' = Traceable
      /\ Parents' = Parents /\ Shown' = Shown
  BY DEF Alive, Traceable, Parents, Shown
<1>2. ServerInv'
  BY <1>1 DEF IInv, ServerInv, Idle, HasOrFinds
<1> QED BY <1>1, <1>2

\* A page that only waits for something else, or that stops.
LEMMA PhaseInv ==
    ASSUME IInv, NEW p \in Pages, NEW ph \in {"status", "stopped"},
           phase' = [phase EXCEPT ![p] = ph],
           ph = "status" => phase[p] \in {"loading", "waiting"},
           UNCHANGED <<osVars, children, recent, found, status, asked, results,
                       refused, status_all>>,
           IF ph = "stopped" THEN found = {} /\ Answered
           ELSE UNCHANGED <<serving, info, dead_children>>
    PROVE  IInv'
<1> USE DEF IInv, osVars, Answered
<1>1. /\ Alive' = Alive /\ Traceable' = Traceable
      /\ Parents' = Parents /\ Shown' = Shown
  BY DEF Alive, Traceable, Parents, Shown
<1>2. phase'[p] = ph /\ \A q \in Pages : q # p => phase'[q] = phase[q]
  BY DEF TypeOK
<1>3. TypeOK'
  <2>1. phase' \in [Pages -> Phases]
    BY DEF TypeOK, Phases
  <2> QED BY <1>1, <2>1 DEF TypeOK
<1>4. ServerInv'
  <2>1. CASE ph = "status"
    BY <1>1, <2>1 DEF ServerInv, Idle, HasOrFinds
  <2>2. CASE ph = "stopped"
    BY <1>1, <2>2 DEF ServerInv, Idle, HasOrFinds
  <2> QED BY <2>1, <2>2
<1>5. ASSUME NEW q \in Pages PROVE PageInv(q)'
  <2>1. HeardOf(q)' = HeardOf(q)
    BY DEF HeardOf
  <2>2. q # NoPage
    BY MonitorAssumption
  <2>3. phase'[q] = "basic" => phase[q] = "basic" /\ UpdateInv(q)'
    BY <1>1, <1>2 DEF PageInv, UpdateInv, HasBasic
  <2> QED BY <1>1, <1>2, <2>1, <2>2, <2>3 DEF PageInv
<1>6. (MarkedHasReason /\ RefusedHasReason /\ ParentShown)'
  BY <1>1 DEF MarkedHasReason, RefusedHasReason, ParentShown
<1> QED BY <1>3, <1>4, <1>5, <1>6

LEMMA CloseInv ==
    ASSUME IInv, NEW p \in Pages, Close(p)
    PROVE  IInv'
<1> USE DEF IInv, Close
<1>1. /\ ServerInv' /\ Alive' = Alive /\ Traceable' = Traceable
      /\ Parents' = Parents /\ Shown' = Shown
  BY ServerUntouched
<1>2. /\ phase'[p] = "stopped" /\ DOMAIN status_all'[p] = {}
      /\ \A q \in Pages : q # p => phase'[q] = phase[q] /\ status_all'[q] = status_all[q]
  BY DEF TypeOK
<1>3. TypeOK'
  <2>1. phase' \in [Pages -> Phases] /\ DOMAIN status_all' = Pages
    BY DEF TypeOK, Phases
  <2>2. \A q \in Pages : /\ DOMAIN status_all'[q] \subseteq Pids
                         /\ status_all'[q] \in [DOMAIN status_all'[q] -> Shown]
    BY <1>2 DEF TypeOK
  <2> QED BY <1>1, <2>1, <2>2 DEF TypeOK, osVars, serverVars
<1>4. PageInv(p)'
  <2>1. HeardOf(p)' \subseteq HeardOf(p)
    BY <1>2 DEF HeardOf
  <2>2. serving # p
    BY DEF PageInv
  <2> QED BY <1>1, <1>2, <2>1, <2>2 DEF PageInv, osVars, serverVars
<1>5. ASSUME NEW q \in Pages, q # p PROVE PageInv(q)'
  BY <1>2, <1>5, OtherPage
<1>6. (MarkedHasReason /\ RefusedHasReason /\ ParentShown)'
  BY <1>1, <1>2 DEF MarkedHasReason, RefusedHasReason, ParentShown
<1> QED BY <1>1, <1>3, <1>4, <1>5, <1>6

LEMMA AnswerBasicInv ==
    ASSUME IInv, NEW p \in Pages, NEW c \in Pids, AnswerBasic(p, c)
    PROVE  IInv'
<1> USE DEF IInv, AnswerBasic
<1>1. /\ ServerInv' /\ Alive' = Alive /\ Traceable' = Traceable
      /\ Parents' = Parents /\ Shown' = Shown
  BY ServerUntouched
<1> DEFINE parent == IF c = Master THEN Outside ELSE children[c]
<1>2. /\ DOMAIN results'[p] = DOMAIN results[p] \cup {c}
      /\ results'[p][c] = parent
      /\ \A d \in DOMAIN results[p] : d # c => results'[p][d] = results[p][d]
      /\ results'[p] \in [DOMAIN results'[p] -> Parents]
  <2>1. parent \in Parents
    BY DEF TypeOK, Parents
  <2>2. results'[p] = [d \in DOMAIN results[p] \cup {c} |->
                         IF d # c THEN results[p][d] ELSE parent]
    BY DEF TypeOK
  <2> QED BY <2>1, <2>2 DEF TypeOK
<1>3. asked'[p] = asked[p] \ {c}
  BY DEF TypeOK
<1>4. \A q \in Pages : q # p => results'[q] = results[q] /\ asked'[q] = asked[q]
  BY DEF TypeOK
<1>5. TypeOK'
  <2>1. asked' \in [Pages -> SUBSET Pids] /\ DOMAIN results' = Pages
    BY DEF TypeOK
  <2>2. ASSUME NEW q \in Pages
        PROVE  /\ DOMAIN results'[q] \subseteq Pids
               /\ results'[q] \in [DOMAIN results'[q] -> Parents]
    BY <1>2, <1>4 DEF TypeOK
  <2> QED BY <1>1, <2>1, <2>2 DEF TypeOK, osVars, serverVars
<1>6. PageInv(p)'
  <2>1. UpdateInv(p)
    BY DEF PageInv
  <2>2. parent \in Traceable => parent \in status[p]
    BY <2>1, MonitorAssumption DEF UpdateInv, TypeOK, Pids, Traceable
  <2>3. UpdateInv(p)'
    BY <1>1, <1>2, <1>3, <2>1, <2>2 DEF UpdateInv, HasBasic, osVars, serverVars
  <2>4. HeardOf(p)' \subseteq HeardOf(p)
    BY <1>3 DEF HeardOf
  <2> QED BY <1>1, <2>3, <2>4 DEF PageInv, osVars, serverVars
<1>7. ASSUME NEW q \in Pages, q # p PROVE PageInv(q)'
  BY <1>4, <1>7, OtherPage
<1>8. (MarkedHasReason /\ RefusedHasReason /\ ParentShown)'
  BY <1>1 DEF MarkedHasReason, RefusedHasReason, ParentShown
<1> QED BY <1>1, <1>5, <1>6, <1>7, <1>8

\* What the server does not know, of what it was asked for, is not traceable.
LEMMA RefuseBasicInv ==
    ASSUME IInv, NEW p \in Pages, NEW c \in Pids, RefuseBasic(p, c)
    PROVE  IInv'
<1> USE DEF IInv, RefuseBasic
<1>1. /\ ServerInv' /\ Alive' = Alive /\ Traceable' = Traceable
      /\ Parents' = Parents /\ Shown' = Shown
  BY ServerUntouched
<1>2. c \notin Traceable /\ c \in born
  BY DEF PageInv, HeardOf
<1>3. /\ phase'[p] = "stopped" /\ refused'[p] = {c} /\ asked'[p] = {}
      /\ \A q \in Pages : q # p => /\ phase'[q] = phase[q]
                                  /\ refused'[q] = refused[q]
                                  /\ asked'[q] = asked[q]
  BY DEF TypeOK
<1>4. TypeOK'
  <2>1. phase' \in [Pages -> Phases] /\ asked' \in [Pages -> SUBSET Pids]
        /\ refused' \in [Pages -> SUBSET Pids]
    BY DEF TypeOK, Phases
  <2> QED BY <1>1, <2>1 DEF TypeOK, osVars, serverVars
<1>5. PageInv(p)'
  <2>1. HeardOf(p)' \subseteq HeardOf(p)
    BY <1>3 DEF HeardOf
  <2>2. serving # p
    BY MonitorAssumption DEF Idle
  <2> QED BY <1>1, <1>2, <1>3, <2>1, <2>2 DEF PageInv, osVars, serverVars
<1>6. ASSUME NEW q \in Pages, q # p PROVE PageInv(q)'
  BY <1>3, <1>6, OtherPage
<1>7. RefusedHasReason'
  BY <1>1, <1>2, <1>3 DEF RefusedHasReason
<1>8. (MarkedHasReason /\ ParentShown)'
  BY <1>1 DEF MarkedHasReason, ParentShown
<1> QED BY <1>1, <1>4, <1>5, <1>6, <1>7, <1>8

\* A traceable process is in the answer, so it is neither marked nor culled; and so is
\* a traceable parent, whether it is told now or was told before.
LEMMA UpdatePageInv ==
    ASSUME IInv, NEW p \in Pages, Update(p)
    PROVE  IInv'
<1> USE DEF IInv
<1> DEFINE all == DOMAIN status_all[p] \cup status[p]
           merged == [c \in all |-> Aged(Merged(p, c))]
           kept == {c \in all : ~TooOld(merged[c])}
<1>1. /\ ServerInv' /\ Alive' = Alive /\ Traceable' = Traceable
      /\ Parents' = Parents /\ Shown' = Shown
  BY ServerUntouched DEF Update
<1>2. /\ phase[p] = "basic" /\ asked[p] = {} /\ UpdateInv(p)
      /\ UNCHANGED <<osVars, serverVars, asked, refused>>
  BY DEF Update, PageInv
<1>3. /\ phase'[p] = "waiting" /\ status'[p] = {} /\ DOMAIN results'[p] = {}
      /\ status_all'[p] = [c \in kept |-> merged[c]]
      /\ results'[p] = [c \in {} |-> NoPid]
  BY DEF Update, TypeOK
<1>4. \A q \in Pages : q # p => /\ phase'[q] = phase[q] /\ status'[q] = status[q]
                              /\ results'[q] = results[q]
                              /\ status_all'[q] = status_all[q]
  BY DEF Update, TypeOK
<1>5. ASSUME NEW c \in all
      PROVE  /\ Merged(p, c).is_running = (c \in status[p])
             /\ Merged(p, c) \in Shown
             /\ merged[c].parent_pid = Merged(p, c).parent_pid
             /\ merged[c].is_running \in BOOLEAN
             /\ merged[c].is_running = Merged(p, c).is_running
             /\ merged[c].age = IF c \in status[p] THEN Merged(p, c).age
                                ELSE Merged(p, c).age + 1
             /\ merged[c] = [is_running |-> merged[c].is_running, age |-> merged[c].age,
                             parent_pid |-> merged[c].parent_pid]
  <2>1. (IF c \in DOMAIN status_all[p] THEN status_all[p][c].age ELSE 0) \in 0..KeepDeadFor
    BY MonitorAssumption DEF TypeOK, Shown
  <2>2. (IF c \in DOMAIN results[p] THEN results[p][c]
         ELSE IF c \in DOMAIN status_all[p] THEN status_all[p][c].parent_pid ELSE NoPid)
            \in Parents
    BY DEF TypeOK, Shown, Parents
  <2>3. Merged(p, c) \in Shown /\ Merged(p, c).is_running = (c \in status[p])
    BY <2>1, <2>2 DEF Merged, Shown
  <2> QED BY <2>3 DEF Aged, IsDead, Shown
<1> HIDE DEF merged
<1>6. ASSUME NEW c \in all, c \in Traceable
      PROVE  c \in status[p] /\ c \in kept
  <2>1. c \in status[p]
    BY <1>2, <1>6 DEF UpdateInv
  <2>2. merged[c].age \in 0..KeepDeadFor
    BY <1>5, <2>1 DEF Shown
  <2> QED BY <2>1, <2>2, MonitorAssumption DEF TooOld
<1>7. ASSUME NEW c \in kept PROVE merged[c] \in Shown
  <2>1. c \in all /\ ~(merged[c].age > KeepDeadFor)
    BY DEF TooOld
  <2>2. Merged(p, c).age \in 0..KeepDeadFor /\ Merged(p, c).parent_pid \in Parents
    BY <1>5, <2>1 DEF Shown
  <2>3. merged[c].age = Merged(p, c).age \/ merged[c].age = Merged(p, c).age + 1
    BY <1>5, <2>1
  <2>4. merged[c].age \in 0..KeepDeadFor
    BY <2>1, <2>2, <2>3, MonitorAssumption
  <2>5. merged[c].is_running \in BOOLEAN /\ merged[c].parent_pid \in Parents
    BY <1>5, <2>1, <2>2
  <2>6. merged[c] = [is_running |-> merged[c].is_running, age |-> merged[c].age,
                     parent_pid |-> merged[c].parent_pid]
    BY <1>5, <2>1
  <2> QED BY <2>4, <2>5, <2>6 DEF Shown
<1>8. TypeOK'
  <2>1. phase' \in [Pages -> Phases] /\ status' \in [Pages -> SUBSET Pids]
        /\ DOMAIN results' = Pages /\ DOMAIN status_all' = Pages
    BY DEF Update, TypeOK, Phases
  <2>2. ASSUME NEW q \in Pages
        PROVE  /\ DOMAIN results'[q] \subseteq Pids
               /\ results'[q] \in [DOMAIN results'[q] -> Parents]
               /\ DOMAIN status_all'[q] \subseteq Pids
               /\ status_all'[q] \in [DOMAIN status_all'[q] -> Shown]
    <3>1. CASE q = p
      <4>1. kept \subseteq Pids
        BY DEF TypeOK
      <4> QED BY <1>3, <1>7, <3>1, <4>1
    <3>2. CASE q # p
      BY <1>4, <3>2 DEF TypeOK
    <3> QED BY <3>1, <3>2
  <2> QED BY <1>1, <1>2, <2>1, <2>2 DEF TypeOK, osVars, serverVars
<1>9. PageInv(p)'
  <2>1. HeardOf(p)' \subseteq HeardOf(p)
    BY <1>2, <1>3 DEF HeardOf
  <2>2. serving # p
    BY <1>2 DEF PageInv
  <2> QED BY <1>1, <1>2, <1>3, <2>1, <2>2 DEF PageInv, osVars, serverVars
<1>10. ASSUME NEW q \in Pages, q # p PROVE PageInv(q)'
  BY <1>2, <1>4, <1>10, OtherPage
<1>11. MarkedHasReason'
  <2>1. \A c \in kept : ~merged[c].is_running => c \notin Traceable
    BY <1>5, <1>6
  <2> QED BY <1>1, <1>3, <1>4, <2>1 DEF MarkedHasReason
<1>12. RefusedHasReason'
  BY <1>1, <1>2 DEF RefusedHasReason
<1>13. ParentShown'
  <2>1. ASSUME NEW c \in kept, merged[c].parent_pid \in Traceable
        PROVE  merged[c].parent_pid \in all
    <3>1. CASE c \in DOMAIN results[p]
      BY <1>2, <1>5, <2>1, <3>1 DEF UpdateInv, Merged
    <3>2. CASE c \notin DOMAIN results[p]
      <4>1. c \in DOMAIN status_all[p]
        BY <1>2, <3>2 DEF UpdateInv, HasBasic
      <4>2. merged[c].parent_pid = status_all[p][c].parent_pid
        BY <1>5, <3>2, <4>1 DEF Merged
      <4> QED BY <2>1, <4>1, <4>2 DEF ParentShown
    <3> QED BY <3>1, <3>2
  <2>2. \A c \in kept : merged[c].parent_pid \in Traceable => merged[c].parent_pid \in kept
    BY <1>6, <2>1
  <2> QED BY <1>1, <1>3, <1>4, <2>2 DEF ParentShown
<1> QED BY <1>1, <1>8, <1>9, <1>10, <1>11, <1>12, <1>13

-----------------------------------------------------------------------------
LEMMA StepInv == IInv /\ [Next]_vars => IInv'
<1> SUFFICES ASSUME IInv, [Next]_vars PROVE IInv'
  OBVIOUS
<1>1. CASE UNCHANGED vars
  BY <1>1 DEF vars, osVars, serverVars, pageVars, IInv, TypeOK, ServerInv, PageInv,
              UpdateInv, HeardOf, HasBasic, HasOrFinds, Idle, Alive, Traceable, Parents, Shown,
              MarkedHasReason, RefusedHasReason, ParentShown
<1>2. CASE Processing
  BY <1>2, ForkInv, ExitInv, ChangesUserInv DEF Processing
<1>3. CASE Serve
  BY <1>3, ReadBasicInfoInv, ReadProcessStatusInv, GetProcessStatusInv DEF Serve
<1>4. CASE SecondPasses
  BY <1>4, SecondPassesInv
<1>5. ASSUME NEW p \in Pages, Answer(p) PROVE IInv'
  <2>1. CASE AnswerMaster(p)
    BY <2>1, PhaseInv DEF AnswerMaster, serverVars
  <2> QED BY <1>5, <2>1, UpdateChildrenInv, AnswerBasicInv, RefuseBasicInv DEF Answer
<1>6. ASSUME NEW p \in Pages, StatusFails(p) PROVE IInv'
  BY <1>6, PhaseInv DEF StatusFails
<1>7. ASSUME NEW p \in Pages, Showing(p) PROVE IInv'
  <2>1. CASE Poll(p)
    BY <2>1, PhaseInv DEF Poll, serverVars
  <2> QED BY <1>7, <2>1, UpdatePageInv, CloseInv DEF Showing
<1> QED BY <1>1, <1>2, <1>3, <1>4, <1>5, <1>6, <1>7 DEF Next

\* The inductive invariant of pmon.
THEOREM Invariance == Spec => []IInv
BY InitInv, StepInv, PTL DEF Spec

\* Every variable keeps its type, and no dead process is kept too long.
THEOREM TypeCorrect == Spec => []TypeOK
<1>1. IInv => TypeOK
  BY DEF IInv
<1> QED BY <1>1, Invariance, PTL

\* What a page marks as dead is dead, or was once denied to the server.
THEOREM OnlyMarkedWithReason == Spec => []MarkedHasReason
<1>1. IInv => MarkedHasReason
  BY DEF IInv
<1> QED BY <1>1, Invariance, PTL

\* What the server refuses to tell about is dead, or was once denied to it.
THEOREM OnlyRefusedWithReason == Spec => []RefusedHasReason
<1>1. IInv => RefusedHasReason
  BY DEF IInv
<1> QED BY <1>1, Invariance, PTL

\* Processes are shown with those of their parents that are traceable.
THEOREM ShownWithParent == Spec => []ParentShown
<1>1. IInv => ParentShown
  BY DEF IInv
<1> QED BY <1>1, Invariance, PTL

-----------------------------------------------------------------------------
(* A single page is never refused, so that only a request that fails stops it: the *)
(* server forgets children when it answers a /status, and the page asks for what   *)
(* that answer has. With a second page, another answer may come in between.        *)

AskedForKnown ==
    /\ IInv
    /\ \A p \in Pages : /\ refused[p] = {}
                        /\ phase[p] = "basic" => asked[p] \subseteq DOMAIN children \cup {Master}

THEOREM AloneNeverRefused ==
    ASSUME NEW p, Pages = {p}
    PROVE  Spec => [](refused[p] = {})
<1>1. Init => AskedForKnown
  BY InitInv DEF AskedForKnown, Init
<1>2. AskedForKnown /\ [Next]_vars => AskedForKnown'
  <2> SUFFICES ASSUME AskedForKnown, [Next]_vars PROVE AskedForKnown'
    OBVIOUS
  <2> USE DEF AskedForKnown
  <2>1. IInv'
    BY StepInv
  <2>2. p \in Pages /\ \A q \in Pages : q = p
    OBVIOUS
  <2>3. TypeOK
    BY DEF IInv
  <2>4. CASE UNCHANGED vars
    BY <2>1, <2>4 DEF vars, serverVars, pageVars
  <2>5. CASE Processing
    BY <2>1, <2>5 DEF Processing, Fork, ChangesUser, ProcessExits, serverVars, pageVars
  <2>6. ASSUME NEW c \in Processes, ReadBasicInfo(c) \/ ReadProcessStatus(c)
        PROVE  AskedForKnown'
    BY <2>1, <2>6 DEF ReadBasicInfo, ReadProcessStatus, pageVars
  <2>7. CASE GetProcessStatus(p)
    <3>1. asked'[p] \subseteq info \cup {Master} /\ info \subseteq Kept
      BY <2>2, <2>3, <2>7 DEF GetProcessStatus, Kept, IInv, ServerInv, TypeOK
    <3>2. DOMAIN children' = Kept /\ refused' = refused
      BY <2>7 DEF GetProcessStatus
    <3>3. asked'[p] \subseteq DOMAIN children' \cup {Master}
      BY <3>1, <3>2
    <3>4. ASSUME NEW q \in Pages
          PROVE  refused'[q] = {} /\ asked'[q] \subseteq DOMAIN children' \cup {Master}
      <4>1. q = p
        BY <2>2
      <4> QED BY <3>2, <3>3, <4>1
    <3> QED BY <2>1, <3>4
  <2>8. CASE SecondPasses \/ UpdateChildren(p)
    BY <2>1, <2>8 DEF SecondPasses, UpdateChildren, pageVars
  <2>9. CASE AnswerMaster(p) \/ Poll(p)
    BY <2>1, <2>2, <2>3, <2>9 DEF AnswerMaster, Poll, serverVars, TypeOK
  <2>10. ASSUME NEW c \in Pids, AnswerBasic(p, c) PROVE AskedForKnown'
    BY <2>1, <2>2, <2>3, <2>10 DEF AnswerBasic, serverVars, TypeOK
  <2>11. ASSUME NEW c \in Pids, RefuseBasic(p, c) PROVE FALSE
    BY <2>2, <2>11 DEF RefuseBasic
  <2>12. CASE StatusFails(p)
    BY <2>1, <2>2, <2>3, <2>12 DEF StatusFails, TypeOK
  <2>13. CASE Update(p)
    BY <2>1, <2>2, <2>3, <2>13 DEF Update, serverVars, TypeOK
  <2>14. CASE Close(p)
    BY <2>1, <2>2, <2>3, <2>14 DEF Close, serverVars, TypeOK
  <2> QED BY <2>2, <2>4, <2>5, <2>6, <2>7, <2>8, <2>9, <2>10, <2>11, <2>12, <2>13,
          <2>14
          DEF Next, Serve, Answer, Showing
<1>3. AskedForKnown => refused[p] = {}
  BY DEF AskedForKnown
<1> QED BY <1>1, <1>2, <1>3, PTL DEF Spec

=============================================================================
