--------------------------- MODULE ProcessMonitor ---------------------------
(***************************************************************************)
(* pmon: a flow process serves what it knows of itself and the processes   *)
(* below it (process_monitor.py, process_info.py), and pages in browsers   *)
(* poll it and show it (web/js/app.js, web/js/services.js).                 *)
(*                                                                          *)
(* Three actors that never wait for each other: the operating system,      *)
(* where processes are born and die while they are looked at; the server,  *)
(* which answers one request at a time but not at one moment; the pages,   *)
(* each of which goes on only when its last requests were answered.        *)
(* The server may not look into a process that runs as another user, as    *)
(* what sudo starts does, and takes it for dead. Of what is shown of a     *)
(* process, its attributes, files and histories are left out.              *)
(***************************************************************************)
EXTENDS Naturals, FiniteSets

CONSTANTS
    Master,         \* the process that is monitored, and serves
    Processes,      \* the pids of other processes, each used once
    Setuid,         \* those that may execute a program of another user
    Dropping,       \* those that may become the user of Master again
    Outside,        \* who adopts orphans, and started Master: not monitored
    NoPid,          \* no parent_pid is known
    Pages,          \* pages that show Master
    Brief,          \* those that are closed after their first round
    NoPage,
    KeepDeadFor     \* KEEP_DEAD_PROCESSES_FOR

Pids == Processes \cup {Master}

ASSUME MonitorAssumption ==
    /\ Master \notin Processes
    /\ Setuid \subseteq Processes /\ Dropping \subseteq Processes
    /\ Outside \notin Pids
    /\ NoPid \notin Pids
    /\ Brief \subseteq Pages
    /\ NoPage \notin Pages
    /\ KeepDeadFor \in Nat

VARIABLES
    born,           \* the pids that were used
    ppid,           \* parents of the processes that are alive
    private,        \* processes of another user: psutil raises AccessDenied
    denied,         \* history: those for which the server once met it
    \* ParentProcessInfo
    children,       \* the parent_pid in the basic info of each child it has
    recent,         \* _last_children_update is less than a second ago
    serving,        \* the page whose /status is being answered
    found,          \* new processes that have no SingleProcessInfo yet
    info,           \* children in the answer so far
    dead_children,
    \* each page
    phase,
    status,         \* pids of the last answer to /status
    asked,          \* requests for /basic/<pid> that are not answered
    results,        \* answers to those requests: a parent_pid for each
    refused,        \* the pid that the server did not know
    status_all      \* status_all.processes by pid

osVars == <<born, ppid, private, denied>>
serverVars == <<children, recent, serving, found, info, dead_children>>
pageVars == <<phase, status, asked, results, refused, status_all>>
vars == <<osVars, serverVars, pageVars>>

-----------------------------------------------------------------------------
(* The operating system. *)

Alive == DOMAIN ppid

\* The processes below root: the least set that has each child of its own.
Below(root, parents) ==
    {c \in DOMAIN parents :
        \A S \in SUBSET DOMAIN parents :
            (\A d \in DOMAIN parents : parents[d] \in S \cup {root} => d \in S)
                => c \in S}

\* The user is inherited.
Fork(q, c) ==
    /\ c \in Processes \ born
    /\ born' = born \cup {c}
    /\ ppid' = [d \in Alive \cup {c} |-> IF d = c THEN q ELSE ppid[d]]
    /\ private' = IF q \in private THEN private \cup {c} ELSE private
    /\ UNCHANGED <<denied, serverVars, pageVars>>

ChangesUser(c) ==
    /\ \/ c \in Setuid \ private /\ private' = private \cup {c}
       \/ c \in Dropping \cap private /\ private' = private \ {c}
    /\ UNCHANGED <<born, ppid, denied, serverVars, pageVars>>

\* Its children live on as orphans. Master serves as long as anything happens.
ProcessExits(c) ==
    /\ c # Master
    /\ ppid' = [d \in Alive \ {c} |-> IF ppid[d] = c THEN Outside ELSE ppid[d]]
    /\ private' = private \ {c}
    /\ UNCHANGED <<born, denied, serverVars, pageVars>>

-----------------------------------------------------------------------------
(* The server. Its reactor answers requests one after the other. *)

Idle == serving = NoPage

\* Faulty: children are looked for only as long as there are none.
ShouldUpdateAtFirst == ~recent /\ DOMAIN children = {}

\* freq <= max_freq
ShouldUpdateChildren == ~recent

\* process.get_children(recursive=True)
GetChildren == Below(Master, ppid)

\* /status is requested: the processes to know from now on.
UpdateChildren(p) ==
    /\ Idle
    /\ phase[p] = "status"
    /\ serving' = p
    /\ recent' = TRUE
    /\ found' = IF ShouldUpdateChildren THEN GetChildren \ DOMAIN children ELSE {}
    /\ UNCHANGED <<osVars, children, info, dead_children, pageVars>>

\* psutil raises no error.
Readable(c) == c \in Alive \ private

\* Basic info is read once, and lacks a parent when that raises any error of psutil.
ReadBasicInfo(c) ==
    /\ c \in found
    /\ found' = found \ {c}
    /\ children' = [d \in DOMAIN children \cup {c} |->
                        IF d # c THEN children[d]
                        ELSE IF Readable(c) THEN ppid[c] ELSE NoPid]
    /\ UNCHANGED <<osVars, recent, serving, info, dead_children, pageVars>>

\* Faulty: of self._children, as they are below Master, instead of self.children.
UnreadBelow == (DOMAIN children \cap GetChildren) \ (info \cup dead_children)

Unread == DOMAIN children \ (info \cup dead_children)

\* None for any error of psutil: the process is gone, or access is denied.
ReadProcessStatus(c) ==
    /\ ~Idle
    /\ found = {}
    /\ c \in Unread
    /\ \/ Readable(c) /\ info' = info \cup {c} /\ UNCHANGED <<dead_children, denied>>
       \/ /\ ~Readable(c)
          /\ dead_children' = dead_children \cup {c}
          /\ denied' = denied \cup ({c} \cap Alive)
          /\ UNCHANGED info
    /\ UNCHANGED <<born, ppid, private, children, recent, serving, found, pageVars>>

\* Faulty: only those that are below Master.
KeptBelow == (DOMAIN children \ dead_children) \cap GetChildren

\* The children the server goes on with.
Kept == DOMAIN children \ dead_children

Answered == /\ serving' = NoPage
            /\ info' = {}
            /\ dead_children' = {}

\* currentProcess, and whether it has a parent_pid
HasBasic(p, c) == /\ c \in DOMAIN status_all[p]
                  /\ status_all[p][c].parent_pid # NoPid

\* The answer is sent, and the page asks for what it lacks (basic_deferreds). One
\* step, as what a page knows changes in no step but its own.
GetProcessStatus(p) ==
    /\ serving = p
    /\ found = {}
    /\ Unread = {}
    /\ children' = [c \in Kept |-> children[c]]
    /\ status' = [status EXCEPT ![p] = info \cup {Master}]
    /\ asked' = [asked EXCEPT ![p] = {c \in info \cup {Master} : ~HasBasic(p, c)}]
    /\ phase' = [phase EXCEPT ![p] = "basic"]
    /\ Answered
    /\ UNCHANGED <<osVars, recent, found, results, refused, status_all>>

\* A file that is gone when it is looked at (get_file_stats) raises OSError.
StatusFails(p) ==
    /\ serving = p
    /\ found = {}
    /\ phase' = [phase EXCEPT ![p] = "stopped"]
    /\ Answered
    /\ UNCHANGED <<osVars, children, recent, found, status, asked, results, refused,
                   status_all>>

SecondPasses ==
    /\ recent
    /\ recent' = FALSE
    /\ UNCHANGED <<osVars, children, serving, found, info, dead_children,
                   pageVars>>

-----------------------------------------------------------------------------
(* The pages. *)

\* The page was loaded and asked for /basic; app.js then calls the poller.
AnswerMaster(p) ==
    /\ Idle
    /\ phase[p] = "loading"
    /\ phase' = [phase EXCEPT ![p] = "status"]
    /\ UNCHANGED <<osVars, serverVars, status, asked, results, refused, status_all>>

\* BasicResource.getChild, which knows Master as well
AnswerBasic(p, c) ==
    /\ Idle
    /\ phase[p] = "basic"
    /\ c \in asked[p] \cap (DOMAIN children \cup {Master})
    /\ asked' = [asked EXCEPT ![p] = @ \ {c}]
    /\ results' = [results EXCEPT ![p] = [d \in DOMAIN @ \cup {c} |->
                        IF d # c THEN @[d]
                        ELSE IF c = Master THEN Outside ELSE children[c]]]
    /\ UNCHANGED <<osVars, serverVars, phase, status, refused, status_all>>

\* NoResource: $q.all is rejected, nothing handles that, and so no timeout is set.
RefuseBasic(p, c) ==
    /\ Idle
    /\ phase[p] = "basic"
    /\ c \in asked[p] \ (DOMAIN children \cup {Master})
    /\ phase' = [phase EXCEPT ![p] = "stopped"]
    /\ refused' = [refused EXCEPT ![p] = {c}]
    /\ asked' = [asked EXCEPT ![p] = {}]
    /\ UNCHANGED <<osVars, serverVars, status, results, status_all>>

\* mergeProcess keeps what the answer does not have: the age, and the basic info.
Merged(p, c) ==
    LET known == c \in DOMAIN status_all[p]
    IN  [is_running |-> c \in status[p],
         age |-> IF known THEN status_all[p][c].age ELSE 0,
         parent_pid |-> IF c \in DOMAIN results[p] THEN results[p][c]
                        ELSE IF known THEN status_all[p][c].parent_pid ELSE NoPid]

\* Faulty: all processes grow older.
IsAny(process) == TRUE

\* dead_processes
IsDead(process) == ~process.is_running

Aged(process) == IF IsDead(process) THEN [process EXCEPT !.age = @ + 1] ELSE process

\* Faulty: one round late.
TooOldLate(process) == process.age > KeepDeadFor + 1

\* to_be_culled
TooOld(process) == process.age > KeepDeadFor

\* All answers are there: merge, mark the dead, cull the old among them.
\* `status.processes' (services.js:261) is undefined: no children are culled.
Update(p) ==
    LET merged == [c \in DOMAIN status_all[p] \cup status[p] |-> Aged(Merged(p, c))]
    IN  /\ phase[p] = "basic"
        /\ asked[p] = {}
        /\ phase' = [phase EXCEPT ![p] = "waiting"]
        /\ status_all' = [status_all EXCEPT ![p] =
               [c \in {d \in DOMAIN merged : ~TooOld(merged[d])} |-> merged[c]]]
        /\ results' = [results EXCEPT ![p] = [c \in {} |-> NoPid]]
        /\ status' = [status EXCEPT ![p] = {}]
        /\ UNCHANGED <<osVars, serverVars, asked, refused>>

\* $timeout(poller, UPDATE_DELTA)
Poll(p) ==
    /\ p \notin Brief
    /\ phase[p] = "waiting"
    /\ phase' = [phase EXCEPT ![p] = "status"]
    /\ UNCHANGED <<osVars, serverVars, status, asked, results, refused, status_all>>

\* The browser closes the page.
Close(p) ==
    /\ p \in Brief
    /\ phase[p] = "waiting"
    /\ phase' = [phase EXCEPT ![p] = "stopped"]
    /\ status_all' = [status_all EXCEPT ![p] = [c \in {} |-> NoPid]]
    /\ UNCHANGED <<osVars, serverVars, status, asked, results, refused>>

\* findChildren: what status_processes shows below Master
Tree(p) == Below(Master, [c \in DOMAIN status_all[p] |-> status_all[p][c].parent_pid])

-----------------------------------------------------------------------------
Init ==
    /\ born = {Master}
    /\ ppid = [c \in {Master} |-> Outside]
    /\ private = {}
    /\ denied = {}
    /\ children = [c \in {} |-> NoPid]
    /\ recent = FALSE
    /\ serving = NoPage
    /\ found = {}
    /\ info = {}
    /\ dead_children = {}
    /\ phase = [p \in Pages |-> "loading"]
    /\ status = [p \in Pages |-> {}]
    /\ asked = [p \in Pages |-> {}]
    /\ results = [p \in Pages |-> [c \in {} |-> NoPid]]
    /\ refused = [p \in Pages |-> {}]
    /\ status_all = [p \in Pages |-> [c \in {} |-> NoPid]]

Processing == \/ \E q \in Alive, c \in Processes : Fork(q, c)
              \/ \E c \in Alive : ChangesUser(c) \/ ProcessExits(c)

\* A request of the page is taken up.
Answer(p) == \/ AnswerMaster(p) \/ UpdateChildren(p)
             \/ \E c \in Pids : AnswerBasic(p, c) \/ RefuseBasic(p, c)

\* The answer to /status is put together.
Serve == \/ \E c \in Processes : ReadBasicInfo(c) \/ ReadProcessStatus(c)
         \/ \E p \in Pages : GetProcessStatus(p)

Showing(p) == Update(p) \/ Poll(p) \/ Close(p)

Next ==
    \/ Processing
    \/ Serve
    \/ SecondPasses
    \/ \E p \in Pages : Answer(p) \/ StatusFails(p) \/ Showing(p)

Spec == Init /\ [][Next]_vars

\* Time passes, timers go off, and the reactor takes up each request in its turn.
FairSpec ==
    /\ Spec
    /\ WF_vars(SecondPasses)
    /\ WF_vars(Serve)
    /\ \A p \in Pages : WF_vars(Showing(p)) /\ SF_vars(Answer(p))

-----------------------------------------------------------------------------
Phases == {"loading", "status", "basic", "waiting", "stopped"}

\* What may be known as a parent.
Parents == born \cup {Outside, NoPid}

Shown == [is_running : BOOLEAN, age : 0..KeepDeadFor, parent_pid : Parents]

\* Every variable has its type; in particular no dead process is kept longer than
\* KEEP_DEAD_PROCESSES_FOR rounds (services.js:258).
TypeOK ==
    /\ Master \in born /\ born \subseteq Pids
    /\ Master \in Alive /\ ppid[Master] = Outside /\ Alive \subseteq born
    /\ ppid \in [Alive -> Alive \cup {Outside}]
    /\ private \subseteq Alive \ {Master} /\ denied \subseteq born
    /\ DOMAIN children \subseteq Processes
    /\ children \in [DOMAIN children -> Parents]
    /\ recent \in BOOLEAN
    /\ serving \in Pages \cup {NoPage}
    /\ found \subseteq Processes /\ info \subseteq Processes
    /\ dead_children \subseteq Processes
    /\ phase \in [Pages -> Phases]
    /\ status \in [Pages -> SUBSET Pids]
    /\ asked \in [Pages -> SUBSET Pids]
    /\ refused \in [Pages -> SUBSET Pids]
    /\ DOMAIN results = Pages /\ DOMAIN status_all = Pages
    /\ \A p \in Pages :
         /\ DOMAIN results[p] \subseteq Pids
         /\ results[p] \in [DOMAIN results[p] -> Parents]
         /\ DOMAIN status_all[p] \subseteq Pids
         /\ status_all[p] \in [DOMAIN status_all[p] -> Shown]

\* Processes that live, and that the server was never denied the status of.
Traceable == Alive \ denied

\* A page marks a process as dead (services.js:203) only when it is dead, or when the
\* server was once denied its status: no other reason is there, although a page sees
\* processes only through a server whose own view lags behind.
MarkedHasReason ==
    \A p \in Pages : \A c \in DOMAIN status_all[p] :
        ~status_all[p][c].is_running => c \notin Traceable

\* A page is refused the basic info of a process (process_monitor.py:57) only when that
\* is dead, or the server was once denied its status: it forgets no other process,
\* whichever page it answers.
RefusedHasReason == \A p \in Pages : refused[p] \cap Traceable = {}

\* A process comes with its parent: a parent that a page shows for a process is in the
\* page (services.js:293), unless it is dead or its status was once denied. So nothing
\* else that happens above a process takes it out of the tree.
ParentShown ==
    \A p \in Pages : \A c \in DOMAIN status_all[p] :
        status_all[p][c].parent_pid \in Traceable =>
            status_all[p][c].parent_pid \in DOMAIN status_all[p]

\* Where the server knows parents: a process whose basic info it read while that was
\* another user's has no parent_pid as long as the server keeps it.
Inspected == {c \in Alive \ private : c \in DOMAIN children => children[c] # NoPid}

\* A page that goes on polling (services.js:309) shows in its tree what stays below
\* Master by way of processes that are Inspected, and forgets what is dead or remains
\* another user's.
PagesCatchUp ==
    \A p \in Pages, c \in Processes :
        \/ <>(phase[p] = "stopped")
        \/ /\ <>[](c \in Below(Master, [d \in Inspected |-> ppid[d]]))
                    => <>[](c \in Tree(p))
           /\ <>[](c \in born \ Alive \/ c \in private)
                    => <>[](c \notin DOMAIN status_all[p])

-----------------------------------------------------------------------------
(* The inductive invariant. *)

\* The server's children, with those it is about to have, are the processes below
\* Master as far as it looked: a parent that is traceable is among them.
HasOrFinds == DOMAIN children \cup found \cup {Master}

ServerInv ==
    /\ Idle => found = {} /\ info = {} /\ dead_children = {}
    /\ DOMAIN children \cup found \subseteq born
    /\ found \cap DOMAIN children = {}
    /\ info \cup dead_children \subseteq DOMAIN children
    /\ info \cap dead_children = {}
    /\ dead_children \cap Traceable = {}
    /\ \A c \in (DOMAIN children \cup found) \cap Alive :
            ppid[c] \in Traceable => ppid[c] \in HasOrFinds
    /\ \A c \in DOMAIN children : children[c] \in Traceable => children[c] \in HasOrFinds

\* What a page heard of.
HeardOf(p) == DOMAIN status_all[p] \cup status[p] \cup asked[p]

\* Between the answer to /status and Update: the answer has all of what is shown that
\* is traceable, and with each process its parent if that is.
UpdateInv(p) ==
    /\ DOMAIN status_all[p] \cap Traceable \subseteq status[p]
    /\ asked[p] \subseteq status[p]
    /\ \A c \in status[p] : c \in asked[p] \cup DOMAIN results[p] \/ HasBasic(p, c)
    /\ \A c \in status[p] \cap DOMAIN children :
            children[c] \in Traceable => children[c] \in status[p]
    /\ \A c \in status[p] \cap Alive : ppid[c] \in Traceable => ppid[c] \in status[p]
    /\ \A c \in DOMAIN results[p] :
            results[p][c] \in Traceable => results[p][c] \in status[p]

PageInv(p) ==
    /\ serving = p => phase[p] = "status"
    /\ phase[p] \in {"loading", "status", "waiting"} => DOMAIN results[p] = {}
    /\ HeardOf(p) \cup refused[p] \subseteq born
    /\ HeardOf(p) \cap Traceable \subseteq DOMAIN children \cup {Master}
    /\ phase[p] = "basic" => UpdateInv(p)

IInv ==
    /\ TypeOK
    /\ ServerInv
    /\ \A p \in Pages : PageInv(p)
    /\ MarkedHasReason
    /\ RefusedHasReason
    /\ ParentShown

=============================================================================
