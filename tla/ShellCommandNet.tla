-------------------------- MODULE ShellCommandNet ---------------------------
(***************************************************************************)
(* The net around a shell command, and the services that its dispatch      *)
(* transition sends the command to.  The net is a coloured net as the      *)
(* engine implements it; each job is a color of its own in the same net.   *)
(* Answers come back as tokens in the "msg:" places, in any order, and     *)
(* maybe before the token they are to meet.                                *)
(***************************************************************************)
EXTENDS ShellCommand

VARIABLES due, groups, marking, firing      \* of the coloured net

netVars == <<due, groups, marking, firing>>
vars == <<svars, netVars>>

-----------------------------------------------------------------------------
(* The net that ShellCommandNet and SuccessFailureNet build.               *)

NetInputs == [
    start            |-> {"start"},
    dispatch         |-> {"start_bridge"},
    dispatch_success |-> {"dispatching", "msg: dispatch_success"},
    dispatch_failure |-> {"dispatching", "msg: dispatch_failure"},
    execute_begin    |-> {"pending", "msg: execute_begin"},
    execute_success  |-> {"running", "msg: execute_success"},
    execute_failure  |-> {"running", "msg: execute_failure"},
    success_cleanup  |-> {"success_cleanup"},
    failure_cleanup  |-> {"failure_cleanup"},
    success          |-> {"success_bridge"},
    failure          |-> {"failure_bridge"}]

NetOutputs == [
    start            |-> {"start_bridge"},
    dispatch         |-> {"dispatching"},
    dispatch_success |-> {"pending"},
    dispatch_failure |-> {"failure_cleanup"},
    execute_begin    |-> {"running"},
    execute_success  |-> {"success_cleanup"},
    execute_failure  |-> {"failure_cleanup"},
    success_cleanup  |-> {"success_bridge"},
    failure_cleanup  |-> {"failure_bridge"},
    success          |-> {"success"},
    failure          |-> {"failure"}]

NetTransitions == DOMAIN NetInputs
NetPlaces == UNION {NetInputs[t] \cup NetOutputs[t] : t \in NetTransitions}

\* A client allocates a color group of one color for each job.
NetGroups == {[colors |-> {j}, parent |-> "none"] : j \in Jobs}

Net == INSTANCE ColoredNet WITH
    Places <- NetPlaces,
    Transitions <- NetTransitions,
    Inputs <- NetInputs,
    Outputs <- NetOutputs,
    Effect <- [t \in NetTransitions |-> "same"],
    IsBarrierTransition <- [t \in NetTransitions |-> FALSE],
    Colors <- Jobs,
    StartGroups <- NetGroups,
    Deposits <- Jobs \X {"start"}

-----------------------------------------------------------------------------
Init ==
    /\ ServiceInit
    /\ Net!AbstractInit

Start == Net!Deposit /\ UNCHANGED svars

Begin(j) ==
    \E t \in NetTransitions : Net!Begin(t, {j}) /\ UNCHANGED svars

\* ShellCommandDispatchAction.execute submits the job; the token of the
\* dispatching place is pushed later.
Dispatch(j) ==
    /\ <<"dispatch", {j}>> \in firing
    /\ Submit(j)
    /\ UNCHANGED netVars

End(j) ==
    \E t \in NetTransitions :
        /\ t = "dispatch" => submission[j] # "unsent"
        /\ Net!End(t, {j})
        /\ UNCHANGED svars

\* An answer becomes a token of its place, unless the place holds one already.
Deliver(j) ==
    \E a \in Answers :
        /\ answers[<<j, a>>] > 0
        /\ answers' = [answers EXCEPT ![<<j, a>>] = @ - 1]
        /\ marking' = marking \cup {<<j, a>>}
        /\ UNCHANGED <<service, submission, run, lsf_jobs, stderr_open, historyVars,
                       crashes, due, groups, firing>>

NetStep(j) == Begin(j) \/ Dispatch(j) \/ End(j) \/ Deliver(j)

Progress(j) == NetStep(j) \/ (JobStep(j) /\ UNCHANGED netVars)

Fault(j) == JobFault(j) /\ UNCHANGED netVars

Die(s) == Crash(s) /\ UNCHANGED netVars

Next ==
    \/ Start
    \/ \E j \in Jobs : Progress(j) \/ Fault(j)
    \/ \E s \in Services : Die(s)

Spec == Init /\ [][Next]_vars

\* The services, the executors, LSF, the broker and the orchestrator go on, and
\* commands end.  Nothing has to go wrong.
FairSpec == Spec /\ WF_vars(Start) /\ \A j \in Jobs : WF_vars(Progress(j))

-----------------------------------------------------------------------------
(* Properties.                                                             *)

\* Every variable has its type.
TypeOK ==
    /\ ServiceTypeOK
    /\ due \subseteq Jobs \X {"start"} /\ groups = NetGroups
    /\ marking \subseteq Jobs \X NetPlaces
    /\ firing \subseteq NetTransitions \X {{j} : j \in Jobs}

Marked(j, p) == <<j, p>> \in marking
Outcome(j) == {"success", "failure"} \cap {p \in NetPlaces : Marked(j, p)}

\* The net's outcome is what happened: success only if the command exited with 0
\* in some run, failure only if a run failed, and never both, whatever answers
\* come late, twice, or from a run before a crash.
OutcomeTrue ==
    \A j \in Jobs :
        /\ Marked(j, "success") => "zero" \in results[j]
        /\ Marked(j, "failure") => results[j] \ {"zero"} # {}
        /\ ~(Marked(j, "success") /\ Marked(j, "failure"))

Answered(j) ==
    \/ /\ IdAnswers(j, TRUE) \subseteq answered[j]
       /\ service[j] = "fork" => answered[j] \cap
             {"msg: execute_success", "msg: execute_failure"} # {}
    \/ {"msg: dispatch_failure", "msg: execute_failure"} \subseteq answered[j]

\* A message that was acknowledged has had all its answers: the broker had the
\* ones about its dispatch, and from the fork service the one about its end.  An
\* acknowledged message is not delivered again, so an answer that was lost
\* leaves the net waiting.
AckedAnswered ==
    \A j \in Jobs : submission[j] = "acked" => Answered(j)

AtRest(j) ==
    /\ submission[j] \in {"acked", "rejected"}
    /\ run[j].ended # "waiting" /\ run[j].sent = {} /\ run[j].stored = {}
    /\ \A i \in DOMAIN lsf_jobs[j] : lsf_jobs[j][i] = "done"
    /\ \A a \in Answers : answers[<<j, a>>] = 0
    /\ \A t \in NetTransitions : <<t, {j}>> \notin firing /\ ~Net!CanBegin(t, {j})

\* A job that was run once leaves the net as the system test of the fork service
\* wants it (verify_color_marking): its outcome is marked and nothing else.  Answers
\* are left over in cases that test does not have: an executor that fails without
\* an id is answered by a failure to dispatch, and whatever else is answered,
\* that it ended or of the LSF job it may have left, the net does not wait for.
OnlyOutcomeMarked ==
    \A j \in Jobs :
        (AtRest(j) /\ runs[j] = 1) =>
            LET left == IF "no_id" \in results[j]
                        THEN answered[j] \ {"msg: dispatch_failure"} ELSE {}
            IN \E o \in {"success", "failure"} :
                  {p \in NetPlaces : Marked(j, p)} = {o} \cup left

\* Every job the services may run reaches an outcome.  The exceptions: a job of the
\* fork service that was begun, is run again after a crash and then cannot be
\* started; and a job that the LSF service rejected, when it dies before the broker
\* has the answer.  What dies otherwise, for an answer that is refused too, runs again.
OutcomeReached ==
    \A j \in Permitted :
        <>(\/ Outcome(j) # {}
           \/ service[j] = "fork" /\ runs[j] > 1 /\ "no_id" \in results[j]
           \/ service[j] = "lsf" /\ submission[j] = "rejected" /\ crashes > 0)

-----------------------------------------------------------------------------
(* The inductive invariant of the proofs, job by job.                      *)

ControlPlaces == NetPlaces \ Answers
Firing(j, t) == <<t, {j}>> \in firing

\* Apart from answers the net holds one token, which is on its way from the
\* start to an outcome.
OneToken(j) ==
    /\ \A p, q \in ControlPlaces : Marked(j, p) /\ Marked(j, q) => p = q
    /\ \A s, t \in NetTransitions : Firing(j, s) /\ Firing(j, t) => s = t
    /\ \A p \in ControlPlaces, t \in NetTransitions : Marked(j, p) => ~Firing(j, t)
    /\ <<j, "start">> \in due =>
          /\ \A p \in ControlPlaces : ~Marked(j, p)
          /\ \A t \in NetTransitions : ~Firing(j, t)

\* An answer among ones, or the token that met it, is on its way or has arrived.
Heard(j, ones, places, transitions) ==
    \/ \E a \in ones : a \in run[j].sent \/ answers[<<j, a>>] > 0
    \/ \E p \in ones \cup places : Marked(j, p)
    \/ \E t \in transitions : Firing(j, t)

HeardSuccess(j) ==
    Heard(j, {"msg: execute_success"},
          {"success_cleanup", "success_bridge", "success"},
          {"execute_success", "success_cleanup", "success"})

HeardFailure(j) ==
    Heard(j, {"msg: dispatch_failure", "msg: execute_failure"},
          {"failure_cleanup", "failure_bridge", "failure"},
          {"dispatch_failure", "execute_failure", "failure_cleanup", "failure"})

Failed(j) == results[j] \ {"zero"} # {}

\* What the net hears is so.
HeardTrue(j) ==
    /\ HeardSuccess(j) => "zero" \in results[j]
    /\ HeardFailure(j) => Failed(j)

\* What the monitor can tell from its executor.
ExecutorKnown(j) ==
    LET r == run[j] IN
    /\ submission[j] \in {"unsent", "queued"} \/ r.executor = "none" => r = NoRun
    /\ r.executor = "running" => r.id_written
    /\ service[j] = "fork" /\ r.executor = "exited" =>
          IF r.exit = 0 THEN "zero" \in results[j] ELSE Failed(j)
    /\ r.executor = "killed" => Failed(j)
    /\ HasEnded(r) /\ ~r.id_written => Failed(j) /\ ~Succeeded(r)
    /\ r.id = "failure" => HasEnded(r) /\ ~r.id_written
    /\ r.ended = "success" => Succeeded(r)

\* The broker has an answer, or it is to be sent, unless the job is rejected.
NothingUnsaid(j) ==
    LET r == run[j]
        said == r.sent \cup answered[j]
    IN ~r.failed =>
        /\ r.id = "success" =>
              /\ "msg: dispatch_success" \in said
              /\ service[j] = "fork" => "msg: execute_begin" \in said
        /\ r.id = "failure" => "msg: dispatch_failure" \in said
        /\ service[j] = "fork" =>
              /\ r.ended = "success" => "msg: execute_success" \in said
              /\ r.ended = "failure" => "msg: execute_failure" \in said
        /\ service[j] = "lsf" => r.ended # "failure"

JobInv(j) ==
    /\ OneToken(j)
    /\ HeardTrue(j)
    /\ ExecutorKnown(j)
    /\ NothingUnsaid(j)
    /\ submission[j] = "acked" => Answered(j)

IInv == TypeOK /\ \A j \in Jobs : JobInv(j)
=============================================================================
