---------------------------- MODULE ShellCommand ----------------------------
(***************************************************************************)
(* The services that run shell commands.  A submitted message starts an    *)
(* executor, a process of its own, whose monitor hears two things of it:   *)
(* what it wrote to file descriptor 3 (the job's id), and that it ended.   *)
(* Each leads to answers, create_token messages that the service publishes,*)
(* and when both are dealt with the submitted message is settled.  The     *)
(* executor of the fork service runs the command; that of the LSF service  *)
(* hands it to LSF, whose pre and post exec commands send the answers that *)
(* the command begins and ends.                                            *)
(***************************************************************************)
EXTENDS Integers, FiniteSets, Sequences

CONSTANTS
    Jobs,
    WithLogFile,    \* the jobs whose executor_data names a file for stderr
    Unopenable,     \* ... and it cannot be opened, whenever that is tried
    Permitted,      \* the jobs that _handle_message raises nothing for: the service
                    \* may run commands as their user, and finds its executable
    ExitCodes,      \* what commands exit with
    KilledAt,       \* the <<service, executor>> at which an executor is killed
    MaxCrashes      \* bound: how often a service dies

ASSUME ServicesAssumption ==
    /\ WithLogFile \subseteq Jobs /\ Unopenable \subseteq WithLogFile /\ Permitted \subseteq Jobs
    /\ ExitCodes \subseteq Int
    /\ KilledAt \subseteq {"fork", "lsf"} \X {"starting", "submitted", "running"}
    /\ MaxCrashes \in Nat

VARIABLES
    service,        \* job -> the service its net dispatches it to
    submission,     \* job -> where its submitted message is
    run,            \* job -> its executor, as the monitor sees it
    lsf_jobs,       \* job -> the stages of the jobs LSF has for it
    stderr_open,    \* service -> whether sys.stderr of its process is open
    answers,        \* <<job, answer>> -> copies the broker has to deliver
    results,        \* history: job -> how its executors and commands ended
    answered,       \* history: job -> the answers the broker ever had
    runs,           \* history: job -> how many executors it was given
    crashes

historyVars == <<results, answered, runs>>
svars == <<service, submission, run, lsf_jobs, stderr_open, answers,
           historyVars, crashes>>

-----------------------------------------------------------------------------
Services == {"fork", "lsf"}

\* What a job is answered, named for the places of the net that await it.
Answers == {"msg: dispatch_success", "msg: dispatch_failure", "msg: execute_begin",
            "msg: execute_success", "msg: execute_failure"}

\* How executors and commands end: the command exited, with 0 or not; the
\* executor ended without running it; or it left the command behind.
Results == {"zero", "nonzero", "no_id", "interrupted"}
ResultOf(code) == IF code = 0 THEN "zero" ELSE "nonzero"

NoRun == [executor |-> "none", exit |-> 0, id_written |-> FALSE,
          id |-> "waiting", ended |-> "waiting",
          sent |-> {}, stored |-> {}, failed |-> FALSE]

ServiceInit ==
    /\ service \in [Jobs -> Services]
    /\ submission = [j \in Jobs |-> "unsent"]
    /\ run = [j \in Jobs |-> NoRun]
    /\ lsf_jobs = [j \in Jobs |-> <<>>]
    /\ stderr_open = [s \in Services |-> TRUE]
    /\ answers = [a \in Jobs \X Answers |-> 0]
    /\ results = [j \in Jobs |-> {}]
    /\ answered = [j \in Jobs |-> {}]
    /\ runs = [j \in Jobs |-> 0]
    /\ crashes = 0

-----------------------------------------------------------------------------
(* The handler's deferreds.                                                *)

\* Both deferreds of the monitor fired, and every answer is confirmed.
HandledWhenSent(r) ==       \* faulty: does not wait for the confirms
    /\ r.id # "waiting"
    /\ r.ended \notin {"waiting", "lost"}
Handled(r) ==
    /\ r.id # "waiting"
    /\ r.ended \notin {"waiting", "lost"}
    /\ r.sent = {} /\ r.stored = {}

\* gatherResults: the message is rejected at the first failure, acknowledged
\* when all went well, and settled only once.
Follow(j, r) ==
    /\ run' = [run EXCEPT ![j] = r]
    /\ submission' = [submission EXCEPT ![j] =
          IF @ # "handling" THEN @
          ELSE IF r.failed THEN "rejected"
          ELSE IF Handled(r) THEN "acked"
          ELSE @]

-----------------------------------------------------------------------------
(* A submitted message.                                                    *)

\* ShellCommandServiceInterface.submit, called by the net's dispatch action.
Submit(j) ==
    /\ submission[j] = "unsent"
    /\ submission' = [submission EXCEPT ![j] = "queued"]
    /\ UNCHANGED <<service, run, lsf_jobs, stderr_open, answers, historyVars, crashes>>

Receive(j) ==
    /\ submission[j] = "queued"
    /\ IF j \in Permitted
       THEN /\ submission' = [submission EXCEPT ![j] = "handling"]
            /\ run' = [run EXCEPT ![j].executor = "starting"]
            /\ runs' = [runs EXCEPT ![j] = @ + 1]
       ELSE /\ submission' = [submission EXCEPT ![j] = "rejected"]
            /\ UNCHANGED <<run, runs>>
    /\ UNCHANGED <<service, lsf_jobs, stderr_open, answers, results, answered, crashes>>

\* An answer the broker has stored, and will deliver to the orchestrator.
Answer(j, a) ==
    /\ answers' = [answers EXCEPT ![<<j, a>>] = @ + 1]
    /\ answered' = [answered EXCEPT ![j] = @ \cup {a}]

-----------------------------------------------------------------------------
(* The executors.                                                          *)

AtExecutor(j, s, stage) == service[j] = s /\ run[j].executor = stage

Exits(j, code) ==
    run' = [run EXCEPT ![j].executor = "exited", ![j].exit = code]

Ended(j, result) == results' = [results EXCEPT ![j] = @ \cup {result}]

executorUnchanged ==
    <<service, submission, stderr_open, answers, answered, runs, crashes>>

\* A file cannot be opened, the command is not found, LSF refuses the job.
ExecutorFails(j) ==
    /\ run[j].executor = "starting"
    /\ Exits(j, 1)
    /\ Ended(j, "no_id")
    /\ UNCHANGED <<executorUnchanged, lsf_jobs>>

\* The fork executor starts the command and writes its pid.
ForkStarts(j) ==
    /\ AtExecutor(j, "fork", "starting")
    /\ run' = [run EXCEPT ![j].executor = "running", ![j].id_written = TRUE]
    /\ UNCHANGED <<executorUnchanged, lsf_jobs, results>>

\* ... and exits with what the command exits with.
CommandExits(j) ==
    \E code \in ExitCodes :
        /\ AtExecutor(j, "fork", "running")
        /\ Exits(j, code)
        /\ Ended(j, ResultOf(code))
        /\ UNCHANGED <<executorUnchanged, lsf_jobs>>

\* The handler of SIGTERM raises before it signals the children.
ExecutorInterrupted(j) ==
    /\ AtExecutor(j, "fork", "running")
    /\ Exits(j, 1)
    /\ Ended(j, "interrupted")
    /\ UNCHANGED <<executorUnchanged, lsf_jobs>>

LsfSubmits(j) ==
    /\ AtExecutor(j, "lsf", "starting")
    /\ run' = [run EXCEPT ![j].executor = "submitted"]
    /\ lsf_jobs' = [lsf_jobs EXCEPT ![j] = Append(@, "pending")]
    /\ UNCHANGED <<executorUnchanged, results>>

LsfWritesId(j) ==
    /\ AtExecutor(j, "lsf", "submitted")
    /\ run' = [run EXCEPT ![j].executor = "exited", ![j].id_written = TRUE]
    /\ UNCHANGED <<executorUnchanged, lsf_jobs, results>>

\* A signal that is not handled.
ExecutorKilled(j) ==
    /\ <<service[j], run[j].executor>> \in KilledAt
    /\ run' = [run EXCEPT ![j].executor = "killed"]
    /\ Ended(j, IF run[j].executor = "running" THEN "interrupted" ELSE "no_id")
    /\ UNCHANGED <<executorUnchanged, lsf_jobs>>

ExecutorStep(j) ==
    \/ ExecutorFails(j)
    \/ ForkStarts(j)
    \/ CommandExits(j)
    \/ LsfSubmits(j)
    \/ LsfWritesId(j)

-----------------------------------------------------------------------------
(* The monitor, and the handler's callbacks.                               *)

HasEnded(r) == r.executor \in {"exited", "killed"}

IdAnswersAlikeForLsf(j, known) ==   \* faulty: LSF treated like fork
    IF known THEN {"msg: dispatch_success", "msg: execute_begin"} ELSE {"msg: dispatch_failure"}
IdAnswersMisnamed(j, known) ==      \* faulty: a place the net does not have
    IF known THEN {"msg: dispatch_success", "msg: execute_start"} ELSE {"msg: dispatch_failure"}
NoAnswerWithoutId(j, known) ==      \* faulty: no errback without an id
    IF ~known THEN {}
    ELSE {"msg: dispatch_success"} \cup
         (IF service[j] = "fork" THEN {"msg: execute_begin"} ELSE {})
\* on_job_id_success and on_job_id_failure.
IdAnswers(j, known) ==
    IF ~known THEN {"msg: dispatch_failure"}
    ELSE {"msg: dispatch_success"} \cup
         (IF service[j] = "fork" THEN {"msg: execute_begin"} ELSE {})

\* Descriptor 3 is closed when the id is written, or when the executor ends.
JobIdConnectionLost(j) ==
    LET r == run[j] IN
    /\ r.executor # "none" /\ r.id = "waiting"
    /\ r.id_written \/ HasEnded(r)
    /\ Follow(j, [r EXCEPT !.id = IF r.id_written THEN "success" ELSE "failure",
                           !.sent = @ \cup IdAnswers(j, r.id_written)])
    /\ UNCHANGED <<service, lsf_jobs, stderr_open, answers, historyVars, crashes>>

Succeeded(r) == r.executor = "exited" /\ r.exit = 0

LostWhenKilled(j, r) ==     \* faulty: every service reads the exit code
    IF Succeeded(r) THEN "success"
    ELSE IF r.executor = "killed" THEN "lost"
    ELSE "failure"
\* Its log_file_handle is sys.stderr.
WritesToStderr(j) == j \notin WithLogFile \/ j \in Unopenable

\* What becomes of job_ended_deferred, and of the callback it runs: writing to
\* a closed sys.stderr raises first, and on_job_ended_failure of the fork
\* service raises on the status of a process that a signal killed.
EndedOf(j, r) ==
    IF Succeeded(r) THEN "success"
    ELSE IF \/ WritesToStderr(j) /\ ~stderr_open[service[j]]
            \/ service[j] = "fork" /\ r.executor = "killed"
         THEN "lost"
    ELSE "failure"

EndAnswersAlways(j, ended) ==       \* faulty: the exit status is not looked at
    IF service[j] = "fork" /\ ended # "lost" THEN {"msg: execute_success"} ELSE {}
\* on_job_ended_success and on_job_ended_failure.
EndAnswers(j, ended) ==
    IF service[j] = "lsf" \/ ended = "lost" THEN {}
    ELSE IF ended = "success" THEN {"msg: execute_success"}
    ELSE {"msg: execute_failure"}

\* ExecutorMonitor.processEnded, which Twisted calls after all descriptors are
\* closed: its finally clause closes the handle it kept, which is sys.stderr
\* for a job without a log file, and none for one that cannot be opened.
ProcessEnded(j) ==
    LET r == run[j]
        ended == EndedOf(j, r)
    IN
    /\ HasEnded(r) /\ r.id # "waiting" /\ r.ended = "waiting"
    /\ \E wrote \in BOOLEAN :     \* output of the executor itself
          stderr_open' = [stderr_open EXCEPT ![service[j]] =
              @ /\ (j \in WithLogFile \/ (Succeeded(r) /\ ~wrote))]
    /\ Follow(j, [r EXCEPT !.ended = ended,
                           !.sent = @ \cup EndAnswers(j, ended),
                           !.failed = @ \/ (service[j] = "lsf" /\ ended = "failure")])
    /\ UNCHANGED <<service, lsf_jobs, answers, historyVars, crashes>>

-----------------------------------------------------------------------------
(* The broker stores an answer, and tells the service.                     *)

Store(j) ==
    \E a \in run[j].sent :
        /\ Answer(j, a)
        /\ run' = [run EXCEPT ![j].sent = @ \ {a}, ![j].stored = @ \cup {a}]
        /\ UNCHANGED <<service, submission, lsf_jobs, stderr_open, results, runs, crashes>>

Confirm(j) ==
    \E a \in run[j].stored :
        /\ Follow(j, [run[j] EXCEPT !.stored = @ \ {a}])
        /\ UNCHANGED <<service, lsf_jobs, stderr_open, answers, historyVars, crashes>>

MonitorStep(j) ==
    JobIdConnectionLost(j) \/ ProcessEnded(j) \/ Store(j) \/ Confirm(j)

-----------------------------------------------------------------------------
(* LSF runs the pre exec command, the job and the post exec command.       *)

LsfPreExec(j) ==
    \E i \in DOMAIN lsf_jobs[j] :
        /\ lsf_jobs[j][i] = "pending"
        /\ lsf_jobs' = [lsf_jobs EXCEPT ![j][i] = "running"]
        /\ Answer(j, "msg: execute_begin")
        /\ UNCHANGED <<service, submission, run, stderr_open, results, runs, crashes>>

PostExecAnswer(code) == IF code = 0 THEN "msg: execute_success" ELSE "msg: execute_failure"

LsfPostExec(j) ==
    \E i \in DOMAIN lsf_jobs[j], code \in ExitCodes :
        /\ lsf_jobs[j][i] = "running"
        /\ lsf_jobs' = [lsf_jobs EXCEPT ![j][i] = "done"]
        /\ Answer(j, PostExecAnswer(code))
        /\ Ended(j, ResultOf(code))
        /\ UNCHANGED <<service, submission, run, stderr_open, runs, crashes>>

LsfStep(j) == LsfPreExec(j) \/ LsfPostExec(j)

-----------------------------------------------------------------------------
\* A service dies with its monitors and children, its supervisor starts it again
\* and the broker delivers what was not settled.  It dies of itself when the
\* broker refuses an answer, and it may be killed.  An LSF executor may still
\* have submitted its job.
Crash(s) ==
    LET lost == {j \in Jobs : service[j] = s /\ run[j].executor # "none"} IN
    /\ crashes < MaxCrashes
    /\ lost # {}
    /\ crashes' = crashes + 1
    /\ run' = [j \in Jobs |-> IF j \in lost THEN NoRun ELSE run[j]]
    /\ submission' = [j \in Jobs |->
          IF j \in lost /\ submission[j] = "handling" THEN "queued" ELSE submission[j]]
    /\ stderr_open' = [stderr_open EXCEPT ![s] = TRUE]
    /\ \E late \in SUBSET {j \in lost : AtExecutor(j, "lsf", "starting")} :
          lsf_jobs' = [j \in Jobs |->
              IF j \in late THEN Append(lsf_jobs[j], "pending") ELSE lsf_jobs[j]]
    /\ UNCHANGED <<service, answers, historyVars>>

\* What the services, the executors and LSF do of themselves.
JobStep(j) == Receive(j) \/ ExecutorStep(j) \/ MonitorStep(j) \/ LsfStep(j)

\* What may happen to them, or may not.
JobFault(j) == ExecutorInterrupted(j) \/ ExecutorKilled(j)

-----------------------------------------------------------------------------
\* The services alone, with any client.
ServiceNext ==
    \/ \E j \in Jobs : Submit(j) \/ JobStep(j) \/ JobFault(j)
    \/ \E s \in Services : Crash(s)

\* The services, the executors, LSF and the broker go on, and commands end.
\* Nothing has to go wrong.
ServiceSpec ==
    /\ ServiceInit /\ [][ServiceNext]_svars
    /\ \A j \in Jobs : WF_svars(JobStep(j))

-----------------------------------------------------------------------------
Run == [executor : {"none", "starting", "submitted", "running", "exited", "killed"},
        exit : ExitCodes \cup {0, 1}, id_written : BOOLEAN,
        id : {"waiting", "success", "failure"},
        ended : {"waiting", "success", "failure", "lost"},
        sent : SUBSET Answers, stored : SUBSET Answers, failed : BOOLEAN]

\* Every variable has its type.
ServiceTypeOK ==
    /\ service \in [Jobs -> Services]
    /\ submission \in [Jobs -> {"unsent", "queued", "handling", "acked", "rejected"}]
    /\ run \in [Jobs -> Run]
    /\ lsf_jobs \in [Jobs -> Seq({"pending", "running", "done"})]
    /\ stderr_open \in [Services -> BOOLEAN]
    /\ answers \in [Jobs \X Answers -> Nat]
    /\ results \in [Jobs -> SUBSET Results]
    /\ answered \in [Jobs -> SUBSET Answers]
    /\ runs \in [Jobs -> Nat]
    /\ crashes \in 0 .. MaxCrashes

\* Every submitted message is settled in the end: acknowledged or rejected, as
\* Handler.__call__ says of its deferred.
Settled ==
    \A j \in Jobs :
        submission[j] = "queued" ~> submission[j] \in {"acked", "rejected"}
=============================================================================
