-------------------------- MODULE ShellCommandProofs -------------------------
(***************************************************************************)
(* For any number of jobs, services that die and executors that are        *)
(* killed: a net reports what happened to its command, and a message is    *)
(* acknowledged only when all it is to be answered is with the broker.  A  *)
(* job that was run once leaves its outcome in its net.                    *)
(***************************************************************************)
EXTENDS ShellCommandNet, TLAPS

-----------------------------------------------------------------------------
(* The net.                                                                *)

LEMMA Transitions ==
    NetTransitions = {"start", "dispatch", "dispatch_success", "dispatch_failure",
        "execute_begin", "execute_success", "execute_failure", "success_cleanup",
        "failure_cleanup", "success", "failure"}
BY DEF NetTransitions, NetInputs

LEMMA InputsOf ==
    /\ NetInputs["start"] = {"start"}
    /\ NetInputs["dispatch"] = {"start_bridge"}
    /\ NetInputs["dispatch_success"] = {"dispatching", "msg: dispatch_success"}
    /\ NetInputs["dispatch_failure"] = {"dispatching", "msg: dispatch_failure"}
    /\ NetInputs["execute_begin"] = {"pending", "msg: execute_begin"}
    /\ NetInputs["execute_success"] = {"running", "msg: execute_success"}
    /\ NetInputs["execute_failure"] = {"running", "msg: execute_failure"}
    /\ NetInputs["success_cleanup"] = {"success_cleanup"}
    /\ NetInputs["failure_cleanup"] = {"failure_cleanup"}
    /\ NetInputs["success"] = {"success_bridge"}
    /\ NetInputs["failure"] = {"failure_bridge"}
BY DEF NetInputs

LEMMA OutputsOf ==
    /\ NetOutputs["start"] = {"start_bridge"}
    /\ NetOutputs["dispatch"] = {"dispatching"}
    /\ NetOutputs["dispatch_success"] = {"pending"}
    /\ NetOutputs["dispatch_failure"] = {"failure_cleanup"}
    /\ NetOutputs["execute_begin"] = {"running"}
    /\ NetOutputs["execute_success"] = {"success_cleanup"}
    /\ NetOutputs["execute_failure"] = {"failure_cleanup"}
    /\ NetOutputs["success_cleanup"] = {"success_bridge"}
    /\ NetOutputs["failure_cleanup"] = {"failure_bridge"}
    /\ NetOutputs["success"] = {"success"}
    /\ NetOutputs["failure"] = {"failure"}
BY DEF NetOutputs

\* Every transition takes one token that is no answer, and gives one.
LEMMA OneIn ==
    ASSUME NEW t \in NetTransitions
    PROVE  \E p \in ControlPlaces : p \in NetInputs[t]
<1>1. NetInputs[t] \subseteq NetPlaces
  BY DEF NetPlaces
<1>2. \A p \in {"start", "start_bridge", "dispatching", "pending", "running", "success_cleanup",
                "failure_cleanup", "success_bridge", "failure_bridge"} : p \notin Answers
  BY DEF Answers
<1>3. \E p \in NetInputs[t] : p \notin Answers
  BY <1>2, InputsOf, Transitions
<1> QED
  BY <1>1, <1>3 DEF ControlPlaces

LEMMA OneOut ==
    ASSUME NEW t \in NetTransitions
    PROVE  \E p \in ControlPlaces : NetOutputs[t] = {p}
<1>1. NetOutputs[t] \subseteq NetPlaces
  BY DEF NetPlaces
<1>2. \E p \in NetOutputs[t] : p \notin Answers /\ NetOutputs[t] = {p}
  BY OutputsOf, Transitions DEF Answers
<1> QED
  BY <1>1, <1>2 DEF ControlPlaces

\* The places and transitions that follow success and failure.
LEMMA Followers ==
    ASSUME NEW t \in NetTransitions
    PROVE  /\ t \in {"execute_success", "success_cleanup", "success"} =>
                 NetInputs[t] \cap {"msg: execute_success", "success_cleanup",
                                    "success_bridge"} # {}
           /\ NetOutputs[t] \cap {"success_cleanup", "success_bridge", "success"} # {} =>
                 t \in {"execute_success", "success_cleanup", "success"}
           /\ t \in {"dispatch_failure", "execute_failure", "failure_cleanup", "failure"} =>
                 NetInputs[t] \cap {"msg: dispatch_failure", "msg: execute_failure",
                                    "failure_cleanup", "failure_bridge"} # {}
           /\ NetOutputs[t] \cap {"failure_cleanup", "failure_bridge", "failure"} # {} =>
                 t \in {"dispatch_failure", "execute_failure", "failure_cleanup", "failure"}
<1>1. t \in {"execute_success", "success_cleanup", "success"} =>
          NetInputs[t] \cap {"msg: execute_success", "success_cleanup", "success_bridge"} # {}
  BY InputsOf, Transitions
<1>2. NetOutputs[t] \cap {"success_cleanup", "success_bridge", "success"} # {} =>
          t \in {"execute_success", "success_cleanup", "success"}
  BY OutputsOf, Transitions
<1>3. t \in {"dispatch_failure", "execute_failure", "failure_cleanup", "failure"} =>
          NetInputs[t] \cap {"msg: dispatch_failure", "msg: execute_failure",
                             "failure_cleanup", "failure_bridge"} # {}
  BY InputsOf, Transitions
<1>4. NetOutputs[t] \cap {"failure_cleanup", "failure_bridge", "failure"} # {} =>
          t \in {"dispatch_failure", "execute_failure", "failure_cleanup", "failure"}
  BY OutputsOf, Transitions
<1> QED
  BY <1>1, <1>2, <1>3, <1>4

LEMMA AnswersArePlaces == Answers \subseteq NetPlaces
<1>1. \A t \in NetTransitions : NetInputs[t] \subseteq NetPlaces
  BY DEF NetPlaces
<1>2. \A a \in Answers : \E t \in NetTransitions : a \in NetInputs[t]
  <2> SUFFICES ASSUME NEW a \in Answers PROVE \E t \in NetTransitions : a \in NetInputs[t]
    OBVIOUS
  <2>1. CASE a = "msg: dispatch_success"
    BY <2>1, InputsOf, Transitions
  <2>2. CASE a = "msg: dispatch_failure"
    BY <2>2, InputsOf, Transitions
  <2>3. CASE a = "msg: execute_begin"
    BY <2>3, InputsOf, Transitions
  <2>4. CASE a = "msg: execute_success"
    BY <2>4, InputsOf, Transitions
  <2>5. CASE a = "msg: execute_failure"
    BY <2>5, InputsOf, Transitions
  <2> QED
    BY <2>1, <2>2, <2>3, <2>4, <2>5 DEF Answers
<1> QED
  BY <1>1, <1>2

LEMMA FollowersExist ==
    /\ {"success_cleanup", "success_bridge", "success",
        "failure_cleanup", "failure_bridge", "failure"} \subseteq NetPlaces
    /\ {"execute_success", "success_cleanup", "success", "dispatch_failure",
        "execute_failure", "failure_cleanup", "failure"} \subseteq NetTransitions
<1>1. \A t \in NetTransitions : NetOutputs[t] \subseteq NetPlaces
  BY DEF NetPlaces
<1>2. /\ "success_cleanup" \in NetPlaces /\ "success_bridge" \in NetPlaces
      /\ "success" \in NetPlaces /\ "failure_cleanup" \in NetPlaces
      /\ "failure_bridge" \in NetPlaces /\ "failure" \in NetPlaces
  BY <1>1, OutputsOf, Transitions
<1> QED
  BY <1>2, Transitions

-----------------------------------------------------------------------------
(* A step that leaves a job alone.                                         *)

Alone(k) ==
    /\ service'[k] = service[k] /\ submission'[k] = submission[k] /\ run'[k] = run[k]
    /\ results'[k] = results[k] /\ answered'[k] = answered[k]
    /\ \A a \in Answers : answers'[<<k, a>>] = answers[<<k, a>>]
    /\ \A p \in NetPlaces : <<k, p>> \in marking' <=> <<k, p>> \in marking
    /\ \A t \in NetTransitions : <<t, {k}>> \in firing' <=> <<t, {k}>> \in firing
    /\ <<k, "start">> \in due' => <<k, "start">> \in due

LEMMA AloneInv ==
    ASSUME NEW k \in Jobs, Alone(k), JobInv(k)
    PROVE  JobInv(k)'
<1> USE DEF Alone
<1>1. OneToken(k)'
  BY DEF JobInv, OneToken, Marked, Firing, ControlPlaces
<1>2. HeardTrue(k)'
  <2>1. \A p \in NetPlaces : Marked(k, p)' <=> Marked(k, p)
    BY DEF Marked
  <2>2. \A t \in NetTransitions : Firing(k, t)' <=> Firing(k, t)
    BY DEF Firing
  <2>3. HeardSuccess(k)' => HeardSuccess(k)
    BY <2>1, <2>2, AnswersArePlaces, FollowersExist DEF HeardSuccess, Heard, Answers
  <2>4. HeardFailure(k)' => HeardFailure(k)
    BY <2>1, <2>2, AnswersArePlaces, FollowersExist DEF HeardFailure, Heard, Answers
  <2> QED
    BY <2>3, <2>4 DEF JobInv, HeardTrue, Failed
<1>3. ExecutorKnown(k)' /\ NothingUnsaid(k)'
  BY DEF JobInv, ExecutorKnown, NothingUnsaid, Failed, HasEnded, Succeeded, IdAnswers, EndAnswers
<1>4. submission'[k] = "acked" => Answered(k)'
  BY DEF JobInv, Answered, IdAnswers
<1> QED
  BY <1>1, <1>2, <1>3, <1>4 DEF JobInv

-----------------------------------------------------------------------------
(* What the services answer.                                               *)

LEMMA WhatIsAnswered ==
    ASSUME NEW j \in Jobs
    PROVE  /\ IdAnswers(j, FALSE) = {"msg: dispatch_failure"}
           /\ service[j] = "fork" =>
                 IdAnswers(j, TRUE) = {"msg: dispatch_success", "msg: execute_begin"}
           /\ service[j] = "lsf" => IdAnswers(j, TRUE) = {"msg: dispatch_success"}
BY DEF IdAnswers

LEMMA WhatIsAnsweredAtEnd ==
    ASSUME NEW j \in Jobs
    PROVE  /\ \A e : service[j] = "lsf" => EndAnswers(j, e) = {}
           /\ EndAnswers(j, "lost") = {}
           /\ service[j] = "fork" =>
                 /\ EndAnswers(j, "success") = {"msg: execute_success"}
                 /\ EndAnswers(j, "failure") = {"msg: execute_failure"}
BY DEF EndAnswers

LEMMA HowItEnds ==
    ASSUME NEW j \in Jobs, NEW r
    PROVE  /\ EndedOf(j, r) \in {"success", "failure", "lost"}
           /\ EndedOf(j, r) = "success" <=> Succeeded(r)
BY DEF EndedOf

-----------------------------------------------------------------------------
(* Steps that leave the net alone.                                         *)

\* The net holds what it held.
LEMMA TokenStays ==
    ASSUME NEW j \in Jobs, JobInv(j), UNCHANGED netVars
    PROVE  OneToken(j)'
BY DEF JobInv, OneToken, Marked, Firing, ControlPlaces, netVars

\* A step that hears of nothing but what it hears.
LEMMA HeardStays ==
    ASSUME NEW j \in Jobs, JobInv(j), UNCHANGED netVars,
           results[j] \subseteq results'[j],
           \A a \in Answers :
              a \in run'[j].sent \/ answers'[<<j, a>>] > 0 =>
                 \/ a \in run[j].sent \/ answers[<<j, a>>] > 0
                 \/ a \notin {"msg: execute_success", "msg: dispatch_failure",
                              "msg: execute_failure"}
                 \/ a = "msg: execute_success" /\ "zero" \in results'[j]
                 \/ a # "msg: execute_success" /\ Failed(j)'
    PROVE  HeardTrue(j)'
<1>1. \A p : Marked(j, p)' <=> Marked(j, p)
  BY DEF Marked, netVars
<1>2. \A t : Firing(j, t)' <=> Firing(j, t)
  BY DEF Firing, netVars
<1>3. HeardSuccess(j)' => HeardSuccess(j) \/ "zero" \in results'[j]
  BY <1>1, <1>2 DEF HeardSuccess, Heard, Answers
<1>4. HeardFailure(j)' => HeardFailure(j) \/ Failed(j)'
  BY <1>1, <1>2 DEF HeardFailure, Heard, Answers
<1> QED
  BY <1>3, <1>4 DEF JobInv, HeardTrue, Failed

\* What the broker had it still had.
LEMMA AnsweredStays ==
    ASSUME NEW j \in Jobs, Answered(j), service'[j] = service[j],
           answered[j] \subseteq answered'[j]
    PROVE  Answered(j)'
<1>1. IdAnswers(j, TRUE)' = IdAnswers(j, TRUE)
  BY Zenon DEF IdAnswers
<1> QED
  BY <1>1 DEF Answered

-----------------------------------------------------------------------------
(* The handler's deferreds.                                                *)

LEMMA FollowWhat ==
    ASSUME TypeOK, NEW j \in Jobs, NEW r \in Run, Follow(j, r)
    PROVE  /\ run' \in [Jobs -> Run] /\ run'[j] = r
           /\ submission' \in [Jobs -> {"unsent", "queued", "handling", "acked", "rejected"}]
           /\ \A k \in Jobs : k # j => run'[k] = run[k] /\ submission'[k] = submission[k]
           /\ submission[j] # "handling" => submission'[j] = submission[j]
           /\ submission'[j] \in {submission[j], "acked", "rejected"}
           /\ submission'[j] = "acked" /\ submission[j] # "acked" => ~r.failed /\ Handled(r)
BY DEF Follow, TypeOK, ServiceTypeOK

\* A message is acknowledged only when it is answered.
LEMMA AckedWhenAnswered ==
    ASSUME NEW j \in Jobs, service'[j] \in Services, run'[j] \in Run,
           ~run'[j].failed, Handled(run'[j]),
           ExecutorKnown(j)', NothingUnsaid(j)'
    PROVE  Answered(j)'
<1> DEFINE r == run'[j]
<1>1. r.sent = {} /\ r.id \in {"success", "failure"} /\ r.ended \in {"success", "failure"}
  BY DEF Handled, Run
<1>2. /\ IdAnswers(j, TRUE)' \subseteq {"msg: dispatch_success", "msg: execute_begin"}
      /\ "msg: execute_begin" \in IdAnswers(j, TRUE)' => service'[j] = "fork"
  BY DEF IdAnswers
<1>3. CASE r.id = "success"
  <2>1. "msg: dispatch_success" \in answered'[j]
    BY <1>1, <1>3 DEF NothingUnsaid
  <2>2. service'[j] = "fork" =>
           /\ "msg: execute_begin" \in answered'[j]
           /\ "msg: execute_success" \in answered'[j] \/ "msg: execute_failure" \in answered'[j]
    BY <1>1, <1>3 DEF NothingUnsaid
  <2> QED
    BY <1>2, <2>1, <2>2 DEF Answered
<1>4. CASE r.id = "failure"
  <2>1. r.ended = "failure"
    BY <1>1, <1>4 DEF ExecutorKnown
  <2>2. service'[j] = "fork"
    BY <1>1, <2>1 DEF NothingUnsaid, Services
  <2> QED
    BY <1>1, <1>4, <2>1, <2>2 DEF NothingUnsaid, Answered
<1> QED
  BY <1>1, <1>3, <1>4

\* A step of the handler leaves the invariant when what its monitor knows is so.
LEMMA FollowInv ==
    ASSUME TypeOK, NEW j \in Jobs, JobInv(j), NEW r \in Run, Follow(j, r),
           UNCHANGED <<service, answers, results, answered, netVars>>,
           run[j].executor # "none",
           \A a \in Answers : a \in r.sent =>
               \/ a \in run[j].sent
               \/ a \notin {"msg: execute_success", "msg: dispatch_failure",
                            "msg: execute_failure"}
               \/ a = "msg: execute_success" /\ "zero" \in results[j]
               \/ a # "msg: execute_success" /\ Failed(j),
           ExecutorKnown(j)', NothingUnsaid(j)'
    PROVE  JobInv(j)'
<1>1. /\ run'[j] = r /\ submission'[j] \in {submission[j], "acked", "rejected"}
      /\ submission'[j] = "acked" /\ submission[j] # "acked" => ~r.failed /\ Handled(r)
  BY FollowWhat
<1>2. HeardTrue(j)'
  <2>1. \A a \in Answers :
          a \in run'[j].sent \/ answers'[<<j, a>>] > 0 =>
             \/ a \in run[j].sent \/ answers[<<j, a>>] > 0
             \/ a \notin {"msg: execute_success", "msg: dispatch_failure",
                          "msg: execute_failure"}
             \/ a = "msg: execute_success" /\ "zero" \in results'[j]
             \/ a # "msg: execute_success" /\ Failed(j)'
    BY <1>1 DEF Failed
  <2> QED
    BY <2>1, HeardStays
<1>3. submission'[j] = "acked" => Answered(j)'
  <2>1. CASE submission[j] = "acked"
    BY <2>1, AnsweredStays DEF JobInv
  <2>2. CASE submission[j] # "acked" /\ submission'[j] = "acked"
    BY <2>2, <1>1, AckedWhenAnswered DEF TypeOK, ServiceTypeOK
  <2> QED
    BY <2>1, <2>2
<1> QED
  BY <1>2, <1>3, TokenStays DEF JobInv

LEMMA IdInv ==
    ASSUME TypeOK, NEW j \in Jobs, JobInv(j), JobIdConnectionLost(j), UNCHANGED netVars
    PROVE  JobInv(j)'
<1> DEFINE r == run[j]
           q == [r EXCEPT !.id = IF r.id_written THEN "success" ELSE "failure",
                          !.sent = @ \cup IdAnswers(j, r.id_written)]
<1>1. r \in Run /\ service[j] \in Services
  BY DEF TypeOK, ServiceTypeOK
<1>2. IdAnswers(j, r.id_written) \subseteq Answers
  BY <1>1, WhatIsAnswered DEF Services, Answers, Run
<1>3. /\ q \in Run /\ q.sent = r.sent \cup IdAnswers(j, r.id_written)
      /\ q.id = (IF r.id_written THEN "success" ELSE "failure")
      /\ q.executor = r.executor /\ q.exit = r.exit /\ q.id_written = r.id_written
      /\ q.ended = r.ended /\ q.stored = r.stored /\ q.failed = r.failed
  BY <1>1, <1>2 DEF Run
<1>4. Follow(j, q)
  BY DEF JobIdConnectionLost
<1>5. r.executor # "none" /\ r.id = "waiting" /\ (r.id_written \/ HasEnded(r))
  BY DEF JobIdConnectionLost
<1>6. UNCHANGED <<service, answers, results, answered>>
  BY DEF JobIdConnectionLost, historyVars
<1> HIDE DEF q
<1>7. run'[j] = q /\ submission'[j] \in {submission[j], "acked", "rejected"}
  BY <1>3, <1>4, FollowWhat
<1>8. ExecutorKnown(j)'
  BY <1>3, <1>5, <1>6, <1>7 DEF JobInv, ExecutorKnown, HasEnded, Succeeded, Failed, NoRun
<1>9. NothingUnsaid(j)'
  <2>1. r.id_written => "msg: dispatch_success" \in q.sent
    BY <1>1, <1>3, WhatIsAnswered DEF Services, Run
  <2>2. r.id_written /\ service[j] = "fork" => "msg: execute_begin" \in q.sent
    BY <1>1, <1>3, WhatIsAnswered DEF Run
  <2>3. ~r.id_written => "msg: dispatch_failure" \in q.sent
    BY <1>1, <1>3, WhatIsAnswered DEF Run
  <2> QED
    BY <2>1, <2>2, <2>3, <1>3, <1>6, <1>7 DEF JobInv, NothingUnsaid
<1>10. \A a \in Answers : a \in q.sent =>
          \/ a \in r.sent
          \/ a \notin {"msg: execute_success", "msg: dispatch_failure", "msg: execute_failure"}
          \/ a # "msg: execute_success" /\ Failed(j)
  <2>1. CASE r.id_written
    BY <2>1, <1>1, <1>3, WhatIsAnswered DEF Services, Run
  <2>2. CASE ~r.id_written
    <3>1. Failed(j)
      BY <2>2, <1>5 DEF JobInv, ExecutorKnown
    <3> QED
      BY <2>2, <3>1, <1>1, <1>3, WhatIsAnswered DEF Run
  <2> QED
    BY <2>1, <2>2
<1> QED
  BY <1>3, <1>4, <1>5, <1>6, <1>8, <1>9, <1>10, FollowInv

LEMMA EndInv ==
    ASSUME TypeOK, NEW j \in Jobs, JobInv(j), ProcessEnded(j), UNCHANGED netVars
    PROVE  JobInv(j)'
<1> DEFINE r == run[j]
           e == EndedOf(j, r)
           q == [r EXCEPT !.ended = e, !.sent = @ \cup EndAnswers(j, e),
                          !.failed = @ \/ (service[j] = "lsf" /\ e = "failure")]
<1>1. r \in Run /\ service[j] \in Services
  BY DEF TypeOK, ServiceTypeOK
<1>2. e \in {"success", "failure", "lost"} /\ (e = "success" <=> Succeeded(r))
  BY HowItEnds
<1>3. /\ HasEnded(r) /\ r.id # "waiting" /\ r.ended = "waiting" /\ Follow(j, q)
      /\ UNCHANGED <<service, answers, results, answered>>
  BY DEF ProcessEnded, historyVars
<1> HIDE DEF e
<1>4. EndAnswers(j, e) \subseteq Answers
  BY <1>1, <1>2, WhatIsAnsweredAtEnd DEF Services, Answers
<1>5. /\ q \in Run /\ q.sent = r.sent \cup EndAnswers(j, e) /\ q.ended = e
      /\ q.failed = (r.failed \/ (service[j] = "lsf" /\ e = "failure"))
      /\ q.executor = r.executor /\ q.exit = r.exit /\ q.id_written = r.id_written
      /\ q.id = r.id /\ q.stored = r.stored
  BY <1>1, <1>2, <1>4 DEF Run
<1> HIDE DEF q
<1>6. run'[j] = q /\ submission'[j] \in {submission[j], "acked", "rejected"}
  BY <1>3, <1>5, FollowWhat
<1>7. ExecutorKnown(j)'
  BY <1>2, <1>3, <1>5, <1>6 DEF JobInv, ExecutorKnown, HasEnded, Succeeded, Failed, NoRun
<1>8. NothingUnsaid(j)'
  <2>1. service[j] = "fork" /\ e = "success" => "msg: execute_success" \in q.sent
    BY <1>5, WhatIsAnsweredAtEnd
  <2>2. service[j] = "fork" /\ e = "failure" => "msg: execute_failure" \in q.sent
    BY <1>5, WhatIsAnsweredAtEnd
  <2> QED
    BY <2>1, <2>2, <1>3, <1>5, <1>6 DEF JobInv, NothingUnsaid
<1>9. \A a \in Answers : a \in q.sent =>
          \/ a \in r.sent
          \/ a = "msg: execute_success" /\ "zero" \in results[j]
          \/ a # "msg: execute_success" /\ Failed(j)
  <2>1. CASE service[j] = "lsf" \/ e = "lost"
    BY <2>1, <1>5, WhatIsAnsweredAtEnd
  <2>2. CASE service[j] = "fork" /\ e = "success"
    <3>1. "zero" \in results[j]
      BY <2>2, <1>2 DEF JobInv, ExecutorKnown, Succeeded
    <3> QED
      BY <2>2, <3>1, <1>5, WhatIsAnsweredAtEnd
  <2>3. CASE service[j] = "fork" /\ e = "failure"
    <3>1. Failed(j)
      BY <2>3, <1>2, <1>3 DEF JobInv, ExecutorKnown, Succeeded, HasEnded
    <3> QED
      BY <2>3, <3>1, <1>5, WhatIsAnsweredAtEnd
  <2> QED
    BY <1>1, <1>2, <2>1, <2>2, <2>3 DEF Services
<1>10. r.executor # "none"
  BY <1>3 DEF HasEnded
<1> QED
  BY <1>3, <1>5, <1>7, <1>8, <1>9, <1>10, FollowInv

LEMMA ConfirmInv ==
    ASSUME TypeOK, NEW j \in Jobs, JobInv(j), Confirm(j), UNCHANGED netVars
    PROVE  JobInv(j)'
<1> DEFINE r == run[j]
<1>1. r \in Run
  BY DEF TypeOK, ServiceTypeOK
<1>2. r.executor # "none"
  <2>1. r.stored # {}
    BY DEF Confirm
  <2> QED
    BY <1>1, <2>1 DEF JobInv, ExecutorKnown, NoRun
<1>3. PICK q \in Run :
          /\ Follow(j, q) /\ q.sent = r.sent /\ q.failed = r.failed
          /\ q.executor = r.executor /\ q.exit = r.exit /\ q.id_written = r.id_written
          /\ q.id = r.id /\ q.ended = r.ended
  <2>1. PICK a \in r.stored : Follow(j, [r EXCEPT !.stored = @ \ {a}])
    BY DEF Confirm
  <2> DEFINE q == [r EXCEPT !.stored = @ \ {a}]
  <2>2. /\ q \in Run /\ q.sent = r.sent /\ q.failed = r.failed
        /\ q.executor = r.executor /\ q.exit = r.exit /\ q.id_written = r.id_written
        /\ q.id = r.id /\ q.ended = r.ended
    BY <1>1 DEF Run
  <2> QED
    BY <2>1, <2>2
<1>4. UNCHANGED <<service, answers, results, answered>>
  BY DEF Confirm, historyVars
<1>5. run'[j] = q /\ submission'[j] \in {submission[j], "acked", "rejected"}
  BY <1>3, FollowWhat
<1>6. ExecutorKnown(j)'
  BY <1>2, <1>3, <1>4, <1>5 DEF JobInv, ExecutorKnown, HasEnded, Succeeded, Failed, NoRun
<1>7. NothingUnsaid(j)'
  BY <1>3, <1>4, <1>5 DEF JobInv, NothingUnsaid
<1> QED
  BY <1>2, <1>3, <1>4, <1>6, <1>7, FollowInv

-----------------------------------------------------------------------------
(* The executors, the broker and LSF.                                      *)

\* A step of an executor leaves the invariant when its monitor can tell as much.
LEMMA ExecutorInv ==
    ASSUME TypeOK, NEW j \in Jobs, JobInv(j), executorUnchanged' = executorUnchanged,
           UNCHANGED netVars,
           results[j] \subseteq results'[j],
           run'[j].sent = run[j].sent, run'[j].failed = run[j].failed,
           run'[j].id = run[j].id, run'[j].ended = run[j].ended,
           ExecutorKnown(j)'
    PROVE  JobInv(j)'
<1>1. UNCHANGED <<service, submission, answers, answered>>
  BY DEF executorUnchanged
<1>2. HeardTrue(j)'
  BY <1>1, HeardStays
<1>3. NothingUnsaid(j)'
  BY <1>1 DEF JobInv, NothingUnsaid
<1>4. submission'[j] = "acked" => Answered(j)'
  BY <1>1, AnsweredStays DEF JobInv
<1> QED
  BY <1>2, <1>3, <1>4, TokenStays DEF JobInv

LEMMA ExecutorStepInv ==
    ASSUME TypeOK, NEW j \in Jobs, JobInv(j),
           ExecutorStep(j) \/ ExecutorInterrupted(j) \/ ExecutorKilled(j), UNCHANGED netVars
    PROVE  JobInv(j)'
<1> DEFINE r == run[j]
<1>1. r \in Run /\ run \in [Jobs -> Run] /\ results \in [Jobs -> SUBSET Results]
  BY DEF TypeOK, ServiceTypeOK
<1>2. r.executor \in {"starting", "submitted", "running"} =>
         /\ submission[j] \notin {"unsent", "queued"}
         /\ r.id # "failure" /\ r.ended # "success"
         /\ r.executor = "running" => r.id_written
  BY DEF JobInv, ExecutorKnown, HasEnded, Succeeded, NoRun
\* What there is to show of a step of an executor that has not ended.
<1>3. ASSUME r.executor \in {"starting", "submitted", "running"},
             run'[j].id = r.id, run'[j].ended = r.ended,
             run'[j].sent = r.sent, run'[j].failed = r.failed,
             executorUnchanged' = executorUnchanged, results[j] \subseteq results'[j],
             \/ run'[j].executor = "submitted"
             \/ run'[j].executor = "running" /\ run'[j].id_written
             \/ run'[j].executor = "killed" /\ Failed(j)'
             \/ run'[j].executor = "exited" /\ run'[j].exit # 0 /\ Failed(j)'
             \/ /\ run'[j].executor = "exited" /\ run'[j].id_written
                /\ service[j] = "fork" => run'[j].exit = 0 /\ "zero" \in results'[j]
      PROVE  JobInv(j)'
  <2>1. submission'[j] = submission[j] /\ service'[j] = service[j]
    BY <1>3 DEF executorUnchanged
  <2>2. ExecutorKnown(j)'
    BY <1>2, <1>3, <2>1 DEF ExecutorKnown, HasEnded, Succeeded
  <2> QED
    BY <1>3, <2>2, ExecutorInv
<1>4. CASE ExecutorFails(j)
  <2>1. /\ run'[j].executor = "exited" /\ run'[j].exit = 1
        /\ run'[j].id = r.id /\ run'[j].ended = r.ended
        /\ run'[j].sent = r.sent /\ run'[j].failed = r.failed
    BY <1>1, <1>4 DEF ExecutorFails, Exits, Run
  <2>2. results'[j] = results[j] \cup {"no_id"} /\ r.executor = "starting"
        /\ executorUnchanged' = executorUnchanged
    BY <1>1, <1>4 DEF ExecutorFails, Ended
  <2>3. Failed(j)'
    BY <2>2 DEF Failed
  <2> QED
    BY <2>1, <2>2, <2>3, <1>3
<1>5. CASE ForkStarts(j)
  <2>1. /\ run'[j].executor = "running" /\ run'[j].id_written
        /\ run'[j].id = r.id /\ run'[j].ended = r.ended
        /\ run'[j].sent = r.sent /\ run'[j].failed = r.failed
    BY <1>1, <1>5 DEF ForkStarts, Run
  <2>2. results'[j] = results[j] /\ r.executor = "starting"
        /\ executorUnchanged' = executorUnchanged
    BY <1>1, <1>5 DEF ForkStarts, AtExecutor
  <2> QED
    BY <2>1, <2>2, <1>3
<1>6. CASE CommandExits(j)
  <2>1. PICK code \in ExitCodes : /\ AtExecutor(j, "fork", "running") /\ Exits(j, code)
                                  /\ Ended(j, ResultOf(code))
                                  /\ executorUnchanged' = executorUnchanged
    BY <1>6 DEF CommandExits
  <2>2. /\ run'[j].executor = "exited" /\ run'[j].exit = code
        /\ run'[j].id_written = r.id_written /\ run'[j].id = r.id /\ run'[j].ended = r.ended
        /\ run'[j].sent = r.sent /\ run'[j].failed = r.failed
    BY <1>1, <2>1 DEF Exits, Run
  <2>3. /\ results'[j] = results[j] \cup {ResultOf(code)} /\ r.executor = "running"
        /\ run'[j].id_written
    BY <1>1, <1>2, <2>1, <2>2 DEF Ended, AtExecutor
  <2>4. CASE code = 0
    <3>1. "zero" \in results'[j]
      BY <2>3, <2>4 DEF ResultOf
    <3> QED
      BY <2>1, <2>2, <2>3, <2>4, <3>1, <1>3
  <2>5. CASE code # 0
    <3>1. Failed(j)'
      BY <2>3, <2>5 DEF ResultOf, Failed
    <3> QED
      BY <2>1, <2>2, <2>3, <2>5, <3>1, <1>3
  <2> QED
    BY <2>4, <2>5
<1>7. CASE ExecutorInterrupted(j)
  <2>1. /\ run'[j].executor = "exited" /\ run'[j].exit = 1
        /\ run'[j].id = r.id /\ run'[j].ended = r.ended
        /\ run'[j].sent = r.sent /\ run'[j].failed = r.failed
    BY <1>1, <1>7 DEF ExecutorInterrupted, Exits, Run
  <2>2. results'[j] = results[j] \cup {"interrupted"} /\ r.executor = "running"
        /\ executorUnchanged' = executorUnchanged
    BY <1>1, <1>7 DEF ExecutorInterrupted, Ended, AtExecutor
  <2>3. Failed(j)'
    BY <2>2 DEF Failed
  <2> QED
    BY <2>1, <2>2, <2>3, <1>3
<1>8. CASE LsfSubmits(j)
  <2>1. /\ run'[j].executor = "submitted" /\ run'[j].id = r.id /\ run'[j].ended = r.ended
        /\ run'[j].sent = r.sent /\ run'[j].failed = r.failed
    BY <1>1, <1>8 DEF LsfSubmits, Run
  <2>2. results'[j] = results[j] /\ r.executor = "starting"
        /\ executorUnchanged' = executorUnchanged
    BY <1>1, <1>8 DEF LsfSubmits, AtExecutor
  <2> QED
    BY <2>1, <2>2, <1>3
<1>9. CASE LsfWritesId(j)
  <2>1. /\ run'[j].executor = "exited" /\ run'[j].id_written
        /\ run'[j].id = r.id /\ run'[j].ended = r.ended
        /\ run'[j].sent = r.sent /\ run'[j].failed = r.failed
    BY <1>1, <1>9 DEF LsfWritesId, Run
  <2>2. results'[j] = results[j] /\ r.executor = "submitted" /\ service[j] = "lsf"
        /\ executorUnchanged' = executorUnchanged
    BY <1>1, <1>9 DEF LsfWritesId, AtExecutor
  <2> QED
    BY <2>1, <2>2, <1>3
<1>10. CASE ExecutorKilled(j)
  <2>1. /\ run'[j].executor = "killed" /\ run'[j].id = r.id /\ run'[j].ended = r.ended
        /\ run'[j].sent = r.sent /\ run'[j].failed = r.failed
    BY <1>1, <1>10 DEF ExecutorKilled, Run
  <2>2. /\ results[j] \subseteq results'[j]
        /\ "no_id" \in results'[j] \/ "interrupted" \in results'[j]
        /\ executorUnchanged' = executorUnchanged
    BY <1>1, <1>10 DEF ExecutorKilled, Ended
  <2>3. r.executor \in {"starting", "submitted", "running"}
    BY <1>10, ServicesAssumption DEF ExecutorKilled
  <2>4. Failed(j)'
    BY <2>2 DEF Failed
  <2> QED
    BY <2>1, <2>2, <2>3, <2>4, <1>3
<1> QED
  BY <1>4, <1>5, <1>6, <1>7, <1>8, <1>9, <1>10 DEF ExecutorStep

LEMMA ReceiveInv ==
    ASSUME TypeOK, NEW j \in Jobs, JobInv(j), Receive(j), UNCHANGED netVars
    PROVE  JobInv(j)'
<1>1. /\ submission[j] = "queued" /\ run[j] = NoRun
      /\ UNCHANGED <<service, answers, results, answered>>
  BY DEF Receive, JobInv, ExecutorKnown
<1>2. /\ submission'[j] \in {"handling", "rejected"}
      /\ run'[j] = NoRun \/ run'[j] = [NoRun EXCEPT !.executor = "starting"]
  BY <1>1 DEF Receive, TypeOK, ServiceTypeOK
<1>3. /\ run'[j].sent = {} /\ ~run'[j].id_written /\ run'[j].id = "waiting"
      /\ run'[j].ended = "waiting" /\ run'[j].executor \in {"none", "starting"}
      /\ run'[j].executor = "none" => run'[j] = NoRun
  BY <1>2 DEF NoRun
<1>4. HeardTrue(j)'
  BY <1>1, <1>3, HeardStays
<1>5. ExecutorKnown(j)'
  BY <1>2, <1>3 DEF ExecutorKnown, HasEnded
<1>6. NothingUnsaid(j)'
  BY <1>3 DEF NothingUnsaid
<1> QED
  BY <1>2, <1>4, <1>5, <1>6, TokenStays DEF JobInv

LEMMA StoreInv ==
    ASSUME TypeOK, NEW j \in Jobs, JobInv(j), Store(j), UNCHANGED netVars
    PROVE  JobInv(j)'
<1> DEFINE r == run[j]
<1>1. r \in Run /\ run \in [Jobs -> Run] /\ answered[j] \subseteq Answers
      /\ answered \in [Jobs -> SUBSET Answers] /\ answers \in [Jobs \X Answers -> Nat]
  BY DEF TypeOK, ServiceTypeOK
<1>2. PICK a \in r.sent :
          /\ Answer(j, a) /\ UNCHANGED <<service, submission, results>>
          /\ run' = [run EXCEPT ![j].sent = @ \ {a}, ![j].stored = @ \cup {a}]
  BY DEF Store
<1>3. /\ run'[j].sent = r.sent \ {a} /\ run'[j].failed = r.failed
      /\ run'[j].executor = r.executor /\ run'[j].exit = r.exit
      /\ run'[j].id_written = r.id_written /\ run'[j].id = r.id /\ run'[j].ended = r.ended
  BY <1>1, <1>2 DEF Run
<1>4. /\ answered'[j] = answered[j] \cup {a}
      /\ \A b \in Answers : b # a => answers'[<<j, b>>] = answers[<<j, b>>]
  BY <1>1, <1>2 DEF Answer
<1>5. HeardTrue(j)'
  BY <1>2, <1>3, <1>4, HeardStays
<1>6. r.executor # "none"
  BY <1>2 DEF JobInv, ExecutorKnown, NoRun
<1>7. ExecutorKnown(j)'
  BY <1>2, <1>3, <1>6 DEF JobInv, ExecutorKnown, HasEnded, Succeeded, Failed, NoRun
<1>8. NothingUnsaid(j)'
  BY <1>2, <1>3, <1>4 DEF JobInv, NothingUnsaid
<1>9. submission'[j] = "acked" => Answered(j)'
  BY <1>2, <1>4, AnsweredStays DEF JobInv
<1> QED
  BY <1>5, <1>7, <1>8, <1>9, TokenStays DEF JobInv

LEMMA LsfInv ==
    ASSUME TypeOK, NEW j \in Jobs, JobInv(j), LsfStep(j), UNCHANGED netVars
    PROVE  JobInv(j)'
<1>1. answered \in [Jobs -> SUBSET Answers] /\ answers \in [Jobs \X Answers -> Nat]
      /\ results \in [Jobs -> SUBSET Results]
  BY DEF TypeOK, ServiceTypeOK
<1>2. PICK a \in Answers :
          /\ Answer(j, a) /\ UNCHANGED <<service, submission, run>>
          /\ results[j] \subseteq results'[j]
          /\ \/ a = "msg: execute_begin"
             \/ a = "msg: execute_success" /\ "zero" \in results'[j]
             \/ a = "msg: execute_failure" /\ Failed(j)'
  <2>1. CASE LsfPreExec(j)
    BY <2>1 DEF LsfPreExec, Answers
  <2>2. CASE LsfPostExec(j)
    <3>1. PICK code \in ExitCodes :
              /\ Answer(j, PostExecAnswer(code)) /\ Ended(j, ResultOf(code))
              /\ UNCHANGED <<service, submission, run>>
      BY <2>2 DEF LsfPostExec
    <3>2. results'[j] = results[j] \cup {ResultOf(code)}
      BY <1>1, <3>1 DEF Ended
    <3>3. CASE code = 0
      BY <3>1, <3>2, <3>3 DEF PostExecAnswer, ResultOf, Answers
    <3>4. CASE code # 0
      <4>1. Failed(j)'
        BY <3>2, <3>4 DEF ResultOf, Failed
      <4> QED
        BY <3>1, <3>2, <3>4, <4>1 DEF PostExecAnswer, Answers
    <3> QED
      BY <3>3, <3>4
  <2> QED
    BY <2>1, <2>2 DEF LsfStep
<1>3. /\ answered[j] \subseteq answered'[j]
      /\ \A b \in Answers : b # a => answers'[<<j, b>>] = answers[<<j, b>>]
  BY <1>1, <1>2 DEF Answer
<1>4. HeardTrue(j)'
  BY <1>2, <1>3, HeardStays
<1>5. ExecutorKnown(j)' /\ NothingUnsaid(j)'
  BY <1>2, <1>3 DEF JobInv, ExecutorKnown, NothingUnsaid, HasEnded, Succeeded, Failed
<1>6. submission'[j] = "acked" => Answered(j)'
  BY <1>2, <1>3, AnsweredStays DEF JobInv
<1> QED
  BY <1>4, <1>5, <1>6, TokenStays DEF JobInv

-----------------------------------------------------------------------------
(* The net.                                                                *)

\* What a step of the net does not touch.
LEMMA ServicesStay ==
    ASSUME NEW j \in Jobs, JobInv(j), UNCHANGED svars
    PROVE  /\ ExecutorKnown(j)' /\ NothingUnsaid(j)'
           /\ submission'[j] = "acked" => Answered(j)'
<1>1. UNCHANGED <<service, submission, run, results, answered>>
  BY DEF svars, historyVars
<1>2. ExecutorKnown(j)' /\ NothingUnsaid(j)'
  BY <1>1 DEF JobInv, ExecutorKnown, NothingUnsaid, HasEnded, Succeeded, Failed
<1>3. submission'[j] = "acked" => Answered(j)'
  BY <1>1, AnsweredStays DEF JobInv
<1> QED
  BY <1>2, <1>3

LEMMA DispatchInv ==
    ASSUME TypeOK, NEW j \in Jobs, JobInv(j), Dispatch(j)
    PROVE  JobInv(j)'
<1>1. /\ UNCHANGED <<service, run, answers, results, answered, netVars>>
      /\ submission[j] = "unsent" /\ submission'[j] = "queued"
  BY DEF Dispatch, Submit, historyVars, TypeOK, ServiceTypeOK
<1>2. HeardTrue(j)'
  BY <1>1, HeardStays
<1>3. ExecutorKnown(j)' /\ NothingUnsaid(j)'
  BY <1>1 DEF JobInv, ExecutorKnown, NothingUnsaid, HasEnded, Succeeded, Failed
<1> QED
  BY <1>1, <1>2, <1>3, TokenStays DEF JobInv

LEMMA DeliverInv ==
    ASSUME TypeOK, NEW j \in Jobs, JobInv(j), Deliver(j)
    PROVE  JobInv(j)'
<1>1. PICK a \in Answers :
          /\ answers[<<j, a>>] > 0 /\ marking' = marking \cup {<<j, a>>}
          /\ answers' = [answers EXCEPT ![<<j, a>>] = @ - 1]
          /\ UNCHANGED <<service, submission, run, results, answered, due, firing>>
  BY DEF Deliver, historyVars
<1>2. answers \in [Jobs \X Answers -> Nat]
  BY DEF TypeOK, ServiceTypeOK
<1>3. \A p : Marked(j, p)' <=> Marked(j, p) \/ p = a
  BY <1>1 DEF Marked
<1>4. \A t : Firing(j, t)' <=> Firing(j, t)
  BY <1>1 DEF Firing
<1>5. OneToken(j)'
  BY <1>1, <1>3, <1>4 DEF JobInv, OneToken, ControlPlaces
<1>6. HeardTrue(j)'
  <2>1. \A b \in Answers : answers'[<<j, b>>] > 0 => answers[<<j, b>>] > 0
    BY <1>1, <1>2
  <2>2. \A p \in {"success_cleanup", "success_bridge", "success",
                  "failure_cleanup", "failure_bridge", "failure"} : p # a
    BY DEF Answers
  <2>3. HeardSuccess(j)' => HeardSuccess(j)
    BY <1>1, <1>3, <1>4, <2>1, <2>2 DEF HeardSuccess, Heard, Answers
  <2>4. HeardFailure(j)' => HeardFailure(j)
    BY <1>1, <1>3, <1>4, <2>1, <2>2 DEF HeardFailure, Heard, Answers
  <2> QED
    BY <1>1, <2>3, <2>4 DEF JobInv, HeardTrue, Failed
<1>7. ExecutorKnown(j)' /\ NothingUnsaid(j)'
  BY <1>1 DEF JobInv, ExecutorKnown, NothingUnsaid, HasEnded, Succeeded, Failed
<1>8. submission'[j] = "acked" => Answered(j)'
  BY <1>1, AnsweredStays DEF JobInv
<1> QED
  BY <1>5, <1>6, <1>7, <1>8 DEF JobInv

LEMMA BeginWhat ==
    ASSUME NEW j \in Jobs, NEW t \in NetTransitions, Net!Begin(t, {j})
    PROVE  /\ \A p \in NetInputs[t] : Marked(j, p)
           /\ \A k, p : <<k, p>> \in marking' <=>
                 <<k, p>> \in marking /\ ~(k = j /\ p \in NetInputs[t])
           /\ \A k, s : <<s, {k}>> \in firing' <=>
                 <<s, {k}>> \in firing \/ (k = j /\ s = t)
           /\ due' = due /\ groups' = groups
           /\ marking' \subseteq marking /\ firing' = firing \cup {<<t, {j}>>}
<1>1. /\ {j} \X NetInputs[t] \subseteq marking
      /\ marking' = marking \ ({j} \X NetInputs[t])
      /\ firing' = firing \cup {<<t, {j}>>}
      /\ due' = due /\ groups' = groups
  BY DEF Net!Begin, Net!CanBegin
<1>2. \A k : {k} = {j} => k = j
  OBVIOUS
<1> QED
  BY <1>1, <1>2 DEF Marked

LEMMA EndWhat ==
    ASSUME NEW j \in Jobs, NEW t \in NetTransitions, Net!End(t, {j})
    PROVE  /\ Firing(j, t)
           /\ \A k, p : <<k, p>> \in marking' <=>
                 <<k, p>> \in marking \/ (k = j /\ p \in NetOutputs[t])
           /\ \A k, s : <<s, {k}>> \in firing' <=>
                 <<s, {k}>> \in firing /\ ~(k = j /\ s = t)
           /\ due' = due /\ groups' = groups
           /\ marking' = marking \cup ({j} \X NetOutputs[t]) /\ firing' \subseteq firing
<1>1. Net!Gives(t, {j}) = {{j}}
  BY DEF Net!Gives
<1>2. /\ <<t, {j}>> \in firing
      /\ marking' = marking \cup ({j} \X NetOutputs[t])
      /\ firing' = firing \ {<<t, {j}>>}
      /\ due' = due /\ groups' = groups
  BY <1>1 DEF Net!End
<1>3. \A k : {k} = {j} => k = j
  OBVIOUS
<1> QED
  BY <1>2, <1>3 DEF Firing

LEMMA BeginInv ==
    ASSUME TypeOK, NEW j \in Jobs, JobInv(j), Begin(j)
    PROVE  JobInv(j)'
<1>1. PICK t \in NetTransitions : Net!Begin(t, {j})
  BY DEF Begin
<1>2. UNCHANGED svars
  BY DEF Begin
<1>3. /\ \A p \in NetInputs[t] : Marked(j, p)
      /\ \A p : Marked(j, p)' <=> Marked(j, p) /\ p \notin NetInputs[t]
      /\ \A s : Firing(j, s)' <=> Firing(j, s) \/ s = t
      /\ due' = due
  BY <1>1, BeginWhat DEF Marked, Firing
<1>4. OneToken(j)'
  <2>1. PICK c \in ControlPlaces : c \in NetInputs[t]
    BY OneIn
  <2>2. /\ \A p \in ControlPlaces : Marked(j, p) => p = c
        /\ \A s \in NetTransitions : ~Firing(j, s)
        /\ <<j, "start">> \notin due
    BY <1>3, <2>1 DEF JobInv, OneToken
  <2> QED
    BY <1>3, <2>1, <2>2 DEF OneToken, ControlPlaces
<1>5. HeardTrue(j)'
  <2>1. UNCHANGED <<run, answers, results>>
    BY <1>2 DEF svars, historyVars
  <2>2. HeardSuccess(j)' => HeardSuccess(j)
    BY <1>3, <2>1, Followers DEF HeardSuccess, Heard
  <2>3. HeardFailure(j)' => HeardFailure(j)
    BY ZenonT(60), <1>3, <2>1, Followers DEF HeardFailure, Heard
  <2> QED
    BY <2>1, <2>2, <2>3 DEF JobInv, HeardTrue, Failed
<1> QED
  BY <1>2, <1>4, <1>5, ServicesStay DEF JobInv

LEMMA EndOfFiringInv ==
    ASSUME TypeOK, NEW j \in Jobs, JobInv(j), End(j)
    PROVE  JobInv(j)'
<1>1. PICK t \in NetTransitions : Net!End(t, {j})
  BY DEF End
<1>2. UNCHANGED svars
  BY DEF End
<1>3. /\ Firing(j, t)
      /\ \A p : Marked(j, p)' <=> Marked(j, p) \/ p \in NetOutputs[t]
      /\ \A s : Firing(j, s)' <=> Firing(j, s) /\ s # t
      /\ due' = due
  BY <1>1, EndWhat DEF Marked, Firing
<1>4. PICK c \in ControlPlaces : NetOutputs[t] = {c}
  BY OneOut
<1>5. OneToken(j)'
  <2>1. /\ \A p \in ControlPlaces : ~Marked(j, p)
        /\ \A s \in NetTransitions : Firing(j, s) => s = t
        /\ <<j, "start">> \notin due
    BY <1>3 DEF JobInv, OneToken
  <2> QED
    BY <1>3, <1>4, <2>1 DEF OneToken, ControlPlaces
<1>6. HeardTrue(j)'
  <2>1. UNCHANGED <<run, answers, results>>
    BY <1>2 DEF svars, historyVars
  <2>2. c \notin Answers
    BY DEF ControlPlaces
  <2>3. HeardSuccess(j)' => HeardSuccess(j)
    BY <1>3, <1>4, <2>1, <2>2, Followers DEF HeardSuccess, Heard, Answers
  <2>4. HeardFailure(j)' => HeardFailure(j)
    BY <1>3, <1>4, <2>1, <2>2, Followers DEF HeardFailure, Heard, Answers
  <2> QED
    BY <2>1, <2>3, <2>4 DEF JobInv, HeardTrue, Failed
<1> QED
  BY <1>2, <1>5, <1>6, ServicesStay DEF JobInv

LEMMA StartInv ==
    ASSUME TypeOK, NEW j \in Jobs, JobInv(j), Start
    PROVE  JobInv(j)'
<1>1. PICK cell \in due : /\ marking' = marking \cup {cell} /\ due' = due \ {cell}
                          /\ UNCHANGED <<groups, firing>>
  BY DEF Start, Net!Deposit
<1>2. PICK k \in Jobs : cell = <<k, "start">>
  BY <1>1 DEF TypeOK
<1>3. UNCHANGED svars
  BY DEF Start
<1>4. /\ \A p : Marked(j, p)' <=> Marked(j, p) \/ (j = k /\ p = "start")
      /\ \A t : Firing(j, t)' <=> Firing(j, t)
  BY <1>1, <1>2 DEF Marked, Firing
<1>5. OneToken(j)'
  BY <1>1, <1>2, <1>4 DEF JobInv, OneToken
<1>6. HeardTrue(j)'
  <2>1. UNCHANGED <<run, answers, results>>
    BY <1>3 DEF svars, historyVars
  <2>2. HeardSuccess(j)' => HeardSuccess(j)
    BY <1>4, <2>1 DEF HeardSuccess, Heard
  <2>3. HeardFailure(j)' => HeardFailure(j)
    BY <1>4, <2>1 DEF HeardFailure, Heard
  <2> QED
    BY <2>1, <2>2, <2>3 DEF JobInv, HeardTrue, Failed
<1> QED
  BY <1>3, <1>5, <1>6, ServicesStay DEF JobInv

-----------------------------------------------------------------------------
(* Every step.                                                             *)

\* What a job's step does to another job.
LEMMA OthersAlone ==
    ASSUME TypeOK, NEW j \in Jobs, NEW k \in Jobs, k # j, Progress(j) \/ Fault(j)
    PROVE  Alone(k)
<1>1. /\ run \in [Jobs -> Run] /\ results \in [Jobs -> SUBSET Results]
      /\ answered \in [Jobs -> SUBSET Answers] /\ answers \in [Jobs \X Answers -> Nat]
      /\ submission \in [Jobs -> {"unsent", "queued", "handling", "acked", "rejected"}]
  BY DEF TypeOK, ServiceTypeOK
<1>2. CASE Begin(j)
  <2>1. PICK t \in NetTransitions : Net!Begin(t, {j})
    BY <1>2 DEF Begin
  <2> QED
    BY <1>2, <2>1, BeginWhat DEF Begin, Alone, svars, historyVars
<1>3. CASE End(j)
  <2>1. PICK t \in NetTransitions : Net!End(t, {j})
    BY <1>3 DEF End
  <2> QED
    BY <1>3, <2>1, EndWhat DEF End, Alone, svars, historyVars
<1>4. CASE Dispatch(j)
  BY <1>1, <1>4 DEF Dispatch, Submit, Alone, historyVars, netVars
<1>5. CASE Deliver(j)
  BY <1>1, <1>5 DEF Deliver, Alone, historyVars
<1>6. CASE Receive(j) /\ UNCHANGED netVars
  BY <1>1, <1>6 DEF Receive, Alone, netVars
<1>7. CASE (ExecutorStep(j) \/ ExecutorInterrupted(j) \/ ExecutorKilled(j)) /\ UNCHANGED netVars
  <2>1. run'[k] = run[k] /\ results'[k] = results[k] /\ executorUnchanged' = executorUnchanged
    BY <1>1, <1>7 DEF ExecutorStep, ExecutorFails, ForkStarts, CommandExits, LsfSubmits,
       LsfWritesId, ExecutorInterrupted, ExecutorKilled, Exits, Ended
  <2> QED
    BY <1>7, <2>1 DEF executorUnchanged, Alone, netVars
<1>8. CASE (JobIdConnectionLost(j) \/ ProcessEnded(j) \/ Confirm(j))
           /\ UNCHANGED netVars
  <2>1. \E r : Follow(j, r)
    BY <1>8 DEF JobIdConnectionLost, ProcessEnded, Confirm
  <2>2. run'[k] = run[k] /\ submission'[k] = submission[k]
    BY <1>1, <2>1 DEF Follow
  <2>3. UNCHANGED <<service, answers, historyVars>>
    BY <1>8 DEF JobIdConnectionLost, ProcessEnded, Confirm
  <2> QED
    BY <1>8, <2>2, <2>3 DEF Alone, netVars, historyVars
<1>9. CASE Store(j) /\ UNCHANGED netVars
  BY <1>1, <1>9 DEF Store, Answer, Alone, netVars
<1>10. CASE LsfStep(j) /\ UNCHANGED netVars
  BY <1>1, <1>10 DEF LsfStep, LsfPreExec, LsfPostExec, Answer, Ended, Alone, netVars
<1> QED
  BY <1>2, <1>3, <1>4, <1>5, <1>6, <1>7, <1>8, <1>9, <1>10
     DEF Progress, NetStep, JobStep, MonitorStep, Fault, JobFault

LEMMA OwnStep ==
    ASSUME TypeOK, NEW j \in Jobs, JobInv(j), Progress(j) \/ Fault(j)
    PROVE  JobInv(j)'
BY BeginInv, EndOfFiringInv, DispatchInv, DeliverInv, ReceiveInv, ExecutorStepInv, IdInv,
   EndInv, ConfirmInv, StoreInv, LsfInv
   DEF Progress, NetStep, JobStep, MonitorStep, Fault, JobFault

LEMMA DieInv ==
    ASSUME TypeOK, NEW s \in Services, Die(s), NEW j \in Jobs, JobInv(j)
    PROVE  JobInv(j)'
<1>1. UNCHANGED <<service, answers, results, answered, netVars>>
  BY DEF Die, Crash, historyVars
<1>2. CASE service[j] = s /\ run[j].executor # "none"
  <2>1. run'[j] = NoRun
    BY <1>2 DEF Die, Crash
  <2>2. submission'[j] = IF submission[j] = "handling" THEN "queued" ELSE submission[j]
    BY <1>2 DEF Die, Crash
  <2>3. HeardTrue(j)'
    <3>1. run'[j].sent = {}
      BY <2>1 DEF NoRun
    <3> QED
      BY <1>1, <3>1, HeardStays
  <2>4. ExecutorKnown(j)' /\ NothingUnsaid(j)'
    BY <2>1 DEF ExecutorKnown, NothingUnsaid, NoRun, HasEnded, Succeeded
  <2>5. submission'[j] = "acked" => Answered(j)'
    BY <1>1, <2>2, AnsweredStays DEF JobInv
  <2> QED
    BY <1>1, <2>3, <2>4, <2>5, TokenStays DEF JobInv
<1>3. CASE ~(service[j] = s /\ run[j].executor # "none")
  <2>1. run'[j] = run[j] /\ submission'[j] = submission[j]
    BY <1>3 DEF Die, Crash
  <2>2. Alone(j)
    BY <1>1, <2>1 DEF Alone, netVars
  <2> QED
    BY <2>2, AloneInv
<1> QED
  BY <1>2, <1>3

-----------------------------------------------------------------------------
(* Types.                                                                  *)

LEMMA NetType ==
    ASSUME TypeOK, NEW j \in Jobs, NetStep(j) \/ Start
    PROVE  /\ due' \subseteq Jobs \X {"start"} /\ groups' = NetGroups
           /\ marking' \subseteq Jobs \X NetPlaces
           /\ firing' \subseteq NetTransitions \X {{k} : k \in Jobs}
<1>1. "start" \in NetPlaces
  <2>1. "start" \in NetInputs["start"] /\ "start" \in NetTransitions
    BY InputsOf, Transitions
  <2> QED
    BY <2>1 DEF NetPlaces
<1>2. CASE Start
  BY <1>1, <1>2 DEF TypeOK, Start, Net!Deposit
<1>3. CASE Begin(j)
  <2>1. PICK t \in NetTransitions : Net!Begin(t, {j})
    BY <1>3 DEF Begin
  <2>2. /\ due' = due /\ groups' = groups
        /\ marking' \subseteq marking /\ firing' = firing \cup {<<t, {j}>>}
    BY <2>1, BeginWhat
  <2> QED
    BY <2>2 DEF TypeOK
<1>4. CASE Dispatch(j)
  BY <1>4 DEF TypeOK, Dispatch, netVars
<1>5. CASE End(j)
  <2>1. PICK t \in NetTransitions : Net!End(t, {j})
    BY <1>5 DEF End
  <2>2. /\ due' = due /\ groups' = groups
        /\ marking' = marking \cup ({j} \X NetOutputs[t]) /\ firing' \subseteq firing
    BY <2>1, EndWhat
  <2>3. NetOutputs[t] \subseteq NetPlaces
    BY DEF NetPlaces
  <2> QED
    BY <2>2, <2>3 DEF TypeOK
<1>6. CASE Deliver(j)
  BY <1>6, AnswersArePlaces DEF TypeOK, Deliver
<1> QED
  BY <1>2, <1>3, <1>4, <1>5, <1>6 DEF NetStep

LEMMA FollowType ==
    ASSUME TypeOK, NEW j \in Jobs,
           JobIdConnectionLost(j) \/ ProcessEnded(j) \/ Confirm(j)
    PROVE  \E r \in Run : Follow(j, r)
<1>1. run[j] \in Run /\ service[j] \in Services
  BY DEF TypeOK, ServiceTypeOK
<1>2. CASE JobIdConnectionLost(j)
  <2> DEFINE known == run[j].id_written
  <2>1. IdAnswers(j, known) \subseteq Answers
    BY <1>1, WhatIsAnswered DEF Services, Answers, Run
  <2>2. [run[j] EXCEPT !.id = IF run[j].id_written THEN "success" ELSE "failure",
                       !.sent = @ \cup IdAnswers(j, run[j].id_written)] \in Run
    BY <1>1, <2>1 DEF Run
  <2> QED
    BY <1>2, <2>2 DEF JobIdConnectionLost
<1>3. CASE ProcessEnded(j)
  <2> DEFINE e == EndedOf(j, run[j])
  <2>1. e \in {"success", "failure", "lost"}
    BY HowItEnds
  <2>2. Follow(j, [run[j] EXCEPT !.ended = e, !.sent = @ \cup EndAnswers(j, e),
                                 !.failed = @ \/ (service[j] = "lsf" /\ e = "failure")])
    BY <1>3 DEF ProcessEnded
  <2> HIDE DEF e
  <2>3. EndAnswers(j, e) \subseteq Answers
    BY <1>1, <2>1, WhatIsAnsweredAtEnd DEF Services, Answers
  <2>4. [run[j] EXCEPT !.ended = e, !.sent = @ \cup EndAnswers(j, e),
                       !.failed = @ \/ (service[j] = "lsf" /\ e = "failure")] \in Run
    BY <1>1, <2>1, <2>3 DEF Run
  <2> QED
    BY <2>2, <2>4
<1>4. CASE Confirm(j)
  <2>1. PICK a \in run[j].stored : Follow(j, [run[j] EXCEPT !.stored = @ \ {a}])
    BY <1>4 DEF Confirm
  <2>2. [run[j] EXCEPT !.stored = @ \ {a}] \in Run
    BY <1>1 DEF Run
  <2> QED
    BY <2>1, <2>2
<1> QED
  BY <1>2, <1>3, <1>4

LEMMA RunSteps ==
    ASSUME TypeOK, NEW j \in Jobs, JobStep(j) \/ JobFault(j)
    PROVE  run' \in [Jobs -> Run]
<1>1. run \in [Jobs -> Run] /\ run[j] \in Run
  BY DEF TypeOK, ServiceTypeOK
<1>2. CASE Receive(j)
  BY <1>1, <1>2 DEF Receive, Run
<1>3. CASE ExecutorFails(j)
  BY <1>1, <1>3 DEF ExecutorFails, Exits, Run
<1>4. CASE ForkStarts(j)
  BY <1>1, <1>4 DEF ForkStarts, Run
<1>5. CASE CommandExits(j)
  <2>1. PICK code \in ExitCodes : Exits(j, code)
    BY <1>5 DEF CommandExits
  <2> QED
    BY <1>1, <2>1 DEF Exits, Run
<1>6. CASE ExecutorInterrupted(j)
  BY <1>1, <1>6 DEF ExecutorInterrupted, Exits, Run
<1>7. CASE LsfSubmits(j)
  BY <1>1, <1>7 DEF LsfSubmits, Run
<1>8. CASE LsfWritesId(j)
  BY <1>1, <1>8 DEF LsfWritesId, Run
<1>9. CASE ExecutorKilled(j)
  BY <1>1, <1>9 DEF ExecutorKilled, Run
<1>10. CASE JobIdConnectionLost(j) \/ ProcessEnded(j) \/ Confirm(j)
  BY <1>10, FollowType, FollowWhat
<1>11. CASE Store(j)
  <2>1. PICK a \in run[j].sent :
            run' = [run EXCEPT ![j].sent = @ \ {a}, ![j].stored = @ \cup {a}]
    BY <1>11 DEF Store
  <2> QED
    BY <1>1, <2>1 DEF Run
<1>12. CASE LsfStep(j)
  BY <1>1, <1>12 DEF LsfStep, LsfPreExec, LsfPostExec
<1> QED
  BY <1>2, <1>3, <1>4, <1>5, <1>6, <1>7, <1>8, <1>9, <1>10, <1>11, <1>12
     DEF JobStep, ExecutorStep, MonitorStep, JobFault

LEMMA SubmissionSteps ==
    ASSUME TypeOK, NEW j \in Jobs, JobStep(j) \/ JobFault(j)
    PROVE  /\ submission' \in [Jobs -> {"unsent", "queued", "handling", "acked", "rejected"}]
           /\ service' = service
<1>1. submission \in [Jobs -> {"unsent", "queued", "handling", "acked", "rejected"}]
  BY DEF TypeOK, ServiceTypeOK
<1>2. CASE Receive(j)
  BY <1>1, <1>2 DEF Receive
<1>3. CASE ExecutorStep(j) \/ ExecutorInterrupted(j) \/ ExecutorKilled(j)
  <2>1. executorUnchanged' = executorUnchanged
    BY <1>3 DEF ExecutorStep, ExecutorFails, ForkStarts, CommandExits, LsfSubmits,
       LsfWritesId, ExecutorInterrupted, ExecutorKilled
  <2> QED
    BY <1>1, <2>1 DEF executorUnchanged
<1>4. CASE JobIdConnectionLost(j) \/ ProcessEnded(j) \/ Confirm(j)
  <2>1. service' = service
    BY <1>4 DEF JobIdConnectionLost, ProcessEnded, Confirm
  <2> QED
    BY <1>4, <2>1, FollowType, FollowWhat
<1>5. CASE Store(j) \/ LsfStep(j)
  BY <1>1, <1>5 DEF Store, LsfStep, LsfPreExec, LsfPostExec
<1> QED
  BY <1>2, <1>3, <1>4, <1>5 DEF JobStep, MonitorStep, JobFault

LEMMA AnswerSteps ==
    ASSUME TypeOK, NEW j \in Jobs, JobStep(j) \/ JobFault(j)
    PROVE  /\ answers' \in [Jobs \X Answers -> Nat]
           /\ answered' \in [Jobs -> SUBSET Answers]
           /\ results' \in [Jobs -> SUBSET Results]
           /\ runs' \in [Jobs -> Nat]
<1>1. /\ answers \in [Jobs \X Answers -> Nat] /\ answered \in [Jobs -> SUBSET Answers]
      /\ results \in [Jobs -> SUBSET Results] /\ runs \in [Jobs -> Nat] /\ run[j] \in Run
  BY DEF TypeOK, ServiceTypeOK
<1>2. \A a \in Answers : Answer(j, a) =>
          answers' \in [Jobs \X Answers -> Nat] /\ answered' \in [Jobs -> SUBSET Answers]
  BY <1>1 DEF Answer
<1>3. \A x \in Results : Ended(j, x) => results' \in [Jobs -> SUBSET Results]
  BY <1>1 DEF Ended
<1>4. \A code : ResultOf(code) \in Results /\ PostExecAnswer(code) \in Answers
  BY DEF ResultOf, Results, PostExecAnswer, Answers
<1>5. CASE Receive(j)
  BY <1>1, <1>5 DEF Receive
<1>6. CASE ExecutorStep(j) \/ ExecutorInterrupted(j) \/ ExecutorKilled(j)
  <2>1. executorUnchanged' = executorUnchanged
    BY <1>6 DEF ExecutorStep, ExecutorFails, ForkStarts, CommandExits, LsfSubmits,
       LsfWritesId, ExecutorInterrupted, ExecutorKilled
  <2>2. results' = results \/ \E x \in Results : Ended(j, x)
    BY <1>4, <1>6 DEF ExecutorStep, ExecutorFails, ForkStarts, CommandExits, LsfSubmits,
       LsfWritesId, ExecutorInterrupted, ExecutorKilled, Results
  <2> QED
    BY <1>1, <1>3, <2>1, <2>2 DEF executorUnchanged
<1>7. CASE JobIdConnectionLost(j) \/ ProcessEnded(j) \/ Confirm(j)
  BY <1>1, <1>7 DEF JobIdConnectionLost, ProcessEnded, Confirm, historyVars
<1>8. CASE Store(j)
  <2>1. PICK a \in Answers : Answer(j, a) /\ UNCHANGED <<results, runs>>
    BY <1>1, <1>8 DEF Store, Run
  <2> QED
    BY <1>1, <1>2, <2>1
<1>9. CASE LsfPreExec(j)
  <2>1. Answer(j, "msg: execute_begin") /\ UNCHANGED <<results, runs>>
    BY <1>9 DEF LsfPreExec
  <2> QED
    BY <1>1, <1>2, <2>1 DEF Answers
<1>10. CASE LsfPostExec(j)
  <2>1. PICK code \in ExitCodes :
            Answer(j, PostExecAnswer(code)) /\ Ended(j, ResultOf(code)) /\ UNCHANGED runs
    BY <1>10 DEF LsfPostExec
  <2> QED
    BY <1>1, <1>2, <1>3, <1>4, <2>1
<1> QED
  BY <1>5, <1>6, <1>7, <1>8, <1>9, <1>10 DEF JobStep, MonitorStep, LsfStep, JobFault

LEMMA LsfSteps ==
    ASSUME TypeOK, NEW j \in Jobs, JobStep(j) \/ JobFault(j)
    PROVE  /\ lsf_jobs' \in [Jobs -> Seq({"pending", "running", "done"})]
           /\ stderr_open' \in [Services -> BOOLEAN]
           /\ crashes' \in 0 .. MaxCrashes
<1>1. /\ lsf_jobs \in [Jobs -> Seq({"pending", "running", "done"})]
      /\ lsf_jobs[j] \in Seq({"pending", "running", "done"})
      /\ stderr_open \in [Services -> BOOLEAN]
      /\ crashes \in 0 .. MaxCrashes
  BY DEF TypeOK, ServiceTypeOK
<1>2. CASE LsfSubmits(j)
  <2>1. Append(lsf_jobs[j], "pending") \in Seq({"pending", "running", "done"})
    BY <1>1
  <2> QED
    BY <1>1, <1>2, <2>1 DEF LsfSubmits, executorUnchanged
<1>3. CASE LsfPreExec(j)
  <2>1. PICK i \in DOMAIN lsf_jobs[j] :
            /\ lsf_jobs' = [lsf_jobs EXCEPT ![j][i] = "running"]
            /\ UNCHANGED <<stderr_open, crashes>>
    BY <1>3 DEF LsfPreExec
  <2>2. [lsf_jobs[j] EXCEPT ![i] = "running"] \in Seq({"pending", "running", "done"})
    BY <1>1, <2>1
  <2> QED
    BY <1>1, <2>1, <2>2
<1>4. CASE LsfPostExec(j)
  <2>1. PICK i \in DOMAIN lsf_jobs[j] :
            /\ lsf_jobs' = [lsf_jobs EXCEPT ![j][i] = "done"]
            /\ UNCHANGED <<stderr_open, crashes>>
    BY <1>4 DEF LsfPostExec
  <2>2. [lsf_jobs[j] EXCEPT ![i] = "done"] \in Seq({"pending", "running", "done"})
    BY <1>1, <2>1
  <2> QED
    BY <1>1, <2>1, <2>2
<1>5. CASE ProcessEnded(j)
  <2>1. lsf_jobs' = lsf_jobs /\ crashes' = crashes
    BY <1>5 DEF ProcessEnded
  <2>2. stderr_open' \in [Services -> BOOLEAN]
    BY <1>1, <1>5 DEF ProcessEnded
  <2> QED
    BY <1>1, <2>1, <2>2
<1>6. CASE \/ Receive(j) \/ ExecutorFails(j) \/ ForkStarts(j) \/ CommandExits(j)
           \/ LsfWritesId(j) \/ ExecutorInterrupted(j) \/ ExecutorKilled(j)
           \/ JobIdConnectionLost(j) \/ Store(j) \/ Confirm(j)
  <2>1. UNCHANGED <<lsf_jobs, stderr_open, crashes>>
    BY <1>6 DEF Receive, ExecutorFails, ForkStarts, CommandExits, LsfWritesId,
       ExecutorInterrupted, ExecutorKilled, JobIdConnectionLost, Store, Confirm,
       executorUnchanged
  <2> QED
    BY <1>1, <2>1
<1> QED
  BY <1>2, <1>3, <1>4, <1>5, <1>6
     DEF JobStep, ExecutorStep, MonitorStep, LsfStep, JobFault

LEMMA DieType ==
    ASSUME TypeOK, NEW s \in Services, Die(s)
    PROVE  TypeOK'
<1>1. ServiceTypeOK
  BY DEF TypeOK
<1>2. NoRun \in Run
  BY DEF NoRun, Run
<1>3. run' \in [Jobs -> Run]
  BY <1>1, <1>2 DEF ServiceTypeOK, Die, Crash
<1>4. submission' \in [Jobs -> {"unsent", "queued", "handling", "acked", "rejected"}]
  BY <1>1 DEF ServiceTypeOK, Die, Crash
<1>5. lsf_jobs' \in [Jobs -> Seq({"pending", "running", "done"})]
  <2>1. PICK late : lsf_jobs' = [j \in Jobs |->
            IF j \in late THEN Append(lsf_jobs[j], "pending") ELSE lsf_jobs[j]]
    BY DEF Die, Crash
  <2>2. \A j \in Jobs : /\ lsf_jobs[j] \in Seq({"pending", "running", "done"})
                        /\ Append(lsf_jobs[j], "pending") \in Seq({"pending", "running", "done"})
    BY <1>1 DEF ServiceTypeOK
  <2> QED
    BY <2>1, <2>2
<1>6. stderr_open' \in [Services -> BOOLEAN]
  BY <1>1 DEF ServiceTypeOK, Die, Crash
<1>7. crashes' \in 0 .. MaxCrashes
  BY <1>1, ServicesAssumption DEF ServiceTypeOK, Die, Crash
<1>8. UNCHANGED <<service, answers, results, answered, runs, netVars>>
  BY DEF Die, Crash, historyVars
<1> QED
  BY <1>1, <1>3, <1>4, <1>5, <1>6, <1>7, <1>8 DEF TypeOK, ServiceTypeOK, netVars

LEMMA TypeStep == TypeOK /\ [Next]_vars => TypeOK'
<1> SUFFICES ASSUME TypeOK, [Next]_vars PROVE TypeOK'
  OBVIOUS
<1>1. CASE Start
  <2>1. UNCHANGED svars
    BY <1>1 DEF Start
  <2>2. ServiceTypeOK'
    BY <2>1 DEF TypeOK, ServiceTypeOK, svars, historyVars
  <2>3. PICK cell \in due : TRUE
    BY <1>1 DEF Start, Net!Deposit
  <2>4. PICK j \in Jobs : TRUE
    BY <2>3 DEF TypeOK
  <2> QED
    BY <1>1, <2>2, <2>4, NetType DEF TypeOK
<1>2. ASSUME NEW j \in Jobs, NetStep(j)
      PROVE  TypeOK'
  <2>1. ServiceTypeOK'
    <3>1. CASE Begin(j) \/ End(j)
      <4>1. UNCHANGED svars
        BY <3>1 DEF Begin, End
      <4> QED
        BY <4>1 DEF TypeOK, ServiceTypeOK, svars, historyVars
    <3>2. CASE Dispatch(j)
      BY <3>2 DEF Dispatch, Submit, TypeOK, ServiceTypeOK, historyVars
    <3>3. CASE Deliver(j)
      <4>1. answers' \in [Jobs \X Answers -> Nat]
        BY <3>3 DEF Deliver, TypeOK, ServiceTypeOK
      <4>2. UNCHANGED <<service, submission, run, lsf_jobs, stderr_open, historyVars, crashes>>
        BY <3>3 DEF Deliver
      <4> QED
        BY <4>1, <4>2 DEF TypeOK, ServiceTypeOK, historyVars
    <3> QED
      BY <1>2, <3>1, <3>2, <3>3 DEF NetStep
  <2> QED
    BY <1>2, <2>1, NetType DEF TypeOK
<1>3. ASSUME NEW j \in Jobs, JobStep(j) \/ JobFault(j), UNCHANGED netVars
      PROVE  TypeOK'
  <2>1. service \in [Jobs -> Services]
    BY DEF TypeOK, ServiceTypeOK
  <2>2. ServiceTypeOK'
    BY <1>3, <2>1, RunSteps, SubmissionSteps, AnswerSteps, LsfSteps DEF ServiceTypeOK
  <2> QED
    BY <1>3, <2>2 DEF TypeOK, netVars
<1>4. ASSUME NEW s \in Services, Die(s)
      PROVE  TypeOK'
  BY <1>4, DieType
<1>5. CASE UNCHANGED vars
  BY <1>5 DEF vars, svars, netVars, historyVars, TypeOK, ServiceTypeOK
<1> QED
  BY <1>1, <1>2, <1>3, <1>4, <1>5 DEF Next, Progress, Fault

-----------------------------------------------------------------------------
(* The invariant.                                                          *)

LEMMA AtFirst == Init => IInv
<1> SUFFICES ASSUME Init PROVE IInv
  OBVIOUS
<1>1. /\ ServiceInit /\ due = Jobs \X {"start"} /\ groups = NetGroups
      /\ marking = {} /\ firing = {}
  BY DEF Init, Net!AbstractInit
<1>2. NoRun \in Run
  BY DEF NoRun, Run
<1>3. TypeOK
  <2>1. ServiceTypeOK
    BY <1>1, <1>2, ServicesAssumption DEF ServiceInit, ServiceTypeOK
  <2> QED
    BY <1>1, <2>1 DEF TypeOK
<1>4. ASSUME NEW j \in Jobs
      PROVE  JobInv(j)
  <2>1. /\ run[j] = NoRun /\ submission[j] = "unsent" /\ NoRun.sent = {}
        /\ \A a \in Answers : answers[<<j, a>>] = 0
    BY <1>1 DEF ServiceInit, NoRun
  <2>2. \A p : ~Marked(j, p)
    BY <1>1 DEF Marked
  <2>3. \A t : ~Firing(j, t)
    BY <1>1 DEF Firing
  <2>4. OneToken(j)
    BY <2>2, <2>3 DEF OneToken
  <2>5. HeardTrue(j)
    <3>1. \A a \in Answers : a \notin run[j].sent /\ ~(answers[<<j, a>>] > 0)
      BY <2>1
    <3>2. ~HeardSuccess(j)
      BY <2>2, <2>3, <3>1 DEF HeardSuccess, Heard, Answers
    <3>3. ~HeardFailure(j)
      BY <2>2, <2>3, <3>1 DEF HeardFailure, Heard, Answers
    <3> QED
      BY <3>2, <3>3 DEF HeardTrue
  <2>6. ExecutorKnown(j) /\ NothingUnsaid(j)
    BY <2>1 DEF ExecutorKnown, NothingUnsaid, NoRun, HasEnded, Succeeded
  <2> QED
    BY <2>1, <2>4, <2>5, <2>6 DEF JobInv
<1> QED
  BY <1>3, <1>4 DEF IInv

LEMMA EveryStep == IInv /\ [Next]_vars => IInv'
<1> SUFFICES ASSUME IInv, [Next]_vars PROVE IInv'
  OBVIOUS
<1>1. TypeOK /\ TypeOK'
  BY TypeStep DEF IInv
<1>2. ASSUME NEW j \in Jobs
      PROVE  JobInv(j)'
  <2>1. JobInv(j)
    BY DEF IInv
  <2>2. CASE Start
    BY <1>1, <2>1, <2>2, StartInv
  <2>3. ASSUME NEW i \in Jobs, Progress(i) \/ Fault(i)
        PROVE  JobInv(j)'
    <3>1. CASE i = j
      BY <1>1, <2>1, <2>3, <3>1, OwnStep
    <3>2. CASE i # j
      BY <1>1, <2>1, <2>3, <3>2, OthersAlone, AloneInv
    <3> QED
      BY <3>1, <3>2
  <2>4. ASSUME NEW s \in Services, Die(s)
        PROVE  JobInv(j)'
    BY <1>1, <2>1, <2>4, DieInv
  <2>5. CASE UNCHANGED vars
    <3>1. Alone(j)
      BY <2>5 DEF Alone, vars, svars, netVars, historyVars
    <3> QED
      BY <2>1, <3>1, AloneInv
  <2> QED
    BY <2>2, <2>3, <2>4, <2>5 DEF Next
<1> QED
  BY <1>1, <1>2 DEF IInv

\* A net's token and the answers on their way to it, the executor that its
\* monitor knows of, and what was said of it are as IInv has them in every state.
THEOREM Invariance == Spec => []IInv
<1>1. Init => IInv
  BY AtFirst
<1>2. IInv /\ [Next]_vars => IInv'
  BY EveryStep
<1> QED
  BY <1>1, <1>2, PTL DEF Spec

\* Every variable of the services and of the net has its type.
THEOREM TypeCorrect == Spec => []TypeOK
<1>1. IInv => TypeOK
  BY DEF IInv
<1> QED
  BY <1>1, Invariance, PTL

\* ShellCommandNet: the outcome that a net reports is what happened to its
\* command, however its answers come and however often it is run.
THEOREM OutcomeIsTrue == Spec => []OutcomeTrue
<1>1. IInv => OutcomeTrue
  <2> SUFFICES ASSUME IInv, NEW j \in Jobs
               PROVE  /\ Marked(j, "success") => "zero" \in results[j]
                      /\ Marked(j, "failure") => results[j] \ {"zero"} # {}
                      /\ ~(Marked(j, "success") /\ Marked(j, "failure"))
    BY DEF OutcomeTrue
  <2>1. OneToken(j) /\ HeardTrue(j)
    BY DEF IInv, JobInv
  <2>2. Marked(j, "success") => HeardSuccess(j)
    BY DEF HeardSuccess, Heard
  <2>3. Marked(j, "failure") => HeardFailure(j)
    BY DEF HeardFailure, Heard
  <2>4. "success" \in ControlPlaces /\ "failure" \in ControlPlaces
    BY FollowersExist DEF ControlPlaces, Answers
  <2> QED
    BY <2>1, <2>2, <2>3, <2>4 DEF OneToken, HeardTrue, Failed
<1> QED
  BY <1>1, Invariance, PTL

\* Handler.__call__: a message is acknowledged only when the broker has all the
\* answers that its net needs.
THEOREM AckedIsAnswered == Spec => []AckedAnswered
<1>1. IInv => AckedAnswered
  BY DEF IInv, JobInv, AckedAnswered
<1> QED
  BY <1>1, Invariance, PTL

-----------------------------------------------------------------------------
(* A job that was run once leaves its outcome in its net, and of the       *)
(* answers only those that the net does not wait for.  The inductive       *)
(* invariant, job by job, is relative to IInv.                             *)

\* Where the token is: at a place, or taken by a transition.
TokenAt(j, w) == (w \in ControlPlaces /\ Marked(j, w)) \/ (w \in NetTransitions /\ Firing(j, w))

NoId(j) == "no_id" \in results[j]

Succeeding == {"execute_success", "success_cleanup", "success_bridge", "success"}
Failing == {"failure_cleanup", "failure_bridge", "failure"}

\* The answers the token has met on its way to w, when no id was written, or one was.
\* Where a place and a transition have one name they follow the same answers.
Met(w, no_id) ==
    {a \in Answers :
        \/ /\ a = "msg: dispatch_failure"
           /\ w = "dispatch_failure" \/ (w \in Failing /\ no_id)
        \/ /\ a = "msg: execute_failure"
           /\ w = "execute_failure" \/ (w \in Failing /\ ~no_id)
        \/ a = "msg: execute_success" /\ w \in Succeeding
        \/ /\ a = "msg: execute_begin"
           /\ \/ w \in {"execute_begin", "running", "execute_failure"} \cup Succeeding
              \/ w \in Failing /\ ~no_id
        \/ /\ a = "msg: dispatch_success"
           /\ \/ w \in {"dispatch_success", "pending", "execute_begin", "running",
                        "execute_failure"} \cup Succeeding
              \/ w \in Failing /\ ~no_id}

\* Each answer the broker had was one copy, which it has still to deliver, is a token
\* in its place, or was met.
Accounted(j, met) ==
    \A a \in Answers :
        /\ answers[<<j, a>>] <= 1
        /\ a \in answered[j] <=> answers[<<j, a>>] = 1 \/ Marked(j, a) \/ a \in met
        /\ answers[<<j, a>>] = 1 => ~Marked(j, a)
        /\ a \in met => answers[<<j, a>>] = 0 /\ ~Marked(j, a)
        /\ a \in run[j].sent => a \notin answered[j]

\* What the only run of a job has said, and from whom.
OnceSaid(j) ==
    LET r == run[j]
        said == r.sent \cup answered[j]
    IN  /\ "msg: dispatch_success" \in said <=> r.id = "success"
        /\ "msg: dispatch_failure" \in said <=> r.id = "failure"
        /\ service[j] = "fork" =>
              /\ "msg: execute_begin" \in said <=> r.id = "success"
              /\ "msg: execute_success" \in said <=> r.ended = "success"
              /\ "msg: execute_failure" \in said <=> r.ended = "failure"
        /\ service[j] = "lsf" =>
              /\ r.sent \subseteq {"msg: dispatch_success", "msg: dispatch_failure"}
              /\ "msg: execute_begin" \in said <=> lsf_jobs[j] \in {<<"running">>, <<"done">>}
              /\ lsf_jobs[j] = <<"done">> <=>
                    "msg: execute_success" \in said \/ "msg: execute_failure" \in said
              /\ ~({"msg: execute_success", "msg: execute_failure"} \subseteq said)

\* What the only run of a job has come to.
OnceKnown(j) ==
    LET r == run[j] IN
    /\ service[j] = "fork" => r.executor # "submitted" /\ lsf_jobs[j] = <<>>
    /\ lsf_jobs[j] \in {<<>>, <<"pending">>, <<"running">>, <<"done">>}
    /\ r.executor \in {"none", "starting"} => lsf_jobs[j] = <<>> /\ ~r.id_written
    /\ service[j] = "lsf" /\ (r.executor = "submitted" \/ r.id_written) => lsf_jobs[j] # <<>>
    /\ NoId(j) <=> HasEnded(r) /\ ~r.id_written
    /\ r.executor = "submitted" => ~r.id_written
    /\ r.id = "success" => r.id_written
    /\ r.ended # "waiting" => r.id # "waiting"
    /\ r.failed => r.ended = "failure"
    /\ r.executor # "none" =>
          /\ submission[j] \in {"handling", "acked", "rejected"}
          /\ submission[j] # "handling" => r.ended \in {"success", "failure"}

\* The job was not run yet, or is in its only run.
Once(j) ==
    \/ runs[j] = 0
    \/ runs[j] = 1 /\ run[j].executor # "none"

OnceInv(j) ==
    /\ <<j, "start">> \in due \/ \E w \in ControlPlaces \cup NetTransitions : TokenAt(j, w)
    /\ submission[j] # "unsent" => /\ <<j, "start">> \notin due
                                   /\ ~TokenAt(j, "start") /\ ~TokenAt(j, "start_bridge")
    /\ runs[j] = 0 => /\ run[j] = NoRun /\ answered[j] = {} /\ results[j] = {}
                      /\ lsf_jobs[j] = <<>>
                      /\ submission[j] \in {"unsent", "queued", "rejected"}
    /\ Once(j) =>
          /\ <<j, "start">> \in due => Accounted(j, {})
          /\ \A w \in ControlPlaces \cup NetTransitions :
                TokenAt(j, w) => Accounted(j, Met(w, NoId(j)))
          /\ OnceSaid(j)
          /\ OnceKnown(j)

OInv == \A j \in Jobs : OnceInv(j)

-----------------------------------------------------------------------------
(* What a step does not disturb.                                           *)

LEMMA TokenAtStays ==
    ASSUME NEW j \in Jobs, UNCHANGED netVars
    PROVE  /\ \A p : Marked(j, p)' <=> Marked(j, p)
           /\ \A w : TokenAt(j, w)' <=> TokenAt(j, w)
           /\ due' = due
BY DEF Marked, Firing, TokenAt, netVars

\* The token meets nothing while it stays where it is.
LEMMA MetStays ==
    ASSUME NEW j \in Jobs, NEW w, NEW b \in BOOLEAN, Accounted(j, Met(w, NoId(j))),
           ~(b <=> NoId(j)) => /\ "msg: dispatch_success" \notin answered[j]
                               /\ "msg: dispatch_failure" \notin answered[j]
    PROVE  Met(w, b) = Met(w, NoId(j))
<1>1. CASE b <=> NoId(j)
  BY <1>1 DEF Met
<1>2. CASE ~(b <=> NoId(j)) /\ w \in Failing
  <2>1. "msg: dispatch_failure" \in Met(w, NoId(j)) \/ "msg: dispatch_success" \in Met(w, NoId(j))
    BY <1>2 DEF Met, Answers, Failing
  <2> QED
    BY <1>2, <2>1 DEF Accounted, Answers
<1>3. CASE w \notin Failing
  BY <1>3 DEF Met
<1> QED
  BY <1>1, <1>2, <1>3

\* A step of the services: what there is to show of it.
LEMMA ServicesOnce ==
    ASSUME NEW j \in Jobs, OnceInv(j), UNCHANGED netVars,
           submission'[j] # "unsent" => submission[j] # "unsent",
           runs'[j] = 0 => /\ run'[j] = NoRun /\ answered'[j] = {} /\ results'[j] = {}
                           /\ lsf_jobs'[j] = <<>>
                           /\ submission'[j] \in {"unsent", "queued", "rejected"},
           Once(j)' => /\ Once(j) /\ OnceSaid(j)' /\ OnceKnown(j)'
                       /\ \A met : Accounted(j, met) => Accounted(j, met)'
                       /\ ~(NoId(j)' <=> NoId(j)) =>
                             /\ "msg: dispatch_success" \notin answered[j]
                             /\ "msg: dispatch_failure" \notin answered[j]
    PROVE  OnceInv(j)'
<1>1. /\ \A w : TokenAt(j, w)' <=> TokenAt(j, w)
      /\ due' = due
  BY TokenAtStays
<1>2. ASSUME Once(j)', NEW w \in ControlPlaces \cup NetTransitions, TokenAt(j, w)'
      PROVE  Accounted(j, Met(w, NoId(j)))'
  <2>1. Accounted(j, Met(w, NoId(j)))
    BY <1>1, <1>2 DEF OnceInv
  <2>2. PICK met : met = Met(w, NoId(j))
    OBVIOUS
  <2>3. Accounted(j, met)'
    BY <1>2, <2>1, <2>2
  <2>4. Met(w, NoId(j))' = met
    <3>1. PICK b \in BOOLEAN : b <=> NoId(j)'
      OBVIOUS
    <3>2. Met(w, b) = met
      BY <1>2, <2>1, <2>2, <3>1, MetStays
    <3> QED
      BY <3>1, <3>2 DEF Met
  <2> QED
    BY <2>3, <2>4 DEF Accounted
<1>3. Once(j)' /\ <<j, "start">> \in due' => Accounted(j, {})'
  BY <1>1 DEF OnceInv
<1> QED
  BY <1>1, <1>2, <1>3 DEF OnceInv, ControlPlaces

\* A step that disturbs nothing of a job, as far as it was run once.
LEMMA OnceApart ==
    ASSUME NEW k \in Jobs, OnceInv(k), Alone(k), <<k, "start">> \in due' <=> <<k, "start">> \in due,
           runs'[k] = runs[k], lsf_jobs'[k] = lsf_jobs[k]
    PROVE  OnceInv(k)'
<1>1. /\ \A p \in NetPlaces : Marked(k, p)' <=> Marked(k, p)
      /\ \A t \in NetTransitions : Firing(k, t)' <=> Firing(k, t)
  BY DEF Alone, Marked, Firing
<1>2. \A w : TokenAt(k, w)' <=> TokenAt(k, w)
  BY <1>1 DEF TokenAt, ControlPlaces
<1>3. NoId(k)' <=> NoId(k)
  BY DEF Alone, NoId
<1>4. \A met : Accounted(k, met) => Accounted(k, met)'
  BY <1>1, AnswersArePlaces DEF Accounted, Alone
<1>5. OnceSaid(k) => OnceSaid(k)'
  BY DEF OnceSaid, Alone
<1>6. OnceKnown(k) => OnceKnown(k)'
  BY <1>3 DEF OnceKnown, Alone, HasEnded
<1>7. Once(k)' => Once(k)
  BY DEF Once, Alone
<1>8. ASSUME Once(k)', NEW w \in ControlPlaces \cup NetTransitions, TokenAt(k, w)'
      PROVE  Accounted(k, Met(w, NoId(k)))'
  <2>1. Accounted(k, Met(w, NoId(k)))
    BY <1>2, <1>7, <1>8 DEF OnceInv
  <2>2. PICK met : met = Met(w, NoId(k))
    OBVIOUS
  <2>3. Accounted(k, met)'
    BY <1>4, <2>1, <2>2
  <2>4. Met(w, NoId(k))' = met
    BY <1>3, <2>2 DEF Met
  <2> QED
    BY <2>3, <2>4 DEF Accounted
<1>9. /\ <<k, "start">> \in due' \/ \E w \in ControlPlaces \cup NetTransitions : TokenAt(k, w)'
      /\ submission'[k] # "unsent" => /\ <<k, "start">> \notin due'
                                      /\ ~TokenAt(k, "start")' /\ ~TokenAt(k, "start_bridge")'
  BY <1>2 DEF OnceInv, Alone
<1>10. runs'[k] = 0 => /\ run'[k] = NoRun /\ answered'[k] = {} /\ results'[k] = {}
                       /\ lsf_jobs'[k] = <<>>
                       /\ submission'[k] \in {"unsent", "queued", "rejected"}
  BY DEF OnceInv, Alone
<1>11. Once(k)' => /\ <<k, "start">> \in due' => Accounted(k, {})'
                   /\ OnceSaid(k)' /\ OnceKnown(k)'
  BY <1>4, <1>5, <1>6, <1>7 DEF OnceInv
<1> QED
  BY <1>8, <1>9, <1>10, <1>11 DEF OnceInv, ControlPlaces

\* Every met answer is one the broker had; and some Accounted holds.
LEMMA SomeMet ==
    ASSUME NEW j \in Jobs, OnceInv(j), Once(j)
    PROVE  \E met : Accounted(j, met)
BY DEF OnceInv

-----------------------------------------------------------------------------
(* The submitted message, and the executors.                               *)

LEMMA AccountedStays ==
    ASSUME NEW j \in Jobs, UNCHANGED netVars,
           answers' = answers, answered'[j] = answered[j],
           \A a \in Answers : a \in run'[j].sent => a \in run[j].sent \/ a \notin answered[j]
    PROVE  \A met : Accounted(j, met) => Accounted(j, met)'
BY TokenAtStays DEF Accounted

LEMMA ReceiveOnce ==
    ASSUME TypeOK, NEW j \in Jobs, JobInv(j), OnceInv(j), Receive(j), UNCHANGED netVars
    PROVE  OnceInv(j)'
<1>1. /\ submission[j] = "queued" /\ run[j] = NoRun /\ runs[j] \in Nat
      /\ UNCHANGED <<service, answers, results, answered, lsf_jobs>>
  BY DEF Receive, JobInv, ExecutorKnown, TypeOK, ServiceTypeOK
<1>2. \/ /\ submission'[j] = "rejected" /\ run'[j] = NoRun /\ runs'[j] = runs[j]
      \/ /\ submission'[j] = "handling" /\ run'[j] = [NoRun EXCEPT !.executor = "starting"]
         /\ runs'[j] = runs[j] + 1
  BY <1>1 DEF Receive, TypeOK, ServiceTypeOK
<1>3. /\ run'[j].sent = {} /\ ~run'[j].id_written /\ run'[j].id = "waiting" /\ ~run'[j].failed
      /\ run'[j].ended = "waiting" /\ run'[j].executor \in {"none", "starting"}
      /\ run[j].sent = {} /\ ~run[j].id_written /\ run[j].id = "waiting" /\ ~run[j].failed
      /\ run[j].ended = "waiting" /\ run[j].executor = "none"
      /\ run'[j].executor # "none" => submission'[j] = "handling"
  BY <1>1, <1>2 DEF NoRun
<1>4. ASSUME Once(j)'
      PROVE  Once(j) /\ runs[j] = 0
  <2>1. runs[j] = 0
    BY <1>1, <1>2, <1>4 DEF Once, NoRun
  <2> QED
    BY <1>1, <1>4, <2>1 DEF Once
<1>5. ASSUME Once(j)'
      PROVE  OnceSaid(j)' /\ OnceKnown(j)'
  <2>1. OnceSaid(j) /\ OnceKnown(j)
    BY <1>4, <1>5 DEF OnceInv
  <2> QED
    BY <1>1, <1>3, <2>1 DEF OnceSaid, OnceKnown, NoId, HasEnded
<1>6. \A met : Accounted(j, met) => Accounted(j, met)'
  BY <1>1, <1>3, AccountedStays
<1>7. runs'[j] = 0 => /\ run'[j] = NoRun /\ answered'[j] = {} /\ results'[j] = {}
                      /\ lsf_jobs'[j] = <<>>
                      /\ submission'[j] \in {"unsent", "queued", "rejected"}
  BY <1>1, <1>2 DEF OnceInv
<1>8. NoId(j)' <=> NoId(j)
  BY <1>1 DEF NoId
<1>9. submission[j] # "unsent"
  BY <1>1
<1> QED
  BY <1>4, <1>5, <1>6, <1>7, <1>8, <1>9, ServicesOnce

\* A step of an executor that has not ended: what there is to show of it.
LEMMA ExecutorOnce ==
    ASSUME TypeOK, NEW j \in Jobs, JobInv(j), OnceInv(j), UNCHANGED netVars,
           executorUnchanged' = executorUnchanged,
           run[j].executor \in {"starting", "submitted", "running"},
           run'[j].executor # "none",
           run'[j].id = run[j].id, run'[j].ended = run[j].ended,
           run'[j].sent = run[j].sent, run'[j].failed = run[j].failed,
           OnceSaid(j) /\ OnceKnown(j) => OnceSaid(j)' /\ OnceKnown(j)'
    PROVE  OnceInv(j)'
<1>1. /\ UNCHANGED <<service, submission, answers, answered, runs>>
      /\ runs[j] \in Nat
  BY DEF executorUnchanged, TypeOK, ServiceTypeOK
<1>2. runs[j] # 0
  BY DEF OnceInv, NoRun
<1>3. Once(j)' => Once(j)
  BY <1>1 DEF Once
<1>4. Once(j)' => OnceSaid(j) /\ OnceKnown(j)
  BY <1>3 DEF OnceInv
<1>5. run[j].id # "failure"
  BY DEF JobInv, ExecutorKnown, HasEnded
<1>6. Once(j)' /\ ~(NoId(j)' <=> NoId(j)) =>
          "msg: dispatch_success" \notin answered[j] /\ "msg: dispatch_failure" \notin answered[j]
  <2> SUFFICES ASSUME Once(j)', ~(NoId(j)' <=> NoId(j))
               PROVE  "msg: dispatch_success" \notin answered[j]
                      /\ "msg: dispatch_failure" \notin answered[j]
    OBVIOUS
  <2>1. OnceKnown(j) /\ OnceKnown(j)' /\ OnceSaid(j) /\ OnceSaid(j)'
    BY <1>4
  <2>2. ~NoId(j)
    BY <2>1 DEF OnceKnown, HasEnded
  <2>3. ~run'[j].id_written
    BY <2>1, <2>2 DEF OnceKnown
  <2>4. run[j].id # "success"
    BY <2>1, <2>3 DEF OnceKnown
  <2> QED
    BY <1>5, <2>1, <2>4 DEF OnceSaid
<1>7. \A met : Accounted(j, met) => Accounted(j, met)'
  BY <1>1, AccountedStays
<1> QED
  BY <1>1, <1>2, <1>3, <1>4, <1>6, <1>7, ServicesOnce

LEMMA Appended ==
    ASSUME NEW S, NEW s \in Seq(S), NEW x \in S
    PROVE  /\ Append(s, x) # <<>>
           /\ s = <<>> => Append(s, x) = <<x>>
<1>1. Len(Append(s, x)) = Len(s) + 1 /\ Len(s) \in Nat /\ Len(<<>>) = 0
  OBVIOUS
<1>2. s = <<>> => Append(s, x) = <<x>>
  OBVIOUS
<1>3. Len(s) + 1 # 0
  BY <1>1
<1>4. Append(s, x) # <<>>
  BY <1>1, <1>3, Zenon
<1> QED
  BY <1>2, <1>4

LEMMA ExecutorStepOnce ==
    ASSUME TypeOK, NEW j \in Jobs, JobInv(j), OnceInv(j),
           ExecutorStep(j) \/ ExecutorInterrupted(j) \/ ExecutorKilled(j), UNCHANGED netVars
    PROVE  OnceInv(j)'
<1> DEFINE r == run[j]
           q == run'[j]
           Same == /\ q.id = r.id /\ q.ended = r.ended /\ q.sent = r.sent /\ q.failed = r.failed
                   /\ executorUnchanged' = executorUnchanged
<1>1. /\ r \in Run /\ run \in [Jobs -> Run] /\ results \in [Jobs -> SUBSET Results]
      /\ lsf_jobs \in [Jobs -> Seq({"pending", "running", "done"})]
      /\ service[j] \in Services
  BY DEF TypeOK, ServiceTypeOK
<1>2. r.executor = "running" => r.id_written
  BY DEF JobInv, ExecutorKnown
\* What ended has ended with an id, or is known to have none.
<1>3. ASSUME Same, r.executor \in {"starting", "submitted", "running"},
             q.executor \in {"submitted", "running", "exited", "killed"},
             q.id_written = r.id_written \/ (q.id_written /\ q.executor # "submitted"),
             q.executor = "submitted" => service[j] = "lsf" /\ ~q.id_written /\ lsf_jobs'[j] # <<>>,
             service[j] = "lsf" /\ q.id_written =>
                 lsf_jobs'[j] # <<>> \/ r.id_written \/ r.executor = "submitted",
             "no_id" \in results'[j] <=> HasEnded(q) /\ ~q.id_written,
             \/ lsf_jobs'[j] = lsf_jobs[j]
             \/ /\ lsf_jobs[j] = <<>> => lsf_jobs'[j] = <<"pending">>
                /\ service[j] = "lsf" /\ r.executor = "starting"
      PROVE  OnceInv(j)'
  <2>1. UNCHANGED <<service, submission, answers, answered, runs>>
    BY <1>3 DEF executorUnchanged
  <2>2. ASSUME OnceSaid(j), OnceKnown(j)
        PROVE  OnceSaid(j)' /\ OnceKnown(j)'
    <3>1. \/ lsf_jobs'[j] = lsf_jobs[j]
          \/ lsf_jobs[j] = <<>> /\ lsf_jobs'[j] = <<"pending">> /\ service[j] = "lsf"
      BY <1>3, <2>2 DEF OnceKnown
    <3>2. /\ <<"pending">> # <<"running">> /\ <<"pending">> # <<"done">>
          /\ <<"pending">> # <<>> /\ <<"running">> # <<>> /\ <<"done">> # <<>>
      OBVIOUS
    <3>3. OnceSaid(j)'
      BY <1>3, <2>1, <2>2, <3>1, <3>2 DEF OnceSaid
    <3>4. NoId(j)' <=> HasEnded(q) /\ ~q.id_written
      BY <1>3 DEF NoId
    <3>5. OnceKnown(j)'
      BY <1>3, <2>1, <2>2, <3>1, <3>2, <3>4 DEF OnceKnown, HasEnded
    <3> QED
      BY <3>3, <3>5
  <2> QED
    BY <1>3, <2>2, ExecutorOnce
<1>4. r.executor \in {"starting", "submitted", "running"} /\ Once(j) =>
          /\ "no_id" \notin results[j]
          /\ r.executor # "running" => ~r.id_written
          /\ service[j] = "fork" => r.executor # "submitted"
  BY DEF OnceInv, OnceKnown, NoId, HasEnded
<1>5. ASSUME executorUnchanged' = executorUnchanged,
             r.executor # "none", q.executor # "none", ~Once(j)
      PROVE  OnceInv(j)'
  <2>1. UNCHANGED <<service, submission, answers, answered, runs>>
    BY <1>5 DEF executorUnchanged
  <2>2. runs[j] # 0
    BY <1>5 DEF OnceInv, NoRun
  <2>3. ~Once(j)'
    BY <1>5, <2>1 DEF Once
  <2> QED
    BY <2>1, <2>2, <2>3, ServicesOnce
<1>6. CASE ExecutorFails(j)
  <2>1. /\ Same /\ r.executor = "starting" /\ q.executor = "exited" /\ q.id_written = r.id_written
        /\ lsf_jobs' = lsf_jobs /\ results'[j] = results[j] \cup {"no_id"}
    BY <1>1, <1>6 DEF ExecutorFails, Exits, Ended, Run
  <2> QED
    BY <1>1, <1>3, <1>4, <1>5, <2>1 DEF HasEnded
<1>7. CASE ForkStarts(j)
  <2>1. /\ Same /\ r.executor = "starting" /\ q.executor = "running" /\ q.id_written
        /\ lsf_jobs' = lsf_jobs /\ results' = results /\ service[j] = "fork"
    BY <1>1, <1>7 DEF ForkStarts, AtExecutor, Run
  <2> QED
    BY <1>1, <1>3, <1>4, <1>5, <2>1 DEF HasEnded
<1>8. CASE CommandExits(j)
  <2>1. PICK code \in ExitCodes : /\ AtExecutor(j, "fork", "running") /\ Exits(j, code)
                                  /\ Ended(j, ResultOf(code)) /\ lsf_jobs' = lsf_jobs
                                  /\ executorUnchanged' = executorUnchanged
    BY <1>8 DEF CommandExits
  <2>2. /\ Same /\ r.executor = "running" /\ q.executor = "exited" /\ q.id_written = r.id_written
        /\ service[j] = "fork"
    BY <1>1, <2>1 DEF Exits, AtExecutor, Run
  <2>3. "no_id" \in results'[j] <=> "no_id" \in results[j]
    BY <1>1, <2>1 DEF Ended, ResultOf
  <2> QED
    BY <1>1, <1>2, <1>3, <1>4, <1>5, <2>1, <2>2, <2>3 DEF HasEnded
<1>9. CASE ExecutorInterrupted(j)
  <2>1. /\ Same /\ r.executor = "running" /\ q.executor = "exited" /\ q.id_written = r.id_written
        /\ lsf_jobs' = lsf_jobs /\ service[j] = "fork"
        /\ results'[j] = results[j] \cup {"interrupted"}
    BY <1>1, <1>9 DEF ExecutorInterrupted, Exits, Ended, AtExecutor, Run
  <2> QED
    BY <1>1, <1>2, <1>3, <1>4, <1>5, <2>1 DEF HasEnded
<1>10. CASE LsfSubmits(j)
  <2>1. /\ Same /\ r.executor = "starting" /\ q.executor = "submitted"
        /\ q.id_written = r.id_written /\ service[j] = "lsf" /\ results' = results
        /\ lsf_jobs'[j] = Append(lsf_jobs[j], "pending")
    BY <1>1, <1>10 DEF LsfSubmits, AtExecutor, Run
  <2>2. /\ lsf_jobs'[j] # <<>>
        /\ lsf_jobs[j] = <<>> => lsf_jobs'[j] = <<"pending">>
    BY <1>1, <2>1, Appended
  <2>3. CASE Once(j)
    BY <1>3, <1>4, <2>1, <2>2, <2>3 DEF HasEnded
  <2>4. CASE ~Once(j)
    BY <1>5, <2>1, <2>4
  <2> QED
    BY <2>3, <2>4
<1>11. CASE LsfWritesId(j)
  <2>1. /\ Same /\ r.executor = "submitted" /\ q.executor = "exited" /\ q.id_written
        /\ lsf_jobs' = lsf_jobs /\ results' = results /\ service[j] = "lsf"
    BY <1>1, <1>11 DEF LsfWritesId, AtExecutor, Run
  <2> QED
    BY <1>1, <1>3, <1>4, <1>5, <2>1 DEF HasEnded
<1>12. CASE ExecutorKilled(j)
  <2>1. /\ Same /\ q.executor = "killed" /\ q.id_written = r.id_written /\ lsf_jobs' = lsf_jobs
        /\ results'[j] = results[j] \cup
               {IF r.executor = "running" THEN "interrupted" ELSE "no_id"}
    BY <1>1, <1>12 DEF ExecutorKilled, Ended, Run
  <2>2. r.executor \in {"starting", "submitted", "running"}
    BY <1>12, ServicesAssumption DEF ExecutorKilled
  <2>3. Once(j) => ("no_id" \in results'[j] <=> ~q.id_written)
    BY <1>2, <1>4, <2>1, <2>2
  <2> QED
    BY <1>1, <1>3, <1>4, <1>5, <2>1, <2>2, <2>3 DEF HasEnded
<1> QED
  BY <1>6, <1>7, <1>8, <1>9, <1>10, <1>11, <1>12 DEF ExecutorStep
-----------------------------------------------------------------------------
(* The monitor, the broker and LSF.                                        *)

\* A step of the handler: what there is to show of it.
LEMMA FollowOnce ==
    ASSUME TypeOK, NEW j \in Jobs, OnceInv(j), NEW r \in Run, Follow(j, r),
           UNCHANGED <<service, lsf_jobs, answers, historyVars, netVars>>,
           run[j].executor # "none", r.executor = run[j].executor,
           r.id_written = run[j].id_written,
           Once(j) /\ Once(j)' /\ OnceSaid(j) /\ OnceKnown(j) =>
               /\ OnceSaid(j)'
               /\ r.id = "success" => r.id_written
               /\ r.ended # "waiting" => r.id # "waiting"
               /\ r.failed => r.ended = "failure"
               /\ run[j].ended # "waiting" => r.ended = run[j].ended
               /\ \A a \in Answers : a \in r.sent => a \in run[j].sent \/ a \notin answered[j]
    PROVE  OnceInv(j)'
<1>1. /\ UNCHANGED <<results, answered, runs>> /\ runs[j] \in Nat
      /\ submission[j] \in {"unsent", "queued", "handling", "acked", "rejected"}
  BY DEF historyVars, TypeOK, ServiceTypeOK
<1>2. run'[j] = r /\ (submission[j] # "handling" => submission'[j] = submission[j])
  BY FollowWhat
<1>3. submission[j] = "handling" =>
          /\ submission'[j] \in {"handling", "acked", "rejected"}
          /\ submission'[j] = "rejected" => r.failed
          /\ submission'[j] = "acked" => Handled(r)
  BY DEF Follow, TypeOK, ServiceTypeOK
<1>4. runs[j] # 0
  BY DEF OnceInv, NoRun
<1>5. Once(j)' => Once(j)
  BY <1>1, <1>2 DEF Once
<1>6. NoId(j)' <=> NoId(j)
  BY <1>1 DEF NoId
<1>7. ASSUME Once(j)'
      PROVE  /\ OnceSaid(j)' /\ OnceKnown(j)'
             /\ \A met : Accounted(j, met) => Accounted(j, met)'
  <2>1. OnceSaid(j) /\ OnceKnown(j)
    BY <1>5, <1>7 DEF OnceInv
  <2>2. /\ OnceSaid(j)'
        /\ r.id = "success" => r.id_written
        /\ r.ended # "waiting" => r.id # "waiting"
        /\ r.failed => r.ended = "failure"
        /\ run[j].ended # "waiting" => r.ended = run[j].ended
        /\ \A a \in Answers : a \in r.sent => a \in run[j].sent \/ a \notin answered[j]
    BY <1>5, <1>7, <2>1
  <2>3. submission'[j] \in {"handling", "acked", "rejected"}
    BY <1>2, <1>3, <2>1 DEF OnceKnown
  <2>4. submission'[j] # "handling" => r.ended \in {"success", "failure"}
    <3>1. CASE submission[j] = "handling"
      <4>1. Handled(r) => r.ended \in {"success", "failure"}
        BY DEF Handled, Run
      <4> QED
        BY <1>3, <2>2, <3>1, <4>1
    <3>2. CASE submission[j] # "handling"
      BY <2>1, <2>2, <3>2 DEF OnceKnown
    <3> QED
      BY <3>1, <3>2
  <2>5. OnceKnown(j)'
    BY <1>1, <1>2, <1>6, <2>1, <2>2, <2>3, <2>4 DEF OnceKnown, HasEnded
  <2>6. \A met : Accounted(j, met) => Accounted(j, met)'
    BY <1>1, <1>2, <2>2, AccountedStays
  <2> QED
    BY <2>2, <2>5, <2>6
<1>8. submission'[j] # "unsent" => submission[j] # "unsent"
  BY <1>2
<1> QED
  BY <1>1, <1>4, <1>5, <1>6, <1>7, <1>8, ServicesOnce

LEMMA IdOnce ==
    ASSUME TypeOK, NEW j \in Jobs, JobInv(j), OnceInv(j), JobIdConnectionLost(j),
           UNCHANGED netVars
    PROVE  OnceInv(j)'
<1> DEFINE r == run[j]
           q == [r EXCEPT !.id = IF r.id_written THEN "success" ELSE "failure",
                          !.sent = @ \cup IdAnswers(j, r.id_written)]
<1>1. r \in Run /\ service[j] \in Services
  BY DEF TypeOK, ServiceTypeOK
<1>2. IdAnswers(j, r.id_written) \subseteq Answers
  BY <1>1, WhatIsAnswered DEF Services, Answers, Run
<1>3. /\ q \in Run /\ q.sent = r.sent \cup IdAnswers(j, r.id_written)
      /\ q.id = (IF r.id_written THEN "success" ELSE "failure")
      /\ q.executor = r.executor /\ q.id_written = r.id_written
      /\ q.ended = r.ended /\ q.failed = r.failed
  BY <1>1, <1>2 DEF Run
<1>4. Follow(j, q)
  BY DEF JobIdConnectionLost
<1>5. r.executor # "none" /\ r.id = "waiting" /\ (r.id_written \/ HasEnded(r))
  BY DEF JobIdConnectionLost
<1>6. /\ UNCHANGED <<service, lsf_jobs, answers, historyVars, netVars>>
      /\ UNCHANGED <<results, answered>>
  BY DEF JobIdConnectionLost, historyVars
<1> HIDE DEF q
<1>7. run'[j] = q
  BY <1>3, <1>4, FollowWhat
<1>8. /\ r.id_written /\ service[j] = "fork" =>
            q.sent = r.sent \cup {"msg: dispatch_success", "msg: execute_begin"}
      /\ r.id_written /\ service[j] = "lsf" => q.sent = r.sent \cup {"msg: dispatch_success"}
      /\ ~r.id_written => q.sent = r.sent \cup {"msg: dispatch_failure"}
  BY <1>1, <1>3, WhatIsAnswered DEF Run
<1>9. ASSUME OnceSaid(j), OnceKnown(j)
      PROVE  /\ OnceSaid(j)'
             /\ \A a \in Answers : a \in q.sent => a \in r.sent \/ a \notin answered[j]
  <2>1. CASE r.id_written /\ service[j] = "fork"
    <3>1. q.sent = r.sent \cup {"msg: dispatch_success", "msg: execute_begin"}
      BY <2>1, <1>8
    <3>2. \A a : a \in run'[j].sent \cup answered'[j] <=>
                   \/ a \in r.sent \cup answered[j]
                   \/ a \in {"msg: dispatch_success", "msg: execute_begin"}
      BY <3>1, <1>6, <1>7
    <3>3. OnceSaid(j)'
      BY <2>1, <3>1, <3>2, <1>3, <1>5, <1>6, <1>7, <1>9 DEF OnceSaid
    <3>4. \A a \in {"msg: dispatch_success", "msg: execute_begin"} : a \notin answered[j]
      BY <2>1, <1>5, <1>9 DEF OnceSaid
    <3> QED
      BY <3>1, <3>3, <3>4
  <2>2. CASE r.id_written /\ service[j] = "lsf"
    <3>1. q.sent = r.sent \cup {"msg: dispatch_success"}
      BY <2>2, <1>8
    <3>2. \A a : a \in run'[j].sent \cup answered'[j] <=>
                   a \in r.sent \cup answered[j] \/ a \in {"msg: dispatch_success"}
      BY <3>1, <1>6, <1>7
    <3>3. OnceSaid(j)'
      BY <2>2, <3>1, <3>2, <1>3, <1>5, <1>6, <1>7, <1>9 DEF OnceSaid
    <3>4. \A a \in {"msg: dispatch_success"} : a \notin answered[j]
      BY <2>2, <1>5, <1>9 DEF OnceSaid
    <3> QED
      BY <3>1, <3>3, <3>4
  <2>3. CASE ~r.id_written
    <3>1. q.sent = r.sent \cup {"msg: dispatch_failure"}
      BY <2>3, <1>8
    <3>2. \A a : a \in run'[j].sent \cup answered'[j] <=>
                   a \in r.sent \cup answered[j] \/ a \in {"msg: dispatch_failure"}
      BY <3>1, <1>6, <1>7
    <3>3. OnceSaid(j)'
      BY <2>3, <3>1, <3>2, <1>3, <1>5, <1>6, <1>7, <1>9 DEF OnceSaid
    <3>4. \A a \in {"msg: dispatch_failure"} : a \notin answered[j]
      BY <2>3, <1>5, <1>9 DEF OnceSaid
    <3> QED
      BY <3>1, <3>3, <3>4
  <2> QED
    BY <1>1, <2>1, <2>2, <2>3 DEF Services
<1>10. OnceKnown(j) => /\ q.id = "success" => q.id_written
                       /\ q.ended # "waiting" => q.id # "waiting"
                       /\ q.failed => q.ended = "failure"
  BY <1>3, <1>5 DEF OnceKnown
<1> QED
  BY <1>3, <1>4, <1>5, <1>6, <1>9, <1>10, FollowOnce

LEMMA EndOnce ==
    ASSUME TypeOK, NEW j \in Jobs, JobInv(j), OnceInv(j), ProcessEnded(j), UNCHANGED netVars
    PROVE  OnceInv(j)'
<1> DEFINE r == run[j]
           e == EndedOf(j, r)
           q == [r EXCEPT !.ended = e, !.sent = @ \cup EndAnswers(j, e),
                          !.failed = @ \/ (service[j] = "lsf" /\ e = "failure")]
<1>1. r \in Run /\ service[j] \in Services
  BY DEF TypeOK, ServiceTypeOK
<1>2. e \in {"success", "failure", "lost"}
  BY HowItEnds
<1>3. /\ HasEnded(r) /\ r.id # "waiting" /\ r.ended = "waiting" /\ Follow(j, q)
      /\ UNCHANGED <<service, lsf_jobs, answers, historyVars, netVars>>
      /\ UNCHANGED <<results, answered>>
  BY DEF ProcessEnded, historyVars
<1> HIDE DEF e
<1>4. EndAnswers(j, e) \subseteq Answers
  BY <1>1, <1>2, WhatIsAnsweredAtEnd DEF Services, Answers
<1>5. /\ q \in Run /\ q.sent = r.sent \cup EndAnswers(j, e) /\ q.ended = e
      /\ q.failed = (r.failed \/ (service[j] = "lsf" /\ e = "failure"))
      /\ q.executor = r.executor /\ q.id_written = r.id_written /\ q.id = r.id
  BY <1>1, <1>2, <1>4 DEF Run
<1> HIDE DEF q
<1>6. run'[j] = q
  BY <1>3, <1>5, FollowWhat
<1>7. ASSUME OnceSaid(j), OnceKnown(j)
      PROVE  /\ OnceSaid(j)'
             /\ \A a \in Answers : a \in q.sent => a \in r.sent \/ a \notin answered[j]
  <2>1. CASE service[j] = "lsf"
    <3>1. q.sent = r.sent
      BY <2>1, <1>5, WhatIsAnsweredAtEnd
    <3> QED
      BY <2>1, <3>1, <1>3, <1>5, <1>6, <1>7 DEF OnceSaid
  <2>2. CASE service[j] = "fork" /\ e = "lost"
    <3>1. q.sent = r.sent
      BY <2>2, <1>5, WhatIsAnsweredAtEnd
    <3> QED
      BY <2>2, <3>1, <1>3, <1>5, <1>6, <1>7 DEF OnceSaid
  <2>3. CASE service[j] = "fork" /\ e = "success"
    <3>1. q.sent = r.sent \cup {"msg: execute_success"}
      BY <2>3, <1>5, WhatIsAnsweredAtEnd
    <3>2. \A a : a \in run'[j].sent \cup answered'[j] <=>
                   a \in r.sent \cup answered[j] \/ a = "msg: execute_success"
      BY <3>1, <1>3, <1>6
    <3>3. OnceSaid(j)'
      BY <2>3, <3>2, <1>3, <1>5, <1>6, <1>7 DEF OnceSaid
    <3>4. "msg: execute_success" \notin answered[j]
      BY <2>3, <1>3, <1>7 DEF OnceSaid
    <3> QED
      BY <3>1, <3>3, <3>4
  <2>4. CASE service[j] = "fork" /\ e = "failure"
    <3>1. q.sent = r.sent \cup {"msg: execute_failure"}
      BY <2>4, <1>5, WhatIsAnsweredAtEnd
    <3>2. \A a : a \in run'[j].sent \cup answered'[j] <=>
                   a \in r.sent \cup answered[j] \/ a = "msg: execute_failure"
      BY <3>1, <1>3, <1>6
    <3>3. OnceSaid(j)'
      BY <2>4, <3>2, <1>3, <1>5, <1>6, <1>7 DEF OnceSaid
    <3>4. "msg: execute_failure" \notin answered[j]
      BY <2>4, <1>3, <1>7 DEF OnceSaid
    <3> QED
      BY <3>1, <3>3, <3>4
  <2> QED
    BY <1>1, <1>2, <2>1, <2>2, <2>3, <2>4 DEF Services
<1>8. OnceKnown(j) => /\ q.id = "success" => q.id_written
                      /\ q.ended # "waiting" => q.id # "waiting"
                      /\ q.failed => q.ended = "failure"
  BY <1>3, <1>5 DEF OnceKnown
<1>9. r.executor # "none"
  BY <1>3 DEF HasEnded
<1> QED
  BY <1>3, <1>5, <1>7, <1>8, <1>9, FollowOnce

LEMMA ConfirmOnce ==
    ASSUME TypeOK, NEW j \in Jobs, JobInv(j), OnceInv(j), Confirm(j), UNCHANGED netVars
    PROVE  OnceInv(j)'
<1> DEFINE r == run[j]
<1>1. PICK a \in r.stored : Follow(j, [r EXCEPT !.stored = @ \ {a}])
  BY DEF Confirm
<1> DEFINE q == [r EXCEPT !.stored = @ \ {a}]
<1>2. r \in Run
  BY DEF TypeOK, ServiceTypeOK
<1>3. /\ q \in Run /\ q.sent = r.sent /\ q.failed = r.failed /\ q.executor = r.executor
      /\ q.id_written = r.id_written /\ q.id = r.id /\ q.ended = r.ended
  BY <1>2 DEF Run
<1>4. r.executor # "none"
  BY <1>1 DEF JobInv, ExecutorKnown, NoRun
<1>5. /\ UNCHANGED <<service, lsf_jobs, answers, historyVars, netVars>>
      /\ UNCHANGED <<results, answered>>
  BY DEF Confirm, historyVars
<1> HIDE DEF q
<1>6. Follow(j, q)
  BY <1>1 DEF q
<1>7. run'[j] = q
  BY <1>3, <1>6, FollowWhat
<1>8. OnceSaid(j) => OnceSaid(j)'
  BY <1>3, <1>5, <1>7 DEF OnceSaid
<1>9. OnceKnown(j) => /\ q.id = "success" => q.id_written
                      /\ q.ended # "waiting" => q.id # "waiting"
                      /\ q.failed => q.ended = "failure"
  BY <1>3 DEF OnceKnown
<1> QED
  BY <1>3, <1>4, <1>5, <1>6, <1>8, <1>9, FollowOnce

\* The broker has one answer more, which it did not have before.
LEMMA AnswerAccounted ==
    ASSUME TypeOK, NEW j \in Jobs, NEW a \in Answers, Answer(j, a), UNCHANGED netVars,
           a \notin answered[j], a \notin run'[j].sent, run'[j].sent \subseteq run[j].sent
    PROVE  \A met : Accounted(j, met) => Accounted(j, met)'
<1>1. /\ answers \in [Jobs \X Answers -> Nat] /\ answered \in [Jobs -> SUBSET Answers]
  BY DEF TypeOK, ServiceTypeOK
<1>2. /\ answered'[j] = answered[j] \cup {a}
      /\ answers'[<<j, a>>] = answers[<<j, a>>] + 1 /\ answers[<<j, a>>] \in Nat
      /\ \A b \in Answers : b # a => answers'[<<j, b>>] = answers[<<j, b>>]
  BY <1>1 DEF Answer
<1>3. \A p : Marked(j, p)' <=> Marked(j, p)
  BY TokenAtStays
<1> SUFFICES ASSUME NEW met, Accounted(j, met)
             PROVE  Accounted(j, met)'
  OBVIOUS
<1>4. answers[<<j, a>>] = 0 /\ ~Marked(j, a) /\ a \notin met
  BY <1>2 DEF Accounted
<1>5. ASSUME NEW b \in Answers
      PROVE  /\ answers'[<<j, b>>] <= 1
             /\ b \in answered'[j] <=> answers'[<<j, b>>] = 1 \/ Marked(j, b)' \/ b \in met
             /\ answers'[<<j, b>>] = 1 => ~Marked(j, b)'
             /\ b \in met => answers'[<<j, b>>] = 0 /\ ~Marked(j, b)'
             /\ b \in run'[j].sent => b \notin answered'[j]
  <2>1. CASE b = a
    BY <2>1, <1>2, <1>3, <1>4
  <2>2. CASE b # a
    <3>1. /\ answers[<<j, b>>] <= 1
          /\ b \in answered[j] <=> answers[<<j, b>>] = 1 \/ Marked(j, b) \/ b \in met
          /\ answers[<<j, b>>] = 1 => ~Marked(j, b)
          /\ b \in met => answers[<<j, b>>] = 0 /\ ~Marked(j, b)
          /\ b \in run[j].sent => b \notin answered[j]
      BY DEF Accounted
    <3> QED
      BY <2>2, <3>1, <1>2, <1>3
  <2> QED
    BY <2>1, <2>2
<1> QED
  BY <1>5 DEF Accounted

LEMMA StoreOnce ==
    ASSUME TypeOK, NEW j \in Jobs, JobInv(j), OnceInv(j), Store(j), UNCHANGED netVars
    PROVE  OnceInv(j)'
<1> DEFINE r == run[j]
<1>1. /\ r \in Run /\ run \in [Jobs -> Run] /\ answered \in [Jobs -> SUBSET Answers]
  BY DEF TypeOK, ServiceTypeOK
<1>2. PICK a \in r.sent :
          /\ Answer(j, a) /\ UNCHANGED <<service, submission, results, lsf_jobs, runs>>
          /\ run' = [run EXCEPT ![j].sent = @ \ {a}, ![j].stored = @ \cup {a}]
  BY DEF Store
<1>3. /\ run'[j].sent = r.sent \ {a} /\ run'[j].failed = r.failed
      /\ run'[j].executor = r.executor
      /\ run'[j].id_written = r.id_written /\ run'[j].id = r.id /\ run'[j].ended = r.ended
  BY <1>1, <1>2 DEF Run
<1>4. answered'[j] = answered[j] \cup {a} /\ a \in Answers
  BY <1>1, <1>2 DEF Answer, Run
<1>5. r.executor # "none" /\ runs[j] # 0
  BY <1>2 DEF JobInv, ExecutorKnown, OnceInv, NoRun
<1>6. Once(j)' <=> Once(j)
  BY <1>2, <1>3 DEF Once
<1>7. NoId(j)' <=> NoId(j)
  BY <1>2 DEF NoId
<1>8. ASSUME Once(j)'
      PROVE  /\ OnceSaid(j)' /\ OnceKnown(j)'
             /\ \A met : Accounted(j, met) => Accounted(j, met)'
  <2>1. OnceSaid(j) /\ OnceKnown(j)
    BY <1>6, <1>8 DEF OnceInv
  <2>2. \A b : b \in run'[j].sent \cup answered'[j] <=> b \in r.sent \cup answered[j]
    BY <1>2, <1>3, <1>4
  <2>3. run'[j].sent \subseteq r.sent
    BY <1>3
  <2>4. OnceSaid(j)'
    BY <1>2, <1>3, <2>1, <2>2, <2>3 DEF OnceSaid
  <2>5. OnceKnown(j)'
    BY <1>2, <1>3, <1>7, <2>1 DEF OnceKnown, HasEnded
  <2>6. PICK met : Accounted(j, met)
    BY <1>6, <1>8, SomeMet
  <2>7. a \notin answered[j]
    BY <1>2, <1>4, <2>6 DEF Accounted
  <2>8. a \notin run'[j].sent
    BY <1>3
  <2> QED
    BY <1>2, <1>4, <2>3, <2>4, <2>5, <2>7, <2>8, AnswerAccounted
<1>9. submission'[j] # "unsent" => submission[j] # "unsent"
  BY <1>2
<1> QED
  BY <1>2, <1>5, <1>6, <1>7, <1>8, <1>9, ServicesOnce

\* The one job that LSF has goes on.
LEMMA OneLsfJob ==
    \A s \in {<<>>, <<"pending">>, <<"running">>, <<"done">>} : \A i \in DOMAIN s :
        s = <<s[i]>> /\ i = 1
<1> SUFFICES ASSUME NEW s \in {<<>>, <<"pending">>, <<"running">>, <<"done">>}, NEW i \in DOMAIN s
             PROVE  s = <<s[i]>> /\ i = 1
  OBVIOUS
<1>1. DOMAIN <<>> = {}
  OBVIOUS
<1>2. ASSUME NEW z, s = <<z>>
      PROVE  s = <<s[i]>> /\ i = 1
  <2>1. DOMAIN s = {1}
    BY <1>2
  <2> QED
    BY <1>2, <2>1
<1> QED
  BY <1>1, <1>2

LEMMA OneChanged ==
    /\ [<<"pending">> EXCEPT ![1] = "running"] = <<"running">>
    /\ [<<"running">> EXCEPT ![1] = "done"] = <<"done">>
<1>1. [<<"pending">> EXCEPT ![1] = "running"] = <<"running">>
  OBVIOUS
<1>2. [<<"running">> EXCEPT ![1] = "done"] = <<"done">>
  OBVIOUS
<1> QED
  BY <1>1, <1>2

LEMMA LsfOnce ==
    ASSUME TypeOK, NEW j \in Jobs, JobInv(j), OnceInv(j), LsfStep(j), UNCHANGED netVars
    PROVE  OnceInv(j)'
<1> DEFINE r == run[j]
<1>1. /\ r \in Run /\ answered \in [Jobs -> SUBSET Answers] /\ service[j] \in Services
      /\ results \in [Jobs -> SUBSET Results]
      /\ lsf_jobs \in [Jobs -> Seq({"pending", "running", "done"})]
      /\ answers \in [Jobs \X Answers -> Nat]
  BY DEF TypeOK, ServiceTypeOK
\* What there is to show of an answer that LSF gives.
<1>2. ASSUME NEW a \in Answers, Answer(j, a),
             UNCHANGED <<service, submission, run, runs>>,
             "no_id" \in results'[j] <=> "no_id" \in results[j],
             lsf_jobs[j] # <<>>, runs[j] # 0,
             Once(j) => /\ OnceSaid(j)' /\ OnceKnown(j)' /\ a \notin answered[j]
                        /\ a \notin r.sent
      PROVE  OnceInv(j)'
  <2>1. Once(j)' <=> Once(j)
    BY <1>2 DEF Once
  <2>2. NoId(j)' <=> NoId(j)
    BY <1>2 DEF NoId
  <2>3. Once(j)' => \A met : Accounted(j, met) => Accounted(j, met)'
    BY <1>2, <2>1, AnswerAccounted
  <2>4. submission'[j] # "unsent" => submission[j] # "unsent"
    BY <1>2
  <2> QED
    BY <1>2, <2>1, <2>2, <2>3, <2>4, ServicesOnce
<1>3. lsf_jobs[j] # <<>> => runs[j] # 0
  BY DEF OnceInv
<1>4. Once(j) => OnceSaid(j) /\ OnceKnown(j)
  BY DEF OnceInv
<1>5. /\ <<"pending">> # <<"running">> /\ <<"pending">> # <<"done">> /\ <<"running">> # <<"done">>
      /\ <<"pending">> # <<>> /\ <<"running">> # <<>> /\ <<"done">> # <<>>
  OBVIOUS
<1>6. \A i \in DOMAIN lsf_jobs[j] : lsf_jobs[j] # <<>>
  <2>1. DOMAIN <<>> = {}
    OBVIOUS
  <2> QED
    BY <2>1
<1>7. CASE LsfPreExec(j)
  <2>1. PICK i \in DOMAIN lsf_jobs[j] :
            /\ lsf_jobs[j][i] = "pending"
            /\ lsf_jobs' = [lsf_jobs EXCEPT ![j][i] = "running"]
            /\ Answer(j, "msg: execute_begin")
            /\ UNCHANGED <<service, submission, run, results, runs>>
    BY <1>7 DEF LsfPreExec
  <2>2. /\ "msg: execute_begin" \in Answers
        /\ answered'[j] = answered[j] \cup {"msg: execute_begin"}
        /\ lsf_jobs'[j] = [lsf_jobs[j] EXCEPT ![i] = "running"]
    BY <1>1, <2>1 DEF Answers, Answer
  <2>3. ASSUME Once(j)
        PROVE  /\ OnceSaid(j)' /\ OnceKnown(j)'
               /\ "msg: execute_begin" \notin answered[j] /\ "msg: execute_begin" \notin r.sent
    <3>1. lsf_jobs[j] = <<"pending">> /\ lsf_jobs'[j] = <<"running">>
      <4>1. lsf_jobs[j] \in {<<>>, <<"pending">>, <<"running">>, <<"done">>}
        BY <1>4, <2>3 DEF OnceKnown
      <4>2. lsf_jobs[j][i] = "pending"
        BY <2>1
      <4>3. lsf_jobs[j] = <<"pending">> /\ i = 1
        BY <4>1, <4>2, OneLsfJob
      <4> QED
        BY OneChanged, <2>2, <4>3
    <3>2. service[j] = "lsf"
      BY <1>1, <1>4, <1>5, <2>3, <3>1 DEF OnceKnown, Services
    <3>3. "msg: execute_begin" \notin answered[j] /\ "msg: execute_begin" \notin r.sent
      BY <1>4, <1>5, <2>3, <3>1, <3>2 DEF OnceSaid
    <3>4. OnceSaid(j)'
      <4>1. \A b : b \in run'[j].sent \cup answered'[j] <=>
                     b \in r.sent \cup answered[j] \/ b = "msg: execute_begin"
        BY <2>1, <2>2
      <4> QED
        BY <1>4, <1>5, <2>1, <2>3, <3>1, <3>2, <4>1 DEF OnceSaid
    <3>5. OnceKnown(j)'
      BY <1>4, <1>5, <2>1, <2>3, <3>1, <3>2 DEF OnceKnown, HasEnded, NoId
    <3> QED
      BY <3>3, <3>4, <3>5
  <2> QED
    BY <1>2, <1>3, <1>6, <2>1, <2>2, <2>3
<1>8. CASE LsfPostExec(j)
  <2>1. PICK i \in DOMAIN lsf_jobs[j], code \in ExitCodes :
            /\ lsf_jobs[j][i] = "running"
            /\ lsf_jobs' = [lsf_jobs EXCEPT ![j][i] = "done"]
            /\ Answer(j, PostExecAnswer(code)) /\ Ended(j, ResultOf(code))
            /\ UNCHANGED <<service, submission, run, runs>>
    BY <1>8 DEF LsfPostExec
  <2>2. PICK a \in {"msg: execute_success", "msg: execute_failure"} : Answer(j, a)
    BY <2>1 DEF PostExecAnswer
  <2>3. /\ a \in Answers /\ answered'[j] = answered[j] \cup {a}
        /\ lsf_jobs'[j] = [lsf_jobs[j] EXCEPT ![i] = "done"]
    BY <1>1, <2>1, <2>2 DEF Answers, Answer
  <2>4. "no_id" \in results'[j] <=> "no_id" \in results[j]
    BY <1>1, <2>1 DEF Ended, ResultOf
  <2>5. ASSUME Once(j)
        PROVE  OnceSaid(j)' /\ OnceKnown(j)' /\ a \notin answered[j] /\ a \notin r.sent
    <3>1. lsf_jobs[j] = <<"running">> /\ lsf_jobs'[j] = <<"done">>
      <4>1. lsf_jobs[j] \in {<<>>, <<"pending">>, <<"running">>, <<"done">>}
        BY <1>4, <2>5 DEF OnceKnown
      <4>2. lsf_jobs[j][i] = "running"
        BY <2>1
      <4>3. lsf_jobs[j] = <<"running">> /\ i = 1
        BY <4>1, <4>2, OneLsfJob
      <4> QED
        BY OneChanged, <2>3, <4>3
    <3>2. service[j] = "lsf"
      BY <1>1, <1>4, <1>5, <2>5, <3>1 DEF OnceKnown, Services
    <3>3. "msg: execute_success" \notin r.sent \cup answered[j]
          /\ "msg: execute_failure" \notin r.sent \cup answered[j]
      BY <1>4, <1>5, <2>5, <3>1, <3>2 DEF OnceSaid
    <3>4. OnceSaid(j)'
      <4>1. \A b : b \in run'[j].sent \cup answered'[j] <=> b \in r.sent \cup answered[j] \/ b = a
        BY <2>1, <2>3
      <4> QED
        BY <1>4, <1>5, <2>1, <2>2, <2>5, <3>1, <3>2, <3>3, <4>1 DEF OnceSaid
    <3>5. OnceKnown(j)'
      BY <1>4, <1>5, <2>1, <2>4, <2>5, <3>1, <3>2 DEF OnceKnown, HasEnded, NoId
    <3> QED
      BY <2>2, <3>3, <3>4, <3>5
  <2> QED
    BY <1>2, <1>3, <1>6, <2>1, <2>2, <2>3, <2>4, <2>5
<1> QED
  BY <1>7, <1>8 DEF LsfStep

-----------------------------------------------------------------------------
(* The net.                                                                *)

\* What a firing meets, and where its token comes to.
LEMMA MetBegin ==
    ASSUME NEW t \in NetTransitions, NEW n \in BOOLEAN
    PROVE  \E c \in ControlPlaces :
              /\ c \in NetInputs[t] /\ NetInputs[t] \ {c} \subseteq Answers
              /\ Met(t, n) = Met(c, n) \cup (NetInputs[t] \ {c})
<1>1. NetInputs[t] \subseteq NetPlaces
  BY DEF NetPlaces
<1>2. ASSUME NEW c, c \in NetInputs[t], c \notin Answers, NetInputs[t] \ {c} \subseteq Answers,
             Met(t, n) = Met(c, n) \cup (NetInputs[t] \ {c})
      PROVE  \E d \in ControlPlaces :
                /\ d \in NetInputs[t] /\ NetInputs[t] \ {d} \subseteq Answers
                /\ Met(t, n) = Met(d, n) \cup (NetInputs[t] \ {d})
  BY <1>1, <1>2 DEF ControlPlaces
<1>3. CASE t \in {"start", "dispatch", "success_cleanup", "failure_cleanup", "success", "failure"}
  <2>1. PICK c : NetInputs[t] = {c} /\ c \notin Answers /\ Met(t, n) = Met(c, n)
    <3>1. CASE t = "start"
      <4>1. Met("start", n) = Met("start", n)
        OBVIOUS
      <4> QED
        BY <3>1, <4>1, InputsOf DEF Answers
    <3>2. CASE t = "dispatch"
      <4>1. Met("dispatch", n) = Met("start_bridge", n)
        BY DEF Met, Succeeding, Failing
      <4> QED
        BY <3>2, <4>1, InputsOf DEF Answers
    <3>3. CASE t \in {"success_cleanup", "failure_cleanup"}
      BY <3>3, InputsOf DEF Answers
    <3>4. CASE t = "success"
      <4>1. Met("success", n) = Met("success_bridge", n)
        BY DEF Met, Succeeding, Failing
      <4> QED
        BY <3>4, <4>1, InputsOf DEF Answers
    <3>5. CASE t = "failure"
      <4>1. Met("failure", n) = Met("failure_bridge", n)
        BY DEF Met, Succeeding, Failing
      <4> QED
        BY <3>5, <4>1, InputsOf DEF Answers
    <3> QED
      BY <1>3, <3>1, <3>2, <3>3, <3>4, <3>5
  <2>2. Met(t, n) = Met(c, n) \cup (NetInputs[t] \ {c}) /\ NetInputs[t] \ {c} \subseteq Answers
    BY <2>1
  <2> QED
    BY <1>2, <2>1, <2>2
<1>4. CASE t = "dispatch_success"
  <2>1. Met(t, n) = Met("dispatching", n) \cup {"msg: dispatch_success"}
    BY <1>4 DEF Met, Succeeding, Failing, Answers
  <2>2. NetInputs[t] \ {"dispatching"} = {"msg: dispatch_success"} /\ "dispatching" \in NetInputs[t]
    BY <1>4, InputsOf
  <2> QED
    BY <1>2, <2>1, <2>2 DEF Answers
<1>5. CASE t = "dispatch_failure"
  <2>1. Met(t, n) = Met("dispatching", n) \cup {"msg: dispatch_failure"}
    BY <1>5 DEF Met, Succeeding, Failing, Answers
  <2>2. NetInputs[t] \ {"dispatching"} = {"msg: dispatch_failure"} /\ "dispatching" \in NetInputs[t]
    BY <1>5, InputsOf
  <2> QED
    BY <1>2, <2>1, <2>2 DEF Answers
<1>6. CASE t = "execute_begin"
  <2>1. Met(t, n) = Met("pending", n) \cup {"msg: execute_begin"}
    BY <1>6 DEF Met, Succeeding, Failing, Answers
  <2>2. NetInputs[t] \ {"pending"} = {"msg: execute_begin"} /\ "pending" \in NetInputs[t]
    BY <1>6, InputsOf
  <2> QED
    BY <1>2, <2>1, <2>2 DEF Answers
<1>7. CASE t = "execute_success"
  <2>1. Met(t, n) = Met("running", n) \cup {"msg: execute_success"}
    BY <1>7 DEF Met, Succeeding, Failing, Answers
  <2>2. NetInputs[t] \ {"running"} = {"msg: execute_success"} /\ "running" \in NetInputs[t]
    BY <1>7, InputsOf
  <2> QED
    BY <1>2, <2>1, <2>2 DEF Answers
<1>8. CASE t = "execute_failure"
  <2>1. Met(t, n) = Met("running", n) \cup {"msg: execute_failure"}
    BY <1>8 DEF Met, Succeeding, Failing, Answers
  <2>2. NetInputs[t] \ {"running"} = {"msg: execute_failure"} /\ "running" \in NetInputs[t]
    BY <1>8, InputsOf
  <2> QED
    BY <1>2, <2>1, <2>2 DEF Answers
<1> QED
  BY <1>3, <1>4, <1>5, <1>6, <1>7, <1>8, Transitions

\* Nothing is met at the end of a firing.
LEMMA MetEnd ==
    ASSUME NEW t \in NetTransitions, NEW n \in BOOLEAN, NEW p \in NetOutputs[t],
           t = "dispatch_failure" => n, t = "execute_failure" => ~n
    PROVE  Met(p, n) = Met(t, n)
<1>1. CASE t = "start"
  BY <1>1, OutputsOf DEF Met, Succeeding, Failing
<1>2. CASE t = "dispatch"
  BY <1>2, OutputsOf DEF Met, Succeeding, Failing
<1>3. CASE t = "dispatch_success"
  BY <1>3, OutputsOf DEF Met, Succeeding, Failing
<1>4. CASE t = "dispatch_failure"
  BY <1>4, OutputsOf DEF Met, Succeeding, Failing
<1>5. CASE t = "execute_begin"
  BY <1>5, OutputsOf DEF Met, Succeeding, Failing
<1>6. CASE t = "execute_success"
  BY <1>6, OutputsOf DEF Met, Succeeding, Failing
<1>7. CASE t = "execute_failure"
  BY <1>7, OutputsOf DEF Met, Succeeding, Failing
<1>8. CASE t = "success_cleanup"
  BY <1>8, OutputsOf DEF Met, Succeeding, Failing
<1>9. CASE t = "failure_cleanup"
  BY <1>9, OutputsOf DEF Met, Succeeding, Failing
<1>10. CASE t = "success"
  BY <1>10, OutputsOf DEF Met, Succeeding, Failing
<1>11. CASE t = "failure"
  BY <1>11, OutputsOf DEF Met, Succeeding, Failing
<1> QED
  BY <1>1, <1>2, <1>3, <1>4, <1>5, <1>6, <1>7, <1>8, <1>9, <1>10, <1>11, Transitions

\* A step of the net leaves what was said.
LEMMA NetOnce ==
    ASSUME NEW j \in Jobs, OnceInv(j),
           UNCHANGED <<service, submission, run, lsf_jobs, results, answered, runs>>,
           <<j, "start">> \in due' \/ \E w \in ControlPlaces \cup NetTransitions : TokenAt(j, w)',
           submission[j] # "unsent" => /\ <<j, "start">> \notin due'
                                       /\ ~TokenAt(j, "start")' /\ ~TokenAt(j, "start_bridge")',
           Once(j) =>
              /\ <<j, "start">> \in due' => Accounted(j, {})'
              /\ \A w \in ControlPlaces \cup NetTransitions : TokenAt(j, w)' =>
                    \E met : met = Met(w, NoId(j)) /\ Accounted(j, met)'
    PROVE  OnceInv(j)'
<1>1. NoId(j)' <=> NoId(j)
  BY DEF NoId
<1>2. Once(j)' <=> Once(j)
  BY DEF Once
<1>3. Once(j) => OnceSaid(j)' /\ OnceKnown(j)'
  BY <1>1 DEF OnceInv, OnceSaid, OnceKnown, HasEnded
<1>4. ASSUME Once(j)', NEW w \in ControlPlaces \cup NetTransitions, TokenAt(j, w)'
      PROVE  Accounted(j, Met(w, NoId(j)))'
  <2>1. PICK met : met = Met(w, NoId(j)) /\ Accounted(j, met)'
    BY <1>2, <1>4
  <2>2. Met(w, NoId(j))' = met
    BY <1>1, <2>1 DEF Met
  <2> QED
    BY <2>1, <2>2 DEF Accounted
<1> QED
  BY <1>2, <1>3, <1>4 DEF OnceInv, ControlPlaces

\* The token is in one place.
LEMMA OneWhere ==
    ASSUME NEW j \in Jobs, OneToken(j), NEW w, TokenAt(j, w)
    PROVE  /\ \A v : TokenAt(j, v) => v = w
           /\ <<j, "start">> \notin due
BY DEF OneToken, TokenAt

LEMMA MetAlike ==
    ASSUME NEW j \in Jobs, NEW n \in BOOLEAN, n <=> NoId(j)
    PROVE  \A w : Met(w, NoId(j)) = Met(w, n)
BY DEF Met

LEMMA DispatchOnce ==
    ASSUME TypeOK, NEW j \in Jobs, JobInv(j), OnceInv(j), Dispatch(j)
    PROVE  OnceInv(j)'
<1>1. /\ submission[j] = "unsent" /\ submission'[j] = "queued"
      /\ UNCHANGED <<service, run, lsf_jobs, answers, results, answered, runs, netVars>>
  BY DEF Dispatch, Submit, historyVars, TypeOK, ServiceTypeOK
<1>2. TokenAt(j, "dispatch")
  BY Transitions DEF Dispatch, TokenAt, Firing
<1>3. <<j, "start">> \notin due /\ ~TokenAt(j, "start") /\ ~TokenAt(j, "start_bridge")
  BY <1>2, OneWhere DEF JobInv
<1>4. /\ \A p : Marked(j, p)' <=> Marked(j, p)
      /\ \A w : TokenAt(j, w)' <=> TokenAt(j, w)
      /\ due' = due
  BY <1>1, TokenAtStays
<1>5. run[j] = NoRun /\ NoRun.executor = "none"
  BY <1>1 DEF JobInv, ExecutorKnown, NoRun
<1>6. PICK n \in BOOLEAN : n <=> NoId(j)
  OBVIOUS
<1>7. NoId(j)' <=> NoId(j)
  BY <1>1 DEF NoId
<1>8. Once(j)' <=> Once(j)
  BY <1>1 DEF Once
<1>9. Once(j) => OnceSaid(j)' /\ OnceKnown(j)'
  BY <1>1, <1>5, <1>7 DEF OnceInv, OnceSaid, OnceKnown, HasEnded
<1>10. \A met : Accounted(j, met) => Accounted(j, met)'
  BY <1>1, <1>4 DEF Accounted
<1>11. ASSUME Once(j)', NEW w \in ControlPlaces \cup NetTransitions, TokenAt(j, w)'
       PROVE  Accounted(j, Met(w, NoId(j)))'
  <2>1. PICK met : met = Met(w, NoId(j))
    OBVIOUS
  <2>2. Accounted(j, met)'
    BY <1>4, <1>8, <1>10, <1>11, <2>1 DEF OnceInv
  <2>3. Met(w, NoId(j))' = met
    BY <1>7, <2>1 DEF Met
  <2> QED
    BY <2>2, <2>3 DEF Accounted
<1>12. runs'[j] = 0 => /\ run'[j] = NoRun /\ answered'[j] = {} /\ results'[j] = {}
                       /\ lsf_jobs'[j] = <<>>
                       /\ submission'[j] \in {"unsent", "queued", "rejected"}
  BY <1>1 DEF OnceInv
<1>13. /\ <<j, "start">> \in due' \/ \E w \in ControlPlaces \cup NetTransitions : TokenAt(j, w)'
       /\ <<j, "start">> \notin due' /\ ~TokenAt(j, "start")' /\ ~TokenAt(j, "start_bridge")'
  BY <1>3, <1>4 DEF OnceInv
<1> QED
  BY <1>8, <1>9, <1>11, <1>12, <1>13 DEF OnceInv, ControlPlaces

LEMMA StartPlaces ==
    /\ "start" \in ControlPlaces /\ "start_bridge" \in ControlPlaces
    /\ "start_bridge" \notin NetTransitions
    /\ \A n : Met("start", n) = {}
<1>1. "start" \in NetPlaces /\ "start_bridge" \in NetPlaces
  <2>1. \A t \in NetTransitions : NetInputs[t] \subseteq NetPlaces
    BY DEF NetPlaces
  <2> QED
    BY <2>1, InputsOf, Transitions
<1> QED
  BY <1>1, Transitions DEF ControlPlaces, Answers, Met, Succeeding, Failing

LEMMA BeginOnce ==
    ASSUME TypeOK, NEW j \in Jobs, JobInv(j), OnceInv(j), Begin(j)
    PROVE  OnceInv(j)'
<1>1. PICK t \in NetTransitions : Net!Begin(t, {j})
  BY DEF Begin
<1>2. UNCHANGED <<service, submission, run, lsf_jobs, answers, results, answered, runs>>
  BY DEF Begin, svars, historyVars
<1>3. /\ \A p \in NetInputs[t] : Marked(j, p)
      /\ \A p : Marked(j, p)' <=> Marked(j, p) /\ p \notin NetInputs[t]
      /\ \A s : Firing(j, s)' <=> Firing(j, s) \/ s = t
      /\ due' = due
  BY <1>1, BeginWhat DEF Marked, Firing
<1>4. PICK n \in BOOLEAN : n <=> NoId(j)
  OBVIOUS
<1>5. PICK c \in ControlPlaces :
          /\ c \in NetInputs[t] /\ NetInputs[t] \ {c} \subseteq Answers
          /\ Met(t, n) = Met(c, n) \cup (NetInputs[t] \ {c})
  BY MetBegin
<1>6. TokenAt(j, c)
  BY <1>3, <1>5 DEF TokenAt
<1>7. /\ \A w : TokenAt(j, w) => w = c
      /\ <<j, "start">> \notin due
  BY <1>6, OneWhere DEF JobInv
<1>8. \A w : TokenAt(j, w)' <=> w = t
  <2>1. \A w \in NetTransitions : ~Firing(j, w)
    BY <1>3, <1>5 DEF JobInv, OneToken
  <2>2. \A w : w \in ControlPlaces => ~Marked(j, w)'
    BY <1>3, <1>5, <1>7 DEF TokenAt
  <2> QED
    BY <1>3, <2>1, <2>2 DEF TokenAt, ControlPlaces
<1>9. ASSUME Once(j), NEW met, met = Met(t, NoId(j))
      PROVE  Accounted(j, met)'
  <2> DEFINE old == Met(c, n)
             ins == NetInputs[t] \ {c}
  <2>1. Accounted(j, old)
    BY <1>4, <1>6, <1>9, MetAlike DEF OnceInv
  <2>2. met = old \cup ins
    BY <1>4, <1>5, <1>9, MetAlike
  <2> HIDE DEF old
  <2>3. ASSUME NEW a \in Answers
        PROVE  /\ answers[<<j, a>>] <= 1
               /\ a \in answered[j] <=> answers[<<j, a>>] = 1 \/ Marked(j, a)' \/ a \in met
               /\ answers[<<j, a>>] = 1 => ~Marked(j, a)'
               /\ a \in met => answers[<<j, a>>] = 0 /\ ~Marked(j, a)'
               /\ a \in run[j].sent => a \notin answered[j]
    <3>1. /\ answers[<<j, a>>] <= 1 /\ answers[<<j, a>>] \in Nat
          /\ a \in answered[j] <=> answers[<<j, a>>] = 1 \/ Marked(j, a) \/ a \in old
          /\ answers[<<j, a>>] = 1 => ~Marked(j, a)
          /\ a \in old => answers[<<j, a>>] = 0 /\ ~Marked(j, a)
          /\ a \in run[j].sent => a \notin answered[j]
      BY <2>1 DEF Accounted, TypeOK, ServiceTypeOK
    <3>2. a # c
      BY DEF ControlPlaces
    <3>3. CASE a \in ins
      <4>1. Marked(j, a) /\ ~Marked(j, a)' /\ a \in met
        BY <1>3, <2>2, <3>3
      <4> QED
        BY <3>1, <4>1
    <3>4. CASE a \notin ins
      <4>1. (Marked(j, a)' <=> Marked(j, a)) /\ (a \in met <=> a \in old)
        BY <1>3, <2>2, <3>2, <3>4
      <4> QED
        BY <3>1, <4>1
    <3> QED
      BY <3>3, <3>4
  <2> QED
    BY <1>2, <2>3 DEF Accounted
<1>10. submission[j] # "unsent" => t # "start" /\ t # "start_bridge"
  BY <1>3, <1>6, <1>7, InputsOf, StartPlaces DEF OnceInv, TokenAt
<1> QED
  BY <1>2, <1>3, <1>7, <1>8, <1>9, <1>10, NetOnce

LEMMA FiringEndsOnce ==
    ASSUME TypeOK, NEW j \in Jobs, JobInv(j), OnceInv(j), End(j)
    PROVE  OnceInv(j)'
<1>1. PICK t \in NetTransitions : Net!End(t, {j})
  BY DEF End
<1>2. UNCHANGED <<service, submission, run, lsf_jobs, answers, results, answered, runs>>
  BY DEF End, svars, historyVars
<1>3. /\ Firing(j, t)
      /\ \A p : Marked(j, p)' <=> Marked(j, p) \/ p \in NetOutputs[t]
      /\ \A s : Firing(j, s)' <=> Firing(j, s) /\ s # t
      /\ due' = due
  BY <1>1, EndWhat DEF Marked, Firing
<1>4. PICK n \in BOOLEAN : n <=> NoId(j)
  OBVIOUS
<1>5. PICK c \in ControlPlaces : NetOutputs[t] = {c}
  BY OneOut
<1>6. TokenAt(j, t)
  BY <1>3 DEF TokenAt
<1>7. /\ \A w : TokenAt(j, w) => w = t
      /\ <<j, "start">> \notin due
  BY <1>6, OneWhere DEF JobInv
<1>8. \A w : TokenAt(j, w)' <=> w = c
  <2>1. \A w \in ControlPlaces : ~Marked(j, w)
    BY <1>3 DEF JobInv, OneToken
  <2>2. \A w \in NetTransitions : ~Firing(j, w)'
    BY <1>3, <1>7 DEF TokenAt
  <2> QED
    BY <1>3, <1>5, <2>1, <2>2 DEF TokenAt, ControlPlaces
<1>9. ASSUME Once(j), NEW met, met = Met(c, NoId(j))
      PROVE  Accounted(j, met)'
  <2>1. Accounted(j, Met(t, n))
    BY <1>4, <1>6, <1>9, MetAlike DEF OnceInv
  <2>2. OnceSaid(j) /\ OnceKnown(j)
    BY <1>9 DEF OnceInv
  <2>3. t = "dispatch_failure" => n
    <3>1. t = "dispatch_failure" => "msg: dispatch_failure" \in Met(t, n)
      BY DEF Met, Answers
    <3>2. t = "dispatch_failure" => "msg: dispatch_failure" \in answered[j]
      BY <2>1, <3>1 DEF Accounted, Answers
    <3> QED
      BY <1>4, <2>2, <3>2 DEF OnceSaid, OnceKnown, JobInv, ExecutorKnown
  <2>4. t = "execute_failure" => ~n
    <3>1. t = "execute_failure" => "msg: dispatch_success" \in Met(t, n)
      BY DEF Met, Answers
    <3>2. t = "execute_failure" => "msg: dispatch_success" \in answered[j]
      BY <2>1, <3>1 DEF Accounted, Answers
    <3> QED
      BY <1>4, <2>2, <3>2 DEF OnceSaid, OnceKnown
  <2>5. Met(c, n) = Met(t, n)
    BY <1>5, <2>3, <2>4, MetEnd
  <2>6. Accounted(j, met)
    BY <1>4, <1>9, <2>1, <2>5, MetAlike
  <2>7. \A a \in Answers : Marked(j, a)' <=> Marked(j, a)
    BY <1>3, <1>5 DEF ControlPlaces
  <2> QED
    BY <1>2, <2>6, <2>7 DEF Accounted
<1>10. submission[j] # "unsent" => c # "start" /\ c # "start_bridge"
  <2>1. c # "start" /\ (c = "start_bridge" => t = "start")
    BY <1>5, OutputsOf, Transitions
  <2> QED
    BY <1>6, <2>1 DEF OnceInv
<1> QED
  BY <1>2, <1>3, <1>7, <1>8, <1>9, <1>10, NetOnce

LEMMA DeliverOnce ==
    ASSUME TypeOK, NEW j \in Jobs, JobInv(j), OnceInv(j), Deliver(j)
    PROVE  OnceInv(j)'
<1>1. PICK a \in Answers :
          /\ answers[<<j, a>>] > 0
          /\ answers' = [answers EXCEPT ![<<j, a>>] = @ - 1]
          /\ marking' = marking \cup {<<j, a>>}
          /\ UNCHANGED <<due, firing>>
  BY DEF Deliver
<1>2. UNCHANGED <<service, submission, run, lsf_jobs, results, answered, runs>>
  BY DEF Deliver, historyVars
<1>3. /\ \A p : Marked(j, p)' <=> Marked(j, p) \/ p = a
      /\ answers'[<<j, a>>] = answers[<<j, a>>] - 1
      /\ \A b \in Answers : /\ answers[<<j, b>>] \in Nat
                            /\ b # a => answers'[<<j, b>>] = answers[<<j, b>>]
  BY <1>1 DEF Marked, TypeOK, ServiceTypeOK
<1>4. \A w : TokenAt(j, w)' <=> TokenAt(j, w)
  BY <1>1, <1>3 DEF TokenAt, Firing, ControlPlaces
<1>5. ASSUME NEW met, Accounted(j, met)
      PROVE  Accounted(j, met)'
  <2>1. ASSUME NEW b \in Answers
        PROVE  /\ answers'[<<j, b>>] <= 1
               /\ b \in answered[j] <=> answers'[<<j, b>>] = 1 \/ Marked(j, b)' \/ b \in met
               /\ answers'[<<j, b>>] = 1 => ~Marked(j, b)'
               /\ b \in met => answers'[<<j, b>>] = 0 /\ ~Marked(j, b)'
               /\ b \in run[j].sent => b \notin answered[j]
    <3>1. /\ answers[<<j, b>>] <= 1
          /\ b \in answered[j] <=> answers[<<j, b>>] = 1 \/ Marked(j, b) \/ b \in met
          /\ answers[<<j, b>>] = 1 => ~Marked(j, b)
          /\ b \in met => answers[<<j, b>>] = 0 /\ ~Marked(j, b)
          /\ b \in run[j].sent => b \notin answered[j]
      BY <1>5 DEF Accounted
    <3>2. CASE b = a
      <4>1. answers[<<j, a>>] = 1 /\ answers'[<<j, a>>] = 0 /\ Marked(j, a)'
        BY <1>1, <1>3, <3>1, <3>2
      <4> QED
        BY <3>1, <3>2, <4>1
    <3>3. CASE b # a
      BY <1>3, <3>1, <3>3
    <3> QED
      BY <3>2, <3>3
  <2> QED
    BY <1>2, <2>1 DEF Accounted
<1>6. Once(j) => /\ <<j, "start">> \in due' => Accounted(j, {})'
                 /\ \A w \in ControlPlaces \cup NetTransitions : TokenAt(j, w)' =>
                       \E met : met = Met(w, NoId(j)) /\ Accounted(j, met)'
  BY <1>1, <1>4, <1>5 DEF OnceInv
<1> QED
  BY <1>1, <1>2, <1>4, <1>6, NetOnce DEF OnceInv

LEMMA StartOnce ==
    ASSUME TypeOK, NEW j \in Jobs, JobInv(j), OnceInv(j), Start
    PROVE  OnceInv(j)'
<1>1. PICK cell \in due : /\ marking' = marking \cup {cell} /\ due' = due \ {cell}
                          /\ UNCHANGED <<groups, firing>>
  BY DEF Start, Net!Deposit
<1>2. PICK k \in Jobs : cell = <<k, "start">>
  BY <1>1 DEF TypeOK
<1>3. UNCHANGED <<service, submission, run, lsf_jobs, answers, results, answered, runs>>
  BY DEF Start, svars, historyVars
<1>4. CASE k # j
  <2>1. Alone(j) /\ (<<j, "start">> \in due' <=> <<j, "start">> \in due)
    BY <1>1, <1>2, <1>3, <1>4 DEF Alone
  <2> QED
    BY <1>3, <2>1, OnceApart
<1>5. CASE k = j
  <2>1. /\ \A p : Marked(j, p)' <=> Marked(j, p) \/ p = "start"
        /\ \A t : Firing(j, t)' <=> Firing(j, t)
        /\ <<j, "start">> \in due /\ <<j, "start">> \notin due'
    BY <1>1, <1>2, <1>5 DEF Marked, Firing
  <2>2. \A w : TokenAt(j, w)' <=> w = "start"
    BY <2>1, StartPlaces DEF TokenAt, JobInv, OneToken
  <2>3. submission[j] = "unsent"
    BY <2>1 DEF OnceInv
  <2>4. ASSUME Once(j)
        PROVE  Accounted(j, {})'
    <3>1. Accounted(j, {})
      BY <2>1, <2>4 DEF OnceInv
    <3>2. \A a \in Answers : Marked(j, a)' <=> Marked(j, a)
      BY <2>1, StartPlaces DEF ControlPlaces
    <3> QED
      BY <1>3, <3>1, <3>2 DEF Accounted
  <2>5. Once(j) => \A w \in ControlPlaces \cup NetTransitions : TokenAt(j, w)' =>
                       \E met : met = Met(w, NoId(j)) /\ Accounted(j, met)'
    BY <2>2, <2>4, StartPlaces
  <2> QED
    BY <1>3, <2>1, <2>2, <2>3, <2>5, StartPlaces, NetOnce
<1> QED
  BY <1>4, <1>5

-----------------------------------------------------------------------------
(* Every step.                                                             *)

LEMMA DieOnce ==
    ASSUME TypeOK, NEW s \in Services, Die(s), NEW j \in Jobs, JobInv(j), OnceInv(j)
    PROVE  OnceInv(j)'
<1>1. UNCHANGED <<service, answers, results, answered, runs, netVars>>
  BY DEF Die, Crash, historyVars
<1>2. CASE service[j] = s /\ run[j].executor # "none"
  <2>1. run'[j] = NoRun /\ NoRun.executor = "none"
    BY <1>2 DEF Die, Crash, NoRun
  <2>2. submission'[j] = IF submission[j] = "handling" THEN "queued" ELSE submission[j]
    BY <1>2 DEF Die, Crash
  <2>3. runs[j] # 0
    BY <1>2 DEF OnceInv, NoRun
  <2>4. ~Once(j)' /\ runs'[j] # 0
    BY <1>1, <2>1, <2>3 DEF Once
  <2>5. submission'[j] # "unsent" => submission[j] # "unsent"
    BY <2>2
  <2> QED
    BY <1>1, <2>4, <2>5, ServicesOnce
<1>3. CASE ~(service[j] = s /\ run[j].executor # "none")
  <2>1. run'[j] = run[j] /\ submission'[j] = submission[j]
    BY <1>3 DEF Die, Crash
  <2>2. lsf_jobs'[j] = lsf_jobs[j]
    BY <1>3 DEF Die, Crash
  <2>3. Alone(j) /\ due' = due
    BY <1>1, <2>1 DEF Alone, netVars
  <2> QED
    BY <1>1, <2>2, <2>3, OnceApart
<1> QED
  BY <1>2, <1>3

LEMMA OwnStepOnce ==
    ASSUME TypeOK, NEW j \in Jobs, JobInv(j), OnceInv(j), Progress(j) \/ Fault(j)
    PROVE  OnceInv(j)'
<1>1. CASE NetStep(j)
  BY <1>1, BeginOnce, DispatchOnce, FiringEndsOnce, DeliverOnce DEF NetStep
<1>2. CASE (Receive(j) \/ ExecutorStep(j) \/ LsfStep(j)) /\ UNCHANGED netVars
  BY <1>2, ReceiveOnce, ExecutorStepOnce, LsfOnce
<1>3. CASE MonitorStep(j) /\ UNCHANGED netVars
  BY <1>3, IdOnce, EndOnce, StoreOnce, ConfirmOnce DEF MonitorStep
<1>4. CASE JobFault(j) /\ UNCHANGED netVars
  BY <1>4, ExecutorStepOnce DEF JobFault
<1> QED
  BY <1>1, <1>2, <1>3, <1>4 DEF Progress, JobStep, Fault

\* What a job's step leaves of another job, beside what OthersAlone says.
LEMMA OthersStepOnce ==
    ASSUME TypeOK, NEW j \in Jobs, NEW k \in Jobs, k # j, Progress(j) \/ Fault(j), OnceInv(k)
    PROVE  OnceInv(k)'
<1>1. Alone(k)
  BY OthersAlone
<1>2. /\ runs \in [Jobs -> Nat]
      /\ lsf_jobs \in [Jobs -> Seq({"pending", "running", "done"})]
  BY ServicesAssumption DEF TypeOK, ServiceTypeOK
<1>3. /\ runs'[k] = runs[k] /\ lsf_jobs'[k] = lsf_jobs[k] /\ due' = due
  <2>1. CASE Begin(j)
    <3>1. PICK t \in NetTransitions : Net!Begin(t, {j})
      BY <2>1 DEF Begin
    <3> QED
      BY <2>1, <3>1, BeginWhat DEF Begin, svars, historyVars
  <2>2. CASE End(j)
    <3>1. PICK t \in NetTransitions : Net!End(t, {j})
      BY <2>2 DEF End
    <3> QED
      BY <2>2, <3>1, EndWhat DEF End, svars, historyVars
  <2>3. CASE Dispatch(j) \/ Deliver(j)
    BY <2>3 DEF Dispatch, Submit, Deliver, historyVars, netVars
  <2>4. CASE Receive(j) /\ UNCHANGED netVars
    BY <1>2, <2>4 DEF Receive, netVars
  <2>5. CASE (ExecutorStep(j) \/ ExecutorInterrupted(j) \/ ExecutorKilled(j)) /\ UNCHANGED netVars
    <3>1. executorUnchanged' = executorUnchanged /\ lsf_jobs'[k] = lsf_jobs[k]
      BY <1>2, <2>5 DEF ExecutorStep, ExecutorFails, ForkStarts, CommandExits, LsfSubmits,
         LsfWritesId, ExecutorInterrupted, ExecutorKilled
    <3> QED
      BY <2>5, <3>1 DEF executorUnchanged, netVars
  <2>6. CASE MonitorStep(j) /\ UNCHANGED netVars
    BY <2>6 DEF MonitorStep, JobIdConnectionLost, ProcessEnded, Store, Confirm,
       historyVars, netVars
  <2>7. CASE LsfStep(j) /\ UNCHANGED netVars
    BY <1>2, <2>7 DEF LsfStep, LsfPreExec, LsfPostExec, netVars
  <2> QED
    BY <2>1, <2>2, <2>3, <2>4, <2>5, <2>6, <2>7 DEF Progress, NetStep, JobStep, Fault, JobFault
<1> QED
  BY <1>1, <1>3, OnceApart

LEMMA OnceAtFirst == Init => OInv
<1> SUFFICES ASSUME Init, NEW j \in Jobs PROVE OnceInv(j)
  BY DEF OInv
<1>1. /\ run[j] = NoRun /\ submission[j] = "unsent" /\ lsf_jobs[j] = <<>> /\ runs[j] = 0
      /\ results[j] = {} /\ answered[j] = {} /\ <<j, "start">> \in due
      /\ marking = {} /\ firing = {}
      /\ \A a \in Answers : answers[<<j, a>>] = 0
  BY DEF Init, ServiceInit, Net!AbstractInit
<1>2. /\ NoRun.executor = "none" /\ NoRun.id = "waiting" /\ NoRun.ended = "waiting"
      /\ NoRun.sent = {} /\ ~NoRun.failed /\ ~NoRun.id_written
  BY DEF NoRun
<1>3. \A w : ~TokenAt(j, w)
  BY <1>1 DEF TokenAt, Marked, Firing
<1>4. Accounted(j, {})
  BY <1>1, <1>2 DEF Accounted, Marked
<1>5. <<>> # <<"running">> /\ <<>> # <<"done">>
  OBVIOUS
<1>6. OnceSaid(j)
  BY <1>1, <1>2, <1>5 DEF OnceSaid
<1>7. OnceKnown(j)
  BY <1>1, <1>2 DEF OnceKnown, NoId, HasEnded
<1> QED
  BY <1>1, <1>3, <1>4, <1>6, <1>7 DEF OnceInv

LEMMA EveryStepOnce == IInv /\ OInv /\ [Next]_vars => OInv'
<1> SUFFICES ASSUME IInv, OInv, [Next]_vars, NEW j \in Jobs PROVE OnceInv(j)'
  BY DEF OInv
<1>1. TypeOK /\ JobInv(j) /\ OnceInv(j)
  BY DEF IInv, OInv
<1>2. CASE Start
  BY <1>1, <1>2, StartOnce
<1>3. ASSUME NEW i \in Jobs, Progress(i) \/ Fault(i)
      PROVE  OnceInv(j)'
  <2>1. CASE i = j
    BY <1>1, <1>3, <2>1, OwnStepOnce
  <2>2. CASE i # j
    BY <1>1, <1>3, <2>2, OthersStepOnce
  <2> QED
    BY <2>1, <2>2
<1>4. ASSUME NEW s \in Services, Die(s)
      PROVE  OnceInv(j)'
  BY <1>1, <1>4, DieOnce
<1>5. CASE UNCHANGED vars
  <2>1. /\ Alone(j) /\ due' = due /\ runs' = runs /\ lsf_jobs' = lsf_jobs
    BY <1>5 DEF Alone, vars, svars, netVars, historyVars
  <2> QED
    BY <1>1, <2>1, OnceApart
<1> QED
  BY <1>2, <1>3, <1>4, <1>5 DEF Next

\* Where a net's token is tells which answers it has met, and as long as its job was
\* run only once each answer is accounted for, as OInv has it in every state.
THEOREM OnceInvariance == Spec => []OInv
<1>1. Init => OInv
  BY OnceAtFirst
<1>2. IInv /\ OInv /\ [Next]_vars => OInv'
  BY EveryStepOnce
<1> QED
  BY <1>1, <1>2, Invariance, PTL DEF Spec

-----------------------------------------------------------------------------
(* At rest.                                                                *)

LEMMA ControlPlacesAre ==
    /\ ControlPlaces \subseteq {"start", "start_bridge", "dispatching", "pending", "running",
          "success_cleanup", "failure_cleanup", "success_bridge", "failure_bridge",
          "success", "failure"}
    /\ NetPlaces = ControlPlaces \cup Answers
<1>1. ASSUME NEW p \in NetPlaces, p \notin Answers
      PROVE  p \in {"start", "start_bridge", "dispatching", "pending", "running",
                "success_cleanup", "failure_cleanup", "success_bridge", "failure_bridge",
                "success", "failure"}
  <2>1. PICK t \in NetTransitions : p \in NetInputs[t] \cup NetOutputs[t]
    BY DEF NetPlaces
  <2>2. CASE t = "start"
    BY <1>1, <2>1, <2>2, InputsOf, OutputsOf DEF Answers
  <2>3. CASE t = "dispatch"
    BY <1>1, <2>1, <2>3, InputsOf, OutputsOf DEF Answers
  <2>4. CASE t = "dispatch_success"
    BY <1>1, <2>1, <2>4, InputsOf, OutputsOf DEF Answers
  <2>5. CASE t = "dispatch_failure"
    BY <1>1, <2>1, <2>5, InputsOf, OutputsOf DEF Answers
  <2>6. CASE t = "execute_begin"
    BY <1>1, <2>1, <2>6, InputsOf, OutputsOf DEF Answers
  <2>7. CASE t = "execute_success"
    BY <1>1, <2>1, <2>7, InputsOf, OutputsOf DEF Answers
  <2>8. CASE t = "execute_failure"
    BY <1>1, <2>1, <2>8, InputsOf, OutputsOf DEF Answers
  <2>9. CASE t = "success_cleanup"
    BY <1>1, <2>1, <2>9, InputsOf, OutputsOf DEF Answers
  <2>10. CASE t = "failure_cleanup"
    BY <1>1, <2>1, <2>10, InputsOf, OutputsOf DEF Answers
  <2>11. CASE t = "success"
    BY <1>1, <2>1, <2>11, InputsOf, OutputsOf DEF Answers
  <2>12. CASE t = "failure"
    BY <1>1, <2>1, <2>12, InputsOf, OutputsOf DEF Answers
  <2> QED
    BY <2>2, <2>3, <2>4, <2>5, <2>6, <2>7, <2>8, <2>9, <2>10, <2>11, <2>12, Transitions
<1> QED
  BY <1>1, AnswersArePlaces DEF ControlPlaces

LEMMA EnoughToBegin ==
    ASSUME TypeOK, NEW j \in Jobs, NEW t \in NetTransitions,
           \A p \in NetInputs[t] : Marked(j, p), ~Firing(j, t)
    PROVE  Net!CanBegin(t, {j})
<1>1. [colors |-> {j}, parent |-> "none"] \in groups
  BY DEF TypeOK, NetGroups
<1>2. j \in UNION {g.colors : g \in groups}
  BY <1>1
<1>3. {j} \in Net!Takes(t)
  BY <1>2 DEF Net!Takes
<1>4. {j} \X NetInputs[t] \subseteq marking
  BY DEF Marked
<1> QED
  BY <1>3, <1>4 DEF Net!CanBegin, Firing

LEMMA RestingWhere ==
    ASSUME TypeOK, NEW j \in Jobs, JobInv(j), OnceInv(j), Once(j), AtRest(j),
           run[j].executor # "none"
    PROVE  /\ TokenAt(j, "success") \/ TokenAt(j, "failure")
           /\ OnceSaid(j) /\ OnceKnown(j) /\ run[j].sent = {}
           /\ \A a \in Answers : answers[<<j, a>>] = 0
<1> DEFINE r == run[j]
<1>1. /\ submission[j] \in {"acked", "rejected"} /\ r.ended # "waiting" /\ r.sent = {}
      /\ \A i \in DOMAIN lsf_jobs[j] : lsf_jobs[j][i] = "done"
      /\ \A a \in Answers : answers[<<j, a>>] = 0
      /\ \A t \in NetTransitions : ~Firing(j, t) /\ ~Net!CanBegin(t, {j})
  BY DEF AtRest, Firing
<1>2. OnceSaid(j) /\ OnceKnown(j)
  BY DEF OnceInv
<1>3. r.id \in {"success", "failure"} /\ r.ended \in {"success", "failure"}
      /\ service[j] \in {"fork", "lsf"}
  BY <1>1, <1>2 DEF OnceKnown, TypeOK, ServiceTypeOK, Run, Services
<1>4. PICK w \in ControlPlaces : TokenAt(j, w) /\ Marked(j, w)
  BY <1>1 DEF OnceInv, TokenAt
<1>5. PICK met : met = Met(w, NoId(j))
  OBVIOUS
<1>6. \A a \in Answers : /\ a \in answered[j] => Marked(j, a) \/ a \in met
                         /\ a \in met => a \in answered[j]
  <2>1. Accounted(j, met)
    BY <1>4, <1>5 DEF OnceInv
  <2>2. \A a \in Answers : a \in answered[j] <=> answers[<<j, a>>] = 1 \/ Marked(j, a) \/ a \in met
    BY <2>1 DEF Accounted
  <2>3. \A a \in Answers : answers[<<j, a>>] # 1
    BY <1>1
  <2> QED
    BY <2>2, <2>3
<1>7. \A t \in NetTransitions : \E p \in NetInputs[t] : ~Marked(j, p)
  BY <1>1, EnoughToBegin
\* What LSF was given is done.
<1>8. lsf_jobs[j] = <<>> \/ lsf_jobs[j] = <<"done">>
  <2>1. DOMAIN <<"pending">> = {1} /\ DOMAIN <<"running">> = {1}
    OBVIOUS
  <2>2. <<"pending">>[1] = "pending" /\ <<"running">>[1] = "running"
    OBVIOUS
  <2>3. lsf_jobs[j] # <<"pending">>
    BY <1>1, <2>1, <2>2
  <2>4. lsf_jobs[j] # <<"running">>
    BY <1>1, <2>1, <2>2
  <2> QED
    BY <1>2, <2>3, <2>4 DEF OnceKnown
<1>9. /\ <<>> # <<"running">> /\ <<>> # <<"done">>
  OBVIOUS
<1>10. w # "dispatching"
  <2> SUFFICES ASSUME w = "dispatching" PROVE FALSE
    OBVIOUS
  <2>1. met = {}
    BY <1>5 DEF Met, Succeeding, Failing
  <2>2. "msg: dispatch_success" \in answered[j] \/ "msg: dispatch_failure" \in answered[j]
    BY <1>1, <1>2, <1>3 DEF OnceSaid
  <2>3. Marked(j, "msg: dispatch_success") \/ Marked(j, "msg: dispatch_failure")
    BY <1>6, <2>1, <2>2 DEF Answers
  <2> QED
    BY ZenonT(60), <1>4, <1>7, <2>3, InputsOf, Transitions
<1>11. w # "pending"
  <2> SUFFICES ASSUME w = "pending" PROVE FALSE
    OBVIOUS
  <2>1. "msg: dispatch_success" \in met /\ "msg: execute_begin" \notin met
    BY <1>5 DEF Met, Succeeding, Failing, Answers
  <2>2. r.id = "success"
    BY <1>1, <1>2, <1>6, <2>1 DEF OnceSaid, Answers
  <2>3. "msg: execute_begin" \in answered[j]
    <3>1. CASE service[j] = "fork"
      BY <1>1, <1>2, <2>2, <3>1 DEF OnceSaid
    <3>2. CASE service[j] = "lsf"
      <4>1. lsf_jobs[j] = <<"done">>
        BY <1>2, <1>8, <2>2, <3>2 DEF OnceKnown
      <4> QED
        BY <1>1, <1>2, <3>2, <4>1 DEF OnceSaid
    <3> QED
      BY <1>3, <3>1, <3>2
  <2>4. Marked(j, "msg: execute_begin")
    BY <1>6, <2>1, <2>3 DEF Answers
  <2> QED
    BY ZenonT(60), <1>4, <1>7, <2>4, InputsOf, Transitions
<1>12. w # "running"
  <2> SUFFICES ASSUME w = "running" PROVE FALSE
    OBVIOUS
  <2>1. /\ "msg: execute_begin" \in met
        /\ "msg: execute_success" \notin met /\ "msg: execute_failure" \notin met
    BY <1>5 DEF Met, Succeeding, Failing, Answers
  <2>2. "msg: execute_begin" \in answered[j]
    BY <1>6, <2>1 DEF Answers
  <2>3. "msg: execute_success" \in answered[j] \/ "msg: execute_failure" \in answered[j]
    <3>1. CASE service[j] = "fork"
      BY <1>1, <1>2, <1>3, <3>1 DEF OnceSaid
    <3>2. CASE service[j] = "lsf"
      BY <1>1, <1>2, <1>8, <1>9, <2>2, <3>2 DEF OnceSaid
    <3> QED
      BY <1>3, <3>1, <3>2
  <2>4. Marked(j, "msg: execute_success") \/ Marked(j, "msg: execute_failure")
    BY <1>6, <2>1, <2>3 DEF Answers
  <2> QED
    BY ZenonT(60), <1>4, <1>7, <2>4, InputsOf, Transitions
<1>13. w \notin {"start", "start_bridge", "success_cleanup", "failure_cleanup",
                 "success_bridge", "failure_bridge"}
  <2>1. ASSUME NEW t \in NetTransitions, NetInputs[t] = {w}
        PROVE  FALSE
    BY <1>4, <1>7, <2>1
  <2>2. w # "start" /\ w # "start_bridge"
    BY <2>1, InputsOf, Transitions
  <2>3. w # "success_cleanup" /\ w # "failure_cleanup"
    BY <2>1, InputsOf, Transitions
  <2>4. w # "success_bridge" /\ w # "failure_bridge"
    BY <2>1, InputsOf, Transitions
  <2> QED
    BY <2>2, <2>3, <2>4
<1>14. w \in {"success", "failure"}
  BY <1>10, <1>11, <1>12, <1>13, ControlPlacesAre
<1> QED
  BY <1>1, <1>2, <1>4, <1>14

\* The fork service's verify_color_marking: a job that was run once leaves its outcome
\* in its net, and of its answers only those that the net does not wait for when the
\* executor wrote no id, however its answers came.
THEOREM OnlyOutcomeIsMarked == Spec => []OnlyOutcomeMarked
<1>1. IInv /\ OInv => OnlyOutcomeMarked
  <2> SUFFICES ASSUME IInv, OInv, NEW j \in Jobs, AtRest(j), runs[j] = 1
               PROVE  LET left == IF "no_id" \in results[j]
                                  THEN answered[j] \ {"msg: dispatch_failure"} ELSE {}
                      IN \E o \in {"success", "failure"} :
                            {p \in NetPlaces : Marked(j, p)} = {o} \cup left
    BY DEF OnlyOutcomeMarked
  <2>1. TypeOK /\ JobInv(j) /\ OnceInv(j)
    BY DEF IInv, OInv
  <2>2. run[j].executor # "none"
    BY <2>1 DEF JobInv, ExecutorKnown, AtRest, NoRun
  <2>3. Once(j)
    BY <2>2 DEF Once
  <2>4. /\ TokenAt(j, "success") \/ TokenAt(j, "failure")
        /\ OnceSaid(j) /\ OnceKnown(j) /\ run[j].sent = {}
        /\ \A a \in Answers : answers[<<j, a>>] = 0
    BY <2>1, <2>2, <2>3, RestingWhere
  <2>5. PICK o \in {"success", "failure"} : TokenAt(j, o)
    BY <2>4
  <2>6. o \in ControlPlaces /\ Marked(j, o)
    <3>1. o \in ControlPlaces
      BY FollowersExist DEF ControlPlaces, Answers
    <3>2. \A t \in NetTransitions : ~Firing(j, t)
      BY DEF AtRest, Firing
    <3> QED
      BY <2>5, <3>1, <3>2 DEF TokenAt
  <2>7. \A p \in ControlPlaces : Marked(j, p) <=> p = o
    BY <2>1, <2>6 DEF JobInv, OneToken
  <2>8. PICK met : met = Met(o, NoId(j))
    OBVIOUS
  <2>9. \A a \in Answers : /\ Marked(j, a) <=> a \in answered[j] /\ a \notin met
                           /\ a \in met => a \in answered[j]
    <3>1. Accounted(j, met)
      BY <2>1, <2>3, <2>5, <2>6, <2>8 DEF OnceInv
    <3>2. ASSUME NEW a \in Answers
          PROVE  /\ a \in answered[j] <=> answers[<<j, a>>] = 1 \/ Marked(j, a) \/ a \in met
                 /\ a \in met => ~Marked(j, a)
      BY <3>1 DEF Accounted
    <3>3. \A a \in Answers : answers[<<j, a>>] # 1
      BY <2>4
    <3> QED
      BY <3>2, <3>3
  <2>10. answered[j] \subseteq Answers /\ service[j] \in {"fork", "lsf"}
    BY <2>1 DEF TypeOK, ServiceTypeOK, Services
  \* A net whose token met a success of its dispatch has met all its answers.
  <2>11. "msg: dispatch_success" \in met => ~NoId(j) /\ "msg: dispatch_failure" \notin answered[j]
    BY <2>4, <2>9 DEF OnceSaid, OnceKnown, Answers
  <2>12. ~({"msg: execute_success", "msg: execute_failure"} \subseteq answered[j])
    <3>1. CASE service[j] = "fork"
      BY <2>4, <3>1 DEF OnceSaid
    <3>2. CASE service[j] = "lsf"
      BY <2>4, <3>2 DEF OnceSaid
    <3> QED
      BY <2>10, <3>1, <3>2
  <2>13. CASE o = "success" \/ ~NoId(j)
    <3>1. /\ "msg: dispatch_success" \in met /\ "msg: execute_begin" \in met
          /\ "msg: execute_success" \in met \/ "msg: execute_failure" \in met
      BY <2>5, <2>8, <2>13 DEF Met, Succeeding, Failing, Answers
    <3>2. \A a \in Answers : ~Marked(j, a)
      BY <2>9, <2>11, <2>12, <3>1 DEF Answers
    <3>3. {p \in NetPlaces : Marked(j, p)} = {o}
      BY <2>6, <2>7, <3>2, ControlPlacesAre
    <3>4. "no_id" \notin results[j]
      BY <2>11, <3>1 DEF NoId
    <3> QED
      BY <3>3, <3>4
  <2>14. CASE o = "failure" /\ NoId(j)
    <3>1. met = {"msg: dispatch_failure"}
      BY <2>8, <2>14 DEF Met, Succeeding, Failing, Answers
    <3>2. \A a \in Answers : Marked(j, a) <=> a \in answered[j] \ {"msg: dispatch_failure"}
      BY <2>9, <3>1
    <3>3. {p \in NetPlaces : Marked(j, p)} = {o} \cup (answered[j] \ {"msg: dispatch_failure"})
      BY <2>6, <2>7, <2>10, <3>2, ControlPlacesAre
    <3>4. "no_id" \in results[j]
      BY <2>14 DEF NoId
    <3> QED
      BY <3>3, <3>4
  <2> QED
    BY <2>5, <2>13, <2>14
<1> QED
  BY <1>1, Invariance, OnceInvariance, PTL
=============================================================================
