------------------------------- MODULE MCAmqp -------------------------------
(* A process with one handler: m1 leads to two publishes, m2 is not valid.  *)
EXTENDS AmqpClient

CONSTANTS m1, m2, q1, p1, p2, p3

MCMessages  == {m1, m2}
MCQueueOf   == [m \in MCMessages |-> q1]
MCPublishes == {p1, p2, p3}
MCOutputs   == [m \in MCMessages |-> IF m = m1 THEN <<p1, p2>> ELSE <<>>]

\* A service registers its handler (ServiceCommand), declares a queue and starts a
\* net (BenchmarkCommand); it declares the queue again, behind the publish.
ServiceCalls == <<[op |-> "register", arg |-> q1], [op |-> "declare", arg |-> q1],
                  [op |-> "publish", arg |-> p3], [op |-> "declare", arg |-> q1]>>
=============================================================================
