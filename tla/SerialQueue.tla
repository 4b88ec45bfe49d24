---------------------------- MODULE SerialQueue ----------------------------
(***************************************************************************)
(* What util/execqueue promises: "an ordered asynchronous queue for        *)
(* executing functions".  Jobs run one at a time, in the order in which    *)
(* they were accepted; once the queue is closed nothing more is accepted   *)
(* and no pending job is started.  ExecQueue is shown to implement this    *)
(* specification.                                                          *)
(***************************************************************************)
EXTENDS Sequences

CONSTANT Jobs

VARIABLES
  status,   \* status[j]: what has become of job j
  pending,  \* the accepted jobs that have not been started, oldest first
  open      \* FALSE once the queue has been shut down

vars == <<status, pending, open>>

States == {"new", "pending", "running", "finished", "refused"}

Running == {j \in Jobs : status[j] = "running"}

Init ==
  /\ status = [j \in Jobs |-> "new"]
  /\ pending = <<>>
  /\ open = TRUE

\* An open queue accepts a new job: at the end of the line, or straight into
\* execution when no job is waiting or running.
Accept(j) ==
  /\ open
  /\ status[j] = "new"
  /\ \/ /\ status' = [status EXCEPT ![j] = "pending"]
        /\ pending' = Append(pending, j)
     \/ /\ pending = <<>> /\ Running = {}
        /\ status' = [status EXCEPT ![j] = "running"]
        /\ UNCHANGED pending
  /\ UNCHANGED open

\* A closed queue takes no job.
Refuse(j) ==
  /\ ~open
  /\ status[j] = "new"
  /\ status' = [status EXCEPT ![j] = "refused"]
  /\ UNCHANGED <<pending, open>>

\* The job that has waited longest is started, when none is running.
Start ==
  /\ open
  /\ Running = {}
  /\ pending # <<>>
  /\ status' = [status EXCEPT ![Head(pending)] = "running"]
  /\ pending' = Tail(pending)
  /\ UNCHANGED open

Finish(j) ==
  /\ status[j] = "running"
  /\ status' = [status EXCEPT ![j] = "finished"]
  /\ UNCHANGED <<pending, open>>

Close ==
  /\ open' = FALSE
  /\ UNCHANGED <<status, pending>>

\* What was still waiting when the queue closed is thrown away, not run.
Discard ==
  /\ ~open
  /\ Running = {}
  /\ status' = [j \in Jobs |-> IF status[j] = "pending" THEN "refused" ELSE status[j]]
  /\ pending' = <<>>
  /\ UNCHANGED open

Next ==
  \/ \E j \in Jobs : Accept(j) \/ Refuse(j) \/ Finish(j)
  \/ Start \/ Close \/ Discard

Spec == Init /\ [][Next]_vars
=============================================================================
