------------------------------- MODULE JobService -------------------------------
(***************************************************************************)
(* What a GdaThreadWrapper promises its users, whatever the threads,       *)
(* queues and lists it is made of: submitted jobs are executed one at a    *)
(* time, in the order in which they were submitted; a job can be cancelled *)
(* until it is started, and never after; an executed job is collected at   *)
(* most once.  A job submitted by the function being executed is executed  *)
(* within it.                                                              *)
(***************************************************************************)
EXTENDS Sequences, Queues

CONSTANT Ids

VARIABLES status, queue

States == {"new", "queued", "cancelled", "running", "done", "collected"}

TypeOK ==
    /\ status \in [Ids -> States]
    /\ queue \in Seq(Ids)

Init ==
    /\ status = [j \in Ids |-> "new"]
    /\ queue = <<>>

SomeoneRuns == \E j \in Ids : status[j] = "running"

Submit(j) ==
    /\ status[j] = "new"
    /\ status' = [status EXCEPT ![j] = "queued"]
    /\ queue' = Append(queue, j)

SubmitNested(j) ==
    /\ SomeoneRuns
    /\ status[j] = "new"
    /\ status' = [status EXCEPT ![j] = "done"]
    /\ UNCHANGED queue

Cancel(j) ==
    /\ status[j] = "queued"
    /\ status' = [status EXCEPT ![j] = "cancelled"]
    /\ queue' = Without(queue, {j})

Start ==
    /\ ~SomeoneRuns
    /\ queue # <<>>
    /\ status' = [status EXCEPT ![Head(queue)] = "running"]
    /\ queue' = Tail(queue)

Finish(j) ==
    /\ status[j] = "running"
    /\ status' = [status EXCEPT ![j] = "done"]
    /\ UNCHANGED queue

Collect(j) ==
    /\ status[j] = "done"
    /\ status' = [status EXCEPT ![j] = "collected"]
    /\ UNCHANGED queue

(* The service is closed: what is queued is cancelled, what is running is  *)
(* left to finish, and results nobody collected may be dropped.            *)
Close ==
    /\ \E dropped \in SUBSET {j \in Ids : status[j] = "done"} :
         status' = [j \in Ids |-> IF status[j] = "queued" THEN "cancelled"
                                  ELSE IF j \in dropped THEN "collected"
                                  ELSE status[j]]
    /\ queue' = <<>>

Next ==
    \/ \E j \in Ids : Submit(j) \/ SubmitNested(j) \/ Cancel(j) \/ Finish(j) \/ Collect(j)
    \/ Start
    \/ Close

(* What is submitted is started, and what is started finishes.             *)
Fairness == WF_<<status, queue>>(Start \/ \E j \in Ids : Finish(j))

SafeSpec == Init /\ [][Next]_<<status, queue>>
Spec == SafeSpec /\ Fairness
=============================================================================
