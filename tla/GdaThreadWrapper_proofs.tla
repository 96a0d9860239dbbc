-------------------------- MODULE GdaThreadWrapper_proofs --------------------------
(***************************************************************************)
(* Safety of the thread wrapper for any set of client threads and any      *)
(* number of jobs.  IInv is the inductive invariant: it says, for every    *)
(* place a job can be in, what is then true of the job, and the invariants *)
(* of GdaThreadWrapper follow from it.  The queues are used through the    *)
(* set of jobs they hold; the lemmas on Append and Tail are the only ones  *)
(* of this part that look at positions.                                    *)
(*                                                                         *)
(* The second part is about where the jobs are and in which order they are *)
(* started.  At its end, from both, every step of the wrapper is a step of *)
(* JobService or unseen by it.                                             *)
(***************************************************************************)
EXTENDS GdaThreadWrapper, FiniteSetTheorems, FunctionTheorems, SequenceTheorems,
        WellFoundedInduction, TLAPS

NoRepeats(q) == \A i, k \in 1..Len(q) : q[i] = q[k] => i = k

(* No queue holds a job twice.                                             *)
QueuesInv ==
    /\ NoRepeats(to_worker)
    /\ \A t \in Threads : NoRepeats(from_worker[t])

(* A job is pushed by the client that owns it, which no dispose() overtakes.*)
Submitting(t) ==
    /\ disposed = "no"
    /\ call_id[t] \in heap \ (processed \cup cancelled \cup Range(to_worker))
    /\ call_id[t] \in Ids
    /\ owner[call_id[t]] = t

SubmittingInv == \A t \in Threads : pc[t] = "push" => Submitting(t)

(* What waits for the worker is allocated and unprocessed, or dispose()'s. *)
QueuedInv ==
    /\ Range(to_worker) \ {DESTROY} \subseteq heap \ processed
    /\ disposed = "no" => DESTROY \notin Range(to_worker)

(* The job in the worker's hands.                                          *)
InHandInv ==
    /\ wpc = "run" => wjob # DESTROY /\ wjob \notin cancelled /\ ran[wjob] = 1
    /\ wpc = "popped" /\ wjob # DESTROY => ran[wjob] = 0
    /\ wpc \in {"popped", "run"} /\ wjob # DESTROY => wjob \in heap \cap processed

(* What the worker handed back is executed and kept once, for its owner.   *)
Answered(t) ==
    /\ Range(from_worker[t]) \cap results[t] = {}
    /\ \A j \in Range(from_worker[t]) \cup results[t] :
          /\ j \in (heap \cap processed) \ cancelled
          /\ owner[j] = t
          /\ wpc \in {"popped", "run"} => j # wjob

AnsweredInv == \A t \in Threads : Answered(t)

(* Ids not taken yet are untouched; only processed jobs ever ran.          *)
FreshInv ==
    /\ \A j \in heap \cup processed \cup cancelled : j < next_job_id
    /\ \A j \in Ids : j >= next_job_id => destroyed[j] = 0
    /\ \A j \in Ids : j \notin processed => ran[j] = 0

ArgDestroyed(j) ==
    /\ destroyed[j] <= 1
    /\ j \in heap => destroyed[j] = IF j \in cancelled THEN 1 ELSE 0
    /\ j < next_job_id /\ j \notin heap => destroyed[j] = 1

(* A live job still has its arg, unless it was cancelled.                  *)
ArgInv == \A j \in heap : j \in args <=> j \notin cancelled

ThreadDataInv ==
    /\ \A t \in Threads : jobs[t] \cup results[t] # {} => t \in threads_hash
    /\ disposed = "yes" => \A t \in Threads : jobs[t] = {} /\ results[t] = {}
    /\ disposed # "no" => \A t \in Threads : pc[t] = "idle"

IInv ==
    /\ TypeOK
    /\ QueuesInv
    /\ SubmittingInv
    /\ QueuedInv
    /\ InHandInv
    /\ AnsweredInv
    /\ FreshInv
    /\ ArgInv
    /\ ThreadDataInv
    /\ JobsAccounted
    /\ ArgDestroyedOnce
    /\ CancelledNeverRuns
    /\ DisposedQueueCancelled

-----------------------------------------------------------------------------
(* What pushing at the end of a queue does.                                *)
LEMMA AppendFacts ==
    ASSUME NEW S, NEW q \in Seq(S), NEW x \in S
    PROVE  /\ Append(q, x) \in Seq(S)
           /\ Range(Append(q, x)) = Range(q) \cup {x}
           /\ NoRepeats(q) /\ x \notin Range(q) => NoRepeats(Append(q, x))
<1>1. /\ Append(q, x) \in Seq(S)
      /\ Len(q) \in Nat
      /\ Len(Append(q, x)) = Len(q) + 1
      /\ \A i \in 1..(Len(q) + 1) :
            Append(q, x)[i] = IF i = Len(q) + 1 THEN x ELSE q[i]
  OBVIOUS
<1>2. DOMAIN q = 1..Len(q) /\ DOMAIN Append(q, x) = 1..(Len(q) + 1)
  BY <1>1
<1>3. Range(Append(q, x)) \subseteq Range(q) \cup {x}
  BY <1>1, <1>2 DEF Range
<1>4. Range(q) \cup {x} \subseteq Range(Append(q, x))
  <2>1. \A i \in 1..Len(q) : i \in 1..(Len(q) + 1) /\ Append(q, x)[i] = q[i]
    BY <1>1
  <2>2. Len(q) + 1 \in 1..(Len(q) + 1) /\ Append(q, x)[Len(q) + 1] = x
    BY <1>1
  <2> QED
    BY <1>2, <2>1, <2>2 DEF Range
<1>5. ASSUME NoRepeats(q), x \notin Range(q)
      PROVE  NoRepeats(Append(q, x))
  <2>1. \A i \in 1..Len(q) : q[i] # x
    BY <1>2, <1>5 DEF Range
  <2> QED
    BY <1>1, <1>5, <2>1 DEF NoRepeats
<1> QED
  BY <1>1, <1>3, <1>4, <1>5

(* What popping the head of a queue does.                                  *)
LEMMA TailFacts ==
    ASSUME NEW S, NEW q \in Seq(S), q # <<>>, NoRepeats(q)
    PROVE  /\ Tail(q) \in Seq(S)
           /\ Head(q) \in Range(q)
           /\ Head(q) \in S
           /\ Range(Tail(q)) = Range(q) \ {Head(q)}
           /\ NoRepeats(Tail(q))
<1>1. /\ Tail(q) \in Seq(S)
      /\ Len(q) \in Nat
      /\ Len(q) >= 1
      /\ Len(Tail(q)) = Len(q) - 1
      /\ Head(q) = q[1]
      /\ Head(q) \in S
      /\ \A i \in 1..(Len(q) - 1) : Tail(q)[i] = q[i + 1]
  OBVIOUS
<1>2. DOMAIN q = 1..Len(q) /\ DOMAIN Tail(q) = 1..(Len(q) - 1)
  BY <1>1
<1>3. Head(q) \in Range(q)
  BY <1>1, <1>2 DEF Range
<1>4. Range(Tail(q)) \subseteq Range(q) \ {Head(q)}
  <2>1. \A i \in 1..(Len(q) - 1) : i + 1 \in 1..Len(q) /\ q[i + 1] # q[1]
    BY <1>1 DEF NoRepeats
  <2> QED
    BY <1>1, <1>2, <2>1 DEF Range
<1>5. Range(q) \ {Head(q)} \subseteq Range(Tail(q))
  <2> SUFFICES ASSUME NEW i \in 1..Len(q), q[i] # q[1]
               PROVE  q[i] \in Range(Tail(q))
    BY <1>1, <1>2 DEF Range
  <2>1. i - 1 \in 1..(Len(q) - 1) /\ Tail(q)[i - 1] = q[i]
    BY <1>1
  <2> QED
    BY <1>2, <2>1 DEF Range
<1>6. NoRepeats(Tail(q))
  BY <1>1 DEF NoRepeats
<1> QED
  BY <1>1, <1>3, <1>4, <1>5, <1>6

(* A job joins what waits for the worker.                                  *)
LEMMA JobPushed ==
    ASSUME IInv, NEW x \in 0..MaxJobs, x \notin Range(to_worker),
           to_worker' = Append(to_worker, x)
    PROVE  /\ to_worker' \in Seq(0..MaxJobs)
           /\ Range(to_worker') = Range(to_worker) \cup {x}
           /\ NoRepeats(to_worker')
<1> DEFINE S == 0..MaxJobs
<1>1. to_worker \in Seq(S) /\ x \in S /\ NoRepeats(to_worker)
  BY DEF IInv, TypeOK, QueuesInv
<1> HIDE DEF S
<1>2. /\ to_worker' \in Seq(S)
      /\ Range(to_worker') = Range(to_worker) \cup {x}
      /\ NoRepeats(to_worker')
  BY <1>1, AppendFacts
<1> QED
  BY <1>2 DEF S

(* A job joins the replies of thread t.                                    *)
LEMMA ReplyAppended ==
    ASSUME IInv, NEW t \in Threads, NEW x \in Ids, x \notin Range(from_worker[t]),
           from_worker' = [from_worker EXCEPT ![t] = Append(@, x)]
    PROVE  /\ from_worker' \in [Threads -> Seq(Ids)]
           /\ \A u \in Threads : Range(from_worker'[u]) =
                 IF u = t THEN Range(from_worker[t]) \cup {x} ELSE Range(from_worker[u])
           /\ \A u \in Threads : NoRepeats(from_worker'[u])
<1>1. from_worker \in [Threads -> Seq(Ids)] /\ \A u \in Threads : NoRepeats(from_worker[u])
  BY DEF IInv, TypeOK, QueuesInv
<1>2. from_worker[t] \in Seq(Ids)
  BY <1>1
<1>3. /\ Append(from_worker[t], x) \in Seq(Ids)
      /\ Range(Append(from_worker[t], x)) = Range(from_worker[t]) \cup {x}
      /\ NoRepeats(Append(from_worker[t], x))
  BY <1>1, <1>2, AppendFacts
<1>4. \A u \in Threads : from_worker'[u] =
         IF u = t THEN Append(from_worker[t], x) ELSE from_worker[u]
  BY <1>1
<1> QED
  BY <1>1, <1>3, <1>4

(* The first of the replies of thread t leaves.                            *)
LEMMA ReplyPopped ==
    ASSUME IInv, NEW t \in Threads, from_worker[t] # <<>>,
           from_worker' = [from_worker EXCEPT ![t] = Tail(@)]
    PROVE  /\ Head(from_worker[t]) \in Range(from_worker[t])
           /\ Head(from_worker[t]) \in Ids
           /\ from_worker' \in [Threads -> Seq(Ids)]
           /\ \A u \in Threads : Range(from_worker'[u]) =
                 IF u = t THEN Range(from_worker[t]) \ {Head(from_worker[t])}
                 ELSE Range(from_worker[u])
           /\ \A u \in Threads : NoRepeats(from_worker'[u])
<1>1. from_worker \in [Threads -> Seq(Ids)] /\ \A u \in Threads : NoRepeats(from_worker[u])
  BY DEF IInv, TypeOK, QueuesInv
<1>2. from_worker[t] \in Seq(Ids)
  BY <1>1
<1>3. /\ Tail(from_worker[t]) \in Seq(Ids)
      /\ Head(from_worker[t]) \in Range(from_worker[t])
      /\ Head(from_worker[t]) \in Ids
      /\ Range(Tail(from_worker[t])) = Range(from_worker[t]) \ {Head(from_worker[t])}
      /\ NoRepeats(Tail(from_worker[t]))
  BY <1>1, <1>2, TailFacts
<1>4. \A u \in Threads : from_worker'[u] =
         IF u = t THEN Tail(from_worker[t]) ELSE from_worker[u]
  BY <1>1
<1> QED
  BY <1>1, <1>3, <1>4

(* How often each arg was destroyed, once those of the jobs in S are.      *)
LEMMA ArgsDestroyedFacts ==
    ASSUME TypeOK, NEW S
    PROVE  /\ ArgsDestroyed(S) \in [Ids -> Nat]
           /\ \A j \in Ids : ArgsDestroyed(S)[j] =
                 IF j \in S \cap args THEN destroyed[j] + 1 ELSE destroyed[j]
  BY DEF TypeOK, ArgsDestroyed

-----------------------------------------------------------------------------
(* The initial state, where nothing is submitted.                          *)
LEMMA InitIInv == Init => IInv
<1> SUFFICES ASSUME Init PROVE IInv
  OBVIOUS
<1> USE MaxJobsAssumption DEF Init, InitFrom
<1>1. TypeOK
  BY DEF TypeOK, Threads, Ids, CallStates, WorkerStates
<1>2. Range(<<>>) = {} /\ NoRepeats(<<>>)
  BY DEF Range, NoRepeats
<1>3. QueuesInv /\ SubmittingInv /\ QueuedInv /\ InHandInv
  BY <1>2 DEF QueuesInv, SubmittingInv, Submitting, QueuedInv, InHandInv
<1>4. AnsweredInv /\ FreshInv /\ ArgInv
  BY <1>2 DEF AnsweredInv, Answered, FreshInv, ArgInv
<1>5. ThreadDataInv /\ JobsAccounted
  BY DEF ThreadDataInv, JobsAccounted, Accounted
<1>6. ArgDestroyedOnce /\ CancelledNeverRuns /\ DisposedQueueCancelled
  BY <1>2 DEF ArgDestroyedOnce, CancelledNeverRuns, DisposedQueueCancelled, Ids
<1> QED
  BY <1>1, <1>3, <1>4, <1>5, <1>6 DEF IInv

-----------------------------------------------------------------------------
(* Every step preserves IInv.  In each lemma the first facts are what the  *)
(* step does to one thread and one job; one step per conjunct follows.     *)

LEMMA ExecuteBeginStep ==
    ASSUME IInv, NEW t \in Threads, NEW void \in BOOLEAN, ExecuteBegin(t, void)
    PROVE  IInv'
<1>1. /\ next_job_id \in Ids
      /\ next_job_id \notin heap \cup processed \cup cancelled
      /\ t \in Threads
      /\ disposed = "no"
  BY MaxJobsAssumption DEF IInv, TypeOK, FreshInv, CanCall, Ids, Threads,
     ExecuteBegin
<1>2. /\ next_job_id' = next_job_id + 1
      /\ next_job_id \in Int
      /\ destroyed[next_job_id] = 0
  BY <1>1 DEF IInv, TypeOK, FreshInv, NewJob, ExecuteBegin
<1>3. heap' = heap \cup {next_job_id}
  BY DEF IInv, NewJob, ExecuteBegin
<1>4. args' = args \cup {next_job_id}
  BY DEF IInv, NewJob, ExecuteBegin
<1>5. threads_hash' = threads_hash \cup {t}
  BY DEF IInv, get_thread_data, ExecuteBegin
<1>6. \A j \in Ids : owner'[j] = IF j = next_job_id THEN t ELSE owner[j]
  BY <1>1 DEF IInv, TypeOK, NewJob, ExecuteBegin
<1>7. \A u \in Threads : jobs'[u] = IF u = t THEN jobs[u] \cup {next_job_id} ELSE jobs[u]
  BY <1>1 DEF IInv, TypeOK, NewJob, ExecuteBegin
<1>8. /\ \A u \in Threads : pc'[u] = IF u = t THEN "push" ELSE pc[u]
      /\ \A u \in Threads : call_id'[u] = IF u = t THEN next_job_id ELSE call_id[u]
  BY DEF IInv, TypeOK, ExecuteBegin
<1>9. /\ next_job_id \notin Range(to_worker)
      /\ \A u \in Threads : next_job_id \notin results[u] \cup jobs[u]
  BY <1>1 DEF IInv, QueuedInv, AnsweredInv, Answered, JobsAccounted, Accounted,
     DESTROY, Ids
<1>10. UNCHANGED <<processed, cancelled, to_worker, results, from_worker, blocking,
                   wpc, wjob, disposed, ran, destroyed>>
  BY DEF ExecuteBegin, get_thread_data, NewJob, jobVars, flags, tdVars, workerVars,
     callVars
<1>11. TypeOK'
  <2>1. next_job_id' \in 1..(MaxJobs + 1)
    BY <1>1, MaxJobsAssumption DEF IInv, TypeOK, ExecuteBegin, NewJob,
       get_thread_data, Ids
  <2>2. heap' \subseteq Ids
    BY <1>1, MaxJobsAssumption DEF IInv, TypeOK, ExecuteBegin, NewJob,
       get_thread_data, Ids
  <2>3. owner' \in [Ids -> Threads]
    BY <1>1, MaxJobsAssumption DEF IInv, TypeOK, ExecuteBegin, NewJob,
       get_thread_data, Ids
  <2>4. voids' \subseteq Ids
    BY <1>1, MaxJobsAssumption DEF IInv, TypeOK, ExecuteBegin, NewJob,
       get_thread_data, Ids
  <2>5. args' \subseteq Ids
    BY <1>1, MaxJobsAssumption DEF IInv, TypeOK, ExecuteBegin, NewJob,
       get_thread_data, Ids
  <2>6. threads_hash' \subseteq Threads
    BY <1>1, MaxJobsAssumption DEF IInv, TypeOK, ExecuteBegin, NewJob,
       get_thread_data, Ids
  <2>7. jobs' \in [Threads -> SUBSET Ids]
    BY <1>1, MaxJobsAssumption DEF IInv, TypeOK, ExecuteBegin, NewJob,
       get_thread_data, Ids
  <2>8. pc' \in [Threads -> CallStates]
    BY <1>1, MaxJobsAssumption DEF IInv, TypeOK, ExecuteBegin, NewJob,
       get_thread_data, Ids, CallStates
  <2>9. call_id' \in [Threads -> 0..MaxJobs]
    BY <1>1, MaxJobsAssumption DEF IInv, TypeOK, ExecuteBegin, NewJob,
       get_thread_data, Ids
  <2> QED
    BY <1>10, <2>1, <2>2, <2>3, <2>4, <2>5, <2>6, <2>7, <2>8, <2>9 DEF IInv, TypeOK
<1>12. /\ QueuesInv'
       /\ CancelledNeverRuns'
       /\ DisposedQueueCancelled'
  BY <1>10 DEF IInv, QueuesInv, CancelledNeverRuns, DisposedQueueCancelled
<1>13. SubmittingInv'
  <2> SUFFICES ASSUME NEW u \in Threads, pc'[u] = "push"
           PROVE  Submitting(u)'
    BY DEF SubmittingInv
  <2>1. CASE u = t
    BY <2>1, <1>1, <1>3, <1>6, <1>8, <1>9, <1>10 DEF Submitting
  <2>2. CASE u # t
    <3>1. call_id'[u] = call_id[u] /\ Submitting(u)
      BY <2>2, <1>1, <1>3, <1>6, <1>8, <1>9, <1>10 DEF IInv, SubmittingInv
    <3> QED
      BY <3>1, <1>1, <1>3, <1>6, <1>8, <1>9, <1>10 DEF Submitting
  <2> QED
    BY <2>1, <2>2
<1>14. QueuedInv'
  BY <1>1, <1>3, <1>9, <1>10 DEF IInv, QueuedInv
<1>15. InHandInv'
  BY <1>1, <1>3, <1>9, <1>10 DEF IInv, InHandInv
<1>16. AnsweredInv'
  <2> SUFFICES ASSUME NEW u \in Threads
           PROVE  Answered(u)'
    BY DEF AnsweredInv
  <2>1. Answered(u) /\ heap \subseteq Ids
    BY DEF IInv, TypeOK, AnsweredInv
  <2>2. Range(from_worker'[u]) \cap results'[u] = {}
    BY <2>1, <1>1, <1>3, <1>6, <1>9, <1>10 DEF Answered
  <2>3. ASSUME NEW j \in Range(from_worker'[u]) \cup results'[u]
        PROVE  /\ j \in (heap' \cap processed') \ cancelled'
               /\ owner'[j] = u
               /\ wpc' \in {"popped", "run"} => j # wjob'
    <3>1. CASE u = t
      BY <3>1, <2>1, <1>1, <1>3, <1>6, <1>9, <1>10 DEF Answered
    <3>2. CASE u # t
      BY <3>2, <2>1, <1>1, <1>3, <1>6, <1>9, <1>10 DEF Answered
    <3> QED
      BY <3>1, <3>2
  <2> QED
    BY <2>2, <2>3 DEF Answered
<1>17. FreshInv'
  <2>1. /\ next_job_id \in Int /\ \A j \in Ids : j \in Int
        /\ heap \cup processed \cup cancelled \subseteq Ids
        /\ FreshInv
    BY DEF IInv, TypeOK, Ids
  <2>2. ASSUME NEW j \in heap' \cup processed' \cup cancelled'
        PROVE  j < next_job_id'
    <3>1. j \in Ids /\ (j < next_job_id \/ j = next_job_id)
      BY <2>1, <1>1, <1>2, <1>3, <1>9, <1>10 DEF FreshInv
    <3> QED
      BY <2>1, <3>1, <1>2
  <2>3. ASSUME NEW j \in Ids, j >= next_job_id'
        PROVE  destroyed'[j] = 0
    BY <2>1, <2>3, <1>1, <1>2, <1>3, <1>9, <1>10 DEF FreshInv
  <2>4. ASSUME NEW j \in Ids, j \notin processed'
        PROVE  ran'[j] = 0
    BY <2>1, <2>4, <1>1, <1>2, <1>3, <1>9, <1>10 DEF FreshInv
  <2> QED
    BY <2>2, <2>3, <2>4 DEF FreshInv
<1>18. ArgInv'
  BY <1>1, <1>3, <1>4, <1>9, <1>10 DEF IInv, ArgInv
<1>19. ThreadDataInv'
  BY <1>1, <1>5, <1>7, <1>8, <1>9, <1>10 DEF IInv, ThreadDataInv
<1>20. JobsAccounted'
  <2> SUFFICES ASSUME disposed' # "yes", NEW u \in Threads
           PROVE  Accounted(u)'
    BY DEF JobsAccounted, Accounted
  <2>1. Accounted(u) /\ heap \subseteq Ids
    BY <1>1, <1>3, <1>5, <1>6, <1>7, <1>9, <1>10 DEF IInv, TypeOK, JobsAccounted
  <2>2. ASSUME NEW j \in Ids
        PROVE  j \in jobs'[u] <=>
                  j \in heap' \ (results'[u] \cup cancelled') /\ owner'[j] = u
    <3>1. CASE u = t /\ j = next_job_id
      BY <3>1, <2>1, <1>1, <1>3, <1>5, <1>6, <1>7, <1>9, <1>10 DEF Accounted
    <3>2. CASE u = t /\ j # next_job_id
      <4>1. j \in jobs[u] <=>
               j \in heap \ (results[u] \cup cancelled) /\ owner[j] = u
        BY <2>1 DEF Accounted
      <4>2. (j \in jobs'[u] <=> j \in jobs[u]) /\ owner'[j] = owner[j]
        BY <3>2, <1>6, <1>7
      <4> QED
        BY <3>2, <4>1, <4>2, <1>3, <1>10
    <3>3. CASE u # t
      BY <3>3, <2>1, <1>1, <1>3, <1>5, <1>6, <1>7, <1>9, <1>10 DEF Accounted
    <3> QED
      BY <3>1, <3>2, <3>3
  <2>3. ASSUME NEW j \in results'[u]
        PROVE  owner'[j] = u /\ j \in heap'
    <3>1. CASE u = t
      BY <3>1, <2>1, <1>1, <1>3, <1>5, <1>6, <1>7, <1>9, <1>10 DEF Accounted
    <3>2. CASE u # t
      BY <3>2, <2>1, <1>1, <1>3, <1>5, <1>6, <1>7, <1>9, <1>10 DEF Accounted
    <3> QED
      BY <3>1, <3>2
  <2>4. jobs'[u] \cup results'[u] # {} => u \in threads_hash'
    BY <2>1, <1>1, <1>3, <1>5, <1>6, <1>7, <1>9, <1>10 DEF Accounted
  <2> QED
    BY <2>2, <2>3, <2>4 DEF Accounted
<1>21. ArgDestroyedOnce'
  <2> SUFFICES ASSUME NEW j \in Ids
           PROVE  ArgDestroyed(j)'
    BY DEF ArgDestroyedOnce, ArgDestroyed
  <2>1. /\ ArgDestroyed(j)
        /\ destroyed[j] \in Nat /\ next_job_id \in Int /\ j \in Int
        /\ j \in heap => (j \in args <=> j \notin cancelled)
        /\ j \in heap \cup cancelled => j < next_job_id
        /\ j >= next_job_id => destroyed[j] = 0
    BY DEF IInv, TypeOK, ArgDestroyedOnce, ArgDestroyed, ArgInv, FreshInv, Ids
  <2> QED
    BY <2>1, <1>1, <1>2, <1>3, <1>9, <1>10 DEF ArgDestroyed
<1> QED
  BY <1>11, <1>12, <1>13, <1>14, <1>15, <1>16, <1>17, <1>18, <1>19, <1>20, <1>21 DEF
     IInv

LEMMA ExecutePushStep ==
    ASSUME IInv, NEW t \in Threads, ExecutePush(t)
    PROVE  IInv'
<1>1. Submitting(t)
  BY DEF IInv, SubmittingInv, ExecutePush
<1>2. /\ disposed = "no"
      /\ call_id[t] \in Ids
      /\ call_id[t] \in heap \ (processed \cup cancelled)
      /\ call_id[t] \notin Range(to_worker)
      /\ call_id[t] # DESTROY
      /\ owner[call_id[t]] = t
  BY <1>1 DEF IInv, Submitting, Ids, DESTROY
<1>3. /\ to_worker \in Seq(0..MaxJobs)
      /\ call_id[t] \in 0..MaxJobs
      /\ to_worker' = Append(to_worker, call_id[t])
  BY DEF IInv, TypeOK, ExecutePush, Pushed
<1>4. /\ to_worker' \in Seq(0..MaxJobs)
      /\ Range(to_worker') = Range(to_worker) \cup {call_id[t]}
      /\ NoRepeats(to_worker')
  BY <1>2, <1>3, JobPushed DEF IInv
<1>5. \A u \in Threads : pc'[u] = "push" => u # t /\ pc[u] = "push" /\ call_id'[u] = call_id[u]
  BY DEF IInv, TypeOK, ExecutePush, Return
<1>6. UNCHANGED <<next_job_id, heap, owner, voids, processed, cancelled, args,
                  threads_hash, jobs, results, from_worker, wpc, wjob, disposed,
                  ran, destroyed>>
  BY DEF ExecutePush, Return, jobVars, flags, tdVars, workerVars, callVars
<1>7. TypeOK'
  <2>1. to_worker' \in Seq(0..MaxJobs)
    BY <1>4 DEF IInv, TypeOK
  <2>2. pc' \in [Threads -> CallStates]
    BY DEF IInv, TypeOK, ExecutePush, Return, CallStates
  <2>3. call_id' \in [Threads -> 0..MaxJobs]
    BY MaxJobsAssumption DEF IInv, TypeOK, ExecutePush, Return
  <2>4. blocking' \subseteq Threads
    BY DEF IInv, TypeOK, ExecutePush, Return
  <2> QED
    BY <1>6, <2>1, <2>2, <2>3, <2>4 DEF IInv, TypeOK
<1>8. /\ InHandInv'
      /\ AnsweredInv'
      /\ FreshInv'
      /\ ArgInv'
      /\ JobsAccounted'
      /\ ArgDestroyedOnce'
      /\ CancelledNeverRuns'
  BY <1>6 DEF IInv, InHandInv, AnsweredInv, FreshInv, ArgInv, JobsAccounted,
     ArgDestroyedOnce, CancelledNeverRuns, Answered, Accounted
<1>9. QueuesInv'
  BY <1>1, <1>2, <1>3, <1>4, <1>6 DEF IInv, QueuesInv
<1>10. SubmittingInv'
  <2> SUFFICES ASSUME NEW u \in Threads, pc'[u] = "push"
           PROVE  Submitting(u)'
    BY DEF SubmittingInv
  <2>1. pc[u] = "push" /\ call_id'[u] = call_id[u] /\ Submitting(u)
    BY <1>1, <1>2, <1>3, <1>4, <1>5, <1>6 DEF IInv, SubmittingInv
  <2> QED
    BY <2>1, <1>1, <1>2, <1>3, <1>4, <1>5, <1>6 DEF Submitting
<1>11. QueuedInv'
  BY <1>1, <1>2, <1>3, <1>4, <1>6 DEF IInv, QueuedInv
<1>12. ThreadDataInv'
  BY <1>1, <1>2, <1>5, <1>6 DEF IInv, ThreadDataInv
<1>13. DisposedQueueCancelled'
  BY <1>1, <1>2, <1>3, <1>4, <1>6 DEF IInv, DisposedQueueCancelled
<1> QED
  BY <1>7, <1>8, <1>9, <1>10, <1>11, <1>12, <1>13 DEF IInv

LEMMA ExecuteInWorkerStep ==
    ASSUME IInv, NEW void \in BOOLEAN, ExecuteInWorker(void)
    PROVE  IInv'
<1>1. /\ next_job_id \in Ids
      /\ next_job_id \notin heap \cup processed \cup cancelled
      /\ Worker \in Threads
      /\ disposed = "no"
  BY MaxJobsAssumption DEF IInv, TypeOK, FreshInv, CanCall, Ids, Threads,
     ExecuteInWorker
<1>2. /\ next_job_id' = next_job_id + 1
      /\ next_job_id \in Int
      /\ destroyed[next_job_id] = 0
  BY <1>1 DEF IInv, TypeOK, FreshInv, NewJob, ExecuteInWorker
<1>3. heap' = heap \cup {next_job_id}
  BY DEF IInv, NewJob, ExecuteInWorker
<1>4. args' = args \cup {next_job_id}
  BY DEF IInv, NewJob, ExecuteInWorker
<1>5. threads_hash' = threads_hash \cup {Worker}
  BY DEF IInv, get_thread_data, ExecuteInWorker
<1>6. \A j \in Ids : owner'[j] = IF j = next_job_id THEN Worker ELSE owner[j]
  BY <1>1 DEF IInv, TypeOK, NewJob, ExecuteInWorker
<1>7. \A u \in Threads : jobs'[u] = IF u = Worker THEN jobs[u] \cup {next_job_id} ELSE jobs[u]
  BY <1>1 DEF IInv, TypeOK, NewJob, ExecuteInWorker
<1>8. /\ processed' = processed \cup {next_job_id}
      /\ \A j \in Ids : ran'[j] = IF j = next_job_id THEN 1 ELSE ran[j]
  BY <1>1 DEF IInv, TypeOK, FreshInv, ExecuteInWorker
<1>9. /\ next_job_id \notin Range(to_worker)
      /\ wpc = "run" /\ wjob \in Ids /\ next_job_id # wjob
      /\ \A u \in Threads : next_job_id \notin results[u] \cup jobs[u] \cup Range(from_worker[u])
  BY <1>1 DEF IInv, TypeOK, QueuedInv, AnsweredInv, Answered, JobsAccounted,
     Accounted, InHandInv, ExecuteInWorker, CanCall, DESTROY, Ids
<1>10. /\ from_worker' \in [Threads -> Seq(Ids)]
       /\ \A u \in Threads : Range(from_worker'[u]) =
             IF u = Worker THEN Range(from_worker[Worker]) \cup {next_job_id} ELSE Range(from_worker[u])
       /\ \A u \in Threads : NoRepeats(from_worker'[u])
  BY <1>1, <1>9, ReplyAppended DEF IInv, ExecuteInWorker
<1>11. UNCHANGED <<cancelled, to_worker, results, pc, call_id, blocking, wpc, wjob,
                   disposed, destroyed>>
  BY DEF ExecuteInWorker, get_thread_data, NewJob, jobVars, flags, tdVars,
     workerVars, callVars
<1>12. TypeOK'
  <2>1. next_job_id' \in 1..(MaxJobs + 1)
    BY <1>1, MaxJobsAssumption DEF IInv, TypeOK, ExecuteInWorker, NewJob,
       get_thread_data, Ids
  <2>2. heap' \subseteq Ids
    BY <1>1, MaxJobsAssumption DEF IInv, TypeOK, ExecuteInWorker, NewJob,
       get_thread_data, Ids
  <2>3. owner' \in [Ids -> Threads]
    BY <1>1, MaxJobsAssumption DEF IInv, TypeOK, ExecuteInWorker, NewJob,
       get_thread_data, Ids
  <2>4. voids' \subseteq Ids
    BY <1>1, MaxJobsAssumption DEF IInv, TypeOK, ExecuteInWorker, NewJob,
       get_thread_data, Ids
  <2>5. processed' \subseteq Ids
    BY <1>1, MaxJobsAssumption DEF IInv, TypeOK, ExecuteInWorker, NewJob,
       get_thread_data, Ids
  <2>6. args' \subseteq Ids
    BY <1>1, MaxJobsAssumption DEF IInv, TypeOK, ExecuteInWorker, NewJob,
       get_thread_data, Ids
  <2>7. threads_hash' \subseteq Threads
    BY <1>1, MaxJobsAssumption DEF IInv, TypeOK, ExecuteInWorker, NewJob,
       get_thread_data, Ids
  <2>8. jobs' \in [Threads -> SUBSET Ids]
    BY <1>1, MaxJobsAssumption DEF IInv, TypeOK, ExecuteInWorker, NewJob,
       get_thread_data, Ids
  <2>9. from_worker' \in [Threads -> Seq(Ids)]
    BY <1>10 DEF IInv, TypeOK
  <2>10. ran' \in [Ids -> Nat]
    BY <1>1 DEF IInv, TypeOK, ExecuteInWorker
  <2> QED
    BY <1>11, <2>1, <2>2, <2>3, <2>4, <2>5, <2>6, <2>7, <2>8, <2>9, <2>10 DEF IInv,
       TypeOK
<1>13. DisposedQueueCancelled'
  BY <1>11 DEF IInv, DisposedQueueCancelled
<1>14. QueuesInv'
  BY <1>1, <1>9, <1>10, <1>11 DEF IInv, QueuesInv
<1>15. SubmittingInv'
  <2> SUFFICES ASSUME NEW u \in Threads, pc'[u] = "push"
           PROVE  Submitting(u)'
    BY DEF SubmittingInv
  <2>1. pc[u] = "push" /\ call_id'[u] = call_id[u] /\ Submitting(u)
    BY <1>1, <1>3, <1>6, <1>8, <1>9, <1>11 DEF IInv, SubmittingInv
  <2> QED
    BY <2>1, <1>1, <1>3, <1>6, <1>8, <1>9, <1>11 DEF Submitting
<1>16. QueuedInv'
  BY <1>1, <1>3, <1>8, <1>9, <1>11 DEF IInv, QueuedInv
<1>17. InHandInv'
  BY <1>1, <1>3, <1>8, <1>9, <1>11 DEF IInv, InHandInv
<1>18. AnsweredInv'
  <2> SUFFICES ASSUME NEW u \in Threads
           PROVE  Answered(u)'
    BY DEF AnsweredInv
  <2>1. Answered(u) /\ heap \subseteq Ids
    BY DEF IInv, TypeOK, AnsweredInv
  <2>2. Range(from_worker'[u]) \cap results'[u] = {}
    BY <2>1, <1>1, <1>3, <1>6, <1>8, <1>9, <1>10, <1>11 DEF Answered
  <2>3. ASSUME NEW j \in Range(from_worker'[u]) \cup results'[u]
        PROVE  /\ j \in (heap' \cap processed') \ cancelled'
               /\ owner'[j] = u
               /\ wpc' \in {"popped", "run"} => j # wjob'
    <3>1. CASE u = Worker
      BY <3>1, <2>1, <1>1, <1>3, <1>6, <1>8, <1>9, <1>10, <1>11 DEF Answered
    <3>2. CASE u # Worker
      BY <3>2, <2>1, <1>1, <1>3, <1>6, <1>8, <1>9, <1>10, <1>11 DEF Answered
    <3> QED
      BY <3>1, <3>2
  <2> QED
    BY <2>2, <2>3 DEF Answered
<1>19. FreshInv'
  <2>1. /\ next_job_id \in Int /\ \A j \in Ids : j \in Int
        /\ heap \cup processed \cup cancelled \subseteq Ids
        /\ FreshInv
    BY DEF IInv, TypeOK, Ids
  <2>2. ASSUME NEW j \in heap' \cup processed' \cup cancelled'
        PROVE  j < next_job_id'
    <3>1. j \in Ids /\ (j < next_job_id \/ j = next_job_id)
      BY <2>1, <1>1, <1>2, <1>3, <1>8, <1>9, <1>11 DEF FreshInv
    <3> QED
      BY <2>1, <3>1, <1>2
  <2>3. ASSUME NEW j \in Ids, j >= next_job_id'
        PROVE  destroyed'[j] = 0
    BY <2>1, <2>3, <1>1, <1>2, <1>3, <1>8, <1>9, <1>11 DEF FreshInv
  <2>4. ASSUME NEW j \in Ids, j \notin processed'
        PROVE  ran'[j] = 0
    BY <2>1, <2>4, <1>1, <1>2, <1>3, <1>8, <1>9, <1>11 DEF FreshInv
  <2> QED
    BY <2>2, <2>3, <2>4 DEF FreshInv
<1>20. ArgInv'
  BY <1>1, <1>3, <1>4, <1>9, <1>11 DEF IInv, ArgInv
<1>21. ThreadDataInv'
  BY <1>1, <1>5, <1>7, <1>9, <1>11 DEF IInv, ThreadDataInv
<1>22. JobsAccounted'
  <2> SUFFICES ASSUME disposed' # "yes", NEW u \in Threads
           PROVE  Accounted(u)'
    BY DEF JobsAccounted, Accounted
  <2>1. Accounted(u) /\ heap \subseteq Ids
    BY <1>1, <1>3, <1>5, <1>6, <1>7, <1>9, <1>11 DEF IInv, TypeOK, JobsAccounted
  <2>2. ASSUME NEW j \in Ids
        PROVE  j \in jobs'[u] <=>
                  j \in heap' \ (results'[u] \cup cancelled') /\ owner'[j] = u
    <3>1. CASE u = Worker /\ j = next_job_id
      BY <3>1, <2>1, <1>1, <1>3, <1>5, <1>6, <1>7, <1>9, <1>11 DEF Accounted
    <3>2. CASE u = Worker /\ j # next_job_id
      <4>1. j \in jobs[u] <=>
               j \in heap \ (results[u] \cup cancelled) /\ owner[j] = u
        BY <2>1 DEF Accounted
      <4>2. (j \in jobs'[u] <=> j \in jobs[u]) /\ owner'[j] = owner[j]
        BY <3>2, <1>6, <1>7
      <4> QED
        BY <3>2, <4>1, <4>2, <1>3, <1>11
    <3>3. CASE u # Worker
      BY <3>3, <2>1, <1>1, <1>3, <1>5, <1>6, <1>7, <1>9, <1>11 DEF Accounted
    <3> QED
      BY <3>1, <3>2, <3>3
  <2>3. ASSUME NEW j \in results'[u]
        PROVE  owner'[j] = u /\ j \in heap'
    <3>1. CASE u = Worker
      BY <3>1, <2>1, <1>1, <1>3, <1>5, <1>6, <1>7, <1>9, <1>11 DEF Accounted
    <3>2. CASE u # Worker
      BY <3>2, <2>1, <1>1, <1>3, <1>5, <1>6, <1>7, <1>9, <1>11 DEF Accounted
    <3> QED
      BY <3>1, <3>2
  <2>4. jobs'[u] \cup results'[u] # {} => u \in threads_hash'
    BY <2>1, <1>1, <1>3, <1>5, <1>6, <1>7, <1>9, <1>11 DEF Accounted
  <2> QED
    BY <2>2, <2>3, <2>4 DEF Accounted
<1>23. ArgDestroyedOnce'
  <2> SUFFICES ASSUME NEW j \in Ids
           PROVE  ArgDestroyed(j)'
    BY DEF ArgDestroyedOnce, ArgDestroyed
  <2>1. /\ ArgDestroyed(j)
        /\ destroyed[j] \in Nat /\ next_job_id \in Int /\ j \in Int
        /\ j \in heap => (j \in args <=> j \notin cancelled)
        /\ j \in heap \cup cancelled => j < next_job_id
        /\ j >= next_job_id => destroyed[j] = 0
    BY DEF IInv, TypeOK, ArgDestroyedOnce, ArgDestroyed, ArgInv, FreshInv, Ids
  <2> QED
    BY <2>1, <1>1, <1>2, <1>3, <1>9, <1>11 DEF ArgDestroyed
<1>24. CancelledNeverRuns'
  BY <1>1, <1>8, <1>9, <1>11 DEF IInv, CancelledNeverRuns
<1> QED
  BY <1>12, <1>13, <1>14, <1>15, <1>16, <1>17, <1>18, <1>19, <1>20, <1>21, <1>22,
     <1>23, <1>24 DEF IInv

LEMMA CancelStep ==
    ASSUME IInv, NEW t \in Threads, NEW id \in Ids, Cancel(t, id)
    PROVE  IInv'
<1>1. /\ disposed = "no"
      /\ pc[t] = "idle"
      /\ id \in (heap \cap args) \ (processed \cup cancelled)
      /\ owner[id] = t
      /\ ran[id] = 0
  BY DEF IInv, Cancel, CanCall, NotTaken, JobsAccounted, Accounted, ArgInv, FreshInv
<1>2. /\ cancelled' = cancelled \cup {id}
      /\ args' = args \ {id}
  BY DEF IInv, Cancel, ClearedArgs
<1>3. /\ destroyed' \in [Ids -> Nat]
      /\ \A j \in Ids : destroyed'[j] = IF j = id THEN destroyed[j] + 1 ELSE destroyed[j]
  BY <1>1, ArgsDestroyedFacts DEF IInv, Cancel
<1>4. \A u \in Threads : jobs'[u] = IF u = t THEN jobs[u] \ {id} ELSE jobs[u]
  BY DEF IInv, TypeOK, Cancel
<1>5. UNCHANGED <<next_job_id, heap, owner, voids, processed, to_worker,
                  threads_hash, results, from_worker, pc, call_id, blocking, wpc,
                  wjob, disposed, ran>>
  BY DEF Cancel, jobVars, flags, tdVars, workerVars, callVars
<1>6. TypeOK'
  <2>1. cancelled' \subseteq Ids
    BY <1>2 DEF IInv, TypeOK
  <2>2. args' \subseteq Ids
    BY <1>2 DEF IInv, TypeOK
  <2>3. destroyed' \in [Ids -> Nat]
    BY <1>3 DEF IInv, TypeOK
  <2>4. jobs' \in [Threads -> SUBSET Ids]
    BY DEF IInv, TypeOK, Cancel
  <2> QED
    BY <1>5, <2>1, <2>2, <2>3, <2>4 DEF IInv, TypeOK
<1>7. /\ QueuesInv'
      /\ QueuedInv'
  BY <1>5 DEF IInv, QueuesInv, QueuedInv
<1>8. SubmittingInv'
  <2> SUFFICES ASSUME NEW u \in Threads, pc'[u] = "push"
           PROVE  Submitting(u)'
    BY DEF SubmittingInv
  <2>1. pc[u] = "push" /\ call_id'[u] = call_id[u] /\ Submitting(u)
    BY <1>1, <1>2, <1>5 DEF IInv, SubmittingInv
  <2> QED
    BY <2>1, <1>1, <1>2, <1>5 DEF Submitting
<1>9. InHandInv'
  BY <1>1, <1>2, <1>5 DEF IInv, InHandInv
<1>10. AnsweredInv'
  <2> SUFFICES ASSUME NEW u \in Threads
           PROVE  Answered(u)'
    BY DEF AnsweredInv
  <2>1. Answered(u) /\ heap \subseteq Ids
    BY DEF IInv, TypeOK, AnsweredInv
  <2>2. Range(from_worker'[u]) \cap results'[u] = {}
    BY <2>1, <1>1, <1>2, <1>5 DEF Answered
  <2>3. ASSUME NEW j \in Range(from_worker'[u]) \cup results'[u]
        PROVE  /\ j \in (heap' \cap processed') \ cancelled'
               /\ owner'[j] = u
               /\ wpc' \in {"popped", "run"} => j # wjob'
    BY <2>1, <1>1, <1>2, <1>5 DEF Answered
  <2> QED
    BY <2>2, <2>3 DEF Answered
<1>11. FreshInv'
  <2>1. /\ next_job_id \in Int /\ \A j \in Ids : j \in Int
        /\ heap \cup processed \cup cancelled \subseteq Ids
        /\ FreshInv
    BY DEF IInv, TypeOK, Ids
  <2>2. \A j \in heap' \cup processed' \cup cancelled' : j < next_job_id'
    BY <2>1, <1>1, <1>2, <1>3, <1>5 DEF FreshInv
  <2>3. ASSUME NEW j \in Ids, j >= next_job_id'
        PROVE  destroyed'[j] = 0
    BY <2>1, <2>3, <1>1, <1>2, <1>3, <1>5 DEF FreshInv
  <2>4. ASSUME NEW j \in Ids, j \notin processed'
        PROVE  ran'[j] = 0
    BY <2>1, <2>4, <1>1, <1>2, <1>3, <1>5 DEF FreshInv
  <2> QED
    BY <2>2, <2>3, <2>4 DEF FreshInv
<1>12. ArgInv'
  BY <1>1, <1>2, <1>5 DEF IInv, ArgInv
<1>13. ThreadDataInv'
  BY <1>1, <1>4, <1>5 DEF IInv, ThreadDataInv
<1>14. JobsAccounted'
  <2> SUFFICES ASSUME disposed' # "yes", NEW u \in Threads
           PROVE  Accounted(u)'
    BY DEF JobsAccounted, Accounted
  <2>1. Accounted(u) /\ heap \subseteq Ids
    BY <1>1, <1>2, <1>4, <1>5 DEF IInv, TypeOK, JobsAccounted
  <2>2. ASSUME NEW j \in Ids
        PROVE  j \in jobs'[u] <=>
                  j \in heap' \ (results'[u] \cup cancelled') /\ owner'[j] = u
    BY <2>1, <1>1, <1>2, <1>4, <1>5 DEF Accounted
  <2>3. ASSUME NEW j \in results'[u]
        PROVE  owner'[j] = u /\ j \in heap'
    BY <2>1, <1>1, <1>2, <1>4, <1>5 DEF Accounted
  <2>4. jobs'[u] \cup results'[u] # {} => u \in threads_hash'
    BY <2>1, <1>1, <1>2, <1>4, <1>5 DEF Accounted
  <2> QED
    BY <2>2, <2>3, <2>4 DEF Accounted
<1>15. ArgDestroyedOnce'
  <2> SUFFICES ASSUME NEW j \in Ids
           PROVE  ArgDestroyed(j)'
    BY DEF ArgDestroyedOnce, ArgDestroyed
  <2>1. /\ ArgDestroyed(j)
        /\ destroyed[j] \in Nat /\ next_job_id \in Int /\ j \in Int
        /\ j \in heap => (j \in args <=> j \notin cancelled)
        /\ j \in heap \cup cancelled => j < next_job_id
        /\ j >= next_job_id => destroyed[j] = 0
    BY DEF IInv, TypeOK, ArgDestroyedOnce, ArgDestroyed, ArgInv, FreshInv, Ids
  <2> QED
    BY <2>1, <1>1, <1>2, <1>3, <1>5 DEF ArgDestroyed
<1>16. CancelledNeverRuns'
  BY <1>1, <1>2, <1>5 DEF IInv, CancelledNeverRuns
<1>17. DisposedQueueCancelled'
  BY <1>1, <1>2, <1>5 DEF IInv, DisposedQueueCancelled
<1> QED
  BY <1>6, <1>7, <1>8, <1>9, <1>10, <1>11, <1>12, <1>13, <1>14, <1>15, <1>16, <1>17
     DEF IInv

LEMMA IterateStep ==
    ASSUME IInv, NEW t \in Threads, NEW may \in BOOLEAN, Iterate(t, may)
    PROVE  IInv'
<1>1. disposed = "no"
  BY DEF IInv, TypeOK, ThreadDataInv, CanCall, Iterating, Iterate
<1>2. \A u \in Threads : pc'[u] = "push" => pc[u] = "push" /\ call_id'[u] = call_id[u]
  BY DEF IInv, TypeOK, Iterate
<1>3. UNCHANGED <<next_job_id, heap, owner, voids, processed, cancelled, args,
                  to_worker, threads_hash, jobs, results, from_worker, call_id,
                  wpc, wjob, disposed, ran, destroyed>>
  BY DEF Iterate, jobVars, flags, tdVars, workerVars, callVars
<1>4. TypeOK'
  <2>1. pc' \in [Threads -> CallStates]
    BY DEF IInv, TypeOK, Iterate, CallStates
  <2>2. blocking' \subseteq Threads
    BY DEF IInv, TypeOK, Iterate
  <2> QED
    BY <1>3, <2>1, <2>2 DEF IInv, TypeOK
<1>5. /\ QueuesInv'
      /\ QueuedInv'
      /\ InHandInv'
      /\ AnsweredInv'
      /\ FreshInv'
      /\ ArgInv'
      /\ JobsAccounted'
      /\ ArgDestroyedOnce'
      /\ CancelledNeverRuns'
      /\ DisposedQueueCancelled'
  BY <1>3 DEF IInv, QueuesInv, QueuedInv, InHandInv, AnsweredInv, FreshInv, ArgInv,
     JobsAccounted, ArgDestroyedOnce, CancelledNeverRuns, DisposedQueueCancelled,
     Answered, Accounted
<1>6. SubmittingInv'
  <2> SUFFICES ASSUME NEW u \in Threads, pc'[u] = "push"
           PROVE  Submitting(u)'
    BY DEF SubmittingInv
  <2>1. pc[u] = "push" /\ call_id'[u] = call_id[u] /\ Submitting(u)
    BY <1>1, <1>2, <1>3 DEF IInv, SubmittingInv
  <2> QED
    BY <2>1, <1>1, <1>2, <1>3 DEF Submitting
<1>7. ThreadDataInv'
  BY <1>1, <1>2, <1>3 DEF IInv, ThreadDataInv
<1> QED
  BY <1>4, <1>5, <1>6, <1>7 DEF IInv

LEMMA FetchResultStep ==
    ASSUME IInv, NEW t \in Threads, NEW may \in BOOLEAN, NEW id \in Ids, FetchResult(t, may, id)
    PROVE  IInv'
<1>1. disposed = "no"
  BY DEF IInv, TypeOK, ThreadDataInv, CanCall, Iterating, FetchResult
<1>2. \A u \in Threads : pc'[u] = "push" => pc[u] = "push" /\ call_id'[u] = call_id[u]
  BY DEF IInv, TypeOK, FetchResult
<1>3. UNCHANGED <<next_job_id, heap, owner, voids, processed, cancelled, args,
                  to_worker, threads_hash, jobs, results, from_worker, wpc, wjob,
                  disposed, ran, destroyed>>
  BY DEF FetchResult, jobVars, flags, tdVars, workerVars, callVars
<1>4. TypeOK'
  <2>1. pc' \in [Threads -> CallStates]
    BY DEF IInv, TypeOK, FetchResult, CallStates
  <2>2. call_id' \in [Threads -> 0..MaxJobs]
    BY MaxJobsAssumption DEF IInv, TypeOK, FetchResult, Ids
  <2>3. blocking' \subseteq Threads
    BY DEF IInv, TypeOK, FetchResult
  <2> QED
    BY <1>3, <2>1, <2>2, <2>3 DEF IInv, TypeOK
<1>5. /\ QueuesInv'
      /\ QueuedInv'
      /\ InHandInv'
      /\ AnsweredInv'
      /\ FreshInv'
      /\ ArgInv'
      /\ JobsAccounted'
      /\ ArgDestroyedOnce'
      /\ CancelledNeverRuns'
      /\ DisposedQueueCancelled'
  BY <1>3 DEF IInv, QueuesInv, QueuedInv, InHandInv, AnsweredInv, FreshInv, ArgInv,
     JobsAccounted, ArgDestroyedOnce, CancelledNeverRuns, DisposedQueueCancelled,
     Answered, Accounted
<1>6. SubmittingInv'
  <2> SUFFICES ASSUME NEW u \in Threads, pc'[u] = "push"
           PROVE  Submitting(u)'
    BY DEF SubmittingInv
  <2>1. pc[u] = "push" /\ call_id'[u] = call_id[u] /\ Submitting(u)
    BY <1>1, <1>2, <1>3 DEF IInv, SubmittingInv
  <2> QED
    BY <2>1, <1>1, <1>2, <1>3 DEF Submitting
<1>7. ThreadDataInv'
  BY <1>1, <1>2, <1>3 DEF IInv, ThreadDataInv
<1> QED
  BY <1>4, <1>5, <1>6, <1>7 DEF IInv

LEMMA IterateEmptyStep ==
    ASSUME IInv, NEW t \in Threads, IterateEmpty(t)
    PROVE  IInv'
<1>1. disposed = "no"
  BY DEF IInv, TypeOK, ThreadDataInv, CanCall, Iterating, IterateEmpty, Return
<1>2. \A u \in Threads : pc'[u] = "push" => pc[u] = "push" /\ call_id'[u] = call_id[u]
  BY DEF IInv, TypeOK, IterateEmpty, Return
<1>3. UNCHANGED <<next_job_id, heap, owner, voids, processed, cancelled, args,
                  to_worker, threads_hash, jobs, results, from_worker, wpc, wjob,
                  disposed, ran, destroyed>>
  BY DEF IterateEmpty, Return, jobVars, flags, tdVars, workerVars, callVars
<1>4. TypeOK'
  <2>1. pc' \in [Threads -> CallStates]
    BY DEF IInv, TypeOK, IterateEmpty, Return, CallStates
  <2>2. call_id' \in [Threads -> 0..MaxJobs]
    BY MaxJobsAssumption DEF IInv, TypeOK, IterateEmpty, Return, Ids
  <2>3. blocking' \subseteq Threads
    BY DEF IInv, TypeOK, IterateEmpty, Return
  <2> QED
    BY <1>3, <2>1, <2>2, <2>3 DEF IInv, TypeOK
<1>5. /\ QueuesInv'
      /\ QueuedInv'
      /\ InHandInv'
      /\ AnsweredInv'
      /\ FreshInv'
      /\ ArgInv'
      /\ JobsAccounted'
      /\ ArgDestroyedOnce'
      /\ CancelledNeverRuns'
      /\ DisposedQueueCancelled'
  BY <1>3 DEF IInv, QueuesInv, QueuedInv, InHandInv, AnsweredInv, FreshInv, ArgInv,
     JobsAccounted, ArgDestroyedOnce, CancelledNeverRuns, DisposedQueueCancelled,
     Answered, Accounted
<1>6. SubmittingInv'
  <2> SUFFICES ASSUME NEW u \in Threads, pc'[u] = "push"
           PROVE  Submitting(u)'
    BY DEF SubmittingInv
  <2>1. pc[u] = "push" /\ call_id'[u] = call_id[u] /\ Submitting(u)
    BY <1>1, <1>2, <1>3 DEF IInv, SubmittingInv
  <2> QED
    BY <2>1, <1>1, <1>2, <1>3 DEF Submitting
<1>7. ThreadDataInv'
  BY <1>1, <1>2, <1>3 DEF IInv, ThreadDataInv
<1> QED
  BY <1>4, <1>5, <1>6, <1>7 DEF IInv

LEMMA FetchNotFoundStep ==
    ASSUME IInv, NEW t \in Threads, FetchNotFound(t)
    PROVE  IInv'
<1>1. disposed = "no"
  BY DEF IInv, TypeOK, ThreadDataInv, CanCall, Iterating, FetchNotFound
<1>2. \A u \in Threads : pc'[u] = "push" => pc[u] = "push" /\ call_id'[u] = call_id[u]
  BY DEF IInv, TypeOK, FetchNotFound
<1>3. UNCHANGED <<next_job_id, heap, owner, voids, processed, cancelled, args,
                  to_worker, threads_hash, jobs, results, from_worker, call_id,
                  blocking, wpc, wjob, disposed, ran, destroyed>>
  BY DEF FetchNotFound, jobVars, flags, tdVars, workerVars, callVars
<1>4. TypeOK'
  <2>1. pc' \in [Threads -> CallStates]
    BY DEF IInv, TypeOK, FetchNotFound, CallStates
  <2> QED
    BY <1>3, <2>1 DEF IInv, TypeOK
<1>5. /\ QueuesInv'
      /\ QueuedInv'
      /\ InHandInv'
      /\ AnsweredInv'
      /\ FreshInv'
      /\ ArgInv'
      /\ JobsAccounted'
      /\ ArgDestroyedOnce'
      /\ CancelledNeverRuns'
      /\ DisposedQueueCancelled'
  BY <1>3 DEF IInv, QueuesInv, QueuedInv, InHandInv, AnsweredInv, FreshInv, ArgInv,
     JobsAccounted, ArgDestroyedOnce, CancelledNeverRuns, DisposedQueueCancelled,
     Answered, Accounted
<1>6. SubmittingInv'
  <2> SUFFICES ASSUME NEW u \in Threads, pc'[u] = "push"
           PROVE  Submitting(u)'
    BY DEF SubmittingInv
  <2>1. pc[u] = "push" /\ call_id'[u] = call_id[u] /\ Submitting(u)
    BY <1>1, <1>2, <1>3 DEF IInv, SubmittingInv
  <2> QED
    BY <2>1, <1>1, <1>2, <1>3 DEF Submitting
<1>7. ThreadDataInv'
  BY <1>1, <1>2, <1>3 DEF IInv, ThreadDataInv
<1> QED
  BY <1>4, <1>5, <1>6, <1>7 DEF IInv

LEMMA IterateResultStep ==
    ASSUME IInv, NEW t \in Threads, IterateResult(t)
    PROVE  IInv'
<1>1. /\ from_worker[t] # <<>>
      /\ from_worker' = [from_worker EXCEPT ![t] = Tail(@)]
  BY DEF IInv, IterateResult
<1>2. /\ Head(from_worker[t]) \in Range(from_worker[t])
      /\ Head(from_worker[t]) \in Ids
      /\ from_worker' \in [Threads -> Seq(Ids)]
      /\ \A u \in Threads : Range(from_worker'[u]) =
            IF u = t THEN Range(from_worker[t]) \ {Head(from_worker[t])} ELSE Range(from_worker[u])
      /\ \A u \in Threads : NoRepeats(from_worker'[u])
  BY <1>1, ReplyPopped DEF IInv
<1>3. /\ disposed = "no"
      /\ Answered(t)
  BY DEF IInv, TypeOK, AnsweredInv, ThreadDataInv, Iterating, IterateResult
<1>4. /\ Head(from_worker[t]) \in (heap \cap processed) \ (cancelled \cup results[t])
      /\ owner[Head(from_worker[t])] = t
      /\ wpc \in {"popped", "run"} => Head(from_worker[t]) # wjob
  BY <1>2, <1>3 DEF IInv, Answered
<1>5. \A u \in Threads : jobs'[u] = IF u = t THEN jobs[u] \ {Head(from_worker[t])} ELSE jobs[u]
  BY DEF IInv, TypeOK, IterateResult
<1>6. \A u \in Threads : results'[u] = IF u = t THEN results[u] \cup {Head(from_worker[t])} ELSE results[u]
  BY DEF IInv, TypeOK, IterateResult
<1>7. \A u \in Threads : pc'[u] = "push" => pc[u] = "push" /\ call_id'[u] = call_id[u]
  BY DEF IInv, TypeOK, IterateResult, Return
<1>8. t \in threads_hash
  BY <1>2, <1>3, <1>4 DEF IInv, IterateResult, ThreadDataInv, JobsAccounted,
     Accounted
<1>9. UNCHANGED <<next_job_id, heap, owner, voids, processed, cancelled, args,
                  to_worker, threads_hash, wpc, wjob, disposed, ran, destroyed>>
  BY DEF IterateResult, Return, Iterating, jobVars, flags, tdVars, workerVars,
     callVars
<1>10. TypeOK'
  <2>1. from_worker' \in [Threads -> Seq(Ids)]
    BY <1>2 DEF IInv, TypeOK
  <2>2. jobs' \in [Threads -> SUBSET Ids]
    BY <1>2 DEF IInv, TypeOK, IterateResult
  <2>3. results' \in [Threads -> SUBSET Ids]
    BY <1>2 DEF IInv, TypeOK, IterateResult
  <2>4. pc' \in [Threads -> CallStates]
    BY DEF IInv, TypeOK, IterateResult, Return, Iterating, CallStates
  <2>5. call_id' \in [Threads -> 0..MaxJobs]
    <3>1. call_id' = call_id \/ call_id' = [call_id EXCEPT ![t] = 0]
      BY DEF IterateResult, Return
    <3>2. call_id \in [Threads -> 0..MaxJobs] /\ 0 \in 0..MaxJobs
      BY MaxJobsAssumption DEF IInv, TypeOK
    <3> QED
      BY <3>1, <3>2
  <2>6. blocking' \subseteq Threads
    BY DEF IInv, TypeOK, IterateResult, Return, Iterating
  <2> QED
    BY <1>9, <2>1, <2>2, <2>3, <2>4, <2>5, <2>6 DEF IInv, TypeOK
<1>11. /\ QueuedInv'
       /\ InHandInv'
       /\ FreshInv'
       /\ ArgInv'
       /\ ArgDestroyedOnce'
       /\ CancelledNeverRuns'
       /\ DisposedQueueCancelled'
  BY <1>9 DEF IInv, QueuedInv, InHandInv, FreshInv, ArgInv, ArgDestroyedOnce,
     CancelledNeverRuns, DisposedQueueCancelled
<1>12. QueuesInv'
  BY <1>1, <1>2, <1>3, <1>4, <1>8, <1>9 DEF IInv, QueuesInv
<1>13. SubmittingInv'
  <2> SUFFICES ASSUME NEW u \in Threads, pc'[u] = "push"
           PROVE  Submitting(u)'
    BY DEF SubmittingInv
  <2>1. pc[u] = "push" /\ call_id'[u] = call_id[u] /\ Submitting(u)
    BY <1>3, <1>4, <1>7, <1>8, <1>9 DEF IInv, SubmittingInv
  <2> QED
    BY <2>1, <1>3, <1>4, <1>7, <1>8, <1>9 DEF Submitting
<1>14. AnsweredInv'
  <2> SUFFICES ASSUME NEW u \in Threads
           PROVE  Answered(u)'
    BY DEF AnsweredInv
  <2>1. Answered(u) /\ heap \subseteq Ids
    BY DEF IInv, TypeOK, AnsweredInv
  <2>2. Range(from_worker'[u]) \cap results'[u] = {}
    BY <2>1, <1>1, <1>2, <1>3, <1>4, <1>6, <1>8, <1>9 DEF Answered
  <2>3. ASSUME NEW j \in Range(from_worker'[u]) \cup results'[u]
        PROVE  /\ j \in (heap' \cap processed') \ cancelled'
               /\ owner'[j] = u
               /\ wpc' \in {"popped", "run"} => j # wjob'
    <3>1. CASE u = t /\ j = Head(from_worker[t])
      BY <3>1, <2>1, <1>1, <1>2, <1>3, <1>4, <1>6, <1>8, <1>9 DEF Answered
    <3>2. CASE u = t /\ j # Head(from_worker[t])
      <4>1. j \in Range(from_worker[u]) \cup results[u]
        BY <3>2, <1>2, <1>6
      <4> QED
        BY <4>1, <2>1, <1>9 DEF Answered
    <3>3. CASE u # t
      BY <3>3, <2>1, <1>1, <1>2, <1>3, <1>4, <1>6, <1>8, <1>9 DEF Answered
    <3> QED
      BY <3>1, <3>2, <3>3
  <2> QED
    BY <2>2, <2>3 DEF Answered
<1>15. ThreadDataInv'
  BY <1>3, <1>4, <1>5, <1>6, <1>7, <1>8, <1>9 DEF IInv, ThreadDataInv
<1>16. JobsAccounted'
  <2> SUFFICES ASSUME disposed' # "yes", NEW u \in Threads
           PROVE  Accounted(u)'
    BY DEF JobsAccounted, Accounted
  <2>1. Accounted(u) /\ heap \subseteq Ids
    BY <1>3, <1>4, <1>5, <1>6, <1>8, <1>9 DEF IInv, TypeOK, JobsAccounted
  <2>2. ASSUME NEW j \in Ids
        PROVE  j \in jobs'[u] <=>
                  j \in heap' \ (results'[u] \cup cancelled') /\ owner'[j] = u
    <3>1. CASE u = t
      BY <3>1, <2>1, <1>3, <1>4, <1>5, <1>6, <1>8, <1>9 DEF Accounted
    <3>2. CASE u # t
      BY <3>2, <2>1, <1>3, <1>4, <1>5, <1>6, <1>8, <1>9 DEF Accounted
    <3> QED
      BY <3>1, <3>2
  <2>3. ASSUME NEW j \in results'[u]
        PROVE  owner'[j] = u /\ j \in heap'
    <3>1. CASE u = t
      BY <3>1, <2>1, <1>3, <1>4, <1>5, <1>6, <1>8, <1>9 DEF Accounted
    <3>2. CASE u # t
      BY <3>2, <2>1, <1>3, <1>4, <1>5, <1>6, <1>8, <1>9 DEF Accounted
    <3> QED
      BY <3>1, <3>2
  <2>4. jobs'[u] \cup results'[u] # {} => u \in threads_hash'
    BY <2>1, <1>3, <1>4, <1>5, <1>6, <1>8, <1>9 DEF Accounted
  <2> QED
    BY <2>2, <2>3, <2>4 DEF Accounted
<1> QED
  BY <1>10, <1>11, <1>12, <1>13, <1>14, <1>15, <1>16 DEF IInv

LEMMA IterateVoidStep ==
    ASSUME IInv, NEW t \in Threads, IterateVoid(t)
    PROVE  IInv'
<1>1. /\ from_worker[t] # <<>>
      /\ from_worker' = [from_worker EXCEPT ![t] = Tail(@)]
  BY DEF IInv, IterateVoid
<1>2. /\ Head(from_worker[t]) \in Range(from_worker[t])
      /\ Head(from_worker[t]) \in Ids
      /\ from_worker' \in [Threads -> Seq(Ids)]
      /\ \A u \in Threads : Range(from_worker'[u]) =
            IF u = t THEN Range(from_worker[t]) \ {Head(from_worker[t])} ELSE Range(from_worker[u])
      /\ \A u \in Threads : NoRepeats(from_worker'[u])
  BY <1>1, ReplyPopped DEF IInv
<1>3. /\ disposed = "no"
      /\ Answered(t)
  BY DEF IInv, TypeOK, AnsweredInv, ThreadDataInv, Iterating, IterateVoid
<1>4. /\ Head(from_worker[t]) \in (heap \cap processed) \ (cancelled \cup results[t])
      /\ owner[Head(from_worker[t])] = t
      /\ wpc \in {"popped", "run"} => Head(from_worker[t]) # wjob
  BY <1>2, <1>3 DEF IInv, Answered
<1>5. \A u \in Threads : jobs'[u] = IF u = t THEN jobs[u] \ {Head(from_worker[t])} ELSE jobs[u]
  BY DEF IInv, TypeOK, IterateVoid
<1>6. heap' = heap \ {Head(from_worker[t])}
  BY DEF IInv, IterateVoid, job_free
<1>7. /\ destroyed' \in [Ids -> Nat]
      /\ \A j \in Ids : destroyed'[j] = IF j = Head(from_worker[t]) /\ j \in args THEN destroyed[j] + 1 ELSE destroyed[j]
  BY ArgsDestroyedFacts DEF IInv, IterateVoid, job_free
<1>8. UNCHANGED <<next_job_id, owner, voids, processed, cancelled, args, to_worker,
                  threads_hash, results, pc, call_id, blocking, wpc, wjob,
                  disposed, ran>>
  BY DEF IterateVoid, job_free, jobVars, flags, tdVars, workerVars, callVars
<1>9. TypeOK'
  <2>1. from_worker' \in [Threads -> Seq(Ids)]
    BY <1>2 DEF IInv, TypeOK
  <2>2. jobs' \in [Threads -> SUBSET Ids]
    BY <1>2 DEF IInv, TypeOK, IterateVoid
  <2>3. heap' \subseteq Ids
    BY <1>6 DEF IInv, TypeOK
  <2>4. destroyed' \in [Ids -> Nat]
    BY <1>7 DEF IInv, TypeOK
  <2> QED
    BY <1>8, <2>1, <2>2, <2>3, <2>4 DEF IInv, TypeOK
<1>10. /\ CancelledNeverRuns'
       /\ DisposedQueueCancelled'
  BY <1>8 DEF IInv, CancelledNeverRuns, DisposedQueueCancelled
<1>11. QueuesInv'
  BY <1>1, <1>2, <1>3, <1>4, <1>8 DEF IInv, QueuesInv
<1>12. SubmittingInv'
  <2> SUFFICES ASSUME NEW u \in Threads, pc'[u] = "push"
           PROVE  Submitting(u)'
    BY DEF SubmittingInv
  <2>1. pc[u] = "push" /\ call_id'[u] = call_id[u] /\ Submitting(u)
    BY <1>3, <1>4, <1>6, <1>8 DEF IInv, SubmittingInv
  <2> QED
    BY <2>1, <1>3, <1>4, <1>6, <1>8 DEF Submitting
<1>13. QueuedInv'
  BY <1>3, <1>4, <1>6, <1>8 DEF IInv, QueuedInv
<1>14. InHandInv'
  BY <1>3, <1>4, <1>6, <1>8 DEF IInv, InHandInv
<1>15. AnsweredInv'
  <2> SUFFICES ASSUME NEW u \in Threads
           PROVE  Answered(u)'
    BY DEF AnsweredInv
  <2>1. Answered(u) /\ heap \subseteq Ids
    BY DEF IInv, TypeOK, AnsweredInv
  <2>2. Range(from_worker'[u]) \cap results'[u] = {}
    BY <2>1, <1>1, <1>2, <1>3, <1>4, <1>6, <1>8 DEF Answered
  <2>3. ASSUME NEW j \in Range(from_worker'[u]) \cup results'[u]
        PROVE  /\ j \in (heap' \cap processed') \ cancelled'
               /\ owner'[j] = u
               /\ wpc' \in {"popped", "run"} => j # wjob'
    <3>1. CASE u = t
      BY <3>1, <2>1, <1>1, <1>2, <1>3, <1>4, <1>6, <1>8 DEF Answered
    <3>2. CASE u # t
      BY <3>2, <2>1, <1>1, <1>2, <1>3, <1>4, <1>6, <1>8 DEF Answered
    <3> QED
      BY <3>1, <3>2
  <2> QED
    BY <2>2, <2>3 DEF Answered
<1>16. FreshInv'
  <2>1. /\ next_job_id \in Int /\ \A j \in Ids : j \in Int
        /\ heap \cup processed \cup cancelled \subseteq Ids
        /\ FreshInv
    BY DEF IInv, TypeOK, Ids
  <2>2. \A j \in heap' \cup processed' \cup cancelled' : j < next_job_id'
    BY <2>1, <1>3, <1>4, <1>6, <1>7, <1>8 DEF FreshInv
  <2>3. ASSUME NEW j \in Ids, j >= next_job_id'
        PROVE  destroyed'[j] = 0
    BY <2>1, <2>3, <1>3, <1>4, <1>6, <1>7, <1>8 DEF FreshInv
  <2>4. ASSUME NEW j \in Ids, j \notin processed'
        PROVE  ran'[j] = 0
    BY <2>1, <2>4, <1>3, <1>4, <1>6, <1>7, <1>8 DEF FreshInv
  <2> QED
    BY <2>2, <2>3, <2>4 DEF FreshInv
<1>17. ArgInv'
  BY <1>3, <1>4, <1>6, <1>8 DEF IInv, ArgInv
<1>18. ThreadDataInv'
  BY <1>3, <1>4, <1>5, <1>8 DEF IInv, ThreadDataInv
<1>19. JobsAccounted'
  <2> SUFFICES ASSUME disposed' # "yes", NEW u \in Threads
           PROVE  Accounted(u)'
    BY DEF JobsAccounted, Accounted
  <2>1. Accounted(u) /\ heap \subseteq Ids
    BY <1>3, <1>4, <1>5, <1>6, <1>8 DEF IInv, TypeOK, JobsAccounted
  <2>2. ASSUME NEW j \in Ids
        PROVE  j \in jobs'[u] <=>
                  j \in heap' \ (results'[u] \cup cancelled') /\ owner'[j] = u
    <3>1. CASE u = t
      BY <3>1, <2>1, <1>3, <1>4, <1>5, <1>6, <1>8 DEF Accounted
    <3>2. CASE u # t
      BY <3>2, <2>1, <1>3, <1>4, <1>5, <1>6, <1>8 DEF Accounted
    <3> QED
      BY <3>1, <3>2
  <2>3. ASSUME NEW j \in results'[u]
        PROVE  owner'[j] = u /\ j \in heap'
    <3>1. CASE u = t
      BY <3>1, <2>1, <1>3, <1>4, <1>5, <1>6, <1>8 DEF Accounted
    <3>2. CASE u # t
      BY <3>2, <2>1, <1>3, <1>4, <1>5, <1>6, <1>8 DEF Accounted
    <3> QED
      BY <3>1, <3>2
  <2>4. jobs'[u] \cup results'[u] # {} => u \in threads_hash'
    BY <2>1, <1>3, <1>4, <1>5, <1>6, <1>8 DEF Accounted
  <2> QED
    BY <2>2, <2>3, <2>4 DEF Accounted
<1>20. ArgDestroyedOnce'
  <2> SUFFICES ASSUME NEW j \in Ids
           PROVE  ArgDestroyed(j)'
    BY DEF ArgDestroyedOnce, ArgDestroyed
  <2>1. /\ ArgDestroyed(j)
        /\ destroyed[j] \in Nat /\ next_job_id \in Int /\ j \in Int
        /\ j \in heap => (j \in args <=> j \notin cancelled)
        /\ j \in heap \cup cancelled => j < next_job_id
        /\ j >= next_job_id => destroyed[j] = 0
    BY DEF IInv, TypeOK, ArgDestroyedOnce, ArgDestroyed, ArgInv, FreshInv, Ids
  <2> QED
    BY <2>1, <1>3, <1>4, <1>6, <1>7, <1>8 DEF ArgDestroyed
<1> QED
  BY <1>9, <1>10, <1>11, <1>12, <1>13, <1>14, <1>15, <1>16, <1>17, <1>18, <1>19,
     <1>20 DEF IInv

LEMMA FetchFoundStep ==
    ASSUME IInv, NEW t \in Threads, FetchFound(t)
    PROVE  IInv'
<1>1. /\ disposed = "no"
      /\ call_id[t] \in results[t]
      /\ call_id[t] \in Ids
  BY DEF IInv, TypeOK, ThreadDataInv, FetchFound
<1>2. Answered(t)
  BY DEF IInv, AnsweredInv
<1>3. /\ call_id[t] \in (heap \cap processed) \ (cancelled \cup Range(from_worker[t]))
      /\ owner[call_id[t]] = t
      /\ wpc \in {"popped", "run"} => call_id[t] # wjob
  BY <1>1, <1>2 DEF IInv, Answered
<1>4. \A u \in Threads : results'[u] = IF u = t THEN results[u] \ {call_id[t]} ELSE results[u]
  BY DEF IInv, TypeOK, FetchFound
<1>5. /\ threads_hash' \subseteq threads_hash
      /\ \A u \in Threads : u \in threads_hash /\ u \notin threads_hash' =>
            results'[u] \cup jobs[u] = {}
  BY <1>1, <1>4 DEF IInv, FetchFound, NothingElseExpected
<1>6. heap' = heap \ {call_id[t]}
  BY DEF IInv, FetchFound, job_free
<1>7. /\ destroyed' \in [Ids -> Nat]
      /\ \A j \in Ids : destroyed'[j] = IF j = call_id[t] /\ j \in args THEN destroyed[j] + 1 ELSE destroyed[j]
  BY ArgsDestroyedFacts DEF IInv, FetchFound, job_free
<1>8. \A u \in Threads : pc'[u] = "push" => pc[u] = "push" /\ call_id'[u] = call_id[u]
  BY DEF IInv, TypeOK, FetchFound, Return
<1>9. UNCHANGED <<next_job_id, owner, voids, processed, cancelled, args, to_worker,
                  jobs, from_worker, wpc, wjob, disposed, ran>>
  BY DEF FetchFound, Return, job_free, jobVars, flags, tdVars, workerVars, callVars
<1>10. TypeOK'
  <2>1. results' \in [Threads -> SUBSET Ids]
    BY DEF IInv, TypeOK, FetchFound
  <2>2. threads_hash' \subseteq Threads
    BY <1>5 DEF IInv, TypeOK
  <2>3. heap' \subseteq Ids
    BY <1>6 DEF IInv, TypeOK
  <2>4. destroyed' \in [Ids -> Nat]
    BY <1>7 DEF IInv, TypeOK
  <2>5. pc' \in [Threads -> CallStates]
    BY DEF IInv, TypeOK, FetchFound, Return, CallStates
  <2>6. call_id' \in [Threads -> 0..MaxJobs]
    BY MaxJobsAssumption DEF IInv, TypeOK, FetchFound, Return
  <2>7. blocking' \subseteq Threads
    BY DEF IInv, TypeOK, FetchFound, Return
  <2> QED
    BY <1>9, <2>1, <2>2, <2>3, <2>4, <2>5, <2>6, <2>7 DEF IInv, TypeOK
<1>11. /\ QueuesInv'
       /\ CancelledNeverRuns'
       /\ DisposedQueueCancelled'
  BY <1>9 DEF IInv, QueuesInv, CancelledNeverRuns, DisposedQueueCancelled
<1>12. SubmittingInv'
  <2> SUFFICES ASSUME NEW u \in Threads, pc'[u] = "push"
           PROVE  Submitting(u)'
    BY DEF SubmittingInv
  <2>1. pc[u] = "push" /\ call_id'[u] = call_id[u] /\ Submitting(u)
    BY <1>1, <1>2, <1>3, <1>6, <1>8, <1>9 DEF IInv, SubmittingInv
  <2> QED
    BY <2>1, <1>1, <1>2, <1>3, <1>6, <1>8, <1>9 DEF Submitting
<1>13. QueuedInv'
  BY <1>1, <1>2, <1>3, <1>6, <1>9 DEF IInv, QueuedInv
<1>14. InHandInv'
  BY <1>1, <1>2, <1>3, <1>6, <1>9 DEF IInv, InHandInv
<1>15. AnsweredInv'
  <2> SUFFICES ASSUME NEW u \in Threads
           PROVE  Answered(u)'
    BY DEF AnsweredInv
  <2>1. Answered(u) /\ heap \subseteq Ids
    BY DEF IInv, TypeOK, AnsweredInv
  <2>2. Range(from_worker'[u]) \cap results'[u] = {}
    BY <2>1, <1>1, <1>2, <1>3, <1>4, <1>5, <1>6, <1>9 DEF Answered
  <2>3. ASSUME NEW j \in Range(from_worker'[u]) \cup results'[u]
        PROVE  /\ j \in (heap' \cap processed') \ cancelled'
               /\ owner'[j] = u
               /\ wpc' \in {"popped", "run"} => j # wjob'
    <3>1. CASE u = t
      BY ZenonT(30), <3>1, <2>1, <1>1, <1>2, <1>3, <1>4, <1>5, <1>6, <1>9 DEF Answered
    <3>2. CASE u # t
      BY <3>2, <2>1, <1>1, <1>2, <1>3, <1>4, <1>5, <1>6, <1>9 DEF Answered
    <3> QED
      BY <3>1, <3>2
  <2> QED
    BY <2>2, <2>3 DEF Answered
<1>16. FreshInv'
  <2>1. /\ next_job_id \in Int /\ \A j \in Ids : j \in Int
        /\ heap \cup processed \cup cancelled \subseteq Ids
        /\ FreshInv
    BY DEF IInv, TypeOK, Ids
  <2>2. \A j \in heap' \cup processed' \cup cancelled' : j < next_job_id'
    BY <2>1, <1>1, <1>2, <1>3, <1>6, <1>7, <1>9 DEF FreshInv
  <2>3. ASSUME NEW j \in Ids, j >= next_job_id'
        PROVE  destroyed'[j] = 0
    BY <2>1, <2>3, <1>1, <1>2, <1>3, <1>6, <1>7, <1>9 DEF FreshInv
  <2>4. ASSUME NEW j \in Ids, j \notin processed'
        PROVE  ran'[j] = 0
    BY <2>1, <2>4, <1>1, <1>2, <1>3, <1>6, <1>7, <1>9 DEF FreshInv
  <2> QED
    BY <2>2, <2>3, <2>4 DEF FreshInv
<1>17. ArgInv'
  BY <1>1, <1>2, <1>3, <1>6, <1>9 DEF IInv, ArgInv
<1>18. ThreadDataInv'
  BY <1>1, <1>2, <1>3, <1>4, <1>5, <1>8, <1>9 DEF IInv, ThreadDataInv
<1>19. JobsAccounted'
  <2> SUFFICES ASSUME disposed' # "yes", NEW u \in Threads
           PROVE  Accounted(u)'
    BY DEF JobsAccounted, Accounted
  <2>1. Accounted(u) /\ heap \subseteq Ids
    BY <1>1, <1>2, <1>3, <1>4, <1>5, <1>6, <1>9 DEF IInv, TypeOK, JobsAccounted
  <2>2. ASSUME NEW j \in Ids
        PROVE  j \in jobs'[u] <=>
                  j \in heap' \ (results'[u] \cup cancelled') /\ owner'[j] = u
    <3>1. CASE u = t
      BY ZenonT(30), <3>1, <2>1, <1>1, <1>2, <1>3, <1>4, <1>5, <1>6, <1>9 DEF Accounted
    <3>2. CASE u # t
      BY <3>2, <2>1, <1>1, <1>2, <1>3, <1>4, <1>5, <1>6, <1>9 DEF Accounted
    <3> QED
      BY <3>1, <3>2
  <2>3. ASSUME NEW j \in results'[u]
        PROVE  owner'[j] = u /\ j \in heap'
    <3>1. CASE u = t
      BY <3>1, <2>1, <1>1, <1>2, <1>3, <1>4, <1>5, <1>6, <1>9 DEF Accounted
    <3>2. CASE u # t
      BY <3>2, <2>1, <1>1, <1>2, <1>3, <1>4, <1>5, <1>6, <1>9 DEF Accounted
    <3> QED
      BY <3>1, <3>2
  <2>4. jobs'[u] \cup results'[u] # {} => u \in threads_hash'
    BY <2>1, <1>1, <1>2, <1>3, <1>4, <1>5, <1>6, <1>9 DEF Accounted
  <2> QED
    BY <2>2, <2>3, <2>4 DEF Accounted
<1>20. ArgDestroyedOnce'
  <2> SUFFICES ASSUME NEW j \in Ids
           PROVE  ArgDestroyed(j)'
    BY DEF ArgDestroyedOnce, ArgDestroyed
  <2>1. /\ ArgDestroyed(j)
        /\ destroyed[j] \in Nat /\ next_job_id \in Int /\ j \in Int
        /\ j \in heap => (j \in args <=> j \notin cancelled)
        /\ j \in heap \cup cancelled => j < next_job_id
        /\ j >= next_job_id => destroyed[j] = 0
    BY DEF IInv, TypeOK, ArgDestroyedOnce, ArgDestroyed, ArgInv, FreshInv, Ids
  <2> QED
    BY <2>1, <1>1, <1>2, <1>3, <1>6, <1>7, <1>9 DEF ArgDestroyed
<1> QED
  BY <1>10, <1>11, <1>12, <1>13, <1>14, <1>15, <1>16, <1>17, <1>18, <1>19, <1>20 DEF
     IInv

LEMMA WorkerPopStep ==
    ASSUME IInv, WorkerPop
    PROVE  IInv'
<1>1. /\ to_worker \in Seq(0..MaxJobs)
      /\ to_worker # <<>>
      /\ NoRepeats(to_worker)
      /\ to_worker' = Tail(to_worker)
  BY DEF IInv, TypeOK, QueuesInv, WorkerPop
<1>2. /\ to_worker' \in Seq(0..MaxJobs)
      /\ Head(to_worker) \in Range(to_worker)
      /\ Head(to_worker) \in 0..MaxJobs
      /\ Range(to_worker') = Range(to_worker) \ {Head(to_worker)}
      /\ NoRepeats(to_worker')
  BY <1>1, TailFacts DEF IInv
<1>3. /\ wpc = "pop"
      /\ wpc' = "popped"
      /\ wjob' = Head(to_worker)
      /\ processed' = processed \cup ({Head(to_worker)} \ {DESTROY})
  BY DEF IInv, WorkerPop, Processed
<1>4. /\ Head(to_worker) # DESTROY =>
            Head(to_worker) \in Ids /\ Head(to_worker) \in heap \ processed /\ ran[Head(to_worker)] = 0
      /\ DESTROY \notin processed
  BY <1>2, MaxJobsAssumption DEF IInv, TypeOK, QueuedInv, FreshInv, Ids, DESTROY
<1>5. UNCHANGED <<next_job_id, heap, owner, voids, cancelled, args, threads_hash,
                  jobs, results, from_worker, pc, call_id, blocking, disposed, ran,
                  destroyed>>
  BY DEF WorkerPop, jobVars, flags, tdVars, workerVars, callVars
<1>6. TypeOK'
  <2>1. wpc' \in WorkerStates
    BY DEF IInv, TypeOK, WorkerPop, WorkerStates
  <2>2. wjob' \in 0..MaxJobs
    BY <1>2, <1>3 DEF IInv, TypeOK
  <2>3. to_worker' \in Seq(0..MaxJobs)
    BY <1>2 DEF IInv, TypeOK
  <2>4. processed' \subseteq Ids
    BY <1>3, <1>4 DEF IInv, TypeOK
  <2> QED
    BY <1>5, <2>1, <2>2, <2>3, <2>4 DEF IInv, TypeOK
<1>7. /\ ArgInv'
      /\ ThreadDataInv'
      /\ JobsAccounted'
      /\ ArgDestroyedOnce'
      /\ CancelledNeverRuns'
  BY <1>5 DEF IInv, ArgInv, ThreadDataInv, JobsAccounted, ArgDestroyedOnce,
     CancelledNeverRuns, Accounted
<1>8. QueuesInv'
  BY <1>1, <1>2, <1>4, <1>5 DEF IInv, QueuesInv
<1>9. SubmittingInv'
  <2> SUFFICES ASSUME NEW u \in Threads, pc'[u] = "push"
           PROVE  Submitting(u)'
    BY DEF SubmittingInv
  <2>1. pc[u] = "push" /\ call_id'[u] = call_id[u] /\ Submitting(u)
    BY <1>1, <1>2, <1>3, <1>4, <1>5 DEF IInv, SubmittingInv
  <2> QED
    BY <2>1, <1>1, <1>2, <1>3, <1>4, <1>5 DEF Submitting
<1>10. QueuedInv'
  BY <1>1, <1>2, <1>3, <1>4, <1>5 DEF IInv, QueuedInv
<1>11. InHandInv'
  BY <1>3, <1>4, <1>5 DEF IInv, InHandInv
<1>12. AnsweredInv'
  <2> SUFFICES ASSUME NEW u \in Threads
           PROVE  Answered(u)'
    BY DEF AnsweredInv
  <2>1. Answered(u) /\ heap \subseteq Ids
    BY DEF IInv, TypeOK, AnsweredInv
  <2>2. Range(from_worker'[u]) \cap results'[u] = {}
    BY <2>1, <1>3, <1>4, <1>5 DEF Answered
  <2>3. ASSUME NEW j \in Range(from_worker'[u]) \cup results'[u]
        PROVE  /\ j \in (heap' \cap processed') \ cancelled'
               /\ owner'[j] = u
               /\ wpc' \in {"popped", "run"} => j # wjob'
    BY <2>1, <1>3, <1>4, <1>5 DEF Answered
  <2> QED
    BY <2>2, <2>3 DEF Answered
<1>13. FreshInv'
  <2>1. /\ next_job_id \in Int /\ \A j \in Ids : j \in Int
        /\ heap \cup processed \cup cancelled \subseteq Ids
        /\ FreshInv
    BY DEF IInv, TypeOK, Ids
  <2>2. \A j \in heap' \cup processed' \cup cancelled' : j < next_job_id'
    BY <2>1, <1>3, <1>4, <1>5 DEF FreshInv
  <2>3. ASSUME NEW j \in Ids, j >= next_job_id'
        PROVE  destroyed'[j] = 0
    BY <2>1, <2>3, <1>3, <1>4, <1>5 DEF FreshInv
  <2>4. ASSUME NEW j \in Ids, j \notin processed'
        PROVE  ran'[j] = 0
    BY <2>1, <2>4, <1>3, <1>4, <1>5 DEF FreshInv
  <2> QED
    BY <2>2, <2>3, <2>4 DEF FreshInv
<1>14. DisposedQueueCancelled'
  BY <1>1, <1>2, <1>4, <1>5 DEF IInv, DisposedQueueCancelled
<1> QED
  BY <1>6, <1>7, <1>8, <1>9, <1>10, <1>11, <1>12, <1>13, <1>14 DEF IInv

LEMMA WorkerSkipCancelledStep ==
    ASSUME IInv, WorkerSkipCancelled
    PROVE  IInv'
<1>1. /\ wpc = "popped"
      /\ wpc' = "pop"
      /\ wjob' = 0
      /\ heap' = heap \ {wjob}
  BY DEF IInv, WorkerSkipCancelled, job_free
<1>2. /\ wjob \in Ids
      /\ wjob \in heap \cap processed \cap cancelled
      /\ \A u \in Threads : wjob \notin Range(from_worker[u]) \cup results[u]
  BY <1>1 DEF IInv, TypeOK, InHandInv, AnsweredInv, Answered, WorkerSkipCancelled
<1>3. /\ destroyed' \in [Ids -> Nat]
      /\ \A j \in Ids : destroyed'[j] = IF j = wjob /\ j \in args THEN destroyed[j] + 1 ELSE destroyed[j]
  BY ArgsDestroyedFacts DEF IInv, WorkerSkipCancelled, job_free
<1>4. UNCHANGED <<next_job_id, owner, voids, processed, cancelled, args, to_worker,
                  threads_hash, jobs, results, from_worker, pc, call_id, blocking,
                  disposed, ran>>
  BY DEF WorkerSkipCancelled, job_free, jobVars, flags, tdVars, workerVars, callVars
<1>5. TypeOK'
  <2>1. heap' \subseteq Ids
    BY <1>1 DEF IInv, TypeOK
  <2>2. destroyed' \in [Ids -> Nat]
    BY <1>3 DEF IInv, TypeOK
  <2>3. wpc' \in WorkerStates
    BY DEF IInv, TypeOK, WorkerSkipCancelled, job_free, WorkerStates
  <2>4. wjob' \in 0..MaxJobs
    BY <1>1, MaxJobsAssumption DEF IInv, TypeOK
  <2> QED
    BY <1>4, <2>1, <2>2, <2>3, <2>4 DEF IInv, TypeOK
<1>6. /\ QueuesInv'
      /\ ThreadDataInv'
      /\ CancelledNeverRuns'
      /\ DisposedQueueCancelled'
  BY <1>4 DEF IInv, QueuesInv, ThreadDataInv, CancelledNeverRuns,
     DisposedQueueCancelled
<1>7. SubmittingInv'
  <2> SUFFICES ASSUME NEW u \in Threads, pc'[u] = "push"
           PROVE  Submitting(u)'
    BY DEF SubmittingInv
  <2>1. pc[u] = "push" /\ call_id'[u] = call_id[u] /\ Submitting(u)
    BY <1>1, <1>2, <1>4 DEF IInv, SubmittingInv
  <2> QED
    BY <2>1, <1>1, <1>2, <1>4 DEF Submitting
<1>8. QueuedInv'
  BY <1>1, <1>2, <1>4 DEF IInv, QueuedInv
<1>9. InHandInv'
  BY <1>1, <1>2, <1>4 DEF IInv, InHandInv
<1>10. AnsweredInv'
  <2> SUFFICES ASSUME NEW u \in Threads
           PROVE  Answered(u)'
    BY DEF AnsweredInv
  <2>1. Answered(u) /\ heap \subseteq Ids
    BY DEF IInv, TypeOK, AnsweredInv
  <2>2. Range(from_worker'[u]) \cap results'[u] = {}
    BY <2>1, <1>1, <1>2, <1>4 DEF Answered
  <2>3. ASSUME NEW j \in Range(from_worker'[u]) \cup results'[u]
        PROVE  /\ j \in (heap' \cap processed') \ cancelled'
               /\ owner'[j] = u
               /\ wpc' \in {"popped", "run"} => j # wjob'
    BY <2>1, <1>1, <1>2, <1>4 DEF Answered
  <2> QED
    BY <2>2, <2>3 DEF Answered
<1>11. FreshInv'
  <2>1. /\ next_job_id \in Int /\ \A j \in Ids : j \in Int
        /\ heap \cup processed \cup cancelled \subseteq Ids
        /\ FreshInv
    BY DEF IInv, TypeOK, Ids
  <2>2. \A j \in heap' \cup processed' \cup cancelled' : j < next_job_id'
    BY <2>1, <1>1, <1>2, <1>3, <1>4 DEF FreshInv
  <2>3. ASSUME NEW j \in Ids, j >= next_job_id'
        PROVE  destroyed'[j] = 0
    BY <2>1, <2>3, <1>1, <1>2, <1>3, <1>4 DEF FreshInv
  <2>4. ASSUME NEW j \in Ids, j \notin processed'
        PROVE  ran'[j] = 0
    BY <2>1, <2>4, <1>1, <1>2, <1>3, <1>4 DEF FreshInv
  <2> QED
    BY <2>2, <2>3, <2>4 DEF FreshInv
<1>12. ArgInv'
  BY <1>1, <1>2, <1>4 DEF IInv, ArgInv
<1>13. JobsAccounted'
  <2> SUFFICES ASSUME disposed' # "yes", NEW u \in Threads
           PROVE  Accounted(u)'
    BY DEF JobsAccounted, Accounted
  <2>1. Accounted(u) /\ heap \subseteq Ids
    BY <1>1, <1>2, <1>4 DEF IInv, TypeOK, JobsAccounted
  <2>2. ASSUME NEW j \in Ids
        PROVE  j \in jobs'[u] <=>
                  j \in heap' \ (results'[u] \cup cancelled') /\ owner'[j] = u
    BY <2>1, <1>1, <1>2, <1>4 DEF Accounted
  <2>3. ASSUME NEW j \in results'[u]
        PROVE  owner'[j] = u /\ j \in heap'
    BY <2>1, <1>1, <1>2, <1>4 DEF Accounted
  <2>4. jobs'[u] \cup results'[u] # {} => u \in threads_hash'
    BY <2>1, <1>1, <1>2, <1>4 DEF Accounted
  <2> QED
    BY <2>2, <2>3, <2>4 DEF Accounted
<1>14. ArgDestroyedOnce'
  <2> SUFFICES ASSUME NEW j \in Ids
           PROVE  ArgDestroyed(j)'
    BY DEF ArgDestroyedOnce, ArgDestroyed
  <2>1. /\ ArgDestroyed(j)
        /\ destroyed[j] \in Nat /\ next_job_id \in Int /\ j \in Int
        /\ j \in heap => (j \in args <=> j \notin cancelled)
        /\ j \in heap \cup cancelled => j < next_job_id
        /\ j >= next_job_id => destroyed[j] = 0
    BY DEF IInv, TypeOK, ArgDestroyedOnce, ArgDestroyed, ArgInv, FreshInv, Ids
  <2> QED
    BY <2>1, <1>1, <1>2, <1>3, <1>4 DEF ArgDestroyed
<1> QED
  BY <1>5, <1>6, <1>7, <1>8, <1>9, <1>10, <1>11, <1>12, <1>13, <1>14 DEF IInv

LEMMA WorkerCallFuncStep ==
    ASSUME IInv, WorkerCallFunc
    PROVE  IInv'
<1>1. /\ wpc = "popped"
      /\ wpc' = "run"
      /\ wjob # DESTROY
  BY DEF IInv, WorkerCallFunc
<1>2. /\ wjob \in Ids
      /\ wjob \in (heap \cap processed) \ cancelled
      /\ ran[wjob] = 0
  BY <1>1 DEF IInv, TypeOK, InHandInv, WorkerCallFunc
<1>3. \A j \in Ids : ran'[j] = IF j = wjob THEN 1 ELSE ran[j]
  BY <1>2 DEF IInv, TypeOK, WorkerCallFunc
<1>4. UNCHANGED <<next_job_id, heap, owner, voids, processed, cancelled, args,
                  to_worker, threads_hash, jobs, results, from_worker, pc, call_id,
                  blocking, wjob, disposed, destroyed>>
  BY DEF WorkerCallFunc, jobVars, flags, tdVars, workerVars, callVars
<1>5. TypeOK'
  <2>1. ran' \in [Ids -> Nat]
    BY <1>2 DEF IInv, TypeOK, WorkerCallFunc
  <2>2. wpc' \in WorkerStates
    BY DEF IInv, TypeOK, WorkerCallFunc, WorkerStates
  <2> QED
    BY <1>4, <2>1, <2>2 DEF IInv, TypeOK
<1>6. /\ QueuesInv'
      /\ SubmittingInv'
      /\ QueuedInv'
      /\ ArgInv'
      /\ ThreadDataInv'
      /\ JobsAccounted'
      /\ ArgDestroyedOnce'
      /\ DisposedQueueCancelled'
  BY <1>4 DEF IInv, QueuesInv, SubmittingInv, QueuedInv, ArgInv, ThreadDataInv,
     JobsAccounted, ArgDestroyedOnce, DisposedQueueCancelled, Submitting, Accounted
<1>7. InHandInv'
  BY <1>1, <1>2, <1>3, <1>4 DEF IInv, InHandInv
<1>8. AnsweredInv'
  <2> SUFFICES ASSUME NEW u \in Threads
           PROVE  Answered(u)'
    BY DEF AnsweredInv
  <2>1. Answered(u) /\ heap \subseteq Ids
    BY DEF IInv, TypeOK, AnsweredInv
  <2>2. Range(from_worker'[u]) \cap results'[u] = {}
    BY <2>1, <1>1, <1>2, <1>4 DEF Answered
  <2>3. ASSUME NEW j \in Range(from_worker'[u]) \cup results'[u]
        PROVE  /\ j \in (heap' \cap processed') \ cancelled'
               /\ owner'[j] = u
               /\ wpc' \in {"popped", "run"} => j # wjob'
    BY <2>1, <1>1, <1>2, <1>4 DEF Answered
  <2> QED
    BY <2>2, <2>3 DEF Answered
<1>9. FreshInv'
  <2>1. /\ next_job_id \in Int /\ \A j \in Ids : j \in Int
        /\ heap \cup processed \cup cancelled \subseteq Ids
        /\ FreshInv
    BY DEF IInv, TypeOK, Ids
  <2>2. \A j \in heap' \cup processed' \cup cancelled' : j < next_job_id'
    BY <2>1, <1>2, <1>3, <1>4 DEF FreshInv
  <2>3. ASSUME NEW j \in Ids, j >= next_job_id'
        PROVE  destroyed'[j] = 0
    BY <2>1, <2>3, <1>2, <1>3, <1>4 DEF FreshInv
  <2>4. ASSUME NEW j \in Ids, j \notin processed'
        PROVE  ran'[j] = 0
    BY <2>1, <2>4, <1>2, <1>3, <1>4 DEF FreshInv
  <2> QED
    BY <2>2, <2>3, <2>4 DEF FreshInv
<1>10. CancelledNeverRuns'
  BY <1>2, <1>3, <1>4 DEF IInv, CancelledNeverRuns
<1> QED
  BY <1>5, <1>6, <1>7, <1>8, <1>9, <1>10 DEF IInv

LEMMA WorkerReplyStep ==
    ASSUME IInv, WorkerReply
    PROVE  IInv'
<1>1. /\ wpc = "run"
      /\ wpc' = "pop"
      /\ wjob' = 0
  BY DEF IInv, WorkerReply
<1>2. /\ wjob \in Ids
      /\ wjob \in (heap \cap processed) \ cancelled
      /\ owner[wjob] \in Threads
  BY <1>1 DEF IInv, TypeOK, InHandInv
<1>3. \A u \in Threads : wjob \notin Range(from_worker[u]) \cup results[u]
  BY <1>1 DEF IInv, AnsweredInv, Answered
<1>4. /\ from_worker' \in [Threads -> Seq(Ids)]
      /\ \A u \in Threads : Range(from_worker'[u]) =
            IF u = owner[wjob] THEN Range(from_worker[u]) \cup {wjob} ELSE Range(from_worker[u])
      /\ \A u \in Threads : NoRepeats(from_worker'[u])
  BY <1>2, <1>3, ReplyAppended DEF IInv, WorkerReply, reply_queue
<1>5. UNCHANGED <<next_job_id, heap, owner, voids, processed, cancelled, args,
                  to_worker, threads_hash, jobs, results, pc, call_id, blocking,
                  disposed, ran, destroyed>>
  BY DEF WorkerReply, jobVars, flags, tdVars, workerVars, callVars
<1>6. TypeOK'
  <2>1. from_worker' \in [Threads -> Seq(Ids)]
    BY <1>4 DEF IInv, TypeOK
  <2>2. wpc' \in WorkerStates
    BY DEF IInv, TypeOK, WorkerReply, WorkerStates
  <2>3. wjob' \in 0..MaxJobs
    BY <1>1, MaxJobsAssumption DEF IInv, TypeOK
  <2> QED
    BY <1>5, <2>1, <2>2, <2>3 DEF IInv, TypeOK
<1>7. /\ SubmittingInv'
      /\ QueuedInv'
      /\ FreshInv'
      /\ ArgInv'
      /\ ThreadDataInv'
      /\ JobsAccounted'
      /\ ArgDestroyedOnce'
      /\ CancelledNeverRuns'
      /\ DisposedQueueCancelled'
  BY <1>5 DEF IInv, SubmittingInv, QueuedInv, FreshInv, ArgInv, ThreadDataInv,
     JobsAccounted, ArgDestroyedOnce, CancelledNeverRuns, DisposedQueueCancelled,
     Submitting, Accounted
<1>8. QueuesInv'
  BY <1>2, <1>3, <1>4, <1>5 DEF IInv, QueuesInv
<1>9. InHandInv'
  BY <1>1, <1>2, <1>3, <1>5 DEF IInv, InHandInv
<1>10. AnsweredInv'
  <2> SUFFICES ASSUME NEW u \in Threads
           PROVE  Answered(u)'
    BY DEF AnsweredInv
  <2>1. Answered(u) /\ heap \subseteq Ids
    BY DEF IInv, TypeOK, AnsweredInv
  <2>2. Range(from_worker'[u]) \cap results'[u] = {}
    BY <2>1, <1>1, <1>2, <1>3, <1>4, <1>5 DEF Answered
  <2>3. ASSUME NEW j \in Range(from_worker'[u]) \cup results'[u]
        PROVE  /\ j \in (heap' \cap processed') \ cancelled'
               /\ owner'[j] = u
               /\ wpc' \in {"popped", "run"} => j # wjob'
    BY <2>1, <1>1, <1>2, <1>3, <1>4, <1>5 DEF Answered
  <2> QED
    BY <2>2, <2>3 DEF Answered
<1> QED
  BY <1>6, <1>7, <1>8, <1>9, <1>10 DEF IInv

LEMMA WorkerExitStep ==
    ASSUME IInv, WorkerExit
    PROVE  IInv'
<1>1. /\ wpc = "popped"
      /\ wpc' = "exit"
  BY DEF IInv, WorkerExit
<1>2. UNCHANGED <<next_job_id, heap, owner, voids, processed, cancelled, args,
                  to_worker, threads_hash, jobs, results, from_worker, pc, call_id,
                  blocking, wjob, disposed, ran, destroyed>>
  BY DEF WorkerExit, jobVars, flags, tdVars, workerVars, callVars
<1>3. TypeOK'
  <2>1. wpc' \in WorkerStates
    BY DEF IInv, TypeOK, WorkerExit, WorkerStates
  <2> QED
    BY <1>2, <2>1 DEF IInv, TypeOK
<1>4. /\ QueuesInv'
      /\ SubmittingInv'
      /\ QueuedInv'
      /\ FreshInv'
      /\ ArgInv'
      /\ ThreadDataInv'
      /\ JobsAccounted'
      /\ ArgDestroyedOnce'
      /\ CancelledNeverRuns'
      /\ DisposedQueueCancelled'
  BY <1>2 DEF IInv, QueuesInv, SubmittingInv, QueuedInv, FreshInv, ArgInv,
     ThreadDataInv, JobsAccounted, ArgDestroyedOnce, CancelledNeverRuns,
     DisposedQueueCancelled, Submitting, Accounted
<1>5. InHandInv'
  BY <1>1, <1>2 DEF IInv, InHandInv
<1>6. AnsweredInv'
  <2> SUFFICES ASSUME NEW u \in Threads
           PROVE  Answered(u)'
    BY DEF AnsweredInv
  <2>1. Answered(u) /\ heap \subseteq Ids
    BY DEF IInv, TypeOK, AnsweredInv
  <2>2. Range(from_worker'[u]) \cap results'[u] = {}
    BY <2>1, <1>1, <1>2 DEF Answered
  <2>3. ASSUME NEW j \in Range(from_worker'[u]) \cup results'[u]
        PROVE  /\ j \in (heap' \cap processed') \ cancelled'
               /\ owner'[j] = u
               /\ wpc' \in {"popped", "run"} => j # wjob'
    BY <2>1, <1>1, <1>2 DEF Answered
  <2> QED
    BY <2>2, <2>3 DEF Answered
<1> QED
  BY <1>3, <1>4, <1>5, <1>6 DEF IInv

LEMMA DisposePushStep ==
    ASSUME IInv, DisposePush
    PROVE  IInv'
<1>1. /\ disposed = "no"
      /\ disposed' = "pushed"
      /\ \A u \in Threads : pc[u] = "idle"
  BY DEF IInv, DisposePush
<1>2. /\ to_worker \in Seq(0..MaxJobs)
      /\ DESTROY \in 0..MaxJobs
      /\ DESTROY \notin Range(to_worker)
      /\ NoRepeats(to_worker)
      /\ to_worker' = Append(to_worker, DESTROY)
  BY <1>1, MaxJobsAssumption DEF IInv, TypeOK, QueuesInv, QueuedInv, DisposePush,
     Pushed, DESTROY
<1>3. /\ to_worker' \in Seq(0..MaxJobs)
      /\ Range(to_worker') = Range(to_worker) \cup {DESTROY}
      /\ NoRepeats(to_worker')
  BY <1>2, JobPushed DEF IInv
<1>4. UNCHANGED <<next_job_id, heap, owner, voids, processed, cancelled, args,
                  threads_hash, jobs, results, from_worker, pc, call_id, blocking,
                  wpc, wjob, ran, destroyed>>
  BY DEF DisposePush, jobVars, flags, tdVars, workerVars, callVars
<1>5. TypeOK'
  <2>1. to_worker' \in Seq(0..MaxJobs)
    BY <1>3 DEF IInv, TypeOK
  <2>2. disposed' \in {"no", "pushed", "yes"}
    BY DEF IInv, TypeOK, DisposePush
  <2> QED
    BY <1>4, <2>1, <2>2 DEF IInv, TypeOK
<1>6. /\ InHandInv'
      /\ AnsweredInv'
      /\ FreshInv'
      /\ ArgInv'
      /\ ArgDestroyedOnce'
      /\ CancelledNeverRuns'
  BY <1>4 DEF IInv, InHandInv, AnsweredInv, FreshInv, ArgInv, ArgDestroyedOnce,
     CancelledNeverRuns, Answered
<1>7. QueuesInv'
  BY <1>2, <1>3, <1>4 DEF IInv, QueuesInv
<1>8. SubmittingInv'
  <2> SUFFICES ASSUME NEW u \in Threads, pc'[u] = "push"
           PROVE  Submitting(u)'
    BY DEF SubmittingInv
  <2>1. pc[u] = "push" /\ call_id'[u] = call_id[u] /\ Submitting(u)
    BY <1>1, <1>2, <1>3, <1>4 DEF IInv, SubmittingInv
  <2> QED
    BY <2>1, <1>1, <1>2, <1>3, <1>4 DEF Submitting
<1>9. QueuedInv'
  BY <1>1, <1>2, <1>3, <1>4 DEF IInv, QueuedInv
<1>10. ThreadDataInv'
  BY <1>1, <1>4 DEF IInv, ThreadDataInv
<1>11. JobsAccounted'
  <2> SUFFICES ASSUME disposed' # "yes", NEW u \in Threads
           PROVE  Accounted(u)'
    BY DEF JobsAccounted, Accounted
  <2>1. Accounted(u) /\ heap \subseteq Ids
    BY <1>1, <1>4 DEF IInv, TypeOK, JobsAccounted
  <2>2. ASSUME NEW j \in Ids
        PROVE  j \in jobs'[u] <=>
                  j \in heap' \ (results'[u] \cup cancelled') /\ owner'[j] = u
    BY <2>1, <1>1, <1>4 DEF Accounted
  <2>3. ASSUME NEW j \in results'[u]
        PROVE  owner'[j] = u /\ j \in heap'
    BY <2>1, <1>1, <1>4 DEF Accounted
  <2>4. jobs'[u] \cup results'[u] # {} => u \in threads_hash'
    BY <2>1, <1>1, <1>4 DEF Accounted
  <2> QED
    BY <2>2, <2>3, <2>4 DEF Accounted
<1>12. DisposedQueueCancelled'
  BY <1>1, <1>2, <1>3, <1>4 DEF IInv, DisposedQueueCancelled
<1> QED
  BY <1>5, <1>6, <1>7, <1>8, <1>9, <1>10, <1>11, <1>12 DEF IInv

LEMMA DisposeThreadsStep ==
    ASSUME IInv, DisposeThreads
    PROVE  IInv'
<1> DEFINE pending == NotTaken(UNION {jobs[u] : u \in threads_hash})
           popped == UNION {results[u] : u \in threads_hash}
<1>1. /\ disposed = "pushed"
      /\ disposed' = "yes"
      /\ threads_hash' = {}
      /\ \A u \in Threads : pc[u] = "idle" /\ jobs'[u] = {} /\ results'[u] = {}
  BY DEF IInv, TypeOK, ThreadDataInv, DisposeThreads
<1>2. /\ cancelled' = cancelled \cup pending
      /\ args' = args \ pending
      /\ heap' = heap \ popped
      /\ destroyed' = ArgsDestroyed(pending \cup popped)
  BY DEF IInv, DisposeThreads, ClearedArgs
<1>3. /\ destroyed' \in [Ids -> Nat]
      /\ \A j \in Ids : destroyed'[j] = IF j \in (pending \cup popped) \cap args THEN destroyed[j] + 1 ELSE destroyed[j]
  BY <1>2, ArgsDestroyedFacts DEF IInv
<1>4. \A j \in pending : j \in Ids /\ j \in heap \ (processed \cup cancelled) /\ ran[j] = 0
  BY <1>1 DEF IInv, TypeOK, FreshInv, JobsAccounted, Accounted, NotTaken
<1>5. /\ \A j \in popped : j \in Ids /\ j \in (heap \cap processed) \ cancelled
      /\ \A j \in popped : wpc \in {"popped", "run"} => j # wjob
      /\ \A u \in Threads : popped \cap Range(from_worker[u]) = {}
  BY DEF IInv, TypeOK, AnsweredInv, Answered
<1>6. \A j \in heap \ (processed \cup cancelled) : j \in pending
  BY <1>1 DEF IInv, TypeOK, AnsweredInv, Answered, JobsAccounted, Accounted,
     NotTaken
<1> HIDE DEF pending, popped
<1>7. UNCHANGED <<next_job_id, owner, voids, processed, to_worker, from_worker, pc,
                  call_id, blocking, wpc, wjob, ran>>
  BY DEF DisposeThreads, jobVars, flags, tdVars, workerVars, callVars
<1>8. TypeOK'
  <2>1. cancelled' \subseteq Ids
    BY <1>2, <1>4 DEF IInv, TypeOK
  <2>2. args' \subseteq Ids
    BY <1>2 DEF IInv, TypeOK
  <2>3. heap' \subseteq Ids
    BY <1>2 DEF IInv, TypeOK
  <2>4. destroyed' \in [Ids -> Nat]
    BY <1>3 DEF IInv, TypeOK
  <2>5. jobs' \in [Threads -> SUBSET Ids]
    BY DEF IInv, TypeOK, DisposeThreads
  <2>6. results' \in [Threads -> SUBSET Ids]
    BY DEF IInv, TypeOK, DisposeThreads
  <2>7. threads_hash' \subseteq Threads
    BY DEF IInv, TypeOK, DisposeThreads
  <2>8. disposed' \in {"no", "pushed", "yes"}
    BY DEF IInv, TypeOK, DisposeThreads
  <2> QED
    BY <1>7, <2>1, <2>2, <2>3, <2>4, <2>5, <2>6, <2>7, <2>8 DEF IInv, TypeOK
<1>9. QueuesInv'
  BY <1>7 DEF IInv, QueuesInv
<1>10. SubmittingInv'
  <2> SUFFICES ASSUME NEW u \in Threads, pc'[u] = "push"
           PROVE  Submitting(u)'
    BY DEF SubmittingInv
  <2>1. pc[u] = "push" /\ call_id'[u] = call_id[u] /\ Submitting(u)
    BY <1>1, <1>2, <1>4, <1>5, <1>6, <1>7 DEF IInv, SubmittingInv
  <2> QED
    BY <2>1, <1>1, <1>2, <1>4, <1>5, <1>6, <1>7 DEF Submitting
<1>11. QueuedInv'
  BY <1>1, <1>2, <1>4, <1>5, <1>6, <1>7 DEF IInv, QueuedInv
<1>12. InHandInv'
  BY <1>2, <1>4, <1>5, <1>6, <1>7 DEF IInv, InHandInv
<1>13. AnsweredInv'
  <2> SUFFICES ASSUME NEW u \in Threads
           PROVE  Answered(u)'
    BY DEF AnsweredInv
  <2>1. Answered(u) /\ heap \subseteq Ids
    BY DEF IInv, TypeOK, AnsweredInv
  <2>2. Range(from_worker'[u]) \cap results'[u] = {}
    BY <2>1, <1>1, <1>2, <1>4, <1>5, <1>6, <1>7 DEF Answered
  <2>3. ASSUME NEW j \in Range(from_worker'[u]) \cup results'[u]
        PROVE  /\ j \in (heap' \cap processed') \ cancelled'
               /\ owner'[j] = u
               /\ wpc' \in {"popped", "run"} => j # wjob'
    BY <2>1, <1>1, <1>2, <1>4, <1>5, <1>6, <1>7 DEF Answered
  <2> QED
    BY <2>2, <2>3 DEF Answered
<1>14. FreshInv'
  <2>1. /\ next_job_id \in Int /\ \A j \in Ids : j \in Int
        /\ heap \cup processed \cup cancelled \subseteq Ids
        /\ FreshInv
    BY DEF IInv, TypeOK, Ids
  <2>2. \A j \in heap' \cup processed' \cup cancelled' : j < next_job_id'
    BY <2>1, <1>2, <1>3, <1>4, <1>5, <1>6, <1>7 DEF FreshInv
  <2>3. ASSUME NEW j \in Ids, j >= next_job_id'
        PROVE  destroyed'[j] = 0
    <3>1. j \notin pending \cup popped /\ destroyed[j] = 0
      BY <2>1, <2>3, <1>4, <1>5, <1>7 DEF FreshInv
    <3> QED
      BY <3>1, <1>3
  <2>4. ASSUME NEW j \in Ids, j \notin processed'
        PROVE  ran'[j] = 0
    BY <2>1, <2>4, <1>2, <1>3, <1>4, <1>5, <1>6, <1>7 DEF FreshInv
  <2> QED
    BY <2>2, <2>3, <2>4 DEF FreshInv
<1>15. ArgInv'
  BY <1>2, <1>4, <1>5, <1>6, <1>7 DEF IInv, ArgInv
<1>16. ThreadDataInv'
  BY <1>1, <1>4, <1>5, <1>6, <1>7 DEF IInv, ThreadDataInv
<1>17. JobsAccounted'
  <2> SUFFICES ASSUME disposed' # "yes", NEW u \in Threads
           PROVE  Accounted(u)'
    BY DEF JobsAccounted, Accounted
  <2>1. Accounted(u) /\ heap \subseteq Ids
    BY <1>1, <1>2, <1>4, <1>5, <1>6, <1>7 DEF IInv, TypeOK, JobsAccounted
  <2>2. ASSUME NEW j \in Ids
        PROVE  j \in jobs'[u] <=>
                  j \in heap' \ (results'[u] \cup cancelled') /\ owner'[j] = u
    BY <2>1, <1>1, <1>2, <1>4, <1>5, <1>6, <1>7 DEF Accounted
  <2>3. ASSUME NEW j \in results'[u]
        PROVE  owner'[j] = u /\ j \in heap'
    BY <2>1, <1>1, <1>2, <1>4, <1>5, <1>6, <1>7 DEF Accounted
  <2>4. jobs'[u] \cup results'[u] # {} => u \in threads_hash'
    BY <2>1, <1>1, <1>2, <1>4, <1>5, <1>6, <1>7 DEF Accounted
  <2> QED
    BY <2>2, <2>3, <2>4 DEF Accounted
<1>18. ArgDestroyedOnce'
  <2> SUFFICES ASSUME NEW j \in Ids
           PROVE  ArgDestroyed(j)'
    BY DEF ArgDestroyedOnce, ArgDestroyed
  <2>1. /\ ArgDestroyed(j)
        /\ destroyed[j] \in Nat /\ next_job_id \in Int /\ j \in Int
        /\ j \in heap => (j \in args <=> j \notin cancelled)
        /\ j \in heap \cup cancelled => j < next_job_id
        /\ j >= next_job_id => destroyed[j] = 0
    BY DEF IInv, TypeOK, ArgDestroyedOnce, ArgDestroyed, ArgInv, FreshInv, Ids
  <2>2. CASE j \in pending
    <3>1. /\ j \in (heap \cap args) \ (cancelled \cup popped)
          /\ destroyed[j] = 0
      BY <2>1, <2>2, <1>4, <1>5 DEF ArgDestroyed
    <3>2. j \in heap' \cap cancelled'
      BY <2>2, <3>1, <1>2
    <3>3. destroyed'[j] = destroyed[j] + 1
      BY <2>2, <3>1, <1>3
    <3> QED
      BY <3>1, <3>2, <3>3 DEF ArgDestroyed
  <2>3. CASE j \in popped
    <3>1. j \in (heap \cap args) \ cancelled /\ destroyed[j] = 0
      BY <2>1, <2>3, <1>5 DEF ArgDestroyed
    <3>2. j \notin heap'
      BY <2>3, <3>1, <1>2
    <3>3. destroyed'[j] = destroyed[j] + 1
      BY <2>3, <3>1, <1>3
    <3> QED
      BY <3>1, <3>2, <3>3 DEF ArgDestroyed
  <2>4. CASE j \notin pending \cup popped
    BY <2>4, <2>1, <1>2, <1>3, <1>4, <1>5, <1>6, <1>7 DEF ArgDestroyed
  <2> QED
    BY <2>2, <2>3, <2>4
<1>19. CancelledNeverRuns'
  BY <1>2, <1>4, <1>5, <1>6, <1>7 DEF IInv, CancelledNeverRuns
<1>20. DisposedQueueCancelled'
  BY <1>1, <1>2, <1>4, <1>5, <1>6, <1>7 DEF IInv, DisposedQueueCancelled, QueuedInv
<1> QED
  BY <1>8, <1>9, <1>10, <1>11, <1>12, <1>13, <1>14, <1>15, <1>16, <1>17, <1>18,
     <1>19, <1>20 DEF IInv

-----------------------------------------------------------------------------
LEMMA StutterStep ==
    ASSUME IInv, UNCHANGED vars
    PROVE  IInv'
<1>1. UNCHANGED <<next_job_id, heap, owner, voids, processed, cancelled, args, ran,
                  destroyed, to_worker, threads_hash, jobs, results, from_worker, pc,
                  call_id, blocking, wpc, wjob, disposed>>
  BY DEF vars, jobVars, flags, tdVars, workerVars, callVars
<1>2. TypeOK' /\ QueuesInv' /\ SubmittingInv' /\ QueuedInv' /\ InHandInv'
  BY <1>1 DEF IInv, TypeOK, QueuesInv, SubmittingInv, Submitting, QueuedInv,
     InHandInv
<1>3. AnsweredInv' /\ FreshInv' /\ ArgInv' /\ ThreadDataInv'
  BY <1>1 DEF IInv, AnsweredInv, Answered, FreshInv, ArgInv, ThreadDataInv
<1>4. JobsAccounted' /\ ArgDestroyedOnce' /\ CancelledNeverRuns' /\ DisposedQueueCancelled'
  BY <1>1 DEF IInv, JobsAccounted, Accounted, ArgDestroyedOnce, CancelledNeverRuns,
     DisposedQueueCancelled
<1> QED
  BY <1>2, <1>3, <1>4 DEF IInv

LEMMA NextIInv == IInv /\ [Next]_vars => IInv'
<1> SUFFICES ASSUME IInv, [Next]_vars PROVE IInv'
  OBVIOUS
<1>1. CASE \E t \in Threads : Call(t)
  BY <1>1, ExecuteBeginStep, CancelStep, IterateStep, FetchResultStep DEF Call
<1>2. CASE \E t \in Threads : Continue(t)
  BY <1>2, ExecutePushStep, IterateResultStep, IterateVoidStep, IterateEmptyStep,
     FetchFoundStep, FetchNotFoundStep DEF Continue
<1>3. CASE \E void \in BOOLEAN : ExecuteInWorker(void)
  BY <1>3, ExecuteInWorkerStep
<1>4. CASE WorkerLoop
  BY <1>4, WorkerPopStep, WorkerSkipCancelledStep, WorkerCallFuncStep,
     WorkerReplyStep, WorkerExitStep DEF WorkerLoop
<1>5. CASE DisposePush
  BY <1>5, DisposePushStep
<1>6. CASE DisposeThreads
  BY <1>6, DisposeThreadsStep
<1>7. CASE Terminated \/ UNCHANGED vars
  BY <1>7, StutterStep DEF Terminated
<1> QED
  BY <1>1, <1>2, <1>3, <1>4, <1>5, <1>6, <1>7 DEF Next

-----------------------------------------------------------------------------
(* The inductive invariant holds in every reachable state.                 *)
THEOREM SpecIInv == Spec => []IInv
  BY InitIInv, NextIInv, PTL DEF Spec

(* The wrapper's variables keep their types.                               *)
THEOREM TypeCorrect == Spec => []TypeOK
<1>1. IInv => TypeOK
  BY DEF IInv
<1> QED
  BY <1>1, SpecIInv, PTL

(* gda_thread_wrapper_cancel() and dispose(): a cancelled job is never     *)
(* executed, and no job is executed twice.                                 *)
THEOREM CancelledJobsNeverRun == Spec => []CancelledNeverRuns
<1>1. IInv => CancelledNeverRuns
  BY DEF IInv
<1> QED
  BY <1>1, SpecIInv, PTL

(* job_free(), cancel() and thread_data_remove_jobs_func() destroy a job's *)
(* argument once, whichever of them comes first.                           *)
THEOREM ArgsDestroyedOnce == Spec => []ArgDestroyedOnce
<1>1. IInv => ArgDestroyedOnce
  BY DEF IInv
<1> QED
  BY <1>1, SpecIInv, PTL

(* td->jobs and td->results account for every job of the thread.           *)
THEOREM ThreadDataAccountsForJobs == Spec => []JobsAccounted
<1>1. IInv => JobsAccounted
  BY DEF IInv
<1> QED
  BY <1>1, SpecIInv, PTL

(* After gda_thread_wrapper_dispose() the worker executes nothing more.    *)
THEOREM NothingRunsAfterDispose == Spec => []DisposedQueueCancelled
<1>1. IInv => DisposedQueueCancelled
  BY DEF IInv
<1> QED
  BY <1>1, SpecIInv, PTL

(* What get_waiting_size() counts is at least what is not yet executed.    *)
LEMMA ZeroMeansNoJobs ==
  ASSUME NEW t \in Threads, IInv, get_waiting_size(t) = 0
  PROVE  jobs[t] \subseteq cancelled
<1>1. IsFiniteSet(Ids)
  <2>1. 1 \in Int /\ MaxJobs \in Int
    BY MaxJobsAssumption
  <2> QED
    BY <2>1, FS_Interval DEF Ids
<1>2. jobs[t] \ cancelled \subseteq Ids
  BY DEF IInv, TypeOK
<1>3. IsFiniteSet(jobs[t] \ cancelled)
  BY <1>1, <1>2, FS_Subset
<1>4. jobs[t] \ cancelled = {}
  BY <1>3, FS_EmptySet DEF get_waiting_size
<1> QED
  BY <1>4

(* get_waiting_size(): a thread that is told 0 has no job left to execute. *)
THEOREM WaitingSizeMissesNothing == Spec => []ZeroMeansNothingWaits
<1>1. ASSUME IInv
      PROVE  ZeroMeansNothingWaits
  <2> SUFFICES ASSUME NEW t \in Threads, disposed # "yes", get_waiting_size(t) = 0,
                      NEW j \in (Range(to_worker) \cup InHand) \ {DESTROY},
                      owner[j] = t, j \notin cancelled
               PROVE  FALSE
    BY DEF ZeroMeansNothingWaits
  <2>1. jobs[t] \subseteq cancelled
    BY <1>1, ZeroMeansNoJobs
  <2>2. j \in Ids /\ j \in heap
    <3>1. j \in Range(to_worker) => j \in heap
      BY <1>1 DEF IInv, QueuedInv
    <3>2. j \in InHand => j \in heap
      BY <1>1 DEF IInv, InHandInv, InHand
    <3> QED
      BY <1>1, <3>1, <3>2 DEF IInv, TypeOK
  <2>3. Accounted(t)
    BY <1>1 DEF IInv, JobsAccounted
  <2>4. j \in results[t]
    BY <2>1, <2>2, <2>3 DEF Accounted
  <2>5. j \in processed /\ (wpc \in {"popped", "run"} => j # wjob)
    BY <1>1, <2>4 DEF IInv, AnsweredInv, Answered
  <2>6. j \notin Range(to_worker)
    BY <1>1, <2>5 DEF IInv, QueuedInv
  <2>7. j \notin InHand
    BY <2>5 DEF InHand
  <2> QED
    BY <2>6, <2>7
<1> QED
  BY <1>1, SpecIInv, PTL

-----------------------------------------------------------------------------
(***************************************************************************)
(* Where the jobs are, and in which order they are started.  IInv says of  *)
(* each place what is true of the jobs in it; PlacesInv adds that every    *)
(* job is in one, that the destroy job is the last one queued, and that    *)
(* the jobs a thread submitted before a queued one are over or ahead of it *)
(* in the queue.                                                           *)
(***************************************************************************)

(* The job in the worker's hands before it is known to be cancelled.       *)
JustPopped(j) == wpc = "popped" /\ wjob = j

InWorkersHands(j) == wpc \in {"popped", "run"} /\ wjob = j

(* Every allocated job is on its way, in a queue, in the worker's hands or *)
(* in a list.                                                              *)
Held(j) ==
    \/ \E t \in Threads : pc[t] = "push" /\ call_id[t] = j
    \/ j \in Range(to_worker)
    \/ InWorkersHands(j)
    \/ \E t \in Threads : j \in Range(from_worker[t]) \cup results[t]

HeldInv == \A j \in heap : Held(j)

(* Nothing follows the destroy job in the worker's queue.                  *)
DestroyLast ==
    /\ \A i \in 1..Len(to_worker) : to_worker[i] = DESTROY => i = Len(to_worker)
    /\ wpc = "exit" \/ JustPopped(DESTROY) => to_worker = <<>> /\ disposed # "no"

(* A job that was pushed is queued, popped, started or cancelled.          *)
Over(j) == ran[j] = 1 \/ j \in cancelled
Submitted(j) == Over(j) \/ JustPopped(j) \/ j \in Range(to_worker)

PushedInv ==
    \A j \in Ids : j < next_job_id /\ (pc[owner[j]] = "push" => call_id[owner[j]] # j)
        => Submitted(j)

(* Jobs with no id yet have the worker as their owner, whose jobs are      *)
(* started with the id.                                                    *)
WorkersInv ==
    /\ \A j \in Ids : j >= next_job_id => owner[j] = Worker
    /\ \A j \in Ids : j < next_job_id /\ owner[j] = Worker => ran[j] = 1

(* What a thread submitted before the job at place i of the queue.         *)
Ahead(i) ==
    \A j \in Ids : j < to_worker[i] /\ owner[j] = owner[to_worker[i]] =>
        Over(j) \/ JustPopped(j) \/ \E h \in 1..(i - 1) : to_worker[h] = j

OrderInv ==
    /\ \A i \in 1..Len(to_worker) : to_worker[i] # DESTROY => Ahead(i)
    /\ wpc = "popped" /\ wjob # DESTROY =>
          \A j \in Ids : j < wjob /\ owner[j] = owner[wjob] => Over(j)

PlacesInv == HeldInv /\ DestroyLast /\ PushedInv /\ WorkersInv /\ OrderInv

-----------------------------------------------------------------------------
(* A new wrapper has no job and an empty queue.                            *)
LEMMA InitPlaces == Init => PlacesInv
<1> SUFFICES ASSUME Init PROVE PlacesInv
  OBVIOUS
<1> USE MaxJobsAssumption DEF Init, InitFrom
<1>1. HeldInv /\ DestroyLast
  BY DEF HeldInv, DestroyLast, JustPopped
<1>2. PushedInv /\ WorkersInv /\ OrderInv
  BY DEF PushedInv, WorkersInv, OrderInv, Ids
<1> QED
  BY <1>1, <1>2 DEF PlacesInv

(* A step that leaves the worker's queue and the worker alone: it may      *)
(* cancel jobs, free some, and move replies from a queue to td->results.   *)
LEMMA CallFrame ==
    ASSUME IInv, PlacesInv,
           UNCHANGED <<next_job_id, owner, to_worker, wpc, wjob, ran>>,
           disposed # "no" => disposed' # "no",
           cancelled \subseteq cancelled',
           heap' \subseteq heap,
           \A u \in Threads : pc'[u] = "push" <=> pc[u] = "push",
           \A u \in Threads : pc[u] = "push" => call_id'[u] = call_id[u],
           \A j \in heap', u \in Threads :
               j \in Range(from_worker[u]) \cup results[u] =>
                   j \in Range(from_worker'[u]) \cup results'[u]
    PROVE  PlacesInv'
<1>1. \A j \in Ids : owner[j] \in Threads
  BY DEF IInv, TypeOK
<1>2. HeldInv'
  <2> SUFFICES ASSUME NEW j \in heap' PROVE Held(j)'
    BY DEF HeldInv
  <2>1. Held(j)
    BY DEF PlacesInv, HeldInv
  <2>2. CASE \E u \in Threads : pc[u] = "push" /\ call_id[u] = j
    BY <2>2 DEF Held
  <2>3. CASE \E u \in Threads : j \in Range(from_worker[u]) \cup results[u]
    BY <2>3 DEF Held
  <2>4. CASE j \in Range(to_worker) \/ InWorkersHands(j)
    BY <2>4 DEF Held, InWorkersHands
  <2> QED
    BY <2>1, <2>2, <2>3, <2>4 DEF Held
<1>3. DestroyLast' /\ WorkersInv'
  BY DEF PlacesInv, DestroyLast, WorkersInv, JustPopped
<1>4. \A j : Over(j) => Over(j)'
  BY DEF Over
<1>5. PushedInv'
  BY <1>1, <1>4 DEF PlacesInv, PushedInv, Submitted, JustPopped
<1>6. OrderInv'
  BY <1>4 DEF PlacesInv, OrderInv, Ahead, JustPopped
<1> QED
  BY <1>2, <1>3, <1>5, <1>6 DEF PlacesInv

(* cancel(), iterate() and fetch_result() neither queue nor start a job.   *)
LEMMA CallsPlaces ==
    ASSUME IInv, PlacesInv, NEW t \in Threads,
           \/ \E id \in Ids : Cancel(t, id)
           \/ \E may \in BOOLEAN : Iterate(t, may)
           \/ \E may \in BOOLEAN, id \in Ids : FetchResult(t, may, id)
    PROVE  PlacesInv'
<1> USE DEF jobVars, flags, tdVars, workerVars, callVars
<1>1. CASE \E id \in Ids : Cancel(t, id)
  BY <1>1, CallFrame DEF Cancel
<1>2. CASE \E may \in BOOLEAN : Iterate(t, may)
  BY <1>2, CallFrame DEF Iterate, CanCall, IInv, TypeOK
<1>3. CASE \E may \in BOOLEAN, id \in Ids : FetchResult(t, may, id)
  <2>1. /\ \A u \in Threads : pc'[u] = "push" <=> pc[u] = "push"
        /\ \A u \in Threads : pc[u] = "push" => call_id'[u] = call_id[u]
    BY <1>3 DEF FetchResult, CanCall, IInv, TypeOK
  <2> QED
    BY <1>3, <2>1, CallFrame DEF FetchResult
<1> QED
  BY <1>1, <1>2, <1>3

(* The second halves of iterate() and fetch_result(): what is freed was in *)
(* td->results only.                                                       *)
LEMMA ContinuesPlaces ==
    ASSUME IInv, PlacesInv, NEW t \in Threads,
           \/ IterateResult(t) \/ IterateVoid(t) \/ IterateEmpty(t)
           \/ FetchFound(t) \/ FetchNotFound(t)
    PROVE  PlacesInv'
<1> USE DEF jobVars, flags, tdVars, workerVars, callVars
<1>1. ASSUME from_worker[t] # <<>>, from_worker' = [from_worker EXCEPT ![t] = Tail(@)]
      PROVE  \A u \in Threads : Range(from_worker'[u]) =
                 IF u = t THEN Range(from_worker[t]) \ {Head(from_worker[t])}
                 ELSE Range(from_worker[u])
  BY <1>1, ReplyPopped
<1>2. CASE IterateResult(t)
  <2>1. \A u \in Threads : pc'[u] = "push" <=> pc[u] = "push"
    BY <1>2 DEF IterateResult, Iterating, Return, IInv, TypeOK
  <2>2. \A u \in Threads : pc[u] = "push" => call_id'[u] = call_id[u]
    BY <1>2 DEF IterateResult, Iterating, Return, IInv, TypeOK
  <2>3. ASSUME NEW j \in heap', NEW u \in Threads, j \in Range(from_worker[u]) \cup results[u]
        PROVE  j \in Range(from_worker'[u]) \cup results'[u]
    <3>1. Head(from_worker[t]) \in results'[t] /\ results[t] \subseteq results'[t]
      BY <1>2 DEF IterateResult, IInv, TypeOK
    <3>2. u # t => results'[u] = results[u]
      BY <1>2 DEF IterateResult, IInv, TypeOK
    <3>3. Range(from_worker'[u]) = IF u = t THEN Range(from_worker[t]) \ {Head(from_worker[t])}
                                   ELSE Range(from_worker[u])
      BY <1>1, <1>2 DEF IterateResult
    <3> QED
      BY <2>3, <3>1, <3>2, <3>3
  <2> QED
    BY <1>2, <2>1, <2>2, <2>3, CallFrame DEF IterateResult
<1>3. CASE IterateVoid(t)
  <2>1. heap' = heap \ {Head(from_worker[t])}
    BY <1>3 DEF IterateVoid, job_free
  <2>2. ASSUME NEW j \in heap', NEW u \in Threads, j \in Range(from_worker[u]) \cup results[u]
        PROVE  j \in Range(from_worker'[u]) \cup results'[u]
    BY <1>1, <1>3, <2>1, <2>2 DEF IterateVoid
  <2> QED
    BY <1>3, <2>1, <2>2, CallFrame DEF IterateVoid
<1>4. CASE IterateEmpty(t)
  BY <1>4, CallFrame DEF IterateEmpty, Iterating, Return, IInv, TypeOK
<1>5. CASE FetchFound(t)
  <2>1. heap' = heap \ {call_id[t]}
    BY <1>5 DEF FetchFound, job_free
  <2>2. \A u \in Threads : pc'[u] = "push" <=> pc[u] = "push"
    BY <1>5 DEF FetchFound, Return, IInv, TypeOK
  <2>3. \A u \in Threads : pc[u] = "push" => call_id'[u] = call_id[u]
    BY <1>5 DEF FetchFound, Return, IInv, TypeOK
  <2>4. ASSUME NEW j \in heap', NEW u \in Threads, j \in Range(from_worker[u]) \cup results[u]
        PROVE  j \in Range(from_worker'[u]) \cup results'[u]
    BY <1>5, <2>1, <2>4 DEF FetchFound, IInv, TypeOK
  <2> QED
    BY <1>5, <2>1, <2>2, <2>3, <2>4, CallFrame DEF FetchFound
<1>6. CASE FetchNotFound(t)
  BY <1>6, CallFrame DEF FetchNotFound, IInv, TypeOK
<1> QED
  BY <1>2, <1>3, <1>4, <1>5, <1>6

(* dispose() frees the jobs in td->results, and those were in no queue.    *)
LEMMA DisposeThreadsPlaces ==
    ASSUME IInv, PlacesInv, DisposeThreads
    PROVE  PlacesInv'
<1>1. \A u \in Threads : pc[u] = "idle"
  BY DEF IInv, ThreadDataInv, DisposeThreads
<1>2. heap' = heap \ UNION {results[u] : u \in threads_hash}
  BY DEF DisposeThreads
<1>3. \A u \in Threads : results[u] # {} => u \in threads_hash
  BY DEF IInv, ThreadDataInv
<1>4. ASSUME NEW j \in heap', NEW u \in Threads, j \in Range(from_worker[u]) \cup results[u]
      PROVE  j \in Range(from_worker'[u]) \cup results'[u]
  <2>1. j \notin results[u]
    BY <1>2, <1>3
  <2> QED
    BY <1>4, <2>1 DEF DisposeThreads
<1>5. /\ UNCHANGED <<next_job_id, owner, to_worker, wpc, wjob, ran, pc, call_id>>
      /\ disposed' = "yes"
      /\ cancelled \subseteq cancelled'
  BY DEF DisposeThreads, callVars, workerVars
<1> QED
  BY <1>1, <1>2, <1>4, <1>5, CallFrame

-----------------------------------------------------------------------------
(* A job gets its id: the largest one, and on its way to the queue.        *)
LEMMA ExecuteBeginPlaces ==
    ASSUME IInv, PlacesInv, NEW t \in Threads, NEW void \in BOOLEAN, ExecuteBegin(t, void)
    PROVE  PlacesInv'
<1>1. /\ next_job_id \in Ids
      /\ next_job_id' = next_job_id + 1
      /\ heap' = heap \cup {next_job_id}
      /\ disposed = "no"
      /\ t \in Clients
      /\ pc[t] = "idle"
  BY MaxJobsAssumption DEF ExecuteBegin, CanCall, NewJob, IInv, TypeOK, Ids
<1>2. \A j \in Ids : owner'[j] = IF j = next_job_id THEN t ELSE owner[j]
  BY <1>1 DEF ExecuteBegin, NewJob, IInv, TypeOK
<1>3. /\ \A u \in Threads : pc'[u] = IF u = t THEN "push" ELSE pc[u]
      /\ \A u \in Threads : call_id'[u] = IF u = t THEN next_job_id ELSE call_id[u]
  BY DEF ExecuteBegin, IInv, TypeOK
<1>4. UNCHANGED <<cancelled, to_worker, results, from_worker, wpc, wjob, disposed, ran>>
  BY DEF ExecuteBegin, workerVars
<1>5. /\ \A j \in Ids : owner[j] \in Threads
      /\ next_job_id \in Int /\ \A j \in Ids : j \in Int
      /\ \A i \in 1..Len(to_worker) : to_worker[i] # DESTROY =>
            to_worker[i] \in Ids /\ to_worker[i] < next_job_id
      /\ wpc = "popped" /\ wjob # DESTROY => wjob \in Ids /\ wjob < next_job_id
  <2>1. /\ heap \subseteq Ids /\ \A j \in heap : j < next_job_id
        /\ \A j \in Ids : owner[j] \in Threads
    BY DEF IInv, TypeOK, FreshInv
  <2> Ids \subseteq Int
    BY DEF Ids
  <2>2. \A i \in 1..Len(to_worker) : to_worker[i] \in Range(to_worker)
    BY DEF IInv, TypeOK, Range
  <2>3. \A i \in 1..Len(to_worker) : to_worker[i] # DESTROY => to_worker[i] \in heap
    BY <2>2 DEF IInv, QueuedInv
  <2>4. wpc = "popped" /\ wjob # DESTROY => wjob \in heap
    BY DEF IInv, InHandInv
  <2>5. next_job_id \in Int
    BY <1>1 DEF Ids
  <2> QED
    BY <2>1, <2>3, <2>4, <2>5
<1>6. HeldInv'
  <2> SUFFICES ASSUME NEW j \in heap' PROVE Held(j)'
    BY DEF HeldInv
  <2>1. CASE j = next_job_id
    BY <2>1, <1>3 DEF Held
  <2>2. CASE j # next_job_id
    <3>1. Held(j)
      BY <2>2, <1>1 DEF PlacesInv, HeldInv
    <3> QED
      BY <3>1, <1>1, <1>3, <1>4 DEF Held, InWorkersHands
  <2> QED
    BY <2>1, <2>2
<1>7. DestroyLast'
  BY <1>4 DEF PlacesInv, DestroyLast, JustPopped
<1>8. \A j : (Over(j)' <=> Over(j)) /\ (Submitted(j)' <=> Submitted(j))
  BY <1>4 DEF Over, Submitted, JustPopped
<1>9. PushedInv'
  <2> SUFFICES ASSUME NEW j \in Ids, j < next_job_id',
                      pc'[owner'[j]] = "push" => call_id'[owner'[j]] # j
               PROVE  Submitted(j)'
    BY DEF PushedInv
  <2>1. j # next_job_id /\ owner'[j] = owner[j] /\ j < next_job_id
    BY <1>1, <1>2, <1>3, <1>5
  <2>2. pc[owner[j]] = "push" => call_id[owner[j]] # j
    BY <1>1, <1>3, <1>5, <2>1
  <2> QED
    BY <1>8, <2>1, <2>2 DEF PlacesInv, PushedInv
<1>10. WorkersInv'
  <2>1. ASSUME NEW j \in Ids, j >= next_job_id' PROVE owner'[j] = Worker
    BY <2>1, <1>1, <1>2, <1>5 DEF PlacesInv, WorkersInv
  <2>2. ASSUME NEW j \in Ids, j < next_job_id', owner'[j] = Worker PROVE ran'[j] = 1
    <3>1. j # next_job_id
      BY <2>2, <1>1, <1>2, WorkerAssumption
    <3>2. j < next_job_id
      <4>1. j \in Int /\ next_job_id \in Int /\ next_job_id' = next_job_id + 1
        BY <1>1, <1>5
      <4> QED
        BY <2>2, <3>1, <4>1
    <3> QED
      BY <2>2, <3>1, <3>2, <1>2, <1>4 DEF PlacesInv, WorkersInv
  <2> QED
    BY <2>1, <2>2 DEF WorkersInv
<1>11. OrderInv'
  <2>1. ASSUME NEW i \in 1..Len(to_worker), to_worker[i] # DESTROY
        PROVE  Ahead(i)'
    <3>1. Ahead(i) /\ to_worker[i] \in Ids /\ to_worker[i] < next_job_id
      BY <2>1, <1>5 DEF PlacesInv, OrderInv
    <3> SUFFICES ASSUME NEW j \in Ids, j < to_worker[i], owner'[j] = owner'[to_worker[i]]
                 PROVE  Over(j) \/ JustPopped(j) \/ \E h \in 1..(i - 1) : to_worker[h] = j
      BY <1>4, <1>8 DEF Ahead, JustPopped
    <3>2. j # next_job_id /\ to_worker[i] # next_job_id
      BY <3>1, <1>5
    <3> QED
      BY <3>1, <3>2, <1>2 DEF Ahead
  <2>2. ASSUME wpc = "popped", wjob # DESTROY, NEW j \in Ids, j < wjob, owner'[j] = owner'[wjob]
        PROVE  Over(j)
    <3>1. wjob \in Ids /\ j # next_job_id /\ wjob # next_job_id
      BY <2>2, <1>5
    <3> QED
      BY <2>2, <3>1, <1>2 DEF PlacesInv, OrderInv
  <2> QED
    BY <2>1, <2>2, <1>4, <1>8 DEF OrderInv
<1> QED
  BY <1>6, <1>7, <1>9, <1>10, <1>11 DEF PlacesInv

(* The job is queued behind all that its thread queued.                    *)
LEMMA ExecutePushPlaces ==
    ASSUME IInv, PlacesInv, NEW t \in Threads, ExecutePush(t)
    PROVE  PlacesInv'
<1> DEFINE n == Len(to_worker)
           c == call_id[t]
<1>1. /\ disposed = "no"
      /\ c \in heap \cap Ids
      /\ c \notin Range(to_worker)
      /\ owner[c] = t
      /\ c < next_job_id
      /\ c # DESTROY
      /\ pc[t] = "push"
  BY DEF ExecutePush, IInv, SubmittingInv, Submitting, FreshInv, Ids, DESTROY
<1>2. /\ to_worker' = Append(to_worker, c)
      /\ Len(to_worker') = n + 1
      /\ n \in Nat
      /\ \A i \in 1..n : to_worker'[i] = to_worker[i]
      /\ to_worker'[n + 1] = c
  BY DEF ExecutePush, Pushed, IInv, TypeOK
<1>3. Range(to_worker') = Range(to_worker) \cup {c}
  BY <1>1, <1>2, JobPushed DEF IInv, TypeOK
<1>4. \A u \in Threads : pc'[u] = IF u = t THEN "idle" ELSE pc[u]
  BY DEF ExecutePush, Return, IInv, TypeOK
<1>5. \A u \in Threads : u # t => call_id'[u] = call_id[u]
  BY DEF ExecutePush, Return, IInv, TypeOK
<1>6. UNCHANGED <<next_job_id, heap, owner, cancelled, results, from_worker, wpc, wjob,
                  disposed, ran>>
  BY DEF ExecutePush, jobVars, flags, tdVars, workerVars
<1>7. \A j \in Ids : owner[j] \in Threads
  BY DEF IInv, TypeOK
<1>8. \A j : (Over(j)' <=> Over(j)) /\ (JustPopped(j)' <=> JustPopped(j))
  BY <1>6 DEF Over, JustPopped
<1> HIDE DEF n, c
<1>9. HeldInv'
  <2> SUFFICES ASSUME NEW j \in heap PROVE Held(j)'
    BY <1>6 DEF HeldInv
  <2>1. Held(j)
    BY DEF PlacesInv, HeldInv
  <2>2. CASE \E u \in Threads : pc[u] = "push" /\ call_id[u] = j
    BY <2>2, <1>3, <1>4, <1>5 DEF Held, c
  <2>3. CASE j \in Range(to_worker) \/ InWorkersHands(j)
    BY <2>3, <1>3, <1>6 DEF Held, InWorkersHands
  <2>4. CASE \E u \in Threads : j \in Range(from_worker[u]) \cup results[u]
    BY <2>4, <1>6 DEF Held
  <2> QED
    BY <2>1, <2>2, <2>3, <2>4 DEF Held
<1>10. DestroyLast'
  <2>1. ASSUME NEW i \in 1..(n + 1), to_worker'[i] = DESTROY PROVE FALSE
    <3>1. i \in 1..n
      BY <2>1, <1>1, <1>2
    <3>2. to_worker[i] = DESTROY /\ i \in DOMAIN to_worker
      BY <2>1, <3>1, <1>2 DEF IInv, TypeOK, n
    <3> QED
      BY <3>2, <1>1 DEF IInv, QueuedInv, Range
  <2>2. ~(wpc = "exit" \/ JustPopped(DESTROY))
    BY <1>1 DEF PlacesInv, DestroyLast
  <2> QED
    BY <2>1, <2>2, <1>2, <1>6, <1>8 DEF DestroyLast
<1>11. PushedInv'
  <2> SUFFICES ASSUME NEW j \in Ids, j < next_job_id,
                      pc'[owner[j]] = "push" => call_id'[owner[j]] # j
               PROVE  Submitted(j)'
    BY <1>6 DEF PushedInv
  <2>1. CASE j = c
    BY <2>1, <1>3 DEF Submitted
  <2>2. CASE j # c
    <3>1. pc[owner[j]] = "push" => call_id[owner[j]] # j
      BY <2>2, <1>4, <1>5, <1>7 DEF c
    <3>2. Submitted(j)
      BY <3>1 DEF PlacesInv, PushedInv
    <3> QED
      BY <3>2, <1>3, <1>8 DEF Submitted
  <2> QED
    BY <2>1, <2>2
<1>12. WorkersInv'
  BY <1>6 DEF PlacesInv, WorkersInv
<1>13. OrderInv'
  <2>1. ASSUME NEW i \in 1..n, to_worker[i] # DESTROY
        PROVE  Ahead(i)'
    <3>1. Ahead(i)
      BY <2>1 DEF PlacesInv, OrderInv, n
    <3>2. \A h \in 1..(i - 1) : h \in 1..n
      BY <1>2
    <3> QED
      BY <3>1, <3>2, <1>2, <1>6, <1>8 DEF Ahead
  <2>2. ASSUME NEW i \in 1..(n + 1), i = n + 1
        PROVE  Ahead(i)'
    <3>1. to_worker'[i] = c /\ i - 1 = n
      BY <2>2, <1>2
    <3>2. ASSUME NEW j \in Ids, j < c, owner[j] = t
          PROVE  Over(j) \/ JustPopped(j) \/ \E h \in 1..n : to_worker'[h] = j
      <4>1. j < next_job_id /\ j # c
        BY <3>2, <1>1 DEF IInv, TypeOK, Ids
      <4>2. Submitted(j)
        BY <3>2, <4>1 DEF PlacesInv, PushedInv, c
      <4>3. j \in Range(to_worker) => \E h \in 1..n : to_worker[h] = j
        BY DEF Range, IInv, TypeOK, n
      <4> QED
        BY <4>2, <4>3, <1>2 DEF Submitted
    <3>3. \A j \in Ids : j < to_worker'[i] /\ owner'[j] = owner'[to_worker'[i]]
            => j < c /\ owner[j] = t
      BY <3>1, <1>1, <1>6
    <3> QED
      BY <3>1, <3>2, <3>3, <1>8 DEF Ahead
  <2>3. ASSUME NEW i \in 1..(n + 1), to_worker'[i] # DESTROY
        PROVE  Ahead(i)'
    <3>1. CASE i \in 1..n
      <4>1. to_worker[i] # DESTROY
        BY <3>1, <2>3, <1>2
      <4> QED
        BY <4>1, <3>1, <2>1
    <3>2. CASE i = n + 1
      BY <3>2, <2>2
    <3> QED
      BY <3>1, <3>2, <1>2
  <2>4. wpc = "popped" /\ wjob # DESTROY =>
            \A j \in Ids : j < wjob /\ owner[j] = owner[wjob] => Over(j)
    BY DEF PlacesInv, OrderInv
  <2> QED
    BY <2>3, <2>4, <1>2, <1>6, <1>8 DEF OrderInv
<1> QED
  BY <1>9, <1>10, <1>11, <1>12, <1>13 DEF PlacesInv

(* A job submitted by the worker is executed on the spot.                  *)
LEMMA ExecuteInWorkerPlaces ==
    ASSUME IInv, PlacesInv, NEW void \in BOOLEAN, ExecuteInWorker(void)
    PROVE  PlacesInv'
<1> DEFINE n == next_job_id
<1>1. /\ n \in Ids
      /\ next_job_id' = n + 1
      /\ heap' = heap \cup {n}
      /\ disposed = "no"
      /\ wpc = "run"
      /\ Worker \in Threads
  BY MaxJobsAssumption DEF ExecuteInWorker, CanCall, NewJob, IInv, TypeOK, Ids, Threads
<1>2. /\ owner[n] = Worker
      /\ owner' = owner
  <2>1. owner[n] = Worker
    BY <1>1 DEF PlacesInv, WorkersInv, Ids
  <2> QED
    BY <2>1, <1>1 DEF ExecuteInWorker, NewJob, IInv, TypeOK
<1>3. \A j \in Ids : ran'[j] = IF j = n THEN 1 ELSE ran[j]
  <2>1. n \notin processed
    BY <1>1 DEF IInv, FreshInv, Ids
  <2>2. ran[n] = 0
    BY <2>1, <1>1 DEF IInv, FreshInv
  <2> QED
    BY <2>2, <1>1 DEF ExecuteInWorker, IInv, TypeOK
<1>4. \A u \in Threads : Range(from_worker'[u]) =
         IF u = Worker THEN Range(from_worker[u]) \cup {n} ELSE Range(from_worker[u])
  <2>1. n \notin heap
    BY <1>1 DEF IInv, FreshInv, Ids
  <2>2. n \notin Range(from_worker[Worker])
    BY <2>1, <1>1 DEF IInv, AnsweredInv, Answered
  <2> QED
    BY <2>2, <1>1, ReplyAppended DEF ExecuteInWorker
<1>5. UNCHANGED <<cancelled, to_worker, results, pc, call_id, wpc, wjob, disposed>>
  BY DEF ExecuteInWorker, callVars, workerVars
<1>6. n \in Int /\ \A j \in Ids : j \in Int
  BY <1>1 DEF Ids
<1>7. \A j \in Ids : (Over(j) => Over(j)') /\ (JustPopped(j)' <=> JustPopped(j))
  BY <1>3, <1>5 DEF Over, JustPopped
<1> HIDE DEF n
<1>8. HeldInv'
  <2> SUFFICES ASSUME NEW j \in heap' PROVE Held(j)'
    BY DEF HeldInv
  <2>1. CASE j = n
    BY <2>1, <1>1, <1>4 DEF Held
  <2>2. CASE j # n
    <3>1. Held(j)
      BY <2>2, <1>1 DEF PlacesInv, HeldInv
    <3>2. \A u \in Threads : j \in Range(from_worker[u]) \cup results[u] =>
             j \in Range(from_worker'[u]) \cup results'[u]
      BY <1>4, <1>5
    <3> QED
      BY <3>1, <3>2, <1>5 DEF Held, InWorkersHands
  <2> QED
    BY <2>1, <2>2
<1>9. DestroyLast'
  BY <1>5 DEF PlacesInv, DestroyLast, JustPopped
<1>10. PushedInv'
  <2> SUFFICES ASSUME NEW j \in Ids, j < n + 1,
                      pc[owner[j]] = "push" => call_id[owner[j]] # j
               PROVE  Submitted(j)'
    BY <1>1, <1>2, <1>5 DEF PushedInv
  <2>1. CASE j = n
    BY <2>1, <1>3 DEF Submitted, Over
  <2>2. CASE j # n
    <3>1. j < next_job_id
      BY <2>2, <1>6 DEF n
    <3>2. Submitted(j)
      BY <3>1 DEF PlacesInv, PushedInv
    <3> QED
      BY <3>2, <1>5, <1>7 DEF Submitted
  <2> QED
    BY <2>1, <2>2
<1>11. WorkersInv'
  <2>1. ASSUME NEW j \in Ids, j >= n + 1 PROVE owner[j] = Worker
    BY <2>1, <1>6 DEF PlacesInv, WorkersInv, n
  <2>2. ASSUME NEW j \in Ids, j < n + 1, owner[j] = Worker PROVE ran'[j] = 1
    <3>1. CASE j = n
      BY <3>1, <1>3
    <3>2. CASE j # n
      <4>1. j < next_job_id
        BY <3>2, <2>2, <1>6 DEF n
      <4> QED
        BY <4>1, <2>2, <3>2, <1>3 DEF PlacesInv, WorkersInv
    <3> QED
      BY <3>1, <3>2
  <2> QED
    BY <2>1, <2>2, <1>1, <1>2 DEF WorkersInv
<1>12. OrderInv'
  <2>1. ASSUME NEW i \in 1..Len(to_worker), to_worker[i] # DESTROY
        PROVE  Ahead(i)'
    <3>1. Ahead(i)
      BY <2>1 DEF PlacesInv, OrderInv
    <3> QED
      BY <3>1, <1>2, <1>5, <1>7 DEF Ahead
  <2>2. wpc' # "popped"
    BY <1>1, <1>5
  <2> QED
    BY <2>1, <2>2, <1>5 DEF OrderInv
<1> QED
  BY <1>8, <1>9, <1>10, <1>11, <1>12 DEF PlacesInv

-----------------------------------------------------------------------------
(* The head of the queue moves to the hands of the worker.                 *)
LEMMA WorkerPopPlaces ==
    ASSUME IInv, PlacesInv, WorkerPop
    PROVE  PlacesInv'
<1> DEFINE n == Len(to_worker)
           first == Head(to_worker)
<1>1. /\ to_worker \in Seq(0..MaxJobs) /\ to_worker # <<>> /\ NoRepeats(to_worker)
      /\ to_worker' = Tail(to_worker)
      /\ wpc = "pop" /\ wpc' = "popped" /\ wjob' = first
  BY DEF WorkerPop, IInv, TypeOK, QueuesInv
<1>2. /\ Len(to_worker') = n - 1
      /\ n \in Nat /\ n >= 1
      /\ first = to_worker[1]
      /\ \A i \in 1..(n - 1) : to_worker'[i] = to_worker[i + 1]
  BY <1>1
<1>3. Range(to_worker') = Range(to_worker) \ {first}
  BY <1>1, TailFacts
<1>4. UNCHANGED <<next_job_id, heap, owner, cancelled, results, from_worker, pc, call_id,
                  disposed, ran>>
  BY DEF WorkerPop, tdVars, callVars
<1>5. \A j : (Over(j)' <=> Over(j)) /\ (JustPopped(j)' <=> j = first) /\ ~JustPopped(j)
  BY <1>1, <1>4 DEF Over, JustPopped
<1> HIDE DEF n, first
<1>6. HeldInv'
  <2> SUFFICES ASSUME NEW j \in heap PROVE Held(j)'
    BY <1>4 DEF HeldInv
  <2>1. Held(j)
    BY DEF PlacesInv, HeldInv
  <2>2. CASE j \in Range(to_worker)
    BY <2>2, <1>1, <1>3 DEF Held, InWorkersHands
  <2>3. CASE j \notin Range(to_worker)
    BY <2>1, <2>3, <1>1, <1>4 DEF Held, InWorkersHands
  <2> QED
    BY <2>2, <2>3
<1>7. DestroyLast'
  <2>1. ASSUME NEW i \in 1..(n - 1), to_worker'[i] = DESTROY PROVE i = n - 1
    <3>1. i + 1 \in 1..n /\ to_worker[i + 1] = DESTROY
      BY <2>1, <1>2
    <3>2. i + 1 = n
      BY <3>1 DEF PlacesInv, DestroyLast, n
    <3> QED
      BY <3>2, <1>2
  <2>2. ASSUME first = DESTROY PROVE to_worker' = <<>> /\ disposed # "no"
    <3>1. n = 1
      BY <2>2, <1>2 DEF PlacesInv, DestroyLast, n
    <3>2. to_worker' = <<>>
      BY <3>1, <1>1, <1>2
    <3>3. DESTROY \in Range(to_worker)
      BY <2>2, <1>1, TailFacts DEF first
    <3> QED
      BY <3>2, <3>3 DEF IInv, QueuedInv
  <2>3. wpc' # "exit"
    BY <1>1
  <2> QED
    BY <2>1, <2>2, <2>3, <1>2, <1>4, <1>5 DEF DestroyLast
<1>8. PushedInv'
  BY <1>3, <1>4, <1>5 DEF PlacesInv, PushedInv, Submitted
<1>9. WorkersInv'
  BY <1>4 DEF PlacesInv, WorkersInv
<1>10. OrderInv'
  <2>1. ASSUME NEW i \in 1..(n - 1), to_worker'[i] # DESTROY
        PROVE  Ahead(i)'
    <3>1. i + 1 \in 1..n /\ to_worker'[i] = to_worker[i + 1]
      BY <1>2
    <3>2. Ahead(i + 1)
      BY <2>1, <3>1 DEF PlacesInv, OrderInv, n
    <3>3. ASSUME NEW j \in Ids, j < to_worker[i + 1], owner[j] = owner[to_worker[i + 1]]
          PROVE  Over(j) \/ j = first \/ \E h \in 1..(i - 1) : to_worker'[h] = j
      <4>1. Over(j) \/ \E h \in 1..((i + 1) - 1) : to_worker[h] = j
        BY <3>2, <3>3, <1>5 DEF Ahead
      <4>2. ASSUME NEW h \in 1..((i + 1) - 1), to_worker[h] = j, h # 1
            PROVE  \E k \in 1..(i - 1) : to_worker'[k] = j
        <5>1. h - 1 \in 1..(i - 1) /\ h - 1 \in 1..(n - 1) /\ (h - 1) + 1 = h
          BY <4>2, <1>2
        <5>2. to_worker'[h - 1] = j
          BY <4>2, <5>1, <1>2
        <5> QED
          BY <5>1, <5>2
      <4> QED
        BY <4>1, <4>2, <1>2
    <3> QED
      BY <3>1, <3>3, <1>4, <1>5 DEF Ahead
  <2>2. ASSUME first # DESTROY, NEW j \in Ids, j < first, owner[j] = owner[first]
        PROVE  Over(j)
    <3>1. Ahead(1)
      BY <2>2, <1>2 DEF PlacesInv, OrderInv, n
    <3>2. 1..(1 - 1) = {}
      OBVIOUS
    <3> QED
      BY <2>2, <3>1, <3>2, <1>2, <1>5 DEF Ahead
  <2> QED
    BY <2>1, <2>2, <1>1, <1>2, <1>4, <1>5 DEF OrderInv
<1> QED
  BY <1>6, <1>7, <1>8, <1>9, <1>10 DEF PlacesInv

(* A cancelled job is freed without being started.                         *)
LEMMA WorkerSkipCancelledPlaces ==
    ASSUME IInv, PlacesInv, WorkerSkipCancelled
    PROVE  PlacesInv'
<1>1. /\ wpc = "popped" /\ wpc' = "pop" /\ wjob \in cancelled /\ wjob # DESTROY
      /\ heap' = heap \ {wjob}
      /\ UNCHANGED <<next_job_id, owner, cancelled, to_worker, results, from_worker, pc,
                     call_id, disposed, ran>>
  BY DEF WorkerSkipCancelled, job_free, flags, tdVars, callVars
<1>2. HeldInv'
  BY <1>1 DEF PlacesInv, HeldInv, Held, InWorkersHands
<1>3. DestroyLast'
  BY <1>1 DEF PlacesInv, DestroyLast, JustPopped
<1>4. \A j : (Over(j)' <=> Over(j)) /\ (JustPopped(j) => Over(j))
  BY <1>1 DEF Over, JustPopped
<1>5. PushedInv' /\ WorkersInv'
  BY <1>1, <1>4 DEF PlacesInv, PushedInv, WorkersInv, Submitted
<1>6. OrderInv'
  BY <1>1, <1>4 DEF PlacesInv, OrderInv, Ahead
<1> QED
  BY <1>2, <1>3, <1>5, <1>6 DEF PlacesInv

(* The popped job is started: it is over for those behind it.              *)
LEMMA WorkerCallFuncPlaces ==
    ASSUME IInv, PlacesInv, WorkerCallFunc
    PROVE  PlacesInv'
<1>1. /\ wpc = "popped" /\ wpc' = "run" /\ wjob # DESTROY /\ wjob \in Ids
      /\ UNCHANGED <<next_job_id, heap, owner, cancelled, to_worker, results, from_worker,
                     pc, call_id, wjob, disposed>>
  BY DEF WorkerCallFunc, IInv, TypeOK, InHandInv, flags, tdVars, callVars
<1>2. \A j \in Ids : ran'[j] = IF j = wjob THEN 1 ELSE ran[j]
  BY <1>1 DEF WorkerCallFunc, IInv, TypeOK, InHandInv
<1>3. HeldInv'
  BY <1>1 DEF PlacesInv, HeldInv, Held, InWorkersHands
<1>4. DestroyLast'
  BY <1>1 DEF PlacesInv, DestroyLast, JustPopped
<1>5. \A j \in Ids : Over(j) \/ JustPopped(j) => Over(j)'
  BY <1>1, <1>2 DEF Over, JustPopped
<1>6. PushedInv' /\ WorkersInv'
  BY <1>1, <1>2, <1>5 DEF PlacesInv, PushedInv, WorkersInv, Submitted
<1>7. OrderInv'
  BY <1>1, <1>5 DEF PlacesInv, OrderInv, Ahead
<1> QED
  BY <1>3, <1>4, <1>6, <1>7 DEF PlacesInv

(* The executed job is pushed to the queue of its thread.                  *)
LEMMA WorkerReplyPlaces ==
    ASSUME IInv, PlacesInv, WorkerReply
    PROVE  PlacesInv'
<1>1. /\ wpc = "run" /\ wpc' = "pop"
      /\ UNCHANGED <<next_job_id, heap, owner, cancelled, to_worker, results, pc, call_id,
                     disposed, ran>>
  BY DEF WorkerReply, jobVars, flags, callVars
<1>2. \A u \in Threads : wjob \notin Range(from_worker[u])
  BY <1>1 DEF IInv, AnsweredInv, Answered
<1>3. wjob \in Ids /\ owner[wjob] \in Threads
  BY <1>1 DEF IInv, TypeOK, InHandInv
<1>4. \A u \in Threads : Range(from_worker'[u]) =
         IF u = owner[wjob] THEN Range(from_worker[u]) \cup {wjob} ELSE Range(from_worker[u])
  BY <1>2, <1>3, ReplyAppended DEF WorkerReply, reply_queue
<1>5. HeldInv'
  <2> SUFFICES ASSUME NEW j \in heap PROVE Held(j)'
    BY <1>1 DEF HeldInv
  <2>1. Held(j)
    BY DEF PlacesInv, HeldInv
  <2>2. CASE InWorkersHands(j)
    BY <2>2, <1>3, <1>4 DEF Held, InWorkersHands
  <2>3. CASE ~InWorkersHands(j)
    BY <2>1, <2>3, <1>1, <1>4 DEF Held
  <2> QED
    BY <2>2, <2>3
<1>6. DestroyLast'
  BY <1>1 DEF PlacesInv, DestroyLast, JustPopped
<1>7. \A j : (Over(j)' <=> Over(j)) /\ ~JustPopped(j)
  BY <1>1 DEF Over, JustPopped
<1>8. PushedInv' /\ WorkersInv'
  BY <1>1, <1>7 DEF PlacesInv, PushedInv, WorkersInv, Submitted
<1>9. OrderInv'
  BY <1>1, <1>7 DEF PlacesInv, OrderInv, Ahead
<1> QED
  BY <1>5, <1>6, <1>8, <1>9 DEF PlacesInv

(* The destroy job ends the worker.                                        *)
LEMMA WorkerExitPlaces ==
    ASSUME IInv, PlacesInv, WorkerExit
    PROVE  PlacesInv'
<1>1. /\ wpc = "popped" /\ wjob = DESTROY /\ wpc' = "exit"
      /\ UNCHANGED <<next_job_id, heap, owner, cancelled, to_worker, results, from_worker,
                     pc, call_id, wjob, disposed, ran>>
  BY DEF WorkerExit, jobVars, flags, tdVars, callVars
<1>2. /\ DESTROY \notin Ids /\ DESTROY \notin heap
      /\ \A j \in Ids : ~JustPopped(j)
  BY <1>1 DEF IInv, TypeOK, Ids, DESTROY, JustPopped
<1>3. HeldInv'
  BY <1>1, <1>2 DEF PlacesInv, HeldInv, Held, InWorkersHands
<1>4. DestroyLast'
  BY <1>1 DEF PlacesInv, DestroyLast, JustPopped
<1>5. \A j : Over(j)' <=> Over(j)
  BY <1>1 DEF Over
<1>6. PushedInv' /\ WorkersInv'
  BY <1>1, <1>2, <1>5 DEF PlacesInv, PushedInv, WorkersInv, Submitted
<1>7. OrderInv'
  BY <1>1, <1>2, <1>5 DEF PlacesInv, OrderInv, Ahead
<1> QED
  BY <1>3, <1>4, <1>6, <1>7 DEF PlacesInv

(* dispose() queues the destroy job, behind all jobs.                      *)
LEMMA DisposePushPlaces ==
    ASSUME IInv, PlacesInv, DisposePush
    PROVE  PlacesInv'
<1> DEFINE n == Len(to_worker)
<1>1. /\ disposed = "no" /\ disposed' = "pushed"
      /\ UNCHANGED <<next_job_id, heap, owner, cancelled, results, from_worker, pc, call_id,
                     wpc, wjob, ran>>
  BY DEF DisposePush, jobVars, flags, tdVars, callVars, workerVars
<1>2. /\ Len(to_worker') = n + 1
      /\ n \in Nat
      /\ \A i \in 1..n : to_worker'[i] = to_worker[i]
      /\ to_worker'[n + 1] = DESTROY
  BY DEF DisposePush, Pushed, IInv, TypeOK
<1>3. Range(to_worker') = Range(to_worker) \cup {DESTROY}
  <2>1. DESTROY \in 0..MaxJobs /\ DESTROY \notin Range(to_worker)
    BY <1>1, MaxJobsAssumption DEF IInv, QueuedInv, DESTROY
  <2> QED
    BY <2>1, JobPushed DEF DisposePush, Pushed
<1>4. \A i \in 1..n : to_worker[i] # DESTROY
  <2>1. \A i \in 1..n : to_worker[i] \in Range(to_worker)
    BY DEF IInv, TypeOK, Range
  <2> QED
    BY <2>1, <1>1 DEF IInv, QueuedInv
<1>5. \A j : (Over(j)' <=> Over(j)) /\ (JustPopped(j)' <=> JustPopped(j))
  BY <1>1 DEF Over, JustPopped
<1> HIDE DEF n
<1>6. HeldInv'
  BY <1>1, <1>3 DEF PlacesInv, HeldInv, Held, InWorkersHands
<1>7. DestroyLast'
  <2>1. ASSUME NEW i \in 1..(n + 1), to_worker'[i] = DESTROY PROVE i = n + 1
    BY <2>1, <1>2, <1>4
  <2>2. ~(wpc = "exit" \/ JustPopped(DESTROY))
    BY <1>1 DEF PlacesInv, DestroyLast
  <2> QED
    BY <2>1, <2>2, <1>1, <1>2, <1>5 DEF DestroyLast
<1>8. PushedInv' /\ WorkersInv'
  BY <1>1, <1>3, <1>5 DEF PlacesInv, PushedInv, WorkersInv, Submitted
<1>9. OrderInv'
  <2>1. ASSUME NEW i \in 1..(n + 1), to_worker'[i] # DESTROY
        PROVE  Ahead(i)'
    <3>1. i \in 1..n /\ to_worker'[i] = to_worker[i] /\ \A h \in 1..(i - 1) : h \in 1..n
      BY <2>1, <1>2
    <3>2. Ahead(i)
      BY <3>1, <2>1 DEF PlacesInv, OrderInv, n
    <3> QED
      BY <3>1, <3>2, <1>1, <1>2, <1>5 DEF Ahead
  <2>2. wpc = "popped" /\ wjob # DESTROY =>
            \A j \in Ids : j < wjob /\ owner[j] = owner[wjob] => Over(j)
    BY DEF PlacesInv, OrderInv
  <2> QED
    BY <2>1, <2>2, <1>1, <1>2, <1>5 DEF OrderInv
<1> QED
  BY <1>6, <1>7, <1>8, <1>9 DEF PlacesInv

(* PlacesInv depends on the variables only.                                *)
LEMMA StutterPlaces ==
    ASSUME IInv, PlacesInv, UNCHANGED vars
    PROVE  PlacesInv'
  BY CallFrame DEF vars, jobVars, flags, tdVars, workerVars, callVars

(* PlacesInv is preserved by every step.                                   *)
LEMMA NextPlaces == IInv /\ PlacesInv /\ [Next]_vars => PlacesInv'
<1> SUFFICES ASSUME IInv, PlacesInv, [Next]_vars PROVE PlacesInv'
  OBVIOUS
<1>1. CASE \E t \in Threads : Call(t)
  BY <1>1, ExecuteBeginPlaces, CallsPlaces DEF Call
<1>2. CASE \E t \in Threads : Continue(t)
  BY <1>2, ExecutePushPlaces, ContinuesPlaces DEF Continue
<1>3. CASE \E void \in BOOLEAN : ExecuteInWorker(void)
  BY <1>3, ExecuteInWorkerPlaces
<1>4. CASE WorkerLoop
  BY <1>4, WorkerPopPlaces, WorkerSkipCancelledPlaces, WorkerCallFuncPlaces,
     WorkerReplyPlaces, WorkerExitPlaces DEF WorkerLoop
<1>5. CASE DisposePush
  BY <1>5, DisposePushPlaces
<1>6. CASE DisposeThreads
  BY <1>6, DisposeThreadsPlaces
<1>7. CASE Terminated \/ UNCHANGED vars
  BY <1>7, StutterPlaces DEF Terminated
<1> QED
  BY <1>1, <1>2, <1>3, <1>4, <1>5, <1>6, <1>7 DEF Next

-----------------------------------------------------------------------------
(* Every allocated job is somewhere, in any reachable state.               *)
THEOREM SpecPlacesInv == Spec => []PlacesInv
  BY SpecIInv, InitPlaces, NextPlaces, PTL DEF Spec

(* Of the wrapper that is gone, gda_thread_wrapper_dispose() (688) and the *)
(* worker's loop leave nothing but the executed jobs nobody popped.        *)
THEOREM NothingElseLeaks == Spec => []OnlyRepliesLeak
<1>1. ASSUME IInv, PlacesInv
      PROVE  OnlyRepliesLeak
  <2> SUFFICES ASSUME disposed = "yes", wpc = "exit"
               PROVE  heap = UNION {Range(from_worker[t]) : t \in Threads}
    BY DEF OnlyRepliesLeak
  <2>1. /\ Range(to_worker) = {}
        /\ \A t \in Threads : pc[t] = "idle" /\ results[t] = {}
    <3>1. to_worker = <<>>
      BY <1>1 DEF PlacesInv, DestroyLast
    <3> QED
      BY <1>1, <3>1 DEF Range, IInv, ThreadDataInv
  <2>2. \A j \in heap : \E t \in Threads : j \in Range(from_worker[t])
    BY <1>1, <2>1 DEF PlacesInv, HeldInv, Held, InWorkersHands
  <2>3. \A t \in Threads : Range(from_worker[t]) \subseteq heap
    BY <1>1 DEF IInv, AnsweredInv, Answered
  <2> QED
    BY <2>2, <2>3
<1> QED
  BY <1>1, SpecIInv, SpecPlacesInv, PTL

(* Of what the wrapper had when dispose() removed it nothing is executed,  *)
(* and only the replies nobody popped are never freed.                     *)
THEOREM DisposeLeavesRepliesOnly == Spec => []DisposedInOrder
<1>1. DisposedQueueCancelled /\ OnlyRepliesLeak => DisposedInOrder
  BY DEF DisposedInOrder
<1> QED
  BY <1>1, NothingRunsAfterDispose, NothingElseLeaks, PTL

(* The indices at which a queue without repetition holds a job.            *)
LEMMA IndicesOf ==
    ASSUME NEW q, NEW j, DOMAIN q = 1..Len(q), NoRepeats(q)
    PROVE  /\ j \in Range(q) => \E i : {k \in DOMAIN q : q[k] = j} = {i}
           /\ j \notin Range(q) => {k \in DOMAIN q : q[k] = j} = {}
<1>1. ASSUME j \in Range(q)
      PROVE  \E i : {k \in DOMAIN q : q[k] = j} = {i}
  <2>1. PICK i \in DOMAIN q : q[i] = j
    BY <1>1 DEF Range
  <2>2. \A k \in DOMAIN q : q[k] = j => k = i
    BY <2>1 DEF NoRepeats
  <2> QED
    BY <2>1, <2>2
<1>2. ASSUME j \notin Range(q)
      PROVE  {k \in DOMAIN q : q[k] = j} = {}
  BY <1>2 DEF Range
<1> QED
  BY <1>1, <1>2

(* An allocated job is in one place, whichever of the five it is.          *)
LEMMA PlacesOfHeld ==
    ASSUME IInv, PlacesInv, NEW j \in heap
    PROVE  \E p : Places(j) = {p}
<1>1. /\ j \in Ids /\ j # DESTROY
      /\ \A t \in Threads : pc[t] = "push" => Submitting(t)
      /\ \A t \in Threads : Answered(t)
  BY DEF IInv, TypeOK, Ids, DESTROY, SubmittingInv, AnsweredInv
<1>2. /\ j \in Range(to_worker) => j \notin processed
      /\ InWorkersHands(j) => j \in processed
  BY <1>1 DEF IInv, QueuedInv, InHandInv, InWorkersHands
<1>3. InHand \cap {j} = IF InWorkersHands(j) THEN {j} ELSE {}
  BY <1>1 DEF InHand, InWorkersHands
<1>4. /\ \A i \in DOMAIN to_worker : to_worker[i] \in Range(to_worker)
      /\ \A t \in Threads : \A i \in DOMAIN from_worker[t] :
            from_worker[t][i] \in Range(from_worker[t])
  BY DEF Range
<1>5. /\ DOMAIN to_worker = 1..Len(to_worker)
      /\ \A t \in Threads : DOMAIN from_worker[t] = 1..Len(from_worker[t])
      /\ NoRepeats(to_worker)
      /\ \A t \in Threads : NoRepeats(from_worker[t])
  BY DEF IInv, TypeOK, QueuesInv
<1> DEFINE A == {<<"submission", t>> : t \in {u \in Threads : j \in InSubmission(u)}}
           B == {<<"to_worker", i>> : i \in {k \in DOMAIN to_worker : to_worker[k] = j}}
           C == {<<"worker", w>> : w \in {k \in InHand : k = j}}
           D(t) == {<<"from_worker", t, i>> : i \in {k \in DOMAIN from_worker[t] :
                                                       from_worker[t][k] = j}}
           E == {<<"results", t>> : t \in {u \in Threads : j \in results[u]}}
           F == UNION {D(t) : t \in Threads}
<1>6. Places(j) = A \cup B \cup C \cup E \cup F
  BY DEF Places
<1>7. /\ A # {} => \E t \in Threads : pc[t] = "push" /\ call_id[t] = j /\ A = {<<"submission", t>>}
      /\ A = {} => \A t \in Threads : ~(pc[t] = "push" /\ call_id[t] = j)
  <2>1. \A t \in Threads : j \in InSubmission(t) <=> pc[t] = "push" /\ call_id[t] = j
    BY DEF InSubmission
  <2>2. \A t, u \in Threads : j \in InSubmission(t) /\ j \in InSubmission(u) => t = u
    BY <1>1, <2>1 DEF Submitting
  <2>3. ASSUME NEW t \in Threads, j \in InSubmission(t)
        PROVE  A = {<<"submission", t>>}
    <3>1. {u \in Threads : j \in InSubmission(u)} = {t}
      BY <2>2, <2>3
    <3> QED
      BY <3>1
  <2>4. A # {} => \E t \in Threads : j \in InSubmission(t)
    OBVIOUS
  <2>5. \A t \in Threads : j \in InSubmission(t) => A # {}
    BY <2>3
  <2> HIDE DEF A
  <2> QED
    BY <2>1, <2>3, <2>4, <2>5
<1>8. /\ j \in Range(to_worker) => \E p : B = {p}
      /\ j \notin Range(to_worker) => B = {}
  <2> DEFINE S == {k \in DOMAIN to_worker : to_worker[k] = j}
  <2>1. /\ j \in Range(to_worker) => \E i : S = {i}
        /\ j \notin Range(to_worker) => S = {}
    BY <1>5, IndicesOf
  <2>2. B = {<<"to_worker", i>> : i \in S}
    OBVIOUS
  <2> HIDE DEF S, B
  <2>3. \A i : S = {i} => B = {<<"to_worker", i>>}
    BY <2>2
  <2>4. S = {} => B = {}
    BY <2>2
  <2> QED
    BY <2>1, <2>3, <2>4
<1>9. C = IF InWorkersHands(j) THEN {<<"worker", j>>} ELSE {}
  BY <1>3
<1>10. ASSUME NEW t \in Threads
       PROVE  /\ j \in Range(from_worker[t]) => \E p : D(t) = {p}
              /\ j \notin Range(from_worker[t]) => D(t) = {}
  <2> DEFINE S == {k \in DOMAIN from_worker[t] : from_worker[t][k] = j}
  <2>1. /\ j \in Range(from_worker[t]) => \E i : S = {i}
        /\ j \notin Range(from_worker[t]) => S = {}
    BY <1>5, IndicesOf
  <2>2. D(t) = {<<"from_worker", t, i>> : i \in S}
    OBVIOUS
  <2> HIDE DEF S, D
  <2>3. \A i : S = {i} => D(t) = {<<"from_worker", t, i>>}
    BY <2>2
  <2>4. S = {} => D(t) = {}
    BY <2>2
  <2> QED
    BY <2>1, <2>3, <2>4
<1>11. /\ \A t \in Threads : j \in Range(from_worker[t]) \cup results[t] =>
             t = owner[j] /\ j \in processed /\ ~InWorkersHands(j)
       /\ \A t \in Threads : ~(j \in Range(from_worker[t]) /\ j \in results[t])
       /\ A # {} => j \notin processed /\ j \notin Range(to_worker)
  BY <1>1, <1>7 DEF Answered, InWorkersHands, Submitting
<1> HIDE DEF A, B, C, D, E, F
<1>12. (\A t \in Threads : D(t) = {}) => F = {}
  BY DEF F
<1>13. A = {} /\ B = {} /\ C = {} /\ (\A t \in Threads : D(t) = {}) => Places(j) = E
  BY <1>6, <1>12
<1>14. Held(j)
  BY DEF PlacesInv, HeldInv
<1>15. CASE A # {}
  <2>1. B = {} /\ C = {} /\ E = {} /\ \A t \in Threads : D(t) = {}
    BY <1>2, <1>8, <1>9, <1>10, <1>11, <1>15 DEF E
  <2> QED
    BY <1>6, <1>7, <1>15, <2>1, <1>12
<1>16. CASE A = {} /\ j \in Range(to_worker)
  <2>1. C = {} /\ E = {} /\ \A t \in Threads : D(t) = {}
    BY <1>2, <1>9, <1>10, <1>11, <1>16 DEF E
  <2> QED
    BY <1>6, <1>8, <1>16, <2>1, <1>12
<1>17. CASE A = {} /\ j \notin Range(to_worker) /\ InWorkersHands(j)
  <2>1. B = {} /\ E = {} /\ \A t \in Threads : D(t) = {}
    BY <1>8, <1>10, <1>11, <1>17 DEF E
  <2>2. C = {<<"worker", j>>}
    BY <1>9, <1>17
  <2>3. Places(j) = C
    BY <1>6, <1>17, <1>12, <2>1
  <2> QED
    BY <2>2, <2>3
<1>18. CASE A = {} /\ j \notin Range(to_worker) /\ ~InWorkersHands(j)
  <2>1. B = {} /\ C = {}
    BY <1>8, <1>9, <1>18
  <2>2. PICK t \in Threads : j \in Range(from_worker[t]) \cup results[t]
    BY <1>7, <1>14, <1>18 DEF Held
  <2>3. \A u \in Threads : u # t => D(u) = {} /\ j \notin results[u]
    BY <2>2, <1>10, <1>11
  <2>4. CASE j \in Range(from_worker[t])
    <3>1. E = {}
      BY <2>3, <2>4, <1>11 DEF E
    <3>2. PICK p : D(t) = {p}
      BY <2>4, <1>10
    <3>3. F = {p}
      BY <2>3, <3>2 DEF F
    <3> QED
      BY <1>6, <1>18, <2>1, <3>1, <3>3
  <2>5. CASE j \notin Range(from_worker[t])
    <3>1. E = {<<"results", t>>}
      <4>1. {u \in Threads : j \in results[u]} = {t}
        BY <2>2, <2>3, <2>5
      <4> QED
        BY <4>1 DEF E
    <3>2. \A u \in Threads : D(u) = {}
      BY <2>3, <2>5, <1>10
    <3>3. Places(j) = E
      BY <1>18, <1>13, <2>1, <3>2
    <3> QED
      BY <3>1, <3>3
  <2> QED
    BY <2>4, <2>5
<1> QED
  BY <1>15, <1>16, <1>17, <1>18

(* No place refers to a job that was freed.                                *)
LEMMA PlacesOfFreed ==
    ASSUME IInv, NEW j \in Ids \ heap
    PROVE  Places(j) = {}
<1>1. \A t \in Threads : j \notin InSubmission(t)
  BY DEF InSubmission, IInv, SubmittingInv, Submitting
<1>2. \A i \in DOMAIN to_worker : to_worker[i] # j
  BY DEF IInv, QueuedInv, Range, Ids, DESTROY
<1>3. j \notin InHand
  BY DEF InHand, IInv, InHandInv
<1>4. \A t \in Threads : j \notin Range(from_worker[t]) \cup results[t]
  BY DEF IInv, AnsweredInv, Answered
<1>5. \A t \in Threads : \A i \in DOMAIN from_worker[t] : from_worker[t][i] # j
  BY <1>4 DEF Range
<1> QED
  BY <1>1, <1>2, <1>3, <1>4, <1>5 DEF Places

(* execute(), the worker's loop, iterate(), fetch_result(), cancel() and   *)
(* dispose() hand every job on: it is in one place until it is freed.      *)
THEOREM JobsAreInOnePlace == Spec => []SingleCustody
<1>1. ASSUME IInv, PlacesInv
      PROVE  SingleCustody
  <2> SUFFICES ASSUME NEW j \in Ids
               PROVE  Cardinality(Places(j)) = IF j \in heap THEN 1 ELSE 0
    BY DEF SingleCustody
  <2>1. CASE j \in heap
    <3>1. PICK p : Places(j) = {p}
      BY <1>1, <2>1, PlacesOfHeld
    <3> QED
      BY <2>1, <3>1, FS_Singleton
  <2>2. CASE j \notin heap
    <3>1. Places(j) = {}
      BY <1>1, <2>2, PlacesOfFreed
    <3> QED
      BY <2>2, <3>1, FS_EmptySet
  <2> QED
    BY <2>1, <2>2
<1> QED
  BY <1>1, SpecIInv, SpecPlacesInv, PTL

(* The jobs of one thread are started in the order in which execute() gave *)
(* them their ids, whatever other threads push in between.                 *)
THEOREM JobsStartInOrder == Spec => StartedInOrder
<1> DEFINE InOrder == \A j, k \in Ids :
        j < k /\ owner[j] = owner[k] /\ ran[k] = 0 /\ ran'[k] = 1
            => ran[j] = 1 \/ j \in cancelled
<1>1. ASSUME IInv, PlacesInv, [Next]_vars
      PROVE  [InOrder]_vars
  <2> SUFFICES ASSUME NEW j \in Ids, NEW k \in Ids, j < k, owner[j] = owner[k],
                      ran[k] = 0, ran'[k] = 1
               PROVE  Over(j)
    BY DEF Over
  <2>1. CASE WorkerCallFunc
    <3>1. k = wjob /\ wpc = "popped" /\ wjob # DESTROY
      BY <1>1, <2>1 DEF WorkerCallFunc, IInv, TypeOK
    <3> QED
      BY <1>1, <3>1 DEF PlacesInv, OrderInv
  <2>2. CASE \E void \in BOOLEAN : ExecuteInWorker(void)
    <3>1. k = next_job_id
      BY <1>1, <2>2 DEF ExecuteInWorker, IInv, TypeOK
    <3>2. owner[k] = Worker /\ j < next_job_id
      BY <1>1, <3>1 DEF PlacesInv, WorkersInv, Ids
    <3> QED
      BY <1>1, <3>2 DEF PlacesInv, WorkersInv, Over
  <2>3. CASE UNCHANGED ran
    BY <2>3
  <2>4. WorkerCallFunc \/ (\E void \in BOOLEAN : ExecuteInWorker(void)) \/ UNCHANGED ran
    <3> USE DEF jobVars
    <3>1. CASE \E t \in Threads : Call(t)
      BY <3>1 DEF Call, ExecuteBegin, Cancel, Iterate, FetchResult
    <3>2. CASE \E t \in Threads : Continue(t)
      BY <3>2 DEF Continue, ExecutePush, IterateResult, IterateVoid, IterateEmpty,
         FetchFound, FetchNotFound
    <3>3. CASE WorkerLoop
      BY <3>3 DEF WorkerLoop, WorkerPop, WorkerSkipCancelled, WorkerReply, WorkerExit
    <3>4. CASE DisposePush \/ DisposeThreads \/ Terminated \/ UNCHANGED vars
      BY <3>4 DEF DisposePush, DisposeThreads, Terminated, vars
    <3> QED
      BY <1>1, <3>1, <3>2, <3>3, <3>4 DEF Next
  <2> QED
    BY <2>1, <2>2, <2>3, <2>4
<1>2. IInv /\ PlacesInv /\ [Next]_vars => [InOrder]_vars
  BY <1>1
<1> HIDE DEF InOrder
<1>3. Spec => [][InOrder]_vars
  BY <1>2, SpecIInv, SpecPlacesInv, PTL DEF Spec
<1> QED
  BY <1>3 DEF StartedInOrder, InOrder

-----------------------------------------------------------------------------
(* What Without does to a queue: the places it keeps are listed by one     *)
(* function only, which the lemmas give for each change of the queue.      *)

(* A set of numbers has a least one.                                       *)
LEMMA LeastOf ==
    ASSUME NEW T \in SUBSET Nat, T # {}
    PROVE  \E x \in T : \A y \in T : x <= y
<1>1. IsWellFoundedOn(OpToRel(<, Nat), Nat)
  BY NatLessThanWellFounded
<1>2. PICK x \in T : \A y \in T : <<y, x>> \notin OpToRel(<, Nat)
  BY <1>1, WFMin
<1>3. ASSUME NEW y \in T PROVE x <= y
  <2>1. ~(y < x)
    <3>1. <<y, x>> \in Nat \X Nat /\ <<y, x>>[1] = y /\ <<y, x>>[2] = x
      OBVIOUS
    <3> QED
      BY <1>2, <3>1 DEF OpToRel
  <2> QED
    BY <2>1
<1> QED
  BY <1>3

(* A function on 1..n is a sequence of length n.                           *)
LEMMA FunctionIsSeq ==
    ASSUME NEW S, NEW n \in Nat, NEW f \in [1..n -> S]
    PROVE  f \in Seq(S) /\ Len(f) = n
<1>1. f \in Seq(S)
  BY SeqDef
<1>2. 1..Len(f) = 1..n /\ Len(f) \in Nat
  BY <1>1, LenProperties
<1> QED
  BY <1>1, <1>2

(* f lists, in order, the n places of q that hold no element of C.         *)
Listing(q, C, n, f) ==
    /\ n \in Nat /\ f \in [1..n -> 1..Len(q)]
    /\ \A k \in 1..n : q[f[k]] \notin C
    /\ \A k, h \in 1..n : k < h => f[k] < f[h]
    /\ \A i \in 1..Len(q) : q[i] \notin C => \E k \in 1..n : f[k] = i

(* Which is what Without chooses from, Kept and Lists unfolded.            *)
LEMMA ListingLists ==
    ASSUME NEW q, NEW C, NEW n, NEW f
    PROVE  Listing(q, C, n, f) <=>
             n \in Nat /\ f \in [1..n -> Kept(q, C)] /\ Lists(f, Kept(q, C))
<1>1. ASSUME n \in Nat, f \in [1..n -> Kept(q, C)], Lists(f, Kept(q, C))
      PROVE  Listing(q, C, n, f)
  <2>1. DOMAIN f = 1..n
    BY <1>1
  <2>2. \A k \in 1..n : f[k] \in 1..Len(q) /\ q[f[k]] \notin C
    BY <1>1 DEF Kept
  <2>3. \A i \in 1..Len(q) : q[i] \notin C => i \in Kept(q, C)
    BY DEF Kept
  <2> QED
    BY <1>1, <2>1, <2>2, <2>3 DEF Listing, Lists
<1>2. ASSUME Listing(q, C, n, f)
      PROVE  n \in Nat /\ f \in [1..n -> Kept(q, C)] /\ Lists(f, Kept(q, C))
  BY <1>2 DEF Listing, Lists, Kept
<1> QED
  BY <1>1, <1>2

(* Two listings of the same places agree.                                  *)
LEMMA ListingsAgree ==
    ASSUME NEW q, NEW C, NEW n, NEW f, NEW m, NEW g, Listing(q, C, n, f), Listing(q, C, m, g),
           NEW k \in 1..n
    PROVE  k \in 1..m /\ f[k] = g[k]
<1> DEFINE K == Kept(q, C)
           T == {h \in 1..n : ~(h \in 1..m /\ f[h] = g[h])}
<1>1. /\ n \in Nat /\ f \in [1..n -> K] /\ m \in Nat /\ g \in [1..m -> K]
      /\ \A i \in K : \E h \in 1..n : f[h] = i
      /\ \A i \in K : \E h \in 1..m : g[h] = i
      /\ \A h, l \in 1..n : h < l => f[h] < f[l]
      /\ \A h, l \in 1..m : h < l => g[h] < g[l]
      /\ K \subseteq Int
  <2>1. /\ n \in Nat /\ f \in [1..n -> K] /\ m \in Nat /\ g \in [1..m -> K]
        /\ Lists(f, K) /\ Lists(g, K)
    BY ListingLists
  <2> QED
    BY <2>1 DEF Lists, Kept
<1> HIDE DEF K
<1> SUFFICES ASSUME k \in T PROVE FALSE
  OBVIOUS
<1>2. T \in SUBSET Nat /\ T # {}
  BY <1>1
<1>3. PICK h \in T : \A y \in T : h <= y
  BY <1>2, LeastOf
<1>4. /\ h \in 1..n /\ ~(h \in 1..m /\ f[h] = g[h])
      /\ \A y \in 1..n : y < h => y \in 1..m /\ f[y] = g[y]
  BY <1>1, <1>3
<1> HIDE DEF T
<1>5. PICK l \in 1..m : g[l] = f[h]
  BY <1>1, <1>4
<1>6. ~(l < h)
  <2> SUFFICES ASSUME l < h PROVE FALSE
    OBVIOUS
  <2>1. l \in 1..n /\ f[l] = g[l] /\ f[l] < f[h]
    BY <1>1, <1>4, <1>5
  <2>2. f[l] \in Int /\ f[h] \in Int
    BY <1>1, <1>4, <2>1
  <2> QED
    BY <1>5, <2>1, <2>2
<1>7. h \in 1..m /\ h < l
  BY <1>1, <1>4, <1>5, <1>6
<1>8. PICK e \in 1..n : f[e] = g[h]
  BY <1>1, <1>7
<1>9. f[e] < f[h]
  BY <1>1, <1>5, <1>7, <1>8
<1>10. ~(e < h)
  <2> SUFFICES ASSUME e < h PROVE FALSE
    OBVIOUS
  <2>1. e \in 1..m /\ g[e] = g[h] /\ g[e] < g[h] /\ g[e] \in Int
    BY <1>1, <1>4, <1>7, <1>8
  <2> QED
    BY <2>1
<1>11. f[h] < f[e] \/ f[h] = f[e]
  BY <1>1, <1>4, <1>8, <1>10
<1>12. f[h] \in Int /\ f[e] \in Int
  BY <1>1, <1>4, <1>8
<1> QED
  BY <1>9, <1>11, <1>12

(* So a listing gives what is left of the queue.                           *)
LEMMA WithoutIs ==
    ASSUME NEW q, NEW C, NEW n, NEW f, Listing(q, C, n, f)
    PROVE  Without(q, C) = [k \in 1..n |-> q[f[k]]]
<1> DEFINE K == Kept(q, C)
           G(g) == g \in [1..Cardinality(K) -> K] /\ Lists(g, K)
           c == CHOOSE g \in [1..Cardinality(K) -> K] : Lists(g, K)
<1>1. n \in Nat /\ f \in [1..n -> K] /\ Lists(f, K) /\ K \subseteq Int
  <2>1. n \in Nat /\ f \in [1..n -> K] /\ Lists(f, K)
    BY ListingLists
  <2>2. K \subseteq Int
    BY DEF Kept
  <2> QED
    BY <2>1, <2>2
<1>2. Cardinality(K) = n
  <2>1. \A a, b \in 1..n : f[a] = f[b] => a = b
    <3> SUFFICES ASSUME NEW a \in 1..n, NEW b \in 1..n, f[a] = f[b], a < b PROVE FALSE
      BY <1>1
    <3>1. f[a] < f[b] /\ f[a] \in Int
      BY <1>1 DEF Lists
    <3> QED
      BY <3>1
  <2>2. \A i \in K : \E k \in 1..n : f[k] = i
    BY <1>1 DEF Lists
  <2> HIDE DEF K
  <2>3. f \in Bijection(1..n, K)
    BY <1>1, <2>1, <2>2, Fun_IsBij
  <2>4. ExistsBijection(1..n, K)
    BY <2>3 DEF ExistsBijection
  <2>5. IsFiniteSet(1..n) /\ Cardinality(1..n) = n
    BY <1>1, FS_Interval
  <2> QED
    BY <2>4, <2>5, FS_Bijection
<1>3. f \in [1..Cardinality(K) -> K] /\ Lists(f, K)
  BY <1>1, <1>2
<1>4. c \in [1..Cardinality(K) -> K] /\ Lists(c, K)
  BY <1>3
<1>5. Without(q, C) = [k \in DOMAIN c |-> q[c[k]]]
  BY DEF Without
<1> HIDE DEF c
<1>6. Listing(q, C, n, c)
  BY <1>1, <1>2, <1>4, ListingLists
<1>7. \A k \in 1..n : c[k] = f[k]
  BY <1>6, ListingsAgree
<1>8. DOMAIN c = 1..n
  BY <1>2, <1>4
<1> QED
  BY <1>5, <1>7, <1>8

(* There is a listing, whatever is left out.                               *)
LEMMA ListingExists ==
    ASSUME NEW S, NEW q \in Seq(S), NEW C
    PROVE  \E n, f : Listing(q, C, n, f)
<1> DEFINE P(l) == {i \in 1..l : q[i] \notin C}
           Ex(l) == \E n, f : n \in Nat /\ f \in [1..n -> P(l)] /\ Lists(f, P(l))
           T == {l \in 0..Len(q) : ~Ex(l)}
<1>1. SUFFICES Ex(Len(q))
  <2>1. P(Len(q)) = Kept(q, C)
    BY DEF Kept
  <2> QED
    BY <2>1, ListingLists
<1>2. Ex(0)
  <2>1. P(0) = {} /\ 1..0 = {}
    OBVIOUS
  <2> DEFINE e == [k \in 1..0 |-> k]
  <2>2. e \in [1..0 -> P(0)] /\ Lists(e, P(0))
    BY <2>1 DEF Lists
  <2> QED
    BY <2>2
<1>3. ASSUME NEW l \in Nat, Ex(l) PROVE Ex(l + 1)
  <2>1. PICK n, f : n \in Nat /\ f \in [1..n -> P(l)] /\ Lists(f, P(l))
    BY <1>3
  <2>2. /\ \A i \in P(l) : \E k \in 1..n : f[k] = i
        /\ \A k, h \in 1..n : k < h => f[k] < f[h]
    BY <2>1 DEF Lists
  <2>3. CASE q[l + 1] \in C
    <3>1. P(l + 1) = P(l)
      BY <2>3
    <3> QED
      BY <2>1, <3>1
  <2>4. CASE q[l + 1] \notin C
    <3>1. P(l + 1) = P(l) \cup {l + 1} /\ \A i \in P(l) : i \in Nat /\ i < l + 1
      BY <2>4
    <3> DEFINE g == [k \in 1..(n + 1) |-> IF k = n + 1 THEN l + 1 ELSE f[k]]
    <3> HIDE DEF P
    <3>2. g \in [1..(n + 1) -> P(l + 1)]
      BY <2>1, <3>1
    <3>3. /\ \A k \in 1..n : g[k] = f[k] /\ k \in 1..(n + 1) /\ f[k] \in P(l)
          /\ g[n + 1] = l + 1 /\ n + 1 \in 1..(n + 1) /\ n + 1 \in Nat
          /\ \A k \in 1..(n + 1) : k \in 1..n \/ k = n + 1
      BY <2>1
    <3> HIDE DEF g
    <3>4. \A k, h \in 1..(n + 1) : k < h => g[k] < g[h]
      <4> SUFFICES ASSUME NEW k \in 1..(n + 1), NEW h \in 1..(n + 1), k < h
                   PROVE  g[k] < g[h]
        OBVIOUS
      <4>1. k \in 1..n /\ (h \in 1..n \/ h = n + 1)
        BY <2>1, <3>3
      <4>2. CASE h \in 1..n
        BY <2>2, <3>3, <4>1, <4>2
      <4>3. CASE h = n + 1
        BY <3>1, <3>3, <4>1, <4>3
      <4> QED
        BY <4>1, <4>2, <4>3
    <3>5. \A i \in P(l + 1) : \E k \in 1..(n + 1) : g[k] = i
      BY <2>2, <3>1, <3>3
    <3>6. Lists(g, P(l + 1))
      BY <3>2, <3>4, <3>5 DEF Lists
    <3> QED
      BY <3>2, <3>3, <3>6
  <2> QED
    BY <2>3, <2>4
<1> HIDE DEF Ex
<1>4. SUFFICES ASSUME ~Ex(Len(q)) PROVE FALSE
  OBVIOUS
<1>5. PICK l \in T : \A y \in T : l <= y
  <2>1. Len(q) \in T /\ T \in SUBSET Nat
    BY <1>4
  <2> HIDE DEF T
  <2> QED
    BY <2>1, LeastOf
<1>6. l # 0 /\ l - 1 \in Nat /\ l - 1 \in 0..Len(q) /\ l - 1 \notin T
  BY <1>2, <1>5
<1>7. Ex(l - 1)
  BY <1>6
<1>8. Ex((l - 1) + 1)
  BY <1>3, <1>6, <1>7
<1> QED
  BY <1>5, <1>6, <1>8

(* It gives what is left of q.                                             *)
Leaves(q, C, n, f) ==
    Listing(q, C, n, f) /\ Without(q, C) = [k \in 1..n |-> q[f[k]]]

(* Without is what some listing gives.                                     *)
LEMMA WithoutListed ==
    ASSUME NEW S, NEW q \in Seq(S), NEW C
    PROVE  \E n, f : Leaves(q, C, n, f)
  BY ListingExists, WithoutIs DEF Leaves

(* Only what the queue holds matters.                                      *)
LEMMA WithoutSame ==
    ASSUME NEW q, NEW C, NEW D, \A i \in 1..Len(q) : q[i] \in C <=> q[i] \in D
    PROVE  Without(q, C) = Without(q, D)
<1>1. Kept(q, C) = Kept(q, D)
  BY DEF Kept
<1> QED
  BY <1>1 DEF Without

(* Nothing is left when all is left out.                                   *)
LEMMA WithoutAll ==
    ASSUME NEW S, NEW q \in Seq(S), NEW C, \A i \in 1..Len(q) : q[i] \in C
    PROVE  Without(q, C) = <<>>
<1>10. PICK n, f : Leaves(q, C, n, f)
  BY WithoutListed
<1>1. /\ n \in Nat /\ f \in [1..n -> 1..Len(q)]
      /\ \A k \in 1..n : q[f[k]] \notin C
      /\ \A k, h \in 1..n : k < h => f[k] < f[h]
      /\ \A i \in 1..Len(q) : q[i] \notin C => \E k \in 1..n : f[k] = i
      /\ Without(q, C) = [k \in 1..n |-> q[f[k]]]
  BY <1>10 DEF Leaves, Listing
<1>2. n = 0
  BY <1>1
<1>3. [k \in 1..n |-> q[f[k]]] \in [1..0 -> {}]
  BY <1>2
<1> QED
  BY <1>1, <1>3, FunctionIsSeq

(* What is pushed comes last, unless it is left out.                       *)
LEMMA WithoutAppend ==
    ASSUME NEW S, NEW q \in Seq(S), NEW e \in S, NEW C
    PROVE  Without(Append(q, e), C) = IF e \in C THEN Without(q, C)
                                      ELSE Append(Without(q, C), e)
<1> DEFINE p == Append(q, e)
<1>1. /\ p \in Seq(S) /\ Len(p) = Len(q) + 1 /\ Len(q) \in Nat /\ p[Len(q) + 1] = e
      /\ \A i \in 1..Len(q) : p[i] = q[i] /\ i \in 1..Len(p)
      /\ \A i \in 1..Len(p) : i \in 1..Len(q) \/ i = Len(q) + 1
  OBVIOUS
<1> HIDE DEF p
<1>20. PICK n, f : Leaves(q, C, n, f)
  BY WithoutListed
<1>2. /\ n \in Nat /\ f \in [1..n -> 1..Len(q)]
      /\ \A k \in 1..n : q[f[k]] \notin C
      /\ \A k, h \in 1..n : k < h => f[k] < f[h]
      /\ \A i \in 1..Len(q) : q[i] \notin C => \E k \in 1..n : f[k] = i
      /\ Without(q, C) = [k \in 1..n |-> q[f[k]]]
  BY <1>20 DEF Leaves, Listing
<1>3. CASE e \in C
  <2>1. f \in [1..n -> 1..Len(p)] /\ \A k \in 1..n : p[f[k]] = q[f[k]]
    BY <1>1, <1>2
  <2>2. \A i \in 1..Len(p) : p[i] \notin C => \E k \in 1..n : f[k] = i
    BY <1>1, <1>2, <1>3
  <2>3. Without(p, C) = [k \in 1..n |-> p[f[k]]]
    <3>1. Listing(p, C, n, f)
      BY <1>2, <2>1, <2>2 DEF Listing
    <3> QED
      BY <3>1, WithoutIs
  <2> QED
    BY <1>2, <1>3, <2>1, <2>3 DEF p
<1>4. CASE e \notin C
  <2> DEFINE g == [k \in 1..(n + 1) |-> IF k = n + 1 THEN Len(q) + 1 ELSE f[k]]
  <2>1. /\ g \in [1..(n + 1) -> 1..Len(p)] /\ n + 1 \in Nat /\ n + 1 \in 1..(n + 1)
        /\ \A k \in 1..n : g[k] = f[k] /\ k \in 1..(n + 1) /\ f[k] < Len(q) + 1
        /\ g[n + 1] = Len(q) + 1
        /\ \A k \in 1..(n + 1) : k \in 1..n \/ k = n + 1
    BY <1>1, <1>2
  <2> HIDE DEF g
  <2>2. \A k \in 1..(n + 1) : p[g[k]] = IF k = n + 1 THEN e ELSE q[f[k]]
    BY <1>1, <1>2, <2>1
  <2>3. \A k, h \in 1..(n + 1) : k < h => g[k] < g[h]
    <3> SUFFICES ASSUME NEW k \in 1..(n + 1), NEW h \in 1..(n + 1), k < h
                 PROVE  g[k] < g[h]
      OBVIOUS
    <3>1. k \in 1..n /\ (h \in 1..n \/ h = n + 1)
      BY <1>2, <2>1
    <3> QED
      BY <1>2, <2>1, <3>1
  <2>4. \A i \in 1..Len(p) : p[i] \notin C => \E k \in 1..(n + 1) : g[k] = i
    BY <1>1, <1>2, <2>1
  <2>5. \A k \in 1..(n + 1) : p[g[k]] \notin C
    BY <1>2, <1>4, <2>1, <2>2
  <2>6. Without(p, C) = [k \in 1..(n + 1) |-> p[g[k]]]
    <3>1. Listing(p, C, (n + 1), g)
      BY <2>1, <2>3, <2>4, <2>5 DEF Listing
    <3> QED
      BY <3>1, WithoutIs
  <2>7. Without(p, C) = [k \in 1..(n + 1) |-> IF k = n + 1 THEN e ELSE q[f[k]]]
    BY <2>2, <2>6
  <2>8. Append([k \in 1..n |-> q[f[k]]], e)
        = [k \in 1..(n + 1) |-> IF k = n + 1 THEN e ELSE q[f[k]]]
    <3> DEFINE r == [k \in 1..n |-> q[f[k]]]
    <3> DEFINE t == [k \in 1..(n + 1) |-> IF k = n + 1 THEN e ELSE q[f[k]]]
    <3>1. \A k \in 1..n : q[f[k]] \in S
      BY <1>2
    <3>2. r \in [1..n -> S] /\ t \in [1..(n + 1) -> S] /\ n + 1 \in Nat
      BY <1>2, <3>1
    <3>3. /\ \A k \in 1..n : r[k] = q[f[k]] /\ t[k] = q[f[k]]
          /\ t[n + 1] = e
      BY <1>2
    <3> HIDE DEF r, t
    <3>4. r \in Seq(S) /\ Len(r) = n /\ t \in Seq(S) /\ Len(t) = n + 1
      BY <1>2, <3>2, FunctionIsSeq
    <3>5. /\ Append(r, e) \in Seq(S) /\ Len(Append(r, e)) = n + 1
          /\ \A k \in 1..n : Append(r, e)[k] = r[k]
          /\ Append(r, e)[n + 1] = e
      BY <1>2, <3>4
    <3>6. \A k \in 1..(n + 1) : Append(r, e)[k] = t[k]
      BY <1>2, <3>3, <3>5
    <3>7. Append(r, e) = t
      BY <3>4, <3>5, <3>6, SeqEqual
    <3> QED
      BY <3>7 DEF r, t
  <2> QED
    BY <1>2, <1>4, <2>7, <2>8 DEF p
<1> QED
  BY <1>3, <1>4

(* When the head is left out, popping it changes nothing, and else it is   *)
(* popped.                                                                 *)
LEMMA WithoutTail ==
    ASSUME NEW S, NEW q \in Seq(S), q # <<>>, NEW C
    PROVE  /\ Head(q) \in C => Without(Tail(q), C) = Without(q, C)
           /\ Head(q) \notin C => /\ Without(q, C) # <<>>
                                  /\ Head(Without(q, C)) = Head(q)
                                  /\ Tail(Without(q, C)) = Without(Tail(q), C)
<1> DEFINE p == Tail(q)
<1>1. /\ p \in Seq(S) /\ Len(p) = Len(q) - 1 /\ Len(q) \in Nat /\ 1 \in 1..Len(q)
      /\ Head(q) = q[1]
      /\ \A i \in 1..Len(p) : p[i] = q[i + 1] /\ i + 1 \in 1..Len(q)
      /\ \A i \in 1..Len(q) : i = 1 \/ i - 1 \in 1..Len(p)
  OBVIOUS
<1> HIDE DEF p
<1>20. PICK n, f : Leaves(q, C, n, f)
  BY WithoutListed
<1>2. /\ n \in Nat /\ f \in [1..n -> 1..Len(q)]
      /\ \A k \in 1..n : q[f[k]] \notin C
      /\ \A k, h \in 1..n : k < h => f[k] < f[h]
      /\ \A i \in 1..Len(q) : q[i] \notin C => \E k \in 1..n : f[k] = i
      /\ Without(q, C) = [k \in 1..n |-> q[f[k]]]
  BY <1>20 DEF Leaves, Listing
<1>3. CASE Head(q) \in C
  <2> DEFINE g == [k \in 1..n |-> f[k] - 1]
  <2>1. \A k \in 1..n : f[k] # 1 /\ f[k] - 1 \in 1..Len(p) /\ p[f[k] - 1] = q[f[k]]
    BY <1>1, <1>2, <1>3
  <2>2. g \in [1..n -> 1..Len(p)] /\ \A k \in 1..n : g[k] = f[k] - 1 /\ p[g[k]] = q[f[k]]
    BY <2>1
  <2> HIDE DEF g
  <2>3. \A k, h \in 1..n : k < h => g[k] < g[h]
    BY <1>2, <2>2
  <2>4. \A i \in 1..Len(p) : p[i] \notin C => \E k \in 1..n : g[k] = i
    <3> SUFFICES ASSUME NEW i \in 1..Len(p), p[i] \notin C PROVE \E k \in 1..n : g[k] = i
      OBVIOUS
    <3>1. PICK k \in 1..n : f[k] = i + 1
      BY <1>1, <1>2
    <3> QED
      BY <2>2, <3>1
  <2>5. Without(p, C) = [k \in 1..n |-> p[g[k]]]
    <3>1. Listing(p, C, n, g)
      BY <1>2, <2>2, <2>3, <2>4 DEF Listing
    <3> QED
      BY <3>1, WithoutIs
  <2> QED
    BY <1>2, <1>3, <2>2, <2>5 DEF p
<1>4. CASE Head(q) \notin C
  <2>1. n >= 1 /\ 1 \in 1..n /\ f[1] = 1
    <3>1. PICK k \in 1..n : f[k] = 1
      BY <1>1, <1>2, <1>4
    <3>2. 1 \in 1..n /\ ~(1 < k)
      BY <1>2, <3>1
    <3> QED
      BY <3>1, <3>2, <1>2
  <2> DEFINE m == n - 1
             g == [k \in 1..m |-> f[k + 1] - 1]
  <2>2. /\ m \in Nat /\ \A k \in 1..m : k + 1 \in 1..n /\ 1 < k + 1
        /\ \A k \in 1..n : k = 1 \/ k - 1 \in 1..m
    BY <1>2, <2>1
  <2>3. \A k \in 1..m : f[k + 1] - 1 \in 1..Len(p) /\ p[f[k + 1] - 1] = q[f[k + 1]]
    <3> SUFFICES ASSUME NEW k \in 1..m
                 PROVE  f[k + 1] - 1 \in 1..Len(p) /\ p[f[k + 1] - 1] = q[f[k + 1]]
      OBVIOUS
    <3>1. f[k + 1] > 1 /\ f[k + 1] \in 1..Len(q)
      BY <1>2, <2>1, <2>2
    <3> QED
      BY <1>1, <3>1
  <2>4. /\ g \in [1..m -> 1..Len(p)]
        /\ \A k \in 1..m : g[k] = f[k + 1] - 1 /\ p[g[k]] = q[f[k + 1]]
    BY <2>3
  <2> HIDE DEF g, m
  <2>5. \A k, h \in 1..m : k < h => g[k] < g[h]
    <3> SUFFICES ASSUME NEW k \in 1..m, NEW h \in 1..m, k < h PROVE g[k] < g[h]
      OBVIOUS
    <3>1. k + 1 \in 1..n /\ h + 1 \in 1..n /\ k + 1 < h + 1
      BY <2>2
    <3>2. f[k + 1] < f[h + 1] /\ f[k + 1] \in Int /\ f[h + 1] \in Int
      BY <1>2, <3>1
    <3> QED
      BY <2>4, <3>2
  <2>6. \A i \in 1..Len(p) : p[i] \notin C => \E k \in 1..m : g[k] = i
    <3> SUFFICES ASSUME NEW i \in 1..Len(p), p[i] \notin C PROVE \E k \in 1..m : g[k] = i
      OBVIOUS
    <3>1. PICK k \in 1..n : f[k] = i + 1
      BY <1>1, <1>2
    <3>2. k - 1 \in 1..m /\ (k - 1) + 1 = k
      BY <2>1, <2>2, <3>1
    <3>3. g[k - 1] = f[(k - 1) + 1] - 1
      BY <2>4, <3>2
    <3> QED
      BY <3>1, <3>2, <3>3
  <2>7. \A k \in 1..m : p[g[k]] \notin C
    BY <1>2, <2>2, <2>4
  <2>8. Without(p, C) = [k \in 1..m |-> p[g[k]]]
    <3>1. Listing(p, C, m, g)
      BY <2>2, <2>4, <2>5, <2>6, <2>7 DEF Listing
    <3> QED
      BY <3>1, WithoutIs
  <2>9. Without(p, C) = [k \in 1..m |-> q[f[k + 1]]]
    BY <2>4, <2>8
  <2> DEFINE r == [k \in 1..n |-> q[f[k]]]
  <2>10. r \in Seq(S) /\ Len(r) = n /\ \A k \in 1..n : r[k] = q[f[k]]
    <3>1. r \in [1..n -> S] /\ \A k \in 1..n : r[k] = q[f[k]]
      BY <1>2
    <3> QED
      BY <1>2, <3>1, FunctionIsSeq
  <2> HIDE DEF r
  <2>11. /\ r # <<>> /\ Head(r) = r[1] /\ Tail(r) \in Seq(S) /\ Len(Tail(r)) = n - 1
         /\ \A k \in 1..(n - 1) : Tail(r)[k] = r[k + 1]
    <3>1. Len(r) # 0 /\ r # <<>>
      BY <1>2, <2>1, <2>10
    <3> QED
      BY <2>10, <3>1, HeadTailProperties
  <2>12. Tail(r) = [k \in 1..m |-> q[f[k + 1]]]
    <3> DEFINE t == [k \in 1..m |-> q[f[k + 1]]]
    <3>0. \A k \in 1..m : r[k + 1] = q[f[k + 1]] /\ q[f[k + 1]] \in S
      <4> SUFFICES ASSUME NEW k \in 1..m
                   PROVE  r[k + 1] = q[f[k + 1]] /\ q[f[k + 1]] \in S
        OBVIOUS
      <4>1. k + 1 \in 1..n
        BY <2>2
      <4>2. f[k + 1] \in 1..Len(q)
        BY <1>2, <4>1
      <4> QED
        BY <2>10, <4>1, <4>2
    <3>1. t \in [1..m -> S] /\ \A k \in 1..m : t[k] = r[k + 1]
      BY <3>0
    <3> HIDE DEF t
    <3>2. t \in Seq(S) /\ Len(t) = m
      BY <2>2, <3>1, FunctionIsSeq
    <3>3. m = n - 1
      BY DEF m
    <3>4. Len(Tail(r)) = Len(t) /\ \A k \in 1..Len(Tail(r)) : Tail(r)[k] = t[k]
      BY <2>11, <3>1, <3>2, <3>3
    <3>5. Tail(r) = t
      BY <2>11, <3>2, <3>4, SeqEqual
    <3> QED
      BY <3>5 DEF t
  <2>13. Head(r) = q[1]
    BY <2>1, <2>10, <2>11
  <2> QED
    BY <1>1, <1>2, <1>4, <2>9, <2>11, <2>12, <2>13 DEF p, r
<1> QED
  BY <1>3, <1>4

(* Leaving out again.                                                      *)
LEMMA WithoutTwice ==
    ASSUME NEW S, NEW q \in Seq(S), NEW C, NEW D
    PROVE  Without(Without(q, C), D) = Without(q, C \cup D)
<1>10. PICK n, f : Leaves(q, C, n, f)
  BY WithoutListed
<1>1. /\ n \in Nat /\ f \in [1..n -> 1..Len(q)]
      /\ \A k \in 1..n : q[f[k]] \notin C
      /\ \A k, h \in 1..n : k < h => f[k] < f[h]
      /\ \A i \in 1..Len(q) : q[i] \notin C => \E k \in 1..n : f[k] = i
      /\ Without(q, C) = [k \in 1..n |-> q[f[k]]]
  BY <1>10 DEF Leaves, Listing
<1> DEFINE p == [k \in 1..n |-> q[f[k]]]
<1>2. p \in Seq(S) /\ Len(p) = n /\ \A k \in 1..n : p[k] = q[f[k]]
  <2>1. p \in [1..n -> S] /\ \A k \in 1..n : p[k] = q[f[k]]
    BY <1>1
  <2> QED
    BY <1>1, <2>1, FunctionIsSeq
<1> HIDE DEF p
<1>30. PICK m, g : Leaves(p, D, m, g)
  BY <1>2, WithoutListed
<1>3. /\ m \in Nat /\ g \in [1..m -> 1..Len(p)]
      /\ \A k \in 1..m : p[g[k]] \notin D
      /\ \A k, h \in 1..m : k < h => g[k] < g[h]
      /\ \A i \in 1..Len(p) : p[i] \notin D => \E k \in 1..m : g[k] = i
      /\ Without(p, D) = [k \in 1..m |-> p[g[k]]]
  BY <1>30 DEF Leaves, Listing
<1> DEFINE e == [k \in 1..m |-> f[g[k]]]
<1>4. \A k \in 1..m : g[k] \in 1..n
  BY <1>2, <1>3 
<1>5. /\ e \in [1..m -> 1..Len(q)]
      /\ \A k \in 1..m : e[k] = f[g[k]] /\ q[e[k]] = p[g[k]]
  BY <1>1, <1>2, <1>4
<1> HIDE DEF e
<1> DEFINE E == C \cup D
<1>6. \A k \in 1..m : q[e[k]] \notin E
  BY <1>1, <1>3, <1>4, <1>5
<1>7. \A k, h \in 1..m : k < h => e[k] < e[h]
  BY <1>1, <1>3, <1>4, <1>5
<1>8. \A i \in 1..Len(q) : q[i] \notin E => \E k \in 1..m : e[k] = i
  <2> SUFFICES ASSUME NEW i \in 1..Len(q), q[i] \notin C, q[i] \notin D
               PROVE  \E k \in 1..m : e[k] = i
    OBVIOUS
  <2>1. PICK h \in 1..n : f[h] = i
    BY <1>1
  <2>2. PICK k \in 1..m : g[k] = h
    BY <1>2, <1>3, <2>1
  <2> QED
    BY <1>5, <2>1, <2>2
<1> HIDE DEF E
<1>9. Without(q, E) = [k \in 1..m |-> q[e[k]]]
  <2>1. Listing(q, E, m, e)
    BY <1>3, <1>5, <1>6, <1>7, <1>8 DEF Listing
  <2> QED
    BY <2>1, WithoutIs
<1>11. [k \in 1..m |-> q[e[k]]] = [k \in 1..m |-> p[g[k]]]
  BY <1>5
<1>12. Without(p, D) = Without(q, E)
  BY <1>3, <1>9, <1>11
<1> QED
  BY <1>1, <1>12 DEF p, E

-----------------------------------------------------------------------------
(* A job some client took an id for and has not pushed yet.                *)
Pushing(j) == \E t \in Threads : pc[t] = "push" /\ call_id[t] = j

(* What the abstract status of a job is, condition by condition.           *)
StatusOf(j) ==
    /\ j \in cancelled => ServiceStatus[j] = "cancelled"
    /\ j \notin cancelled \cup heap /\ ran[j] = 0 => ServiceStatus[j] = "new"
    /\ j \notin cancelled \cup heap /\ ran[j] # 0 => ServiceStatus[j] = "collected"
    /\ j \in heap \ cancelled /\ Pushing(j) => ServiceStatus[j] = "new"
    /\ j \in heap \ cancelled /\ ~Pushing(j) /\ j \notin processed =>
          ServiceStatus[j] = "queued"
    /\ j \in (heap \cap processed) \ cancelled /\ ~Pushing(j) /\ InWorkersHands(j) =>
          ServiceStatus[j] = "running"
    /\ j \in (heap \cap processed) \ cancelled /\ ~Pushing(j) /\ ~InWorkersHands(j) =>
          ServiceStatus[j] = "done"

StatusIs ==
    /\ \A j \in Ids : StatusOf(j)
    /\ ServiceStatus = [j \in Ids |-> ServiceStatus[j]]

(* The definition of ServiceStatus says so.                                *)
LEMMA StatusHolds == StatusIs
<1>1. ServiceStatus = [j \in Ids |-> ServiceStatus[j]]
  BY DEF ServiceStatus
<1>2. ASSUME NEW j \in Ids PROVE StatusOf(j)
  <2>1. (\E t \in Threads : j \in InSubmission(t)) <=> Pushing(j)
    BY DEF InSubmission, Pushing
  <2>2. j \in InHand <=> InWorkersHands(j)
    BY MaxJobsAssumption DEF InHand, InWorkersHands, DESTROY, Ids
  <2>3. ServiceStatus[j] =
            CASE j \in cancelled -> "cancelled"
              [] j \notin cancelled \cup heap ->
                   IF ran[j] = 0 THEN "new" ELSE "collected"
              [] j \in heap \ cancelled ->
                   IF Pushing(j) THEN "new"
                   ELSE IF j \notin processed THEN "queued"
                   ELSE IF InWorkersHands(j) THEN "running" ELSE "done"
    BY <2>1, <2>2 DEF ServiceStatus
  <2> QED
    BY <2>3 DEF StatusOf
<1> QED
  BY <1>1, <1>2 DEF StatusIs

(* Of a job that was cancelled or whose part of the state a step leaves    *)
(* alone the service sees nothing.                                         *)
Unmoved(j) ==
    /\ j \in cancelled' <=> j \in cancelled
    /\ j \notin cancelled =>
          /\ j \in heap' <=> j \in heap
          /\ j \notin heap => ran'[j] = ran[j]
          /\ j \in heap => /\ Pushing(j)' <=> Pushing(j)
                           /\ j \in processed' <=> j \in processed
                           /\ InWorkersHands(j)' <=> InWorkersHands(j)

(* So it is before a step and after it.                                    *)
LEMMA StatusBeforeAndAfter ==
    ASSUME NEW j \in Ids
    PROVE  StatusOf(j) /\ StatusOf(j)'
<1>1. StatusIs /\ StatusIs'
  BY StatusHolds, PTL
<1> QED
  BY <1>1 DEF StatusIs

(* And so its status stays.                                                *)
LEMMA StatusKept ==
    ASSUME NEW j \in Ids, Unmoved(j)
    PROVE  ServiceStatus'[j] = ServiceStatus[j]
<1>1. StatusOf(j) /\ StatusOf(j)'
  BY StatusBeforeAndAfter
<1>2. CASE j \in cancelled
  BY <1>1, <1>2 DEF StatusOf, Unmoved
<1>3. CASE j \notin cancelled \cup heap
  BY <1>1, <1>3 DEF StatusOf, Unmoved
<1>4. CASE j \in heap \ cancelled
  <2>1. /\ j \in heap' \ cancelled'
        /\ Pushing(j)' <=> Pushing(j)
        /\ j \in processed' <=> j \in processed
        /\ InWorkersHands(j)' <=> InWorkersHands(j)
    BY <1>4 DEF Unmoved
  <2> QED
    BY <1>1, <1>4, <2>1 DEF StatusOf
<1> QED
  BY <1>2, <1>3, <1>4

(* A step that moves nobody leaves the service as it is.                   *)
LEMMA NobodyMoved ==
    ASSUME \A j \in Ids : Unmoved(j) \/ ServiceStatus'[j] = ServiceStatus[j]
    PROVE  ServiceStatus' = ServiceStatus
<1>1. StatusIs /\ StatusIs'
  BY StatusHolds, PTL
<1>2. \A j \in Ids : ServiceStatus'[j] = ServiceStatus[j]
  BY StatusKept
<1> QED
  BY <1>1, <1>2 DEF StatusIs

(* A step that moves one job changes its status only.                      *)
LEMMA OneMoved ==
    ASSUME NEW i \in Ids, NEW s, ServiceStatus'[i] = s,
           \A j \in Ids \ {i} : Unmoved(j)
    PROVE  ServiceStatus' = [ServiceStatus EXCEPT ![i] = s]
<1>1. StatusIs /\ StatusIs'
  BY StatusHolds, PTL
<1>2. \A j \in Ids \ {i} : ServiceStatus'[j] = ServiceStatus[j]
  BY StatusKept
<1> QED
  BY <1>1, <1>2 DEF StatusIs

(* Unfolded once for all the steps below.                                  *)
LEMMA SameWithout == \A q, C : Service!Without(q, C) = Without(q, C)
<1> SUFFICES ASSUME NEW q, NEW C PROVE Service!Without(q, C) = Without(q, C)
  OBVIOUS
<1> QED
  BY DEF Service!Without, Service!Kept, Service!Lists, Without, Kept, Lists,
         Service!Cardinality, Cardinality

(* A client's job while it is being submitted.                             *)
LEMMA PushingFacts ==
    ASSUME IInv, NEW j \in Ids, Pushing(j)
    PROVE  /\ j \in heap \ (processed \cup cancelled \cup Range(to_worker))
           /\ disposed = "no"
           /\ pc[owner[j]] = "push" /\ call_id[owner[j]] = j
           /\ \A t \in Threads : pc[t] = "push" /\ call_id[t] = j => t = owner[j]
  BY DEF IInv, SubmittingInv, Submitting, Pushing

(* An executed job whose reply was not fetched.                            *)
LEMMA AnsweredFacts ==
    ASSUME IInv, PlacesInv, NEW t \in Threads, NEW j \in Range(from_worker[t]) \cup results[t]
    PROVE  /\ j \in Ids /\ j \in (heap \cap processed) \ cancelled
           /\ ~Pushing(j) /\ ~InWorkersHands(j) /\ ran[j] = 1
           /\ ServiceStatus[j] = "done"
<1>1. /\ j \in (heap \cap processed) \ cancelled
      /\ wpc \in {"popped", "run"} => j # wjob
  BY DEF IInv, AnsweredInv, Answered
<1>2. j \in Ids /\ j < next_job_id /\ ~InWorkersHands(j)
  BY <1>1 DEF IInv, TypeOK, FreshInv, InWorkersHands
<1>3. ~Pushing(j)
  BY <1>1, <1>2, PushingFacts
<1>4. ran[j] = 1
  <2>1. Submitted(j)
    <3>1. ~(pc[owner[j]] = "push" /\ call_id[owner[j]] = j)
      <4>1. owner[j] \in Threads
        BY <1>2 DEF IInv, TypeOK
      <4> QED
        BY <1>3, <4>1 DEF Pushing
    <3> QED
      BY <1>2, <3>1 DEF PlacesInv, PushedInv
  <2>2. j \notin Range(to_worker) /\ ~JustPopped(j) /\ j \notin cancelled
    <3>1. j # DESTROY
      BY <1>2 DEF Ids, DESTROY
    <3> QED
      BY <1>1, <3>1 DEF IInv, QueuedInv, JustPopped
  <2> QED
    BY <2>1, <2>2 DEF Submitted, Over
<1>5. StatusOf(j)
  BY <1>2, StatusHolds DEF StatusIs
<1> QED
  BY <1>1, <1>2, <1>3, <1>4, <1>5 DEF StatusOf

ServiceKept == UNCHANGED <<ServiceStatus, ServiceQueue>>

(* The service's queue is a function of the worker's and of what is        *)
(* cancelled.                                                              *)
LEMMA QueueKept ==
    ASSUME UNCHANGED <<to_worker, cancelled>>
    PROVE  ServiceQueue' = ServiceQueue
  BY DEF ServiceQueue

(* A thread enters a call or goes on in it: nobody else can tell.          *)
LEMMA CallsAreUnseen ==
    ASSUME IInv, NEW t \in Threads,
           UNCHANGED <<heap, cancelled, processed, to_worker, ran, wpc, wjob>>,
           pc[t] # "push", pc'[t] # "push",
           \A u \in Threads \ {t} : pc'[u] = pc[u] /\ call_id'[u] = call_id[u]
    PROVE  ServiceKept
<1>1. \A j : Pushing(j)' <=> Pushing(j)
  BY DEF Pushing
<1>2. \A j : InWorkersHands(j)' <=> InWorkersHands(j)
  BY DEF InWorkersHands
<1>3. \A j \in Ids : Unmoved(j)
  BY <1>1, <1>2 DEF Unmoved
<1> QED
  BY <1>3, NobodyMoved, QueueKept DEF ServiceKept

(* Such are the calls that take no job, and their ends.                    *)
LEMMA EnteringIsUnseen ==
    ASSUME IInv, NEW t \in Threads,
           \/ \E may \in BOOLEAN : Iterate(t, may)
           \/ \E may \in BOOLEAN, id \in Ids : FetchResult(t, may, id)
           \/ IterateResult(t) \/ IterateEmpty(t) \/ FetchNotFound(t)
    PROVE  ServiceKept
<1> USE DEF jobVars, flags, tdVars, workerVars, callVars
<1>0. pc \in [Threads -> CallStates] /\ call_id \in [Threads -> 0..MaxJobs]
  BY DEF IInv, TypeOK
<1>1. CASE \E may \in BOOLEAN : Iterate(t, may)
  BY <1>0, <1>1, CallsAreUnseen DEF Iterate, CanCall
<1>2. CASE \E may \in BOOLEAN, id \in Ids : FetchResult(t, may, id)
  BY <1>0, <1>2, CallsAreUnseen DEF FetchResult, CanCall
<1>3. CASE IterateResult(t)
  BY <1>0, <1>3, CallsAreUnseen DEF IterateResult, Iterating, Return
<1>4. CASE IterateEmpty(t)
  BY <1>0, <1>4, CallsAreUnseen DEF IterateEmpty, Iterating, Return
<1>5. CASE FetchNotFound(t)
  BY <1>0, <1>5, CallsAreUnseen DEF FetchNotFound
<1> QED
  BY <1>1, <1>2, <1>3, <1>4, <1>5

(* An id is taken: the job stays new until it is pushed.                   *)
LEMMA TakingAnIdIsUnseen ==
    ASSUME IInv, NEW t \in Threads, NEW void \in BOOLEAN, ExecuteBegin(t, void)
    PROVE  ServiceKept
<1> USE DEF jobVars, flags, tdVars, workerVars, callVars
<1>0. next_job_id \in Ids
  BY DEF ExecuteBegin, IInv, TypeOK, Ids
<1> PICK id \in Ids : id = next_job_id
  BY <1>0
<1>1. id \notin heap \cup cancelled /\ ran[id] = 0 /\ ran' = ran
  BY DEF ExecuteBegin, IInv, TypeOK, FreshInv
<1>2. /\ heap' = heap \cup {id} /\ pc[t] = "idle"
      /\ UNCHANGED <<cancelled, processed, to_worker, wpc, wjob>>
  BY DEF ExecuteBegin, NewJob, CanCall
<1>3. /\ pc'[t] = "push" /\ call_id'[t] = id
      /\ \A u \in Threads \ {t} : pc'[u] = pc[u] /\ call_id'[u] = call_id[u]
  BY DEF ExecuteBegin, IInv, TypeOK
<1>4. \A j \in Ids \ {id} : Unmoved(j)
  <2>1. \A j \in Ids \ {id} : Pushing(j)' <=> Pushing(j)
    BY <1>2, <1>3 DEF Pushing
  <2> QED
    BY <1>1, <1>2, <2>1 DEF Unmoved, InWorkersHands
<1>5. ServiceStatus'[id] = ServiceStatus[id]
  <2>1. StatusOf(id) /\ StatusOf(id)'
    BY StatusBeforeAndAfter
  <2>2. Pushing(id)'
    BY <1>3 DEF Pushing
  <2>3. ServiceStatus[id] = "new"
    BY <1>1, <2>1 DEF StatusOf
  <2>4. ServiceStatus'[id] = "new"
    BY <1>1, <1>2, <2>1, <2>2 DEF StatusOf
  <2> QED
    BY <2>3, <2>4
<1> QED
  BY <1>2, <1>4, <1>5, NobodyMoved, QueueKept DEF ServiceKept

(* The push is the submission.                                             *)
LEMMA PushSubmits ==
    ASSUME IInv, NEW t \in Threads, ExecutePush(t)
    PROVE  \E j \in Ids : Service!Submit(j)
<1> USE DEF jobVars, flags, tdVars, workerVars, callVars
<1>0. call_id[t] \in Ids /\ pc[t] = "push"
  BY DEF ExecutePush, IInv, SubmittingInv, Submitting
<1> PICK id \in Ids : id = call_id[t]
  BY <1>0
<1>1. Pushing(id)
  BY <1>0 DEF Pushing
<1>2. /\ id \in heap \ (processed \cup cancelled) /\ t = owner[id]
      /\ \A u \in Threads : pc[u] = "push" /\ call_id[u] = id => u = t
  BY <1>0, <1>1, PushingFacts
<1>3. /\ pc' = [pc EXCEPT ![t] = "idle"] /\ call_id' = [call_id EXCEPT ![t] = 0]
      /\ to_worker' = Append(to_worker, id)
      /\ UNCHANGED <<heap, cancelled, processed, ran, wpc, wjob>>
  BY DEF ExecutePush, Return, Pushed
<1>4. /\ pc'[t] = "idle"
      /\ \A u \in Threads \ {t} : pc'[u] = pc[u] /\ call_id'[u] = call_id[u]
  BY <1>3 DEF IInv, TypeOK
<1>5. ~Pushing(id)'
  BY <1>2, <1>4 DEF Pushing
<1>6. \A j \in Ids \ {id} : Unmoved(j)
  <2>1. \A j \in Ids \ {id} : Pushing(j)' <=> Pushing(j)
    BY <1>4 DEF Pushing
  <2> QED
    BY <1>3, <2>1 DEF Unmoved, InWorkersHands
<1>7. ServiceStatus[id] = "new" /\ ServiceStatus'[id] = "queued"
  <2>1. StatusOf(id) /\ StatusOf(id)'
    BY StatusBeforeAndAfter
  <2>2. ServiceStatus[id] = "new"
    BY <1>1, <1>2, <2>1 DEF StatusOf
  <2>3. ServiceStatus'[id] = "queued"
    BY <1>2, <1>3, <1>5, <2>1 DEF StatusOf
  <2> QED
    BY <2>2, <2>3
<1>8. ServiceQueue' = Append(ServiceQueue, id)
  <2> DEFINE C == cancelled \cup {DESTROY}
             S == 0..MaxJobs
  <2>1. to_worker \in Seq(S) /\ id \in S /\ id \notin C
    BY <1>2 DEF IInv, TypeOK, Ids, DESTROY
  <2> HIDE DEF S, C
  <2>2. Without(Append(to_worker, id), C) = Append(Without(to_worker, C), id)
    BY <2>1, WithoutAppend
  <2> QED
    BY <1>3, <2>2 DEF ServiceQueue, C
<1>9. ServiceStatus' = [ServiceStatus EXCEPT ![id] = "queued"]
  BY <1>6, <1>7, OneMoved
<1> QED
  BY <1>7, <1>8, <1>9 DEF Service!Submit

(* A job the function being executed submits is executed within it.        *)
LEMMA WorkerSubmitsNested ==
    ASSUME IInv, NEW void \in BOOLEAN, ExecuteInWorker(void)
    PROVE  \E j \in Ids : Service!SubmitNested(j)
<1> USE DEF jobVars, flags, tdVars, workerVars, callVars
<1>0. next_job_id \in Ids
  BY DEF ExecuteInWorker, IInv, TypeOK, Ids
<1> PICK id \in Ids : id = next_job_id
  BY <1>0
<1>1. id \notin heap \cup cancelled \cup processed /\ ran[id] = 0
  BY DEF ExecuteInWorker, IInv, TypeOK, FreshInv
<1>2. /\ heap' = heap \cup {id} /\ processed' = processed \cup {id}
      /\ ran' = [ran EXCEPT ![id] = @ + 1]
      /\ UNCHANGED <<cancelled, to_worker, pc, call_id, wpc, wjob>>
      /\ wpc = "run"
  BY DEF ExecuteInWorker, NewJob, CanCall
<1>3. \A j : (Pushing(j)' <=> Pushing(j)) /\ (InWorkersHands(j)' <=> InWorkersHands(j))
  BY <1>2 DEF Pushing, InWorkersHands
<1>4. \A j \in Ids \ {id} : Unmoved(j)
  <2>1. \A j \in Ids \ {id} : ran'[j] = ran[j]
    BY <1>2 DEF IInv, TypeOK
  <2> QED
    BY <1>2, <1>3, <2>1 DEF Unmoved
<1>5. /\ wjob \in Ids /\ wjob \in (heap \cap processed) \ cancelled /\ InWorkersHands(wjob)
  BY <1>2 DEF IInv, TypeOK, InHandInv, InWorkersHands, Ids
<1>6. ServiceStatus[wjob] = "running"
  <2>1. ~Pushing(wjob)
    BY <1>5, PushingFacts
  <2>2. StatusOf(wjob)
    BY <1>5, StatusHolds DEF StatusIs
  <2> QED
    BY <1>5, <2>1, <2>2 DEF StatusOf
<1>7. ServiceStatus[id] = "new" /\ ServiceStatus'[id] = "done"
  <2>1. StatusOf(id) /\ StatusOf(id)'
    BY StatusBeforeAndAfter
  <2>2. ServiceStatus[id] = "new"
    BY <1>1, <2>1 DEF StatusOf
  <2>3. ~Pushing(id) /\ ~InWorkersHands(id)
    BY <1>1, <1>5, PushingFacts DEF InWorkersHands
  <2>4. ServiceStatus'[id] = "done"
    BY <1>1, <1>2, <1>3, <2>1, <2>3 DEF StatusOf
  <2> QED
    BY <2>2, <2>4
<1>8. ServiceStatus' = [ServiceStatus EXCEPT ![id] = "done"] /\ ServiceQueue' = ServiceQueue
  BY <1>2, <1>4, <1>7, OneMoved, QueueKept
<1> QED
  BY <1>5, <1>6, <1>7, <1>8 DEF Service!SubmitNested, Service!SomeoneRuns

(* cancel() withdraws a job that is queued.                                *)
LEMMA CancelCancels ==
    ASSUME IInv, NEW t \in Threads, NEW id \in Ids, Cancel(t, id)
    PROVE  Service!Cancel(id)
<1> USE DEF jobVars, flags, tdVars, workerVars, callVars
<1>1. id \in heap \ (cancelled \cup processed) /\ owner[id] = t /\ pc[t] = "idle"
  <2>1. id \in jobs[t] \ processed /\ disposed = "no" /\ pc[t] = "idle"
    BY DEF Cancel, CanCall, NotTaken
  <2>2. Accounted(t)
    BY <2>1 DEF IInv, JobsAccounted
  <2> QED
    BY <2>1, <2>2 DEF Accounted
<1>2. ~Pushing(id)
  BY <1>1, PushingFacts
<1>3. /\ cancelled' = cancelled \cup {id}
      /\ UNCHANGED <<heap, processed, to_worker, pc, call_id, ran, wpc, wjob>>
  BY DEF Cancel
<1>4. \A j \in Ids \ {id} : Unmoved(j)
  BY <1>3 DEF Unmoved, Pushing, InWorkersHands
<1>5. ServiceStatus[id] = "queued" /\ ServiceStatus'[id] = "cancelled"
  <2>1. StatusOf(id) /\ StatusOf(id)'
    BY StatusBeforeAndAfter
  <2>2. ServiceStatus[id] = "queued"
    BY <1>1, <1>2, <2>1 DEF StatusOf
  <2>3. ServiceStatus'[id] = "cancelled"
    BY <1>3, <2>1 DEF StatusOf
  <2> QED
    BY <2>2, <2>3
<1>6. ServiceQueue' = Service!Without(ServiceQueue, {id})
  <2> DEFINE C == cancelled \cup {DESTROY}
             S == 0..MaxJobs
  <2>1. to_worker \in Seq(S)
    BY DEF IInv, TypeOK
  <2>2. cancelled' \cup {DESTROY} = C \cup {id}
    BY <1>3
  <2> HIDE DEF S, C
  <2>3. Without(Without(to_worker, C), {id}) = Without(to_worker, C \cup {id})
    BY <2>1, WithoutTwice
  <2>4. Without(Without(to_worker, C), {id}) = Service!Without(Without(to_worker, C), {id})
    BY SameWithout
  <2> QED
    BY <1>3, <2>2, <2>3, <2>4 DEF ServiceQueue, C
<1>7. ServiceStatus' = [ServiceStatus EXCEPT ![id] = "cancelled"]
  BY <1>4, <1>5, OneMoved
<1> QED
  BY <1>5, <1>6, <1>7 DEF Service!Cancel

(* A job whose reply is fetched, or was not wanted, is freed.              *)
LEMMA FreeingCollects ==
    ASSUME IInv, PlacesInv, NEW t \in Threads,
           NEW id \in Range(from_worker[t]) \cup results[t],
           heap' = heap \ {id}, pc[t] # "push", pc'[t] # "push",
           \A u \in Threads \ {t} : pc'[u] = pc[u] /\ call_id'[u] = call_id[u],
           UNCHANGED <<cancelled, processed, to_worker, ran, wpc, wjob>>
    PROVE  id \in Ids /\ Service!Collect(id)
<1>1. /\ id \in Ids /\ id \in (heap \cap processed) \ cancelled
      /\ ~Pushing(id) /\ ~InWorkersHands(id) /\ ran[id] = 1
      /\ ServiceStatus[id] = "done"
  BY AnsweredFacts
<1>2. \A j : (Pushing(j)' <=> Pushing(j)) /\ (InWorkersHands(j)' <=> InWorkersHands(j))
  BY DEF Pushing, InWorkersHands
<1>3. \A j \in Ids \ {id} : Unmoved(j)
  BY <1>2 DEF Unmoved
<1>4. ServiceStatus'[id] = "collected"
  <2>1. StatusOf(id)'
    BY <1>1, StatusBeforeAndAfter
  <2> QED
    BY <1>1, <2>1 DEF StatusOf
<1>5. ServiceStatus' = [ServiceStatus EXCEPT ![id] = "collected"]
  BY <1>1, <1>3, <1>4, OneMoved
<1>6. ServiceQueue' = ServiceQueue
  BY QueueKept
<1> QED
  BY <1>1, <1>5, <1>6 DEF Service!Collect

(* Such are iterate() for a void job and fetch_result().                   *)
LEMMA FetchesCollect ==
    ASSUME IInv, PlacesInv, NEW t \in Threads, IterateVoid(t) \/ FetchFound(t)
    PROVE  \E j \in Ids : Service!Collect(j)
<1> USE DEF jobVars, flags, tdVars, workerVars, callVars, job_free
<1>0. pc \in [Threads -> CallStates] /\ call_id \in [Threads -> 0..MaxJobs]
  BY DEF IInv, TypeOK
<1>1. CASE IterateVoid(t)
  <2>1. PICK id \in Range(from_worker[t]) : id = Head(from_worker[t])
    <3>1. from_worker[t] \in Seq(Ids) /\ from_worker[t] # <<>> /\ NoRepeats(from_worker[t])
      BY <1>1 DEF IterateVoid, IInv, TypeOK, QueuesInv
    <3> QED
      BY <3>1, TailFacts
  <2>2. /\ heap' = heap \ {id} /\ pc' = pc /\ call_id' = call_id /\ pc[t] # "push"
        /\ UNCHANGED <<cancelled, processed, to_worker, ran, wpc, wjob>>
    BY <1>1, <2>1 DEF IterateVoid, Iterating
  <2> QED
    BY <2>2, FreeingCollects
<1>2. CASE FetchFound(t)
  <2>1. PICK id \in results[t] : id = call_id[t]
    BY <1>2 DEF FetchFound
  <2>2. /\ heap' = heap \ {id} /\ pc[t] # "push" /\ pc'[t] # "push"
        /\ \A u \in Threads \ {t} : pc'[u] = pc[u] /\ call_id'[u] = call_id[u]
        /\ UNCHANGED <<cancelled, processed, to_worker, ran, wpc, wjob>>
    BY <1>0, <1>2, <2>1 DEF FetchFound, Return
  <2> QED
    BY <2>2, FreeingCollects
<1> QED
  BY <1>1, <1>2

(* The worker takes a job: the next one submitted, unless what it takes is *)
(* a cancelled job or the destroy job.                                     *)
LEMMA PopStarts ==
    ASSUME IInv, WorkerPop
    PROVE  Service!Start \/ ServiceKept
<1> USE DEF jobVars, flags, tdVars, workerVars, callVars
<1> DEFINE C == cancelled \cup {DESTROY}
           S == 0..MaxJobs
<1>1. /\ to_worker \in Seq(S) /\ to_worker # <<>> /\ NoRepeats(to_worker)
      /\ \A x : x \in S <=> x = DESTROY \/ x \in Ids
  BY MaxJobsAssumption DEF WorkerPop, IInv, TypeOK, QueuesInv, Ids, DESTROY
<1>2. PICK e \in S : e = Head(to_worker) /\ e \in Range(to_worker)
  <2> HIDE DEF S
  <2> QED
    BY <1>1, TailFacts
<1>3. /\ to_worker' = Tail(to_worker) /\ wjob' = e /\ wpc = "pop" /\ wpc' = "popped"
      /\ processed' = processed \cup ({e} \ {DESTROY})
      /\ UNCHANGED <<cancelled, heap, pc, call_id, ran>>
  BY <1>2 DEF WorkerPop, Processed
<1>4. \A j : Pushing(j)' <=> Pushing(j)
  BY <1>3 DEF Pushing
<1>5. \A j \in Ids \ {e} : Unmoved(j)
  BY <1>3, <1>4 DEF Unmoved, InWorkersHands
<1>6. /\ e \in C => Without(Tail(to_worker), C) = Without(to_worker, C)
      /\ e \notin C => /\ Without(to_worker, C) # <<>>
                        /\ Head(Without(to_worker, C)) = e
                        /\ Tail(Without(to_worker, C)) = Without(Tail(to_worker), C)
  <2> HIDE DEF S, C
  <2> QED
    BY <1>1, <1>2, WithoutTail
<1>7. CASE e \in C
  <2>1. \A j \in Ids : Unmoved(j)
    <3>1. e \in Ids => Unmoved(e)
      BY <1>3, <1>7, MaxJobsAssumption DEF Unmoved, Ids, DESTROY
    <3> QED
      BY <1>5, <3>1
  <2>2. ServiceStatus' = ServiceStatus
    BY <2>1, NobodyMoved
  <2>3. ServiceQueue' = ServiceQueue
    BY <1>3, <1>6, <1>7 DEF ServiceQueue
  <2> QED
    BY <2>2, <2>3 DEF ServiceKept
<1>8. CASE e \notin C
  <2>1. e \in Ids /\ e \in heap \ (processed \cup cancelled)
    BY <1>1, <1>2, <1>8 DEF IInv, QueuedInv
  <2>2. ~Pushing(e)
    BY <1>2, <2>1, PushingFacts
  <2>3. ServiceStatus'[e] = "running"
    <3>1. StatusOf(e)'
      BY <2>1, StatusBeforeAndAfter
    <3>2. InWorkersHands(e)' /\ e \in processed'
      BY <1>3, <1>8 DEF InWorkersHands
    <3> QED
      BY <1>3, <1>4, <2>1, <2>2, <3>1, <3>2 DEF StatusOf
  <2>4. ServiceStatus' = [ServiceStatus EXCEPT ![e] = "running"]
    BY <1>5, <2>1, <2>3, OneMoved
  <2>5. ~Service!SomeoneRuns
    <3> SUFFICES ASSUME NEW j \in Ids, ServiceStatus[j] = "running" PROVE FALSE
      BY DEF Service!SomeoneRuns
    <3>1. StatusOf(j)
      BY StatusBeforeAndAfter
    <3>2. ~InWorkersHands(j)
      BY <1>3 DEF InWorkersHands
    <3> QED
      BY <3>1, <3>2 DEF StatusOf
  <2>6. ServiceQueue # <<>> /\ Head(ServiceQueue) = e /\ ServiceQueue' = Tail(ServiceQueue)
    BY <1>3, <1>6, <1>8 DEF ServiceQueue
  <2> QED
    BY <2>4, <2>5, <2>6 DEF Service!Start
<1> QED
  BY <1>7, <1>8

(* Calling the function, freeing a cancelled job and exiting are unseen.   *)
LEMMA WorkerIsUnseen ==
    ASSUME IInv, WorkerSkipCancelled \/ WorkerCallFunc \/ WorkerExit
    PROVE  ServiceKept
<1> USE DEF jobVars, flags, tdVars, workerVars, callVars
<1>0. UNCHANGED <<cancelled, processed, to_worker, pc, call_id>>
  BY DEF WorkerSkipCancelled, WorkerCallFunc, WorkerExit
<1>1. \A j : Pushing(j)' <=> Pushing(j)
  BY <1>0 DEF Pushing
<1>2. CASE WorkerSkipCancelled
  <2>1. wjob \in cancelled /\ heap' = heap \ {wjob} /\ ran' = ran /\ wpc' = "pop"
    BY <1>2 DEF WorkerSkipCancelled, job_free
  <2>2. \A j \in Ids : Unmoved(j)
    BY <1>0, <1>1, <2>1 DEF Unmoved, InWorkersHands
  <2> QED
    BY <1>0, <2>2, NobodyMoved, QueueKept DEF ServiceKept
<1>3. CASE WorkerCallFunc
  <2>1. /\ wjob \in heap /\ heap' = heap /\ wpc = "popped" /\ wpc' = "run" /\ wjob' = wjob
        /\ \A j \in Ids \ {wjob} : ran'[j] = ran[j]
    BY <1>3 DEF WorkerCallFunc, IInv, TypeOK, InHandInv
  <2>2. \A j \in Ids : Unmoved(j)
    BY <1>0, <1>1, <2>1 DEF Unmoved, InWorkersHands
  <2> QED
    BY <1>0, <2>2, NobodyMoved, QueueKept DEF ServiceKept
<1>4. CASE WorkerExit
  <2>1. heap' = heap /\ ran' = ran /\ wjob' = wjob /\ wjob = DESTROY
    BY <1>4 DEF WorkerExit
  <2>2. \A j \in Ids : Unmoved(j)
    BY <1>0, <1>1, <2>1, MaxJobsAssumption DEF Unmoved, InWorkersHands, DESTROY, Ids
  <2> QED
    BY <1>0, <2>2, NobodyMoved, QueueKept DEF ServiceKept
<1> QED
  BY <1>2, <1>3, <1>4

(* The function returned.                                                  *)
LEMMA ReplyFinishes ==
    ASSUME IInv, WorkerReply
    PROVE  \E j \in Ids : Service!Finish(j)
<1> USE DEF jobVars, flags, tdVars, workerVars, callVars
<1>0. wjob \in Ids /\ wpc = "run"
  BY DEF WorkerReply, IInv, TypeOK, InHandInv, Ids
<1> PICK id \in Ids : id = wjob
  BY <1>0
<1>1. id \in (heap \cap processed) \ cancelled /\ InWorkersHands(id)
  BY <1>0 DEF IInv, InHandInv, InWorkersHands
<1>2. ~Pushing(id)
  BY <1>1, PushingFacts
<1>3. /\ wpc' = "pop"
      /\ UNCHANGED <<heap, cancelled, processed, to_worker, pc, call_id, ran>>
  BY DEF WorkerReply
<1>4. \A j : (Pushing(j)' <=> Pushing(j)) /\ ~InWorkersHands(j)'
  BY <1>3 DEF Pushing, InWorkersHands
<1>5. \A j \in Ids \ {id} : Unmoved(j)
  BY <1>3, <1>4 DEF Unmoved, InWorkersHands
<1>6. ServiceStatus[id] = "running" /\ ServiceStatus'[id] = "done"
  <2>1. StatusOf(id) /\ StatusOf(id)'
    BY StatusBeforeAndAfter
  <2>2. ServiceStatus[id] = "running"
    BY <1>1, <1>2, <2>1 DEF StatusOf
  <2>3. ServiceStatus'[id] = "done"
    BY <1>1, <1>2, <1>3, <1>4, <2>1 DEF StatusOf
  <2> QED
    BY <2>2, <2>3
<1>7. ServiceStatus' = [ServiceStatus EXCEPT ![id] = "done"] /\ ServiceQueue' = ServiceQueue
  BY <1>3, <1>5, <1>6, OneMoved, QueueKept
<1> QED
  BY <1>6, <1>7 DEF Service!Finish

(* The destroy job is not a job of the service.                            *)
LEMMA DisposeIsUnseen ==
    ASSUME IInv, DisposePush
    PROVE  ServiceKept
<1> USE DEF jobVars, flags, tdVars, workerVars, callVars
<1>1. UNCHANGED <<heap, cancelled, processed, pc, call_id, ran, wpc, wjob>>
  BY DEF DisposePush
<1>2. \A j \in Ids : Unmoved(j)
  BY <1>1 DEF Unmoved, Pushing, InWorkersHands
<1>3. ServiceQueue' = ServiceQueue
  <2> DEFINE C == cancelled \cup {DESTROY}
             S == 0..MaxJobs
  <2>1. to_worker \in Seq(S) /\ DESTROY \in S /\ DESTROY \in C
    BY MaxJobsAssumption DEF IInv, TypeOK, DESTROY
  <2> HIDE DEF S, C
  <2>2. Without(Append(to_worker, DESTROY), C) = Without(to_worker, C)
    BY <2>1, WithoutAppend
  <2>3. to_worker' = Append(to_worker, DESTROY) /\ cancelled' = cancelled
    BY <1>1 DEF DisposePush, Pushed
  <2> QED
    BY <2>2, <2>3 DEF ServiceQueue, C
<1> QED
  BY <1>2, <1>3, NobodyMoved DEF ServiceKept

(* Removing the ThreadData cancels all that is queued, and drops the       *)
(* results nobody fetched.                                                 *)
LEMMA DisposeCloses ==
    ASSUME IInv, IInv', PlacesInv, DisposeThreads
    PROVE  Service!Close
<1> USE DEF jobVars, flags, tdVars, workerVars, callVars
<1> DEFINE pending == NotTaken(UNION {jobs[t] : t \in threads_hash})
           popped == UNION {results[t] : t \in threads_hash}
<1>1. /\ cancelled' = cancelled \cup pending
      /\ heap' = heap \ popped
      /\ UNCHANGED <<processed, pc, call_id, ran, wpc, wjob, to_worker>>
      /\ disposed = "pushed" /\ disposed' = "yes"
  BY DEF DisposeThreads
<1>2. /\ \A t \in Threads : pc[t] = "idle" /\ Accounted(t)
      /\ threads_hash \subseteq Threads
  BY <1>1 DEF IInv, TypeOK, ThreadDataInv, JobsAccounted
<1>3. \A j : ~Pushing(j) /\ ~Pushing(j)' /\ (InWorkersHands(j)' <=> InWorkersHands(j))
  BY <1>1, <1>2 DEF Pushing, InWorkersHands
<1>4. \A j \in popped : /\ j \in Ids /\ j \in (heap \cap processed) \ cancelled
                         /\ ran[j] = 1 /\ ServiceStatus[j] = "done"
  BY <1>2, AnsweredFacts
<1>5. \A j \in Ids : j \in pending <=> j \in heap \ (cancelled \cup processed)
  <2> SUFFICES ASSUME NEW j \in Ids
               PROVE  j \in pending <=> j \in heap \ (cancelled \cup processed)
    OBVIOUS
  <2>1. ASSUME j \in pending PROVE j \in heap \ (cancelled \cup processed)
    BY <1>2, <2>1 DEF NotTaken, Accounted
  <2>2. ASSUME j \in heap \ (cancelled \cup processed) PROVE j \in pending
    <3> DEFINE t == owner[j]
    <3>1. t \in Threads
      BY DEF IInv, TypeOK
    <3>2. j \notin results[t]
      BY <2>2, <3>1 DEF IInv, AnsweredInv, Answered
    <3>3. j \in jobs[t] /\ t \in threads_hash
      BY <1>2, <2>2, <3>1, <3>2 DEF Accounted
    <3> QED
      BY <2>2, <3>3 DEF NotTaken
  <2> QED
    BY <2>1, <2>2
<1> HIDE DEF pending, popped
<1>6. ASSUME NEW j \in Ids
      PROVE  ServiceStatus'[j] = IF ServiceStatus[j] = "queued" THEN "cancelled"
                                 ELSE IF j \in popped THEN "collected"
                                 ELSE ServiceStatus[j]
  <2>1. StatusOf(j) /\ StatusOf(j)'
    BY StatusBeforeAndAfter
  <2>2. CASE j \in pending
    <3>1. ServiceStatus[j] = "queued"
      BY <1>3, <1>5, <2>1, <2>2 DEF StatusOf
    <3>2. ServiceStatus'[j] = "cancelled"
      BY <1>1, <2>1, <2>2 DEF StatusOf
    <3> QED
      BY <3>1, <3>2
  <2>3. CASE j \in popped
    <3>1. ServiceStatus[j] = "done" /\ j \notin cancelled' /\ j \notin heap' /\ ran'[j] = 1
      BY <1>1, <1>4, <1>5, <2>3
    <3>2. ServiceStatus'[j] = "collected"
      BY <2>1, <3>1 DEF StatusOf
    <3> QED
      BY <2>3, <3>1, <3>2
  <2>4. CASE j \notin pending \cup popped
    <3>1. Unmoved(j)
      BY <1>1, <1>3, <2>4 DEF Unmoved
    <3>2. ServiceStatus'[j] = ServiceStatus[j]
      BY <3>1, StatusKept
    <3>3. ServiceStatus[j] # "queued"
      BY <1>3, <1>5, <2>1, <2>4 DEF StatusOf
    <3> QED
      BY <2>4, <3>2, <3>3
  <2> QED
    BY <2>2, <2>3, <2>4
<1>7. ServiceQueue' = <<>>
  <2> DEFINE C == cancelled' \cup {DESTROY}
             S == 0..MaxJobs
  <2>1. to_worker' \in Seq(S) /\ Range(to_worker') \subseteq C
    BY <1>1 DEF IInv, TypeOK, DisposedQueueCancelled
  <2> HIDE DEF S, C
  <2>2. \A i \in 1..Len(to_worker') : to_worker'[i] \in C
    BY <2>1 DEF Range
  <2>3. Without(to_worker', C) = <<>>
    BY <2>1, <2>2, WithoutAll
  <2> QED
    BY <2>3 DEF ServiceQueue, C
<1>8. popped \in SUBSET {j \in Ids : ServiceStatus[j] = "done"}
  BY <1>4
<1>9. ServiceStatus' = [j \in Ids |-> IF ServiceStatus[j] = "queued" THEN "cancelled"
                                      ELSE IF j \in popped THEN "collected"
                                      ELSE ServiceStatus[j]]
  <2>1. StatusIs'
    BY StatusHolds, PTL
  <2> QED
    BY <1>6, <2>1 DEF StatusIs
<1> QED
  BY <1>7, <1>8, <1>9 DEF Service!Close

(* At first no job is submitted.                                           *)
LEMMA InitIsService == Init => Service!Init
<1> SUFFICES ASSUME Init PROVE Service!Init
  OBVIOUS
<1>1. /\ heap = {} /\ cancelled = {} /\ ran = [j \in Ids |-> 0]
      /\ to_worker = <<>>
  BY DEF Init, InitFrom
<1>2. ServiceStatus = [j \in Ids |-> "new"]
  <2>1. \A j \in Ids : ServiceStatus[j] = "new"
    BY <1>1, StatusHolds DEF StatusIs, StatusOf
  <2> QED
    BY <2>1, StatusHolds DEF StatusIs
<1>3. ServiceQueue = <<>>
  <2>1. to_worker \in Seq({}) /\ \A i \in 1..Len(to_worker) : to_worker[i] \in {DESTROY}
    BY <1>1
  <2>2. cancelled \cup {DESTROY} = {DESTROY}
    BY <1>1
  <2> QED
    BY <2>1, <2>2, WithoutAll DEF ServiceQueue
<1> QED
  BY <1>2, <1>3 DEF Service!Init

(* Every step of the wrapper is a step of the service or unseen by it.     *)
LEMMA StepsAreServices ==
    ASSUME IInv, IInv', PlacesInv, [Next]_vars
    PROVE  Service!Next \/ ServiceKept
<1>1. CASE \E t \in Threads : Call(t)
  <2>1. PICK t \in Threads : Call(t)
    BY <1>1
  <2>2. CASE \E void \in BOOLEAN : ExecuteBegin(t, void)
    BY <2>2, TakingAnIdIsUnseen
  <2>3. CASE \E id \in Ids : Cancel(t, id)
    BY <2>3, CancelCancels DEF Service!Next
  <2>4. CASE \/ \E may \in BOOLEAN : Iterate(t, may)
             \/ \E may \in BOOLEAN, id \in Ids : FetchResult(t, may, id)
    BY <2>4, EnteringIsUnseen
  <2> QED
    BY <2>1, <2>2, <2>3, <2>4 DEF Call
<1>2. CASE \E t \in Threads : Continue(t)
  <2>1. PICK t \in Threads : Continue(t)
    BY <1>2
  <2>2. CASE ExecutePush(t)
    BY <2>2, PushSubmits DEF Service!Next
  <2>3. CASE IterateVoid(t) \/ FetchFound(t)
    BY <2>3, FetchesCollect DEF Service!Next
  <2>4. CASE IterateResult(t) \/ IterateEmpty(t) \/ FetchNotFound(t)
    BY <2>4, EnteringIsUnseen
  <2> QED
    BY <2>1, <2>2, <2>3, <2>4 DEF Continue
<1>3. CASE \E void \in BOOLEAN : ExecuteInWorker(void)
  BY <1>3, WorkerSubmitsNested DEF Service!Next
<1>4. CASE WorkerLoop
  BY <1>4, PopStarts, WorkerIsUnseen, ReplyFinishes DEF WorkerLoop, Service!Next
<1>5. CASE DisposePush
  BY <1>5, DisposeIsUnseen
<1>6. CASE DisposeThreads
  BY <1>6, DisposeCloses DEF Service!Next
<1>7. CASE Terminated \/ UNCHANGED vars
  <2>1. UNCHANGED <<heap, cancelled, processed, pc, call_id, ran, wpc, wjob, to_worker>>
    BY <1>7 DEF Terminated, vars, jobVars, flags, tdVars, workerVars, callVars
  <2>2. \A j \in Ids : Unmoved(j)
    BY <2>1 DEF Unmoved, Pushing, InWorkersHands
  <2> QED
    BY <2>1, <2>2, NobodyMoved, QueueKept DEF ServiceKept
<1> QED
  BY <1>1, <1>2, <1>3, <1>4, <1>5, <1>6, <1>7 DEF Next

(* Whatever its threads do, the wrapper is the job service: jobs are       *)
(* executed one at a time in the order of their submission, cancelled only *)
(* before they are started, and collected once.                            *)
THEOREM WrapperIsJobService == Spec => Service!SafeSpec
<1>1. IInv /\ IInv' /\ PlacesInv /\ [Next]_vars => Service!Next \/ ServiceKept
  BY StepsAreServices
<1>2. IInv /\ IInv' /\ PlacesInv /\ [Next]_vars
      => [Service!Next]_<<ServiceStatus, ServiceQueue>>
  BY <1>1 DEF ServiceKept
<1> QED
  BY <1>2, InitIsService, SpecIInv, SpecPlacesInv, PTL DEF Spec, Service!SafeSpec
=============================================================================
