---------------------------- MODULE GdaThreadWrapper ----------------------------
(***************************************************************************)
(* The jobs of libgda's GdaThreadWrapper (gda-thread-wrapper-vs10.c).      *)
(*                                                                         *)
(* Client threads hand functions to one worker thread through the queue    *)
(* to_worker_thread; the worker hands each executed job back through the   *)
(* from_worker_thread queue of the thread that submitted it.  Every thread *)
(* that uses the wrapper has a ThreadData with the jobs it still expects   *)
(* (td->jobs) and the results it popped but did not fetch (td->results).   *)
(* A function run by the worker may use the same wrapper again: the worker *)
(* then is a user like the clients, and executes its own jobs at once.     *)
(*                                                                         *)
(* A step is what a thread does between two points where another thread    *)
(* can see or disturb it: the id is taken under rmutex, the queues have    *)
(* their own lock, td is touched by its owner only (but for dispose).      *)
(* td->jobs and td->results are searched by the unique job id, so they are *)
(* sets here.  No thread of this module has connected a signal or asked    *)
(* for a notification pipe.                                                *)
(*                                                                         *)
(* A definition that no other uses and that stands just before another     *)
(* (KeptArgs before ClearedArgs) is a seeded fault: the mutation           *)
(* runs put it in the place of the one below to see the properties fail.   *)
(***************************************************************************)
EXTENDS Integers, Sequences, FiniteSets, Functions, Queues

CONSTANTS
    Clients,    \* the threads that use the wrapper from outside
    Worker,     \* wrapper->priv->worker_thread
    MaxJobs     \* bound on next_job_id: how many jobs are ever submitted

ASSUME WorkerAssumption == Worker \notin Clients
ASSUME MaxJobsAssumption == MaxJobs \in Nat

Threads == Clients \cup {Worker}
Ids == 1..MaxJobs
DESTROY == 0    \* the JOB_TYPE_DESTROY job: its job_id is left at zero

VARIABLES
    next_job_id,
    heap,           \* the jobs allocated and not yet freed
    owner,          \* the thread whose ThreadData a job was created in
    voids,          \* the jobs whose func is NULL (execute_void)
    processed,      \* the jobs with job->processed set
    cancelled,      \* the jobs with job->cancelled set
    args,           \* the jobs whose job->arg is not NULL
    to_worker,      \* wrapper->priv->to_worker_thread
    threads_hash,   \* the threads that have a ThreadData
    jobs,           \* td->jobs
    results,        \* td->results
    from_worker,    \* td->from_worker_thread
    pc,             \* the call each thread is in, and where in it
    call_id,        \* the job the call is about
    blocking,       \* the threads that passed may_block / may_lock
    wpc, wjob,      \* the worker's main loop and the job in its hands
    disposed,       \* how far gda_thread_wrapper_dispose() went
    ran,            \* history: how often each job's function was called
    destroyed       \* history: how often each job's arg was destroyed

flags == <<voids, processed, cancelled, args>>
jobVars == <<next_job_id, heap, owner, flags, ran, destroyed>>
tdVars == <<threads_hash, jobs, results, from_worker>>
workerVars == <<wpc, wjob>>
callVars == <<pc, call_id, blocking>>
vars == <<jobVars, to_worker, tdVars, callVars, workerVars, disposed>>

CallStates == {"idle", "push", "iterate", "fetch", "fetch_iterate"}
WorkerStates == {"pop", "popped", "run", "exit"}

(* Type correctness of the wrapper's state.                                *)
TypeOK ==
    /\ next_job_id \in 1..(MaxJobs + 1)
    /\ heap \subseteq Ids
    /\ owner \in [Ids -> Threads]
    /\ voids \subseteq Ids
    /\ processed \subseteq Ids
    /\ cancelled \subseteq Ids
    /\ args \subseteq Ids
    /\ to_worker \in Seq(0..MaxJobs)
    /\ threads_hash \subseteq Threads
    /\ jobs \in [Threads -> SUBSET Ids]
    /\ results \in [Threads -> SUBSET Ids]
    /\ from_worker \in [Threads -> Seq(Ids)]
    /\ pc \in [Threads -> CallStates]
    /\ call_id \in [Threads -> 0..MaxJobs]
    /\ blocking \subseteq Threads
    /\ wpc \in WorkerStates
    /\ wjob \in 0..MaxJobs
    /\ disposed \in {"no", "pushed", "yes"}
    /\ ran \in [Ids -> Nat]
    /\ destroyed \in [Ids -> Nat]

(* The initial state; without next_job_id = 1 the first job would get the  *)
(* id 0 that stands for an error.                                          *)
InitFrom(first_id) ==
    /\ next_job_id = first_id
    /\ heap = {}
    /\ owner = [j \in Ids |-> Worker]
    /\ voids = {}
    /\ processed = {}
    /\ cancelled = {}
    /\ args = {}
    /\ to_worker = <<>>
    /\ threads_hash = {}
    /\ jobs = [t \in Threads |-> {}]
    /\ results = [t \in Threads |-> {}]
    /\ from_worker = [t \in Threads |-> <<>>]
    /\ pc = [t \in Threads |-> "idle"]
    /\ call_id = [t \in Threads |-> 0]
    /\ blocking = {}
    /\ wpc = "pop"
    /\ wjob = 0
    /\ disposed = "no"
    /\ ran = [j \in Ids |-> 0]
    /\ destroyed = [j \in Ids |-> 0]

Init == InitFrom(1)

-----------------------------------------------------------------------------
(* A thread may call the wrapper when it is in no call, the wrapper is not *)
(* being disposed, and, for the worker, from the function it executes.     *)
CanCall(t) ==
    /\ disposed = "no"
    /\ pc[t] = "idle"
    /\ t = Worker => wpc = "run"

(* The jobs whose arg is still set once those of S are cancelled.          *)
KeptArgs(S) == args
ClearedArgs(S) == args \ S

(* The jobs marked as processed once the worker takes job j.               *)
StillUnprocessed(j) == processed
Processed(j) == processed \cup ({j} \ {DESTROY})

(* The jobs of S the worker did not take yet.                              *)
TakenInstead(S) == S \cap processed
NotTaken(S) == S \ processed

(* to_worker_thread once job j is pushed.                                  *)
PushedInFront(j) == <<j>> \o to_worker
Pushed(j) == Append(to_worker, j)

(* Whether a ThreadData expects nothing more once result id is fetched.    *)
NoOtherResult(t, id) == results[t] = {id}
NothingElseExpected(t, id) ==
    results[t] = {id} /\ jobs[t] = {} /\ from_worker[t] = <<>>

(* The call thread t is in returns.                                        *)
Return(t) ==
    /\ pc' = [pc EXCEPT ![t] = "idle"]
    /\ call_id' = [call_id EXCEPT ![t] = 0]
    /\ blocking' = blocking \ {t}

(* arg_destroy_func is called for the jobs of S whose arg is still set.    *)
ArgsDestroyed(S) ==
    [j \in Ids |-> destroyed[j] + (IF j \in S \cap args THEN 1 ELSE 0)]

job_free(S) ==
    /\ heap' = heap \ S
    /\ destroyed' = ArgsDestroyed(S)

(* What execute() and execute_void() fill in, but for job->processed.      *)
NewJob(t, void) ==
    /\ next_job_id' = next_job_id + 1
    /\ heap' = heap \cup {next_job_id}
    /\ owner' = [owner EXCEPT ![next_job_id] = t]
    /\ voids' = IF void THEN voids \cup {next_job_id} ELSE voids
    /\ args' = args \cup {next_job_id}
    /\ jobs' = [jobs EXCEPT ![t] = @ \cup {next_job_id}]

get_thread_data(t) == threads_hash' = threads_hash \cup {t}

(* execute() / execute_void() of a client up to the push: ThreadData, id,  *)
(* Job, td->jobs.                                                          *)
ExecuteBegin(t, void) ==
    /\ t \in Clients
    /\ CanCall(t)
    /\ next_job_id <= MaxJobs
    /\ get_thread_data(t)
    /\ NewJob(t, void)
    /\ pc' = [pc EXCEPT ![t] = "push"]
    /\ call_id' = [call_id EXCEPT ![t] = next_job_id]
    /\ UNCHANGED <<processed, cancelled, to_worker, results, from_worker, blocking,
                   workerVars, disposed, ran, destroyed>>

(* Another client may have pushed a later id in between.                   *)
ExecutePush(t) ==
    /\ pc[t] = "push"
    /\ to_worker' = Pushed(call_id[t])
    /\ Return(t)
    /\ UNCHANGED <<jobVars, tdVars, workerVars, disposed>>

(* execute() / execute_void() called by the function the worker runs: the  *)
(* job is executed immediately and put in the worker's own reply queue.    *)
ExecuteInWorker(void) ==
    /\ CanCall(Worker)
    /\ next_job_id <= MaxJobs
    /\ get_thread_data(Worker)
    /\ NewJob(Worker, void)
    /\ processed' = processed \cup {next_job_id}
    /\ ran' = [ran EXCEPT ![next_job_id] = @ + 1]
    /\ from_worker' = [from_worker EXCEPT ![Worker] = Append(@, next_job_id)]
    /\ UNCHANGED <<cancelled, to_worker, results, callVars, workerVars, disposed,
                   destroyed>>

(* gda_thread_wrapper_cancel(id) when it returns TRUE (it changes nothing  *)
(* when the caller has no such job or the worker took it already).         *)
Cancel(t, id) ==
    /\ CanCall(t)
    /\ t \in threads_hash
    /\ id \in NotTaken(jobs[t])
    /\ cancelled' = cancelled \cup {id}
    /\ args' = ClearedArgs({id})
    /\ destroyed' = ArgsDestroyed({id})
    /\ jobs' = [jobs EXCEPT ![t] = @ \ {id}]
    /\ UNCHANGED <<next_job_id, heap, owner, voids, processed, ran, to_worker,
                   threads_hash, results, from_worker, callVars, workerVars, disposed>>

-----------------------------------------------------------------------------
(* gda_thread_wrapper_iterate(may) called directly.  A caller that blocks  *)
(* expects a result: it has a job with a function still to come back.      *)
Iterate(t, may) ==
    /\ CanCall(t)
    /\ t \in threads_hash
    /\ may => jobs[t] \ voids # {}
    /\ pc' = [pc EXCEPT ![t] = "iterate"]
    /\ blocking' = IF may THEN blocking \cup {t} ELSE blocking
    /\ UNCHANGED <<jobVars, to_worker, tdVars, call_id, workerVars, disposed>>

(* gda_thread_wrapper_fetch_result(may, id).  A caller that blocks asks    *)
(* for a job of its own which has a result; one that does not may ask for  *)
(* any id.                                                                 *)
FetchResult(t, may, id) ==
    /\ CanCall(t)
    /\ t \in threads_hash
    /\ id < next_job_id
    /\ may => id \in (jobs[t] \cup results[t]) \ voids
    /\ pc' = [pc EXCEPT ![t] = "fetch"]
    /\ call_id' = [call_id EXCEPT ![t] = id]
    /\ blocking' = IF may THEN blocking \cup {t} ELSE blocking
    /\ UNCHANGED <<jobVars, to_worker, tdVars, workerVars, disposed>>

Iterating(t) == pc[t] \in {"iterate", "fetch_iterate"}

(* iterate() pops a job that has a result: it joins td->results and the    *)
(* call returns; fetch_result() then sees a longer list and loops.         *)
IterateResult(t) ==
    /\ Iterating(t)
    /\ from_worker[t] # <<>>
    /\ Head(from_worker[t]) \notin voids
    /\ from_worker' = [from_worker EXCEPT ![t] = Tail(@)]
    /\ jobs' = [jobs EXCEPT ![t] = @ \ {Head(from_worker[t])}]
    /\ results' = [results EXCEPT ![t] = @ \cup {Head(from_worker[t])}]
    /\ IF pc[t] = "iterate"
       THEN Return(t)
       ELSE pc' = [pc EXCEPT ![t] = "fetch"] /\ UNCHANGED <<call_id, blocking>>
    /\ UNCHANGED <<jobVars, to_worker, threads_hash, workerVars, disposed>>

(* iterate() pops a job without result: it is freed and the loop goes on.  *)
IterateVoid(t) ==
    /\ Iterating(t)
    /\ from_worker[t] # <<>>
    /\ Head(from_worker[t]) \in voids
    /\ from_worker' = [from_worker EXCEPT ![t] = Tail(@)]
    /\ jobs' = [jobs EXCEPT ![t] = @ \ {Head(from_worker[t])}]
    /\ job_free({Head(from_worker[t])})
    /\ UNCHANGED <<next_job_id, owner, flags, ran, to_worker, threads_hash, results,
                   callVars, workerVars, disposed>>

(* iterate(FALSE) finds the queue empty and returns; fetch_result(FALSE)   *)
(* sees an unchanged td->results and gives up.                             *)
IterateEmpty(t) ==
    /\ Iterating(t)
    /\ t \notin blocking
    /\ from_worker[t] = <<>>
    /\ Return(t)
    /\ UNCHANGED <<jobVars, to_worker, tdVars, workerVars, disposed>>

(* fetch_result() finds the job: it leaves td->results and is freed, and   *)
(* the ThreadData goes with it when nothing more is expected.              *)
FetchFound(t) ==
    /\ pc[t] = "fetch"
    /\ call_id[t] \in results[t]
    /\ results' = [results EXCEPT ![t] = @ \ {call_id[t]}]
    /\ threads_hash' = IF NothingElseExpected(t, call_id[t])
                       THEN threads_hash \ {t} ELSE threads_hash
    /\ job_free({call_id[t]})
    /\ Return(t)
    /\ UNCHANGED <<next_job_id, owner, flags, ran, to_worker, jobs, from_worker,
                   workerVars, disposed>>

FetchNotFound(t) ==
    /\ pc[t] = "fetch"
    /\ call_id[t] \notin results[t]
    /\ pc' = [pc EXCEPT ![t] = "fetch_iterate"]
    /\ UNCHANGED <<jobVars, to_worker, tdVars, call_id, blocking, workerVars, disposed>>

(* What gda_thread_wrapper_get_waiting_size() returns to thread t: its     *)
(* executed jobs count as long as they are in td->jobs.                    *)
UnprocessedOnly(t) == Cardinality(jobs[t] \ (cancelled \cup processed))
get_waiting_size(t) == Cardinality(jobs[t] \ cancelled)

-----------------------------------------------------------------------------
(* The worker pops a job and marks it, in one hold of the queue's lock.    *)
WorkerPop ==
    /\ wpc = "pop"
    /\ to_worker # <<>>
    /\ wjob' = Head(to_worker)
    /\ to_worker' = Tail(to_worker)
    /\ processed' = Processed(Head(to_worker))
    /\ wpc' = "popped"
    /\ UNCHANGED <<next_job_id, heap, owner, voids, cancelled, args, ran, destroyed,
                   tdVars, callVars, disposed>>

SkipWithoutFree ==
    /\ wpc = "popped"
    /\ wjob # DESTROY
    /\ wjob \in cancelled
    /\ wpc' = "pop"
    /\ wjob' = 0
    /\ UNCHANGED <<jobVars, to_worker, tdVars, callVars, disposed>>

WorkerSkipCancelled ==
    /\ wpc = "popped"
    /\ wjob # DESTROY
    /\ wjob \in cancelled
    /\ job_free({wjob})
    /\ wpc' = "pop"
    /\ wjob' = 0
    /\ UNCHANGED <<next_job_id, owner, flags, ran, to_worker, tdVars, callVars, disposed>>

WorkerCallFunc ==
    /\ wpc = "popped"
    /\ wjob # DESTROY
    /\ wjob \notin cancelled
    /\ ran' = [ran EXCEPT ![wjob] = @ + 1]
    /\ wpc' = "run"
    /\ UNCHANGED <<next_job_id, heap, owner, flags, destroyed, to_worker, tdVars,
                   callVars, wjob, disposed>>

(* The thread whose from_worker_thread queue is job->reply_queue: the job  *)
(* holds a reference on it, whether or not its ThreadData still exists.    *)
WorkersOwnQueue(j) == Worker
reply_queue(j) == owner[j]

(* The function returned.                                                  *)
WorkerReply ==
    /\ wpc = "run"
    /\ pc[Worker] = "idle"
    /\ from_worker' = [from_worker EXCEPT ![reply_queue(wjob)] = Append(@, wjob)]
    /\ wpc' = "pop"
    /\ wjob' = 0
    /\ UNCHANGED <<jobVars, to_worker, threads_hash, jobs, results, callVars,
                   disposed>>

WorkerExit ==
    /\ wpc = "popped"
    /\ wjob = DESTROY
    /\ wpc' = "exit"
    /\ UNCHANGED <<jobVars, to_worker, tdVars, callVars, wjob, disposed>>

-----------------------------------------------------------------------------
(* dispose() runs when the last reference is dropped, so no thread is in a *)
(* call.  First the DESTROY job is pushed, then, in a second hold of the   *)
(* queue's lock, the ThreadData are removed.                               *)

DisposePush ==
    /\ disposed = "no"
    /\ \A t \in Threads : pc[t] = "idle"
    /\ to_worker' = Pushed(DESTROY)
    /\ disposed' = "pushed"
    /\ UNCHANGED <<jobVars, tdVars, callVars, workerVars>>

(* Seeded fault: the results not fetched are not freed.                    *)
(* thread_data_remove_jobs_func() cancels what the worker did not take and *)
(* leaves the rest to it; thread_data_free() frees the unfetched results.  *)
DisposeThreads ==
    LET pending == NotTaken(UNION {jobs[t] : t \in threads_hash})
        popped == UNION {results[t] : t \in threads_hash}
    IN  /\ disposed = "pushed"
        /\ cancelled' = cancelled \cup pending
        /\ args' = ClearedArgs(pending)
        /\ heap' = heap \ popped
        /\ destroyed' = ArgsDestroyed(pending \cup popped)
        /\ jobs' = [t \in Threads |-> {}]
        /\ results' = [t \in Threads |-> {}]
        /\ threads_hash' = {}
        /\ disposed' = "yes"
        /\ UNCHANGED <<next_job_id, owner, voids, processed, ran, to_worker,
                       from_worker, callVars, workerVars>>

(* The wrapper is gone and its worker thread has exited.                   *)
Terminated ==
    /\ disposed = "yes"
    /\ wpc = "exit"
    /\ UNCHANGED vars

-----------------------------------------------------------------------------
Call(t) ==
    \/ \E void \in BOOLEAN : ExecuteBegin(t, void)
    \/ \E id \in Ids : Cancel(t, id)
    \/ \E may \in BOOLEAN : Iterate(t, may)
    \/ \E may \in BOOLEAN, id \in Ids : FetchResult(t, may, id)

(* A thread goes on with the call it is in.                                *)
Continue(t) ==
    \/ ExecutePush(t)
    \/ IterateResult(t)
    \/ IterateVoid(t)
    \/ IterateEmpty(t)
    \/ FetchFound(t)
    \/ FetchNotFound(t)

WorkerLoop ==
    \/ WorkerPop
    \/ WorkerSkipCancelled
    \/ WorkerCallFunc
    \/ WorkerReply
    \/ WorkerExit

Next ==
    \/ \E t \in Threads : Call(t) \/ Continue(t)
    \/ \E void \in BOOLEAN : ExecuteInWorker(void)
    \/ WorkerLoop
    \/ DisposePush
    \/ DisposeThreads
    \/ Terminated

(* Every thread the scheduler runs goes on, and the functions the worker   *)
(* is given return, after finitely many calls of the wrapper (hence the    *)
(* strong fairness of WorkerReply, disabled during such a call).  Nobody   *)
(* has to call anything, but dispose(), once begun, goes to its end.       *)
Fairness ==
    /\ \A t \in Threads : WF_vars(Continue(t))
    /\ WF_vars(WorkerLoop)
    /\ SF_vars(WorkerReply)
    /\ WF_vars(DisposeThreads)

Spec == Init /\ [][Next]_vars
FairSpec == Spec /\ Fairness
-----------------------------------------------------------------------------
(* A job the submitting thread took an id for and has not pushed yet.      *)
InSubmission(t) == IF pc[t] = "push" THEN {call_id[t]} ELSE {}

(* The job the worker took and has neither freed nor handed back.          *)
InHand == IF wpc \in {"popped", "run"} THEN {wjob} \ {DESTROY} ELSE {}

(* Where job j is held, each position of a queue being a place.            *)
Places(j) ==
    {<<"submission", t>> : t \in {u \in Threads : j \in InSubmission(u)}} \cup
    {<<"to_worker", i>> : i \in {k \in DOMAIN to_worker : to_worker[k] = j}} \cup
    {<<"worker", w>> : w \in {k \in InHand : k = j}} \cup
    {<<"results", t>> : t \in {u \in Threads : j \in results[u]}} \cup
    (UNION {{<<"from_worker", t, i>> : i \in {k \in DOMAIN from_worker[t] :
                                                from_worker[t][k] = j}} : t \in Threads})

(* Every allocated job is held in exactly one place, so none is lost,      *)
(* executed or fetched twice, and no queue or list holds a freed job.      *)
SingleCustody ==
    \A j \in Ids : Cardinality(Places(j)) = IF j \in heap THEN 1 ELSE 0

Accounted(t) ==
    /\ \A j \in Ids :
          j \in jobs[t] <=> j \in heap \ (results[t] \cup cancelled) /\ owner[j] = t
    /\ \A j \in results[t] : owner[j] = t /\ j \in heap
    /\ jobs[t] \cup results[t] # {} => t \in threads_hash

(* Between submission and fetch a ThreadData accounts for every job of its *)
(* thread that was not cancelled: td->jobs until the reply is popped, then *)
(* td->results.  In particular fetch_result() and cancel() never remove    *)
(* the ThreadData of a thread that still expects something.                *)
JobsAccounted == disposed # "yes" => \A t \in Threads : Accounted(t)

(* Whoever frees a job, and whether cancel(), dispose() or the worker gets *)
(* to it first, its argument is destroyed once, not before the function    *)
(* used it, and not later than the job.                                    *)
ArgDestroyedOnce ==
    \A j \in Ids :
        /\ destroyed[j] <= 1
        /\ j \in heap => destroyed[j] = IF j \in cancelled THEN 1 ELSE 0
        /\ j < next_job_id /\ j \notin heap => destroyed[j] = 1

(* A job that cancel() or dispose() cancelled is never executed and one    *)
(* that was not is executed at most once.                                  *)
CancelledNeverRuns ==
    \A j \in Ids : ran[j] <= IF j \in cancelled THEN 0 ELSE 1

(* Once dispose() has removed the ThreadData, nothing the worker can still *)
(* pop will be executed.                                                   *)
DisposedQueueCancelled ==
    disposed = "yes" => Range(to_worker) \subseteq cancelled \cup {DESTROY}

(* When the wrapper is gone and its worker has exited, the only jobs left  *)
(* allocated are the executed ones nobody popped (dispose() leaves them to *)
(* the sub thread (688), which is gone): cancelled jobs still queued, void *)
(* jobs and results not fetched were freed by someone.                     *)
OnlyRepliesLeak ==
    disposed = "yes" /\ wpc = "exit" =>
        heap = UNION {Range(from_worker[t]) : t \in Threads}

(* What dispose() leaves to the worker is neither executed nor leaked, but *)
(* for the replies nobody popped.                                          *)
DisposedInOrder == DisposedQueueCancelled /\ OnlyRepliesLeak

(* A thread that gda_thread_wrapper_get_waiting_size() tells 0 has nothing *)
(* left to be executed: no job of it is queued or in the worker's hands.   *)
ZeroMeansNothingWaits ==
    \A t \in Threads : disposed # "yes" /\ get_waiting_size(t) = 0 =>
        \A j \in (Range(to_worker) \cup InHand) \ {DESTROY} :
            owner[j] = t => j \in cancelled

(* The jobs of one thread are started in the order of their ids: by the    *)
(* time one is started every earlier one was started or cancelled.         *)
StartedInOrder ==
    [][\A j, k \in Ids :
         j < k /\ owner[j] = owner[k] /\ ran[k] = 0 /\ ran'[k] = 1
           => ran[j] = 1 \/ j \in cancelled]_vars

(* A thread in fetch_result() or iterate() gets out of it: a blocking call *)
(* by the reply it waits for, any other in any case.                       *)
CallReturns ==
    \A t \in Threads :
        pc[t] \in {"iterate", "fetch", "fetch_iterate"} ~> pc[t] = "idle"

(* After dispose() the worker thread, which nobody joins, exits.           *)
WorkerExits == disposed = "pushed" ~> wpc = "exit"

(* So neither an owner nor the worker thread waits forever in the wrapper. *)
EverythingReturns == CallReturns /\ WorkerExits

-----------------------------------------------------------------------------
(* How the state above implements the abstract service.                    *)
ServiceStatus ==
    [j \in Ids |->
        CASE j \in cancelled -> "cancelled"
          [] j \notin cancelled \cup heap ->
               IF ran[j] = 0 THEN "new" ELSE "collected"
          [] j \in heap \ cancelled ->
               IF \E t \in Threads : j \in InSubmission(t) THEN "new"
               ELSE IF j \notin processed THEN "queued"
               ELSE IF j \in InHand THEN "running" ELSE "done"]

ServiceQueue == Without(to_worker, cancelled \cup {DESTROY})

Service == INSTANCE JobService WITH status <- ServiceStatus, queue <- ServiceQueue

(* The wrapper implements the job service: order, one job at a time,       *)
(* cancellation only before the start, and progress of what is submitted.  *)
ImplementsService == Service!Spec
=============================================================================
