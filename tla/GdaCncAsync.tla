------------------------------- MODULE GdaCncAsync -------------------------------
(***************************************************************************)
(* Asynchronous statements of a libgda connection opened in a thread of    *)
(* its own: the task arrays of gda-connection-vs10.c, over the             *)
(* asynchronous part of gda-thread-provider-vs10.c, over the job service   *)
(* that GdaThreadWrapper implements (JobService).                          *)
(*                                                                         *)
(* The connection starts one task at a time; the provider makes it a job   *)
(* of the wrapper.  Nothing comes back by itself: async_fetch_result()     *)
(* asks the provider, which asks the wrapper for the result of its oldest  *)
(* job, and calls the connection back, which starts the next task.  Calls  *)
(* hold the connection's lock, but the worker, and who modifies a          *)
(* statement, do not.  The sub connection may close on its own: the        *)
(* provider finds out in the next call and closes the connection.          *)
(*                                                                         *)
(* A task and its job have the same number.  The wrapper gives a job's     *)
(* result to the thread that submitted the job only.                       *)
(*                                                                         *)
(* A definition that no other uses and that stands just before another     *)
(* (StartAtOnce before AfterExecute) is a seeded fault: the mutation runs  *)
(* put it in the place of the one below to see the properties fail.        *)
(***************************************************************************)
EXTENDS Integers, Sequences, FiniteSets, SequencesExt

CONSTANTS
    Callers,    \* the threads that use the connection
    NOTHING,    \* NULL
    MaxTasks    \* bound: how many tasks are requested

Tasks == 1..MaxTasks

(* An async_fetch_result() under way.                                      *)
Calls == [thread : Callers, id : Tasks, at : {"callback", "lookup"}]

ASSUME NothingAssumption == NOTHING \notin Callers /\ NOTHING \notin Calls
ASSUME MaxTasksAssumption == MaxTasks \in Nat

VARIABLES
    next_task_id,
    waiting_tasks, completed_tasks,     \* cnc->priv's arrays
    being_processed,    \* the tasks with task->being_processed set
    stmt,           \* the tasks whose task->stmt is not NULL
    open,           \* whether the connection is, and cdata->sub_connection_has_closed
    async_tasks,    \* the provider's list of jobs it waits for
    status, queue,  \* the job service
    call,           \* the async_fetch_result() that holds the lock, and where
    submitter,      \* the thread each job was submitted by
    requester,      \* history: the thread each task was requested by
    fetched,        \* history: the tasks whose result was fetched
    cancelled,      \* history: the tasks cancel removed
    unmarked,       \* history: the tasks a cancel that failed unmarked
    modified        \* history: the tasks modified before they were executed

connection == <<next_task_id, waiting_tasks, completed_tasks, being_processed, stmt>>
provider == <<async_tasks, submitter, open>>
service == <<status, queue>>
taskHistory == <<requester, fetched, cancelled, unmarked, modified>>
asyncVars == <<connection, provider, service, call, taskHistory>>

Service == INSTANCE JobService WITH Ids <- Tasks

(* Type correctness.                                                       *)
AsyncTypeOK ==
    /\ next_task_id \in 1..(MaxTasks + 1)
    /\ waiting_tasks \in Seq(Tasks) /\ completed_tasks \in Seq(Tasks)
    /\ being_processed \subseteq Tasks /\ stmt \subseteq Tasks
    /\ async_tasks \in Seq(Tasks) /\ open \in {"open", "subclosed", "closed"}
    /\ call \in Calls \cup {NOTHING}
    /\ Service!TypeOK
    /\ submitter \in [Tasks -> Callers \cup {NOTHING}]
    /\ requester \in [Tasks -> Callers \cup {NOTHING}]
    /\ fetched \subseteq Tasks /\ cancelled \subseteq Tasks
    /\ unmarked \subseteq Tasks /\ modified \subseteq Tasks

AsyncInit ==
    /\ next_task_id = 1 /\ waiting_tasks = <<>> /\ completed_tasks = <<>>
    /\ being_processed = {} /\ stmt = {}
    /\ open = "open" /\ async_tasks = <<>> /\ submitter = [j \in Tasks |-> NOTHING]
    /\ Service!Init /\ call = NOTHING
    /\ requester = [j \in Tasks |-> NOTHING]
    /\ fetched = {} /\ cancelled = {} /\ unmarked = {} /\ modified = {}

Prefix(s, n) == SubSeq(s, 1, n)
Rest(s, n) == SubSeq(s, n + 1, Len(s))

(* The array without task id, which it may not hold.                       *)
get_task_index(tasks, id) == CHOOSE i \in DOMAIN tasks : tasks[i] = id
TaskRemoved(tasks, id) ==
    IF Contains(tasks, id) THEN RemoveAt(tasks, get_task_index(tasks, id)) ELSE tasks

-----------------------------------------------------------------------------
(* Closing runs a job too, and waits for it: the jobs before it are done.  *)
Drained == \A j \in Tasks : status[j] \notin {"queued", "running"}

SubCloses ==
    /\ open = "open"
    /\ open' = "subclosed"
    /\ UNCHANGED <<connection, async_tasks, submitter, service, call, taskHistory>>

(* gda_connection_close_no_warning().                                      *)
Close ==
    /\ call = NOTHING /\ open # "closed" /\ Drained
    /\ open' = "closed"
    /\ UNCHANGED <<connection, async_tasks, submitter, service, call, taskHistory>>

(* statement_execute() of the provider for task j: a job of the wrapper.   *)
(* Of a task whose statement is NULL it makes nothing, and no error.       *)
Submitted(t, j, pending) ==
    IF j \in stmt'
    THEN /\ Service!Submit(j)
         /\ submitter' = [submitter EXCEPT ![j] = t]
         /\ async_tasks' = Append(pending, j)
    ELSE UNCHANGED <<service, submitter>> /\ async_tasks' = pending

(* How many of the waiting tasks it refuses: none, or, if the sub          *)
(* connection has closed, those before the first with no statement.        *)
Refused(waiting) ==
    IF open = "open" THEN 0
    ELSE Cardinality({i \in DOMAIN waiting : ToSet(Prefix(waiting, i)) \subseteq stmt'})

(* Thread t starts the first of the waiting tasks.  Those refused are      *)
(* completed with the error, the connection being closed.                  *)
StartFirst(t, waiting, completed, processed, pending) ==
    LET n == Refused(waiting) IN
    /\ completed_tasks' = completed \o Prefix(waiting, n)
    /\ waiting_tasks' = Rest(waiting, n)
    /\ n > 0 => Drained
    /\ open' = IF n > 0 THEN "closed" ELSE open
    /\ IF n < Len(waiting)
       THEN /\ being_processed' = processed \cup {waiting[n + 1]}
            /\ Submitted(t, waiting[n + 1], pending)
       ELSE /\ being_processed' = processed /\ async_tasks' = pending
            /\ UNCHANGED <<service, submitter>>

(* gda_connection_async_statement_execute(): the task waits, unless it is  *)
(* alone.                                                                  *)
StartAtOnce(t, waiting) ==
    /\ completed_tasks' = completed_tasks
    /\ waiting_tasks' = waiting
    /\ being_processed' = being_processed \cup {Last(waiting)}
    /\ Submitted(t, Last(waiting), async_tasks) /\ UNCHANGED open
AfterExecute(t, waiting) ==
    IF Len(waiting) = 1
    THEN StartFirst(t, waiting, completed_tasks, being_processed, async_tasks)
    ELSE /\ waiting_tasks' = waiting
         /\ UNCHANGED <<completed_tasks, being_processed, provider, service>>

Execute(t) ==
    /\ call = NOTHING /\ open # "closed" /\ next_task_id <= MaxTasks
    /\ next_task_id' = next_task_id + 1
    /\ stmt' = stmt \cup {next_task_id}
    /\ requester' = [requester EXCEPT ![next_task_id] = t]
    /\ AfterExecute(t, Append(waiting_tasks, next_task_id))
    /\ UNCHANGED <<call, fetched, cancelled, unmarked, modified>>

(* The statement of a task is modified: task_stmt_reset_cb() forgets it.   *)
Modify(j) ==
    /\ j \in stmt
    /\ stmt' = stmt \ {j}
    /\ modified' = IF status[j] \in {"new", "queued"} THEN modified \cup {j} ELSE modified
    /\ UNCHANGED <<next_task_id, waiting_tasks, completed_tasks, being_processed,
                   provider, service, call, requester, fetched, cancelled,
                   unmarked>>

-----------------------------------------------------------------------------
(* async_fetch_result(id) in thread t first lets the provider get the      *)
(* result of its oldest job, if it is there and was submitted by t.  On a  *)
(* closed connection it fails.                                             *)
Ready(t) ==
    /\ async_tasks # <<>>
    /\ status[Head(async_tasks)] = "done"
    /\ submitter[Head(async_tasks)] = t

HandleAsync(t) ==
    CASE open = "subclosed" -> /\ Drained /\ open' = "closed"
                               /\ UNCHANGED <<service, async_tasks, submitter>>
      [] open = "open" /\ Ready(t) -> Service!Collect(Head(async_tasks)) /\ UNCHANGED provider
      [] OTHER -> UNCHANGED <<service, provider>>

FetchResult(t, id) ==
    /\ call = NOTHING /\ open # "closed" /\ id < next_task_id
    /\ HandleAsync(t)
    /\ call' = [thread |-> t, id |-> id,
                at |-> IF open = "open" /\ Ready(t) THEN "callback" ELSE "lookup"]
    /\ UNCHANGED <<connection, taskHistory>>

(* async_stmt_exec_cb() completes the task and starts the next one; a task *)
(* that was cancelled is in no array any more, and nothing else happens.   *)
StartsNothing(t, waiting, completed, processed, pending) ==
    /\ completed_tasks' = completed /\ waiting_tasks' = waiting
    /\ being_processed' = processed /\ async_tasks' = pending
    /\ UNCHANGED <<service, submitter, open>>
StartsNext(t, waiting, completed, processed, pending) ==
    StartFirst(t, waiting, completed, processed, pending)

Callback ==
    /\ call # NOTHING /\ call.at = "callback"
    /\ call' = [call EXCEPT !.at = "lookup"]
    /\ LET j == Head(async_tasks) IN
       IF Contains(waiting_tasks, j)
       THEN /\ stmt' = stmt \ {j}
            /\ StartsNext(call.thread, TaskRemoved(waiting_tasks, j),
                          Append(completed_tasks, j), being_processed \ {j},
                          Tail(async_tasks))
       ELSE /\ async_tasks' = Tail(async_tasks)
            /\ UNCHANGED <<waiting_tasks, completed_tasks, being_processed, stmt,
                           submitter, open, service>>
    /\ UNCHANGED <<next_task_id, taskHistory>>

(* Then it gives the task back, if it is completed.                        *)
Kept(id) == completed_tasks
Without(id) == TaskRemoved(completed_tasks, id)

Lookup ==
    /\ call # NOTHING /\ call.at = "lookup"
    /\ call' = NOTHING
    /\ completed_tasks' = Without(call.id)
    /\ fetched' = fetched \cup ({call.id} \cap ToSet(completed_tasks))
    /\ UNCHANGED <<next_task_id, waiting_tasks, being_processed, stmt, provider,
                   service, requester, cancelled, unmarked, modified>>

(* gda_connection_async_cancel(id) of a waiting task.  The provider has no *)
(* cancel function: of the task being processed only the mark is removed.  *)
AsyncCancel(id) ==
    /\ call = NOTHING /\ Contains(waiting_tasks, id)
    /\ IF id \in being_processed
       THEN /\ being_processed' = being_processed \ {id}
            /\ unmarked' = unmarked \cup {id}
            /\ UNCHANGED <<waiting_tasks, stmt, cancelled>>
       ELSE /\ waiting_tasks' = TaskRemoved(waiting_tasks, id)
            /\ stmt' = stmt \ {id}
            /\ cancelled' = cancelled \cup {id}
            /\ UNCHANGED <<being_processed, unmarked>>
    /\ UNCHANGED <<next_task_id, completed_tasks, provider, service, call, requester,
                   fetched, modified>>

(* The worker executes the jobs.                                           *)
WorkerStart == Service!Start /\ UNCHANGED <<connection, provider, call, taskHistory>>
WorkerFinish(j) == Service!Finish(j) /\ UNCHANGED <<connection, provider, call, taskHistory>>

-----------------------------------------------------------------------------
AsyncNext ==
    \/ \E t \in Callers : Execute(t) \/ \E id \in Tasks : FetchResult(t, id)
    \/ Callback \/ Lookup
    \/ \E j \in Tasks : AsyncCancel(j) \/ Modify(j) \/ WorkerFinish(j)
    \/ WorkerStart \/ SubCloses \/ Close

(* The worker goes on, a call that has begun ends, and every thread keeps  *)
(* asking for the results of the tasks it requested, as the documentation  *)
(* wants it to.                                                            *)
Fairness ==
    /\ WF_asyncVars(WorkerStart) /\ \A j \in Tasks : WF_asyncVars(WorkerFinish(j))
    /\ WF_asyncVars(Callback) /\ WF_asyncVars(Lookup)
    /\ \A t \in Callers, id \in Tasks :
          SF_asyncVars(requester[id] = t /\ id \notin fetched /\ FetchResult(t, id))

AsyncSpec == AsyncInit /\ [][AsyncNext]_asyncVars
FairSpec == AsyncSpec /\ Fairness

-----------------------------------------------------------------------------
(* A task is in one place only: waiting, completed, fetched or cancelled.  *)
(* None is lost, and no result is given twice.                             *)
TaskInOnePlace ==
    \A j \in Tasks :
        LET places == <<Cardinality({i \in DOMAIN waiting_tasks : waiting_tasks[i] = j}),
                        Cardinality({i \in DOMAIN completed_tasks : completed_tasks[i] = j}),
                        IF j \in fetched THEN 1 ELSE 0,
                        IF j \in cancelled THEN 1 ELSE 0>>
        IN  places[1] + places[2] + places[3] + places[4]
              = IF j < next_task_id THEN 1 ELSE 0

(* The first of the waiting tasks is being executed, whatever happened to  *)
(* those before it: nothing else would ever start it, or those behind it.  *)
(* (Two things do break this: the cancel of a running task, and a modified *)
(* statement.)                                                             *)
FirstIsInProgress ==
    waiting_tasks # <<>> /\ call = NOTHING /\ unmarked = {} /\ modified = {} =>
        /\ being_processed = {Head(waiting_tasks)}
        /\ status[Head(waiting_tasks)] \in {"queued", "running", "done"}

(* The bookkeeping of the tasks: each is where its state says, and no      *)
(* other than the first of waiting_tasks is at work.                       *)
TasksSound == AsyncTypeOK /\ TaskInOnePlace /\ FirstIsInProgress

(* Statements are executed in the order in which they were requested: when *)
(* one is handed to the worker, those before it are through, or cancelled. *)
ExecutedInOrder ==
    [][\A j, k \in Tasks :
         j < k /\ status[k] = "new" /\ status'[k] = "queued"
           => status[j] = "collected" \/ j \notin ToSet(waiting_tasks')]_asyncVars

-----------------------------------------------------------------------------
(* What the documentation promises of every task that is not cancelled: it *)
(* is executed, in its turn, and its result can be fetched.                *)
Requested(j) == j < next_task_id
Done(j) == j \in fetched \cup cancelled
EveryTaskIsFetched ==
    \A j \in Tasks : Requested(j) ~> Done(j) \/ open # "open" \/ unmarked # {} \/ modified # {}
=============================================================================
