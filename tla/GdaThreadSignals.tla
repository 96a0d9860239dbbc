---------------------------- MODULE GdaThreadSignals ----------------------------
(***************************************************************************)
(* The signals of libgda's GdaThreadWrapper (gda-thread-wrapper-vs10.c):   *)
(* a thread connects a callback to a signal of an object; when the signal  *)
(* is emitted, by the worker executing a job or by any other thread, a job *)
(* that stands for it is pushed into the reply queue of the thread that    *)
(* connected it, and iterate() in that thread pops it and calls back.      *)
(*                                                                         *)
(* GdaThreadWrapper models the jobs; here a job is only the thread that    *)
(* submitted it.  connect_raw, disconnect, steal_signal and execute hold   *)
(* rmutex, and are one step each.  The marshaller, called by the emitting  *)
(* thread, and iterate() take other steps in between wherever they read    *)
(* the SignalSpec without its lock.                                        *)
(*                                                                         *)
(* The use of a freed SignalSpec or ThreadData, and the call of a NULL     *)
(* callback, have no defined outcome: broken then says which it was, and   *)
(* the behaviour stops.                                                    *)
(*                                                                         *)
(* A definition that no other uses and that stands just before another     *)
(* (TestNothing before TestCallback) is a seeded fault: the mutation runs  *)
(* put it in the place of the one below to see the properties fail.        *)
(***************************************************************************)
EXTENDS Integers, Sequences, FiniteSets

CONSTANTS
    Clients,    \* the threads that use the wrapper
    Worker,     \* wrapper->priv->worker_thread
    Specs,      \* the SignalSpecs, each of them connected once
    NULL,
    MaxJobs,    \* bound: how many jobs are submitted
    MaxEmits    \* bound: how many signals are emitted

Threads == Clients \cup {Worker}

VARIABLES
    foreign,        \* whether threads steal and disconnect each other's signals
    threads_hash,   \* the threads that have a ThreadData
    jobs,           \* how many jobs are in td->jobs
    results,        \* how many results are in td->results
    signals_list,   \* td->signals_list
    from_worker,    \* td->from_worker_thread
    to_worker,      \* wrapper->priv->to_worker_thread
    current,        \* whose job the worker executes: worker_thread_current_queue
    kind,           \* private_thread and private_job, as given to connect_raw
    ref_count, callback, reply_queue, connected,    \* of a SignalSpec
    pc, hand,       \* where a client is in iterate(), and the job it popped
    emission,       \* the spec each thread invokes the marshaller of, and where
    rmutex,         \* the thread that never released wrapper->priv->rmutex
    submitted, emits,   \* history: what the bounds bound
    disconnected,   \* history: the specs disconnect() returned for
    late,           \* history: those called back after that
    disposed,
    broken

tdVars == <<threads_hash, jobs, results, signals_list, from_worker>>
specVars == <<kind, ref_count, callback, reply_queue, connected>>
workerVars == <<to_worker, current, submitted>>
iterateVars == <<pc, hand, late>>
emitVars == <<emission, emits>>
status == <<foreign, disposed, broken>>
vars == <<tdVars, specVars, workerVars, iterateVars, emitVars, rmutex, disconnected,
          status>>

Kinds == {"job", "thread", "any"}   \* private_job, private_thread, neither
Result == [type |-> "result"]
Signal(s, job) == [type |-> "signal", spec |-> s, during |-> job]
Items == {Result} \cup
         [type : {"signal"}, spec : Specs, during : Clients \cup {NULL}]
NoEmission == [spec |-> NULL, at |-> "none"]

ASSUME WorkerAssumption == Worker \notin Clients
ASSUME NullAssumption == NULL \notin Threads \cup Specs \cup Kinds \cup Items
ASSUME BoundsAssumption == MaxJobs \in Nat /\ MaxEmits \in Nat

(* Type correctness.                                                       *)
TypeOK ==
    /\ threads_hash \subseteq Clients
    /\ jobs \in [Clients -> 0..MaxJobs] /\ results \in [Clients -> 0..MaxJobs]
    /\ signals_list \in [Clients -> SUBSET Specs]
    /\ from_worker \in [Clients -> Seq(Items)]
    /\ to_worker \in Seq(Clients) /\ current \in Clients \cup {NULL}
    /\ kind \in [Specs -> Kinds \cup {NULL}]
    /\ ref_count \in [Specs -> 0..(MaxEmits + 1)]
    /\ callback \subseteq Specs /\ connected \subseteq Specs
    /\ reply_queue \in [Specs -> Clients \cup {NULL}]
    /\ pc \in [Clients -> {"idle", "popped", "calling", "callback", "handled", "again"}]
    /\ hand \in [Clients -> Items \cup {NULL}]
    /\ emission \in [Threads -> [spec : Specs \cup {NULL},
                                 at : {"none", "invoked", "passed"}]]
    /\ rmutex \in Clients \cup {NULL}
    /\ submitted \in 0..MaxJobs /\ emits \in 0..MaxEmits
    /\ disconnected \subseteq Specs /\ late \subseteq Specs
    /\ foreign \in BOOLEAN /\ disposed \in BOOLEAN
    /\ broken \in {"no", "spec", "thread_data", "null_callback"}

Init ==
    /\ threads_hash = {}
    /\ jobs = [t \in Clients |-> 0] /\ results = [t \in Clients |-> 0]
    /\ signals_list = [t \in Clients |-> {}]
    /\ from_worker = [t \in Clients |-> <<>>]
    /\ to_worker = <<>> /\ current = NULL
    /\ kind = [s \in Specs |-> NULL] /\ ref_count = [s \in Specs |-> 0]
    /\ callback = {} /\ connected = {} /\ reply_queue = [s \in Specs |-> NULL]
    /\ pc = [t \in Clients |-> "idle"] /\ hand = [t \in Clients |-> NULL]
    /\ emission = [t \in Threads |-> NoEmission]
    /\ rmutex = NULL /\ submitted = 0 /\ emits = 0
    /\ disconnected = {} /\ late = {} /\ disposed = FALSE /\ broken = "no"
    /\ foreign \in BOOLEAN

Created(s) == kind[s] # NULL
Freed(s) == Created(s) /\ ref_count[s] = 0

(* A thread calls the wrapper from its own code or from a callback, when   *)
(* nobody else keeps rmutex.                                               *)
CanCall(t) ==
    /\ broken = "no" /\ ~disposed
    /\ pc[t] \in {"idle", "callback"}
    /\ emission[t] = NoEmission
    /\ rmutex \in {NULL, t}

-----------------------------------------------------------------------------
connect_raw(t, s, k) ==
    /\ CanCall(t) /\ ~Created(s)
    /\ threads_hash' = threads_hash \cup {t}
    /\ signals_list' = [signals_list EXCEPT ![t] = @ \cup {s}]
    /\ kind' = [kind EXCEPT ![s] = k]
    /\ ref_count' = [ref_count EXCEPT ![s] = 1]
    /\ callback' = callback \cup {s}
    /\ connected' = connected \cup {s}
    /\ reply_queue' = [reply_queue EXCEPT ![s] = t]
    /\ UNCHANGED <<jobs, results, from_worker, workerVars, iterateVars, emitVars,
                   rmutex, disconnected, status>>

(* connect_raw() for a signal that does not exist or returns a value: the  *)
(* mutex is not released.                                                  *)
ConnectRefused(t) ==
    /\ CanCall(t)
    /\ threads_hash' = threads_hash \cup {t}
    /\ rmutex' = t
    /\ UNCHANGED <<jobs, results, signals_list, from_worker, specVars, workerVars,
                   iterateVars, emitVars, disconnected, status>>

Lists(u, s) == u \in threads_hash /\ s \in signals_list[u]

(* The thread whose ThreadData disconnect() looks into: the caller's if it *)
(* has one, whether or not the signal is there.                            *)
DisconnectFrom(t, s) == IF t \in threads_hash THEN {t} ELSE {u \in Clients : Lists(u, s)}

(* Whether the ThreadData of u is removed: with the signals it keeps.      *)
UselessButForSignals(u, signals) ==
    results[u] = 0 /\ jobs[u] = 0 /\ from_worker[u] = <<>>
Useless(u, signals) ==
    results[u] = 0 /\ jobs[u] = 0 /\ from_worker[u] = <<>> /\ signals = {}

disconnect(t, s) ==
    /\ CanCall(t)
    /\ \E u \in DisconnectFrom(t, s) :
         /\ Lists(u, s)
         /\ u # t => foreign
         /\ signals_list' = [signals_list EXCEPT ![u] = @ \ {s}]
         /\ threads_hash' = IF Useless(u, signals_list[u] \ {s})
                            THEN threads_hash \ {t} ELSE threads_hash
    /\ ref_count' = [ref_count EXCEPT ![s] = @ - 1]
    /\ callback' = callback \ {s}
    /\ connected' = connected \ {s}
    /\ reply_queue' = [reply_queue EXCEPT ![s] = NULL]
    /\ disconnected' = disconnected \cup {s}
    /\ UNCHANGED <<jobs, results, from_worker, kind, workerVars, iterateVars,
                   emitVars, rmutex, status>>

steal_signal(t, s) ==
    /\ foreign /\ CanCall(t)
    /\ \E u \in Clients \ {t} :
         /\ Lists(u, s)
         /\ threads_hash' = threads_hash \cup {t}
         /\ signals_list' = [signals_list EXCEPT ![u] = @ \ {s}, ![t] = @ \cup {s}]
    /\ reply_queue' = [reply_queue EXCEPT ![s] = t]
    /\ UNCHANGED <<jobs, results, from_worker, kind, ref_count, callback, connected,
                   workerVars, iterateVars, emitVars, rmutex, disconnected, status>>

(* gda_thread_wrapper_execute() ...                                        *)
Execute(t) ==
    /\ CanCall(t) /\ submitted < MaxJobs
    /\ threads_hash' = threads_hash \cup {t}
    /\ jobs' = [jobs EXCEPT ![t] = @ + 1]
    /\ to_worker' = Append(to_worker, t)
    /\ submitted' = submitted + 1
    /\ UNCHANGED <<results, signals_list, from_worker, specVars, current,
                   iterateVars, emitVars, rmutex, disconnected, status>>

(* ... and gda_thread_wrapper_fetch_result() of a result that was popped.  *)
FetchResult(t) ==
    /\ CanCall(t) /\ results[t] > 0
    /\ results' = [results EXCEPT ![t] = @ - 1]
    /\ threads_hash' = IF /\ results[t] = 1 /\ jobs[t] = 0
                          /\ from_worker[t] = <<>> /\ signals_list[t] = {}
                       THEN threads_hash \ {t} ELSE threads_hash
    /\ UNCHANGED <<jobs, signals_list, from_worker, specVars, workerVars,
                   iterateVars, emitVars, rmutex, disconnected, status>>

(* dispose(): no thread is in a call; the jobs the worker did not take are *)
(* cancelled and every ThreadData goes with the specs it lists, but not    *)
(* with the signal jobs left in its queue.                                 *)
Dispose ==
    /\ broken = "no" /\ ~disposed /\ \A t \in Clients : pc[t] = "idle"
    /\ disposed' = TRUE
    /\ to_worker' = <<>>
    /\ threads_hash' = {}
    /\ jobs' = [t \in Clients |-> 0] /\ results' = [t \in Clients |-> 0]
    /\ signals_list' = [t \in Clients |-> {}]
    /\ ref_count' = [s \in Specs |-> ref_count[s] - (IF s \in connected THEN 1 ELSE 0)]
    /\ callback' = {} /\ connected' = {}
    /\ reply_queue' = [s \in Specs |-> NULL]
    /\ UNCHANGED <<from_worker, kind, current, submitted, iterateVars, emitVars,
                   rmutex, disconnected, foreign, broken>>

-----------------------------------------------------------------------------
(* The worker takes a job, and hands it back when its function returned.   *)
WorkerStart ==
    /\ broken = "no" /\ current = NULL /\ to_worker # <<>>
    /\ current' = Head(to_worker) /\ to_worker' = Tail(to_worker)
    /\ UNCHANGED <<tdVars, specVars, submitted, iterateVars, emitVars, rmutex,
                   disconnected, status>>
WorkerReply ==
    /\ broken = "no" /\ current # NULL /\ emission[Worker] = NoEmission
    /\ from_worker' = [from_worker EXCEPT ![current] = Append(@, Result)]
    /\ current' = NULL
    /\ UNCHANGED <<threads_hash, jobs, results, signals_list, specVars, to_worker,
                   submitted, iterateVars, emitVars, rmutex, disconnected, status>>

(* GObject: a thread emits the signal, takes a connected handler and calls *)
(* its marshaller.  Those of private_thread signals return at once when    *)
(* the thread is not the worker.                                           *)
Emit(t, s) ==
    /\ broken = "no" /\ emission[t] = NoEmission /\ emits < MaxEmits
    /\ s \in connected
    /\ IF t = Worker THEN current # NULL ELSE pc[t] = "idle" /\ kind[s] = "any"
    /\ emission' = [emission EXCEPT ![t] = [spec |-> s, at |-> "invoked"]]
    /\ emits' = emits + 1
    /\ UNCHANGED <<tdVars, specVars, workerVars, iterateVars, rmutex, disconnected,
                   status>>

(* The marshaller looks at sigspec->private and sigspec->reply_queue.      *)
WantedNow(s) == kind[s] = "job" => reply_queue[s] = current

MarshalCheck(t) ==
    /\ broken = "no" /\ emission[t].at = "invoked"
    /\ LET s == emission[t].spec IN
       IF Freed(s) THEN broken' = "spec" /\ UNCHANGED emission
       ELSE /\ emission' = [emission EXCEPT ![t] =
                  IF WantedNow(s) THEN [spec |-> s, at |-> "passed"] ELSE NoEmission]
            /\ UNCHANGED broken
    /\ UNCHANGED <<tdVars, specVars, workerVars, iterateVars, emits, rmutex,
                   disconnected, foreign, disposed>>

(* With the spec's lock held: signal_spec_ref(), and the push, which does  *)
(* nothing when disconnect() has just cleared reply_queue.                 *)
WithoutReference(s) == ref_count
WithReference(s) == [ref_count EXCEPT ![s] = @ + 1]

MarshalPush(t) ==
    /\ broken = "no" /\ emission[t].at = "passed"
    /\ LET s == emission[t].spec
           q == reply_queue[s]
           job == IF t = Worker THEN current ELSE NULL IN
       IF Freed(s)
       THEN broken' = "spec" /\ UNCHANGED <<emission, ref_count, from_worker>>
       ELSE /\ emission' = [emission EXCEPT ![t] = NoEmission]
            /\ ref_count' = WithReference(s)
            /\ from_worker' = [u \in Clients |->
                  from_worker[u] \o (IF u = q THEN <<Signal(s, job)>> ELSE <<>>)]
            /\ UNCHANGED broken
    /\ UNCHANGED <<threads_hash, jobs, results, signals_list, kind, callback,
                   reply_queue, connected, workerVars, iterateVars, emits, rmutex,
                   disconnected, foreign, disposed>>

-----------------------------------------------------------------------------
(* iterate() pops a result and returns ...                                 *)
Iterating(t) ==
    /\ broken = "no" /\ emission[t] = NoEmission
    /\ t \in threads_hash
    /\ pc[t] = "again" \/ (pc[t] = "idle" /\ rmutex \in {NULL, t})

IterateResult(t) ==
    /\ Iterating(t)
    /\ from_worker[t] # <<>> /\ Head(from_worker[t]) = Result
    /\ from_worker' = [from_worker EXCEPT ![t] = Tail(@)]
    /\ jobs' = [jobs EXCEPT ![t] = @ - 1]
    /\ results' = [results EXCEPT ![t] = @ + 1]
    /\ pc' = [pc EXCEPT ![t] = "idle"]
    /\ UNCHANGED <<threads_hash, signals_list, specVars, workerVars, hand, late,
                   emitVars, rmutex, disconnected, status>>

(* ... or a signal, which it handles, to go on with the queue ...          *)
IterateSignal(t) ==
    /\ Iterating(t)
    /\ from_worker[t] # <<>> /\ Head(from_worker[t]) # Result
    /\ hand' = [hand EXCEPT ![t] = Head(from_worker[t])]
    /\ from_worker' = [from_worker EXCEPT ![t] = Tail(@)]
    /\ pc' = [pc EXCEPT ![t] = "popped"]
    /\ UNCHANGED <<threads_hash, jobs, results, signals_list, specVars, workerVars,
                   late, emitVars, rmutex, disconnected, status>>

(* ... of a ThreadData which the callback may have removed ...             *)
IterateAgain(t) ==
    /\ broken = "no" /\ pc[t] = "again"
    /\ \/ t \notin threads_hash /\ broken' = "thread_data" /\ UNCHANGED pc
       \/ /\ t \in threads_hash /\ from_worker[t] = <<>>
          /\ pc' = [pc EXCEPT ![t] = "idle"] /\ UNCHANGED broken
    /\ UNCHANGED <<tdVars, specVars, workerVars, hand, late, emitVars, rmutex,
                   disconnected, foreign, disposed>>

(* ... and spec->callback, tested first, is read again for the call.       *)
TestNothing(t) ==
    /\ broken = "no" /\ pc[t] = "popped"
    /\ pc' = [pc EXCEPT ![t] = "callback"]
    /\ late' = late \cup ({hand[t].spec} \cap disconnected)
    /\ UNCHANGED <<tdVars, specVars, workerVars, hand, emitVars, rmutex,
                   disconnected, status>>
TestCallback(t) ==
    /\ broken = "no" /\ pc[t] = "popped"
    /\ pc' = [pc EXCEPT ![t] = IF hand[t].spec \in callback THEN "calling" ELSE "handled"]
    /\ UNCHANGED <<tdVars, specVars, workerVars, hand, late, emitVars, rmutex,
                   disconnected, status>>

CallBack(t) ==
    /\ broken = "no" /\ pc[t] = "calling"
    /\ IF hand[t].spec \in callback
       THEN pc' = [pc EXCEPT ![t] = "callback"] /\ UNCHANGED <<broken, late>>
       ELSE \/ broken' = "null_callback" /\ UNCHANGED <<pc, late>>
            \/ /\ pc' = [pc EXCEPT ![t] = "callback"]   \* it was read only once
               /\ late' = late \cup {hand[t].spec} /\ UNCHANGED broken
    /\ UNCHANGED <<tdVars, specVars, workerVars, hand, emitVars, rmutex, disconnected,
                   foreign, disposed>>
CallbackReturns(t) ==
    /\ broken = "no" /\ pc[t] = "callback" /\ emission[t] = NoEmission
    /\ pc' = [pc EXCEPT ![t] = "handled"]
    /\ UNCHANGED <<tdVars, specVars, workerVars, hand, late, emitVars, rmutex,
                   disconnected, status>>

Unref(t) ==
    /\ broken = "no" /\ pc[t] = "handled"
    /\ ref_count' = [ref_count EXCEPT ![hand[t].spec] = @ - 1]
    /\ hand' = [hand EXCEPT ![t] = NULL]
    /\ pc' = [pc EXCEPT ![t] = "again"]
    /\ UNCHANGED <<tdVars, kind, callback, reply_queue, connected, workerVars, late,
                   emitVars, rmutex, disconnected, status>>

-----------------------------------------------------------------------------
Client(t) ==
    \/ \E s \in Specs : disconnect(t, s) \/ steal_signal(t, s)
    \/ \E s \in Specs, k \in Kinds : connect_raw(t, s, k)
    \/ ConnectRefused(t) \/ Execute(t) \/ FetchResult(t)
    \/ IterateResult(t) \/ IterateSignal(t) \/ IterateAgain(t)
    \/ TestCallback(t) \/ CallBack(t) \/ CallbackReturns(t) \/ Unref(t)

Emitter(t) == MarshalCheck(t) \/ MarshalPush(t) \/ \E s \in Specs : Emit(t, s)

Next ==
    \/ \E t \in Clients : Client(t)
    \/ \E t \in Threads : Emitter(t)
    \/ WorkerStart \/ WorkerReply \/ Dispose

Spec == Init /\ [][Next]_vars

-----------------------------------------------------------------------------
(* The signal jobs of spec s that exist: queued ones, and one in a hand.   *)
Queued(s) == UNION {{<<t, i>> : i \in {k \in DOMAIN from_worker[t] :
                 from_worker[t][k].type = "signal" /\ from_worker[t][k].spec = s}} :
                 t \in Clients}
InHands(s) == {t \in Clients : hand[t] # NULL /\ hand[t].spec = s}
Listing(s) == {t \in Clients : s \in signals_list[t]}

(* A SignalSpec stays allocated as long as a ThreadData lists it or a      *)
(* signal job refers to it, whoever disconnects it in the meantime.        *)
SpecOutlivesItsJobs ==
    /\ TypeOK
    /\ \A s \in Specs : ref_count[s] >=
           Cardinality(Queued(s)) + Cardinality(InHands(s)) + Cardinality(Listing(s))

(* A connected signal is listed in the ThreadData of one thread, into      *)
(* whose queue it is delivered, and that ThreadData exists: removing it    *)
(* (fetch_result, disconnect) or moving the signal (steal_signal) never    *)
(* leaves a handler that pushes into a queue nobody reads.                 *)
DeliveredWhereListed ==
    \A s \in Specs :
        /\ s \in connected <=> Listing(s) # {}
        /\ \A t \in Listing(s) : t \in threads_hash /\ reply_queue[s] = t

(* After disconnect() returned, the callback is not called any more, even  *)
(* for signals which were emitted before.  (A thread that disconnects      *)
(* another's signal may do so between its test of the callback and call.)  *)
DisconnectedNeverCalled == ~foreign => late = {} /\ broken # "null_callback"

(* With private_job, a callback only ever hears of signals emitted while a *)
(* job of its own thread was executed.  (A thread that steals the signal   *)
(* may do so between the marshaller's test and its push.)                  *)
PrivateJobOnly ==
    ~foreign =>
    \A t \in Clients : \A i \in DOMAIN from_worker[t] :
        LET job == from_worker[t][i] IN
        job.type = "signal" /\ kind[job.spec] = "job" => job.during = t
(* So a thread's callbacks never hear of what it did not ask for.          *)
NothingUnasked == DisconnectedNeverCalled /\ PrivateJobOnly
=============================================================================
