------------------------ MODULE GdaThreadSignals_proofs ------------------------
(***************************************************************************)
(* Proofs about the signals of a GdaThreadWrapper, for any set of threads, *)
(* any number of signals, jobs and emissions.  IInv is the inductive       *)
(* invariant: it follows a signal from the emission to the callback        *)
(* (EmitInv, JobsInv, OwnInv), and counts the jobs of each thread and the  *)
(* references to each SignalSpec.                                          *)
(***************************************************************************)
EXTENDS GdaThreadSignals, FunctionTheorems, FiniteSetTheorems, TLAPS

One(b) == IF b THEN 1 ELSE 0

(* TypeOK, but for how high the counters get, which the counts below bound.*)
Shapes ==
    /\ threads_hash \subseteq Clients
    /\ jobs \in [Clients -> Int] /\ results \in [Clients -> Int]
    /\ signals_list \in [Clients -> SUBSET Specs]
    /\ from_worker \in [Clients -> Seq(Items)]
    /\ to_worker \in Seq(Clients) /\ current \in Clients \cup {NULL}
    /\ kind \in [Specs -> Kinds \cup {NULL}]
    /\ ref_count \in [Specs -> Int]
    /\ callback \subseteq Specs /\ connected \subseteq Specs
    /\ reply_queue \in [Specs -> Clients \cup {NULL}]
    /\ pc \in [Clients -> {"idle", "popped", "calling", "callback", "handled", "again"}]
    /\ hand \in [Clients -> Items \cup {NULL}]
    /\ emission \in [Threads -> [spec : Specs \cup {NULL},
                                 at : {"none", "invoked", "passed"}]]
    /\ rmutex \in Clients \cup {NULL}
    /\ submitted \in 0..MaxJobs /\ emits \in 0..MaxEmits
    /\ disconnected \subseteq Specs /\ late \subseteq Specs
    /\ foreign \in BOOLEAN /\ disposed \in BOOLEAN
    /\ broken \in {"no", "spec", "thread_data", "null_callback"}

(* DeliveredWhereListed, and what was never connected is nowhere.          *)
ListInv ==
    /\ disposed => threads_hash = {}
    /\ \A s \in Specs :
          /\ s \in connected => Created(s)
          /\ s \in connected <=> \E t \in Clients : s \in signals_list[t]
          /\ \A t \in Clients : s \in signals_list[t] =>
                t \in threads_hash /\ reply_queue[s] = t

(* A thread has a signal job in its hands while it handles it.             *)
InHand == {"popped", "calling", "callback", "handled"}
IsSignal(job) == job \in Items /\ job.type = "signal" /\ Created(job.spec)
JobsInv ==
    \A t \in Clients :
        /\ IF pc[t] \in InHand THEN IsSignal(hand[t]) ELSE hand[t] = NULL
        /\ \A i \in 1..Len(from_worker[t]) :
              from_worker[t][i] = Result \/ IsSignal(from_worker[t][i])

(* What is emitted was connected; by the worker it is while it has a job.  *)
EmitInv ==
    /\ \A t \in Threads : emission[t] # NoEmission =>
          /\ emission[t].at \in {"invoked", "passed"} /\ emission[t].spec \in Specs
          /\ Created(emission[t].spec)
          /\ kind[emission[t].spec] = "job" => t = Worker
    /\ emission[Worker] # NoEmission => current # NULL

(* NothingUnasked: as long as no thread touches the signals of another, a  *)
(* signal job is with the only thread that can disconnect the signal.      *)
Concerns(job, t) == \A u \in Clients : job.spec \in signals_list[u] => u = t
Asked(job, t) ==
    job # Result => Concerns(job, t) /\ (kind[job.spec] = "job" => job.during = t)
OwnInv == ~foreign =>
    /\ late = {} /\ broken # "null_callback"
    /\ \A t \in Clients :
        /\ pc[t] \in InHand => Concerns(hand[t], t)
        /\ pc[t] = "calling" => hand[t].spec \in callback
        /\ \A i \in 1..Len(from_worker[t]) : Asked(from_worker[t][i], t)
    /\ \A t \in Threads : emission[t].at = "passed" /\ kind[emission[t].spec] = "job" =>
          reply_queue[emission[t].spec] \in {current, NULL}

(* A job that has not come back is in a queue, or executed.                *)
Count(q, e) == Cardinality({i \in 1..Len(q) : q[i] = e})
JobsCounted ==
    \A t \in Clients :
        /\ jobs[t] \in Nat /\ results[t] \in Nat /\ jobs[t] + results[t] <= submitted
        /\ ~disposed => jobs[t] >= Count(from_worker[t], Result) + Count(to_worker, t)
                                     + One(current = t)

(* SpecOutlivesItsJobs; and no more references than emissions are taken.   *)
Emissions(s) == {t \in Threads : emission[t].spec = s}
RefsOf(s) ==
    /\ IsFiniteSet(Queued(s)) /\ IsFiniteSet(InHands(s)) /\ IsFiniteSet(Emissions(s))
    /\ ref_count[s] >= Cardinality(Queued(s)) + Cardinality(InHands(s))
                         + One(s \in connected)
    /\ ref_count[s] + Cardinality(Emissions(s)) <= emits + 1
RefsCounted == \A s \in Specs : RefsOf(s)

IInv == Shapes /\ ListInv /\ JobsInv /\ EmitInv /\ OwnInv /\ JobsCounted /\ RefsCounted

-----------------------------------------------------------------------------
(* A job in a queue is a result, or it is a signal.                        *)
LEMMA ItemFacts ==
    /\ Result \in Items /\ NULL \notin Items /\ Result.type = "result"
    /\ \A job \in Items : \/ job = Result
                          \/ job.type = "signal" /\ job.spec \in Specs
                             /\ job.during \in Clients \cup {NULL} /\ job # Result
    /\ \A s \in Specs, t \in Clients \cup {NULL} :
          /\ Signal(s, t) \in Items /\ Signal(s, t) # Result
          /\ Signal(s, t).type = "signal" /\ Signal(s, t).spec = s
          /\ Signal(s, t).during = t
<1>1. Result \in Items /\ NULL \notin Items /\ Result.type = "result"
  BY NullAssumption DEF Result, Items
<1>2. ASSUME NEW job \in [type : {"signal"}, spec : Specs, during : Clients \cup {NULL}]
      PROVE  /\ job.type = "signal" /\ job.spec \in Specs
             /\ job.during \in Clients \cup {NULL} /\ job # Result
  BY <1>1
<1>3. ASSUME NEW s \in Specs, NEW t \in Clients \cup {NULL}
      PROVE  /\ Signal(s, t) \in
                   [type : {"signal"}, spec : Specs, during : Clients \cup {NULL}]
             /\ Signal(s, t).spec = s /\ Signal(s, t).during = t
  BY DEF Signal
<1> QED
  BY <1>1, <1>2, <1>3 DEF Items

(* A signal job is a job, of a spec that was connected.                    *)
LEMMA SignalFacts ==
    ASSUME NEW job, IsSignal(job)
    PROVE  /\ job \in Items /\ job # Result /\ job # NULL
           /\ job.type = "signal" /\ job.spec \in Specs /\ Created(job.spec)
BY ItemFacts DEF IsSignal

(* What a step on a queue does to its elements.                            *)
LEMMA QueueFacts ==
    ASSUME NEW S, NEW q \in Seq(S)
    PROVE  /\ Len(q) \in Nat /\ \A i \in 1..Len(q) : q[i] \in S
           /\ q # <<>> => /\ Head(q) \in S /\ Head(q) = q[1] /\ 1 \in 1..Len(q)
                          /\ Tail(q) \in Seq(S) /\ Len(Tail(q)) = Len(q) - 1
                          /\ \A i \in 1..Len(Tail(q)) :
                                i + 1 \in 1..Len(q) /\ Tail(q)[i] = q[i + 1]
           /\ \A e \in S : /\ Append(q, e) \in Seq(S) /\ Len(Append(q, e)) = Len(q) + 1
                           /\ Append(q, e)[Len(q) + 1] = e
                           /\ \A i \in 1..Len(q) : Append(q, e)[i] = q[i]
                           /\ \A i \in 1..Len(Append(q, e)) :
                                 i \in 1..Len(q) \/ i = Len(q) + 1
<1>1. Len(q) \in Nat /\ \A i \in 1..Len(q) : q[i] \in S
  OBVIOUS
<1>2. ASSUME q # <<>>
      PROVE  /\ Head(q) \in S /\ Head(q) = q[1] /\ 1 \in 1..Len(q)
             /\ Tail(q) \in Seq(S) /\ Len(Tail(q)) = Len(q) - 1
             /\ \A i \in 1..Len(Tail(q)) : i + 1 \in 1..Len(q) /\ Tail(q)[i] = q[i + 1]
  BY <1>2
<1>3. ASSUME NEW e \in S
      PROVE  /\ Append(q, e) \in Seq(S) /\ Len(Append(q, e)) = Len(q) + 1
             /\ Append(q, e)[Len(q) + 1] = e
             /\ \A i \in 1..Len(q) : Append(q, e)[i] = q[i]
             /\ \A i \in 1..Len(Append(q, e)) : i \in 1..Len(q) \/ i = Len(q) + 1
  OBVIOUS
<1> QED
  BY <1>1, <1>2, <1>3

(* signal_spec push: in the queue of one thread, or in none.               *)
Pushed(q, job) ==
    from_worker' = [u \in Clients |->
        from_worker[u] \o (IF u = q THEN <<job>> ELSE <<>>)]
(* What the push does to each queue.                                       *)
LEMMA PushFacts ==
    ASSUME from_worker \in [Clients -> Seq(Items)], NEW q, NEW job \in Items, Pushed(q, job)
    PROVE  /\ from_worker' \in [Clients -> Seq(Items)]
           /\ \A u \in Clients : from_worker'[u] =
                 IF u = q THEN Append(from_worker[u], job) ELSE from_worker[u]
<1>1. ASSUME NEW u \in Clients
      PROVE  from_worker[u] \o (IF u = q THEN <<job>> ELSE <<>>) =
                 IF u = q THEN Append(from_worker[u], job) ELSE from_worker[u]
  <2>1. from_worker[u] \in Seq(Items)
    OBVIOUS
  <2> QED
    BY <2>1
<1>2. \A u \in Clients : from_worker'[u] =
                 IF u = q THEN Append(from_worker[u], job) ELSE from_worker[u]
  BY <1>1 DEF Pushed
<1>3. ASSUME NEW u \in Clients PROVE from_worker'[u] \in Seq(Items)
  <2>1. from_worker[u] \in Seq(Items) /\ Append(from_worker[u], job) \in Seq(Items)
    OBVIOUS
  <2> QED
    BY <1>2, <2>1
<1>4. from_worker' = [u \in Clients |-> from_worker'[u]]
  BY DEF Pushed
<1> QED
  BY <1>2, <1>3, <1>4

-----------------------------------------------------------------------------
(* What is asked of the numbers once the rest is known: TypeOK.            *)
LEMMA TypesFollow == IInv => TypeOK
<1> SUFFICES ASSUME IInv PROVE TypeOK
  OBVIOUS
<1>1. ASSUME NEW t \in Clients PROVE jobs[t] \in 0..MaxJobs /\ results[t] \in 0..MaxJobs
  <2>1. /\ jobs[t] \in Nat /\ results[t] \in Nat /\ jobs[t] + results[t] <= submitted
        /\ submitted \in 0..MaxJobs
    BY DEF IInv, JobsCounted, Shapes
  <2> QED
    BY <2>1, BoundsAssumption
<1>2. ASSUME NEW s \in Specs PROVE ref_count[s] \in 0..(MaxEmits + 1)
  <2> DEFINE q == Cardinality(Queued(s))
             h == Cardinality(InHands(s))
             e == Cardinality(Emissions(s))
  <2>1. q \in Nat /\ h \in Nat /\ e \in Nat
    BY FS_CardinalityType DEF IInv, RefsCounted, RefsOf
  <2>2. /\ ref_count[s] \in Int /\ emits \in 0..MaxEmits
        /\ ref_count[s] >= q + h + One(s \in connected) /\ ref_count[s] + e <= emits + 1
    BY DEF IInv, RefsCounted, RefsOf, Shapes
  <2>3. One(s \in connected) \in Nat
    BY DEF One
  <2> HIDE DEF q, h, e
  <2> QED
    BY <2>1, <2>2, <2>3, BoundsAssumption
<1>3. /\ jobs \in [Clients -> 0..MaxJobs] /\ results \in [Clients -> 0..MaxJobs]
      /\ ref_count \in [Specs -> 0..(MaxEmits + 1)]
  BY <1>1, <1>2 DEF IInv, Shapes
<1> QED
  BY <1>3 DEF IInv, Shapes, TypeOK

(* IInv holds at first: no thread, no job, no spec.                        *)
LEMMA InitIsInvariant == Init => IInv
<1> SUFFICES ASSUME Init PROVE IInv
  OBVIOUS
<1>1. Shapes
  <2>1. NoEmission \in [spec : Specs \cup {NULL}, at : {"none", "invoked", "passed"}]
    BY DEF NoEmission
  <2>2. /\ emission \in [Threads -> [spec : Specs \cup {NULL},
                                     at : {"none", "invoked", "passed"}]]
        /\ submitted \in 0..MaxJobs /\ emits \in 0..MaxEmits
    BY <2>1, BoundsAssumption DEF Init
  <2>3. from_worker \in [Clients -> Seq(Items)] /\ to_worker \in Seq(Clients)
    BY DEF Init
  <2>4. /\ jobs \in [Clients -> Int] /\ results \in [Clients -> Int]
        /\ signals_list \in [Clients -> SUBSET Specs]
        /\ kind \in [Specs -> Kinds \cup {NULL}] /\ ref_count \in [Specs -> Int]
        /\ reply_queue \in [Specs -> Clients \cup {NULL}]
        /\ pc \in [Clients -> {"idle", "popped", "calling", "callback", "handled", "again"}]
        /\ hand \in [Clients -> Items \cup {NULL}]
    BY DEF Init
  <2>5. /\ threads_hash \subseteq Clients /\ current \in Clients \cup {NULL}
        /\ callback \subseteq Specs /\ connected \subseteq Specs
        /\ rmutex \in Clients \cup {NULL}
        /\ disconnected \subseteq Specs /\ late \subseteq Specs
        /\ foreign \in BOOLEAN /\ disposed \in BOOLEAN
        /\ broken \in {"no", "spec", "thread_data", "null_callback"}
    BY DEF Init
  <2> QED
    BY <2>2, <2>3, <2>4, <2>5 DEF Shapes
<1>2. ListInv
  BY DEF Init, ListInv
<1>3. JobsInv
  BY DEF Init, JobsInv, InHand
<1>4. EmitInv
  BY DEF Init, EmitInv, Threads
<1>5. OwnInv
  BY DEF Init, OwnInv, InHand, NoEmission, Asked
<1>6. JobsCounted
  <2>1. ASSUME NEW q, q = <<>>, NEW e PROVE Count(q, e) = 0
    <3>1. {i \in 1..Len(q) : q[i] = e} = {}
      BY <2>1
    <3> QED
      BY <3>1, FS_EmptySet DEF Count
  <2>2. ASSUME NEW t \in Clients
        PROVE  /\ Count(from_worker[t], Result) = 0 /\ Count(to_worker, t) = 0
               /\ One(current = t) = 0
    BY <2>1, NullAssumption DEF Init, One, Threads
  <2> QED
    BY <2>2 DEF Init, JobsCounted
<1>7. RefsCounted
  <2>1. ASSUME NEW s \in Specs
        PROVE  /\ Queued(s) = {} /\ InHands(s) = {} /\ Emissions(s) = {}
               /\ One(s \in connected) = 0 /\ ref_count[s] = 0 /\ emits = 0
    BY NullAssumption DEF Init, Queued, InHands, Emissions, One, NoEmission
  <2>2. IsFiniteSet({}) /\ Cardinality({}) = 0
    BY FS_EmptySet
  <2> QED
    BY <2>1, <2>2 DEF RefsCounted, RefsOf
<1> QED
  BY <1>1, <1>2, <1>3, <1>4, <1>5, <1>6, <1>7 DEF IInv

(* What exists goes on existing: a kind is given once.                     *)
LEMMA KindStays ==
    ASSUME IInv, [Next]_vars, NEW s \in Specs, Created(s)
    PROVE  kind'[s] = kind[s] /\ Created(s)'
<1>1. ASSUME NEW t \in Clients, NEW r \in Specs, NEW k \in Kinds, connect_raw(t, r, k)
      PROVE  kind'[s] = kind[s]
  BY <1>1 DEF connect_raw, IInv, Shapes, Created
<1>2. ASSUME UNCHANGED kind PROVE kind'[s] = kind[s]
  BY <1>2
<1>3. \/ \E t \in Clients, r \in Specs, k \in Kinds : connect_raw(t, r, k)
      \/ UNCHANGED kind
  <2>1. ASSUME NEW t \in Clients, Client(t),
               ~\E r \in Specs, k \in Kinds : connect_raw(t, r, k)
        PROVE  UNCHANGED kind
    BY <2>1 DEF Client, disconnect, steal_signal, ConnectRefused, Execute, FetchResult,
         IterateResult, IterateSignal, IterateAgain, TestCallback, CallBack,
         CallbackReturns, Unref, specVars
  <2>2. ASSUME NEW t \in Threads, Emitter(t) PROVE UNCHANGED kind
    BY <2>2 DEF Emitter, MarshalCheck, MarshalPush, Emit, specVars
  <2>3. ASSUME WorkerStart \/ WorkerReply \/ Dispose \/ UNCHANGED vars
        PROVE  UNCHANGED kind
    BY <2>3 DEF WorkerStart, WorkerReply, Dispose, vars, specVars
  <2> QED
    BY <2>1, <2>2, <2>3 DEF Next
<1>4. kind'[s] = kind[s]
  BY <1>1, <1>2, <1>3
<1> QED
  BY <1>4 DEF Created

-----------------------------------------------------------------------------
(* ListInv, step by step: what the steps not named here leave alone.       *)
ListSame == UNCHANGED <<disposed, threads_hash, kind, connected, signals_list, reply_queue>>

(* The steps that can change what ListInv is about.                        *)
LEMMA ListSteps ==
    ASSUME [Next]_vars
    PROVE  \/ \E t \in Clients, s \in Specs : disconnect(t, s) \/ steal_signal(t, s)
           \/ \E t \in Clients, s \in Specs, k \in Kinds : connect_raw(t, s, k)
           \/ \E t \in Clients : ConnectRefused(t) \/ Execute(t) \/ FetchResult(t)
           \/ Dispose \/ ListSame
<1>1. ASSUME NEW t \in Clients, IterateResult(t) \/ IterateSignal(t) \/ IterateAgain(t)
      PROVE  ListSame
  BY <1>1 DEF IterateResult, IterateSignal, IterateAgain, ListSame, tdVars, specVars, status
<1>2. ASSUME NEW t \in Clients,
             TestCallback(t) \/ CallBack(t) \/ CallbackReturns(t) \/ Unref(t)
      PROVE  ListSame
  BY <1>2 DEF TestCallback, CallBack, CallbackReturns, Unref, ListSame, tdVars, specVars,
     status
<1>3. ASSUME NEW t \in Threads, Emitter(t) PROVE ListSame
  BY <1>3 DEF Emitter, MarshalCheck, MarshalPush, Emit, ListSame, tdVars, specVars, status
<1>4. ASSUME WorkerStart \/ WorkerReply \/ UNCHANGED vars PROVE ListSame
  BY <1>4 DEF WorkerStart, WorkerReply, vars, ListSame, tdVars, specVars, status
<1> QED
  BY <1>1, <1>2, <1>3, <1>4 DEF Next, Client

(* No step breaks ListInv.                                                 *)
LEMMA ListStep == ASSUME IInv, [Next]_vars PROVE ListInv'
<1> USE DEF Created
<1>1. /\ disposed => threads_hash = {}
      /\ \A s \in Specs : s \in connected => kind[s] # NULL
      /\ \A s \in Specs : s \in connected <=> \E t \in Clients : s \in signals_list[t]
      /\ \A s \in Specs, t \in Clients : s \in signals_list[t] =>
            t \in threads_hash /\ reply_queue[s] = t
  BY DEF IInv, ListInv
<1>2. /\ signals_list \in [Clients -> SUBSET Specs]
      /\ kind \in [Specs -> Kinds \cup {NULL}]
      /\ reply_queue \in [Specs -> Clients \cup {NULL}]
      /\ threads_hash \subseteq Clients /\ connected \subseteq Specs
  BY DEF IInv, Shapes
<1>3. ASSUME NEW t \in Clients, NEW s \in Specs, NEW k \in Kinds, connect_raw(t, s, k)
      PROVE  ListInv'
  <2>1. /\ ~disposed /\ disposed' = disposed /\ kind[s] = NULL
        /\ threads_hash' = threads_hash \cup {t}
        /\ signals_list' = [signals_list EXCEPT ![t] = @ \cup {s}]
        /\ kind' = [kind EXCEPT ![s] = k] /\ connected' = connected \cup {s}
        /\ reply_queue' = [reply_queue EXCEPT ![s] = t]
    BY <1>3 DEF connect_raw, CanCall, status
  <2>2. k # NULL
    BY NullAssumption
  <2>3. \A u \in Clients : s \notin signals_list[u]
    BY <1>1, <2>1
  <2>4. /\ \A u \in Clients : signals_list'[u] =
              IF u = t THEN signals_list[u] \cup {s} ELSE signals_list[u]
        /\ \A r \in Specs : kind'[r] = IF r = s THEN k ELSE kind[r]
        /\ \A r \in Specs : reply_queue'[r] = IF r = s THEN t ELSE reply_queue[r]
    BY <1>2, <2>1
  <2> QED
    BY <1>1, <2>1, <2>2, <2>3, <2>4 DEF ListInv
<1>4. ASSUME NEW t \in Clients, NEW s \in Specs, disconnect(t, s)
      PROVE  ListInv'
  <2>1. PICK u \in DisconnectFrom(t, s) :
           /\ Lists(u, s)
           /\ signals_list' = [signals_list EXCEPT ![u] = @ \ {s}]
           /\ threads_hash' = IF Useless(u, signals_list[u] \ {s})
                              THEN threads_hash \ {t} ELSE threads_hash
    BY <1>4 DEF disconnect
  <2>2. /\ disposed' = disposed /\ kind' = kind /\ connected' = connected \ {s}
        /\ reply_queue' = [reply_queue EXCEPT ![s] = NULL]
    BY <1>4 DEF disconnect, status
  <2>3. u \in Clients /\ s \in signals_list[u] /\ (t \in threads_hash => u = t)
    BY <2>1 DEF DisconnectFrom, Lists
  <2>4. \A v \in Clients : v # u => s \notin signals_list[v]
    BY <1>1, <2>3
  <2>5. /\ \A v \in Clients : signals_list'[v] =
              IF v = u THEN signals_list[v] \ {s} ELSE signals_list[v]
        /\ \A r \in Specs : r # s => reply_queue'[r] = reply_queue[r]
    BY <1>2, <2>1, <2>2
  <2>6. \A v \in Clients, r \in Specs : r \in signals_list'[v] => v \in threads_hash'
    <3> SUFFICES ASSUME NEW v \in Clients, NEW r \in Specs, r \in signals_list'[v]
                 PROVE  v \in threads_hash'
      OBVIOUS
    <3>1. r \in signals_list[v] /\ v \in threads_hash
      <4>1. r \in signals_list[v]
        BY <2>5
      <4> QED
        BY <1>1, <4>1
    <3>2. CASE Useless(u, signals_list[u] \ {s})
      <4>1. signals_list[u] \ {s} = {}
        BY <3>2 DEF Useless
      <4>2. v # u
        BY <2>5, <4>1
      <4>3. v # t
        BY <2>3, <3>1, <4>2
      <4> QED
        BY <2>1, <3>1, <3>2, <4>3
    <3>3. CASE ~Useless(u, signals_list[u] \ {s})
      BY <2>1, <3>1, <3>3
    <3> QED
      BY <3>2, <3>3
  <2>7. disposed => threads_hash' = {}
    BY <1>1, <2>1
  <2>8. \A r \in Specs : r \in connected' <=> \E v \in Clients : r \in signals_list'[v]
    <3>1. \A v \in Clients : s \notin signals_list'[v]
      BY <2>4, <2>5
    <3>2. \A r \in Specs, v \in Clients : r # s =>
             (r \in signals_list'[v] <=> r \in signals_list[v])
      BY <2>5
    <3> QED
      BY <1>1, <2>2, <3>1, <3>2
  <2>9. \A r \in Specs, v \in Clients : r \in signals_list'[v] => reply_queue'[r] = v
    <3> SUFFICES ASSUME NEW v \in Clients, NEW r \in Specs, r \in signals_list'[v]
                 PROVE  reply_queue'[r] = v
      OBVIOUS
    <3>1. r \in signals_list[v]
      BY <2>5
    <3>2. r # s
      BY <2>4, <2>5
    <3> QED
      BY <1>1, <2>5, <3>1, <3>2
  <2> QED
    BY <1>1, <2>2, <2>6, <2>7, <2>8, <2>9 DEF ListInv
<1>5. ASSUME NEW t \in Clients, NEW s \in Specs, steal_signal(t, s)
      PROVE  ListInv'
  <2>1. PICK u \in Clients \ {t} :
           /\ Lists(u, s)
           /\ threads_hash' = threads_hash \cup {t}
           /\ signals_list' = [signals_list EXCEPT ![u] = @ \ {s}, ![t] = @ \cup {s}]
    BY <1>5 DEF steal_signal
  <2>2. /\ ~disposed /\ disposed' = disposed /\ kind' = kind /\ connected' = connected
        /\ reply_queue' = [reply_queue EXCEPT ![s] = t]
    BY <1>5 DEF steal_signal, CanCall, status
  <2>3. s \in signals_list[u] /\ s \in connected
    BY <1>1, <2>1 DEF Lists
  <2>4. \A v \in Clients : v # u => s \notin signals_list[v]
    BY <1>1, <2>3
  <2>5. /\ \A v \in Clients : signals_list'[v] =
              IF v = t THEN signals_list[v] \cup {s}
              ELSE IF v = u THEN signals_list[v] \ {s} ELSE signals_list[v]
        /\ reply_queue'[s] = t
        /\ \A r \in Specs : r # s => reply_queue'[r] = reply_queue[r]
    BY <1>2, <2>1, <2>2
  <2>6. \A r \in Specs, v \in Clients : r \in signals_list'[v] <=>
           IF r = s THEN v = t ELSE r \in signals_list[v]
    <3>1. ASSUME NEW r \in Specs, NEW v \in Clients, r # s
          PROVE  r \in signals_list'[v] <=> r \in signals_list[v]
      <4>1. signals_list'[v] \in
               {signals_list[v] \cup {s}, signals_list[v] \ {s}, signals_list[v]}
        BY <2>5
      <4> QED
        BY <3>1, <4>1
    <3>2. \A v \in Clients : s \in signals_list'[v] <=> v = t
      BY <2>4, <2>5
    <3> QED
      BY <3>1, <3>2
  <2>7. ASSUME NEW r \in Specs
        PROVE  r \in connected' <=> \E v \in Clients : r \in signals_list'[v]
    BY <1>1, <2>2, <2>3, <2>6
  <2>8. ASSUME NEW r \in Specs, NEW v \in Clients, r \in signals_list'[v]
        PROVE  v \in threads_hash' /\ reply_queue'[r] = v
    <3>1. CASE r = s
      BY <2>1, <2>5, <2>6, <2>8, <3>1
    <3>2. CASE r # s
      BY <1>1, <2>1, <2>5, <2>6, <2>8, <3>2
    <3> QED
      BY <3>1, <3>2
  <2> QED
    BY <1>1, <2>2, <2>7, <2>8 DEF ListInv
<1>6. ASSUME NEW t \in Clients, ConnectRefused(t) \/ Execute(t)
      PROVE  ListInv'
  <2>1. /\ ~disposed /\ threads_hash' = threads_hash \cup {t}
        /\ UNCHANGED <<disposed, kind, connected, signals_list, reply_queue>>
    BY <1>6 DEF ConnectRefused, Execute, CanCall, specVars, status
  <2> QED
    BY <1>1, <2>1 DEF ListInv
<1>7. ASSUME NEW t \in Clients, FetchResult(t)
      PROVE  ListInv'
  <2>1. /\ \/ threads_hash' = threads_hash
           \/ threads_hash' = threads_hash \ {t} /\ signals_list[t] = {}
        /\ UNCHANGED <<disposed, kind, connected, signals_list, reply_queue>>
    BY <1>7 DEF FetchResult, specVars, status
  <2> QED
    BY <1>1, <2>1 DEF ListInv
<1>8. CASE Dispose
  <2>1. /\ threads_hash' = {} /\ connected' = {} /\ signals_list' = [t \in Clients |-> {}]
    BY <1>8 DEF Dispose
  <2> QED
    BY <2>1 DEF ListInv
<1>9. CASE ListSame
  BY <1>1, <1>9 DEF ListInv, ListSame
<1> QED
  BY <1>3, <1>4, <1>5, <1>6, <1>7, <1>8, <1>9, ListSteps

-----------------------------------------------------------------------------
(* Shapes and JobsInv.                                                     *)
LEMMA ShapesStep == ASSUME IInv, [Next]_vars PROVE Shapes'
<1> USE DEF tdVars, specVars, workerVars, iterateVars, emitVars, status
<1>1. Shapes
  BY DEF IInv
<1>2. ASSUME NEW t \in Clients, NEW s \in Specs, NEW k \in Kinds, connect_raw(t, s, k)
      PROVE  Shapes'
  <2>1. /\ threads_hash' \subseteq Clients
        /\ signals_list' \in [Clients -> SUBSET Specs]
        /\ kind' \in [Specs -> Kinds \cup {NULL}] /\ ref_count' \in [Specs -> Int]
        /\ callback' \subseteq Specs /\ connected' \subseteq Specs
        /\ reply_queue' \in [Specs -> Clients \cup {NULL}]
    BY <1>1, <1>2 DEF connect_raw, Shapes
  <2> QED
    BY <1>1, <1>2, <2>1 DEF connect_raw, Shapes
<1>3. ASSUME NEW t \in Clients, ConnectRefused(t)
      PROVE  Shapes'
  BY <1>1, <1>3 DEF ConnectRefused, Shapes
<1>4. ASSUME NEW t \in Clients, NEW s \in Specs, disconnect(t, s)
      PROVE  Shapes'
  <2>1. /\ threads_hash' \subseteq Clients
        /\ signals_list' \in [Clients -> SUBSET Specs] /\ ref_count' \in [Specs -> Int]
        /\ callback' \subseteq Specs /\ connected' \subseteq Specs
        /\ reply_queue' \in [Specs -> Clients \cup {NULL}] /\ disconnected' \subseteq Specs
    <3>1. PICK u \in Clients :
             /\ signals_list' = [signals_list EXCEPT ![u] = @ \ {s}]
             /\ threads_hash' \in {threads_hash, threads_hash \ {t}}
      BY <1>4 DEF disconnect, DisconnectFrom
    <3>2. /\ ref_count' = [ref_count EXCEPT ![s] = @ - 1]
          /\ callback' = callback \ {s} /\ connected' = connected \ {s}
          /\ reply_queue' = [reply_queue EXCEPT ![s] = NULL]
          /\ disconnected' = disconnected \cup {s}
      BY <1>4 DEF disconnect
    <3> QED
      BY <1>1, <3>1, <3>2 DEF Shapes
  <2> QED
    BY <1>1, <1>4, <2>1 DEF disconnect, Shapes
<1>5. ASSUME NEW t \in Clients, NEW s \in Specs, steal_signal(t, s)
      PROVE  Shapes'
  <2>1. /\ threads_hash' \subseteq Clients
        /\ signals_list' \in [Clients -> SUBSET Specs]
        /\ reply_queue' \in [Specs -> Clients \cup {NULL}]
    <3>1. PICK u \in Clients :
             /\ threads_hash' = threads_hash \cup {t}
             /\ signals_list' = [signals_list EXCEPT ![u] = @ \ {s}, ![t] = @ \cup {s}]
      BY <1>5 DEF steal_signal
    <3>2. reply_queue' = [reply_queue EXCEPT ![s] = t]
      BY <1>5 DEF steal_signal
    <3> QED
      BY <1>1, <3>1, <3>2 DEF Shapes
  <2> QED
    BY <1>1, <1>5, <2>1 DEF steal_signal, Shapes
<1>6. ASSUME NEW t \in Clients, Execute(t)
      PROVE  Shapes'
  <2>1. /\ threads_hash' \subseteq Clients /\ jobs' \in [Clients -> Int]
        /\ to_worker' \in Seq(Clients) /\ submitted' \in 0..MaxJobs
    BY <1>1, <1>6, BoundsAssumption DEF Execute, Shapes
  <2> QED
    BY <1>1, <1>6, <2>1 DEF Execute, Shapes
<1>7. ASSUME NEW t \in Clients, FetchResult(t)
      PROVE  Shapes'
  <2>1. threads_hash' \subseteq Clients /\ results' \in [Clients -> Int]
    BY <1>1, <1>7 DEF FetchResult, Shapes
  <2> QED
    BY <1>1, <1>7, <2>1 DEF FetchResult, Shapes
<1>8. CASE Dispose
  <2>1. ASSUME NEW s \in Specs
        PROVE  ref_count[s] - (IF s \in connected THEN 1 ELSE 0) \in Int
    BY <1>1 DEF Shapes
  <2>2. /\ to_worker' \in Seq(Clients) /\ threads_hash' \subseteq Clients
        /\ jobs' \in [Clients -> Int] /\ results' \in [Clients -> Int]
        /\ signals_list' \in [Clients -> SUBSET Specs] /\ ref_count' \in [Specs -> Int]
        /\ reply_queue' \in [Specs -> Clients \cup {NULL}]
    BY <1>8, <2>1 DEF Dispose
  <2> QED
    BY <1>1, <1>8, <2>2 DEF Dispose, Shapes
<1>9. CASE WorkerStart
  <2>1. Head(to_worker) \in Clients /\ Tail(to_worker) \in Seq(Clients)
    BY <1>1, <1>9 DEF WorkerStart, Shapes
  <2> QED
    BY <1>1, <1>9, <2>1 DEF WorkerStart, Shapes
<1>10. CASE WorkerReply
  <2>1. current \in Clients /\ Append(from_worker[current], Result) \in Seq(Items)
    BY <1>1, <1>10, ItemFacts DEF WorkerReply, Shapes
  <2>2. from_worker' \in [Clients -> Seq(Items)]
    BY <1>1, <1>10, <2>1 DEF WorkerReply, Shapes
  <2> QED
    BY <1>1, <1>10, <2>2 DEF WorkerReply, Shapes
<1>11. ASSUME NEW t \in Threads, NEW s \in Specs, Emit(t, s)
       PROVE  Shapes'
  <2>1. /\ emission' \in [Threads -> [spec : Specs \cup {NULL},
                                      at : {"none", "invoked", "passed"}]]
        /\ emits' \in 0..MaxEmits
    BY <1>1, <1>11, BoundsAssumption DEF Emit, Shapes
  <2> QED
    BY <1>1, <1>11, <2>1 DEF Emit, Shapes
<1>12. ASSUME NEW t \in Threads, MarshalCheck(t)
       PROVE  Shapes'
  <2>1. emission[t].spec \in Specs \cup {NULL}
    BY <1>1 DEF Shapes
  <2>2. NoEmission \in [spec : Specs \cup {NULL}, at : {"none", "invoked", "passed"}]
    BY DEF NoEmission
  <2>3. /\ emission' \in [Threads -> [spec : Specs \cup {NULL},
                                      at : {"none", "invoked", "passed"}]]
        /\ broken' \in {"no", "spec", "thread_data", "null_callback"}
    <3> DEFINE next == IF WantedNow(emission[t].spec)
                       THEN [spec |-> emission[t].spec, at |-> "passed"] ELSE NoEmission
    <3>1. next \in [spec : Specs \cup {NULL}, at : {"none", "invoked", "passed"}]
      BY <2>1, <2>2
    <3> HIDE DEF next
    <3>2. /\ emission' = emission \/ emission' = [emission EXCEPT ![t] = next]
          /\ broken' \in {"spec", broken}
      BY <1>12 DEF MarshalCheck, next
    <3>3. [emission EXCEPT ![t] = next] \in
             [Threads -> [spec : Specs \cup {NULL}, at : {"none", "invoked", "passed"}]]
      BY <1>1, <3>1 DEF Shapes
    <3> QED
      BY <1>1, <3>2, <3>3 DEF Shapes
  <2> QED
    BY <1>1, <1>12, <2>3 DEF MarshalCheck, Shapes
<1>13. ASSUME NEW t \in Threads, MarshalPush(t)
       PROVE  Shapes'
  <2> DEFINE s == emission[t].spec
             job == IF t = Worker THEN current ELSE NULL
  <2>1. emission[t] # NoEmission
    BY <1>13 DEF MarshalPush, NoEmission
  <2>2. s \in Specs /\ job \in Clients \cup {NULL}
    BY <1>1, <2>1 DEF IInv, EmitInv, Shapes
  <2>3. NoEmission \in [spec : Specs \cup {NULL}, at : {"none", "invoked", "passed"}]
    BY DEF NoEmission
  <2>4. CASE Freed(s)
    BY <1>1, <1>13, <2>4 DEF MarshalPush, Shapes
  <2>5. CASE ~Freed(s)
    <3>1. /\ emission' = [emission EXCEPT ![t] = NoEmission]
          /\ ref_count' = [ref_count EXCEPT ![s] = @ + 1]
          /\ Pushed(reply_queue[s], Signal(s, job))
      BY <1>13, <2>5 DEF MarshalPush, WithReference, Pushed
    <3> HIDE DEF s, job
    <3>2. from_worker' \in [Clients -> Seq(Items)]
      <4>1. Signal(s, job) \in Items
        BY <2>2, ItemFacts
      <4> QED
        BY <1>1, <3>1, <4>1, PushFacts DEF Shapes
    <3>3. /\ emission' \in [Threads -> [spec : Specs \cup {NULL},
                                        at : {"none", "invoked", "passed"}]]
          /\ ref_count' \in [Specs -> Int]
      BY <1>1, <2>2, <2>3, <3>1 DEF Shapes
    <3>4. UNCHANGED <<threads_hash, jobs, results, signals_list, kind, callback,
                      reply_queue, connected, workerVars, iterateVars, emits, rmutex,
                      disconnected, foreign, disposed, broken>>
      BY <1>13, <2>5 DEF MarshalPush, s
    <3> QED
      BY <1>1, <3>2, <3>3, <3>4 DEF Shapes
  <2> QED
    BY <2>4, <2>5
<1>14. ASSUME NEW t \in Clients, IterateResult(t)
       PROVE  Shapes'
  <2>1. Tail(from_worker[t]) \in Seq(Items)
    BY <1>1, <1>14 DEF IterateResult, Shapes
  <2>2. /\ from_worker' \in [Clients -> Seq(Items)]
        /\ jobs' \in [Clients -> Int] /\ results' \in [Clients -> Int]
        /\ pc' \in [Clients -> {"idle", "popped", "calling", "callback", "handled", "again"}]
    BY <1>1, <1>14, <2>1 DEF IterateResult, Shapes
  <2> QED
    BY <1>1, <1>14, <2>2 DEF IterateResult, Shapes
<1>15. ASSUME NEW t \in Clients, IterateSignal(t)
       PROVE  Shapes'
  <2>1. Tail(from_worker[t]) \in Seq(Items) /\ Head(from_worker[t]) \in Items
    BY <1>1, <1>15 DEF IterateSignal, Shapes
  <2>2. /\ from_worker' \in [Clients -> Seq(Items)]
        /\ hand' \in [Clients -> Items \cup {NULL}]
        /\ pc' \in [Clients -> {"idle", "popped", "calling", "callback", "handled", "again"}]
    BY <1>1, <1>15, <2>1 DEF IterateSignal, Shapes
  <2> QED
    BY <1>1, <1>15, <2>2 DEF IterateSignal, Shapes
<1>16. ASSUME NEW t \in Clients, IterateAgain(t)
       PROVE  Shapes'
  <2>1. /\ broken' \in {"no", "spec", "thread_data", "null_callback"}
        /\ pc' \in [Clients -> {"idle", "popped", "calling", "callback", "handled", "again"}]
    BY <1>1, <1>16 DEF IterateAgain, Shapes
  <2> QED
    BY <1>1, <1>16, <2>1 DEF IterateAgain, Shapes
<1>17. ASSUME NEW t \in Clients, TestCallback(t) \/ CallbackReturns(t)
       PROVE  Shapes'
  <2>1. pc' \in [Clients -> {"idle", "popped", "calling", "callback", "handled", "again"}]
    BY <1>1, <1>17 DEF TestCallback, CallbackReturns, Shapes
  <2> QED
    BY <1>1, <1>17, <2>1 DEF TestCallback, CallbackReturns, Shapes
<1>18. ASSUME NEW t \in Clients, CallBack(t)
       PROVE  Shapes'
  <2>1. hand[t].spec \in Specs
    <3>1. IsSignal(hand[t])
      BY <1>18 DEF IInv, JobsInv, CallBack, InHand
    <3> QED
      BY <3>1, SignalFacts
  <2>2. /\ pc' \in [Clients -> {"idle", "popped", "calling", "callback", "handled", "again"}]
        /\ broken' \in {"no", "spec", "thread_data", "null_callback"} /\ late' \subseteq Specs
    BY <1>1, <1>18, <2>1 DEF CallBack, Shapes
  <2> QED
    BY <1>1, <1>18, <2>2 DEF CallBack, Shapes
<1>19. ASSUME NEW t \in Clients, Unref(t)
       PROVE  Shapes'
  <2>1. /\ pc' \in [Clients -> {"idle", "popped", "calling", "callback", "handled", "again"}]
        /\ hand' \in [Clients -> Items \cup {NULL}] /\ ref_count' \in [Specs -> Int]
    <3>1. hand[t].spec \in Specs
      <4>1. IsSignal(hand[t])
        BY <1>19 DEF IInv, JobsInv, Unref, InHand
      <4> QED
        BY <4>1, SignalFacts
    <3> QED
      BY <1>1, <1>19, <3>1 DEF Unref, Shapes
  <2> QED
    BY <1>1, <1>19, <2>1 DEF Unref, Shapes
<1>20. CASE UNCHANGED vars
  BY <1>1, <1>20 DEF vars, Shapes
<1> QED
  BY <1>2, <1>3, <1>4, <1>5, <1>6, <1>7, <1>8, <1>9, <1>10, <1>11, <1>12, <1>13, <1>14,
     <1>15, <1>16, <1>17, <1>18, <1>19, <1>20 DEF Next, Client, Emitter

(* The queues and the hands after a step, by thread.                       *)
SignalNext(job) == job \in Items /\ job.type = "signal" /\ kind'[job.spec] # NULL
JobsNext(t) ==
    /\ IF pc'[t] \in InHand THEN SignalNext(hand'[t]) ELSE hand'[t] = NULL
    /\ \A i \in 1..Len(from_worker'[t]) :
          from_worker'[t][i] = Result \/ SignalNext(from_worker'[t][i])

(* A job that stays where it is remains a signal job or a result.          *)
LEMMA JobsStay ==
    ASSUME IInv, [Next]_vars, NEW t \in Clients
    PROVE  /\ \A job : IsSignal(job) => SignalNext(job)
           /\ IF pc[t] \in InHand THEN SignalNext(hand[t]) ELSE hand[t] = NULL
           /\ \A i \in 1..Len(from_worker[t]) :
                 from_worker[t][i] = Result \/ SignalNext(from_worker[t][i])
<1>1. ASSUME NEW job, IsSignal(job) PROVE SignalNext(job)
  <2>1. job \in Items /\ job.type = "signal" /\ job.spec \in Specs /\ Created(job.spec)
    BY <1>1, SignalFacts
  <2>2. kind'[job.spec] = kind[job.spec]
    BY <2>1, KindStays
  <2> QED
    BY <2>1, <2>2 DEF SignalNext, Created
<1> QED
  BY <1>1 DEF IInv, JobsInv

(* No step breaks JobsInv.                                                 *)
LEMMA JobsStep == ASSUME IInv, [Next]_vars PROVE JobsInv'
<1> SUFFICES ASSUME NEW u \in Clients PROVE JobsNext(u)
  BY DEF JobsInv, JobsNext, IsSignal, SignalNext, Created
<1>1. /\ \A job : IsSignal(job) => SignalNext(job)
      /\ IF pc[u] \in InHand THEN SignalNext(hand[u]) ELSE hand[u] = NULL
      /\ \A i \in 1..Len(from_worker[u]) :
            from_worker[u][i] = Result \/ SignalNext(from_worker[u][i])
  BY JobsStay
<1>2. /\ pc \in [Clients -> {"idle", "popped", "calling", "callback", "handled", "again"}]
      /\ hand \in [Clients -> Items \cup {NULL}] /\ from_worker \in [Clients -> Seq(Items)]
      /\ current \in Clients \cup {NULL}
  BY DEF IInv, Shapes
<1>3. CASE UNCHANGED <<pc, hand, from_worker>>
  BY <1>1, <1>3 DEF JobsNext
<1>4. CASE WorkerReply
  <2>1. /\ current \in Clients /\ UNCHANGED <<pc, hand>>
        /\ from_worker' = [from_worker EXCEPT ![current] = Append(@, Result)]
    BY <1>2, <1>4 DEF WorkerReply, iterateVars
  <2>2. /\ from_worker[u] \in Seq(Items)
        /\ from_worker'[u] = IF u = current THEN Append(from_worker[u], Result)
                             ELSE from_worker[u]
    BY <1>2, <2>1
  <2>3. CASE u = current
    BY <1>1, <2>1, <2>2, <2>3, ItemFacts, QueueFacts DEF JobsNext
  <2>4. CASE u # current
    BY <1>1, <2>1, <2>2, <2>4 DEF JobsNext
  <2> QED
    BY <2>3, <2>4
<1>5. ASSUME NEW t \in Threads, MarshalPush(t)
      PROVE  JobsNext(u)
  <2> DEFINE s == emission[t].spec
             job == IF t = Worker THEN current ELSE NULL
             item == Signal(s, job)
  <2>1. emission[t] # NoEmission
    BY <1>5 DEF MarshalPush, NoEmission
  <2>2. s \in Specs /\ Created(s) /\ job \in Clients \cup {NULL}
    BY <1>2, <2>1 DEF IInv, EmitInv
  <2>3. CASE Freed(s)
    BY <1>3, <1>5, <2>3 DEF MarshalPush, iterateVars
  <2>4. CASE ~Freed(s)
    <3>1. Pushed(reply_queue[s], item) /\ UNCHANGED <<pc, hand>>
      BY <1>5, <2>4 DEF MarshalPush, Pushed, iterateVars
    <3> HIDE DEF s, job
    <3>2. item \in Items /\ item.type = "signal" /\ item.spec = s
      BY <2>2, ItemFacts
    <3>3. IsSignal(item)
      BY <2>2, <3>2 DEF IsSignal
    <3> HIDE DEF item
    <3>4. /\ from_worker[u] \in Seq(Items)
          /\ from_worker'[u] = IF u = reply_queue[s] THEN Append(from_worker[u], item)
                               ELSE from_worker[u]
      BY <1>2, <3>1, <3>2, PushFacts
    <3>5. CASE u = reply_queue[s]
      BY <1>1, <3>1, <3>2, <3>3, <3>4, <3>5, QueueFacts DEF JobsNext
    <3>6. CASE u # reply_queue[s]
      BY <1>1, <3>1, <3>4, <3>6 DEF JobsNext
    <3> QED
      BY <3>5, <3>6
  <2> QED
    BY <2>3, <2>4
<1>6. ASSUME NEW t \in Clients, IterateResult(t) \/ IterateSignal(t)
      PROVE  JobsNext(u)
  <2>1. /\ from_worker[t] # <<>> /\ pc[t] \in {"again", "idle"}
        /\ from_worker' = [from_worker EXCEPT ![t] = Tail(@)]
        /\ \/ /\ pc' = [pc EXCEPT ![t] = "idle"] /\ hand' = hand
           \/ /\ pc' = [pc EXCEPT ![t] = "popped"]
              /\ hand' = [hand EXCEPT ![t] = Head(from_worker[t])]
              /\ Head(from_worker[t]) # Result
    BY <1>6 DEF IterateResult, IterateSignal, Iterating
  <2>2. CASE u # t
    BY <1>1, <1>2, <2>1, <2>2 DEF JobsNext
  <2>3. CASE u = t
    <3>1. /\ from_worker[u] \in Seq(Items) /\ from_worker[u] # <<>>
          /\ from_worker'[u] = Tail(from_worker[u])
      BY <1>2, <2>1, <2>3
    <3>2. \A i \in 1..Len(from_worker'[u]) :
             from_worker'[u][i] = Result \/ SignalNext(from_worker'[u][i])
      BY <1>1, <3>1, QueueFacts
    <3>3. Head(from_worker[u]) = Result \/ SignalNext(Head(from_worker[u]))
      BY <1>1, <3>1, QueueFacts
    <3>4. IF pc'[u] \in InHand THEN SignalNext(hand'[u]) ELSE hand'[u] = NULL
      BY <1>1, <1>2, <2>1, <2>3, <3>3 DEF InHand
    <3> QED
      BY <3>2, <3>4 DEF JobsNext
  <2> QED
    BY <2>2, <2>3
<1>7. ASSUME NEW t \in Clients,
             IterateAgain(t) \/ TestCallback(t) \/ CallBack(t) \/ CallbackReturns(t)
      PROVE  JobsNext(u)
  <2>1. /\ UNCHANGED <<hand, from_worker>>
        /\ \/ pc' = pc
           \/ pc[t] = "again" /\ pc' = [pc EXCEPT ![t] = "idle"]
           \/ /\ pc[t] \in InHand
              /\ \E to \in InHand : pc' = [pc EXCEPT ![t] = to]
    BY <1>7 DEF IterateAgain, TestCallback, CallBack, CallbackReturns, InHand, tdVars
  <2>2. pc'[u] \in InHand <=> pc[u] \in InHand
    BY <1>2, <2>1 DEF InHand
  <2> QED
    BY <1>1, <2>1, <2>2 DEF JobsNext
<1>8. ASSUME NEW t \in Clients, Unref(t)
      PROVE  JobsNext(u)
  <2>1. /\ hand' = [hand EXCEPT ![t] = NULL] /\ pc' = [pc EXCEPT ![t] = "again"]
        /\ from_worker' = from_worker
    BY <1>8 DEF Unref, tdVars
  <2>2. CASE u = t
    BY <1>1, <1>2, <2>1, <2>2 DEF JobsNext, InHand
  <2>3. CASE u # t
    BY <1>1, <1>2, <2>1, <2>3 DEF JobsNext
  <2> QED
    BY <2>2, <2>3
<1>9. ASSUME NEW t \in Clients,
             \/ ConnectRefused(t) \/ Execute(t) \/ FetchResult(t)
             \/ \E s \in Specs : disconnect(t, s) \/ steal_signal(t, s)
             \/ \E s \in Specs, k \in Kinds : connect_raw(t, s, k)
      PROVE  UNCHANGED <<pc, hand, from_worker>>
  BY <1>9 DEF ConnectRefused, Execute, FetchResult, disconnect, steal_signal, connect_raw,
     iterateVars, tdVars
<1>10. ASSUME NEW t \in Threads, MarshalCheck(t) \/ \E s \in Specs : Emit(t, s)
       PROVE  UNCHANGED <<pc, hand, from_worker>>
  BY <1>10 DEF MarshalCheck, Emit, iterateVars, tdVars
<1>11. ASSUME WorkerStart \/ Dispose \/ UNCHANGED vars
       PROVE  UNCHANGED <<pc, hand, from_worker>>
  BY <1>11 DEF WorkerStart, Dispose, vars, iterateVars, tdVars
<1> QED
  BY <1>3, <1>4, <1>5, <1>6, <1>7, <1>8, <1>9, <1>10, <1>11 DEF Next, Client, Emitter

-----------------------------------------------------------------------------
(* EmitInv.                                                                *)
LEMMA EmitSteps ==
    ASSUME [Next]_vars
    PROVE  \/ \E t \in Threads :
                  MarshalCheck(t) \/ MarshalPush(t) \/ \E s \in Specs : Emit(t, s)
           \/ WorkerStart \/ WorkerReply
           \/ UNCHANGED <<emission, current>>
<1>1. ASSUME NEW t \in Clients, Client(t) PROVE UNCHANGED <<emission, current>>
  BY <1>1 DEF Client, disconnect, steal_signal, connect_raw, ConnectRefused, Execute,
     FetchResult, IterateResult, IterateSignal, IterateAgain, TestCallback, CallBack,
     CallbackReturns, Unref, emitVars, workerVars
<1>2. ASSUME Dispose \/ UNCHANGED vars PROVE UNCHANGED <<emission, current>>
  BY <1>2 DEF Dispose, vars, emitVars, workerVars
<1> QED
  BY <1>1, <1>2 DEF Next, Emitter

(* What is said of a thread that emits something, with the next kind.      *)
EmitsNext(e, t) == e # NoEmission =>
    /\ e.at \in {"invoked", "passed"} /\ e.spec \in Specs
    /\ kind'[e.spec] # NULL
    /\ kind'[e.spec] = "job" => t = Worker

(* No step breaks EmitInv.                                                 *)
LEMMA EmitStep == ASSUME IInv, [Next]_vars PROVE EmitInv'
<1>1. /\ emission \in [Threads -> [spec : Specs \cup {NULL},
                                   at : {"none", "invoked", "passed"}]]
      /\ Worker \in Threads
      /\ emission[Worker] # NoEmission => current # NULL
  BY DEF IInv, Shapes, EmitInv, Threads
<1>2. ASSUME NEW u \in Threads PROVE EmitsNext(emission[u], u)
  <2> SUFFICES ASSUME emission[u] # NoEmission PROVE EmitsNext(emission[u], u)
    BY DEF EmitsNext
  <2>1. /\ emission[u].at \in {"invoked", "passed"} /\ emission[u].spec \in Specs
        /\ Created(emission[u].spec)
        /\ kind[emission[u].spec] = "job" => u = Worker
    BY DEF IInv, EmitInv
  <2>2. kind'[emission[u].spec] = kind[emission[u].spec]
    BY <2>1, KindStays
  <2> QED
    BY <2>1, <2>2 DEF Created, EmitsNext
<1>3. SUFFICES /\ \A u \in Threads : EmitsNext(emission'[u], u)
               /\ emission'[Worker] # NoEmission => current' # NULL
  BY DEF EmitInv, EmitsNext, Created
<1>4. ASSUME NEW t \in Threads, NEW e, emission' = [emission EXCEPT ![t] = e],
             EmitsNext(e, t)
      PROVE  \A u \in Threads : EmitsNext(emission'[u], u)
  <2> SUFFICES ASSUME NEW u \in Threads PROVE EmitsNext(emission'[u], u)
    OBVIOUS
  <2>1. emission'[u] = IF u = t THEN e ELSE emission[u]
    BY <1>1, <1>4
  <2> QED
    BY <1>2, <1>4, <2>1
<1>5. ASSUME NEW t \in Threads, NEW s \in Specs, Emit(t, s)
      PROVE  /\ \A u \in Threads : EmitsNext(emission'[u], u)
             /\ emission'[Worker] # NoEmission => current' # NULL
  <2> DEFINE e == [spec |-> s, at |-> "invoked"]
  <2>1. /\ emission' = [emission EXCEPT ![t] = e] /\ kind' = kind /\ current' = current
        /\ s \in connected /\ IF t = Worker THEN current # NULL ELSE kind[s] = "any"
    BY <1>5 DEF Emit, specVars, workerVars
  <2>2. kind[s] # NULL
    BY <2>1 DEF IInv, ListInv, Created
  <2>3. e.spec = s /\ e.at = "invoked"
    OBVIOUS
  <2> HIDE DEF e
  <2>4. EmitsNext(e, t)
    BY <2>1, <2>2, <2>3 DEF EmitsNext
  <2>5. emission'[Worker] # NoEmission => current' # NULL
    BY <1>1, <2>1
  <2> QED
    BY <1>4, <2>1, <2>4, <2>5
<1>6. ASSUME NEW t \in Threads, MarshalCheck(t) \/ MarshalPush(t)
      PROVE  /\ \A u \in Threads : EmitsNext(emission'[u], u)
             /\ emission'[Worker] # NoEmission => current' # NULL
  <2> DEFINE e == [spec |-> emission[t].spec, at |-> "passed"]
  <2>1. /\ emission[t] # NoEmission /\ current' = current
        /\ \/ emission' = emission
           \/ emission' = [emission EXCEPT ![t] = e]
           \/ emission' = [emission EXCEPT ![t] = NoEmission]
    <3>1. emission[t].at # "none" /\ NoEmission.at = "none" /\ current' = current
      BY <1>6 DEF MarshalCheck, MarshalPush, NoEmission, workerVars
    <3>2. \/ emission' = emission
          \/ emission' = [emission EXCEPT ![t] = e]
          \/ emission' = [emission EXCEPT ![t] = NoEmission]
      <4> HIDE DEF e
      <4>1. MarshalCheck(t) => \/ emission' = emission
                               \/ emission' = [emission EXCEPT ![t] = e]
                               \/ emission' = [emission EXCEPT ![t] = NoEmission]
        BY DEF MarshalCheck, e
      <4>2. MarshalPush(t) => \/ emission' = emission
                              \/ emission' = [emission EXCEPT ![t] = NoEmission]
        BY DEF MarshalPush
      <4> QED
        BY <1>6, <4>1, <4>2
    <3> QED
      BY <3>1, <3>2
  <2>2. e.spec = emission[t].spec /\ e.at = "passed"
    OBVIOUS
  <2> HIDE DEF e
  <2>3. EmitsNext(e, t) /\ EmitsNext(NoEmission, t)
    BY <1>2, <2>1, <2>2 DEF EmitsNext
  <2>4. \A u \in Threads : EmitsNext(emission'[u], u)
    BY <1>2, <1>4, <2>1, <2>3
  <2>5. emission'[Worker] # NoEmission => emission[Worker] # NoEmission
    BY <1>1, <2>1
  <2> QED
    BY <1>1, <2>1, <2>4, <2>5
<1>7. CASE WorkerStart
  <2>1. /\ to_worker # <<>> /\ current' = Head(to_worker) /\ emission' = emission
        /\ to_worker \in Seq(Clients)
    BY <1>7 DEF WorkerStart, emitVars, IInv, Shapes
  <2>2. current' # NULL
    BY <2>1, NullAssumption DEF Threads
  <2> QED
    BY <1>2, <2>1, <2>2
<1>8. CASE WorkerReply
  <2>1. emission' = emission /\ emission[Worker] = NoEmission
    BY <1>8 DEF WorkerReply, emitVars
  <2> QED
    BY <1>2, <2>1
<1>9. CASE UNCHANGED <<emission, current>>
  BY <1>1, <1>2, <1>9
<1> QED
  BY <1>5, <1>6, <1>7, <1>8, <1>9, EmitSteps

-----------------------------------------------------------------------------
(* OwnInv: a thread is never given the permission it did not have.         *)
LEMMA ForeignStays == ASSUME [Next]_vars PROVE foreign' = foreign
<1>1. ASSUME NEW t \in Clients, Client(t) PROVE foreign' = foreign
  BY <1>1 DEF Client, disconnect, steal_signal, connect_raw, ConnectRefused, Execute,
     FetchResult, IterateResult, IterateSignal, IterateAgain, TestCallback, CallBack,
     CallbackReturns, Unref, status
<1>2. ASSUME NEW t \in Threads, Emitter(t) PROVE foreign' = foreign
  BY <1>2 DEF Emitter, Emit, MarshalCheck, MarshalPush, status
<1>3. ASSUME WorkerStart \/ WorkerReply \/ Dispose \/ UNCHANGED vars
      PROVE  foreign' = foreign
  BY <1>3 DEF WorkerStart, WorkerReply, Dispose, vars, status
<1> QED
  BY <1>1, <1>2, <1>3 DEF Next

(* A signal that exists is not listed anew, unless it is stolen.           *)
LEMMA ListsShrink ==
    ASSUME IInv, [Next]_vars, ~foreign, NEW s \in Specs, Created(s), NEW u \in Clients
    PROVE  s \in signals_list'[u] => s \in signals_list[u]
<1>1. signals_list \in [Clients -> SUBSET Specs] /\ kind \in [Specs -> Kinds \cup {NULL}]
  BY DEF IInv, Shapes
<1>2. ASSUME NEW t \in Clients, NEW r \in Specs, NEW k \in Kinds, connect_raw(t, r, k)
      PROVE  s \in signals_list'[u] => s \in signals_list[u]
  <2>1. s # r /\ signals_list' = [signals_list EXCEPT ![t] = @ \cup {r}]
    BY <1>2 DEF connect_raw, Created
  <2> QED
    BY <1>1, <2>1
<1>3. ASSUME NEW t \in Clients, NEW r \in Specs, disconnect(t, r)
      PROVE  s \in signals_list'[u] => s \in signals_list[u]
  <2>1. \E v \in Clients : signals_list' = [signals_list EXCEPT ![v] = @ \ {r}]
    BY <1>3 DEF disconnect, DisconnectFrom
  <2> QED
    BY <1>1, <2>1
<1>4. ASSUME NEW t \in Clients, NEW r \in Specs, steal_signal(t, r)
      PROVE  FALSE
  BY <1>4 DEF steal_signal
<1>5. CASE Dispose
  BY <1>5 DEF Dispose
<1>6. CASE \E t \in Clients : ConnectRefused(t) \/ Execute(t) \/ FetchResult(t)
  BY <1>6 DEF ConnectRefused, Execute, FetchResult
<1>7. CASE ListSame
  BY <1>7 DEF ListSame
<1> QED
  BY <1>2, <1>3, <1>4, <1>5, <1>6, <1>7, ListSteps

(* With the lists and the kinds of the next state.                         *)
ConcernsNext(job, t) == \A u \in Clients : job.spec \in signals_list'[u] => u = t
AskedNext(job, t) ==
    job # Result => ConcernsNext(job, t) /\ (kind'[job.spec] = "job" => job.during = t)

(* A job that stays where it is remains one its thread asked for.          *)
LEMMA OwnStays ==
    ASSUME IInv, [Next]_vars, ~foreign, NEW t \in Clients
    PROVE  /\ pc[t] \in InHand => ConcernsNext(hand[t], t)
           /\ \A i \in 1..Len(from_worker[t]) : AskedNext(from_worker[t][i], t)
<1>1. ASSUME NEW job, IsSignal(job), Concerns(job, t) PROVE ConcernsNext(job, t)
  <2>1. job.spec \in Specs /\ Created(job.spec)
    BY <1>1, SignalFacts
  <2> QED
    BY <1>1, <2>1, ListsShrink DEF Concerns, ConcernsNext
<1>2. ASSUME NEW job, IsSignal(job) \/ job = Result, Asked(job, t) PROVE AskedNext(job, t)
  <2> SUFFICES ASSUME job # Result PROVE AskedNext(job, t)
    BY DEF AskedNext
  <2>1. job.spec \in Specs /\ Created(job.spec) /\ IsSignal(job)
    BY <1>2, SignalFacts
  <2>2. kind'[job.spec] = kind[job.spec]
    BY <2>1, KindStays
  <2>3. Concerns(job, t) /\ (kind[job.spec] = "job" => job.during = t)
    BY <1>2 DEF Asked
  <2> QED
    BY <1>1, <2>1, <2>2, <2>3 DEF AskedNext
<1>3. /\ pc[t] \in InHand => IsSignal(hand[t]) /\ Concerns(hand[t], t)
      /\ \A i \in 1..Len(from_worker[t]) :
            /\ IsSignal(from_worker[t][i]) \/ from_worker[t][i] = Result
            /\ Asked(from_worker[t][i], t)
  BY DEF IInv, JobsInv, OwnInv
<1> QED
  BY <1>1, <1>2, <1>3

(* Nobody else clears the callback that a thread is about to call.         *)
LEMMA CallbackStays ==
    ASSUME IInv, [Next]_vars, ~foreign, NEW t \in Clients, pc[t] = "calling"
    PROVE  hand[t].spec \in callback'
<1>1. hand[t].spec \in callback /\ Concerns(hand[t], t)
  BY DEF IInv, OwnInv, InHand
<1>2. ASSUME NEW v \in Clients, NEW s \in Specs, disconnect(v, s)
      PROVE  hand[t].spec \in callback'
  <2>1. /\ \E u \in Clients : s \in signals_list[u] /\ u = v
        /\ pc[v] # "calling" /\ callback' = callback \ {s}
    BY <1>2 DEF disconnect, CanCall, DisconnectFrom, Lists
  <2>2. hand[t].spec # s
    BY <1>1, <2>1 DEF Concerns
  <2> QED
    BY <1>1, <2>1, <2>2
<1>3. ASSUME NEW v \in Clients, NEW s \in Specs, NEW k \in Kinds, connect_raw(v, s, k)
      PROVE  hand[t].spec \in callback'
  BY <1>1, <1>3 DEF connect_raw
<1>4. ASSUME Dispose PROVE FALSE
  BY <1>4 DEF Dispose
<1>5. ASSUME callback' = callback PROVE hand[t].spec \in callback'
  BY <1>1, <1>5
<1>6. ASSUME NEW v \in Clients,
             \/ \E s \in Specs : steal_signal(v, s)
             \/ ConnectRefused(v) \/ Execute(v) \/ FetchResult(v)
             \/ IterateResult(v) \/ IterateSignal(v) \/ IterateAgain(v)
             \/ TestCallback(v) \/ CallBack(v) \/ CallbackReturns(v) \/ Unref(v)
      PROVE  callback' = callback
  BY <1>6 DEF steal_signal, ConnectRefused, Execute, FetchResult, IterateResult,
     IterateSignal, IterateAgain, TestCallback, CallBack, CallbackReturns, Unref, specVars
<1>7. ASSUME NEW v \in Threads, Emitter(v) PROVE callback' = callback
  BY <1>7 DEF Emitter, Emit, MarshalCheck, MarshalPush, specVars
<1>8. ASSUME WorkerStart \/ WorkerReply \/ UNCHANGED vars PROVE callback' = callback
  BY <1>8 DEF WorkerStart, WorkerReply, vars, specVars
<1> QED
  BY <1>2, <1>3, <1>4, <1>5, <1>6, <1>7, <1>8 DEF Next, Client

(* No callback of a disconnected signal is called.                         *)
LEMMA NothingLate ==
    ASSUME IInv, [Next]_vars, ~foreign
    PROVE  late' = {} /\ broken' # "null_callback"
<1>1. /\ late = {} /\ broken # "null_callback"
      /\ \A t \in Clients : pc[t] = "calling" => hand[t].spec \in callback
  BY DEF IInv, OwnInv
<1>2. ASSUME NEW t \in Clients, CallBack(t) PROVE late' = {} /\ broken' # "null_callback"
  BY <1>1, <1>2 DEF CallBack
<1>3. ASSUME NEW t \in Clients, IterateAgain(t)
      PROVE  late' = {} /\ broken' # "null_callback"
  BY <1>1, <1>3 DEF IterateAgain
<1>4. ASSUME NEW t \in Threads, Emitter(t) PROVE late' = {} /\ broken' # "null_callback"
  BY <1>1, <1>4 DEF Emitter, Emit, MarshalCheck, MarshalPush, iterateVars, status
<1>5. ASSUME NEW t \in Clients, Client(t), ~CallBack(t), ~IterateAgain(t)
      PROVE  UNCHANGED <<late, broken>>
  BY <1>5 DEF Client, disconnect, steal_signal, connect_raw, ConnectRefused, Execute,
     FetchResult, IterateResult, IterateSignal, TestCallback, CallbackReturns, Unref,
     iterateVars, status
<1>6. ASSUME WorkerStart \/ WorkerReply \/ Dispose \/ UNCHANGED vars
      PROVE  UNCHANGED <<late, broken>>
  BY <1>6 DEF WorkerStart, WorkerReply, Dispose, vars, iterateVars, status
<1> QED
  BY <1>1, <1>2, <1>3, <1>4, <1>5, <1>6 DEF Next

(* The job that stands for a signal, in the queue of the thread that has   *)
(* the signal connected.                                                   *)
LEMMA PushIsAsked ==
    ASSUME IInv, [Next]_vars, ~foreign, NEW t \in Threads, MarshalPush(t),
           ~Freed(emission[t].spec), NEW u \in Clients, u = reply_queue[emission[t].spec]
    PROVE  LET item == Signal(emission[t].spec, IF t = Worker THEN current ELSE NULL) IN
           item \in Items /\ AskedNext(item, u)
<1> DEFINE s == emission[t].spec
           job == IF t = Worker THEN current ELSE NULL
           item == Signal(s, job)
<1>1. emission[t] # NoEmission /\ emission[t].at = "passed"
  BY DEF MarshalPush, NoEmission
<1>2. /\ s \in Specs /\ Created(s) /\ job \in Clients \cup {NULL}
      /\ kind[s] = "job" => t = Worker
      /\ kind[s] = "job" => reply_queue[s] \in {current, NULL}
  BY <1>1 DEF IInv, EmitInv, OwnInv, Shapes
<1>3. u = reply_queue[s] /\ (t = Worker => job = current)
  OBVIOUS
<1>4. \A v \in Clients : s \in signals_list'[v] => s \in signals_list[v]
  BY <1>2, ListsShrink
<1>5. \A v \in Clients : s \in signals_list[v] => reply_queue[s] = v
  BY <1>2 DEF IInv, ListInv
<1>6. kind'[s] = kind[s]
  BY <1>2, KindStays
<1> HIDE DEF s, job
<1>7. item \in Items /\ item.spec = s /\ item.during = job
  BY <1>2, ItemFacts
<1>8. u # NULL
  BY NullAssumption DEF Threads
<1> HIDE DEF item
<1>9. item \in Items /\ AskedNext(item, u)
  BY <1>2, <1>3, <1>4, <1>5, <1>6, <1>7, <1>8 DEF AskedNext, ConcernsNext
<1> QED
  BY <1>9 DEF item, s, job

OwnNext(t) ==
    /\ pc'[t] \in InHand => ConcernsNext(hand'[t], t)
    /\ pc'[t] = "calling" => hand'[t].spec \in callback'
    /\ \A i \in 1..Len(from_worker'[t]) : AskedNext(from_worker'[t][i], t)

(* OwnInv, for what a thread has in its queue and in its hands.            *)
LEMMA OwnThread ==
    ASSUME IInv, [Next]_vars, ~foreign, NEW u \in Clients
    PROVE  OwnNext(u)
<1>1. /\ pc[u] \in InHand => ConcernsNext(hand[u], u)
      /\ pc[u] = "calling" => hand[u].spec \in callback'
      /\ \A i \in 1..Len(from_worker[u]) : AskedNext(from_worker[u][i], u)
  BY OwnStays, CallbackStays
<1>2. /\ pc \in [Clients -> {"idle", "popped", "calling", "callback", "handled", "again"}]
      /\ hand \in [Clients -> Items \cup {NULL}] /\ from_worker \in [Clients -> Seq(Items)]
      /\ current \in Clients \cup {NULL}
  BY DEF IInv, Shapes
<1>3. CASE UNCHANGED <<pc, hand, from_worker>>
  BY <1>1, <1>3 DEF OwnNext
<1>4. CASE WorkerReply
  <2>1. /\ current \in Clients /\ UNCHANGED <<pc, hand>>
        /\ from_worker' = [from_worker EXCEPT ![current] = Append(@, Result)]
    BY <1>2, <1>4 DEF WorkerReply, iterateVars
  <2>2. /\ from_worker[u] \in Seq(Items)
        /\ from_worker'[u] = IF u = current THEN Append(from_worker[u], Result)
                             ELSE from_worker[u]
    BY <1>2, <2>1
  <2>3. AskedNext(Result, u)
    BY DEF AskedNext
  <2>4. CASE u = current
    BY <1>1, <2>1, <2>2, <2>3, <2>4, ItemFacts, QueueFacts DEF OwnNext
  <2>5. CASE u # current
    BY <1>1, <2>1, <2>2, <2>5 DEF OwnNext
  <2> QED
    BY <2>4, <2>5
<1>5. ASSUME NEW t \in Threads, MarshalPush(t)
      PROVE  OwnNext(u)
  <2> DEFINE s == emission[t].spec
             job == IF t = Worker THEN current ELSE NULL
             item == Signal(s, job)
  <2>1. CASE Freed(s)
    BY <1>3, <1>5, <2>1 DEF MarshalPush, iterateVars
  <2>2. CASE ~Freed(s)
    <3>1. Pushed(reply_queue[s], item) /\ UNCHANGED <<pc, hand>>
      BY <1>5, <2>2 DEF MarshalPush, Pushed, iterateVars
    <3>2. item \in Items
      <4>1. emission[t] # NoEmission
        BY <1>5 DEF MarshalPush, NoEmission
      <4>2. s \in Specs /\ job \in Clients \cup {NULL}
        BY <1>2, <4>1 DEF IInv, EmitInv
      <4> HIDE DEF s, job
      <4> QED
        BY <4>2, ItemFacts
    <3>3. u = reply_queue[s] => AskedNext(item, u)
      BY <1>5, <2>2, PushIsAsked
    <3> HIDE DEF s, item
    <3>4. /\ from_worker[u] \in Seq(Items)
          /\ from_worker'[u] = IF u = reply_queue[s] THEN Append(from_worker[u], item)
                               ELSE from_worker[u]
      BY <1>2, <3>1, <3>2, PushFacts
    <3>5. CASE u = reply_queue[s]
      BY <1>1, <3>1, <3>2, <3>3, <3>4, <3>5, QueueFacts DEF OwnNext
    <3>6. CASE u # reply_queue[s]
      BY <1>1, <3>1, <3>4, <3>6 DEF OwnNext
    <3> QED
      BY <3>5, <3>6
  <2> QED
    BY <2>1, <2>2
<1>6. ASSUME NEW t \in Clients, IterateResult(t) \/ IterateSignal(t)
      PROVE  OwnNext(u)
  <2>1. /\ from_worker[t] # <<>> /\ pc[t] \in {"again", "idle"}
        /\ from_worker' = [from_worker EXCEPT ![t] = Tail(@)]
        /\ \/ /\ pc' = [pc EXCEPT ![t] = "idle"] /\ hand' = hand
           \/ /\ pc' = [pc EXCEPT ![t] = "popped"]
              /\ hand' = [hand EXCEPT ![t] = Head(from_worker[t])]
              /\ Head(from_worker[t]) # Result
    BY <1>6 DEF IterateResult, IterateSignal, Iterating
  <2>2. CASE u # t
    BY <1>1, <1>2, <2>1, <2>2 DEF OwnNext
  <2>3. CASE u = t
    <3>1. /\ from_worker[u] \in Seq(Items) /\ from_worker[u] # <<>>
          /\ from_worker'[u] = Tail(from_worker[u])
      BY <1>2, <2>1, <2>3
    <3>2. \A i \in 1..Len(from_worker'[u]) : AskedNext(from_worker'[u][i], u)
      BY <1>1, <3>1, QueueFacts
    <3>3. AskedNext(Head(from_worker[u]), u)
      BY <1>1, <3>1, QueueFacts
    <3>4. pc'[u] \in InHand => ConcernsNext(hand'[u], u)
      BY <1>2, <2>1, <2>3, <3>3 DEF InHand, AskedNext
    <3>5. pc'[u] # "calling"
      BY <1>2, <2>1, <2>3
    <3> QED
      BY <3>2, <3>4, <3>5 DEF OwnNext
  <2> QED
    BY <2>2, <2>3
<1>7. ASSUME NEW t \in Clients,
             IterateAgain(t) \/ TestCallback(t) \/ CallBack(t) \/ CallbackReturns(t)
      PROVE  OwnNext(u)
  <2>1. /\ UNCHANGED <<hand, from_worker>>
        /\ \/ pc' = pc
           \/ pc[t] = "again" /\ pc' = [pc EXCEPT ![t] = "idle"]
           \/ /\ pc[t] \in InHand
              /\ \E to \in InHand : /\ pc' = [pc EXCEPT ![t] = to]
                                    /\ to = "calling" => hand[t].spec \in callback'
    BY <1>7 DEF IterateAgain, TestCallback, CallBack, CallbackReturns, InHand, tdVars, specVars
  <2>2. /\ pc'[u] \in InHand => pc[u] \in InHand
        /\ pc'[u] = "calling" => pc[u] = "calling" \/ hand[u].spec \in callback'
    BY <1>2, <2>1 DEF InHand
  <2> QED
    BY <1>1, <2>1, <2>2 DEF OwnNext
<1>8. ASSUME NEW t \in Clients, Unref(t)
      PROVE  OwnNext(u)
  <2>1. /\ hand' = [hand EXCEPT ![t] = NULL] /\ pc' = [pc EXCEPT ![t] = "again"]
        /\ from_worker' = from_worker
    BY <1>8 DEF Unref, tdVars
  <2>2. CASE u = t
    BY <1>1, <1>2, <2>1, <2>2 DEF OwnNext, InHand
  <2>3. CASE u # t
    BY <1>1, <1>2, <2>1, <2>3 DEF OwnNext
  <2> QED
    BY <2>2, <2>3
<1>9. ASSUME NEW t \in Clients,
             \/ ConnectRefused(t) \/ Execute(t) \/ FetchResult(t)
             \/ \E s \in Specs : disconnect(t, s) \/ steal_signal(t, s)
             \/ \E s \in Specs, k \in Kinds : connect_raw(t, s, k)
      PROVE  UNCHANGED <<pc, hand, from_worker>>
  BY <1>9 DEF ConnectRefused, Execute, FetchResult, disconnect, steal_signal, connect_raw,
     iterateVars, tdVars
<1>10. ASSUME NEW t \in Threads, MarshalCheck(t) \/ \E s \in Specs : Emit(t, s)
       PROVE  UNCHANGED <<pc, hand, from_worker>>
  BY <1>10 DEF MarshalCheck, Emit, iterateVars, tdVars
<1>11. ASSUME WorkerStart \/ Dispose \/ UNCHANGED vars
       PROVE  UNCHANGED <<pc, hand, from_worker>>
  BY <1>11 DEF WorkerStart, Dispose, vars, iterateVars, tdVars
<1> QED
  BY <1>3, <1>4, <1>5, <1>6, <1>7, <1>8, <1>9, <1>10, <1>11 DEF Next, Client, Emitter

(* A marshaller that passed its test for a private job: the spec's thread  *)
(* is the one whose job the worker executes, or nobody's.                  *)
PassedNext(t) ==
    emission'[t].at = "passed" =>
        (kind'[emission'[t].spec] = "job" =>
            reply_queue'[emission'[t].spec] \in {current', NULL})

(* OwnInv, for what a thread emits.                                        *)
LEMMA PassedThread ==
    ASSUME IInv, [Next]_vars, ~foreign, NEW u \in Threads
    PROVE  PassedNext(u)
<1> DEFINE e == emission[u]
<1>1. /\ emission \in [Threads -> [spec : Specs \cup {NULL},
                                   at : {"none", "invoked", "passed"}]]
      /\ kind \in [Specs -> Kinds \cup {NULL}]
      /\ reply_queue \in [Specs -> Clients \cup {NULL}]
  BY DEF IInv, Shapes
<1>2. ASSUME e.at = "passed"
      PROVE  /\ e.spec \in Specs /\ Created(e.spec) /\ kind'[e.spec] = kind[e.spec]
             /\ kind[e.spec] = "job" =>
                   u = Worker /\ current # NULL /\ reply_queue[e.spec] \in {current, NULL}
  <2>1. e # NoEmission
    BY <1>2 DEF NoEmission
  <2>2. e.spec \in Specs /\ Created(e.spec)
    BY <2>1 DEF IInv, EmitInv
  <2>3. kind'[e.spec] = kind[e.spec]
    BY <2>2, KindStays
  <2>4. kind[e.spec] = "job" => u = Worker /\ reply_queue[e.spec] \in {current, NULL}
    BY <1>2, <2>1 DEF IInv, EmitInv, OwnInv
  <2>5. u = Worker => current # NULL
    BY <2>1 DEF IInv, EmitInv
  <2> QED
    BY <2>2, <2>3, <2>4, <2>5
<1>3. ASSUME emission'[u] = e, current' = current,
             \A s \in Specs : Created(s) => reply_queue'[s] \in {reply_queue[s], NULL}
      PROVE  PassedNext(u)
  BY <1>2, <1>3 DEF PassedNext
<1>4. ASSUME NEW t \in Clients, NEW s \in Specs, disconnect(t, s)
      PROVE  PassedNext(u)
  <2>1. /\ emission' = emission /\ current' = current
        /\ reply_queue' = [reply_queue EXCEPT ![s] = NULL]
    BY <1>4 DEF disconnect, emitVars, workerVars
  <2>2. \A r \in Specs : reply_queue'[r] \in {reply_queue[r], NULL}
    BY <1>1, <2>1
  <2> QED
    BY <1>3, <2>1, <2>2
<1>5. ASSUME NEW t \in Clients, NEW s \in Specs, NEW k \in Kinds, connect_raw(t, s, k)
      PROVE  PassedNext(u)
  <2>1. /\ emission' = emission /\ current' = current /\ ~Created(s)
        /\ reply_queue' = [reply_queue EXCEPT ![s] = t]
    BY <1>5 DEF connect_raw, emitVars, workerVars
  <2>2. \A r \in Specs : Created(r) => reply_queue'[r] \in {reply_queue[r], NULL}
    BY <1>1, <2>1
  <2> QED
    BY <1>3, <2>1, <2>2
<1>6. ASSUME Dispose PROVE PassedNext(u)
  <2>1. /\ emission' = emission /\ current' = current
        /\ reply_queue' = [s \in Specs |-> NULL]
    BY <1>6 DEF Dispose, emitVars
  <2> QED
    BY <1>3, <2>1
<1>7. ASSUME UNCHANGED <<emission, current, reply_queue>> PROVE PassedNext(u)
  BY <1>3, <1>7
<1>8. ASSUME NEW t \in Clients,
             \/ ConnectRefused(t) \/ Execute(t) \/ FetchResult(t)
             \/ IterateResult(t) \/ IterateSignal(t) \/ IterateAgain(t)
             \/ TestCallback(t) \/ CallBack(t) \/ CallbackReturns(t) \/ Unref(t)
      PROVE  UNCHANGED <<emission, current, reply_queue>>
  BY <1>8 DEF ConnectRefused, Execute, FetchResult, IterateResult, IterateSignal,
     IterateAgain, TestCallback, CallBack, CallbackReturns, Unref, emitVars, workerVars,
     specVars
<1>9. ASSUME NEW t \in Clients, NEW s \in Specs, steal_signal(t, s)
      PROVE  FALSE
  BY <1>9 DEF steal_signal
<1>10. ASSUME NEW t \in Threads, NEW s \in Specs, Emit(t, s)
       PROVE  PassedNext(u)
  <2>1. /\ emission' = [emission EXCEPT ![t] = [spec |-> s, at |-> "invoked"]]
        /\ current' = current /\ reply_queue' = reply_queue
    BY <1>10 DEF Emit, workerVars, specVars
  <2>2. emission'[u] = e \/ emission'[u].at # "passed"
    BY <1>1, <2>1
  <2> QED
    BY <1>3, <2>1, <2>2 DEF PassedNext
<1>11. ASSUME NEW t \in Threads, MarshalCheck(t)
       PROVE  PassedNext(u)
  <2> DEFINE s == emission[t].spec
             f == [spec |-> s, at |-> "passed"]
  <2>1. /\ \/ emission' = emission
           \/ emission' = [emission EXCEPT ![t] = f] /\ WantedNow(s)
           \/ emission' = [emission EXCEPT ![t] = NoEmission]
        /\ current' = current /\ reply_queue' = reply_queue /\ kind' = kind
    BY <1>11 DEF MarshalCheck, workerVars, specVars
  <2>2. f.spec = s /\ NoEmission.at # "passed"
    BY DEF NoEmission
  <2> HIDE DEF s, f
  <2>3. \/ emission'[u] = e
        \/ emission'[u] = f /\ WantedNow(s)
        \/ emission'[u] = NoEmission
    BY <1>1, <2>1
  <2>4. CASE emission'[u] = f /\ WantedNow(s)
    BY <2>1, <2>2, <2>4 DEF PassedNext, WantedNow
  <2> QED
    BY <1>3, <2>1, <2>2, <2>3, <2>4 DEF PassedNext
<1>12. ASSUME NEW t \in Threads, MarshalPush(t)
       PROVE  PassedNext(u)
  <2>1. /\ \/ emission' = emission
           \/ emission' = [emission EXCEPT ![t] = NoEmission]
        /\ current' = current /\ reply_queue' = reply_queue
    BY <1>12 DEF MarshalPush, workerVars
  <2>2. emission'[u] = e \/ emission'[u].at # "passed"
    BY <1>1, <2>1 DEF NoEmission
  <2> QED
    BY <1>3, <2>1, <2>2 DEF PassedNext
<1>13. ASSUME WorkerStart \/ WorkerReply
       PROVE  PassedNext(u)
  <2>1. /\ emission' = emission
        /\ current = NULL \/ emission[Worker] = NoEmission
    BY <1>13 DEF WorkerStart, WorkerReply, emitVars
  <2>2. emission[Worker].at = "passed" => current # NULL /\ emission[Worker] # NoEmission
    BY DEF IInv, EmitInv, NoEmission
  <2> QED
    BY <1>2, <2>1, <2>2 DEF PassedNext
<1>14. ASSUME UNCHANGED vars PROVE UNCHANGED <<emission, current, reply_queue>>
  BY <1>14 DEF vars, emitVars, workerVars, specVars
<1> QED
  BY <1>4, <1>5, <1>6, <1>7, <1>8, <1>9, <1>10, <1>11, <1>12, <1>13, <1>14
     DEF Next, Client, Emitter

(* No step breaks OwnInv.                                                  *)
LEMMA OwnStep == ASSUME IInv, [Next]_vars PROVE OwnInv'
<1>1. foreign' = foreign
  BY ForeignStays
<1>2. ASSUME ~foreign
      PROVE  /\ late' = {} /\ broken' # "null_callback"
             /\ \A t \in Clients : OwnNext(t)
             /\ \A t \in Threads : PassedNext(t)
  BY <1>2, NothingLate, OwnThread, PassedThread
<1> QED
  BY <1>1, <1>2 DEF OwnInv, OwnNext, PassedNext, Concerns, Asked, ConcernsNext, AskedNext

-----------------------------------------------------------------------------
(* Counting.                                                               *)
(* Elements that are one to one are as many.                               *)
LEMMA SameCount ==
    ASSUME NEW X, IsFiniteSet(X), NEW T, NEW f \in [X -> T],
           \A a, b \in X : f[a] = f[b] => a = b, \A t \in T : \E x \in X : f[x] = t
    PROVE  IsFiniteSet(T) /\ Cardinality(T) = Cardinality(X)
<1>1. f \in Bijection(X, T)
  BY Fun_IsBij
<1>2. ExistsBijection(X, T)
  BY <1>1 DEF ExistsBijection
<1> QED
  BY <1>2, FS_Bijection

(* One of them taken away.                                                 *)
LEMMA RemovedCount ==
    ASSUME NEW S, IsFiniteSet(S), NEW x, NEW T, T = S \ {x}
    PROVE  IsFiniteSet(T) /\ Cardinality(T) = Cardinality(S) - One(x \in S)
<1>1. Cardinality(S) \in Nat
  BY FS_CardinalityType
<1> QED
  BY <1>1, FS_RemoveElement DEF One

(* One of them added, or not.                                              *)
LEMMA AddedCount ==
    ASSUME NEW S, IsFiniteSet(S), NEW x, x \notin S, NEW b \in BOOLEAN,
           NEW T, T = IF b THEN S \cup {x} ELSE S
    PROVE  IsFiniteSet(T) /\ Cardinality(T) = Cardinality(S) + One(b)
<1>1. Cardinality(S) \in Nat
  BY FS_CardinalityType
<1>2. CASE b
  BY <1>1, <1>2, FS_AddElement DEF One
<1>3. CASE ~b
  BY <1>1, <1>3 DEF One
<1> QED
  BY <1>2, <1>3

(* How often something is in a queue, and what a step on the queue does.   *)
LEMMA CountNat ==
    ASSUME NEW S, NEW q \in Seq(S), NEW x
    PROVE  Count(q, x) \in Nat /\ IsFiniteSet({i \in 1..Len(q) : q[i] = x})
<1>1. IsFiniteSet(1..Len(q))
  BY FS_Interval
<1>2. {i \in 1..Len(q) : q[i] = x} \in SUBSET (1..Len(q))
  OBVIOUS
<1>3. IsFiniteSet({i \in 1..Len(q) : q[i] = x})
  BY <1>1, <1>2, FS_Subset
<1> QED
  BY <1>3, FS_CardinalityType DEF Count

(* One more at the end.                                                    *)
LEMMA CountAppend ==
    ASSUME NEW S, NEW q \in Seq(S), NEW e \in S, NEW x
    PROVE  Count(Append(q, e), x) = Count(q, x) + One(e = x)
<1> DEFINE A == {i \in 1..Len(q) : q[i] = x}
           B == {i \in 1..Len(Append(q, e)) : Append(q, e)[i] = x}
<1>1. IsFiniteSet(A) /\ Cardinality(A) \in Nat
  BY CountNat DEF Count
<1>2. /\ Len(Append(q, e)) = Len(q) + 1 /\ Len(q) \in Nat
      /\ \A i \in 1..Len(q) : Append(q, e)[i] = q[i]
      /\ Append(q, e)[Len(q) + 1] = e
  OBVIOUS
<1>3. CASE e = x
  <2>1. B = A \cup {Len(q) + 1} /\ Len(q) + 1 \notin A
    BY <1>2, <1>3
  <2> HIDE DEF A, B
  <2>2. Cardinality(B) = Cardinality(A) + 1
    BY <1>1, <2>1, FS_AddElement
  <2> QED
    BY <1>3, <2>2 DEF Count, One, A, B
<1>4. CASE e # x
  <2>1. B = A
    BY <1>2, <1>4
  <2>2. One(e = x) = 0 /\ Cardinality(B) = Cardinality(A)
    BY <1>4, <2>1 DEF One
  <2> HIDE DEF A, B
  <2>3. Cardinality(B) = Cardinality(A) + One(e = x)
    BY <1>1, <2>2
  <2> QED
    BY <2>3 DEF Count, A, B
<1> QED
  BY <1>3, <1>4

(* One less at the head.                                                   *)
LEMMA CountTail ==
    ASSUME NEW S, NEW q \in Seq(S), q # <<>>, NEW x
    PROVE  Count(q, x) = Count(Tail(q), x) + One(Head(q) = x)
<1> DEFINE A == {i \in 1..Len(q) : q[i] = x}
           B == {i \in 1..Len(Tail(q)) : Tail(q)[i] = x}
           f == [i \in B |-> i + 1]
<1>1. Tail(q) \in Seq(S) /\ IsFiniteSet(B) /\ IsFiniteSet(A) /\ Cardinality(A) \in Nat
  <2>1. Tail(q) \in Seq(S)
    OBVIOUS
  <2> QED
    BY <2>1, CountNat DEF Count
<1>2. /\ Len(Tail(q)) = Len(q) - 1 /\ Len(q) \in Nat /\ Len(q) > 0 /\ Head(q) = q[1]
      /\ \A i \in 1..(Len(q) - 1) : Tail(q)[i] = q[i + 1]
  OBVIOUS
<1>3. /\ f \in [B -> A \ {1}] /\ \A a, b \in B : f[a] = f[b] => a = b
      /\ \A t \in A \ {1} : \E i \in B : f[i] = t
  <2>1. \A i \in B : i \in Nat /\ i + 1 \in A \ {1}
    BY <1>2
  <2>2. \A t \in A \ {1} : t - 1 \in B /\ (t - 1) + 1 = t
    BY <1>2
  <2> HIDE DEF A, B
  <2>3. \A t \in A \ {1} : \E i \in B : f[i] = t
    BY <2>2
  <2> QED
    BY <2>1, <2>3
<1>4. 1 \in A <=> Head(q) = x
  BY <1>2
<1> HIDE DEF A, B, f
<1>5. Cardinality(A \ {1}) = Cardinality(B)
  BY <1>1, <1>3, SameCount
<1>6. Cardinality(A \ {1}) = Cardinality(A) - One(1 \in A)
  BY <1>1, RemovedCount
<1>7. Cardinality(A) = Cardinality(B) + One(Head(q) = x)
  BY <1>1, <1>4, <1>5, <1>6 DEF One
<1> QED
  BY <1>7 DEF Count, A, B

-----------------------------------------------------------------------------
(* JobsCounted.                                                            *)
LEMMA JobsCountSteps ==
    ASSUME [Next]_vars
    PROVE  \/ \E t \in Clients :
                  Execute(t) \/ FetchResult(t) \/ IterateResult(t) \/ IterateSignal(t)
           \/ \E t \in Threads : MarshalPush(t)
           \/ WorkerStart \/ WorkerReply \/ Dispose
           \/ UNCHANGED <<jobs, results, submitted, from_worker, to_worker, current, disposed>>
<1> USE DEF tdVars, workerVars, status
<1>1. ASSUME NEW t \in Clients,
             \/ \E s \in Specs : disconnect(t, s) \/ steal_signal(t, s)
             \/ \E s \in Specs, k \in Kinds : connect_raw(t, s, k)
             \/ ConnectRefused(t) \/ IterateAgain(t)
             \/ TestCallback(t) \/ CallBack(t) \/ CallbackReturns(t) \/ Unref(t)
      PROVE  UNCHANGED <<jobs, results, submitted, from_worker, to_worker, current, disposed>>
  BY <1>1 DEF disconnect, steal_signal, connect_raw, ConnectRefused, IterateAgain,
     TestCallback, CallBack, CallbackReturns, Unref
<1>2. ASSUME NEW t \in Threads, MarshalCheck(t) \/ \E s \in Specs : Emit(t, s)
      PROVE  UNCHANGED <<jobs, results, submitted, from_worker, to_worker, current, disposed>>
  BY <1>2 DEF MarshalCheck, Emit
<1>3. ASSUME UNCHANGED vars
      PROVE  UNCHANGED <<jobs, results, submitted, from_worker, to_worker, current, disposed>>
  BY <1>3 DEF vars
<1> QED
  BY <1>1, <1>2, <1>3 DEF Next, Client, Emitter

(* The counts after a step, by thread.                                     *)
CountedNext(u) ==
    /\ jobs'[u] \in Nat /\ results'[u] \in Nat /\ jobs'[u] + results'[u] <= submitted'
    /\ ~disposed' => jobs'[u] >= Count(from_worker'[u], Result) + Count(to_worker', u)
                                   + One(current' = u)

(* No step breaks JobsCounted.                                             *)
LEMMA JobsCountedStep == ASSUME IInv, [Next]_vars PROVE JobsCounted'
<1> SUFFICES ASSUME NEW u \in Clients PROVE CountedNext(u)
  BY DEF JobsCounted, CountedNext
<1> DEFINE F == Count(from_worker[u], Result)
           T == Count(to_worker, u)
           C == One(current = u)
<1>1. /\ jobs[u] \in Nat /\ results[u] \in Nat /\ jobs[u] + results[u] <= submitted
      /\ ~disposed => jobs[u] >= F + T + C
      /\ submitted \in Nat
  BY DEF IInv, JobsCounted, Shapes
<1>2. /\ jobs \in [Clients -> Int] /\ results \in [Clients -> Int]
      /\ from_worker \in [Clients -> Seq(Items)] /\ to_worker \in Seq(Clients)
      /\ from_worker[u] \in Seq(Items) /\ current \in Clients \cup {NULL}
  BY DEF IInv, Shapes
<1>3. F \in Nat /\ T \in Nat /\ C \in Nat
  <2>1. F \in Nat /\ T \in Nat
    BY <1>2, CountNat
  <2> QED
    BY <2>1 DEF One
<1> HIDE DEF F, T, C
<1>4. CASE UNCHANGED <<jobs, results, submitted, from_worker, to_worker, current, disposed>>
  BY <1>1, <1>4 DEF CountedNext, F, T, C
<1>5. ASSUME NEW t \in Clients, Execute(t)
      PROVE  CountedNext(u)
  <2>1. /\ jobs' = [jobs EXCEPT ![t] = @ + 1] /\ submitted' = submitted + 1
        /\ to_worker' = Append(to_worker, t)
        /\ UNCHANGED <<results, from_worker, current, disposed>>
    BY <1>5 DEF Execute, status
  <2>2. Count(to_worker', u) = T + One(t = u)
    BY <1>2, <2>1, CountAppend DEF T
  <2>3. jobs'[u] = jobs[u] + One(t = u) /\ One(t = u) \in {0, 1}
    BY <1>2, <2>1 DEF One
  <2>4. Count(from_worker'[u], Result) = F /\ One(current' = u) = C
    BY <2>1 DEF F, C
  <2> DEFINE o == One(t = u)
  <2>5. o \in {0, 1} /\ jobs'[u] = jobs[u] + o /\ Count(to_worker', u) = T + o
    BY <2>2, <2>3
  <2> HIDE DEF o
  <2>6. /\ jobs'[u] \in Nat /\ jobs'[u] + results[u] <= submitted + 1
        /\ ~disposed => jobs'[u] >= F + Count(to_worker', u) + C
    BY <1>1, <1>3, <2>5
  <2> QED
    BY <1>1, <2>1, <2>4, <2>6 DEF CountedNext
<1>6. ASSUME NEW t \in Clients, FetchResult(t)
      PROVE  CountedNext(u)
  <2>1. /\ results' = [results EXCEPT ![t] = @ - 1] /\ results[t] > 0
        /\ UNCHANGED <<jobs, submitted, from_worker, to_worker, current, disposed>>
    BY <1>6 DEF FetchResult, workerVars, status
  <2>2. results'[u] \in Nat /\ results'[u] <= results[u]
    BY <1>1, <1>2, <2>1
  <2> QED
    BY <1>1, <2>1, <2>2 DEF CountedNext, F, T, C
<1>7. CASE Dispose
  <2>1. disposed' /\ jobs'[u] = 0 /\ results'[u] = 0 /\ submitted' = submitted
    BY <1>7 DEF Dispose
  <2> QED
    BY <1>1, <2>1 DEF CountedNext
<1>8. CASE WorkerStart
  <2>1. /\ to_worker # <<>> /\ to_worker' = Tail(to_worker) /\ current' = Head(to_worker)
        /\ current = NULL /\ UNCHANGED <<jobs, results, submitted, from_worker, disposed>>
    BY <1>8 DEF WorkerStart, tdVars, status
  <2>2. T = Count(to_worker', u) + One(current' = u)
    BY <1>2, <2>1, CountTail DEF T
  <2>3. C = 0
    BY <2>1, NullAssumption DEF C, One, Threads
  <2>4. Count(to_worker', u) \in Nat /\ One(current' = u) \in Nat
    <3>1. to_worker' \in Seq(Clients)
      BY <1>2, <2>1
    <3> QED
      BY <3>1, CountNat DEF One
  <2>5. Count(from_worker'[u], Result) = F
    BY <2>1 DEF F
  <2> QED
    BY <1>1, <1>3, <2>1, <2>2, <2>3, <2>4, <2>5 DEF CountedNext
<1>9. CASE WorkerReply
  <2>1. /\ current # NULL /\ current' = NULL
        /\ from_worker' = [from_worker EXCEPT ![current] = Append(@, Result)]
        /\ UNCHANGED <<jobs, results, submitted, to_worker, disposed>>
    BY <1>9 DEF WorkerReply, status
  <2>2. Count(from_worker'[u], Result) = F + C
    <3>1. CASE current = u
      <4>1. from_worker'[u] = Append(from_worker[u], Result) /\ C = 1
        BY <1>2, <2>1, <3>1 DEF C, One
      <4>2. Count(Append(from_worker[u], Result), Result) = F + One(Result = Result)
        BY <1>2, ItemFacts, CountAppend DEF F
      <4> QED
        BY <4>1, <4>2 DEF One
    <3>2. CASE current # u
      BY <1>2, <1>3, <2>1, <3>2 DEF C, One, F
    <3> QED
      BY <3>1, <3>2
  <2>3. One(current' = u) = 0
    BY <2>1, NullAssumption DEF One, Threads
  <2>4. Count(to_worker', u) = T
    BY <2>1 DEF T
  <2> QED
    BY <1>1, <1>3, <2>1, <2>2, <2>3, <2>4 DEF CountedNext
<1>10. ASSUME NEW t \in Threads, MarshalPush(t)
       PROVE  CountedNext(u)
  <2> DEFINE s == emission[t].spec
             job == IF t = Worker THEN current ELSE NULL
             item == Signal(s, job)
  <2>1. UNCHANGED <<jobs, results, submitted, to_worker, current, disposed>>
    BY <1>10 DEF MarshalPush, workerVars
  <2>2. Count(from_worker'[u], Result) = F
    <3>1. CASE Freed(s)
      BY <1>10, <3>1 DEF MarshalPush, F
    <3>2. CASE ~Freed(s)
      <4>1. Pushed(reply_queue[s], item)
        BY <1>10, <3>2 DEF MarshalPush, Pushed
      <4>2. item \in Items /\ item # Result
        <5>1. emission[t] # NoEmission
          BY <1>10 DEF MarshalPush, NoEmission
        <5>2. s \in Specs /\ job \in Clients \cup {NULL}
          BY <1>2, <5>1 DEF IInv, EmitInv
        <5> HIDE DEF s, job
        <5> QED
          BY <5>2, ItemFacts
      <4> HIDE DEF s, item
      <4>3. from_worker'[u] = IF u = reply_queue[s] THEN Append(from_worker[u], item)
                              ELSE from_worker[u]
        BY <1>2, <4>1, <4>2, PushFacts
      <4>4. Count(Append(from_worker[u], item), Result) = F + One(item = Result)
        BY <1>2, <4>2, CountAppend DEF F
      <4>5. Count(Append(from_worker[u], item), Result) = F
        BY <1>3, <4>2, <4>4 DEF One
      <4> QED
        BY <4>3, <4>5 DEF F
    <3> QED
      BY <3>1, <3>2
  <2> QED
    BY <1>1, <2>1, <2>2 DEF CountedNext, T, C
<1>11. ASSUME NEW t \in Clients, from_worker[t] # <<>>,
              from_worker' = [from_worker EXCEPT ![t] = Tail(@)]
       PROVE  /\ Count(from_worker'[u], Result) \in Nat
              /\ F = Count(from_worker'[u], Result)
                       + One(u = t /\ Head(from_worker[t]) = Result)
  <2>1. CASE u = t
    <3>1. from_worker'[u] = Tail(from_worker[u]) /\ Tail(from_worker[u]) \in Seq(Items)
      BY <1>2, <1>11, <2>1
    <3>2. F = Count(Tail(from_worker[u]), Result) + One(Head(from_worker[u]) = Result)
      BY <1>2, <1>11, <2>1, CountTail DEF F
    <3> QED
      BY <2>1, <3>1, <3>2, CountNat DEF One
  <2>2. CASE u # t
    BY <1>2, <1>3, <1>11, <2>2 DEF One, F
  <2> QED
    BY <2>1, <2>2
<1>12. ASSUME NEW t \in Clients, IterateResult(t)
       PROVE  CountedNext(u)
  <2>1. /\ from_worker[t] # <<>> /\ Head(from_worker[t]) = Result /\ t \in threads_hash
        /\ from_worker' = [from_worker EXCEPT ![t] = Tail(@)]
        /\ jobs' = [jobs EXCEPT ![t] = @ - 1] /\ results' = [results EXCEPT ![t] = @ + 1]
        /\ UNCHANGED <<submitted, to_worker, current, disposed>>
    BY <1>12 DEF IterateResult, Iterating, workerVars, status
  <2>2. ~disposed
    BY <2>1 DEF IInv, ListInv
  <2>3. /\ Count(from_worker'[u], Result) \in Nat
        /\ F = Count(from_worker'[u], Result) + One(u = t)
    BY <1>11, <2>1 DEF One
  <2>4. /\ jobs'[u] = jobs[u] - One(u = t) /\ results'[u] = results[u] + One(u = t)
        /\ One(u = t) \in {0, 1}
    BY <1>1, <1>2, <2>1 DEF One
  <2>5. Count(to_worker', u) = T /\ One(current' = u) = C
    BY <2>1 DEF T, C
  <2>6. /\ jobs'[u] \in Nat /\ results'[u] \in Nat /\ jobs'[u] + results'[u] <= submitted
        /\ jobs'[u] >= Count(from_worker'[u], Result) + T + C
    <3> DEFINE f == Count(from_worker'[u], Result)
               o == One(u = t)
    <3>1. /\ f \in Nat /\ F = f + o /\ jobs'[u] = jobs[u] - o /\ results'[u] = results[u] + o
          /\ o \in {0, 1} /\ jobs[u] >= F + T + C
      BY <1>1, <2>2, <2>3, <2>4
    <3> HIDE DEF f, o
    <3>2. /\ jobs'[u] \in Nat /\ results'[u] \in Nat /\ jobs'[u] + results'[u] <= submitted
          /\ jobs'[u] >= f + T + C
      BY <1>1, <1>3, <3>1
    <3> QED
      BY <3>2 DEF f
  <2> QED
    BY <2>1, <2>5, <2>6 DEF CountedNext
<1>13. ASSUME NEW t \in Clients, IterateSignal(t)
       PROVE  CountedNext(u)
  <2>1. /\ from_worker[t] # <<>> /\ Head(from_worker[t]) # Result
        /\ from_worker' = [from_worker EXCEPT ![t] = Tail(@)]
        /\ UNCHANGED <<jobs, results, submitted, to_worker, current, disposed>>
    BY <1>13 DEF IterateSignal, workerVars, status
  <2>2. Count(from_worker'[u], Result) = F
    <3>1. /\ Count(from_worker'[u], Result) \in Nat
          /\ F = Count(from_worker'[u], Result)
                   + One(u = t /\ Head(from_worker[t]) = Result)
      BY <1>11, <2>1
    <3>2. One(u = t /\ Head(from_worker[t]) = Result) = 0
      BY <2>1 DEF One
    <3> QED
      BY <3>1, <3>2
  <2> QED
    BY <1>1, <2>1, <2>2 DEF CountedNext, T, C
<1> QED
  BY <1>4, <1>5, <1>6, <1>7, <1>8, <1>9, <1>10, <1>12, <1>13, JobsCountSteps

-----------------------------------------------------------------------------
(* RefsCounted: the signal jobs of a spec, in any queues.                  *)
OfSpec(job, s) == job.type = "signal" /\ job.spec = s
Marks(q, s) == UNION {{<<t, i>> : i \in {k \in DOMAIN q[t] :
                   q[t][k].type = "signal" /\ q[t][k].spec = s}} : t \in Clients}

Becomes(p, q, t, v) == p = [q EXCEPT ![t] = v]
MarksOf(M, q, s) ==
    /\ \A x \in M : \E t \in Clients, i \in Nat :
          i \in 1..Len(q[t]) /\ x = <<t, i>> /\ OfSpec(q[t][i], s)
    /\ \A t \in Clients : \A i \in 1..Len(q[t]) : <<t, i>> \in M <=> OfSpec(q[t][i], s)
    /\ \A t, i : <<t, i>> \in M => t \in Clients /\ i \in 1..Len(q[t])

(* The elements of Marks(q, s) are the places of the jobs of s.            *)
LEMMA MarksAre ==
    ASSUME NEW q \in [Clients -> Seq(Items)], NEW s
    PROVE  MarksOf(Marks(q, s), q, s)
<1> DEFINE In(t) == {k \in DOMAIN q[t] : q[t][k].type = "signal" /\ q[t][k].spec = s}
           Of(t) == {<<t, i>> : i \in In(t)}
<1>1. ASSUME NEW t \in Clients
      PROVE  \A i : i \in In(t) <=> i \in 1..Len(q[t]) /\ OfSpec(q[t][i], s)
  <2>1. DOMAIN q[t] = 1..Len(q[t])
    OBVIOUS
  <2> QED
    BY <2>1 DEF OfSpec
<1>2. \A x : x \in Marks(q, s) <=> \E t \in Clients : x \in Of(t)
  BY DEF Marks
<1> HIDE DEF In
<1>3. ASSUME NEW t, NEW x PROVE x \in Of(t) <=> \E i \in In(t) : x = <<t, i>>
  OBVIOUS
<1> HIDE DEF Of
<1>4. ASSUME NEW x \in Marks(q, s)
      PROVE  \E t \in Clients, i \in Nat :
                 i \in 1..Len(q[t]) /\ x = <<t, i>> /\ OfSpec(q[t][i], s)
  BY <1>1, <1>2, <1>3, <1>4
<1>5. ASSUME NEW t \in Clients, NEW i \in 1..Len(q[t])
      PROVE  <<t, i>> \in Marks(q, s) <=> OfSpec(q[t][i], s)
  <2>1. ASSUME OfSpec(q[t][i], s) PROVE <<t, i>> \in Marks(q, s)
    BY <1>1, <1>2, <1>3, <2>1
  <2>2. ASSUME <<t, i>> \in Marks(q, s) PROVE OfSpec(q[t][i], s)
    <3>1. PICK u \in Clients, k \in Nat :
             k \in 1..Len(q[u]) /\ <<t, i>> = <<u, k>> /\ OfSpec(q[u][k], s)
      BY <1>4, <2>2
    <3> QED
      BY <3>1
  <2> QED
    BY <2>1, <2>2
<1>6. ASSUME NEW t, NEW i, <<t, i>> \in Marks(q, s)
      PROVE  t \in Clients /\ i \in 1..Len(q[t])
  <2>1. PICK u \in Clients, k \in Nat : k \in 1..Len(q[u]) /\ <<t, i>> = <<u, k>>
    BY <1>4, <1>6
  <2> QED
    BY <2>1
<1> QED
  BY <1>4, <1>5, <1>6 DEF MarksOf

(* One more when a job of s is appended to a queue.                        *)
LEMMA MarksAppend ==
    ASSUME NEW q \in [Clients -> Seq(Items)], NEW s, IsFiniteSet(Marks(q, s)),
           NEW t \in Clients, NEW e \in Items,
           NEW p, Becomes(p, q, t, Append(q[t], e))
    PROVE  /\ IsFiniteSet(Marks(p, s))
           /\ Cardinality(Marks(p, s)) = Cardinality(Marks(q, s)) + One(OfSpec(e, s))
<1> DEFINE n == Len(q[t]) + 1
<1>1. q[t] \in Seq(Items) /\ Append(q[t], e) \in Seq(Items)
  OBVIOUS
<1>2. /\ p \in [Clients -> Seq(Items)]
      /\ \A u \in Clients : u # t => p[u] = q[u]
      /\ p[t] = Append(q[t], e)
  BY <1>1 DEF Becomes
<1>Q. MarksOf(Marks(q, s), q, s) /\ MarksOf(Marks(p, s), p, s)
  BY <1>2, MarksAre
<1>3. /\ Len(p[t]) = n /\ n \in Nat /\ p[t][n] = e
      /\ n \in 1..Len(p[t]) /\ n \notin 1..Len(q[t])
      /\ \A i \in 1..Len(q[t]) : p[t][i] = q[t][i] /\ i \in 1..Len(p[t])
      /\ \A i \in 1..Len(p[t]) : i \in 1..Len(q[t]) \/ i = n
  BY <1>1, <1>2, QueueFacts
<1> HIDE DEF n
<1>4. <<t, n>> \notin Marks(q, s)
  BY <1>3, <1>Q DEF MarksOf
<1>5. ASSUME NEW x
      PROVE  x \in Marks(p, s) <=> x \in Marks(q, s) \/ (x = <<t, n>> /\ OfSpec(e, s))
  <2>1. ASSUME x \in Marks(p, s)
        PROVE  x \in Marks(q, s) \/ (x = <<t, n>> /\ OfSpec(e, s))
    <3>1. PICK u \in Clients, i \in Nat :
             i \in 1..Len(p[u]) /\ x = <<u, i>> /\ OfSpec(p[u][i], s)
      BY <1>2, <2>1, <1>Q DEF MarksOf
    <3>2. CASE u = t /\ i = n
      BY <1>3, <3>1, <3>2
    <3>3. CASE ~(u = t /\ i = n)
      <4>1. i \in 1..Len(q[u]) /\ p[u][i] = q[u][i]
        <5>1. CASE u = t
          BY <1>3, <3>1, <3>3, <5>1
        <5>2. CASE u # t
          BY <1>2, <3>1, <5>2
        <5> QED
          BY <5>1, <5>2
      <4> QED
        BY <3>1, <4>1, <1>Q DEF MarksOf
    <3> QED
      BY <3>2, <3>3
  <2>2. ASSUME x \in Marks(q, s) PROVE x \in Marks(p, s)
    <3>1. PICK u \in Clients, i \in Nat :
             i \in 1..Len(q[u]) /\ x = <<u, i>> /\ OfSpec(q[u][i], s)
      BY <2>2, <1>Q DEF MarksOf
    <3>2. i \in 1..Len(p[u]) /\ p[u][i] = q[u][i]
      <4>1. CASE u = t
        BY <1>3, <3>1, <4>1
      <4>2. CASE u # t
        BY <1>2, <3>1, <4>2
      <4> QED
        BY <4>1, <4>2
    <3> QED
      BY <1>2, <3>1, <3>2, <1>Q DEF MarksOf
  <2>3. ASSUME OfSpec(e, s) PROVE <<t, n>> \in Marks(p, s)
    <3>1. n \in 1..Len(p[t]) /\ OfSpec(p[t][n], s)
      BY <1>3, <2>3
    <3> QED
      BY <3>1, <1>Q DEF MarksOf
  <2> QED
    BY <2>1, <2>2, <2>3
<1>6. OfSpec(e, s) \in BOOLEAN
  BY DEF OfSpec
<1>7. Marks(p, s) = IF OfSpec(e, s) THEN Marks(q, s) \cup {<<t, n>>} ELSE Marks(q, s)
  BY <1>5
<1> QED
  BY <1>4, <1>6, <1>7, AddedCount

(* One less when a job of s is taken off: the others move up by one.       *)
LEMMA MarksTail ==
    ASSUME NEW q \in [Clients -> Seq(Items)], NEW s, IsFiniteSet(Marks(q, s)),
           NEW t \in Clients, q[t] # <<>>, NEW p, p = [q EXCEPT ![t] = Tail(@)]
    PROVE  /\ IsFiniteSet(Marks(p, s))
           /\ Cardinality(Marks(p, s)) =
                 Cardinality(Marks(q, s)) - One(OfSpec(Head(q[t]), s))
<1> DEFINE X == Marks(q, s) \ {<<t, 1>>}
           T == Marks(p, s)
           f == [x \in X |-> IF x[1] = t THEN <<t, x[2] - 1>> ELSE x]
<1>1. q[t] \in Seq(Items) /\ Tail(q[t]) \in Seq(Items)
  OBVIOUS
<1>2. /\ p \in [Clients -> Seq(Items)]
      /\ \A u \in Clients : u # t => p[u] = q[u]
      /\ p[t] = Tail(q[t])
  BY <1>1
<1>Q. MarksOf(Marks(q, s), q, s) /\ MarksOf(T, p, s)
  BY <1>2, MarksAre
<1>3. /\ Len(p[t]) = Len(q[t]) - 1 /\ Len(q[t]) \in Nat /\ 1 \in 1..Len(q[t])
      /\ Head(q[t]) = q[t][1]
      /\ \A i \in 1..Len(p[t]) : i + 1 \in 1..Len(q[t]) /\ p[t][i] = q[t][i + 1]
  BY <1>1, <1>2, QueueFacts
<1>4. ASSUME NEW x \in X
      PROVE  \/ \E u \in Clients, i \in Nat :
                   u # t /\ x = <<u, i>> /\ x \in T /\ f[x] = x
             \/ \E i \in Nat :
                   x = <<t, i + 1>> /\ <<t, i>> \in T /\ f[x] = <<t, i>>
  <2>1. PICK u \in Clients, i \in Nat :
             i \in 1..Len(q[u]) /\ x = <<u, i>> /\ OfSpec(q[u][i], s)
    BY <1>Q DEF MarksOf
  <2>2. CASE u # t
    <3>1. i \in 1..Len(p[u]) /\ OfSpec(p[u][i], s)
      BY <1>2, <2>1, <2>2
    <3>2. x \in T
      BY <1>2, <2>1, <3>1, <1>Q DEF MarksOf
    <3>3. f[x] = x
      BY <2>1, <2>2
    <3> QED
      BY <2>1, <2>2, <3>1, <3>2, <3>3
  <2>3. CASE u = t
    <3> DEFINE k == i - 1
    <3>1. i # 1
      BY <2>1, <2>3
    <3>2. k \in 1..Len(p[t]) /\ i = k + 1
      BY <1>3, <2>1, <2>3, <3>1
    <3>3. f[x] = <<t, k>>
      BY <2>1, <2>3
    <3> HIDE DEF k
    <3>4. OfSpec(p[t][k], s)
      BY <1>3, <2>1, <2>3, <3>2
    <3>5. <<t, k>> \in T
      BY <1>2, <3>2, <3>4, <1>Q DEF MarksOf
    <3> QED
      <4>1. k \in Nat /\ x = <<t, k + 1>>
        BY <2>1, <2>3, <3>2
      <4> QED
        BY <3>3, <3>5, <4>1
  <2> QED
    BY <2>2, <2>3
<1>5. \A y \in T : \E x \in X : f[x] = y
  <2> SUFFICES ASSUME NEW y \in T PROVE \E x \in X : f[x] = y
    OBVIOUS
  <2>1. PICK u \in Clients, i \in Nat :
             i \in 1..Len(p[u]) /\ y = <<u, i>> /\ OfSpec(p[u][i], s)
    BY <1>2, <1>Q DEF MarksOf
  <2>2. CASE u # t
    <3>1. i \in 1..Len(q[u]) /\ OfSpec(q[u][i], s)
      BY <1>2, <2>1, <2>2
    <3>2. y \in Marks(q, s)
      BY <2>1, <3>1, <1>Q DEF MarksOf
    <3>3. y \in X /\ f[y] = y
      BY <2>1, <2>2, <3>2
    <3> QED
      BY <3>3
  <2>3. CASE u = t
    <3>1. i + 1 \in 1..Len(q[t]) /\ OfSpec(q[t][i + 1], s)
      BY <1>3, <2>1, <2>3
    <3>2. <<t, i + 1>> \in Marks(q, s)
      BY <3>1, <1>Q DEF MarksOf
    <3>3. i + 1 # 1 /\ (i + 1) - 1 = i
      BY <2>1
    <3>4. <<t, i + 1>> \in X
      BY <3>2, <3>3
    <3>5. f[<<t, i + 1>>] = <<t, i>>
      BY <3>3, <3>4
    <3> QED
      BY <2>1, <2>3, <3>4, <3>5
  <2> QED
    BY <2>2, <2>3
<1>6. DOMAIN f = X /\ f = [x \in X |-> f[x]]
  OBVIOUS
<1> HIDE DEF X, T, f
<1>7. f \in [X -> T]
  <2>1. \A x \in X : f[x] \in T
    BY <1>4
  <2> QED
    BY <1>6, <2>1
<1>8. \A a, b \in X : f[a] = f[b] => a = b
  <2> SUFFICES ASSUME NEW a \in X, NEW b \in X, f[a] = f[b] PROVE a = b
    OBVIOUS
  <2> DEFINE Stays(x) == \E u \in Clients, i \in Nat : u # t /\ x = <<u, i>> /\ f[x] = x
             Moves(x) == \E i \in Nat : x = <<t, i + 1>> /\ f[x] = <<t, i>>
  <2>1. (Stays(a) \/ Moves(a)) /\ (Stays(b) \/ Moves(b))
    BY <1>4
  <2>2. CASE Stays(a) /\ Stays(b)
    BY <2>2
  <2>3. CASE Moves(a) /\ Moves(b)
    <3>1. PICK i \in Nat : a = <<t, i + 1>> /\ f[a] = <<t, i>>
      BY <2>3
    <3>2. PICK k \in Nat : b = <<t, k + 1>> /\ f[b] = <<t, k>>
      BY <2>3
    <3>3. i = k
      BY <3>1, <3>2
    <3> QED
      BY <3>1, <3>2, <3>3
  <2>4. ASSUME NEW c \in X, NEW d \in X, Stays(c), Moves(d) PROVE f[c] # f[d]
    <3>1. PICK u \in Clients, i \in Nat : u # t /\ c = <<u, i>> /\ f[c] = c
      BY <2>4
    <3>2. PICK k \in Nat : f[d] = <<t, k>>
      BY <2>4
    <3> QED
      BY <3>1, <3>2
  <2> QED
    BY <2>1, <2>2, <2>3, <2>4
<1>9. /\ IsFiniteSet(X)
      /\ Cardinality(X) = Cardinality(Marks(q, s)) - One(<<t, 1>> \in Marks(q, s))
  BY RemovedCount DEF X
<1>10. IsFiniteSet(T) /\ Cardinality(T) = Cardinality(X)
  BY <1>5, <1>7, <1>8, <1>9, SameCount
<1>11. <<t, 1>> \in Marks(q, s) <=> OfSpec(Head(q[t]), s)
  BY <1>3, <1>Q DEF MarksOf
<1> QED
  BY <1>9, <1>10, <1>11 DEF One, T

(* What SpecOutlivesItsJobs counts, before and after a step.               *)
LEMMA QueuedIsMarks ==
    ASSUME NEW s
    PROVE  Queued(s) = Marks(from_worker, s) /\ Queued(s)' = Marks(from_worker', s)
BY DEF Queued, Marks

(* The steps that can change what RefsCounted is about.                    *)
LEMMA RefsSteps ==
    ASSUME [Next]_vars
    PROVE  \/ \E t \in Clients, s \in Specs : disconnect(t, s)
           \/ \E t \in Clients, s \in Specs, k \in Kinds : connect_raw(t, s, k)
           \/ \E t \in Clients : IterateResult(t) \/ IterateSignal(t) \/ Unref(t)
           \/ \E t \in Threads, s \in Specs : Emit(t, s)
           \/ \E t \in Threads : MarshalCheck(t) \/ MarshalPush(t)
           \/ WorkerReply \/ Dispose
           \/ UNCHANGED <<ref_count, connected, from_worker, hand, emission, emits>>
<1> USE DEF specVars, tdVars, iterateVars, emitVars
<1>1. ASSUME NEW t \in Clients,
             \/ \E s \in Specs : steal_signal(t, s)
             \/ ConnectRefused(t) \/ Execute(t) \/ FetchResult(t) \/ IterateAgain(t)
             \/ TestCallback(t) \/ CallBack(t) \/ CallbackReturns(t)
      PROVE  UNCHANGED <<ref_count, connected, from_worker, hand, emission, emits>>
  BY <1>1 DEF steal_signal, ConnectRefused, Execute, FetchResult, IterateAgain,
     TestCallback, CallBack, CallbackReturns
<1>2. ASSUME WorkerStart \/ UNCHANGED vars
      PROVE  UNCHANGED <<ref_count, connected, from_worker, hand, emission, emits>>
  BY <1>2 DEF WorkerStart, vars
<1> QED
  BY <1>1, <1>2 DEF Next, Client, Emitter

(* Nothing refers to a spec before it is connected.                        *)
LEMMA NoneBefore ==
    ASSUME IInv, NEW s \in Specs, ~Created(s)
    PROVE  Queued(s) = {} /\ InHands(s) = {} /\ Emissions(s) = {}
<1>1. Queued(s) = {}
  <2> SUFFICES ASSUME NEW x \in Queued(s) PROVE FALSE
    OBVIOUS
  <2>1. from_worker \in [Clients -> Seq(Items)] /\ x \in Marks(from_worker, s)
    BY QueuedIsMarks DEF IInv, Shapes
  <2>2. MarksOf(Marks(from_worker, s), from_worker, s)
    BY <2>1, MarksAre
  <2>3. PICK t \in Clients, i \in Nat :
           i \in 1..Len(from_worker[t]) /\ OfSpec(from_worker[t][i], s)
    BY <2>1, <2>2 DEF MarksOf
  <2>4. from_worker[t][i] = Result \/ IsSignal(from_worker[t][i])
    BY <2>3 DEF IInv, JobsInv
  <2>5. from_worker[t][i].type = "signal" /\ from_worker[t][i].spec = s
    BY <2>3 DEF OfSpec
  <2>6. IsSignal(from_worker[t][i])
    BY <2>4, <2>5, ItemFacts
  <2> QED
    BY <2>5, <2>6 DEF IsSignal
<1>2. InHands(s) = {}
  <2>1. ASSUME NEW t \in Clients, hand[t] # NULL PROVE hand[t].spec # s
    BY <2>1 DEF IInv, JobsInv, IsSignal
  <2> QED
    BY <2>1 DEF InHands
<1>3. Emissions(s) = {}
  <2>1. ASSUME NEW t \in Threads PROVE emission[t].spec # s
    <3>1. CASE emission[t] = NoEmission
      BY <3>1, NullAssumption DEF NoEmission
    <3>2. CASE emission[t] # NoEmission
      BY <3>2 DEF IInv, EmitInv
    <3> QED
      BY <3>1, <3>2
  <2> QED
    BY <2>1 DEF Emissions
<1> QED
  BY <1>1, <1>2, <1>3

(* The emissions of a spec when one thread's changes.                      *)
LEMMA EmissionsLess ==
    ASSUME IInv, NEW s \in Specs, NEW t \in Threads, NEW e, e.spec # s,
           Becomes(emission', emission, t, e)
    PROVE  /\ IsFiniteSet(Emissions(s)')
           /\ Cardinality(Emissions(s)') =
                 Cardinality(Emissions(s)) - One(emission[t].spec = s)
           /\ Cardinality(Emissions(s)') \in Nat
<1>1. Emissions(s)' = Emissions(s) \ {t}
  <2>1. \A u \in Threads : emission'[u] = IF u = t THEN e ELSE emission[u]
    BY DEF IInv, Shapes, Becomes
  <2> QED
    BY <2>1 DEF Emissions
<1>2. t \in Emissions(s) <=> emission[t].spec = s
  BY DEF Emissions
<1>3. IsFiniteSet(Emissions(s))
  BY DEF IInv, RefsCounted, RefsOf
<1>4. /\ IsFiniteSet(Emissions(s)')
      /\ Cardinality(Emissions(s)') = Cardinality(Emissions(s)) - One(t \in Emissions(s))
  BY <1>1, <1>3, RemovedCount
<1>5. One(t \in Emissions(s)) = One(emission[t].spec = s)
  BY <1>2 DEF One
<1> QED
  BY <1>4, <1>5, FS_CardinalityType

(* No step breaks RefsCounted.                                             *)
LEMMA RefsStep == ASSUME IInv, [Next]_vars PROVE RefsCounted'
<1> SUFFICES ASSUME NEW s \in Specs PROVE RefsOf(s)'
  BY DEF RefsCounted
<1> DEFINE Q == Cardinality(Queued(s))
           H == Cardinality(InHands(s))
           E == Cardinality(Emissions(s))
           C == One(s \in connected)
<1>1. /\ IsFiniteSet(Queued(s)) /\ IsFiniteSet(InHands(s)) /\ IsFiniteSet(Emissions(s))
      /\ ref_count[s] >= Q + H + C /\ ref_count[s] + E <= emits + 1
  BY DEF IInv, RefsCounted, RefsOf
<1>2. /\ ref_count \in [Specs -> Int] /\ emits \in Nat
      /\ from_worker \in [Clients -> Seq(Items)]
      /\ hand \in [Clients -> Items \cup {NULL}]
      /\ emission \in [Threads -> [spec : Specs \cup {NULL},
                                   at : {"none", "invoked", "passed"}]]
      /\ Queued(s) = Marks(from_worker, s) /\ Queued(s)' = Marks(from_worker', s)
  BY QueuedIsMarks DEF IInv, Shapes
<1>3. Q \in Nat /\ H \in Nat /\ E \in Nat /\ C \in {0, 1} /\ ref_count[s] \in Int
  BY <1>1, <1>2, FS_CardinalityType DEF One
<1> HIDE DEF Q, H, E, C
<1>Q. /\ IsFiniteSet(Marks(from_worker, s)) /\ Q = Cardinality(Marks(from_worker, s))
      /\ Queued(s)' = Marks(from_worker', s)
  BY <1>1, <1>2 DEF Q
<1>4. /\ from_worker' = from_worker => Queued(s)' = Queued(s)
      /\ hand' = hand => InHands(s)' = InHands(s)
      /\ emission' = emission => Emissions(s)' = Emissions(s)
  BY DEF Queued, InHands, Emissions
<1>5. ASSUME NEW t \in Clients, NEW r \in Specs, disconnect(t, r)
      PROVE  RefsOf(s)'
  <2>1. /\ UNCHANGED <<from_worker, hand, emission, emits>>
        /\ ref_count' = [ref_count EXCEPT ![r] = @ - 1] /\ connected' = connected \ {r}
    BY <1>5 DEF disconnect, iterateVars, emitVars
  <2>2. CASE r = s
    <3>1. \E u \in Clients : r \in signals_list[u]
      BY <1>5 DEF disconnect, DisconnectFrom, Lists
    <3>2. C = 1 /\ One(s \in connected') = 0 /\ ref_count'[s] = ref_count[s] - 1
      BY <1>2, <2>1, <2>2, <3>1 DEF IInv, ListInv, One, C
    <3>3. ref_count'[s] >= Q + H + One(s \in connected') /\ ref_count'[s] + E <= emits + 1
      BY <1>1, <1>2, <1>3, <3>2
    <3> QED
      BY <1>1, <1>4, <2>1, <3>3 DEF RefsOf, Q, H, E
  <2>3. CASE r # s
    <3>1. One(s \in connected') = C /\ ref_count'[s] = ref_count[s]
      BY <1>2, <2>1, <2>3 DEF One, C
    <3> QED
      BY <1>1, <1>4, <2>1, <3>1 DEF RefsOf, Q, H, E
  <2> QED
    BY <2>2, <2>3
<1>6. ASSUME NEW t \in Clients, NEW r \in Specs, NEW k \in Kinds, connect_raw(t, r, k)
      PROVE  RefsOf(s)'
  <2>1. /\ UNCHANGED <<from_worker, hand, emission, emits>> /\ ~Created(r)
        /\ ref_count' = [ref_count EXCEPT ![r] = 1] /\ connected' = connected \cup {r}
    BY <1>6 DEF connect_raw, iterateVars, emitVars
  <2>2. CASE r = s
    <3>1. Q = 0 /\ H = 0 /\ E = 0
      BY <2>1, <2>2, NoneBefore, FS_EmptySet DEF Q, H, E
    <3>2. ref_count'[s] = 1 /\ One(s \in connected') \in {0, 1}
      BY <1>2, <2>1, <2>2 DEF One
    <3> QED
      BY <1>1, <1>2, <1>4, <2>1, <3>1, <3>2 DEF RefsOf, Q, H, E
  <2>3. CASE r # s
    <3>1. One(s \in connected') = C /\ ref_count'[s] = ref_count[s]
      BY <1>2, <2>1, <2>3 DEF One, C
    <3> QED
      BY <1>1, <1>4, <2>1, <3>1 DEF RefsOf, Q, H, E
  <2> QED
    BY <2>2, <2>3
<1>7. CASE Dispose
  <2>1. /\ UNCHANGED <<from_worker, hand, emission, emits>> /\ connected' = {}
        /\ ref_count'[s] = ref_count[s] - C
    BY <1>7 DEF Dispose, iterateVars, emitVars, C, One
  <2>2. One(s \in connected') = 0
    BY <2>1 DEF One
  <2>3. ref_count'[s] >= Q + H + One(s \in connected') /\ ref_count'[s] + E <= emits + 1
    BY <1>1, <1>2, <1>3, <2>1, <2>2
  <2> QED
    BY <1>1, <1>4, <2>1, <2>3 DEF RefsOf, Q, H, E
<1>8. CASE WorkerReply
  <2>1. /\ UNCHANGED <<ref_count, connected, hand, emission, emits>> /\ current # NULL
        /\ from_worker' = [from_worker EXCEPT ![current] = Append(@, Result)]
    BY <1>8 DEF WorkerReply, iterateVars, specVars, emitVars
  <2>2. current \in Clients
    BY <2>1 DEF IInv, Shapes
  <2>3. One(OfSpec(Result, s)) = 0
    BY ItemFacts DEF OfSpec, One
  <2>4. IsFiniteSet(Queued(s)') /\ Cardinality(Queued(s)') = Q
    <3>1. Result \in Items /\ from_worker \in [Clients -> Seq(Items)]
      BY <1>2, ItemFacts
    <3>2. /\ IsFiniteSet(Marks(from_worker', s))
          /\ Cardinality(Marks(from_worker', s)) =
                Cardinality(Marks(from_worker, s)) + One(OfSpec(Result, s))
      <4> DEFINE p == from_worker'
                 q == from_worker
      <4>1. /\ Becomes(p, q, current, Append(q[current], Result))
            /\ q \in [Clients -> Seq(Items)]
        BY <2>1, <3>1 DEF Becomes
      <4>2. IsFiniteSet(Marks(q, s))
        BY <1>Q
      <4> HIDE DEF p, q
      <4>3. /\ IsFiniteSet(Marks(p, s))
            /\ Cardinality(Marks(p, s)) = Cardinality(Marks(q, s)) + One(OfSpec(Result, s))
        BY <2>2, <3>1, <4>1, <4>2, MarksAppend
      <4> QED
        BY <4>3 DEF p, q
    <3> QED
      BY <1>3, <1>Q, <2>3, <3>2
  <2> QED
    BY <1>1, <1>4, <2>1, <2>4 DEF RefsOf, H, E, C
<1>9. ASSUME NEW t \in Threads, NEW r \in Specs, Emit(t, r)
      PROVE  RefsOf(s)'
  <2> DEFINE e == [spec |-> r, at |-> "invoked"]
  <2>1. /\ UNCHANGED <<ref_count, connected, hand, from_worker>>
        /\ emission[t] = NoEmission /\ emits' = emits + 1
        /\ emission' = [emission EXCEPT ![t] = e]
    BY <1>9 DEF Emit, iterateVars, specVars, tdVars
  <2>2. e.spec = r /\ NoEmission.spec = NULL /\ NULL # s
    BY NullAssumption DEF NoEmission
  <2> HIDE DEF e
  <2>3. \A u \in Threads : emission'[u] = IF u = t THEN e ELSE emission[u]
    BY <1>2, <2>1
  <2>4. /\ t \notin Emissions(s)
        /\ Emissions(s)' = IF r = s THEN Emissions(s) \cup {t} ELSE Emissions(s)
    BY <2>1, <2>2, <2>3 DEF Emissions
  <2>5. IsFiniteSet(Emissions(s)') /\ Cardinality(Emissions(s)') = E + One(r = s)
    <3> DEFINE A == Emissions(s)
               B == Emissions(s)'
               b == r = s
    <3>1. /\ b \in BOOLEAN /\ IsFiniteSet(A) /\ t \notin A
          /\ B = IF b THEN A \cup {t} ELSE A
      BY <1>1, <2>4
    <3> HIDE DEF A, B, b
    <3>2. IsFiniteSet(B) /\ Cardinality(B) = Cardinality(A) + One(b)
      BY <3>1, AddedCount
    <3> QED
      BY <3>2 DEF A, B, b, E
  <2>6. One(r = s) \in {0, 1}
    BY DEF One
  <2> QED
    BY <1>1, <1>2, <1>3, <1>4, <2>1, <2>5, <2>6 DEF RefsOf, Q, H, C
<1>10. ASSUME NEW t \in Threads, MarshalCheck(t)
       PROVE  RefsOf(s)'
  <2>1. UNCHANGED <<ref_count, connected, hand, from_worker, emits>>
    BY <1>10 DEF MarshalCheck, iterateVars, specVars, tdVars
  <2>2. IsFiniteSet(Emissions(s)') /\ Cardinality(Emissions(s)') <= E
    <3>1. CASE emission' = [emission EXCEPT ![t] = NoEmission]
      <4>1. NoEmission.spec # s /\ Becomes(emission', emission, t, NoEmission)
        BY <3>1, NullAssumption DEF NoEmission, Becomes
      <4>2. /\ IsFiniteSet(Emissions(s)')
            /\ Cardinality(Emissions(s)') = E - One(emission[t].spec = s)
        BY <4>1, EmissionsLess DEF E
      <4>3. One(emission[t].spec = s) \in {0, 1}
        BY DEF One
      <4> QED
        BY <1>3, <4>2, <4>3
    <3>2. CASE emission' # [emission EXCEPT ![t] = NoEmission]
      <4> DEFINE e == [spec |-> emission[t].spec, at |-> "passed"]
      <4>1. emission' = emission \/ emission' = [emission EXCEPT ![t] = e]
        BY <1>10, <3>2 DEF MarshalCheck
      <4>2. e.spec = emission[t].spec
        OBVIOUS
      <4> HIDE DEF e
      <4>3. \A u \in Threads : emission'[u].spec = emission[u].spec
        BY <1>2, <4>1, <4>2
      <4>4. Emissions(s)' = Emissions(s)
        BY <4>3 DEF Emissions
      <4> QED
        BY <1>1, <1>3, <4>4 DEF E
    <3> QED
      BY <3>1, <3>2
  <2>3. Cardinality(Emissions(s)') \in Nat
    BY <2>2, FS_CardinalityType
  <2> QED
    BY <1>1, <1>2, <1>3, <1>4, <2>1, <2>2, <2>3 DEF RefsOf, Q, H, C
<1>11. ASSUME NEW t \in Threads, MarshalPush(t)
       PROVE  RefsOf(s)'
  <2> DEFINE r == emission[t].spec
             job == IF t = Worker THEN current ELSE NULL
             item == Signal(r, job)
             d == One(r = s)
  <2>1. UNCHANGED <<connected, hand, emits>>
    BY <1>11 DEF MarshalPush, iterateVars
  <2>2. CASE Freed(r)
    <3>1. UNCHANGED <<ref_count, from_worker, emission>>
      BY <1>11, <2>2 DEF MarshalPush
    <3> QED
      BY <1>1, <1>4, <2>1, <3>1 DEF RefsOf, Q, H, E, C
  <2>3. CASE ~Freed(r)
    <3>1. /\ Pushed(reply_queue[r], item)
          /\ ref_count' = [ref_count EXCEPT ![r] = @ + 1]
          /\ emission' = [emission EXCEPT ![t] = NoEmission]
      BY <1>11, <2>3 DEF MarshalPush, Pushed, WithReference
    <3>2. r \in Specs /\ job \in Clients \cup {NULL}
      <4>1. emission[t] # NoEmission
        BY <1>11 DEF MarshalPush, NoEmission
      <4> QED
        BY <4>1 DEF IInv, EmitInv, Shapes
    <3>3. d \in {0, 1} /\ ref_count'[s] = ref_count[s] + d
      BY <1>2, <3>1, <3>2 DEF One
    <3>4. /\ IsFiniteSet(Emissions(s)') /\ Cardinality(Emissions(s)') = E - d
          /\ Cardinality(Emissions(s)') \in Nat
      <4>1. NoEmission.spec # s /\ Becomes(emission', emission, t, NoEmission)
        BY <3>1, NullAssumption DEF NoEmission, Becomes
      <4> QED
        BY <4>1, EmissionsLess DEF E
    <3>5. /\ IsFiniteSet(Queued(s)')
          /\ Cardinality(Queued(s)') \in Nat /\ Cardinality(Queued(s)') <= Q + d
      <4> HIDE DEF r, job
      <4>1. item \in Items /\ One(OfSpec(item, s)) = d
        BY <3>2, ItemFacts DEF OfSpec, One
      <4> HIDE DEF item
      <4>2. /\ from_worker' \in [Clients -> Seq(Items)]
            /\ \A u \in Clients : from_worker'[u] =
                  IF u = reply_queue[r] THEN Append(from_worker[u], item) ELSE from_worker[u]
        BY <1>2, <3>1, <4>1, PushFacts
      <4>3. CASE reply_queue[r] \in Clients
        <5>1. from_worker' = [from_worker EXCEPT ![reply_queue[r]] = Append(@, item)]
          BY <1>2, <4>2
        <5>2. IsFiniteSet(Queued(s)') /\ Cardinality(Queued(s)') = Q + d
          <6>1. item \in Items /\ from_worker \in [Clients -> Seq(Items)]
            BY <1>2, <4>1
          <6>2. /\ IsFiniteSet(Marks(from_worker', s))
                /\ Cardinality(Marks(from_worker', s)) =
                      Cardinality(Marks(from_worker, s)) + One(OfSpec(item, s))
            <7> DEFINE p == from_worker'
                       q == from_worker
                       u == reply_queue[r]
            <7>1. /\ Becomes(p, q, u, Append(q[u], item)) /\ q \in [Clients -> Seq(Items)]
                  /\ u \in Clients /\ IsFiniteSet(Marks(q, s))
              BY <1>Q, <4>3, <5>1, <6>1 DEF Becomes
            <7> HIDE DEF p, q, u
            <7>2. /\ IsFiniteSet(Marks(p, s))
                  /\ Cardinality(Marks(p, s)) = Cardinality(Marks(q, s)) + One(OfSpec(item, s))
              BY <6>1, <7>1, MarksAppend
            <7> QED
              BY <7>2 DEF p, q
          <6> QED
            BY <1>Q, <4>1, <6>2
        <5> QED
          BY <1>3, <3>3, <5>2
      <4>4. CASE reply_queue[r] \notin Clients
        <5>1. from_worker' = from_worker
          BY <1>2, <4>2, <4>4
        <5> QED
          BY <1>1, <1>3, <1>4, <3>3, <5>1 DEF Q
      <4> QED
        BY <4>3, <4>4
    <3> DEFINE n == ref_count'[s]
               e == Cardinality(Emissions(s)')
               k == Cardinality(Queued(s)')
    <3>6. /\ d \in {0, 1} /\ n = ref_count[s] + d /\ e \in Nat /\ e = E - d
          /\ k \in Nat /\ k <= Q + d
      BY <3>3, <3>4, <3>5
    <3> HIDE DEF d, n, e, k
    <3>7. n >= k + H + C /\ n + e <= emits + 1
      BY <1>1, <1>2, <1>3, <3>6
    <3> QED
      BY <1>1, <1>4, <2>1, <3>4, <3>5, <3>7 DEF RefsOf, H, C, n, e, k
  <2> QED
    BY <2>2, <2>3
<1>12. ASSUME NEW t \in Clients, IterateResult(t) \/ IterateSignal(t)
       PROVE  RefsOf(s)'
  <2> DEFINE job == Head(from_worker[t])
             d == One(OfSpec(job, s))
  <2>1. /\ UNCHANGED <<ref_count, connected, emission, emits>> /\ from_worker[t] # <<>>
        /\ from_worker' = [from_worker EXCEPT ![t] = Tail(@)]
        /\ \/ hand' = hand /\ job = Result
           \/ /\ pc[t] \notin InHand /\ hand' = [hand EXCEPT ![t] = job] /\ job # Result
    BY <1>12 DEF IterateResult, IterateSignal, Iterating, specVars, emitVars, InHand
  <2>2. IsFiniteSet(Queued(s)') /\ Cardinality(Queued(s)') = Q - d
    <3>1. from_worker \in [Clients -> Seq(Items)]
      BY <1>2
    <3>2. /\ IsFiniteSet(Marks(from_worker', s))
          /\ Cardinality(Marks(from_worker', s)) = Cardinality(Marks(from_worker, s)) - d
      BY <1>Q, <2>1, <3>1, MarksTail
    <3> QED
      BY <1>Q, <3>2
  <2>3. d \in {0, 1} /\ Cardinality(Queued(s)') \in Nat
    BY <2>2, FS_CardinalityType DEF One
  <2>4. from_worker[t] \in Seq(Items)
    BY <1>2
  <2>5. job \in Items /\ job # NULL
    BY <2>1, <2>4, QueueFacts, ItemFacts
  <2> HIDE DEF d
  <2>6. IsFiniteSet(InHands(s)') /\ Cardinality(InHands(s)') = H + d
    <3>1. CASE hand' = hand /\ job = Result
      <4>1. d = 0
        BY <3>1, ItemFacts DEF d, OfSpec, One
      <4> QED
        BY <1>1, <1>3, <1>4, <3>1, <4>1 DEF H
    <3>2. CASE /\ pc[t] \notin InHand /\ hand' = [hand EXCEPT ![t] = job] /\ job # Result
      <4>1. hand[t] = NULL
        BY <3>2 DEF IInv, JobsInv
      <4> HIDE DEF job
      <4>2. OfSpec(job, s) <=> job.spec = s
        BY <2>5, <3>2, ItemFacts DEF OfSpec
      <4>3. \A u \in Clients : hand'[u] = IF u = t THEN job ELSE hand[u]
        BY <1>2, <3>2
      <4>4. /\ t \notin InHands(s)
            /\ InHands(s)' = IF OfSpec(job, s) THEN InHands(s) \cup {t} ELSE InHands(s)
        BY <2>5, <4>1, <4>2, <4>3 DEF InHands
      <4>5. OfSpec(job, s) \in BOOLEAN
        BY DEF OfSpec
      <4> QED
        BY <1>1, <4>4, <4>5, AddedCount DEF H, d, job
    <3> QED
      BY <2>1, <3>1, <3>2
  <2> QED
    BY <1>1, <1>3, <1>4, <2>1, <2>2, <2>3, <2>6 DEF RefsOf, E, C
<1>13. ASSUME NEW t \in Clients, Unref(t)
       PROVE  RefsOf(s)'
  <2> DEFINE r == hand[t].spec
             d == One(r = s)
  <2>1. /\ UNCHANGED <<connected, from_worker, emission, emits>> /\ pc[t] = "handled"
        /\ ref_count' = [ref_count EXCEPT ![r] = @ - 1]
        /\ hand' = [hand EXCEPT ![t] = NULL]
    BY <1>13 DEF Unref, tdVars, emitVars
  <2>2. IsSignal(hand[t])
    BY <2>1 DEF IInv, JobsInv, InHand
  <2>3. hand[t] # NULL /\ r \in Specs
    BY <2>2, SignalFacts
  <2>4. ref_count'[s] = ref_count[s] - d /\ d \in {0, 1}
    BY <1>2, <2>1, <2>3 DEF One
  <2>5. \A u \in Clients : hand'[u] = IF u = t THEN NULL ELSE hand[u]
    BY <1>2, <2>1
  <2>6. InHands(s)' = InHands(s) \ {t} /\ (t \in InHands(s) <=> r = s)
    BY <2>3, <2>5 DEF InHands
  <2> HIDE DEF r
  <2>7. IsFiniteSet(InHands(s)') /\ Cardinality(InHands(s)') = H - One(t \in InHands(s))
    BY <1>1, <2>6, RemovedCount DEF H
  <2>8. One(t \in InHands(s)) = d /\ Cardinality(InHands(s)') \in Nat
    BY <2>6, <2>7, FS_CardinalityType DEF One
  <2> HIDE DEF d
  <2>9. /\ ref_count'[s] >= Q + Cardinality(InHands(s)') + C
        /\ ref_count'[s] + E <= emits + 1
    <3> DEFINE n == ref_count'[s]
               k == Cardinality(InHands(s)')
    <3>1. d \in {0, 1} /\ n = ref_count[s] - d /\ k \in Nat /\ k = H - d
      BY <2>4, <2>7, <2>8
    <3> HIDE DEF n, k
    <3>2. n >= Q + k + C /\ n + E <= emits + 1
      BY <1>1, <1>2, <1>3, <3>1
    <3> QED
      BY <3>2 DEF n, k
  <2> QED
    BY <1>1, <1>4, <2>1, <2>7, <2>9 DEF RefsOf, Q, E, C
<1>14. CASE UNCHANGED <<ref_count, connected, from_worker, hand, emission, emits>>
  BY <1>1, <1>4, <1>14 DEF RefsOf, Q, H, E, C
<1> QED
  BY <1>5, <1>6, <1>7, <1>8, <1>9, <1>10, <1>11, <1>12, <1>13, <1>14, RefsSteps

-----------------------------------------------------------------------------
(* IInv holds in every reachable state, and TypeOK with it.                *)
THEOREM SignalsInvariance == Spec => [](IInv /\ TypeOK)
<1>1. Init => IInv
  BY InitIsInvariant
<1>2. IInv /\ [Next]_vars => IInv'
  <2> SUFFICES ASSUME IInv, [Next]_vars PROVE IInv'
    OBVIOUS
  <2>1. Shapes' /\ ListInv' /\ JobsInv' /\ EmitInv' /\ OwnInv' /\ JobsCounted' /\ RefsCounted'
    BY ShapesStep, ListStep, JobsStep, EmitStep, OwnStep, JobsCountedStep, RefsStep
  <2> QED
    BY <2>1 DEF IInv
<1> QED
  BY <1>1, <1>2, TypesFollow, PTL DEF Spec

(* A SignalSpec is not freed while something refers to it: each signal job *)
(* holds a reference, and so does the one thread whose ThreadData lists it *)
(* (connect_raw, disconnect, the marshaller's push, iterate's unref).      *)
THEOREM SpecsOutliveTheirJobs == Spec => []SpecOutlivesItsJobs
<1>1. IInv /\ TypeOK => SpecOutlivesItsJobs
  <2> SUFFICES ASSUME IInv, TypeOK, NEW s \in Specs
               PROVE  ref_count[s] >= Cardinality(Queued(s)) + Cardinality(InHands(s))
                                        + Cardinality(Listing(s))
    BY DEF SpecOutlivesItsJobs
  <2>1. ref_count[s] >= Cardinality(Queued(s)) + Cardinality(InHands(s)) + One(s \in connected)
    BY DEF IInv, RefsCounted, RefsOf
  <2>2. Cardinality(Listing(s)) = One(s \in connected)
    <3>1. CASE s \in connected
      <4>1. PICK t \in Clients : s \in signals_list[t]
        BY <3>1 DEF IInv, ListInv
      <4>2. Listing(s) = {t}
        BY <4>1 DEF IInv, ListInv, Listing
      <4> QED
        BY <3>1, <4>2, FS_Singleton DEF One
    <3>2. CASE s \notin connected
      <4>1. Listing(s) = {}
        BY <3>2 DEF IInv, ListInv, Listing
      <4> QED
        BY <3>2, <4>1, FS_EmptySet DEF One
    <3> QED
      BY <3>1, <3>2
  <2> QED
    BY <2>1, <2>2
<1> QED
  BY <1>1, SignalsInvariance, PTL

(* A connected signal has its callback in the ThreadData of one thread,    *)
(* into whose queue its jobs go, whatever is disconnected, stolen, fetched *)
(* or disposed of in which order.                                          *)
THEOREM DeliveredToItsThread == Spec => []DeliveredWhereListed
<1>1. IInv => DeliveredWhereListed
  BY DEF IInv, ListInv, DeliveredWhereListed, Listing
<1> QED
  BY <1>1, SignalsInvariance, PTL

(* As long as threads keep to their own signals, no callback is called of  *)
(* a signal that was disconnected, and a private_job signal is only heard  *)
(* of by the thread whose job emitted it.                                  *)
THEOREM NothingIsUnasked == Spec => []NothingUnasked
<1>1. IInv => NothingUnasked
  <2> SUFFICES ASSUME IInv PROVE NothingUnasked
    OBVIOUS
  <2>1. DisconnectedNeverCalled
    BY DEF IInv, OwnInv, DisconnectedNeverCalled
  <2>2. ASSUME ~foreign, NEW t \in Clients, NEW i \in DOMAIN from_worker[t],
               from_worker[t][i].type = "signal", kind[from_worker[t][i].spec] = "job"
        PROVE  from_worker[t][i].during = t
    <3>1. from_worker[t] \in Seq(Items)
      BY DEF IInv, Shapes
    <3>2. i \in 1..Len(from_worker[t])
      BY <3>1
    <3>3. from_worker[t][i] # Result
      BY <2>2, ItemFacts
    <3> QED
      BY <2>2, <3>2, <3>3 DEF IInv, OwnInv, Asked
  <2>3. PrivateJobOnly
    BY <2>2 DEF PrivateJobOnly
  <2> QED
    BY <2>1, <2>3 DEF NothingUnasked
<1> QED
  BY <1>1, SignalsInvariance, PTL
=============================================================================
