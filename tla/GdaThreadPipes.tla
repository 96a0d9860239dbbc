----------------------------- MODULE GdaThreadPipes -----------------------------
(***************************************************************************)
(* The notification pipes of libgda's GdaThreadWrapper                     *)
(* (gda-thread-wrapper-vs10.c): a thread that calls get_io_channel() can   *)
(* wait in its main loop for the results of its jobs and for signals.  A   *)
(* Pipe is counted: the wrapper, the ThreadData, every job, every          *)
(* SignalSpec and whoever is writing to it have a reference.               *)
(*                                                                         *)
(* One thread, the owner, uses the wrapper; the worker executes its jobs;  *)
(* the worker and other threads emit the signals it connected.  A write    *)
(* to a full pipe waits until the owner reads, one to a pipe whose reading *)
(* end is closed fails.                                                    *)
(*                                                                         *)
(* The use of a freed job, or of a descriptor that may by now be another   *)
(* file's, has no defined outcome: broken then says which it was, and the  *)
(* behaviour stops.                                                        *)
(*                                                                         *)
(* A definition that no other uses and that stands just before another     *)
(* (WriteOrDrop before Write) is a seeded fault: the mutation runs put it  *)
(* in the place of the one below to see the properties fail.               *)
(***************************************************************************)
EXTENDS Integers, Sequences, FiniteSets

CONSTANTS
    Worker,     \* wrapper->priv->worker_thread
    Others,     \* the threads, neither the owner nor the worker, that emit
    Pipes,
    Specs,      \* the SignalSpecs, each of them connected once
    NULL,
    Failure,    \* a job of type JOB_TYPE_NOTIFICATION_ERROR
    Capacity,   \* how many GdaThreadNotifications a pipe has room for
    MaxJobs,    \* bound: how many jobs are submitted
    MaxEmits    \* bound: how many signals are emitted

ASSUME BoundsAssumption ==
    Capacity \in Nat \ {0} /\ MaxJobs \in Nat /\ MaxEmits \in Nat

Writers == {Worker} \cup Others
Jobs == 1..MaxJobs
Items == Jobs \cup Specs \cup {Failure}

(* Threads, pipes, jobs, SignalSpecs and failures are not each other.      *)
ASSUME NamesAssumption ==
    /\ IsFiniteSet(Specs) /\ IsFiniteSet(Others)
    /\ NULL \notin Pipes \cup Writers \cup Items
    /\ Failure \notin Jobs \cup Specs /\ Specs \cap Jobs = {}

VARIABLES
    pipes_hash,     \* the owner's Pipe in wrapper->priv->pipes_hash
    channel,        \* the Pipe whose GIOChannel the owner uses
    td, notif,      \* whether the owner has a ThreadData, and td->notif
    from_worker,    \* td->from_worker_thread
    signals_list,   \* td->signals_list
    made,           \* the pipes pipe_new() has made
    ref_count,
    reading, writing,   \* the pipes whose fds[0], fds[1] is open
    content,            \* what is written and not read
    to_worker, current, \* the worker's queue, and the job it executes
    stage, job_notif,   \* where a job is, and job->notif
    created,    \* the SignalSpecs there are or were
    spec_refs, spec_notif, locked,  \* their ref_count, notif, and who has their mutex
    write,          \* where a writer is in write_notification()
    pc, subject, may_block, \* the call the owner is in, about what, and its argument
    told,           \* history: what was read from the channel and not dealt with
    submitted, emits,
    disposed, broken

channelVars == <<pipes_hash, channel>>
tdVars == <<td, notif, from_worker, signals_list>>
endVars == <<made, reading, writing, content>>
jobVars == <<to_worker, current, stage, job_notif, submitted>>
specVars == <<created, spec_refs, spec_notif, locked>>
callVars == <<pc, subject, may_block>>
vars == <<channelVars, tdVars, endVars, ref_count, jobVars, specVars, write, callVars,
          told, emits, disposed, broken>>

NoWrite == [at |-> "none", pipe |-> NULL, item |-> NULL]
Calls == {"idle", "pop", "callback", "clean", "unset", "disconnect", "dispose"}

TypeOK ==
    /\ pipes_hash \in Pipes \cup {NULL} /\ channel \in Pipes \cup {NULL}
    /\ td \in BOOLEAN /\ notif \in Pipes \cup {NULL}
    /\ from_worker \in Seq(Items) /\ signals_list \subseteq Specs
    /\ made \subseteq Pipes /\ reading \subseteq made /\ writing \subseteq made
    /\ ref_count \in [Pipes -> Nat]
    /\ content \in [Pipes -> Seq(Items)] /\ \A p \in Pipes : Len(content[p]) <= Capacity
    /\ to_worker \in Seq(Jobs) /\ current \in Jobs \cup {NULL}
    /\ stage \in [Jobs -> {"new", "queued", "cancelled", "running",
                          "pushed", "popped", "freed"}]
    /\ job_notif \in [Jobs -> Pipes \cup {NULL}]
    /\ created \subseteq Specs
    /\ spec_refs \in [Specs -> Nat]
    /\ spec_notif \in [Specs -> Pipes \cup {NULL}]
    /\ locked \in [Specs -> Writers \cup {NULL}]
    /\ write \in [Writers -> [at : {"none", "test", "write", "failed", "report"},
                              pipe : Pipes \cup {NULL}, item : Items \cup {NULL}]]
    /\ pc \in Calls /\ subject \in Specs \cup {NULL} /\ may_block \in BOOLEAN
    /\ told \subseteq Items /\ submitted \in 0..MaxJobs /\ emits \in 0..MaxEmits
    /\ disposed \in BOOLEAN /\ broken \in {"no", "job", "descriptor"}

Init ==
    /\ pipes_hash = NULL /\ channel = NULL
    /\ td = FALSE /\ notif = NULL /\ from_worker = <<>> /\ signals_list = {}
    /\ made = {} /\ ref_count = [p \in Pipes |-> 0]
    /\ reading = {} /\ writing = {} /\ content = [p \in Pipes |-> <<>>]
    /\ to_worker = <<>> /\ current = NULL
    /\ stage = [j \in Jobs |-> "new"] /\ job_notif = [j \in Jobs |-> NULL]
    /\ created = {}
    /\ spec_refs = [s \in Specs |-> 0] /\ spec_notif = [s \in Specs |-> NULL]
    /\ locked = [s \in Specs |-> NULL]
    /\ write = [w \in Writers |-> NoWrite]
    /\ pc = "idle" /\ subject = NULL /\ may_block = FALSE
    /\ told = {} /\ submitted = 0 /\ emits = 0 /\ disposed = FALSE /\ broken = "no"

-----------------------------------------------------------------------------
(* pipe_ref() and pipe_unref() do nothing for NULL.  The last reference    *)
(* closes what is open and frees.                                          *)
Freed(p) == p \in made /\ ref_count[p] = 0

Ref(p) == ref_count' = [q \in Pipes |-> ref_count[q] + (IF q = p THEN 1 ELSE 0)]
Unref(p) == ref_count' = [q \in Pipes |-> ref_count[q] - (IF q = p THEN 1 ELSE 0)]

(* The pointers to pipes: who has it, and to which pipe; and the step that *)
(* gives several of these references back.                                 *)
HashRef == <<"pipes_hash", NULL, pipes_hash>>
TdRef == <<"td", NULL, notif>>
JobRef(j) == <<"job", j, job_notif[j]>>
SpecRef(s) == <<"spec", s, spec_notif[s]>>

UnrefAll(refs) ==
    ref_count' = [q \in Pipes |-> ref_count[q] - Cardinality({r \in refs : r[3] = q})]

(* The owner calls the wrapper from its main loop.                         *)
CanCall == broken = "no" /\ ~disposed /\ pc = "idle"

GetChannel ==
    /\ CanCall
    /\ \/ /\ pipes_hash # NULL
          /\ channel' = pipes_hash
          /\ UNCHANGED <<pipes_hash, endVars, ref_count>>
       \/ /\ pipes_hash = NULL /\ made # Pipes
          /\ LET p == CHOOSE q \in Pipes : q \notin made IN
             /\ pipes_hash' = p /\ channel' = p
             /\ made' = made \cup {p}
             /\ reading' = reading \cup {p} /\ writing' = writing \cup {p}
             /\ Ref(p) /\ UNCHANGED content
    /\ UNCHANGED <<tdVars, jobVars, specVars, write, callVars, told, emits,
                   disposed, broken>>

(* unset_io_channel(): nothing without a ThreadData or without a pipe.     *)
UnsetChannel ==
    /\ CanCall /\ channel # NULL
    /\ channel' = NULL
    /\ pc' = IF td /\ pipes_hash # NULL THEN "unset" ELSE pc
    /\ UNCHANGED <<pipes_hash, tdVars, endVars, ref_count, jobVars, specVars,
                   write, subject, may_block, told, emits, disposed, broken>>

(* The owner reads a notification, or, as the header's example does when   *)
(* something is wrong, shuts its channel down.                             *)
Read ==
    /\ CanCall /\ channel \in reading /\ content[channel] # <<>>
    /\ told' = told \cup {Head(content[channel])}
    /\ content' = [content EXCEPT ![channel] = Tail(@)]
    /\ UNCHANGED <<channelVars, tdVars, made, reading, writing, ref_count,
                   jobVars, specVars, write, callVars, emits, disposed, broken>>
Shutdown ==
    /\ CanCall /\ channel # NULL
    /\ reading' = reading \ {channel} /\ channel' = NULL
    /\ UNCHANGED <<pipes_hash, tdVars, made, writing, content, ref_count,
                   jobVars, specVars, write, callVars, told, emits, disposed,
                   broken>>

(* get_thread_data(): the ThreadData of the owner, made if there is none,  *)
(* and a job or SignalSpec with one more reference to its pipe.            *)
ThreadDataNotif == IF td THEN notif ELSE pipes_hash
RefByThreadData ==
    LET p == ThreadDataNotif IN
    /\ td' = TRUE /\ notif' = p
    /\ ref_count' = [q \in Pipes |-> ref_count[q] +
           (IF q # p THEN 0 ELSE IF td THEN 1 ELSE 2)]

Execute ==
    /\ CanCall /\ submitted < MaxJobs
    /\ LET j == submitted + 1 IN
       /\ submitted' = j
       /\ stage' = [stage EXCEPT ![j] = "queued"]
       /\ job_notif' = [job_notif EXCEPT ![j] = ThreadDataNotif]
       /\ to_worker' = Append(to_worker, j)
    /\ RefByThreadData
    /\ UNCHANGED <<channelVars, from_worker, signals_list, endVars, current,
                   specVars, write, callVars, told, emits, disposed, broken>>

Connect(s) ==
    /\ CanCall /\ s \notin created
    /\ created' = created \cup {s}
    /\ signals_list' = signals_list \cup {s}
    /\ spec_refs' = [spec_refs EXCEPT ![s] = 1]
    /\ spec_notif' = [spec_notif EXCEPT ![s] = ThreadDataNotif]
    /\ RefByThreadData
    /\ UNCHANGED <<channelVars, from_worker, endVars, jobVars, locked, write,
                   callVars, told, emits, disposed, broken>>

Cancel(j) ==
    /\ CanCall /\ stage[j] = "queued"
    /\ stage' = [stage EXCEPT ![j] = "cancelled"]
    /\ UNCHANGED <<channelVars, tdVars, endVars, ref_count, to_worker, current,
                   job_notif, submitted, specVars, write, callVars, told, emits,
                   disposed, broken>>

(* What fetch_result() and disconnect() look at before they remove the     *)
(* ThreadData: its results, jobs, queue and signals.                       *)
Useless(ended, signals) ==
    /\ \A j \in Jobs \ ended : stage[j] \in {"new", "cancelled", "freed"}
    /\ from_worker = <<>> /\ signals = {}

FetchResult(j) ==
    /\ CanCall /\ stage[j] = "popped"
    /\ stage' = [stage EXCEPT ![j] = "freed"]
    /\ LET gone == Useless({j}, signals_list) IN
       /\ td' = ~gone /\ notif' = IF gone THEN NULL ELSE notif
       /\ UnrefAll({JobRef(j)} \cup (IF gone THEN {TdRef} ELSE {}))
    /\ UNCHANGED <<channelVars, from_worker, signals_list, endVars, to_worker,
                   current, job_notif, submitted, specVars, write, callVars,
                   told, emits, disposed, broken>>

(* A call that has to wait for the mutex of a SignalSpec.                  *)
Enter(call, s) ==
    /\ CanCall /\ pc' = call /\ subject' = s
    /\ UNCHANGED <<channelVars, tdVars, endVars, ref_count, jobVars, specVars,
                   write, may_block, told, emits, disposed, broken>>
DisconnectCalled(s) == s \in signals_list /\ Enter("disconnect", s)
DisposeCalled == Enter("dispose", NULL)
Unlocked(signals) == \A s \in signals : locked[s] = NULL

Disconnect ==
    /\ broken = "no" /\ pc = "disconnect" /\ Unlocked({subject})
    /\ LET gone == Useless({}, signals_list \ {subject})
           last == spec_refs[subject] = 1 IN
       /\ td' = ~gone /\ notif' = IF gone THEN NULL ELSE notif
       /\ UnrefAll((IF gone THEN {TdRef} ELSE {}) \cup
                   (IF last THEN {SpecRef(subject)} ELSE {}))
    /\ signals_list' = signals_list \ {subject}
    /\ spec_refs' = [spec_refs EXCEPT ![subject] = @ - 1]
    /\ pc' = "idle" /\ subject' = NULL
    /\ UNCHANGED <<channelVars, from_worker, endVars, jobVars, created,
                   spec_notif, locked, write, may_block, told, emits, disposed,
                   broken>>

(* clean_notifications(): of the signals' pipes those that are td->notif,  *)
(* td->notif itself, and the owner's entry in pipes_hash, whichever it is. *)
CleanNotifications ==
    /\ broken = "no" /\ pc \in {"clean", "unset"} /\ Unlocked(signals_list)
    /\ LET same == {s \in signals_list : spec_notif[s] = notif} IN
       /\ UnrefAll({TdRef, HashRef} \cup {SpecRef(s) : s \in same})
       /\ spec_notif' = [s \in Specs |-> IF s \in same THEN NULL ELSE spec_notif[s]]
    /\ notif' = NULL /\ pipes_hash' = NULL
    /\ pc' = "idle"
    /\ UNCHANGED <<channel, td, from_worker, signals_list, endVars, jobVars,
                   created, spec_refs, locked, write, subject, may_block, told,
                   emits, disposed, broken>>

(* The ThreadData goes with its results and the references to its signals, *)
(* the waiting jobs are cancelled, and pipes_hash goes.                    *)
Dispose ==
    /\ broken = "no" /\ pc = "dispose" /\ Unlocked(signals_list)
    /\ LET results == {j \in Jobs : stage[j] = "popped"}
           last == {s \in signals_list : spec_refs[s] = 1} IN
       /\ UnrefAll({TdRef, HashRef} \cup {JobRef(j) : j \in results}
                                    \cup {SpecRef(s) : s \in last})
       /\ stage' = [j \in Jobs |-> IF j \in results THEN "freed"
                                   ELSE IF stage[j] = "queued" THEN "cancelled"
                                   ELSE stage[j]]
       /\ spec_refs' = [s \in Specs |->
              spec_refs[s] - (IF s \in signals_list THEN 1 ELSE 0)]
    /\ td' = FALSE /\ notif' = NULL /\ signals_list' = {} /\ pipes_hash' = NULL
    /\ channel' = NULL /\ pc' = "idle" /\ disposed' = TRUE
    /\ UNCHANGED <<from_worker, endVars, to_worker, current, job_notif,
                   submitted, created, spec_notif, locked, write, subject,
                   may_block, told, emits, broken>>

-----------------------------------------------------------------------------
(* iterate(), which goes on after a signal, and returns after a result, a  *)
(* failure, or when there is nothing and it may not block.                 *)
Iterate ==
    /\ CanCall /\ td
    /\ pc' = "pop" /\ may_block' \in BOOLEAN
    /\ UNCHANGED <<channelVars, tdVars, endVars, ref_count, jobVars, specVars,
                   write, subject, told, emits, disposed, broken>>

Pop ==
    /\ broken = "no" /\ pc = "pop" /\ from_worker # <<>>
    /\ LET item == Head(from_worker) IN
       /\ pc' = CASE item \in Specs -> "callback" [] item = Failure -> "clean"
                  [] OTHER -> "idle"
       /\ subject' = IF item \in Specs THEN item ELSE subject
       /\ stage' = [j \in Jobs |-> IF j = item THEN "popped" ELSE stage[j]]
    /\ from_worker' = Tail(from_worker)
    /\ UNCHANGED <<channelVars, td, notif, signals_list, endVars, ref_count,
                   to_worker, current, job_notif, submitted, specVars, write,
                   may_block, told, emits, disposed, broken>>

PopNothing ==
    /\ broken = "no" /\ pc = "pop" /\ from_worker = <<>> /\ ~may_block
    /\ pc' = "idle" /\ told' = told \ Specs
    /\ UNCHANGED <<channelVars, tdVars, endVars, ref_count, jobVars, specVars,
                   write, subject, may_block, emits, disposed, broken>>

(* Back from the callback, the reference the signal job had is given back. *)
CallbackReturns ==
    /\ broken = "no" /\ pc = "callback" /\ Unlocked({subject})
    /\ spec_refs' = [spec_refs EXCEPT ![subject] = @ - 1]
    /\ IF spec_refs[subject] = 1
       THEN Unref(spec_notif[subject]) ELSE UNCHANGED ref_count
    /\ pc' = "pop" /\ subject' = NULL
    /\ UNCHANGED <<channelVars, tdVars, endVars, jobVars, created, spec_notif,
                   locked, write, may_block, told, emits, disposed, broken>>

-----------------------------------------------------------------------------
(* The worker frees a cancelled job, or executes it, pushes it into the    *)
(* reply queue, and then writes the notification to the pipe it has taken  *)
(* a reference of before.                                                  *)
WorkerPop ==
    /\ broken = "no" /\ current = NULL /\ write[Worker] = NoWrite /\ to_worker # <<>>
    /\ LET j == Head(to_worker) IN
       IF stage[j] = "cancelled"
       THEN /\ stage' = [stage EXCEPT ![j] = "freed"] /\ Unref(job_notif[j])
            /\ UNCHANGED current
       ELSE /\ stage' = [stage EXCEPT ![j] = "running"] /\ current' = j
            /\ UNCHANGED ref_count
    /\ to_worker' = Tail(to_worker)
    /\ UNCHANGED <<channelVars, tdVars, endVars, job_notif, submitted, specVars,
                   write, callVars, told, emits, disposed, broken>>

NotifyWithoutReference(w, item, p) ==
    /\ write' = [write EXCEPT ![w] = [at |-> "test", pipe |-> p, item |-> item]]
    /\ UNCHANGED ref_count
Notify(w, item, p) ==
    /\ write' = [write EXCEPT ![w] = [at |-> "test", pipe |-> p, item |-> item]]
    /\ Ref(p)

WorkerReply ==
    /\ broken = "no" /\ current # NULL /\ write[Worker] = NoWrite
    /\ Notify(Worker, current, job_notif[current])
    /\ from_worker' = Append(from_worker, current)
    /\ stage' = [stage EXCEPT ![current] = "pushed"]
    /\ current' = NULL
    /\ UNCHANGED <<channelVars, td, notif, signals_list, endVars, to_worker,
                   job_notif, submitted, specVars, callVars, told, emits,
                   disposed, broken>>

(* The marshaller of a connected signal, with the mutex of the spec, which *)
(* it keeps until the notification is written.                             *)
Emit(w, s) ==
    /\ broken = "no" /\ write[w] = NoWrite /\ emits < MaxEmits
    /\ w = Worker => current # NULL
    /\ s \in signals_list /\ locked[s] = NULL
    /\ locked' = [locked EXCEPT ![s] = w]
    /\ spec_refs' = [spec_refs EXCEPT ![s] = @ + 1]
    /\ Notify(w, s, spec_notif[s])
    /\ from_worker' = Append(from_worker, s)
    /\ emits' = emits + 1
    /\ UNCHANGED <<channelVars, td, notif, signals_list, endVars, jobVars,
                   created, spec_notif, callVars, told, disposed, broken>>

(* write_notification(): nothing without a pipe or with its writing end    *)
(* closed; otherwise the write, before which another writer's may fail.    *)
Unlock(w) == locked' = [s \in Specs |-> IF locked[s] = w THEN NULL ELSE locked[s]]

NothingToWrite(w) ==
    /\ broken = "no" /\ write[w].at = "test"
    /\ write[w].pipe \notin writing
    /\ Unref(write[w].pipe)
    /\ write' = [write EXCEPT ![w] = NoWrite] /\ Unlock(w)
    /\ UNCHANGED <<channelVars, tdVars, endVars, jobVars, created, spec_refs,
                   spec_notif, callVars, told, emits, disposed, broken>>

WriteBegin(w) ==
    /\ broken = "no" /\ write[w].at = "test"
    /\ write[w].pipe \in writing
    /\ write' = [write EXCEPT ![w].at = "write"]
    /\ UNCHANGED <<channelVars, tdVars, endVars, ref_count, jobVars, specVars,
                   callVars, told, emits, disposed, broken>>

Full(p) == Len(content[p]) >= Capacity

WriteOrDrop(w) ==
    /\ broken = "no" /\ write[w].at = "write"
    /\ LET p == write[w].pipe IN
       /\ p \in writing \cap reading
       /\ content' = [content EXCEPT ![p] =
              IF Full(p) THEN @ ELSE Append(@, write[w].item)]
       /\ Unref(p)
    /\ write' = [write EXCEPT ![w] = NoWrite] /\ Unlock(w)
    /\ UNCHANGED <<channelVars, tdVars, made, reading, writing, jobVars,
                   created, spec_refs, spec_notif, callVars, told, emits,
                   disposed, broken>>
Write(w) ==
    /\ broken = "no" /\ write[w].at = "write"
    /\ LET p == write[w].pipe IN
       /\ p \in writing \cap reading /\ ~Full(p)
       /\ content' = [content EXCEPT ![p] = Append(@, write[w].item)]
       /\ Unref(p)
    /\ write' = [write EXCEPT ![w] = NoWrite] /\ Unlock(w)
    /\ UNCHANGED <<channelVars, tdVars, made, reading, writing, jobVars,
                   created, spec_refs, spec_notif, callVars, told, emits,
                   disposed, broken>>

(* The writing end was closed since it was tested: the number may by now   *)
(* be that of another file.                                                *)
WriteElsewhere(w) ==
    /\ broken = "no" /\ write[w].at = "write"
    /\ write[w].pipe \notin writing
    /\ broken' = "descriptor"
    /\ UNCHANGED <<channelVars, tdVars, endVars, ref_count, jobVars, specVars,
                   write, callVars, told, emits, disposed>>

(* Nobody can read what would be written: the writing end is closed ...    *)
WriteIsRetried(w) ==
    /\ broken = "no" /\ write[w].at = "write"
    /\ write[w].pipe \in writing \ reading
    /\ write' = [write EXCEPT ![w].at = "test"]
    /\ UNCHANGED <<channelVars, tdVars, endVars, ref_count, jobVars, specVars,
                   callVars, told, emits, disposed, broken>>
WriteFails(w) ==
    /\ broken = "no" /\ write[w].at = "write"
    /\ LET p == write[w].pipe IN
       /\ p \in writing \ reading
       /\ writing' = writing \ {p}
       /\ Unref(p)
    /\ write' = [write EXCEPT ![w].at = "report"]
    /\ UNCHANGED <<channelVars, tdVars, made, reading, content, jobVars,
                   specVars, callVars, told, emits, disposed, broken>>

(* ... and the owner is told in the reply queue, which the worker finds in *)
(* the job it has given back.                                              *)
Report(w) ==
    /\ broken = "no" /\ write[w].at = "report"
    /\ LET item == write[w].item IN
       IF item \in Jobs /\ stage[item] = "freed"
       THEN broken' = "job" /\ UNCHANGED from_worker
       ELSE from_worker' = Append(from_worker, Failure) /\ UNCHANGED broken
    /\ write' = [write EXCEPT ![w] = NoWrite] /\ Unlock(w)
    /\ UNCHANGED <<channelVars, td, notif, signals_list, endVars, ref_count,
                   jobVars, created, spec_refs, spec_notif, callVars, told,
                   emits, disposed>>

-----------------------------------------------------------------------------
OwnerReturns ==
    \/ Disconnect \/ CleanNotifications \/ Dispose
    \/ Pop \/ PopNothing \/ CallbackReturns

Owner ==
    \/ GetChannel \/ UnsetChannel \/ Read \/ Shutdown
    \/ Execute \/ Iterate \/ DisposeCalled
    \/ \E s \in Specs : Connect(s) \/ DisconnectCalled(s)
    \/ \E j \in Jobs : Cancel(j) \/ FetchResult(j)
    \/ OwnerReturns

Writing(w) ==
    \/ NothingToWrite(w) \/ WriteBegin(w)
    \/ Write(w) \/ WriteElsewhere(w) \/ WriteFails(w)
    \/ Report(w)

Next ==
    \/ Owner
    \/ WorkerPop \/ WorkerReply
    \/ \E w \in Writers : Writing(w) \/ \E s \in Specs : Emit(w, s)

(* The threads run, and the owner's main loop reads its channel when it is *)
(* not in a call.                                                          *)
Fairness ==
    /\ WF_vars(OwnerReturns)
    /\ SF_vars(Read)
    /\ \A w \in Writers : WF_vars(Writing(w))

Spec == Init /\ [][Next]_vars /\ Fairness

-----------------------------------------------------------------------------
(* The pointers to pipes there are.                                        *)
Pointers ==
    {HashRef, TdRef} \cup {JobRef(j) : j \in {k \in Jobs : stage[k] # "freed"}}
      \cup {SpecRef(s) : s \in {k \in Specs : spec_refs[k] > 0}}
      \cup {<<"writer", w, write[w].pipe>> :
               w \in {k \in Writers : write[k].at # "report"}}

(* A pipe is freed when, and only when, the last pointer to it is gone,    *)
(* in whatever order the owner, the worker and the emitters let go.        *)
RefsCounted ==
    \A p \in Pipes : ref_count[p] = Cardinality({r \in Pointers : r[3] = p})

(* The channel the owner has is only freed when it was itself shut down,   *)
(* or when a pipe before it failed and the owner asked for another before  *)
(* it was told: the failure it is then told of removes the new one.        *)
ChannelUsable ==
    channel # NULL /\ Freed(channel) =>
        channel \notin reading \/ \E p \in made \ {channel} : p \notin writing

(* The pipes are there as long as somebody needs them.                     *)
PipesSound == TypeOK /\ RefsCounted /\ ChannelUsable

(* For what is in the owner's queue and was to be notified through the     *)
(* channel it has, the notification is in the pipe, read, or about to be   *)
(* written: a main loop that waits for the channel only misses nothing.    *)
ItemPipe(x) == IF x \in Jobs THEN job_notif[x] ELSE spec_notif[x]
NothingMissed ==
    channel \in writing =>
    \A x \in {from_worker[i] : i \in DOMAIN from_worker} \ {Failure} :
        ItemPipe(x) = channel =>
            \/ x \in told
            \/ \E k \in DOMAIN content[channel] : content[channel][k] = x
            \/ \E w \in Writers : write[w].item = x

(* A pipe that cannot be written to any more is not kept for further jobs: *)
(* the failure is in the owner's queue, or will be.                        *)
FailureReported ==
    broken = "no" /\ notif # NULL /\ notif \notin writing =>
        \/ pc = "clean"
        \/ \E i \in DOMAIN from_worker : from_worker[i] = Failure
        \/ \E w \in Writers : write[w].at = "report"

(* The owner is told of everything it waits for, or that it will not be.   *)
OwnerIsTold == NothingMissed /\ FailureReported

(* The owner waits for the mutex of a SignalSpec whose emitter waits for   *)
(* room in the pipe, or in iterate() for what is to come.                  *)
WaitsFor(signals, p) ==
    \E s \in signals, w \in Writers : locked[s] = w /\ write[w].pipe = p
OwnerCannotRead(p) ==
    \/ channel # p
    \/ pc \in {"callback", "disconnect"} /\ WaitsFor({subject}, p)
    \/ pc \in {"clean", "unset", "dispose"} /\ WaitsFor(signals_list, p)
    \/ pc = "pop" /\ may_block /\ from_worker = <<>>
Stuck(w) ==
    LET p == write[w].pipe IN
    write[w].at = "write" /\ p \in reading /\ Full(p) /\ OwnerCannotRead(p)

(* The worker, or another thread that emits, is done with a notification   *)
(* in the end, also when the channel was shut down; but for a full pipe    *)
(* whose owner gave the channel back or waits, in the wrapper, for them.   *)
WritersGoOn ==
    \A w \in Writers :
        write[w] # NoWrite ~> write[w] = NoWrite \/ Stuck(w) \/ broken # "no"
=============================================================================
