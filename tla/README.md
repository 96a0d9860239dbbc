# A TLA+ development for libgda's threads and transactions

The repository is a Windows port of GLib's neighbours: mostly headers, import
libraries and introspection data, and, under `src/vs10`, the sources that had to be
changed to build them. The largest body of program logic there is **libgda**
(`src/vs10/libgda`), and within libgda the code that is hard to test is the code that
runs in two threads or in two databases at once. That is what this project models,
checks with TLC and, for the core, proves with TLAPS.

All `*.c` file names below are in `src/vs10/libgda` and lack their `-vs10.c` suffix
unless they say otherwise.

## 1. The system and its parts

| Part | State | Operations | What is hard | What makes it correct |
|---|---|---|---|---|
| **GdaThreadWrapper, jobs** (`gda-thread-wrapper`) | a queue to one worker thread, a reply queue and two job lists for each using thread, flags of a job | execute, execute_void, cancel, iterate, fetch_result, get_waiting_size, dispose, the worker's loop | every client against the worker; who frees a job; dispose against the worker; functions that use the wrapper themselves | a job is executed once or cancelled, held by one party, freed and its argument destroyed once; waiting callers get their answer |
| **GdaThreadWrapper, signals** (same file) | SignalSpecs with a reference count, listed by a thread | connect_raw, disconnect, steal_signal, the closure marshallers, the signal half of iterate | emission in one thread, delivery in another, disconnection in a third; callbacks that call back | delivered to the thread that listens, never after disconnect, no use after free |
| **GdaThreadWrapper, notification pipes** (same file) | pipes with a reference count | get_io_channel, unset_io_channel, write_notification, clean_notifications | shared by the wrapper, thread data, jobs, signal specs and writers; full pipes; closed reading ends | freed with the last pointer to it; the owner hears of everything, or that it will not; writers go on |
| **GdaThreadProvider, GdaThreadRecordset** | a wrapped connection in the wrapper's thread, a list of jobs waited for | some forty operations as one blocking job each; statement_execute also without waiting; handle_async | the wrapped connection closes or changes its transaction on its own | the outer connection agrees with the wrapped one |
| **GdaConnection, asynchronous statements** (`gda-connection`) | the arrays waiting_tasks and completed_tasks | async_statement_execute, async_fetch_result, async_cancel, the completion callback | polling from several threads, cancellation of the running task, statements modified, connections closed | every task executed once, in order, and given back once |
| **GdaConnection, lock** (same file) | a recursive mutex, a second mutex with a condition, the only thread that may use the connection | lock, trylock, unlock, the property thread-owner, get_meta_store | the owner changes while others lock, wait, or have waited too long; two mutexes in two orders | who has the lock may use the connection; nobody waits for nothing |
| **GdaConnection, transaction status** (same file) | a tree of transactions and savepoints, contexts of meta data to update again, a meta store | begin, commit, rollback, savepoints, DDL, open, close, the recording of every statement | mirrors the server by watching statements; errors and closes that roll back unseen | the status is the server's, the meta store describes the tables there are |
| **GdaConnection, events** (same file) | a circular array of event objects that are reused, a list | point_available_event, add_event, get_events, batches and operations, the history size | reuse of an object somebody has; resizing with three indices; operations that take no lock, handlers inside a batch | a log of the newest events |
| **GdaConnection, prepared statements** (same file) | a table of prepared statements | add, get, del | statements that die | dropped with their statement |
| **GdaXaTransaction** (`gda-xa-transaction`) | member connections, the one that has no distributed transactions | register, unregister, begin, commit, rollback, commit_recovered | the failure of any database call at any point; crashes between PREPARE and COMMIT | all or nothing, or reported for recovery |
| **GdaHolder** (`gda-holder`) | a value, a default, validity flags, two kinds of binding | set and take a value, static values, defaults, force_invalid, not-null, binding | five flags that say in concert whether there is a value; "changed" handlers that call again | bound holders agree; a valid holder has a value |
| **GdaSet** (`gda-set`) | holders grouped by source | add, remove, merge | groups of what was removed | no group without its nodes |
| **GdaDataProxy** (`gda-data-proxy`) | modifications, deletions and new rows over a data model, found by row number; cached ones | set, delete, append, cancel, apply one or all; what the model inserts, removes and resets | rows that shift under the modifications, also while these are applied; an apply refused in the middle | a modification stays with its row; what is shown is what is written; who follows the signals is told |
| GdaDataSelect (`gda-data-select`) | modifications of a SELECT's rows | update, insert, delete | what was written must be read again | |
| Data models, iterators, virtual connections, SQLite provider, meta store, statements and parser, trees, configuration, utilities | caches, trees, files | | mostly single threaded containers and text | |
| gjs, pygobject, gobject-introspection, gettext, GTK+/GDK, pixman (other directories of `src/vs10`) | engine handles, caches | marshalling, parsing, windows | failure cleanup; callbacks freed at the right time | |

How they interact: an application calls **GdaConnection**. When a connection is opened
in a thread of its own, its provider is **GdaThreadProvider**, which makes each call a
job of a **GdaThreadWrapper**; the wrapper's worker calls the real provider on a wrapped
connection. Answers come back through reply queues, and the wrapped connection's signals
(errors, closing, transaction status) through the same queues. Nothing returns by itself:
a client has to call `gda_thread_wrapper_iterate()`, directly or by fetching a result.
**GdaXaTransaction** drives several connections, one database call after the other, in
the thread of its caller.

`PROJECT.json` lists every part, with what is left out of each and why, and every hazard
of this code at its line, with the properties that would catch it going wrong.

## 2. The modules

| Module | Models | Composes |
|---|---|---|
| `Queues` | a queue without some of its elements, by the places that stay | |
| `JobService` | what a job queue promises, abstractly | extends `Queues` |
| `GdaThreadWrapper` | the jobs of the wrapper | implements `JobService` (`ImplementsService`) |
| `GdaThreadWrapper_proofs` | theorems about it, the refinement included | extends it |
| `GdaThreadSignals` | the signals of the wrapper | |
| `GdaThreadSignals_proofs` | theorems about them | extends it |
| `GdaThreadPipes` | the notification pipes of the wrapper | |
| `GdaThreadPipes_proofs` | theorems about them | extends it |
| `GdaCncAsync` | asynchronous statements: connection and thread provider | over `JobService`, by `INSTANCE` |
| `GdaXaTransaction` | distributed transactions, and the databases they run in | |
| `GdaXaTransaction_proofs` | theorems about it | extends it |
| `GdaCncTransactions` | the transaction status and the meta store of a connection | with the SQLite transactions it watches |
| `GdaCncTransactions_proofs` | theorems about them | extends it |
| `GdaConnectionLock` | the lock of a connection | |
| `EventLog` | what the events of a connection are to a user, abstractly | |
| `GdaConnectionEvents` | the circular array of events | implements `EventLog` (`ImplementsLog`) |
| `GdaConnection_proofs` | theorems about the lock, the events (the refinement included) and the asynchronous statements | extends the three |
| `GdaHolder` | values, defaults, validity, bindings and emissions | |
| `GdaHolder_proofs` | theorems about them | extends it |
| `GdaDataProxy` | the modifications over a data model, and the model | extends `Queues` |
| `GdaDataProxy_proofs` | theorems about them | extends it |
| `MC...` | symmetry and constants for TLC | one for each of the above |

`JobService` stands between two of them on purpose. `GdaThreadWrapper` is shown to
implement it, step for step (a theorem) and in its progress (by TLC); `GdaCncAsync` then uses the five actions
of `JobService` instead of the wrapper's many, which keeps its state space small.

Conventions. State variables have the names of the fields they stand for, actions those
of the functions (a function cut in several steps has one action for each). History
variables are marked as such in their declaration; no guard reads them except where they
bound a counter. A definition nothing else uses, standing just before another one, is a
seeded fault: the mutation entries of `PROJECT.json` put it in the other's place and the
named property must then fail.

### GdaThreadWrapper

A step is what a thread does between two points where another can see or disturb it. So
`execute` is two steps: `ExecuteBegin` (the id and `td->jobs`, under `rmutex`) and
`ExecutePush` (the queue), and another thread's job may be pushed in between. The
worker's loop is `WorkerPop` (which sets `processed` under the lock), then
`WorkerSkipCancelled`, `WorkerCallFunc` or `WorkerExit`, and `WorkerReply`. While it is in
a function the worker is a client like the others; its own jobs are executed at once
(`ExecuteInWorker`), and `execute_void` is `execute` with the job in `voids`. `iterate`
and `fetch_result` are a small program counter `pc` each, with `fetch_result` calling
`iterate` as in the code. `dispose` pushes the destroy job, then removes every thread's
data.

The jobs in `td->jobs` and `td->results` are found by their unique id, so the two lists
are sets. What is left out: signals and pipes, which have their own place, and the
arguments and results themselves: what matters of an argument is whether it was destroyed,
and how often.

### GdaThreadSignals

The jobs of a thread are only counted here; what is kept apart is the SignalSpec. An
emission is two steps, since that is where the races are: the marshaller's test
(`MarshalCheck`) and, having got the spec's lock, its reference and push
(`MarshalPush`). `iterate` is cut around the callback: pop, test of `spec->callback`, its
call, the callback itself (during which the thread may call anything), the release of the
spec, and the return to a `td` that may not exist any more. `broken` records which freed
or cleared thing was used; such a state is an end state. The variable `foreign`
is chosen initially and never changes: while it is FALSE a thread only touches signals of
its own, otherwise it may steal and disconnect another's.

### GdaThreadPipes

One thread, the owner, uses the wrapper; the worker executes its jobs, and it and the threads of
`Others` emit its signals. `write_notification()` is cut where another thread can change the pipe
or the queue: the reference is taken and the job pushed (`WorkerReply`, `Emit`: `Notify`), the
writing end is tested (`WriteBegin`, `NothingToWrite`), the write succeeds when there is room
(`Write`) or fails when nobody can read (`WriteFails`), and the failure is reported in the reply
queue (`Report`). An emitter holds the mutex of its SignalSpec from `Emit` on; the calls of the
owner that need it (`Disconnect`, `CleanNotifications`, `Dispose`, and `iterate()` after a
callback) are entered first and go on when it is free. The owner's `Read` and `Shutdown` are the
example of gda-thread-wrapper.h:83-125. `ref_count` is what the code counts, `Pointers` what there
is to count. `broken` says which freed job, or which closed descriptor, was used; such a state is
an end state. Left out: a pipe that cannot be made, functions without a result, the worker as a
user of the wrapper, calls from callbacks, `steal_signal()`, several owners (no pipe is shared
between two, but by a stolen signal).

### GdaCncAsync

`StartFirst` is the loop that both `async_statement_execute()` and the completion callback
have: tasks the provider refuses, having found its wrapped connection closed, are completed
with the error, the next one becomes a job. The callback runs inside
`async_fetch_result()`: `FetchResult` (the provider takes the oldest job's result out of
the wrapper), `Callback`, `Lookup`, with the connection's lock held throughout (`call`).
What happens concurrently is the worker, the modification of statements, and the closing of
the wrapped connection. A task whose statement was modified has none any more; the provider
answers with neither an error nor a job. No provider in the repository has an asynchronous
`cancel`, so only the branch without one is modelled.

### GdaXaTransaction

`op` is the loop a call is in, and `pos` the member it has reached. Each step of a loop is
one database call, whose failure is a disjunct. `segv` is where the code follows a NULL
`xa_funcs`. `branch` and `plain` are what the databases know; `Crash`, possible between any
two steps, makes them forget what was not prepared and starts the program with fresh
objects. Connections die when nobody holds them, at `Unref` or when they are unregistered.
The names of branches and the conversion of ids to strings are left out.

### GdaCncTransactions

One thread, one action for each call: `Begin`, `Commit`, `Rollback`, `Savepoint`,
`RollbackTo`, `Release`, `Ddl`, `FailedStatement`, `Close`, `Open`, `UpdateMetaStore`,
`SetMetaStore`. Each does what the server does (`base`, `active`, `outer`, `log` and
`savepoints`: SQLite, with its rule that a SAVEPOINT outside a transaction opens one and that a COMMIT, or the
RELEASE of the outermost savepoint, ends it), what the connection records of it
(`levels`, the chain of GdaTransactionStatus), and what
`update_meta_store_after_statement_exec()` makes of it (`ctx`, `meta_store`). A failed
assertion ends the program (`aborted`). The history `odd` collects what the connection has
no way to see: an error or a close that rolled back ("failed", "closed"), a transaction a
savepoint opened ("outer"), a meta store that came or went in a transaction ("late"); every
property names those it excepts, and holds in all other behaviours, also after these have
passed. `log` has the statements of the open transaction, and `savepoints` where in it each
savepoint was made. Creating and dropping are the same statement about a table, told apart by
whether it exists: what a log makes of the tables (`Content`) is a matter of how often each
occurs, odd or even. The function of the code that changes the status of a transaction by name
(`change_transaction_state`), the reset, and the forced status of a thread wrapping
connection are left out; a table is only created or dropped, never altered.

### GdaConnectionLock

The build against GLib 2.32 or later. A step is what a thread does between two operations
on a mutex or on the condition: `Lock` enters the call, `TakeRMutex` gets the recursive
mutex, `Test` looks at the owner, `TakeObjectMutex`, `Loop` and `Try` are the loop that
waits, `TimeOut` the moment 5 seconds have passed, after which the thread is in the inner
`while` for good ("late"), `WaitAgain` the return from a wait in time. The setter of
thread-owner takes the other mutex first and tries the first one. Two variables are chosen
initially and never change: `timely`, when no wait lasts 5 seconds, and `disciplined`, when
the owner is only set as `gda_connection_open()` does, by a thread for itself with the lock
held.

### GdaConnectionEvents and EventLog

The array with its size, its "full" flag and its next index, field by field, and the object
in every slot; `hands` has the events `point_available_event()` gave to a caller who has not
added them yet. A batch resizes the array to two for each statement, and switches the
automatic clearing off, an operation only the latter; the end of either switches it on.
`running` has, for each thread, the batches and operations it is in, the innermost last: only one
thread is in batches at a time, as they hold the connection's lock, but the lock is recursive and
handlers of "error" are called with it held (2719), so batches, operations and changes of the size
nest in a batch; and `perform_operation()` takes no lock, so another thread's begin and end in it
as well. `point_available_event()` and `get_events()` take none either: each is one step, and
its overlaps with another thread's calls are left out (section 5).
`lost`, `small`, `undisturbed` and `since` are history: events
no pointer leads to, whether the array was ever smaller than at first, the batch that began last
as long as nothing ended and the size did not change since, and the events since then. `EventLog` is a
sequence of the newest events of bounded length, emptied when it is read; the refinement maps
its log to `Visible`, what `get_events()` would make a list of, and its room to one less than
the size.

### GdaHolder

`Written` is `real_gda_holder_set_value()`: the outcome (static, same, refused, set), what
becomes of the fields, and for an alias the same again on the holder it is an alias of.
Emissions of "changed" are a stack of frames; the handlers of the innermost are called in any
order (`BoundHolderChanged`, `FullBoundHolderChanged`), may emit again, and between them the
program's own handlers may call any function, up to `MaxDepth` emissions deep.
`gda_holder_set_default_value()` is two actions since it emits in the middle.
`strayed` is history: the holders that were given another value than the one they are bound to,
refused it, or were not told of it. A value refused by "validate-change" (`Refused`) leaves
everything as it was, but for a static NULL (`Revives`): the function has already cleared what
forced the holder to be invalid when it asks, and a default in use is its value again.
Left out: the change of type, copies, attributes, source models, disposal; and a second thread.

### GdaDataProxy

`proxy` has the lists of the code (`all_modifs`, `new_rows`, the cached two) and the hash
table `modify_rows`; `modif` the RowModif structures that exist. `RowInserted`, `RowUpdated`
and `RowRemoved` are the callbacks of the model's signals; `Commit` is `commit_row_modif()`,
which changes the model, whose signals run these callbacks, and then takes the modification
off the lists. `apply_all_changes` is cut into one `ApplyNext` for each row, with a refusal
possible before each; `applying.expected` is the bag of rows shown when it began. The
modifications the code moves in the hash table one by one, in the order of `all_modifs`, may
displace each other there (`Displaced`). `told` compares, for each
step, the rows before it with the rows after it and the signals in between. Left out: samples
and their chunks, filters, the NULL row, deferred synchronisation, notification switched off.

## 3. The runs

| Run | Bounds | Distinct states | Shows |
|---|---|---|---|
| `ThreadWrapperSafety` | 2 clients and the worker, 3 jobs | 860,581 | `SingleCustody` (a job is in one place), `JobsAccounted`, `ArgDestroyedOnce`, `CancelledNeverRuns`, `DisposedInOrder` (`DisposedQueueCancelled`, `OnlyRepliesLeak`), `ZeroMeansNothingWaits`, `StartedInOrder` |
| `ThreadWrapperLiveness` | 2 clients, 2 jobs, fair | 28,531 | `EverythingReturns` (`CallReturns`, `WorkerExits`), `ImplementsService` |
| `Signals` | 2 clients, 2 signals, 1 job, 2 emissions | 466,456 | `SpecOutlivesItsJobs`, `DeliveredWhereListed`; and, where every thread minds its own signals, `NothingUnasked` (`DisconnectedNeverCalled`, `PrivateJobOnly`) |
| `Pipes` | an owner, the worker and another emitter; 2 pipes with room for 1 notification, 1 job, 1 signal, 2 emissions; fair | 365,821 | `PipesSound` (`RefsCounted`, `ChannelUsable`), `OwnerIsTold` (`NothingMissed`, `FailureReported`), `WritersGoOn` |
| `AsyncTasks` | 1 thread, 3 tasks; cancel, modify, close; fair | 92,381 | `TasksSound` (`TaskInOnePlace`, `FirstIsInProgress`), `ExecutedInOrder`, `EveryTaskIsFetched` |
| `Transactions` | 2 tables, 2 savepoints, 3 events, one kind of thing unseen | 1,242,542 | `StatusIsRight` (`StatusFollowsServer`, `NothingForgotten`), `ContextsAreRight` (`AssertHolds`, `ContextsFollowServer`), `MetaStoreCurrent` |
| `ConnectionLock` | 3 threads, one of which nests; fair | 50,886 | `HolderMayUse`, `WaitsForAReason`, `EveryCallReturns` |
| `Events` | 2 threads, 2 batches or operations at a time, 6 objects, 5 slots, batches of 0 to 2 statements | 189,623 | `EventsSound` (`OneOwner`, `LeaksWhenSmall`, `ClearedAgain`), `AssertHolds`, `BatchKeepsEvents`, `ImplementsLog` |
| `Holders` | a holder, an alias of it, one bound to either; 2 values, 2 defaults; static values, and refused ones, NULL included | 666,575 | `HoldersSound` (`AssertHolds`, `ValueIsSet`), `Follows`, `SoundUnless`, `ChangesAreTold` |
| `DataProxy` | 3 rows, 2 columns, 2 modifications | 201,711 | `ModifsSound` (`NothingDangles`, `NewRowHasValues`), `ModifsKeep` (`HasValuesUnless`, `StaysSound`), `ToldUnless`, `AppliedIsShown` |
| `XaTwoNonXa` | 5 connections (2 without XA), 1 transaction | 1,075,056 | what this code keeps of two-phase commit: `MembersSound` (`RegisteredOnce`, `NonXaMemberKnown`), `NoneLeftOpen` (`BeginAllOrNothing`, `RollbackEndsAll`), `CommitAllOrNothing` (`CommitOnlyAfterAllPrepared`, `FailedCommitLeavesNothing`), `NothingUnreported` (`PreparedIsCommittedOrReported`, `StillPreparedIsReported`) |
| `XaCommitIsComplete` | 3 connections | | must fail, see section 5 |

Where a name is followed by others in parentheses, the run checks the first, which is the
conjunction of the others; these have their own statement and comment in the module. The type
invariants are conjuncts of `NonXaMemberKnown`, `SpecOutlivesItsJobs`, `PipesSound`, `TasksSound`,
`StatusIsRight`, `EventsSound`, `HoldersSound` and `ModifsSound`; those of the wrapper, the
lock and the distributed transactions are proved (section 4).

**Properties with exceptions.** Several properties of the transaction status, the holders and
the data proxy are of the form "always, but for these steps". The steps are named in the
definitions, with the line of the code, and each is one of the disagreements of section 5: the
property shows that there is no other way to go wrong, and that the exceptions do not spread.
`WritersGoOn` names the situations in which a writer to a full pipe waits for good (`Stuck`), and
`ChannelUsable` the one in which the channel an owner has is freed. `BatchKeepsEvents` is about a
batch in which no other ends and the size stays: of others the code loses events (section 5).

**Bounds.** Two clients are the least that make a wrong recipient, a foreign
`disconnect()` or two racing submissions possible; the protocol never relates three
clients at once. Three jobs give one in each of the queue, the worker's hands and a reply
queue, and room for one to be nested or cancelled. Two signals are needed only to tell a
thread's last one from any. A reordering among tasks needs three (running, cancelled or
modified, behind). For a distributed transaction three members give a first, a last and
one in the middle on either side of the one that fails. Three threads give the lock an owner,
one that waits and one that sets the owner. Two savepoints can be nested, released together or
rolled back past each other. An array of three slots at first, with batches that make it 1, 3 and
5, goes round more than once and is made smaller and larger than at first; two threads and two
batches or operations at a time are what it takes for one to end in another, of the same thread or
not. Two modifications
are what one can be moved over the other, or be left over when the other was applied; three
rows, two of them alike, give a row before, between and after them, and two candidates for a
cached change. A pipe has room for 19 notifications on Windows; room for one makes it full as soon
as a second is written. Two pipes are the one that failed and the one asked for after it. Two jobs
instead of one (with one emission; 1,283,315 states) gave the same results. Emissions nest once: a handler that calls from inside a handler is the same
situation again. The counters the bounds cut are `next_job_id`, `submitted`, `emits`,
`next_task_id`, the events of a transaction and the nesting of the lock, each by a conjunct that
names its bound; the code has none on any of them.

**Deadlock** is checked in the wrapper and the distributed transactions. It is not elsewhere,
where a state in which all bounds are used up, or something is broken, simply ends.

**Symmetry** is used over clients, the threads of `Events`, signals, connections, tables, savepoints, event objects and
modifications, in safety runs only.

**Fairness.** The scheduler runs every thread: a call of the wrapper that has begun, the
worker's loop and a dispose that has begun go on (weak fairness). A function given to the
worker returns after finitely many calls of the wrapper; during those calls the step that
ends it is disabled, hence strong fairness of `WorkerReply`. Nobody is required to
submit, cancel or dispose. In `GdaCncAsync` the documentation leaves it to the caller to
call `async_fetch_result()` "regularly": strong fairness of the polling of every thread for
its own tasks, strong because another call may hold the lock every now and then, and
until the task is fetched. In `GdaThreadPipes` the threads run (weak fairness of a call of the
owner that can go on, and of each writer), and the owner's main loop reads its channel when there
is something to read: strong fairness, as it cannot read while it is in a call; nobody is required
to execute, connect, iterate or emit. In `GdaConnectionLock` a mutex that is free again and again is had in
the end (strong fairness of a thread's steps), and a thread that holds the lock gives each
level of it back; nobody is required to set the owner, and a thread whose wait lasted 5 seconds
has no step any more.

## 4. What is proved

**`GdaThreadWrapper_proofs`**, for any set of clients and any number of jobs:

- `TypeCorrect`: `TypeOK` always holds.
- `CancelledJobsNeverRun`: no function is called twice, and none that was cancelled is.
- `ArgsDestroyedOnce`: a job's argument is destroyed once, not before it is cancelled
  or freed, and no job is freed with its argument alive.
- `ThreadDataAccountsForJobs`: `td->jobs` and `td->results` are the thread's jobs.
- `NothingRunsAfterDispose`: what is in the worker's queue after dispose is cancelled,
  or the destroy job.
- `WaitingSizeMissesNothing`: a thread to which `get_waiting_size()` says 0 has no job
  left that is, or will be, executed.

The assumptions are `WorkerAssumption` (the worker is no client) and
`MaxJobsAssumption` (the bound is a natural number; the theorems hold for each).

The argument. None of the six is inductive: that a cancelled job is not run depends on
the worker's queue holding unprocessed jobs only, each once, and that in turn on where a
job is during its submission. `IInv` adds what is missing, in named parts: `QueuesInv`
(no queue holds a job twice), `SubmittingInv` (a job between its id and its push belongs to
one client and to no queue), `QueuedInv` (what is queued is allocated and unprocessed),
`InHandInv` (what the worker holds, and whether it ran), `AnsweredInv` (what is in a reply
queue is executed, uncancelled, and its owner's), `FreshInv` (ids not yet taken have no
history), `ArgInv` and `ThreadDataInv`. There is one lemma for each action, and in it one
step for each part the action can disturb; `NextIInv` puts them together, `SpecIInv` is the
temporal step, and the theorems follow. Lemmas about `Append` and `Tail` on queues without
repetitions (`AppendFacts`, `TailFacts`, `JobPushed`, `ReplyAppended`, `ReplyPopped`) carry
the data reasoning; `ZeroMeansNoJobs` passes from a cardinality to an empty set by the
library's theorems on finite sets.

On top of `IInv`, in the second part of that module:

- `JobsAreInOnePlace`: an allocated job is in exactly one place, a freed one in none.
- `NothingElseLeaks`: after dispose and the end of the worker, only the executed jobs that
  nobody popped are still allocated; with `NothingRunsAfterDispose` it is
  `DisposeLeavesRepliesOnly`, the property of the run.
- `JobsStartInOrder`: the jobs of one thread start in the order of their ids.
- `WrapperIsJobService`: the wrapper implements `JobService!SafeSpec`, its initial states and
  steps without the fairness.

`IInv` says of each place what is true of the jobs in it, so that no job is in two;
`PlacesInv` adds the converse and the order: `HeldInv` (every allocated job is in some place),
`DestroyLast` (nothing follows the destroy job in the queue, so the queue is empty when the
worker ends), `PushedInv` (a job that was pushed is queued, popped, started or cancelled),
`WorkersInv` (a job the worker submitted to itself is started with its id) and `OrderInv` (what
a thread submitted before a queued job is over, in the worker's hands or ahead of it). There is
one lemma per action again, with `CallFrame` for the actions that leave the queue alone.

The refinement maps where a job is, and its flags, to a status, and the worker's queue to that
queue without what was cancelled. One lemma per action says which step of `JobService` it is
(`Submit`, `SubmitNested`, `Cancel`, `Start`, `Finish`, `Collect`, `Close`), or that the service
does not see it; both invariants are needed, for instance to know that the job the worker pops
is the first of the service's queue. What a filtered queue becomes when an element is appended,
taken from the front or cancelled would be an induction over the queue. `Queues` defines the
filter by the increasing list of the places that stay; that there is only one such list, and
what it is after each of these operations, is proved with least counterexamples (`WFMin` of the
library). `WithoutIsSelectSeq` in `MCGdaThreadWrapper` has TLC compare it with `SelectSeq`.

**`GdaConnection_proofs`**, its first part, for any set of threads and depths of nesting:
`LockTypeCorrect` (`LockTypeOK`, which also says who holds which mutex where),
`LockHolderMayUse` and `LockWaitsForAReason`. A thread that is about to try the recursive
mutex has already tested the owner; that it may still use the connection when it gets it is
`TryMayUse`: the owner is only changed with the second mutex held, which that thread has.
`SetsItself` is the same for a setter that holds the lock, and `NobodyLate` that no thread is in
the endless inner loop; with the properties they are `LockInv`. `NobodyAssumption` and
`DepthAssumption` are used.

**`GdaConnection_proofs`**, its second part, for any threads, objects, sizes, batches and bounds:
`EventsAssertHolds`, `EventsImplementLog`, the refinement of `EventLog`, `EventsAreSound` and
`BatchesKeepEvents`. The invariant
`IInv` (theorem `Invariance`) is `IndicesOK`, the range of the size and the next index, and
`Filled`: the slots before the next index, and all of the others but that one when the array is
full, have an object, and the one at the next index may have one that is to be reused. On it
rest, for `AddEvent`, the cases of the next index reaching the end or not, in an array that is
full or not, with one lemma for what becomes of the elements of `Visible` in each; then one
lemma per action that maps it to `Add`, `Clear`, `Read`, `Resize` or a stutter of the log.
`OwnersInv` (theorem `OwnersInvariance`) adds whose each event is: the slots, the list, the hands
and the leaked ones share nothing (`Owners`), and an array that never was smaller than at first
has nothing behind its end (`NothingBehind`). `BatchInv` is about a batch nothing has disturbed: the
clearing is off, for whatever begins meanwhile switches it off again, the size is the one the batch
asked for, and so the events since it began are the last ones of `Visible`. `SizesAssumption` and `NullAssumption` are used.

**`GdaConnection_proofs`**, its third part, for any threads and any number of tasks:
`TasksAreSound` (no task is lost, in two places or given back twice, and the first that waits is at the provider)
and `TasksRunInOrder`. The invariant `TasksInv` (theorem `TasksInvariance`) has `ArraysInv`: the tasks
requested are those of the two arrays, the fetched and the cancelled ones, each in one of these,
and `waiting_tasks` is increasing; `ProgressInv`: while no cancel failed and no statement was
modified, the first of `waiting_tasks` is the only task marked, and the only job of the provider,
and what is behind it was not handed on; and `CallInv` and `JobsInv` for the callback and the
worker. `NothingAssumption` and `MaxTasksAssumption` are used.

**`GdaXaTransaction_proofs`**, for any sets of connections and transactions, any number of
members and any failures and crashes: all the properties of the passing run. That a connection is
in one of several transactions at most is only said by the theorem, the run having one:
`MembersAreSound` (`MembersRegisteredOnce` and `NonXaMemberIsKnown`), `CallsLeaveNoneOpen`, `CommitIsAllOrNothing` and
`PreparedAreReported`. These speak of calls that have returned; the inductive invariant `IInv`
(theorem `XaInvariance`) adds what a call has done on its way. `LoopsInv` has a part for each
loop: the members before position `pos` are those `begin` has started, `prepare` prepared,
`rollback` ended, `commit` committed or marked for recovery; the members an undo has not come to
yet are those that may still have something to undo. `ObjectsInv` says that nobody is a member
twice (so that a position stands for one member, `WalkFacts`) and that a connection without
`xa_funcs` never has a branch; that is where `NonXaAssumption` and `NullAssumption` are used.
`PrependFacts` and `RemoveAtFacts` are about the list with one member more or less,
`DatabaseStep` says what a database call leaves alone, `LoopStep` and `ReturnStep` what the
steps of all loops and all returns have in common, and one lemma per action does the rest.

**`GdaThreadPipes_proofs`**, for any pipes, jobs, signals, emitters and capacity: `PipesAreSound`
and `OwnerToldOf`. The invariant `IInv` (theorem `PipesInvariance`) counts the references of a pipe
by the kind of who has them (`RefCountOK`: a sum of cardinalities, which `HeldCount` shows is the
number of `Pointers`), those of a SignalSpec (`SpecsCounted`, for the list, each signal queued and
the callback that runs: freeing a spec gives a pipe back), and says of a writer what it writes
(`WritesOK`: a job's item, or that of a signal whose mutex it has). `Notified` is `NothingMissed`
for every pipe that can be written to, since the owner may ask for its channel later; `Reported`
is `FailureReported` also for the pipe the next ThreadData would have; `FailedOne` says that a
failure under way is of a pipe that failed. The assumptions are `BoundsAssumption` and
`NamesAssumption` (threads, pipes, jobs, signals and failures are not each other; the sets of
signals and emitters are finite, so that what is counted is).

**`GdaThreadSignals_proofs`**, for any threads and any number of signals, jobs and emissions:
`SpecsOutliveTheirJobs`, `DeliveredToItsThread` and `NothingIsUnasked`, the three properties of the
run. `IInv` (theorem `SignalsInvariance`, with `TypeOK`) follows a signal through the system:
`ListInv` (a connected signal is listed by the one thread its reply queue belongs to), `EmitInv`
(what is emitted was connected; a `private_job` one only while the worker has a job), `JobsInv`
(what is in a reply queue or in a thread's hands). `OwnInv` is the part that needs every thread
to mind its own signals: a signal job is with the only thread that may disconnect that signal, so
that nobody can between the test of `callback` and its call. `RefsCounted` bounds a spec's
reference count from below by the queued jobs, those in hands and the connection, and from above
by the emissions there have been, without which the type of the counter is not an invariant;
`JobsCounted` does that for the jobs of a thread, so that `jobs` is never negative. There is one
step per action and part, and lemmas for what a queue's count is after a push or a pop. No set is
assumed to be finite: what is counted is shown to be. `WorkerAssumption`, `NullAssumption` and
`BoundsAssumption` are used.

**`GdaCncTransactions_proofs`**, for any tables, savepoints and number of events: the three
properties of the run, `StatusIsAlwaysRight`, `ContextsAreAlwaysRight` and `MetaStoreIsCurrent`.
`IInv` (theorem `TransactionsInvariance`) has `TypeOK` and `AssertHolds`, and what they rest on.
`ServerInv` is about the server alone: outside a transaction it has no log and no savepoint, and
the savepoints are in the order of the statements they were made after (`Undoable`). `StatusInv`
is the heart: as long as nothing happened that the connection cannot see (`Known`), it has one
status when a BEGIN opened the transaction and none otherwise, and there is a function that finds
each statement of the server's log among the events of that status, in order, and before every
savepoint made after it (`Embeds`, `Listed`). It is an embedding and not an equality because the
events and the savepoints of the server are not forgotten together; whatever a release or a
rollback takes away, the function of what stays is the restriction of the one before. `LevelsInv`
and `ContextInv` say when there is a status and when there are contexts, `TouchedInv` that the
contexts have every table the log names, and `StoreInv` that the meta store is current, also while
nobody watches. The last was a fold over the log at first, which is an induction over data; a
table exists after a log if it did before and occurs in it an even number of times, or the other
way round (`Times`, `Content`), and a cardinality can be reasoned about when a statement is
appended or a suffix cut off. `NullAssumption` and `BoundsAssumption` are used.

**`GdaHolder_proofs`**, for any holders, values, defaults, bindings and refusals, and any depth of
emissions: `HoldersAreSound`, `BoundHoldersFollow`, and the two action properties
`HoldersStaySound` and `ChangesAreAlwaysTold`. `IInv` (theorem `HoldersInvariance`) is `Ready`
(each record is typed, a default in use exists, an alias has no value of its own; every handler
still to be called is that of a holder bound to, or an alias of, the one whose "changed" is
emitted) and `FollowsInv`. `Follows` says nothing of the states in which somebody is still to be
told, which is nearly all; `FollowsInv` says that a holder that is bound and not strayed has the
value of the other one or `Waits`: its handler, or that of the alias it is bound to, is on the
stack. Each function that changes a value is taken apart first: a few lemmas for each action say
which holders it changes, in which fields (`Changes`, `Keeps`), that a changed value is told
(`Loud`), and what it does to soundness (`Sound`); the proofs of the four properties look at
these facts only, with a case for the holder the call is about, for what it is an alias of, for
the holders bound to either and for the rest. The two action properties hold from `Ready`.
`ChangesAreTold` was false when its proof was tried: a static NULL that a handler refuses, on a
holder with a default that was forced to be invalid, makes the default the value again and tells
nobody. The run had no such refusal; it has one now, the exception is named (`Revives`), and the
step is in section 5. `HoldersAssumption`, `ValuesAssumption`, `DefaultsAssumption` and
`BindsAssumption` are used.

**`GdaDataProxy_proofs`**, for any columns, values, models and number of modifications:
`ModifsAreSound` and, of the steps, `ModifsAreKept`. `IInv` (theorem `ProxyInvariance`) is `OK`: the
lists and the table have their types, a RowModif is in one list and once (`ListsOK`), those that
exist are those listed, with values of their columns, and a new row has some (`RecordsOK`), what the
table has at a row is listed and of that row (`TableOK`), and a RowModif is of a new row when
`new_rows` has it, else at most one row behind the last of the model (`PlacesOK`). One row behind:
a RowModif that has lost its place in the table (`Displaces`) is not found, and so not freed, when
the model removes its row, and that may have been the last. `OK` is of rows, lists and RowModifs that
need not be those of a state, because a call or a callback is a chain of operations on them: a
RowModif is taken off the lists, changed, made, all those behind a row are moved, all go to the
cache or come back from it. Each operation has lemmas that it keeps `OK`, that it leaves no RowModif without
values (`Valued`), and what it needs to leave each on its row (`OnRows`); each action has a lemma
(`...Keeps`) that chains those of its operations, and a commit chains the RowModif that goes with
the callbacks of the model's signal, as the code does. That the modifications which are moved do not
get in each other's way but in the steps that `Displaces` names is `StaysSound`'s hard part; the
other is `FetchedKeeps`, where each cached RowModif finds a row of its own among the new model's.
Filters are `Without` of `Queues`, as for the wrapper. `ColsAssumption`, `BoundsAssumption` and
`ModelsAssumption` (the models set are no longer than `MaxRows`) are used.

Only model-checked: `AppliedIsShown` and `ToldUnless` of `GdaDataProxy`. The first is about the bag
of the rows that are shown, the second replays a call's signals one after the other on what a user
displays; both go along a sequence of unknown length, which is an induction over data. And all
liveness and fairness, which are beyond the prover: `EverythingReturns`,
`EveryTaskIsFetched`, `WritersGoOn`, `EveryCallReturns`, and the progress of the job service in
`ImplementsService`.

## 5. Where code and documentation disagree

The run `XaCommitIsComplete` must fail, and is an entry of `findings` that quotes the sentence:
`commit()` skips every connection, and returns TRUE, when all support distributed transactions.

The following were seen while modelling. They are in the behaviours of the models unless
they are said to be left out, and the properties that hold state their exceptions. Those
marked (run) TLC finds as counterexamples to the sentence that is quoted, when it is stated as a
property of the module's run; only the first has a run of its own here.

*Threads and asynchronous statements*

- (run) The job the worker holds when the wrapper is disposed is never freed, if it has a result
  to give back (`OnlyRepliesLeak` is what holds).
- (run) `gda_thread_wrapper_iterate()` goes on with thread data that its callback had freed,
  in spite of the comment at gda-thread-wrapper:296.
- `get_waiting_size()` also counts functions that were executed and whose reply was not
  popped, while its documentation speaks of those "not yet executed"
  (`ZeroMeansNothingWaits` is the half that holds).
- A closure marshaller uses its SignalSpec before it counts itself in (`broken = "spec"`).
- `iterate()` tests and calls `spec->callback` without the lock that `disconnect()` takes,
  and the marshaller reads the reply queue again after the test of `private_job`; hence the
  condition `~foreign` of `DisconnectedNeverCalled` and `PrivateJobOnly`.
- `connect_raw()` of a signal that does not exist, or returns a value, leaves the wrapper's
  mutex locked (`ConnectRefused`).
- (run) A cancel that fails unmarks the running task (gda-connection:3482); the next one frees
  it, and what would start the tasks behind it is gone.
- (run) The result of a task goes to the thread that happened to start it, not to the one that
  asked for it: `EveryTaskIsFetched` fails when two threads poll.
- A modified statement whose turn comes is silently not started and holds up those behind it;
  one modified when its job is already queued is executed; hence `modified` in
  `EveryTaskIsFetched` and `FirstIsInProgress`.
- The result of a completed task is lost once the connection is closed; hence `open` there.

*Notification pipes*

- (run) `iterate()` waits for the mutex of the SignalSpec whose callback it has called, and the
  marshaller that has it waits for room in the pipe only the caller of `iterate()` can read. The
  example of gda-thread-wrapper.h:83-125 can meet it: it reads one notification and iterates, which
  handles all signals there are. The same for `disconnect()`, `unset_io_channel()` and a dispose
  with a pipe that is full (`Stuck`).
- After `unset_io_channel()`, and after a dispose, jobs and signals that were submitted before
  still write to a pipe that nobody reads, and when it is full the worker waits for good (`Stuck`).
- A channel that a thread asks for when it has used the wrapper already is not written to as long
  as its ThreadData exists (`ThreadDataNotif`), for jobs submitted after the call either, while
  Note1 (gda-thread-wrapper:861) says that it is operational for these.
- The report of a failed write removes the pipe the owner has by then, which may be a new one
  (`ChannelUsable`), and reads `job->reply_queue` (631) when the job may be freed
  (`broken = "job"`). A writer that tested the descriptor before another closed it writes to
  whatever has its number now (`broken = "descriptor"`).
- Left out, and seen: Note3 (867) asks for `g_io_channel_unref()` of a channel whose only reference
  is the pipe's; a pipe's mutex is unlocked and cleared after the pipe it is in was freed (145-152);
  a stolen signal keeps the pipe of the thread it was stolen from.

*Distributed transactions*

- (run) Members behind the one whose PREPARE failed stay in their transaction, though the
  comment at gda-xa-transaction:505 says that all are rolled back.
- `non_xa_cnc` survives the unregistration of its connection, `commit()` follows the NULL
  `xa_funcs` of the one permitted member without them (`segv`), and `commit_recovered()`
  overwrites the failure of one recovery by the success of a later one.

*Transaction status and meta store*

- The documentation of GdaTransactionStatus (gda-transaction-status.h:129-130) has it destroyed
  when the transaction is finished; after an error that rolls back, or a close, it is not.
- A meta store that is set or created during a transaction, or a transaction an error ended,
  makes a later BEGIN or COMMIT fail an assertion (`AssertHolds` excepts these).
- ROLLBACK TO does not correct the meta store.
- `change_transaction_state()` returns with the lock held; nothing calls it (left out).
- A comma is missing between two strings of gda-sqlite-provider:437: the statements of the
  provider's savepoint functions are each the next one's. In the model savepoints are therefore
  those of SQL statements an application executes.

*The lock and the events*

- The comment at gda-connection:6739 says that any other thread blocked gets the opportunity to
  lock the connection; one that has waited 5 seconds for the owner to change never does (`timely`).
- The setter takes the two mutexes in the other order than `lock()`: it only tries the second,
  and an application that sets the owner without the lock, or for another thread, may see calls
  that never return (`disciplined`).
- Closing a connection does not reset the owner.
- `gda_connection_get_events()` lists the oldest event first, though its documentation (5900)
  says the most recent one is; and a second call returns the same list until the next event,
  also after a change of size, which "resets the events list" according to the comment at 2866.
- (run) "To be able to store all the connection events" (2926), a batch enlarges the array and
  switches the clearing off; but the end of any other operation or batch switches it on (2841,
  2938), and the batch's next statement clears the events gathered so far. The other one may be an
  operation of another thread, as `perform_operation()` takes no lock, or what a handler of "error"
  does in the batch. A batch that a handler executes, or a size it sets, also drops
  the events shown (2892). `BatchKeepsEvents` excepts these.
- Left out, and seen: `point_available_event()` and `get_events()` read and empty slots without the
  lock (2613, 5921), so another thread's call may take the same event, and `add_event()` frees a list
  that another thread has just been given (2672).
- A history of 5 events has 6 slots, of which 5 are ever listed; an array made smaller than at
  first leaks the events beyond it (`LeaksWhenSmall`).

*Holders*

- Setting a holder that is invalid to its default, replacing the default in use, a default that
  is NULL or of another type on a holder that may not be NULL, and not-null on a holder that shows its default or is forced
  to be invalid: each leaves a holder that contradicts itself (the exceptions of `SoundUnless`).
- A holder given a static value refuses every value that is not static from then on; the
  documentation (969-971) says that the value set replaces the static one.
- `gda_holder_take_static_value()` emits "changed" for the same value too, though its
  documentation (1299) says otherwise; a value that is refused by "validate-change" leaves the
  holder as it was, valid, though the note before (1302) says invalid.
- A static NULL that "validate-change" refuses makes a holder that was forced to be invalid
  valid again, with its default as the value, and emits nothing (1205; `Revives`).
- Forcing an alias to be invalid a second time does nothing, whatever the holder it is an alias
  of has become.
- Two holders that may not be NULL and are bound to each other, once one of them is invalid, set
  each other without end; the handler of an alias locks in the opposite order of `is_valid()`
  (both left out).

*The data proxy*

- A row the model inserts where a modified one is takes over its modification (1165 tests `>`
  where the row itself has moved as well); moving modifications one by one in the table may lose
  one (1268).
- Altering a value to "unchanged" in a row without modifications makes one without values, and
  applying it fails an assertion (2109).
- Cancelling the only value of a row emits nothing; applying a new row that is not the first
  signals the wrong row (2204).
- A row-updated of the model drops the modifications of that row (the FIXME at 1196).
- A default set in a row that exists is shown as NULL and, when applied, leaves the old value.
- `cancel_row_changes()` does not undelete; altering to NULL always fails; a value that is the
  default cannot be set to NULL.
- Left out, and seen: `get_n_rows()` returns with the mutex locked when the model does not know
  its rows (3440), and so does setting the property "model" in one branch; the inserted callback
  moves `chunk_to` down where it moves `chunk` up; the callbacks of the model take no lock; a
  RowValue is leaked, and so is the sample.

*GdaSet*, not modelled: removing a holder leaves groups whose nodes are gone (1023-1066).

## 6. Plan

Done: `JobService`, `GdaThreadWrapper`, `GdaThreadSignals`, `GdaThreadPipes`, `GdaCncAsync`,
`GdaXaTransaction`, `GdaConnectionLock` and `GdaConnectionEvents` with their theorems,
`GdaCncTransactions`, `GdaHolder`, `GdaDataProxy`. Next, the most important first:

1. `GdaSet`: groups and sources over the holders of `GdaHolder`, and the validation that
   vetoes changes.
2. The thread provider's copy of the transaction status from the wrapped connection, composed
   with `GdaCncTransactions`; `GdaConnectionLock` composed with `GdaCncAsync`.
3. `GdaDataAccessWrapper` and `GdaThreadRecordset`: random access over a cursor that lives in
   another thread; the samples and chunks of `GdaDataProxy`.
4. The handler list of `src/share/gjs-1.0/signals.js`, and gjs's callback trampolines.
5. The gettext lookup and its locks.

Proofs: the safety of the wrapper, its signals and pipes, the asynchronous statements, the
connection's transactions, lock and events, the holders and the distributed transactions is proved,
with both refinements, and that the data proxy's modifications stay consistent and on their rows.
Left: `AppliedIsShown` and `ToldUnless` of `GdaDataProxy`.

## 7. Not modelled

Parsers, generated and third party code (SQLite, cmph, the GIR parser, the patched GTK+ files)
are not planned: their behaviour is text and data, and their state a model would only repeat;
nor is the binary distribution. The entries of `PROJECT.json` give the reason for each part.
