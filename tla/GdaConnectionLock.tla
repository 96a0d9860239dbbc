--------------------------- MODULE GdaConnectionLock ---------------------------
(***************************************************************************)
(* The lock of a GdaConnection (gda-connection-vs10.c), the lock interface *)
(* every operation of the connection goes through: a recursive mutex,      *)
(* rmutex, and the only thread that may use the connection,                *)
(* unique_possible_thread, which others wait to see changed on a condition *)
(* of a second mutex, object_mutex.  The build is the one for the GLib     *)
(* 2.32 of this repository.                                                *)
(*                                                                         *)
(* Each thread runs one call at a time; between its calls it may hold the  *)
(* lock, some levels deep.  A step is what is done between two operations  *)
(* on a mutex or on the condition.                                         *)
(*                                                                         *)
(* The names that every module has, Init, Next..., are prefixed here, so   *)
(* that one module can be about this part of a connection and another one. *)
(***************************************************************************)
EXTENDS Integers

CONSTANTS
    Threads,
    NOBODY,     \* no thread
    MaxDepth    \* for each thread, a bound on the nesting of its lock()s

ASSUME NobodyAssumption == NOBODY \notin Threads
ASSUME DepthAssumption == MaxDepth \in [Threads -> Nat \ {0}]

VARIABLES
    unique_possible_thread,
    rholder,        \* who holds rmutex
    rdepth,         \* and how many times
    object_mutex,   \* who holds object_mutex
    pc,             \* where each thread is, see Places
    value,          \* the value of thread-owner being set
    disciplined,    \* the owner is only set inside the lock, by itself or open
    timely          \* no wait lasts 5 seconds

choices == <<disciplined, timely>>
lockVars == <<unique_possible_thread, rholder, rdepth, object_mutex, pc, value, choices>>

(* Where a thread is: outside of these functions, or in gda_connection_    *)
(* lock() about to take rmutex ("lock"), with it ("test"), about to take   *)
(* object_mutex ("slow"), in the loop with it ("loop", "try"), waiting     *)
(* ("wait"), waking up late or in time ("late", "woken"); or in the setter *)
(* of thread-owner ("set", "set2"); or in gda_connection_get_meta_store(). *)
Places == {"idle", "lock", "test", "slow", "loop", "try", "wait", "late",
           "woken", "set", "set2", "meta"}

(* Type correctness, with who holds which mutex where.                     *)
LockTypeOK ==
    /\ unique_possible_thread \in Threads \cup {NOBODY}
    /\ rholder \in Threads \cup {NOBODY}
    /\ rdepth \in Nat /\ (rholder = NOBODY <=> rdepth = 0)
    /\ object_mutex \in Threads \cup {NOBODY}
    /\ pc \in [Threads -> Places]
    /\ value \in [Threads -> Threads \cup {NOBODY}]
    /\ disciplined \in BOOLEAN /\ timely \in BOOLEAN
    /\ \A t \in Threads : object_mutex = t <=> pc[t] \in {"loop", "try", "set2"}
    /\ \A t \in Threads : pc[t] = "test" => rholder = t

LockInit ==
    /\ unique_possible_thread = NOBODY
    /\ rholder = NOBODY /\ rdepth = 0 /\ object_mutex = NOBODY
    /\ pc = [t \in Threads |-> "idle"]
    /\ value = [t \in Threads |-> NOBODY]
    /\ disciplined \in BOOLEAN /\ timely \in BOOLEAN

-----------------------------------------------------------------------------
Goto(t, p) == pc' = [pc EXCEPT ![t] = p]

Another(t) == unique_possible_thread \notin {NOBODY, t}

RFree(t) == rholder \in {NOBODY, t}
RLock(t) == rholder' = t /\ rdepth' = rdepth + 1
RUnlock == /\ rdepth' = rdepth - 1
           /\ rholder' = IF rdepth = 1 THEN NOBODY ELSE rholder

(* gda_connection_lock().                                                  *)
Lock(t) ==
    /\ pc[t] = "idle" /\ (rholder = t => rdepth < MaxDepth[t])
    /\ Goto(t, "lock")
    /\ UNCHANGED <<unique_possible_thread, rholder, rdepth, object_mutex, value, choices>>

TakeRMutex(t) ==
    /\ pc[t] = "lock" /\ RFree(t)
    /\ RLock(t) /\ Goto(t, "test")
    /\ UNCHANGED <<unique_possible_thread, object_mutex, value, choices>>

TestHolding(t) ==
    /\ pc[t] = "test"
    /\ Goto(t, IF Another(t) THEN "slow" ELSE "idle")
    /\ UNCHANGED <<unique_possible_thread, rholder, rdepth, object_mutex, value, choices>>
Test(t) ==
    /\ pc[t] = "test"
    /\ IF Another(t) THEN RUnlock /\ Goto(t, "slow")
       ELSE UNCHANGED <<rholder, rdepth>> /\ Goto(t, "idle")
    /\ UNCHANGED <<unique_possible_thread, object_mutex, value, choices>>

TakeObjectMutex(t) ==
    /\ pc[t] \in {"slow", "woken"} /\ object_mutex = NOBODY
    /\ object_mutex' = t /\ Goto(t, "loop")
    /\ UNCHANGED <<unique_possible_thread, rholder, rdepth, value, choices>>

(* In the loop: wait if another thread is the owner, try rmutex otherwise. *)
Loop(t) ==
    /\ pc[t] = "loop"
    /\ IF Another(t) THEN object_mutex' = NOBODY /\ Goto(t, "wait")
       ELSE UNCHANGED object_mutex /\ Goto(t, "try")
    /\ UNCHANGED <<unique_possible_thread, rholder, rdepth, value, choices>>

(* g_rec_mutex_trylock(), object_mutex still held when it fails.           *)
Try(t) ==
    /\ pc[t] = "try"
    /\ IF RFree(t)
       THEN RLock(t) /\ object_mutex' = NOBODY /\ Goto(t, "idle")
       ELSE UNCHANGED <<rholder, rdepth, object_mutex>> /\ Goto(t, "loop")
    /\ UNCHANGED <<unique_possible_thread, value, choices>>

(* The wait times out.  It is begun again with the same end_time, now      *)
(* past, and the loop around g_cond_wait_until() is not left by that.      *)
TimeOut(t) ==
    /\ pc[t] = "wait" /\ ~timely
    /\ Goto(t, "late")
    /\ UNCHANGED <<unique_possible_thread, rholder, rdepth, object_mutex, value, choices>>

WaitAgain(t) ==
    /\ pc[t] = "late" /\ object_mutex = NOBODY
    /\ Goto(t, "wait")
    /\ UNCHANGED <<unique_possible_thread, rholder, rdepth, object_mutex, value, choices>>

(* gda_connection_trylock(), when it returns TRUE; otherwise it leaves     *)
(* everything as it was.                                                   *)
TryLock(t) ==
    /\ pc[t] = "idle" /\ (rholder = t => rdepth < MaxDepth[t])
    /\ RFree(t) /\ ~Another(t)
    /\ RLock(t)
    /\ UNCHANGED <<unique_possible_thread, object_mutex, pc, value, choices>>

Unlock(t) ==
    /\ pc[t] = "idle" /\ rholder = t
    /\ RUnlock
    /\ UNCHANGED <<unique_possible_thread, object_mutex, pc, value, choices>>

(* The property thread-owner.  open(), with the lock held, sets it to the  *)
(* calling thread or to NULL; an application may set it to any thread.     *)
SetOwner(t, v) ==
    /\ pc[t] = "idle" /\ v \in Threads \cup {NOBODY}
    /\ rholder = t => v \in {t, NOBODY}
    /\ disciplined => rholder = t /\ (unique_possible_thread = t => v = t)
    /\ value' = [value EXCEPT ![t] = v] /\ Goto(t, "set")
    /\ UNCHANGED <<unique_possible_thread, rholder, rdepth, object_mutex, choices>>

SetterTakesObjectMutex(t) ==
    /\ pc[t] = "set" /\ object_mutex = NOBODY
    /\ object_mutex' = t /\ Goto(t, "set2")
    /\ UNCHANGED <<unique_possible_thread, rholder, rdepth, value, choices>>

WakeNone(p) == p
Broadcast(p) == [u \in Threads |-> IF p[u] = "wait" THEN "woken" ELSE p[u]]

MaySetAnyway(t) == TRUE
MaySet(t) == RFree(t)

SetterSets(t) ==
    /\ pc[t] = "set2" /\ MaySet(t)
    /\ unique_possible_thread' = value[t]
    /\ pc' = [Broadcast(pc) EXCEPT ![t] = "idle"]
    /\ object_mutex' = NOBODY
    /\ value' = [value EXCEPT ![t] = NOBODY]
    /\ UNCHANGED <<rholder, rdepth, choices>>

(* gda_connection_get_meta_store(), which the connection's operations call *)
(* with the lock held or not.                                              *)
GetMetaStore(t) ==
    /\ pc[t] = "idle"
    /\ Goto(t, "meta")
    /\ UNCHANGED <<unique_possible_thread, rholder, rdepth, object_mutex, value, choices>>

MetaStoreGot(t) ==
    /\ pc[t] = "meta" /\ object_mutex = NOBODY
    /\ Goto(t, "idle")
    /\ UNCHANGED <<unique_possible_thread, rholder, rdepth, object_mutex, value, choices>>

Call(t) ==
    \/ Lock(t) \/ TryLock(t) \/ GetMetaStore(t)
    \/ \E v \in Threads \cup {NOBODY} : SetOwner(t, v)

(* What a thread in a call does next.                                      *)
Step(t) ==
    \/ TakeRMutex(t) \/ Test(t) \/ TakeObjectMutex(t) \/ Loop(t) \/ Try(t)
    \/ WaitAgain(t)
    \/ SetterTakesObjectMutex(t) \/ SetterSets(t)
    \/ MetaStoreGot(t)

LockNext == \E t \in Threads : Call(t) \/ Step(t) \/ Unlock(t) \/ TimeOut(t)

LockSpec == LockInit /\ [][LockNext]_lockVars

(* A mutex that is free again and again is had in the end, and nobody      *)
(* keeps a level of the lock for good.                                     *)
LockFairSpec ==
    /\ LockSpec
    /\ \A t \in Threads :
          /\ SF_lockVars(Step(t))
          /\ \A d \in 1..MaxDepth[t] : SF_lockVars(rdepth = d /\ Unlock(t))

-----------------------------------------------------------------------------
(* Properties.                                                             *)

(* A thread that has the lock is one that may use the connection: the      *)
(* owner is tested under one mutex in the usual case and under the other   *)
(* after a wait, and is only ever changed under both.                      *)
HolderMayUse ==
    \A t \in Threads :
        rholder = t /\ (pc[t] = "test" => rdepth > 1) =>
            unique_possible_thread \in {NOBODY, t}

(* As long as nobody waits 5 seconds, a thread that waits has a reason to: *)
(* another one is the owner, and to change that is to wake the thread.     *)
WaitsForAReason ==
    timely => \A t \in Threads : pc[t] = "wait" => Another(t)

(* If the owner is only set by open(), under the lock, and not taken back, *)
(* no call blocks for good except on a connection that is another's.       *)
EveryCallReturns ==
    \A t \in Threads :
        disciplined /\ pc[t] # "idle" ~> pc[t] = "idle" \/ Another(t)
=============================================================================
