--------------------------- MODULE GdaConnection_proofs ---------------------------
(***************************************************************************)
(* Proofs about three parts of a connection that do not know of each other.*)
(* First its lock, for any threads and any nesting: who is where in the    *)
(* lock's functions decides who has which mutex.  Then its events, for any *)
(* sizes of the array and any number of event objects: the array with its  *)
(* indices is a bounded log of the newest events.  Then its asynchronous   *)
(* statements, for any threads and any number of tasks: ArraysInv says     *)
(* that every task requested is in one of the arrays, fetched or           *)
(* cancelled, and that waiting_tasks is in the order of the requests;      *)
(* ProgressInv that the first of waiting_tasks is the one task the         *)
(* provider waits for, and that nothing else was handed to the worker.     *)
(***************************************************************************)
EXTENDS GdaConnectionLock, GdaConnectionEvents, GdaCncAsync,
        FiniteSetTheorems, SequenceTheorems, TLAPS

-----------------------------------------------------------------------------
(* The lock.                                                               *)

(* A thread about to try rmutex in the loop still may use the connection:  *)
(* it holds object_mutex, and so the owner is not being changed.           *)
TryMayUse == \A t \in Threads : pc[t] = "try" => ~Another(t)

(* A setter that holds the lock sets the owner to itself or to nobody.     *)
SetsItself ==
    \A t \in Threads :
        pc[t] \in {"set", "set2"} /\ rholder = t => value[t] \in {t, NOBODY}

(* Nobody is late when waits do not last.                                  *)
NobodyLate == timely => \A t \in Threads : pc[t] # "late"

LockInv == LockTypeOK /\ HolderMayUse /\ TryMayUse /\ SetsItself /\ NobodyLate /\ WaitsForAReason

(* LockInv holds at first.                                                    *)
LEMMA LockInitInv == LockInit => LockInv
  BY NobodyAssumption
     DEF LockInit, LockInv, LockTypeOK, Places, HolderMayUse, TryMayUse, SetsItself, NobodyLate,
         WaitsForAReason

(* Every step keeps the type, and who holds which mutex where.             *)
LEMMA LockTypeStep == LockInv /\ [LockNext]_lockVars => LockTypeOK'
<1> SUFFICES ASSUME LockInv, [LockNext]_lockVars PROVE LockTypeOK'
  OBVIOUS
<1> USE NobodyAssumption DEF LockInv, LockTypeOK, Places, Goto
<1>1. ASSUME NEW t \in Threads, Call(t) PROVE LockTypeOK'
  <2>1. CASE Lock(t)
    BY <2>1 DEF Lock, choices
  <2>2. CASE TryLock(t)
    BY <2>2 DEF TryLock, RLock, RFree, choices
  <2>3. CASE GetMetaStore(t)
    BY <2>3 DEF GetMetaStore, choices
  <2>4. ASSUME NEW v \in Threads \cup {NOBODY}, SetOwner(t, v) PROVE LockTypeOK'
    BY <2>4 DEF SetOwner, choices
  <2> QED BY <1>1, <2>1, <2>2, <2>3, <2>4 DEF Call
<1>2. ASSUME NEW t \in Threads, Step(t) PROVE LockTypeOK'
  <2>1. CASE TakeRMutex(t)
    BY <2>1 DEF TakeRMutex, RLock, RFree, choices
  <2>2. CASE Test(t)
    BY <2>2 DEF Test, RUnlock, choices
  <2>3. CASE TakeObjectMutex(t)
    BY <2>3 DEF TakeObjectMutex, choices
  <2>4. CASE Loop(t)
    BY <2>4 DEF Loop, choices
  <2>5. CASE Try(t)
    BY <2>5 DEF Try, RLock, RFree, choices
  <2>6. CASE WaitAgain(t)
    BY <2>6 DEF WaitAgain, choices
  <2>7. CASE SetterTakesObjectMutex(t)
    BY <2>7 DEF SetterTakesObjectMutex, choices
  <2>8. CASE SetterSets(t)
    BY <2>8 DEF SetterSets, Broadcast, choices
  <2>9. CASE MetaStoreGot(t)
    BY <2>9 DEF MetaStoreGot, choices
  <2> QED BY <1>2, <2>1, <2>2, <2>3, <2>4, <2>5, <2>6, <2>7, <2>8, <2>9 DEF Step
<1>3. ASSUME NEW t \in Threads, Unlock(t) PROVE LockTypeOK'
  BY <1>3 DEF Unlock, RUnlock, choices
<1>4. ASSUME NEW t \in Threads, TimeOut(t) PROVE LockTypeOK'
  BY <1>4 DEF TimeOut, choices
<1>5. CASE UNCHANGED lockVars
  BY <1>5 DEF lockVars, choices
<1> QED BY <1>1, <1>2, <1>3, <1>4, <1>5 DEF LockNext

(* So does it keep the rest.                                               *)
LEMMA LockRestStep ==
    LockInv /\ LockTypeOK' /\ [LockNext]_lockVars =>
        (HolderMayUse /\ TryMayUse /\ SetsItself /\ NobodyLate /\ WaitsForAReason)'
<1> DEFINE Others == HolderMayUse /\ TryMayUse /\ SetsItself /\ NobodyLate /\ WaitsForAReason
<1> SUFFICES ASSUME LockInv, LockTypeOK', [LockNext]_lockVars PROVE Others'
  OBVIOUS
<1> USE NobodyAssumption
        DEF LockInv, LockTypeOK, Places, Goto, Another, HolderMayUse, TryMayUse, SetsItself,
            NobodyLate, WaitsForAReason
<1>1. ASSUME NEW t \in Threads, Call(t) PROVE Others'
  <2>1. CASE Lock(t)
    BY <2>1 DEF Lock, choices
  <2>2. CASE TryLock(t)
    BY <2>2 DEF TryLock, RLock, RFree, choices
  <2>3. CASE GetMetaStore(t)
    BY <2>3 DEF GetMetaStore, choices
  <2>4. ASSUME NEW v \in Threads \cup {NOBODY}, SetOwner(t, v) PROVE Others'
    BY <2>4 DEF SetOwner, choices
  <2> QED BY <1>1, <2>1, <2>2, <2>3, <2>4 DEF Call
<1>2. ASSUME NEW t \in Threads, Step(t) PROVE Others'
  <2>1. CASE TakeRMutex(t)
    BY <2>1 DEF TakeRMutex, RLock, RFree, choices
  <2>2. CASE Test(t)
    BY <2>2 DEF Test, RUnlock, choices
  <2>3. CASE TakeObjectMutex(t)
    BY <2>3 DEF TakeObjectMutex, choices
  <2>4. CASE Loop(t)
    BY <2>4 DEF Loop, choices
  <2>5. CASE Try(t)
    BY <2>5 DEF Try, RLock, RFree, choices
  <2>6. CASE WaitAgain(t)
    BY <2>6 DEF WaitAgain, choices
  <2>7. CASE SetterTakesObjectMutex(t)
    BY <2>7 DEF SetterTakesObjectMutex, choices
  <2>8. CASE SetterSets(t)
    BY <2>8 DEF SetterSets, Broadcast, MaySet, RFree, choices
  <2>9. CASE MetaStoreGot(t)
    BY <2>9 DEF MetaStoreGot, choices
  <2> QED BY <1>2, <2>1, <2>2, <2>3, <2>4, <2>5, <2>6, <2>7, <2>8, <2>9 DEF Step
<1>3. ASSUME NEW t \in Threads, Unlock(t) PROVE Others'
  BY <1>3 DEF Unlock, RUnlock, choices
<1>4. ASSUME NEW t \in Threads, TimeOut(t) PROVE Others'
  BY <1>4 DEF TimeOut, choices
<1>5. CASE UNCHANGED lockVars
  BY <1>5 DEF lockVars, choices
<1> QED BY <1>1, <1>2, <1>3, <1>4, <1>5 DEF LockNext

(* LockInv always holds.                                                      *)
LEMMA LockInvariance == LockSpec => []LockInv
<1>1. LockInv /\ [LockNext]_lockVars => LockInv'
  BY LockTypeStep, LockRestStep DEF LockInv
<1> QED BY LockInitInv, <1>1, PTL DEF LockSpec

(* The mutexes are held by who is where he holds them, always.             *)
THEOREM LockTypeCorrect == LockSpec => []LockTypeOK
  BY LockInvariance, PTL DEF LockInv

(* The lock is only ever had by a thread that may use the connection.      *)
THEOREM LockHolderMayUse == LockSpec => []HolderMayUse
  BY LockInvariance, PTL DEF LockInv

(* Nobody waits without a reason as long as no wait lasts 5 seconds.       *)
THEOREM LockWaitsForAReason == LockSpec => []WaitsForAReason
  BY LockInvariance, PTL DEF LockInv

-----------------------------------------------------------------------------
(* The events.                                                             *)

(* What the indices are, and that there is an event in every slot that     *)
(* get_events() takes.                                                     *)
IndicesOK ==
    /\ events_array \in [Slots -> Objects \cup {NULL}]
    /\ events_array_size \in 1..MaxSize
    /\ events_array_full \in BOOLEAN
    /\ events_array_next \in 0..(events_array_size - 1)
    /\ hands \subseteq Objects

Filled ==
    \A i \in 0..(events_array_size - 1) :
        (IF events_array_full THEN i # events_array_next ELSE i < events_array_next)
        => events_array[i] # NULL

IInv == IndicesOK /\ Filled

(* The older slots are slots, and not the one that is written next.        *)
LEMMA WrapRange ==
    ASSUME IndicesOK, NEW k \in 1..(events_array_size - 1)
    PROVE  /\ Wrap(events_array_next + k) \in 0..(events_array_size - 1)
           /\ Wrap(events_array_next + k) # events_array_next
           /\ Wrap(events_array_next + k) \in Slots
  BY SizesAssumption DEF IndicesOK, Wrap, Slots

VisibleOK ==
    /\ Visible \in Seq(Objects \cup {NULL})
    /\ events_array_full => Len(Visible) = events_array_size - 1
    /\ ~events_array_full => Len(Visible) = events_array_next

(* What is shown of the ring is a sequence.                                *)
LEMMA VisibleType == IndicesOK => VisibleOK
<1> SUFFICES ASSUME IndicesOK PROVE VisibleOK
  OBVIOUS
<1> USE DEF VisibleOK
<1>1. \A k \in 1..(events_array_size - 1) : Wrap(events_array_next + k) \in Slots
  BY WrapRange
<1>2. CASE events_array_full
  <2>1. Visible = [k \in 1..(events_array_size - 1) |->
                      events_array[Wrap(events_array_next + k)]]
    BY <1>2 DEF Visible
  <2>2. Visible \in [1..(events_array_size - 1) -> Objects \cup {NULL}]
    BY <1>1, <2>1 DEF IndicesOK
  <2>3. events_array_size - 1 \in Nat
    BY SizesAssumption DEF IndicesOK
  <2> QED BY <1>2, <2>2, <2>3
<1>3. CASE ~events_array_full
  <2>1. Visible = [k \in 1..events_array_next |-> events_array[k - 1]]
    BY <1>3 DEF Visible
  <2>2. Visible \in [1..events_array_next -> Objects \cup {NULL}]
    BY <2>1, SizesAssumption DEF IndicesOK, Slots
  <2>3. events_array_next \in Nat
    BY SizesAssumption DEF IndicesOK
  <2> QED BY <1>3, <2>2, <2>3
<1> QED BY <1>2, <1>3

(* What the log keeps of an event more: all, as long as it has room, or    *)
(* all but the oldest.                                                     *)
LEMMA NewestFits ==
    ASSUME NEW S, NEW V \in Seq(S), NEW W \in Seq(S), NEW o \in S, NEW n \in Nat,
           Len(V) < n, Len(W) = Len(V) + 1,
           \A k \in 1..Len(W) : W[k] = IF k <= Len(V) THEN V[k] ELSE o
    PROVE  W = Log!Newest(Append(V, o), n)
<1>1. Append(V, o) \in Seq(S) /\ Len(Append(V, o)) = Len(V) + 1
  OBVIOUS
<1>2. Log!Newest(Append(V, o), n) = Append(V, o)
  BY <1>1 DEF Log!Newest
<1>3. \A k \in 1..Len(W) : W[k] = Append(V, o)[k]
  OBVIOUS
<1> QED BY <1>1, <1>2, <1>3

(* The newest n of a sequence that grew by one.                            *)
LEMMA NewestDrops ==
    ASSUME NEW S, NEW V \in Seq(S), NEW W \in Seq(S), NEW o \in S, NEW n \in Nat,
           Len(V) = n, Len(W) = n,
           \A k \in 1..n : W[k] = IF k < n THEN V[k + 1] ELSE o
    PROVE  W = Log!Newest(Append(V, o), n)
<1> DEFINE A == Append(V, o)
<1>1. A \in Seq(S) /\ Len(A) = n + 1
  OBVIOUS
<1>2. Log!Newest(A, n) = SubSeq(A, 2, n + 1)
  BY <1>1 DEF Log!Newest
<1>3. SubSeq(A, 2, n + 1) \in Seq(S) /\ Len(SubSeq(A, 2, n + 1)) = n
  BY <1>1
<1>4. \A k \in 1..n : SubSeq(A, 2, n + 1)[k] = A[k + 1]
  BY <1>1
<1>5. \A k \in 1..n : A[k + 1] = IF k < n THEN V[k + 1] ELSE o
  OBVIOUS
<1> DEFINE D == SubSeq(A, 2, n + 1)
<1>6. D \in Seq(S) /\ Len(D) = n /\ \A k \in 1..n : W[k] = D[k]
  BY <1>3, <1>4, <1>5
<1> HIDE DEF A, D
<1>7. W = D
  BY <1>6
<1>8. Log!Newest(A, n) = D
  BY <1>2 DEF D
<1>9. Log!Newest(Append(V, o), n) = D
  BY <1>8 DEF A
<1> QED BY <1>7, <1>9

(* IInv holds at first.                                                    *)
LEMMA InitInv == Init => IInv
<1> SUFFICES ASSUME Init PROVE IInv
  OBVIOUS
<1>1. /\ events_array = [i \in Slots |-> NULL] /\ events_array_size = EVENTS_ARRAY_SIZE
      /\ events_array_full = FALSE /\ events_array_next = 0 /\ hands = {}
  BY DEF Init
<1>2. \A i \in Slots : events_array[i] = NULL
  BY <1>1
<1>3. events_array \in [Slots -> Objects \cup {NULL}]
  BY <1>1
<1>4. /\ events_array_size \in 1..MaxSize /\ hands \subseteq Objects
      /\ 0 \in 0..(events_array_size - 1)
  BY <1>1, SizesAssumption
<1>5. IndicesOK
  <2>1. events_array_full \in BOOLEAN
    BY <1>1, Zenon
  <2> QED BY <1>1, <1>3, <1>4, <2>1 DEF IndicesOK
<1>6. Filled
  <2>1. \A i \in 0..(events_array_size - 1) : ~(i < 0)
    BY <1>4
  <2> QED BY <1>1, <2>1 DEF Filled
<1> QED BY <1>5, <1>6 DEF IInv

(* The index moves up, or wraps around and the ring is full.               *)
LEMMA AdvanceCases ==
    ASSUME IndicesOK, Advance
    PROVE  \/ /\ events_array_next = events_array_size - 1
              /\ events_array_next' = 0 /\ events_array_full' = TRUE
           \/ /\ events_array_next < events_array_size - 1
              /\ events_array_next' = events_array_next + 1
              /\ events_array_full' = events_array_full
<1>1. /\ events_array_size \in Nat /\ events_array_next \in Nat
      /\ events_array_next <= events_array_size - 1
  BY SizesAssumption DEF IndicesOK
<1>2. CASE events_array_next + 1 = events_array_size
  <2>1. events_array_next' = 0 /\ events_array_full' = TRUE
    BY <1>2, Zenon DEF Advance
  <2>2. events_array_next = events_array_size - 1
    BY <1>1, <1>2
  <2> QED BY <2>1, <2>2
<1>3. CASE events_array_next + 1 # events_array_size
  BY <1>1, <1>3 DEF Advance
<1> QED BY <1>2, <1>3

(* Adding an event keeps the indices right and the slots filled.           *)
LEMMA AddKeepsInv ==
    ASSUME IInv, NEW o \in Objects, AddEvent(o), hands' \subseteq Objects
    PROVE  IInv'
<1> USE DEF IInv
<1>1. /\ events_array' = [events_array EXCEPT ![events_array_next] = o]
      /\ events_array_size' = events_array_size
  BY DEF AddEvent
<1>2. events_array_next \in Slots
  BY SizesAssumption DEF IndicesOK, Slots
<1>3. IndicesOK'
  <2>1. events_array' \in [Slots -> Objects \cup {NULL}]
    BY <1>1 DEF IndicesOK
  <2>2. /\ events_array_full' \in BOOLEAN
        /\ events_array_next' \in 0..(events_array_size - 1)
    <3>1. /\ events_array_size \in Nat /\ events_array_next \in Nat
          /\ events_array_size > 0
      BY SizesAssumption DEF IndicesOK
    <3>2. Advance /\ events_array_full \in BOOLEAN
      BY DEF AddEvent, IndicesOK
    <3>3. events_array_full' \in BOOLEAN
      BY <3>2, AdvanceCases, Zenon
    <3>4. \/ events_array_next' = 0
          \/ /\ events_array_next < events_array_size - 1
             /\ events_array_next' = events_array_next + 1
      BY <3>2, AdvanceCases, Zenon
    <3>5. events_array_next' \in 0..(events_array_size - 1)
      BY <3>1, <3>4
    <3> QED BY <3>3, <3>5
  <2> QED BY <1>1, <2>1, <2>2 DEF IndicesOK
<1>4. Filled'
  BY <1>1, <1>2, NullAssumption, SizesAssumption
     DEF AddEvent, Advance, IndicesOK, Filled, Slots
<1> QED BY <1>3, <1>4

(* Adding an event to the array adds it to the log.                        *)
LEMMA AddIsAdd ==
    ASSUME IInv, NEW o \in Objects, AddEvent(o), hands' \subseteq Objects
    PROVE  Log!Add(o)
<1> USE DEF IInv
<1>1. /\ events_array' = [events_array EXCEPT ![events_array_next] = o]
      /\ events_array_size' = events_array_size
      /\ events_list' = <<>>
      /\ Advance
  BY DEF AddEvent
<1>2. /\ events_array_next \in Slots
      /\ events_array_next \in 0..(events_array_size - 1)
      /\ events_array_size - 1 \in Nat
      /\ events_array_size \in Nat
      /\ events_array_full \in BOOLEAN
  BY SizesAssumption DEF IndicesOK, Slots
<1>3. VisibleOK /\ VisibleOK'
  <2>1. IndicesOK'
    BY AddKeepsInv
  <2>2. VisibleOK'
    BY <2>1, VisibleType, PTL
  <2> QED BY <2>2, VisibleType
<1>4. \/ /\ events_array_next = events_array_size - 1
         /\ events_array_next' = 0 /\ events_array_full' = TRUE
      \/ /\ events_array_next < events_array_size - 1
         /\ events_array_next' = events_array_next + 1
         /\ events_array_full' = events_array_full
  BY <1>1, AdvanceCases
<1>5. \/ events_array_next = events_array_size - 1 /\ events_array_next' = 0
      \/ /\ events_array_next < events_array_size - 1
         /\ events_array_next' = events_array_next + 1
  BY <1>4, Zenon
<1>6. events_array_size \in Nat /\ events_array_next \in Nat
  BY <1>2
<1>7. ASSUME events_array_full \/ events_array_next = events_array_size - 1,
             NEW k \in 1..(events_array_size - 1)
      PROVE  Visible'[k] = IF k < events_array_size - 1 THEN Visible[k + 1] ELSE o
  <2>1. events_array_full'
    BY <1>2, <1>4, <1>7
  <2>2. Visible'[k] = events_array'[Wrap(events_array_next + k)']
    BY <2>1, <1>1 DEF Visible
  <2>3. CASE events_array_full /\ k < events_array_size - 1
    <3>1. k + 1 \in 1..(events_array_size - 1)
      BY <1>2, <2>3
    <3>2. Wrap(events_array_next + k)' = Wrap(events_array_next + (k + 1))
      BY <1>1, <1>5, <1>6, <2>3 DEF Wrap
    <3>3. /\ Wrap(events_array_next + (k + 1)) \in Slots
          /\ Wrap(events_array_next + (k + 1)) # events_array_next
      BY <3>1, WrapRange
    <3>4. Visible[k + 1] = events_array[Wrap(events_array_next + (k + 1))]
      BY <2>3, <3>1 DEF Visible
    <3> QED BY <2>2, <2>3, <3>2, <3>3, <3>4, <1>1 DEF IndicesOK
  <2>4. CASE events_array_full /\ k = events_array_size - 1
    <3>1. Wrap(events_array_next + k)' = events_array_next
      BY <1>1, <1>5, <1>6, <2>4 DEF Wrap
    <3> QED BY <3>1, <2>2, <2>4, <1>1, <1>2 DEF IndicesOK
  <2>5. CASE ~events_array_full
    <3>1. events_array_next = events_array_size - 1 /\ events_array_next' = 0
      BY <2>5, <1>7, <1>4, <1>2
    <3>2. Wrap(events_array_next + k)' = k
      BY <3>1, <1>1, <1>2 DEF Wrap
    <3>3. k < events_array_size - 1 => Visible[k + 1] = events_array[k]
      BY <2>5, <3>1, <1>2 DEF Visible
    <3>4. k \in Slots
      BY SizesAssumption DEF IndicesOK, Slots
    <3> QED BY <3>1, <3>2, <3>3, <3>4, <2>2, <1>1, <1>2 DEF IndicesOK
  <2> QED BY <2>3, <2>4, <2>5, <1>2
<1>8. ASSUME ~events_array_full, events_array_next # events_array_size - 1,
             NEW k \in 1..(events_array_next + 1)
      PROVE  Visible'[k] = IF k <= events_array_next THEN Visible[k] ELSE o
  <2>1. /\ ~events_array_full'
        /\ events_array_next' = events_array_next + 1
    BY <1>2, <1>4, <1>8
  <2>2. Visible'[k] = events_array'[k - 1]
    BY <2>1 DEF Visible
  <2>3. k <= events_array_next => Visible[k] = events_array[k - 1]
    BY <1>8, <1>2 DEF Visible
  <2>4. k - 1 \in Slots
    BY <1>2, <1>8, SizesAssumption DEF IndicesOK, Slots
  <2> QED BY <2>2, <2>3, <2>4, <1>1, <1>2 DEF IndicesOK
<1>9. Visible' = Log!Newest(Append(Visible, o), events_array_size - 1)
  <2>1. CASE events_array_full \/ events_array_next = events_array_size - 1
    <3>1. Len(Visible) = events_array_size - 1 /\ Len(Visible') = events_array_size - 1
      BY <2>1, <1>1, <1>2, <1>3, <1>4 DEF VisibleOK
    <3>2. \A k \in 1..(events_array_size - 1) :
             Visible'[k] = IF k < events_array_size - 1 THEN Visible[k + 1] ELSE o
      BY <2>1, <1>7
    <3> HIDE DEF IInv
    <3> QED BY <3>1, <3>2, <1>2, <1>3, NewestDrops DEF VisibleOK
  <2>2. CASE ~events_array_full /\ events_array_next # events_array_size - 1
    <3>1. /\ Len(Visible) = events_array_next /\ Len(Visible') = events_array_next + 1
          /\ events_array_next < events_array_size - 1
      BY <2>2, <1>1, <1>2, <1>3, <1>4 DEF VisibleOK
    <3>2. \A k \in 1..Len(Visible') :
             Visible'[k] = IF k <= Len(Visible) THEN Visible[k] ELSE o
      BY <2>2, <3>1, <1>8
    <3> QED BY <3>1, <3>2, <1>2, <1>3, NewestFits DEF VisibleOK
  <2> QED BY <2>1, <2>2
<1> QED BY <1>1, <1>9 DEF Log!Add

(* Nothing is in the log when it begins anew.                              *)
LEMMA StartsOver ==
    ASSUME ~events_array_full', events_array_next' = 0
    PROVE  Visible' = <<>> /\ Filled'
<1>1. Visible' = [k \in 1..0 |-> events_array'[k - 1]]
  BY DEF Visible
<1> QED BY <1>1 DEF Filled

(* Where the array stays, the log does; what happens at the slot of the    *)
(* next event, the log does not tell.                                      *)
LEMMA SameArray ==
    ASSUME IInv, UNCHANGED array, hands' \subseteq Objects
    PROVE  IInv' /\ UNCHANGED <<Visible, events_array_size>>
<1>1. UNCHANGED <<events_array, events_array_size, events_array_full, events_array_next>>
  BY DEF array
<1>2. IndicesOK'
  BY <1>1 DEF IInv, IndicesOK
<1>3. Filled'
  BY <1>1 DEF IInv, Filled
<1>4. Visible' = Visible
  BY <1>1 DEF Visible, Wrap
<1> QED BY <1>1, <1>2, <1>3, <1>4 DEF IInv

(* Taking a slot (point_available_event) does not change what is shown.    *)
LEMMA PointHidden ==
    ASSUME IInv, Point
    PROVE  IInv' /\ UNCHANGED <<Visible, events_array_size, events_list>>
<1>1. UNCHANGED <<events_array_size, events_array_full, events_array_next, events_list>>
  BY DEF Point
<1>2. /\ events_array_next \in Slots
      /\ events_array_next \in 0..(events_array_size - 1)
      /\ events_array \in [Slots -> Objects \cup {NULL}]
      /\ hands \subseteq Objects
  BY SizesAssumption DEF IInv, IndicesOK, Slots
<1>3. CASE events_array[events_array_next] = NULL
  <2>1. UNCHANGED array
    BY <1>1, <1>3 DEF Point, array
  <2>2. hands' \subseteq Objects
    BY <1>2, <1>3 DEF Point
  <2> QED BY <2>1, <2>2, <1>1, SameArray
<1>4. CASE events_array[events_array_next] # NULL
  <2>1. /\ hands' = hands \cup {events_array[events_array_next]}
        /\ events_array' = [events_array EXCEPT ![events_array_next] = NULL]
    BY <1>4 DEF Point
  <2>2. hands' \subseteq Objects /\ events_array' \in [Slots -> Objects \cup {NULL}]
    BY <1>2, <1>4, <2>1
  <2>3. \A i \in Slots : i # events_array_next => events_array'[i] = events_array[i]
    BY <1>2, <2>1
  <2>4. IndicesOK'
    BY <1>1, <2>2 DEF IInv, IndicesOK
  <2>5. Filled'
    <3>1. \A i \in 0..(events_array_size - 1) : i \in Slots
      BY SizesAssumption DEF IInv, IndicesOK, Slots
    <3>2. \A i \in 0..(events_array_size - 1) : i < events_array_next => i # events_array_next
      BY <1>2
    <3> QED BY <1>1, <2>3, <3>1, <3>2 DEF IInv, Filled
  <2>6. Visible' = Visible
    <3>1. CASE events_array_full
      <4>1. \A k \in 1..(events_array_size - 1) :
               events_array'[Wrap(events_array_next + k)]
               = events_array[Wrap(events_array_next + k)]
        BY <2>3, WrapRange DEF IInv
      <4>2. Visible' = [k \in 1..(events_array_size - 1) |->
                           events_array'[Wrap(events_array_next + k)]]
        BY <1>1, <3>1 DEF Visible, Wrap
      <4>3. Visible = [k \in 1..(events_array_size - 1) |->
                           events_array[Wrap(events_array_next + k)]]
        BY <3>1 DEF Visible
      <4> QED BY <4>1, <4>2, <4>3
    <3>2. CASE ~events_array_full
      <4>1. \A k \in 1..events_array_next : k - 1 \in Slots /\ k - 1 # events_array_next
        BY <1>2, SizesAssumption DEF Slots
      <4>2. \A k \in 1..events_array_next : events_array'[k - 1] = events_array[k - 1]
        BY <2>3, <4>1
      <4> QED BY <1>1, <3>2, <4>2 DEF Visible
    <3> QED BY <3>1, <3>2
  <2> QED BY <1>1, <2>4, <2>5, <2>6 DEF IInv
<1> QED BY <1>3, <1>4

(* Another size, and the log begins anew.                                  *)
LEMMA ResizedIsResize ==
    ASSUME IInv, NEW size \in 1..MaxSize, ResizedTo(size), hands' \subseteq Objects
    PROVE  IInv' /\ Visible' = <<>> /\ events_array_size' = size
<1>1. /\ events_array_size' = size
      /\ ~events_array_full' /\ events_array_full' \in BOOLEAN
      /\ events_array_next' = 0
  BY Zenon DEF ResizedTo, StartOver
<1>2. Visible' = <<>> /\ Filled'
  BY <1>1, StartsOver
<1>3. events_array' \in [Slots -> Objects \cup {NULL}]
  BY DEF ResizedTo, IInv, IndicesOK
<1>4. 0 \in 0..(size - 1)
  BY SizesAssumption
<1>5. IndicesOK'
  BY <1>1, <1>3, <1>4 DEF IndicesOK
<1> QED BY <1>1, <1>2, <1>5 DEF IInv

(* A change of size is the log's Resize, or changes nothing.               *)
LEMMA ChangeIsResize ==
    ASSUME IInv, NEW n \in Nat, n + 1 <= MaxSize, ChangeSize(n),
           hands' \subseteq Objects, UNCHANGED events_list
    PROVE  IInv' /\ [Log!Next]_(Log!vars)
<1>1. CASE n + 1 = events_array_size
  <2>1. UNCHANGED array
    BY <1>1 DEF ChangeSize
  <2>2. IInv' /\ UNCHANGED <<Visible, events_array_size>>
    BY <2>1, SameArray
  <2> QED BY <2>2 DEF Log!vars
<1>2. CASE n + 1 # events_array_size
  <2>1. n + 1 \in 1..MaxSize /\ ResizedTo(n + 1)
    BY <1>2, SizesAssumption DEF ChangeSize
  <2>2. IInv' /\ Visible' = <<>> /\ events_array_size' = n + 1
    BY <2>1, ResizedIsResize
  <2>3. (events_array_size - 1)' \in Nat
    BY <2>2
  <2> QED BY <2>2, <2>3 DEF Log!Next, Log!Resize
<1> QED BY <1>1, <1>2

(* What get_events() takes is what the log holds.                          *)
LEMMA TakenIsRead ==
    ASSUME IInv, GetEvents
    PROVE  IInv' /\ Log!Read
<1>1. /\ UNCHANGED <<events_array_size, hands>>
      /\ events_list = <<>> /\ events_list' = Visible
      /\ ~events_array_full' /\ events_array_full' \in BOOLEAN
      /\ events_array_next' = 0
  BY Zenon DEF GetEvents, StartOver
<1>2. Visible' = <<>> /\ Filled'
  BY <1>1, StartsOver
<1>3. events_array' \in [Slots -> Objects \cup {NULL}]
  BY DEF GetEvents, Taken, IInv, IndicesOK
<1>4. 0 \in 0..(events_array_size - 1)
  BY SizesAssumption DEF IInv, IndicesOK
<1>5. IndicesOK'
  BY <1>1, <1>3, <1>4 DEF IInv, IndicesOK
<1> QED BY <1>1, <1>2, <1>5 DEF IInv, Log!Read

(* A cleared ring is the log's Clear.                                      *)
LEMMA ClearIsClear ==
    ASSUME IInv, Clear
    PROVE  IInv' /\ Log!Clear
<1>1. /\ UNCHANGED <<events_array, events_array_size, events_list, hands>>
      /\ ~events_array_full' /\ events_array_full' \in BOOLEAN
      /\ events_array_next' = 0
  BY Zenon DEF Clear, StartOver
<1>2. Visible' = <<>> /\ Filled'
  BY <1>1, StartsOver
<1>3. 0 \in 0..(events_array_size - 1)
  BY SizesAssumption DEF IInv, IndicesOK
<1>4. IndicesOK'
  BY <1>1, <1>3 DEF IInv, IndicesOK
<1> QED BY <1>1, <1>2, <1>4 DEF IInv, Log!Clear

(* Every step of the array is a step of the log, or none.                  *)
LEMMA StepIsStep ==
    ASSUME IInv, [Next]_vars
    PROVE  IInv' /\ [Log!Next]_(Log!vars)
<1>1. hands \subseteq Objects
  BY DEF IInv, IndicesOK
<1>2. CASE Point
  BY <1>2, PointHidden DEF Log!vars
<1>3. CASE AddPointed
  <2>1. PICK o \in hands : AddEvent(o) /\ hands' = hands \ {o}
    BY <1>3 DEF AddPointed
  <2>2. o \in Objects /\ hands' \subseteq Objects
    BY <1>1, <2>1
  <2>3. IInv' /\ Log!Add(o)
    BY <2>1, <2>2, AddKeepsInv, AddIsAdd
  <2> QED BY <2>2, <2>3 DEF Log!Next
<1>4. CASE AddOther
  <2>1. PICK o \in Objects : AddEvent(o) /\ UNCHANGED hands
    BY <1>4 DEF AddOther
  <2>2. IInv' /\ Log!Add(o)
    BY <1>1, <2>1, AddKeepsInv, AddIsAdd
  <2> QED BY <2>2 DEF Log!Next
<1>5. CASE Drop
  <2>1. UNCHANGED array /\ UNCHANGED events_list /\ hands' \subseteq Objects
    BY <1>1, <1>5 DEF Drop
  <2>2. IInv' /\ UNCHANGED <<Visible, events_array_size>>
    BY <2>1, SameArray
  <2> QED BY <2>1, <2>2 DEF Log!vars
<1>6. CASE Clear
  BY <1>6, ClearIsClear DEF Log!Next
<1>7. CASE GetEvents
  BY <1>7, TakenIsRead DEF Log!Next
<1>8. CASE SetHistorySize
  <2>1. PICK n \in Sizes : ChangeSize(n) /\ UNCHANGED <<events_list, hands>>
    BY <1>8 DEF SetHistorySize
  <2>2. n \in Nat /\ n + 1 <= MaxSize
    BY SizesAssumption
  <2> QED BY <1>1, <2>1, <2>2, ChangeIsResize
<1>9. ASSUME NEW u \in Users, BatchBegins(u)
      PROVE  IInv' /\ [Log!Next]_(Log!vars)
  <2>1. PICK n \in Lengths : ChangeSize(2 * n) /\ UNCHANGED <<events_list, hands>>
    BY <1>9 DEF BatchBegins, Begins
  <2>2. 2 * n \in Nat /\ 2 * n + 1 <= MaxSize
    BY SizesAssumption
  <2> QED BY <1>1, <2>1, <2>2, ChangeIsResize
<1>10. ASSUME UNCHANGED array, UNCHANGED <<events_list, hands>>
       PROVE  IInv' /\ [Log!Next]_(Log!vars)
  <2>1. IInv' /\ UNCHANGED <<Visible, events_array_size>>
    BY <1>1, <1>10, SameArray
  <2> QED BY <1>10, <2>1 DEF Log!vars
<1>11. ASSUME NEW u \in Users, OperationBegins(u) \/ Ends(u)
       PROVE  IInv' /\ [Log!Next]_(Log!vars)
  BY <1>10, <1>11 DEF OperationBegins, Begins, Ends
<1>12. CASE UNCHANGED vars
  BY <1>10, <1>12 DEF vars
<1> QED BY <1>2, <1>3, <1>4, <1>5, <1>6, <1>7, <1>8, <1>9, <1>11, <1>12 DEF Next

(* The ring starts as an empty log.                                        *)
LEMMA InitIsInit == Init => Log!Init
<1> SUFFICES ASSUME Init PROVE Log!Init
  OBVIOUS
<1>1. ~events_array_full /\ events_array_next = 0 /\ events_list = <<>>
  BY DEF Init
<1>2. Visible = [k \in 1..0 |-> events_array[k - 1]]
  BY <1>1 DEF Visible
<1>3. events_array_size - 1 \in Nat
  BY SizesAssumption DEF Init
<1> QED BY <1>1, <1>2, <1>3 DEF Log!Init

(* The indices of the ring stay in range: IInv always holds.               *)
THEOREM Invariance == Spec => []IInv
<1>1. Init => IInv
  BY InitInv
<1>2. IInv /\ [Next]_vars => IInv'
  BY StepIsStep
<1> QED BY <1>1, <1>2, PTL DEF Spec

(* The array with its indices, as _add_event(), get_events(), the clearing *)
(* and the changes of its size move them, is a log of the newest events,   *)
(* whatever its sizes are: none is lost while there is room, the oldest    *)
(* goes first, and no slot appears twice or in another order.              *)
THEOREM EventsImplementLog == Spec => ImplementsLog
<1>1. Init => Log!Init
  BY InitIsInit
<1>2. IInv /\ [Next]_vars => [Log!Next]_(Log!vars)
  BY StepIsStep
<1> QED BY <1>1, <1>2, Invariance, PTL DEF Spec, ImplementsLog, Log!Spec

(* get_events() finds an event in every slot it takes (its assertions).    *)
THEOREM EventsAssertHolds == Spec => []AssertHolds
<1>1. IInv => AssertHolds
  <2> SUFFICES ASSUME IInv, NEW k \in DOMAIN Visible PROVE Visible[k] # NULL
    BY DEF AssertHolds
  <2>1. CASE events_array_full
    <3>1. Visible = [j \in 1..(events_array_size - 1) |->
                         events_array[Wrap(events_array_next + j)]]
      BY <2>1 DEF Visible
    <3>2. k \in 1..(events_array_size - 1)
      BY <3>1
    <3> QED BY <2>1, <3>1, <3>2, WrapRange DEF IInv, Filled
  <2>2. CASE ~events_array_full
    <3>1. Visible = [j \in 1..events_array_next |-> events_array[j - 1]]
      BY <2>2 DEF Visible
    <3>2. k \in 1..events_array_next
      BY <3>1
    <3>3. k - 1 \in 0..(events_array_size - 1) /\ k - 1 < events_array_next
      BY <3>2, SizesAssumption DEF IInv, IndicesOK
    <3> QED BY <2>2, <3>1, <3>2, <3>3 DEF IInv, Filled
  <2> QED BY <2>1, <2>2
<1> QED BY <1>1, Invariance, PTL
-----------------------------------------------------------------------------
(* Whose the events are.                                                   *)

(* The variables the log and its array do not need.                        *)
CallersOK ==
    /\ events_list \in Seq(Objects)
    /\ auto_clear_events \in BOOLEAN
    /\ lost \subseteq Objects
    /\ running \in [Users -> Seq({"batch", "operation"})]
    /\ undisturbed = <<>> \/ \E n \in Lengths : undisturbed = <<n>>
    /\ since \in Seq(Objects) /\ small \in BOOLEAN
    /\ ClearedAgain

(* OneOwner, said of the elements.                                         *)
InSlotsOnce ==
    \A i, j \in Slots : events_array[i] = events_array[j] => i = j \/ events_array[i] = NULL
InListOnce ==
    \A k, m \in 1..Len(events_list) : events_list[k] = events_list[m] => k = m
SlotsApart ==
    \A i \in Slots : events_array[i] # NULL =>
        events_array[i] \notin hands /\ events_array[i] \notin lost
ListApart ==
    \A k \in 1..Len(events_list) :
        /\ events_list[k] \notin hands /\ events_list[k] \notin lost
        /\ \A i \in Slots : events_array[i] # events_list[k]
HandsApart == \A o \in hands : o \notin lost
Owners == InSlotsOnce /\ InListOnce /\ SlotsApart /\ ListApart /\ HandsApart

(* An array that never was smaller than at first has nothing behind its    *)
(* end.                                                                    *)
NothingBehind ==
    ~small => /\ lost = {}
              /\ events_array_size >= EVENTS_ARRAY_SIZE
              /\ \A i \in Slots : i >= events_array_size => events_array[i] = NULL

OwnersInv == IInv /\ CallersOK /\ Owners /\ NothingBehind

(* Owners is about the same places as OneOwner.                            *)
LEMMA OwnersGiveOneOwner == CallersOK /\ Owners => OneOwner
<1> SUFFICES ASSUME CallersOK, Owners PROVE OneOwner
  OBVIOUS
<1>1. DOMAIN events_list = 1..Len(events_list)
  BY DEF CallersOK
<1>2. IsInjective(events_list)
  BY <1>1 DEF IsInjective, Owners, InListOnce
<1>3. \A o \in Allocated : \E i \in Slots : o = events_array[i] /\ o # NULL
  BY DEF Allocated
<1>4. \A o \in ToSet(events_list) : \E k \in 1..Len(events_list) : o = events_list[k]
  BY <1>1 DEF ToSet
<1>5. Allocated \cap ToSet(events_list) = {}
  BY <1>3, <1>4 DEF Owners, ListApart
<1>6. (Allocated \cup ToSet(events_list)) \cap hands = {}
  BY <1>3, <1>4 DEF Owners, ListApart, SlotsApart
<1>7. (Allocated \cup ToSet(events_list) \cup hands) \cap lost = {}
  BY <1>3, <1>4 DEF Owners, ListApart, SlotsApart, HandsApart
<1> QED BY <1>2, <1>5, <1>6, <1>7 DEF OneOwner, Owners, InSlotsOnce

(* A new event is nobody's.                                                *)
LEMMA NewIsNobodys ==
    ASSUME CallersOK, NEW o, New(o)
    PROVE  /\ o # NULL => \A i \in Slots : events_array[i] # o
           /\ \A k \in 1..Len(events_list) : events_list[k] # o
           /\ o \notin hands /\ o \notin lost
<1>1. DOMAIN events_list = 1..Len(events_list)
  BY DEF CallersOK
<1>2. o \notin Allocated /\ o \notin ToSet(events_list) /\ o \notin hands /\ o \notin lost
  BY DEF New, InUse
<1> QED BY <1>1, <1>2 DEF Allocated, ToSet

(* Owners holds at first.                                                  *)
LEMMA InitOwners == Init => OwnersInv
<1> SUFFICES ASSUME Init PROVE OwnersInv
  OBVIOUS
<1>1. /\ events_list = <<>> /\ since = <<>> /\ undisturbed = <<>>
      /\ running = [u \in Users |-> <<>>]
      /\ hands = {} /\ lost = {} /\ small = FALSE /\ auto_clear_events = TRUE
      /\ events_array_size = EVENTS_ARRAY_SIZE
      /\ \A i \in Slots : events_array[i] = NULL
  BY DEF Init
<1>2. CallersOK
  <2>1. running \in [Users -> Seq({"batch", "operation"})] /\ ClearedAgain
    BY <1>1 DEF ClearedAgain
  <2>2. events_list \in Seq(Objects) /\ since \in Seq(Objects) /\ lost \subseteq Objects
    BY <1>1
  <2>3. small \in BOOLEAN
    BY <1>1
  <2> QED BY <1>1, <2>1, <2>2, <2>3, Zenon DEF CallersOK
<1>3. Owners
  BY <1>1 DEF Owners, InSlotsOnce, InListOnce, SlotsApart, ListApart, HandsApart
<1>4. NothingBehind
  BY <1>1, SizesAssumption DEF NothingBehind
<1> QED BY <1>2, <1>3, <1>4, InitInv DEF OwnersInv

(* The slots get_events() takes are those it makes the list of.            *)
LEMMA VisibleEvents ==
    ASSUME IInv, InSlotsOnce
    PROVE  /\ Visible \in Seq(Objects)
           /\ \A k \in 1..Len(Visible) : \E i \in 0..(events_array_size - 1) :
                 /\ Visible[k] = events_array[i]
                 /\ IF events_array_full THEN i # events_array_next ELSE i < events_array_next
           /\ \A k, m \in 1..Len(Visible) : Visible[k] = Visible[m] => k = m
<1>1. VisibleOK
  BY VisibleType DEF IInv
<1>2. /\ events_array_size \in Nat /\ events_array_next \in Nat
      /\ events_array_next < events_array_size /\ events_array_size <= MaxSize
      /\ MaxSize \in Nat /\ events_array_full \in BOOLEAN
      /\ events_array \in [Slots -> Objects \cup {NULL}]
  BY SizesAssumption DEF IInv, IndicesOK
<1>3. \A i \in 0..(events_array_size - 1) : i \in Slots
  BY <1>2 DEF Slots
<1>4. CASE events_array_full
  <2>1. Len(Visible) = events_array_size - 1
    BY <1>1, <1>4 DEF VisibleOK
  <2>2. \A k \in 1..(events_array_size - 1) :
           Visible[k] = events_array[Wrap(events_array_next + k)]
    BY <1>4 DEF Visible
  <2>3. \A k \in 1..(events_array_size - 1) :
           /\ Wrap(events_array_next + k) \in 0..(events_array_size - 1)
           /\ Wrap(events_array_next + k) # events_array_next
    BY WrapRange DEF IInv
  <2>4. \A k, m \in 1..(events_array_size - 1) :
           Wrap(events_array_next + k) = Wrap(events_array_next + m) => k = m
    BY <1>2 DEF Wrap
  <2>5. \A k \in 1..(events_array_size - 1) : Visible[k] # NULL
    BY <1>4, <2>2, <2>3 DEF IInv, Filled
  <2>6. \A k, m \in 1..(events_array_size - 1) : Visible[k] = Visible[m] => k = m
    BY <1>3, <2>2, <2>3, <2>4, <2>5 DEF InSlotsOnce
  <2>7. \A k \in 1..(events_array_size - 1) : \E i \in 0..(events_array_size - 1) :
           Visible[k] = events_array[i] /\ i # events_array_next
    BY <2>2, <2>3
  <2>8. Visible \in Seq(Objects)
    BY <1>1, <2>1, <2>5 DEF VisibleOK
  <2> QED BY <1>4, <2>1, <2>6, <2>7, <2>8
<1>5. CASE ~events_array_full
  <2>1. Len(Visible) = events_array_next
    BY <1>1, <1>5 DEF VisibleOK
  <2>2. \A k \in 1..events_array_next : Visible[k] = events_array[k - 1]
    BY <1>5 DEF Visible
  <2>3. \A k \in 1..events_array_next :
           k - 1 \in 0..(events_array_size - 1) /\ k - 1 < events_array_next
    BY <1>2
  <2>5. \A k \in 1..events_array_next : Visible[k] # NULL
    BY <1>5, <2>2, <2>3 DEF IInv, Filled
  <2>6. \A k, m \in 1..events_array_next : Visible[k] = Visible[m] => k = m
    <3> SUFFICES ASSUME NEW k \in 1..events_array_next, NEW m \in 1..events_array_next,
                        Visible[k] = Visible[m]
                 PROVE  k = m
      OBVIOUS
    <3>1. k - 1 = m - 1
      BY <1>3, <2>2, <2>3, <2>5 DEF InSlotsOnce
    <3> QED BY <3>1, <1>2
  <2>7. \A k \in 1..events_array_next : \E i \in 0..(events_array_size - 1) :
           Visible[k] = events_array[i] /\ i < events_array_next
    BY <2>2, <2>3
  <2>8. Visible \in Seq(Objects)
    BY <1>1, <2>1, <2>5 DEF VisibleOK
  <2> QED BY <1>5, <2>1, <2>6, <2>7, <2>8
<1> QED BY <1>2, <1>4, <1>5

(* What is kept of the events in the slots when some of them are emptied.  *)
LEMMA OwnersLess ==
    ASSUME Owners, \A i \in Slots : events_array'[i] \in {events_array[i], NULL},
           hands' \subseteq hands, UNCHANGED <<events_list, lost>>,
           \A k \in 1..Len(events_list) : events_list[k] # NULL
    PROVE  Owners'
<1>1. InSlotsOnce'
  BY DEF Owners, InSlotsOnce
<1>2. InListOnce'
  BY DEF Owners, InListOnce
<1>3. SlotsApart'
  BY DEF Owners, SlotsApart
<1>4. ListApart'
  BY DEF Owners, ListApart
<1>5. HandsApart'
  BY DEF Owners, HandsApart
<1> QED BY <1>1, <1>2, <1>3, <1>4, <1>5 DEF Owners

(* No NULL is in the list.                                                 *)
LEMMA ListNotNull ==
    CallersOK => \A k \in 1..Len(events_list) : events_list[k] \in Objects /\ events_list[k] # NULL
  BY NullAssumption DEF CallersOK

(* A step that moves no event changes no owner.                            *)
LEMMA FrameOwners ==
    ASSUME Owners, NothingBehind,
           UNCHANGED <<events_array, events_array_size, events_list, hands, lost, small>>
    PROVE  Owners' /\ NothingBehind'
<1>1. Owners'
  BY DEF Owners, InSlotsOnce, InListOnce, SlotsApart, ListApart, HandsApart
<1> QED BY <1>1 DEF NothingBehind

(* An event that is prepared comes from the slot it will be put in, which  *)
(* is empty from then on, or is new.                                       *)
LEMMA PointOwners ==
    ASSUME OwnersInv, Point
    PROVE  Owners' /\ NothingBehind'
<1> DEFINE eev == events_array[events_array_next]
<1>1. /\ UNCHANGED <<events_array_size, events_list, lost, small>>
  BY DEF Point, history
<1>2. events_array_next \in Slots /\ events_array \in [Slots -> Objects \cup {NULL}]
  BY SizesAssumption DEF OwnersInv, IInv, IndicesOK, Slots
<1>3. CallersOK /\ Owners /\ NothingBehind
  BY DEF OwnersInv
<1>4. CASE eev = NULL
  <2>1. PICK o \in Objects : New(o) /\ hands' = hands \cup {o} /\ UNCHANGED events_array
    BY <1>4 DEF Point
  <2>2. /\ \A i \in Slots : events_array[i] # o
        /\ \A k \in 1..Len(events_list) : events_list[k] # o
        /\ o \notin lost
    BY <1>3, <2>1, NewIsNobodys, NullAssumption
  <2>3. SlotsApart'
    BY <1>1, <1>3, <2>1, <2>2 DEF Owners, SlotsApart
  <2>4. ListApart'
    BY <1>1, <1>3, <2>1, <2>2 DEF Owners, ListApart
  <2>5. HandsApart'
    BY <1>1, <1>3, <2>1, <2>2 DEF Owners, HandsApart
  <2>6. InSlotsOnce' /\ InListOnce' /\ NothingBehind'
    BY <1>1, <1>3, <2>1 DEF Owners, InSlotsOnce, InListOnce, NothingBehind
  <2> QED BY <2>3, <2>4, <2>5, <2>6 DEF Owners
<1>5. CASE eev # NULL
  <2>1. /\ hands' = hands \cup {eev}
        /\ events_array' = [events_array EXCEPT ![events_array_next] = NULL]
    BY <1>5 DEF Point
  <2>2. \A i \in Slots : /\ i # events_array_next => events_array'[i] = events_array[i]
                         /\ i = events_array_next => events_array'[i] = NULL
    BY <1>2, <2>1
  <2>3. /\ \A i \in Slots : i # events_array_next => events_array[i] # eev
        /\ \A k \in 1..Len(events_list) : events_list[k] # eev
        /\ eev \notin lost
    BY <1>2, <1>3, <1>5 DEF Owners, InSlotsOnce, ListApart, SlotsApart
  <2>4. SlotsApart'
    BY <1>1, <1>3, <2>1, <2>2, <2>3 DEF Owners, SlotsApart
  <2>5. ListApart'
    BY <1>1, <1>3, <2>1, <2>2, <2>3, ListNotNull DEF Owners, ListApart
  <2>6. HandsApart'
    BY <1>1, <1>3, <2>1, <2>3 DEF Owners, HandsApart
  <2>7. InSlotsOnce' /\ InListOnce' /\ NothingBehind'
    BY <1>1, <1>3, <2>2 DEF Owners, InSlotsOnce, InListOnce, NothingBehind
  <2> QED BY <2>4, <2>5, <2>6, <2>7 DEF Owners
<1> QED BY <1>4, <1>5

(* An event that is added goes from the hands it was in, or from nowhere,  *)
(* to one slot; who it displaces there is nobody's from then on.           *)
LEMMA AddOwners ==
    ASSUME OwnersInv, NEW o \in Objects, AddEvent(o), hands' \subseteq hands, o \notin hands',
           \A i \in Slots : events_array[i] # o, o \notin lost
    PROVE  Owners' /\ NothingBehind'
<1>1. /\ UNCHANGED <<events_array_size, lost, small>> /\ events_list' = <<>>
      /\ events_array' = [events_array EXCEPT ![events_array_next] = o]
  BY DEF AddEvent
<1>2. /\ events_array_next \in Slots /\ events_array \in [Slots -> Objects \cup {NULL}]
      /\ events_array_next < events_array_size
  BY SizesAssumption DEF OwnersInv, IInv, IndicesOK, Slots
<1>3. Owners /\ NothingBehind
  BY DEF OwnersInv
<1>4. \A i \in Slots : /\ i # events_array_next => events_array'[i] = events_array[i]
                       /\ i = events_array_next => events_array'[i] = o
  BY <1>1, <1>2
<1>5. InSlotsOnce'
  BY <1>3, <1>4 DEF Owners, InSlotsOnce
<1>6. SlotsApart'
  BY <1>1, <1>3, <1>4 DEF Owners, SlotsApart
<1>7. InListOnce' /\ ListApart'
  BY <1>1 DEF InListOnce, ListApart
<1>8. HandsApart'
  BY <1>1, <1>3 DEF Owners, HandsApart
<1>9. NothingBehind'
  <2>1. \A i \in Slots : i >= events_array_size => i # events_array_next
    BY <1>2, SizesAssumption DEF OwnersInv, IInv, IndicesOK, Slots
  <2> QED BY <1>1, <1>3, <1>4, <2>1 DEF NothingBehind
<1> QED BY <1>5, <1>6, <1>7, <1>8, <1>9 DEF Owners

(* The list takes the events out of their slots.                           *)
LEMMA GetOwners ==
    ASSUME OwnersInv, GetEvents
    PROVE  Owners' /\ NothingBehind'
<1> DEFINE Read(i) == \/ events_array_full /\ i < events_array_size /\ i # events_array_next
                      \/ ~events_array_full /\ i < events_array_next
<1>1. /\ UNCHANGED <<events_array_size, hands, lost, small>> /\ events_list' = Visible
      /\ events_array' = [i \in Slots |-> IF Read(i) THEN NULL ELSE events_array[i]]
  BY DEF GetEvents, Taken
<1>2. Owners /\ NothingBehind /\ IInv
  BY DEF OwnersInv
<1>3. /\ Visible \in Seq(Objects)
      /\ \A k \in 1..Len(Visible) : \E i \in 0..(events_array_size - 1) :
            /\ Visible[k] = events_array[i]
            /\ IF events_array_full THEN i # events_array_next ELSE i < events_array_next
      /\ \A k, m \in 1..Len(Visible) : Visible[k] = Visible[m] => k = m
  BY <1>2, VisibleEvents DEF Owners
<1>4. \A k \in 1..Len(Visible) : \E i \in Slots : Visible[k] = events_array[i] /\ Read(i)
  <2> SUFFICES ASSUME NEW k \in 1..Len(Visible)
               PROVE  \E i \in Slots : Visible[k] = events_array[i] /\ Read(i)
    OBVIOUS
  <2>1. PICK i \in 0..(events_array_size - 1) :
            /\ Visible[k] = events_array[i]
            /\ IF events_array_full THEN i # events_array_next ELSE i < events_array_next
    BY <1>3
  <2>2. i \in Slots /\ i < events_array_size
    BY SizesAssumption, <1>2 DEF IInv, IndicesOK, Slots
  <2> QED BY <2>1, <2>2
<1>5. \A k \in 1..Len(Visible) : Visible[k] \in Objects /\ Visible[k] # NULL
  BY <1>3, NullAssumption
<1>6. \A i \in Slots : events_array'[i] = IF Read(i) THEN NULL ELSE events_array[i]
  BY <1>1
<1> HIDE DEF Read
<1>7. InSlotsOnce'
  BY <1>2, <1>6 DEF Owners, InSlotsOnce
<1>8. SlotsApart'
  BY <1>1, <1>2, <1>6 DEF Owners, SlotsApart
<1>9. InListOnce'
  BY <1>1, <1>3 DEF InListOnce
<1>10. ListApart'
  <2> SUFFICES ASSUME NEW k \in 1..Len(Visible)
               PROVE  /\ Visible[k] \notin hands /\ Visible[k] \notin lost
                      /\ \A i \in Slots : events_array'[i] # Visible[k]
    BY <1>1 DEF ListApart
  <2>1. PICK j \in Slots : Visible[k] = events_array[j] /\ Read(j)
    BY <1>4
  <2>2. Visible[k] # NULL
    BY <1>5
  <2>3. Visible[k] \notin hands /\ Visible[k] \notin lost
    BY <1>2, <2>1, <2>2 DEF Owners, SlotsApart
  <2>4. \A i \in Slots : events_array'[i] # Visible[k]
    BY <1>2, <1>6, <2>1, <2>2 DEF Owners, InSlotsOnce
  <2> QED BY <2>3, <2>4
<1>11. HandsApart' /\ NothingBehind'
  BY <1>1, <1>2, <1>6 DEF Owners, HandsApart, NothingBehind
<1> QED BY <1>7, <1>8, <1>9, <1>10, <1>11 DEF Owners

(* With another size, what was behind the end of the array is lost; there  *)
(* was nothing unless the array had been smaller than at first.            *)
LEMMA ResizedOwners ==
    ASSUME OwnersInv, NEW size \in 1..MaxSize, ResizedTo(size), UNCHANGED <<events_list, hands>>
    PROVE  /\ Owners' /\ NothingBehind'
           /\ lost' \subseteq Objects /\ small' \in BOOLEAN
<1> DEFINE Left == {events_array[i] : i \in Gained(size)} \ {NULL}
<1>1. /\ events_array_size' = size
      /\ lost' = lost \cup Left
      /\ small' = (small \/ size < EVENTS_ARRAY_SIZE)
      /\ \A i \in Slots : events_array'[i] =
             IF i \in Gained(size) \cup Removed(size) THEN NULL ELSE events_array[i]
  BY DEF ResizedTo
<1>2. CallersOK /\ Owners /\ NothingBehind /\ events_array \in [Slots -> Objects \cup {NULL}]
  BY DEF OwnersInv, IInv, IndicesOK
<1>3. /\ MaxSize \in Nat /\ events_array_size \in 1..MaxSize /\ EVENTS_ARRAY_SIZE \in 1..MaxSize
      /\ size \in 1..MaxSize
  BY SizesAssumption DEF OwnersInv, IInv, IndicesOK
<1>4. \A i \in Gained(size) : i \in Slots /\ i >= events_array_size
  BY <1>3 DEF Gained, Slots
<1>5. \A o \in Left : \E i \in Gained(size) : o = events_array[i] /\ o # NULL
  OBVIOUS
<1>6. Left \subseteq Objects
  BY <1>2, <1>4, <1>5
<1> HIDE DEF Left
<1>7. InSlotsOnce'
  BY <1>1, <1>2 DEF Owners, InSlotsOnce
<1>8. InListOnce'
  BY <1>2 DEF Owners, InListOnce
<1>9. SlotsApart'
  <2> SUFFICES ASSUME NEW i \in Slots, events_array'[i] # NULL
               PROVE  events_array'[i] \notin hands /\ events_array'[i] \notin lost'
    BY DEF SlotsApart
  <2>1. i \notin Gained(size) /\ events_array'[i] = events_array[i]
    BY <1>1
  <2>2. events_array[i] \notin Left
    BY <1>2, <1>4, <1>5, <2>1 DEF Owners, InSlotsOnce
  <2> QED BY <1>1, <1>2, <2>1, <2>2 DEF Owners, SlotsApart
<1>10. ListApart'
  <2> SUFFICES ASSUME NEW k \in 1..Len(events_list)
               PROVE  /\ events_list[k] \notin hands /\ events_list[k] \notin lost'
                      /\ \A i \in Slots : events_array'[i] # events_list[k]
    BY DEF ListApart
  <2>1. events_list[k] \notin Left
    BY <1>2, <1>4, <1>5 DEF Owners, ListApart
  <2> QED BY <1>1, <1>2, <2>1, ListNotNull DEF Owners, ListApart
<1>11. HandsApart'
  <2>1. \A o \in hands : o \notin Left
    BY <1>2, <1>4, <1>5 DEF Owners, SlotsApart
  <2> QED BY <1>1, <1>2, <2>1 DEF Owners, HandsApart
<1>12. NothingBehind'
  <2> SUFFICES ASSUME ~small'
               PROVE  /\ lost' = {}
                      /\ size >= EVENTS_ARRAY_SIZE
                      /\ \A i \in Slots : i >= size => events_array'[i] = NULL
    BY <1>1 DEF NothingBehind
  <2>1. ~small /\ size >= EVENTS_ARRAY_SIZE
    <3>1. ~small /\ ~(size < EVENTS_ARRAY_SIZE)
      BY <1>1, Zenon
    <3> QED BY <3>1, <1>3
  <2>2. lost = {} /\ \A i \in Slots : i >= events_array_size => events_array[i] = NULL
    BY <1>2, <2>1 DEF NothingBehind
  <2>3. Left = {}
    BY <1>4, <1>5, <2>2
  <2>4. \A i \in Slots : i >= size /\ i < events_array_size => i \in Removed(size)
    BY <1>3, <2>1 DEF Removed, Slots
  <2>5. \A i \in Slots : i < events_array_size \/ i >= events_array_size
    BY <1>3 DEF Slots
  <2> QED BY <1>1, <2>1, <2>2, <2>3, <2>4, <2>5
<1>13. small' \in BOOLEAN
  BY <1>1
<1> QED BY <1>1, <1>2, <1>6, <1>7, <1>8, <1>9, <1>10, <1>11, <1>12, <1>13 DEF Owners, CallersOK

(* A change of size keeps the owners.                                      *)
LEMMA ChangeOwners ==
    ASSUME OwnersInv, NEW n \in Nat, n + 1 <= MaxSize, ChangeSize(n),
           UNCHANGED <<events_list, hands>>
    PROVE  /\ Owners' /\ NothingBehind'
           /\ lost' \subseteq Objects /\ small' \in BOOLEAN
<1>1. CASE n + 1 = events_array_size
  <2>1. UNCHANGED <<events_array, events_array_size, lost, small>>
    BY <1>1 DEF ChangeSize, array
  <2> QED BY <2>1, FrameOwners DEF OwnersInv, CallersOK
<1>2. CASE n + 1 # events_array_size
  <2>1. n + 1 \in 1..MaxSize /\ ResizedTo(n + 1)
    BY <1>2, SizesAssumption DEF ChangeSize
  <2> QED BY <2>1, ResizedOwners
<1> QED BY <1>1, <1>2

(* What else a step changes.                                               *)
LEMMA StepCallers ==
    ASSUME OwnersInv, [Next]_vars
    PROVE  CallersOK'
<1>1. CallersOK /\ IInv
  BY DEF OwnersInv
<1>2. ASSUME UNCHANGED <<auto_clear_events, running>>, lost' \subseteq Objects,
             events_list' \in Seq(Objects), since' \in Seq(Objects), small' \in BOOLEAN,
             undisturbed' \in {undisturbed, <<>>}
      PROVE  CallersOK'
  BY <1>1, <1>2 DEF CallersOK, ClearedAgain
<1>3. ASSUME NEW o \in Objects, AddEvent(o)
      PROVE  CallersOK'
  <2>1. /\ UNCHANGED <<auto_clear_events, running, undisturbed, lost, small>>
        /\ events_list' = <<>>
    BY <1>3 DEF AddEvent
  <2>2. since' \in Seq(Objects)
    BY <1>1, <1>3 DEF AddEvent, CallersOK
  <2> QED BY <1>1, <1>2, <2>1, <2>2 DEF CallersOK
<1>4. CASE Point \/ Drop \/ Clear \/ UNCHANGED vars
  <2>1. UNCHANGED <<auto_clear_events, running, lost, events_list, since, small, undisturbed>>
    BY <1>4 DEF Point, Drop, Clear, vars, history
  <2> QED BY <1>1, <1>2, <2>1 DEF CallersOK
<1>5. CASE AddPointed
  <2>1. PICK o \in hands : AddEvent(o)
    BY <1>5 DEF AddPointed
  <2> QED BY <1>1, <1>3, <2>1 DEF IInv, IndicesOK
<1>6. CASE AddOther
  BY <1>3, <1>6 DEF AddOther
<1>7. CASE GetEvents
  <2>1. /\ UNCHANGED <<auto_clear_events, running, undisturbed, lost, small>>
        /\ events_list' = Visible /\ since' = <<>>
    BY <1>7 DEF GetEvents
  <2>2. Visible \in Seq(Objects)
    BY <1>1, VisibleEvents DEF OwnersInv, Owners
  <2> QED BY <1>1, <1>2, <2>1, <2>2 DEF CallersOK
<1>8. CASE SetHistorySize
  <2>1. PICK n \in Sizes :
          /\ ChangeSize(n) /\ UNCHANGED <<events_list, auto_clear_events, hands, running>>
          /\ IF n + 1 = events_array_size THEN UNCHANGED <<undisturbed, since>>
             ELSE undisturbed' = <<>> /\ since' = <<>>
    BY <1>8 DEF SetHistorySize
  <2>2. lost' \subseteq Objects /\ small' \in BOOLEAN
    BY <2>1, ChangeOwners, SizesAssumption
  <2>3. undisturbed' \in {undisturbed, <<>>} /\ (since' = since \/ since' = <<>>)
    BY <2>1, Zenon
  <2>4. since' \in Seq(Objects)
    <3>1. since \in Seq(Objects)
      BY <1>1, Zenon DEF CallersOK
    <3>2. <<>> \in Seq(Objects)
      OBVIOUS
    <3> QED BY <2>3, <3>1, <3>2, Zenon
  <2> QED BY <1>1, <1>2, <2>1, <2>2, <2>3, <2>4 DEF CallersOK
<1>9. ASSUME NEW u \in Users, NEW kind \in {"batch", "operation"}, Begins(u, kind)
      PROVE  /\ running' \in [Users -> Seq({"batch", "operation"})]
             /\ auto_clear_events' \in BOOLEAN /\ ClearedAgain'
  <2>1. /\ running' = [running EXCEPT ![u] = Append(@, kind)]
        /\ auto_clear_events' = FALSE
    BY <1>9 DEF Begins
  <2>2. /\ running \in [Users -> Seq({"batch", "operation"})]
        /\ running[u] \in Seq({"batch", "operation"})
    BY <1>1 DEF CallersOK
  <2>3. /\ Append(running[u], kind) \in Seq({"batch", "operation"})
        /\ Append(running[u], kind) # <<>>
    BY <2>2
  <2>4. running'[u] # <<>>
    BY <2>1, <2>2, <2>3
  <2> QED BY <2>1, <2>2, <2>3, <2>4 DEF ClearedAgain
<1>10. ASSUME NEW u \in Users, BatchBegins(u) PROVE CallersOK'
  <2>1. PICK n \in Lengths : /\ ChangeSize(2 * n) /\ Begins(u, "batch")
                             /\ undisturbed' = <<n>> /\ since' = <<>>
    BY <1>10 DEF BatchBegins
  <2>2. UNCHANGED <<events_list, hands>>
    BY <2>1 DEF Begins
  <2>3. lost' \subseteq Objects /\ small' \in BOOLEAN
    <3>1. 2 * n \in Nat /\ 2 * n + 1 <= MaxSize
      BY SizesAssumption
    <3> QED BY <2>1, <2>2, <3>1, ChangeOwners
  <2>4. since' \in Seq(Objects) /\ events_list' \in Seq(Objects)
    BY <1>1, <2>1, <2>2 DEF CallersOK
  <2> QED BY <1>9, <2>1, <2>3, <2>4 DEF CallersOK
<1>11. ASSUME NEW u \in Users, OperationBegins(u) PROVE CallersOK'
  <2>1. /\ Begins(u, "operation")
        /\ UNCHANGED <<events_list, undisturbed, since, lost, small>>
    BY <1>11 DEF OperationBegins, Begins, history
  <2> QED BY <1>1, <1>9, <2>1 DEF CallersOK
<1>12. ASSUME NEW u \in Users, Ends(u) PROVE CallersOK'
  <2>1. /\ running[u] # <<>> /\ running' = [running EXCEPT ![u] = Front(@)]
        /\ auto_clear_events' = TRUE /\ undisturbed' = <<>> /\ since' = <<>>
        /\ UNCHANGED <<events_list, lost, small>>
    BY <1>12 DEF Ends
  <2>2. /\ running \in [Users -> Seq({"batch", "operation"})]
        /\ running[u] \in Seq({"batch", "operation"})
    BY <1>1 DEF CallersOK
  <2>3. Front(running[u]) \in Seq({"batch", "operation"})
    BY <2>1, <2>2 DEF Front
  <2>4. running' \in [Users -> Seq({"batch", "operation"})]
    BY <2>1, <2>2, <2>3
  <2>5. since' \in Seq(Objects) /\ ClearedAgain'
    BY <2>1 DEF ClearedAgain
  <2> QED BY <1>1, <2>1, <2>4, <2>5 DEF CallersOK
<1> QED BY <1>4, <1>5, <1>6, <1>7, <1>8, <1>10, <1>11, <1>12 DEF Next

(* Every step leaves each event with one owner.                            *)
LEMMA StepOwners ==
    ASSUME OwnersInv, [Next]_vars
    PROVE  OwnersInv'
<1>1. IInv' /\ CallersOK'
  BY StepIsStep, StepCallers DEF OwnersInv
<1> SUFFICES Owners' /\ NothingBehind'
  BY <1>1 DEF OwnersInv
<1>2. CallersOK /\ Owners /\ NothingBehind /\ IInv
  BY DEF OwnersInv
<1>3. ASSUME UNCHANGED <<events_array, events_array_size, events_list, hands, lost, small>>
      PROVE  Owners' /\ NothingBehind'
  BY <1>2, <1>3, FrameOwners
<1>4. CASE Point
  BY <1>4, PointOwners
<1>5. CASE AddPointed
  <2>1. PICK o \in hands : AddEvent(o) /\ hands' = hands \ {o}
    BY <1>5 DEF AddPointed
  <2>2. o \in Objects /\ o # NULL
    BY <1>2, NullAssumption DEF IInv, IndicesOK
  <2>3. (\A i \in Slots : events_array[i] # o) /\ o \notin lost
    BY <1>2, <2>2 DEF Owners, SlotsApart, HandsApart
  <2> QED BY <2>1, <2>2, <2>3, AddOwners
<1>6. CASE AddOther
  <2>1. PICK o \in Objects : New(o) /\ AddEvent(o) /\ UNCHANGED hands
    BY <1>6 DEF AddOther
  <2>2. (\A i \in Slots : events_array[i] # o) /\ o \notin hands /\ o \notin lost
    BY <1>2, <2>1, NewIsNobodys, NullAssumption
  <2> QED BY <2>1, <2>2, AddOwners
<1>7. CASE Drop
  <2>1. /\ UNCHANGED <<events_array, events_array_size, events_list, lost, small>>
        /\ hands' \subseteq hands
    BY <1>7 DEF Drop, array, history
  <2>2. Owners'
    BY <1>2, <2>1, OwnersLess, ListNotNull
  <2> QED BY <1>2, <2>1, <2>2 DEF NothingBehind
<1>8. CASE Clear
  BY <1>3, <1>8 DEF Clear, history
<1>9. CASE GetEvents
  BY <1>9, GetOwners
<1>10. CASE SetHistorySize
  <2>1. PICK n \in Sizes : ChangeSize(n) /\ UNCHANGED <<events_list, hands>>
    BY <1>10 DEF SetHistorySize
  <2> QED BY <2>1, ChangeOwners, SizesAssumption
<1>11. ASSUME NEW u \in Users, BatchBegins(u) PROVE Owners' /\ NothingBehind'
  <2>1. PICK n \in Lengths : ChangeSize(2 * n) /\ UNCHANGED <<events_list, hands>>
    BY <1>11 DEF BatchBegins, Begins
  <2>2. 2 * n \in Nat /\ 2 * n + 1 <= MaxSize
    BY SizesAssumption
  <2> QED BY <2>1, <2>2, ChangeOwners
<1>12. ASSUME NEW u \in Users, OperationBegins(u) \/ Ends(u)
       PROVE  Owners' /\ NothingBehind'
  BY <1>3, <1>12 DEF OperationBegins, Begins, Ends, array, history
<1>13. CASE UNCHANGED vars
  BY <1>3, <1>13 DEF vars, array, history
<1> QED BY <1>4, <1>5, <1>6, <1>7, <1>8, <1>9, <1>10, <1>11, <1>12, <1>13 DEF Next

(* Every event of the ring has one owner: OwnersInv always holds.          *)
THEOREM OwnersInvariance == Spec => []OwnersInv
<1>1. Init => OwnersInv
  BY InitOwners
<1>2. OwnersInv /\ [Next]_vars => OwnersInv'
  BY StepOwners
<1> QED BY <1>1, <1>2, PTL DEF Spec

(* Whatever is prepared, added, taken and resized, in whatever order, an   *)
(* event is in one place at a time, so that it is neither reused while a   *)
(* list of get_events() holds it nor released twice; and none is leaked    *)
(* by an array that never was made smaller than at first.  Whichever batch *)
(* or operation is over last, statements clear the events again.           *)
THEOREM EventsAreSound == Spec => []EventsSound
<1>1. OwnersInv => TypeOK
  BY Zenon DEF OwnersInv, IInv, IndicesOK, CallersOK, TypeOK
<1>2. OwnersInv => OneOwner
  BY OwnersGiveOneOwner DEF OwnersInv
<1>3. OwnersInv => LeaksWhenSmall
  BY DEF OwnersInv, NothingBehind, LeaksWhenSmall
<1>4. OwnersInv => ClearedAgain
  BY DEF OwnersInv, CallersOK
<1> QED BY <1>1, <1>2, <1>3, <1>4, OwnersInvariance, PTL DEF EventsSound
-----------------------------------------------------------------------------
(* A batch loses nothing.                                                  *)

(* A suffix, element by element from the end.                              *)
LEMMA SuffixIs ==
    ASSUME NEW S, NEW s \in Seq(S), NEW t \in Seq(S)
    PROVE  IsSuffix(s, t) <=>
               /\ Len(s) <= Len(t)
               /\ \A k \in 1..Len(s) : s[k] = t[Len(t) - Len(s) + k]
<1> DEFINE r == Reverse(s)
           u == Reverse(t)
<1>1. /\ r \in Seq(S) /\ Len(r) = Len(s)
      /\ \A k \in 1..Len(s) : r[k] = s[(Len(s) - k) + 1]
  <2>1. r \in [1..Len(s) -> S] /\ Len(s) \in Nat
    BY DEF Reverse
  <2> QED BY <2>1 DEF Reverse
<1>2. /\ u \in Seq(S) /\ Len(u) = Len(t)
      /\ \A k \in 1..Len(t) : u[k] = t[(Len(t) - k) + 1]
  <2>1. u \in [1..Len(t) -> S] /\ Len(t) \in Nat
    BY DEF Reverse
  <2> QED BY <2>1 DEF Reverse
<1>3. Len(s) \in Nat /\ Len(t) \in Nat
  OBVIOUS
<1> HIDE DEF r, u
<1>4. IsPrefix(r, u) <=>
          Len(s) <= Len(t) /\ \A k \in 1..Len(s) : r[k] = u[k]
  <2>1. CASE Len(s) <= Len(t)
    <3>1. /\ SubSeq(r, 1, Len(r)) \in Seq(S) /\ Len(SubSeq(r, 1, Len(r))) = Len(s)
          /\ \A k \in 1..Len(s) : SubSeq(r, 1, Len(r))[k] = r[k]
      BY <1>1, <1>3
    <3>2. /\ SubSeq(u, 1, Len(r)) \in Seq(S) /\ Len(SubSeq(u, 1, Len(r))) = Len(s)
          /\ \A k \in 1..Len(s) : SubSeq(u, 1, Len(r))[k] = u[k]
      BY <1>1, <1>2, <1>3, <2>1
    <3>3. SubSeq(r, 1, Len(r)) = SubSeq(u, 1, Len(r)) <=>
              \A k \in 1..Len(s) : r[k] = u[k]
      BY <3>1, <3>2
    <3> QED BY <1>1, <1>2, <2>1, <3>3 DEF IsPrefix
  <2>2. CASE ~(Len(s) <= Len(t))
    BY <1>1, <1>2, <2>2 DEF IsPrefix
  <2> QED BY <2>1, <2>2
<1>5. ASSUME Len(s) <= Len(t)
      PROVE  (\A k \in 1..Len(s) : r[k] = u[k])
             <=> \A k \in 1..Len(s) : s[k] = t[Len(t) - Len(s) + k]
  <2>1. \A k \in 1..Len(s) :
           /\ (Len(s) - k) + 1 \in 1..Len(s)
           /\ (Len(s) - ((Len(s) - k) + 1)) + 1 = k
           /\ (Len(t) - ((Len(s) - k) + 1)) + 1 = Len(t) - Len(s) + k
    BY <1>3
  <2>2. \A k \in 1..Len(s) : k \in 1..Len(t)
    BY <1>3, <1>5
  <2>3. ASSUME \A k \in 1..Len(s) : r[k] = u[k], NEW k \in 1..Len(s)
        PROVE  s[k] = t[Len(t) - Len(s) + k]
    <3> DEFINE j == (Len(s) - k) + 1
    <3>1. j \in 1..Len(s) /\ j \in 1..Len(t)
      BY <2>1, <2>2
    <3>2. r[j] = s[k] /\ u[j] = t[Len(t) - Len(s) + k]
      <4>1. r[j] = s[(Len(s) - j) + 1] /\ u[j] = t[(Len(t) - j) + 1]
        BY <1>1, <1>2, <3>1
      <4> QED BY <2>1, <4>1
    <3> QED BY <2>3, <3>1, <3>2
  <2>4. ASSUME \A k \in 1..Len(s) : s[k] = t[Len(t) - Len(s) + k], NEW k \in 1..Len(s)
        PROVE  r[k] = u[k]
    <3> DEFINE j == (Len(s) - k) + 1
    <3>1. j \in 1..Len(s) /\ Len(t) - Len(s) + j = (Len(t) - k) + 1
      BY <1>3, <2>1
    <3> QED BY <1>1, <1>2, <2>2, <2>4, <3>1
  <2> QED BY <2>3, <2>4
<1> QED BY <1>4, <1>5 DEF IsSuffix, r, u

(* What is added both to a suffix and to the whole of what is kept of it,  *)
(* with room for the suffix.                                               *)
LEMMA SuffixGrows ==
    ASSUME NEW S, NEW s \in Seq(S), NEW t \in Seq(S), NEW o \in S, NEW n \in Nat,
           IsSuffix(s, t), Len(s) < n, Len(t) <= n
    PROVE  IsSuffix(Append(s, o), Log!Newest(Append(t, o), n))
<1> DEFINE a == Append(s, o)
           b == Append(t, o)
           w == Log!Newest(b, n)
<1>1. /\ Len(s) <= Len(t) /\ Len(s) \in Nat /\ Len(t) \in Nat
      /\ \A k \in 1..Len(s) : s[k] = t[Len(t) - Len(s) + k]
  BY SuffixIs
<1>2. /\ a \in Seq(S) /\ Len(a) = Len(s) + 1
      /\ \A k \in 1..Len(s) : a[k] = s[k]
      /\ a[Len(s) + 1] = o
  OBVIOUS
<1>3. /\ b \in Seq(S) /\ Len(b) = Len(t) + 1
      /\ \A k \in 1..Len(t) : b[k] = t[k]
      /\ b[Len(t) + 1] = o
  OBVIOUS
<1> HIDE DEF a, b
<1>4. \A k \in 1..Len(a) : a[k] = b[Len(b) - Len(a) + k]
  <2> SUFFICES ASSUME NEW k \in 1..Len(a) PROVE a[k] = b[Len(b) - Len(a) + k]
    OBVIOUS
  <2>1. CASE k \in 1..Len(s)
    <3>1. /\ Len(t) - Len(s) + k \in 1..Len(t)
          /\ Len(b) - Len(a) + k = Len(t) - Len(s) + k
      BY <1>1, <1>2, <1>3, <2>1
    <3> QED BY <1>1, <1>2, <1>3, <2>1, <3>1
  <2>2. CASE k = Len(s) + 1
    <3>1. Len(b) - Len(a) + k = Len(t) + 1
      BY <1>1, <1>2, <1>3, <2>2
    <3> QED BY <1>2, <1>3, <2>2, <3>1
  <2> QED BY <1>1, <1>2, <2>1, <2>2
<1>5. CASE Len(t) < n
  <2>1. w = b
    BY <1>1, <1>3, <1>5 DEF Log!Newest
  <2>2. Len(a) <= Len(b)
    BY <1>1, <1>2, <1>3
  <2>3. IsSuffix(a, b)
    BY <1>2, <1>3, <1>4, <2>2, SuffixIs
  <2> QED BY <2>1, <2>3 DEF a, b
<1>6. CASE Len(t) = n
  <2>1. w = SubSeq(b, 2, n + 1)
    BY <1>3, <1>6 DEF Log!Newest
  <2>2. /\ w \in Seq(S) /\ Len(w) = n
        /\ \A k \in 1..n : w[k] = b[k + 1]
    BY <1>3, <1>6, <2>1
  <2> HIDE DEF w
  <2>3. \A k \in 1..Len(a) : a[k] = w[Len(w) - Len(a) + k]
    <3> SUFFICES ASSUME NEW k \in 1..Len(a) PROVE a[k] = w[Len(w) - Len(a) + k]
      OBVIOUS
    <3> DEFINE j == Len(w) - Len(a) + k
    <3>1. j \in 1..n /\ j + 1 = Len(b) - Len(a) + k
      BY <1>1, <1>2, <1>3, <1>6, <2>2
    <3> QED BY <1>4, <2>2, <3>1
  <2>4. Len(a) <= Len(w)
    BY <1>1, <1>2, <2>2
  <2>5. IsSuffix(a, w)
    BY <1>2, <2>2, <2>3, <2>4, SuffixIs
  <2> QED BY <2>5 DEF a, b, w
<1> QED BY <1>1, <1>5, <1>6

(* While nothing disturbs a batch, its statements do not clear the events, *)
(* and there is room for two of each.                                      *)
BatchInv ==
    undisturbed # <<>> =>
        /\ undisturbed[1] \in Nat
        /\ ~auto_clear_events
        /\ events_array_size = 2 * undisturbed[1] + 1
        /\ Len(since) <= 2 * undisturbed[1] => IsSuffix(since, Visible)

(* Nothing is a suffix of anything.                                        *)
LEMMA EmptyIsSuffix ==
    ASSUME NEW S, NEW s \in Seq(S), NEW t \in Seq(S), Len(s) = 0
    PROVE  IsSuffix(s, t)
<1>1. Len(t) \in Nat
  OBVIOUS
<1>2. IsSuffix(s, t) <=> /\ Len(s) <= Len(t)
                         /\ \A k \in 1..Len(s) : s[k] = t[Len(t) - Len(s) + k]
  BY SuffixIs
<1> QED BY <1>1, <1>2

VisibleIsSeq == Visible \in Seq(Objects)

(* What is shown is a sequence of events.                                  *)
LEMMA VisibleSeq == OwnersInv => VisibleIsSeq
  BY VisibleEvents DEF OwnersInv, Owners, VisibleIsSeq

(* The events of the batch stay the newest ones when one is added.         *)
LEMMA AddKeepsBatch ==
    ASSUME OwnersInv, BatchInv, NEW o \in Objects, AddEvent(o), hands' \subseteq Objects
    PROVE  BatchInv'
<1>1. UNCHANGED <<undisturbed, auto_clear_events, events_array_size>>
  BY DEF AddEvent
<1> SUFFICES ASSUME undisturbed # <<>>, Len(since') <= 2 * undisturbed[1]
             PROVE  IsSuffix(since', Visible')
  BY <1>1 DEF BatchInv
<1> DEFINE n == 2 * undisturbed[1]
<1>2. /\ n \in Nat /\ events_array_size - 1 = n
      /\ since \in Seq(Objects) /\ Visible \in Seq(Objects) /\ Len(since) \in Nat
  <2>1. undisturbed[1] \in Nat /\ events_array_size = 2 * undisturbed[1] + 1
    BY DEF BatchInv
  <2>2. since \in Seq(Objects) /\ Visible \in Seq(Objects)
    BY VisibleSeq DEF OwnersInv, CallersOK, VisibleIsSeq
  <2> QED BY <2>1, <2>2
<1>3. since' = IF Len(since) <= n THEN Append(since, o) ELSE since
  BY DEF AddEvent
<1>4. since' = Append(since, o) /\ Len(since) < n
  BY <1>2, <1>3
<1>5. IsSuffix(since, Visible)
  BY <1>2, <1>4 DEF BatchInv
<1>6. Len(Visible) <= n
  <2>1. VisibleOK
    BY VisibleType DEF OwnersInv, IInv
  <2>2. events_array_full \in BOOLEAN /\ events_array_next \in 0..(events_array_size - 1)
    BY DEF OwnersInv, IInv, IndicesOK
  <2> QED BY <1>2, <2>1, <2>2 DEF VisibleOK
<1>7. Visible' = Log!Newest(Append(Visible, o), n)
  BY <1>2, AddIsAdd DEF Log!Add, OwnersInv
<1> HIDE DEF n
<1> QED BY <1>2, <1>4, <1>5, <1>6, <1>7, SuffixGrows

(* No step breaks BatchInv.                                                *)
LEMMA StepKeepsBatch ==
    ASSUME OwnersInv, BatchInv, [Next]_vars
    PROVE  BatchInv'
<1>1. CallersOK /\ IInv
  BY DEF OwnersInv
<1>2. OwnersInv'
  BY StepOwners
<1>3. Visible' \in Seq(Objects)
  <2>1. VisibleIsSeq'
    BY <1>2, VisibleSeq, PTL
  <2> QED BY <2>1 DEF VisibleIsSeq
<1>4. CASE Point
  BY <1>1, <1>4, PointHidden DEF Point, history, BatchInv
<1>5. CASE AddPointed
  <2>1. PICK o \in hands : AddEvent(o) /\ hands' = hands \ {o}
    BY <1>5 DEF AddPointed
  <2> QED BY <1>1, <2>1, AddKeepsBatch DEF IInv, IndicesOK
<1>6. CASE AddOther
  <2>1. PICK o \in Objects : AddEvent(o) /\ UNCHANGED hands
    BY <1>6 DEF AddOther
  <2> QED BY <1>1, <2>1, AddKeepsBatch DEF IInv, IndicesOK
<1>7. ASSUME UNCHANGED <<array, undisturbed, since>>,
             undisturbed # <<>> => auto_clear_events' \in {auto_clear_events, FALSE}
      PROVE  BatchInv'
  <2>1. UNCHANGED <<events_array, events_array_size, events_array_full, events_array_next>>
    BY <1>7 DEF array
  <2>2. Visible' = Visible
    BY <2>1 DEF Visible, Wrap
  <2> QED BY <1>7, <2>1, <2>2 DEF BatchInv
<1>8. CASE Drop \/ UNCHANGED vars
  BY <1>7, <1>8 DEF Drop, vars, history
<1>9. ASSUME undisturbed' = <<>> PROVE BatchInv'
  BY <1>9 DEF BatchInv
<1>10. CASE Clear
  <2>1. undisturbed' = <<>>
    BY <1>10 DEF Clear, BatchInv, history
  <2> QED BY <1>9, <2>1
<1>11. CASE GetEvents
  <2>1. UNCHANGED <<undisturbed, auto_clear_events, events_array_size>> /\ since' = <<>>
    BY <1>11 DEF GetEvents
  <2>2. IsSuffix(since', Visible')
    <3>1. since' \in Seq(Objects) /\ Len(since') = 0
      BY <2>1
    <3> QED BY <1>3, <3>1, EmptyIsSuffix
  <2> QED BY <2>1, <2>2 DEF BatchInv
<1>12. CASE SetHistorySize
  <2>1. PICK n \in Sizes :
          /\ ChangeSize(n) /\ UNCHANGED auto_clear_events
          /\ IF n + 1 = events_array_size THEN UNCHANGED <<undisturbed, since>>
             ELSE undisturbed' = <<>> /\ since' = <<>>
    BY <1>12 DEF SetHistorySize
  <2>2. CASE n + 1 = events_array_size
    <3>1. UNCHANGED <<array, undisturbed, since>>
      BY <2>1, <2>2 DEF ChangeSize
    <3> QED BY <1>7, <2>1, <3>1
  <2>3. CASE n + 1 # events_array_size
    BY <1>9, <2>1, <2>3
  <2> QED BY <2>2, <2>3
<1>13. ASSUME NEW u \in Users, BatchBegins(u) PROVE BatchInv'
  <2>1. PICK n \in Lengths : /\ undisturbed' = <<n>> /\ since' = <<>>
                             /\ ChangeSize(2 * n) /\ Begins(u, "batch")
    BY <1>13 DEF BatchBegins
  <2>2. n \in Nat /\ undisturbed'[1] = n /\ ~auto_clear_events'
    BY <2>1, SizesAssumption DEF Begins
  <2>3. events_array_size' = 2 * n + 1
    BY <2>1 DEF ChangeSize, ResizedTo, array
  <2>4. IsSuffix(since', Visible')
    <3>1. since' \in Seq(Objects) /\ Len(since') = 0
      BY <2>1
    <3> QED BY <1>3, <3>1, EmptyIsSuffix
  <2> QED BY <2>2, <2>3, <2>4 DEF BatchInv
<1>14. ASSUME NEW u \in Users, OperationBegins(u) PROVE BatchInv'
  BY <1>7, <1>14 DEF OperationBegins, Begins, history
<1>15. ASSUME NEW u \in Users, Ends(u) PROVE BatchInv'
  <2>1. undisturbed' = <<>>
    BY <1>15 DEF Ends
  <2> QED BY <1>9, <2>1
<1> QED BY <1>4, <1>5, <1>6, <1>8, <1>10, <1>11, <1>12, <1>13, <1>14, <1>15 DEF Next

(* As the comment at gda-connection-vs10.c:2926 intends: of a batch that   *)
(* reports no more than two events for each of its statements, however     *)
(* many it has and whatever size the array had, all of them are there to   *)
(* be asked for, for as long as no other batch or operation ends and the   *)
(* size is not changed: operations of any threads, which take no lock, may *)
(* begin meanwhile, and events of any origin be added.                     *)
THEOREM BatchesKeepEvents == Spec => []BatchKeepsEvents
<1>1. Init => BatchInv
  BY DEF Init, BatchInv
<1>2. OwnersInv /\ BatchInv /\ [Next]_vars => BatchInv'
  BY StepKeepsBatch
<1>3. BatchInv => BatchKeepsEvents
  BY DEF BatchInv, BatchKeepsEvents
<1> QED BY <1>1, <1>2, <1>3, OwnersInvariance, PTL DEF Spec

-----------------------------------------------------------------------------
(* The asynchronous statements.                                            *)

Increasing(q) == \A i, k \in 1..Len(q) : i < k => q[i] < q[k]
NoRepeats(q) == \A i, k \in 1..Len(q) : q[i] = q[k] => i = k

(* Each task requested is in one place, and those that wait are in order.  *)
ArraysInv ==
    /\ Increasing(waiting_tasks) /\ NoRepeats(completed_tasks)
    /\ ToSet(waiting_tasks) \cap ToSet(completed_tasks) = {}
    /\ (ToSet(waiting_tasks) \cup ToSet(completed_tasks)) \cap (fetched \cup cancelled) = {}
    /\ fetched \cap cancelled = {}
    /\ ToSet(waiting_tasks) \cup ToSet(completed_tasks) \cup fetched \cup cancelled
         = {j \in Tasks : j < next_task_id}

(* The provider calls back about a job it waited for.                      *)
Calling == call # NOTHING /\ call.at = "callback"
CallInv == Calling => async_tasks # <<>>

(* Only what was submitted is queued, and only what was requested.         *)
JobsInv ==
    /\ \A i \in 1..Len(queue) : status[queue[i]] # "new"
    /\ \A j \in Tasks : j >= next_task_id => status[j] = "new"

(* The first task is the one job of the provider.                          *)
FirstAtWork ==
    /\ being_processed = {Head(waiting_tasks)}
    /\ async_tasks = <<Head(waiting_tasks)>>
    /\ \/ status[Head(waiting_tasks)] \in {"queued", "running", "done"}
       \/ Calling /\ status[Head(waiting_tasks)] = "collected"

(* The cancel of a running task and a modified statement end this.         *)
Progress ==
    /\ waiting_tasks = <<>> => being_processed = {} /\ async_tasks = <<>>
    /\ waiting_tasks # <<>> => FirstAtWork
    /\ \A i \in 2..Len(waiting_tasks) : status[waiting_tasks[i]] = "new"
    /\ \A i \in 1..Len(waiting_tasks) :
          status[waiting_tasks[i]] = "new" => waiting_tasks[i] \in stmt
ProgressInv == unmarked = {} /\ modified = {} => Progress

TasksInv == AsyncTypeOK /\ ArraysInv /\ CallInv /\ JobsInv /\ ProgressInv

-----------------------------------------------------------------------------
(* What an array holds.                                                    *)
LEMMA Elements ==
    ASSUME NEW S, NEW q \in Seq(S)
    PROVE  /\ \A i \in 1..Len(q) : q[i] \in ToSet(q)
           /\ \A e \in ToSet(q) : \E i \in 1..Len(q) : q[i] = e
           /\ ToSet(q) \subseteq S
           /\ \A e : Contains(q, e) <=> e \in ToSet(q)
<1>1. DOMAIN q = 1..Len(q) /\ \A i \in 1..Len(q) : q[i] \in S
  OBVIOUS
<1> QED
  BY <1>1 DEF ToSet, Contains

(* An increasing queue has nothing twice.                                  *)
LEMMA IncreasingNeverRepeats ==
    ASSUME NEW S \in SUBSET Int, NEW q \in Seq(S), Increasing(q)
    PROVE  NoRepeats(q)
<1> SUFFICES ASSUME NEW i \in 1..Len(q), NEW k \in 1..Len(q), q[i] = q[k], i # k
             PROVE  FALSE
  BY DEF NoRepeats
<1>1. q[i] \in S /\ q[k] \in S
  OBVIOUS
<1>2. q[i] \in Int /\ q[k] \in Int
  BY <1>1
<1>3. q[i] < q[k] \/ q[k] < q[i]
  BY DEF Increasing
<1> QED
  BY <1>2, <1>3

(* An empty queue has no elements.                                         *)
LEMMA NothingInIt == ASSUME NEW q, q = <<>> PROVE ToSet(q) = {}
<1>1. DOMAIN q = {}
  OBVIOUS
<1> QED
  BY <1>1 DEF ToSet

(* A task is put at the end of an array.                                   *)
LEMMA AppendFacts ==
    ASSUME NEW S, NEW q \in Seq(S), NEW e \in S
    PROVE  /\ Append(q, e) \in Seq(S)
           /\ Len(Append(q, e)) = Len(q) + 1
           /\ \A i \in 1..Len(q) : Append(q, e)[i] = q[i]
           /\ Append(q, e)[Len(q) + 1] = e
           /\ ToSet(Append(q, e)) = ToSet(q) \cup {e}
           /\ NoRepeats(q) /\ e \notin ToSet(q) => NoRepeats(Append(q, e))
<1> DEFINE p == Append(q, e)
<1>1. /\ p \in Seq(S) /\ Len(p) = Len(q) + 1 /\ Len(q) \in Nat
      /\ \A i \in 1..Len(q) : p[i] = q[i] /\ i \in 1..Len(p)
      /\ p[Len(q) + 1] = e /\ Len(q) + 1 \in 1..Len(p)
      /\ \A i \in 1..Len(p) : i \in 1..Len(q) \/ i = Len(q) + 1
  OBVIOUS
<1> HIDE DEF p
<1>2. /\ \A i \in 1..Len(q) : q[i] \in ToSet(q)
      /\ \A x \in ToSet(q) : \E i \in 1..Len(q) : q[i] = x
      /\ \A i \in 1..Len(p) : p[i] \in ToSet(p)
      /\ \A x \in ToSet(p) : \E i \in 1..Len(p) : p[i] = x
  BY <1>1, Elements
<1>3. ToSet(p) = ToSet(q) \cup {e}
  <2>1. ASSUME NEW x \in ToSet(p) PROVE x \in ToSet(q) \cup {e}
    BY <1>1, <1>2
  <2>2. ASSUME NEW x \in ToSet(q) PROVE x \in ToSet(p)
    BY <1>1, <1>2
  <2>3. e \in ToSet(p)
    BY <1>1, <1>2
  <2> QED
    BY <2>1, <2>2, <2>3
<1>4. NoRepeats(q) /\ e \notin ToSet(q) => NoRepeats(p)
  <2> SUFFICES ASSUME NoRepeats(q), e \notin ToSet(q),
                      NEW i \in 1..Len(p), NEW k \in 1..Len(p), p[i] = p[k]
               PROVE  i = k
    BY DEF NoRepeats
  <2> QED
    BY <1>1, <1>2 DEF NoRepeats
<1> QED
  BY <1>1, <1>3, <1>4 DEF p

(* g_array_remove_index() of the task with an id, if there is one.         *)
LEMMA RemovedFacts ==
    ASSUME NEW S, NEW q \in Seq(S), NEW e, NoRepeats(q)
    PROVE  /\ TaskRemoved(q, e) \in Seq(S)
           /\ ToSet(TaskRemoved(q, e)) = ToSet(q) \ {e}
           /\ NoRepeats(TaskRemoved(q, e))
           /\ Increasing(q) => Increasing(TaskRemoved(q, e))
           /\ q # <<>> /\ e = Head(q) =>
                 /\ Len(TaskRemoved(q, e)) = Len(q) - 1
                 /\ \A i \in 1..(Len(q) - 1) : TaskRemoved(q, e)[i] = q[i + 1]
           /\ q # <<>> /\ e # Head(q) =>
                 /\ TaskRemoved(q, e) # <<>> /\ Head(TaskRemoved(q, e)) = Head(q)
                 /\ \A i \in 2..Len(TaskRemoved(q, e)) : \E k \in 2..Len(q) :
                       TaskRemoved(q, e)[i] = q[k]
<1> DEFINE r == TaskRemoved(q, e)
<1>1. /\ \A i \in 1..Len(q) : q[i] \in ToSet(q)
      /\ \A d \in ToSet(q) : \E i \in 1..Len(q) : q[i] = d
      /\ Contains(q, e) <=> e \in ToSet(q)
      /\ Len(q) \in Nat /\ DOMAIN q = 1..Len(q)
  BY Elements
<1>2. q # <<>> => 1 \in 1..Len(q) /\ Head(q) = q[1]
  OBVIOUS
<1>3. CASE e \notin ToSet(q)
  <2>1. r = q
    BY <1>1, <1>3 DEF TaskRemoved
  <2>2. \A i \in 2..Len(q) : \E k \in 2..Len(q) : q[i] = q[k]
    OBVIOUS
  <2>3. ToSet(q) = ToSet(q) \ {e}
    BY <1>3
  <2> HIDE DEF r
  <2>4. q # <<>> => e # Head(q)
    BY <1>1, <1>2, <1>3
  <2> QED
    BY <2>1, <2>2, <2>3, <2>4 DEF r
<1>4. CASE e \in ToSet(q)
  <2>1. PICK x \in 1..Len(q) : q[x] = e
    BY <1>1, <1>4
  <2>2. get_task_index(q, e) = x
    BY <1>1, <2>1 DEF get_task_index, NoRepeats
  <2> DEFINE s == SubSeq(q, 1, x - 1)
             t == SubSeq(q, x + 1, Len(q))
  <2>3. r = s \o t
    BY <1>1, <1>4, <2>2 DEF TaskRemoved, RemoveAt
  <2>4. /\ s \in Seq(S) /\ Len(s) = x - 1 /\ \A i \in 1..(x - 1) : s[i] = q[i]
    <3>1. /\ 1 \in Int /\ x - 1 \in Int /\ \A i \in 1..(x - 1) : q[i] \in S
          /\ (IF 1 <= x - 1 THEN (x - 1) - 1 + 1 ELSE 0) = x - 1
          /\ \A i \in 1..(x - 1) : i \in 1..((x - 1) - 1 + 1) /\ 1 + i - 1 = i
      BY <1>1, <2>1
    <3>2. /\ s \in Seq(S) /\ Len(s) = IF 1 <= x - 1 THEN (x - 1) - 1 + 1 ELSE 0
          /\ \A i \in 1..((x - 1) - 1 + 1) : s[i] = q[1 + i - 1]
      BY <3>1, SubSeqProperties
    <3> HIDE DEF s
    <3> QED
      BY <3>1, <3>2
  <2>5. /\ t \in Seq(S) /\ Len(t) = Len(q) - x
        /\ \A i \in 1..(Len(q) - x) : t[i] = q[x + i]
    <3> DEFINE n == Len(q)
    <3>0. x \in 1..n /\ n \in Nat /\ \A i \in 1..n : q[i] \in S
      BY <1>1, <2>1
    <3> HIDE DEF n
    <3>3. x + 1 \in Int /\ n \in Int /\ \A i \in (x + 1)..n : q[i] \in S
      BY <3>0
    <3>4. (IF x + 1 <= n THEN n - (x + 1) + 1 ELSE 0) = n - x
      BY <3>0
    <3>1. \A i \in 1..(n - x) : i \in 1..(n - (x + 1) + 1) /\ (x + 1) + i - 1 = x + i
      BY <3>0
    <3>5. t = SubSeq(q, x + 1, n)
      BY DEF n
    <3> HIDE DEF t
    <3>2. /\ t \in Seq(S)
          /\ Len(t) = IF x + 1 <= n THEN n - (x + 1) + 1 ELSE 0
          /\ \A i \in 1..(n - (x + 1) + 1) : t[i] = q[(x + 1) + i - 1]
      BY <3>3, <3>5, SubSeqProperties
    <3>6. t \in Seq(S) /\ Len(t) = n - x /\ \A i \in 1..(n - x) : t[i] = q[x + i]
      BY <3>1, <3>2, <3>4
    <3> QED
      BY <3>6 DEF n
  <2> HIDE DEF r, s, t
  <2>6. /\ r \in Seq(S) /\ Len(r) = Len(q) - 1
        /\ \A i \in 1..(Len(q) - 1) : r[i] = IF i < x THEN q[i] ELSE q[i + 1]
    <3>1. /\ r \in Seq(S) /\ Len(r) = Len(s) + Len(t)
          /\ \A i \in 1..(Len(s) + Len(t)) :
                r[i] = IF i <= Len(s) THEN s[i] ELSE t[i - Len(s)]
      BY <2>3, <2>4, <2>5, ConcatProperties
    <3>2. Len(s) + Len(t) = Len(q) - 1
      BY <1>1, <2>1, <2>4, <2>5
    <3>3. ASSUME NEW i \in 1..(Len(q) - 1)
          PROVE  r[i] = IF i < x THEN q[i] ELSE q[i + 1]
      <4>1. r[i] = IF i <= x - 1 THEN s[i] ELSE t[i - (x - 1)]
        BY <2>4, <3>1, <3>2
      <4>2. CASE i < x
        BY <1>1, <2>1, <2>4, <4>1, <4>2
      <4>3. CASE ~(i < x)
        <5>1. i - (x - 1) \in 1..(Len(q) - x) /\ x + (i - (x - 1)) = i + 1
          BY <1>1, <2>1, <4>3
        <5>2. t[i - (x - 1)] = q[i + 1]
          BY <2>5, <5>1
        <5> QED
          BY <2>1, <4>1, <4>3, <5>2
      <4> QED
        BY <4>2, <4>3
    <3> QED
      BY <3>1, <3>2, <3>3
  <2> DEFINE place(i) == IF i < x THEN i ELSE i + 1
  <2>7. \A i \in 1..Len(r) : /\ place(i) \in 1..Len(q) /\ place(i) # x
                             /\ r[i] = q[place(i)]
    BY <1>1, <2>1, <2>6
  <2>8. \A i, k \in 1..Len(r) : /\ i < k => place(i) < place(k)
                                /\ place(i) = place(k) => i = k
    BY <1>1, <2>1, <2>6
  <2>9. \A k \in 1..Len(q) : k # x => \E i \in 1..Len(r) : place(i) = k
    <3> SUFFICES ASSUME NEW k \in 1..Len(q), k # x
                 PROVE  \E i \in 1..Len(r) : place(i) = k
      OBVIOUS
    <3>1. CASE k < x
      BY <1>1, <2>1, <2>6, <3>1
    <3>2. CASE k > x
      <4>1. k - 1 \in 1..Len(r) /\ place(k - 1) = k
        BY <1>1, <2>1, <2>6, <3>2
      <4> QED
        BY <4>1
    <3> QED
      BY <2>1, <3>1, <3>2
  <2>10. place(1) = IF x = 1 THEN 2 ELSE 1
    BY <2>1
  <2> HIDE DEF place
  <2>11. /\ \A i \in 1..Len(r) : r[i] \in ToSet(r)
         /\ \A d \in ToSet(r) : \E i \in 1..Len(r) : r[i] = d
    BY <2>6, Elements
  <2>12. ToSet(r) = ToSet(q) \ {e}
    <3>1. ASSUME NEW d \in ToSet(r) PROVE d \in ToSet(q) \ {e}
      <4>1. PICK i \in 1..Len(r) : r[i] = d
        BY <2>11
      <4> QED
        BY <1>1, <2>1, <2>7, <4>1 DEF NoRepeats
    <3>2. ASSUME NEW d \in ToSet(q) \ {e} PROVE d \in ToSet(r)
      <4>1. PICK k \in 1..Len(q) : q[k] = d /\ k # x
        BY <1>1, <2>1
      <4>2. PICK i \in 1..Len(r) : place(i) = k
        BY <2>9, <4>1
      <4> QED
        BY <2>7, <2>11, <4>1, <4>2
    <3> QED
      BY <3>1, <3>2
  <2>13. NoRepeats(r)
    BY <2>7, <2>8 DEF NoRepeats
  <2>14. Increasing(q) => Increasing(r)
    BY <2>7, <2>8 DEF Increasing
  <2>15. ASSUME e = Head(q)
         PROVE  \A i \in 1..(Len(q) - 1) : r[i] = q[i + 1]
    <3>1. x = 1
      BY <1>1, <1>2, <2>1, <2>15 DEF NoRepeats
    <3> QED
      BY <2>6, <3>1
  <2>16. ASSUME e # Head(q)
         PROVE  /\ r # <<>> /\ Head(r) = Head(q)
                /\ \A i \in 2..Len(r) : \E k \in 2..Len(q) : r[i] = q[k]
    <3>1. 1 < x /\ q # <<>>
      BY <1>1, <1>2, <2>1, <2>16
    <3>2. Len(r) >= 1 /\ 1 \in 1..(Len(q) - 1) /\ r[1] = q[1]
      BY <1>1, <2>1, <2>6, <3>1
    <3>3. r # <<>> /\ Head(r) = r[1]
      BY <2>6, <3>2
    <3>4. ASSUME NEW i \in 2..Len(r) PROVE \E k \in 2..Len(q) : r[i] = q[k]
      <4>1. i \in 1..(Len(q) - 1) /\ i \in 2..Len(q) /\ i + 1 \in 2..Len(q)
        BY <1>1, <2>6
      <4> QED
        BY <2>6, <4>1
    <3> QED
      BY <1>2, <3>1, <3>2, <3>3, <3>4
  <2> QED
    BY <2>6, <2>12, <2>13, <2>14, <2>15, <2>16 DEF r
<1> QED
  BY <1>3, <1>4

(* The first n tasks of an array, and the others.                          *)
LEMMA SplitFacts ==
    ASSUME NEW S, NEW q \in Seq(S), NEW n \in 0..Len(q)
    PROVE  /\ Prefix(q, n) \in Seq(S) /\ Len(Prefix(q, n)) = n
           /\ \A i \in 1..n : Prefix(q, n)[i] = q[i]
           /\ Rest(q, n) \in Seq(S) /\ Len(Rest(q, n)) = Len(q) - n
           /\ \A i \in 1..(Len(q) - n) : Rest(q, n)[i] = q[n + i]
<1> DEFINE l == Len(q)
<1>1. n \in 0..l /\ l \in Nat /\ \A i \in 1..l : q[i] \in S
  OBVIOUS
<1> HIDE DEF l
<1>2. Prefix(q, n) = SubSeq(q, 1, n) /\ Rest(q, n) = SubSeq(q, n + 1, l)
  BY DEF Prefix, Rest, l
<1>3. /\ 1 \in Int /\ n \in Int /\ \A i \in 1..n : q[i] \in S
      /\ n + 1 \in Int /\ l \in Int /\ \A i \in (n + 1)..l : q[i] \in S
  BY <1>1
<1>4. /\ (IF 1 <= n THEN n - 1 + 1 ELSE 0) = n
      /\ (IF n + 1 <= l THEN l - (n + 1) + 1 ELSE 0) = l - n
      /\ \A i \in 1..n : i \in 1..(n - 1 + 1) /\ 1 + i - 1 = i
      /\ \A i \in 1..(l - n) : i \in 1..(l - (n + 1) + 1) /\ (n + 1) + i - 1 = n + i
  BY <1>1
<1>5. /\ Prefix(q, n) \in Seq(S)
      /\ Len(Prefix(q, n)) = IF 1 <= n THEN n - 1 + 1 ELSE 0
      /\ \A i \in 1..(n - 1 + 1) : Prefix(q, n)[i] = q[1 + i - 1]
  BY <1>2, <1>3, SubSeqProperties
<1>6. /\ Rest(q, n) \in Seq(S)
      /\ Len(Rest(q, n)) = IF n + 1 <= l THEN l - (n + 1) + 1 ELSE 0
      /\ \A i \in 1..(l - (n + 1) + 1) : Rest(q, n)[i] = q[(n + 1) + i - 1]
  BY <1>2, <1>3, SubSeqProperties
<1>7. /\ Len(Prefix(q, n)) = n /\ \A i \in 1..n : Prefix(q, n)[i] = q[i]
      /\ Len(Rest(q, n)) = l - n /\ \A i \in 1..(l - n) : Rest(q, n)[i] = q[n + i]
  BY <1>4, <1>5, <1>6
<1> QED
  BY <1>5, <1>6, <1>7 DEF l

(* The first n waiting tasks are completed: no task is lost or doubled.    *)
LEMMA MovedFacts ==
    ASSUME NEW S \in SUBSET Int, NEW q \in Seq(S), NEW c \in Seq(S), NEW n \in 0..Len(q),
           Increasing(q), NoRepeats(c), ToSet(q) \cap ToSet(c) = {}
    PROVE  LET p == c \o Prefix(q, n)
               r == Rest(q, n)
           IN  /\ p \in Seq(S) /\ r \in Seq(S)
               /\ Increasing(r) /\ NoRepeats(p)
               /\ ToSet(r) \cap ToSet(p) = {}
               /\ ToSet(r) \cup ToSet(p) = ToSet(q) \cup ToSet(c)
<1> DEFINE p == c \o Prefix(q, n)
           r == Rest(q, n)
           l == Len(q)
           m == Len(c)
<1>1. n \in 0..l /\ l \in Nat /\ m \in Nat
  OBVIOUS
<1>2. /\ p \in Seq(S) /\ Len(p) = m + n
      /\ \A i \in 1..m : p[i] = c[i]
      /\ \A i \in 1..n : p[m + i] = q[i]
  <2> DEFINE x == Prefix(q, n)
  <2>1. x \in Seq(S) /\ Len(x) = n /\ \A i \in 1..n : x[i] = q[i]
    BY SplitFacts
  <2> HIDE DEF x
  <2>2. /\ c \o x \in Seq(S) /\ Len(c \o x) = Len(c) + Len(x)
        /\ \A i \in 1..(Len(c) + Len(x)) :
              (c \o x)[i] = IF i <= Len(c) THEN c[i] ELSE x[i - Len(c)]
    BY <2>1, ConcatProperties
  <2>3. p = c \o x
    BY DEF x
  <2> HIDE DEF p
  <2>4. \A i \in 1..m : p[i] = c[i]
    BY <1>1, <2>1, <2>2, <2>3
  <2>5. ASSUME NEW i \in 1..n PROVE p[m + i] = q[i]
    <3>1. m + i \in 1..(m + n) /\ ~(m + i <= m) /\ (m + i) - m = i
      BY <1>1
    <3> QED
      BY <2>1, <2>2, <2>3, <3>1
  <2> QED
    BY <2>1, <2>2, <2>3, <2>4, <2>5
<1>3. /\ r \in Seq(S) /\ Len(r) = l - n
      /\ \A i \in 1..(l - n) : r[i] = q[n + i]
  BY SplitFacts
<1>4. NoRepeats(q)
  BY IncreasingNeverRepeats
<1>5. /\ \A i \in 1..l : q[i] \in ToSet(q)
      /\ \A e \in ToSet(q) : \E i \in 1..l : q[i] = e
      /\ \A i \in 1..m : c[i] \in ToSet(c)
      /\ \A e \in ToSet(c) : \E i \in 1..m : c[i] = e
  BY Elements
<1> HIDE DEF p, r, l, m
<1>6. /\ \A i \in 1..(m + n) : p[i] \in ToSet(p)
      /\ \A e \in ToSet(p) : \E i \in 1..(m + n) : p[i] = e
      /\ \A i \in 1..(l - n) : r[i] \in ToSet(r)
      /\ \A e \in ToSet(r) : \E i \in 1..(l - n) : r[i] = e
  BY <1>2, <1>3, Elements
<1>7. \A i \in 1..(m + n) : i \in 1..m \/ (i - m \in 1..n /\ p[i] = q[i - m])
  BY <1>1, <1>2
<1>8. \A i \in 1..(l - n) : n + i \in 1..l
  BY <1>1
<1>9. Increasing(r)
  <2> SUFFICES ASSUME NEW i \in 1..(l - n), NEW k \in 1..(l - n), i < k
               PROVE  r[i] < r[k]
    BY <1>3 DEF Increasing
  <2>1. n + i \in 1..l /\ n + k \in 1..l /\ n + i < n + k
    BY <1>1, <1>8
  <2>2. q[n + i] < q[n + k]
    BY <2>1 DEF Increasing, l
  <2> QED
    BY <1>3, <2>2
<1>10. NoRepeats(p)
  <2> SUFFICES ASSUME NEW i \in 1..(m + n), NEW k \in 1..(m + n), p[i] = p[k]
               PROVE  i = k
    BY <1>2 DEF NoRepeats
  <2>1. \A a \in 1..m, b \in 1..n : c[a] # q[b]
    BY <1>1, <1>5
  <2>2. CASE i \in 1..m /\ k \in 1..m
    BY <1>2, <2>2 DEF NoRepeats, m
  <2>3. CASE i \notin 1..m /\ k \notin 1..m
    <3>1. i - m \in 1..l /\ k - m \in 1..l /\ q[i - m] = q[k - m]
      BY <1>1, <1>7, <2>3
    <3>2. i - m = k - m
      BY <1>4, <3>1 DEF NoRepeats, l
    <3> QED
      BY <1>1, <3>2
  <2>4. CASE i \in 1..m /\ k \notin 1..m
    BY <1>2, <1>7, <2>1, <2>4
  <2>5. CASE i \notin 1..m /\ k \in 1..m
    BY <1>2, <1>7, <2>1, <2>5
  <2> QED
    BY <2>2, <2>3, <2>4, <2>5
<1>11. ToSet(r) \cap ToSet(p) = {}
  <2> SUFFICES ASSUME NEW e \in ToSet(r), e \in ToSet(p) PROVE FALSE
    OBVIOUS
  <2>1. PICK i \in 1..(l - n) : r[i] = e
    BY <1>6
  <2>2. PICK k \in 1..(m + n) : p[k] = e
    BY <1>6
  <2>3. CASE k \in 1..m
    BY <1>2, <1>3, <1>5, <1>8, <2>1, <2>2, <2>3
  <2>4. CASE k \notin 1..m
    <3>1. /\ k - m \in 1..n /\ k - m \in 1..l /\ q[k - m] = e
          /\ n + i \in 1..l /\ q[n + i] = e /\ k - m # n + i
      BY <1>1, <1>3, <1>7, <1>8, <2>1, <2>2, <2>4
    <3> QED
      BY <1>4, <3>1 DEF NoRepeats, l
  <2> QED
    BY <2>3, <2>4
<1>12. ToSet(r) \cup ToSet(p) = ToSet(q) \cup ToSet(c)
  <2>1. ASSUME NEW e \in ToSet(r) PROVE e \in ToSet(q)
    BY <1>3, <1>5, <1>6, <1>8
  <2>2. ASSUME NEW e \in ToSet(p) PROVE e \in ToSet(q) \cup ToSet(c)
    <3>1. PICK k \in 1..(m + n) : p[k] = e
      BY <1>6
    <3> QED
      BY <1>1, <1>2, <1>5, <1>7, <3>1
  <2>3. ASSUME NEW e \in ToSet(c) PROVE e \in ToSet(p)
    <3>1. PICK k \in 1..m : c[k] = e
      BY <1>5
    <3>2. k \in 1..(m + n) /\ p[k] = e
      BY <1>1, <1>2, <3>1
    <3> QED
      BY <1>6, <3>2
  <2>4. ASSUME NEW e \in ToSet(q) PROVE e \in ToSet(r) \cup ToSet(p)
    <3>1. PICK k \in 1..l : q[k] = e
      BY <1>5
    <3>2. CASE k \in 1..n
      <4>1. m + k \in 1..(m + n) /\ p[m + k] = e
        BY <1>1, <1>2, <3>1, <3>2
      <4> QED
        BY <1>6, <4>1
    <3>3. CASE k \notin 1..n
      <4>1. k - n \in 1..(l - n) /\ n + (k - n) = k
        BY <1>1, <3>3
      <4>2. r[k - n] = e
        BY <1>3, <3>1, <4>1
      <4> QED
        BY <1>6, <4>1, <4>2
    <3> QED
      BY <3>2, <3>3
  <2> QED
    BY <2>1, <2>2, <2>3, <2>4
<1> QED
  BY <1>2, <1>3, <1>9, <1>10, <1>11, <1>12 DEF p, r

(* The provider refuses no more tasks than there are.                      *)
LEMMA RefusedFacts ==
    ASSUME NEW S, NEW q \in Seq(S)
    PROVE  /\ Refused(q) \in 0..Len(q)
           /\ open # "open" /\ ToSet(q) \subseteq stmt' => Refused(q) = Len(q)
<1> DEFINE P == {i \in DOMAIN q : ToSet(Prefix(q, i)) \subseteq stmt'}
<1>1. DOMAIN q = 1..Len(q) /\ Len(q) \in Nat
  OBVIOUS
<1>2. IsFiniteSet(1..Len(q)) /\ Cardinality(1..Len(q)) = Len(q)
  <2> DEFINE l == Len(q)
  <2>1. l \in Nat
    BY <1>1
  <2> HIDE DEF l
  <2>2. IsFiniteSet(1..l) /\ Cardinality(1..l) = IF 1 > l THEN 0 ELSE l - 1 + 1
    BY <2>1, FS_Interval
  <2>3. (IF 1 > l THEN 0 ELSE l - 1 + 1) = l
    BY <2>1
  <2> QED
    BY <2>2, <2>3 DEF l
<1>3. P \subseteq 1..Len(q)
  BY <1>1
<1>4. Refused(q) = IF open = "open" THEN 0 ELSE Cardinality(P)
  BY DEF Refused
<1>5. ToSet(q) \subseteq stmt' => P = 1..Len(q)
  <2> SUFFICES ASSUME ToSet(q) \subseteq stmt', NEW i \in 1..Len(q)
               PROVE  ToSet(Prefix(q, i)) \subseteq stmt'
    BY <1>1
  <2>1. /\ Prefix(q, i) \in Seq(S) /\ Len(Prefix(q, i)) = i
        /\ \A k \in 1..i : Prefix(q, i)[k] = q[k]
    <3>1. i \in 0..Len(q)
      BY <1>1
    <3> QED
      BY <3>1, SplitFacts
  <2>2. \A k \in 1..i : q[k] \in ToSet(q)
    BY <1>1, Elements
  <2>3. \A e \in ToSet(Prefix(q, i)) : \E k \in 1..i : Prefix(q, i)[k] = e
    BY <2>1, Elements
  <2> QED
    BY <2>1, <2>2, <2>3
<1> HIDE DEF P
<1>6. Cardinality(P) \in Nat /\ Cardinality(P) <= Len(q)
  BY <1>2, <1>3, FS_Subset, FS_CardinalityType
<1> QED
  BY <1>1, <1>2, <1>4, <1>5, <1>6

-----------------------------------------------------------------------------
(* What is handed to the worker is handed over in its turn.                *)
InTurn ==
    \A k \in Tasks : status[k] = "new" /\ status'[k] = "queued" =>
        waiting_tasks' # <<>> /\ k = Head(waiting_tasks')

Jobs == /\ status \in [Tasks -> Service!States] /\ queue \in Seq(Tasks)
        /\ \A i \in 1..Len(queue) : status[queue[i]] # "new"

(* statement_execute() of the provider for task j.                         *)
LEMMA SubmittedFacts ==
    ASSUME Jobs, submitter \in [Tasks -> Callers \cup {NOTHING}],
           NEW t \in Callers, NEW j \in Tasks, NEW pending \in Seq(Tasks),
           Submitted(t, j, pending)
    PROVE  /\ Jobs' /\ submitter' \in [Tasks -> Callers \cup {NOTHING}]
           /\ async_tasks' \in Seq(Tasks)
           /\ \A k \in Tasks : k # j => status'[k] = status[k]
           /\ status'[j] = "new" => j \notin stmt'
           /\ j \in stmt' => status'[j] = "queued" /\ async_tasks' = Append(pending, j)
<1>1. CASE j \in stmt'
  <2>1. /\ status[j] = "new" /\ status' = [status EXCEPT ![j] = "queued"]
        /\ queue' = Append(queue, j)
        /\ submitter' = [submitter EXCEPT ![j] = t] /\ async_tasks' = Append(pending, j)
    BY <1>1 DEF Submitted, Service!Submit
  <2>2. /\ status' \in [Tasks -> Service!States] /\ status'[j] = "queued"
        /\ \A k \in Tasks : k # j => status'[k] = status[k]
    BY <2>1 DEF Jobs, Service!States
  <2>3. submitter' \in [Tasks -> Callers \cup {NOTHING}] /\ async_tasks' \in Seq(Tasks)
    BY <2>1
  <2>4. /\ queue' \in Seq(Tasks) /\ Len(queue') = Len(queue) + 1
        /\ \A i \in 1..Len(queue) : queue'[i] = queue[i] /\ queue[i] \in Tasks
        /\ queue'[Len(queue) + 1] = j
    BY <2>1 DEF Jobs
  <2>5. ASSUME NEW i \in 1..Len(queue') PROVE status'[queue'[i]] # "new"
    <3>1. i \in 1..Len(queue) \/ i = Len(queue) + 1
      BY <2>4 DEF Jobs
    <3> QED
      BY <2>2, <2>4, <3>1 DEF Jobs
  <2> QED
    BY <1>1, <2>1, <2>2, <2>3, <2>4, <2>5 DEF Jobs
<1>2. CASE j \notin stmt'
  <2>1. status' = status /\ queue' = queue /\ submitter' = submitter /\ async_tasks' = pending
    BY <1>2 DEF Submitted, service
  <2> QED
    BY <1>2, <2>1 DEF Jobs
<1> QED
  BY <1>1, <1>2

(* The arrays and jobs after a step that leaves these tasks in the arrays, *)
(* and no other than waiting ones submitted.                               *)
ArraysAfter(waiting, completed) ==
    /\ Jobs' /\ submitter' \in [Tasks -> Callers \cup {NOTHING}]
    /\ waiting_tasks' \in Seq(Tasks) /\ completed_tasks' \in Seq(Tasks)
    /\ being_processed' \in SUBSET Tasks /\ async_tasks' \in Seq(Tasks)
    /\ open' \in {"open", "subclosed", "closed"}
    /\ Increasing(waiting_tasks') /\ NoRepeats(completed_tasks')
    /\ ToSet(waiting_tasks') \cap ToSet(completed_tasks') = {}
    /\ ToSet(waiting_tasks') \cup ToSet(completed_tasks')
         = ToSet(waiting) \cup ToSet(completed)
    /\ \A k \in Tasks : k \notin ToSet(waiting) => status'[k] = status[k]

(* No task is at work, and those that wait have their statement.           *)
AtRest(waiting, processed, pending) ==
    /\ processed = {} /\ pending = <<>> /\ ToSet(waiting) \subseteq stmt'
    /\ \A i \in 1..Len(waiting) : status[waiting[i]] = "new"

(* The first of the waiting tasks is started, those refused completed.     *)
LEMMA StartFirstFacts ==
    ASSUME Jobs, submitter \in [Tasks -> Callers \cup {NOTHING}],
           open \in {"open", "subclosed", "closed"},
           NEW t \in Callers, NEW waiting \in Seq(Tasks), NEW completed \in Seq(Tasks),
           NEW processed \in SUBSET Tasks, NEW pending \in Seq(Tasks),
           Increasing(waiting), NoRepeats(completed),
           ToSet(waiting) \cap ToSet(completed) = {},
           StartFirst(t, waiting, completed, processed, pending)
    PROVE  /\ ArraysAfter(waiting, completed) /\ InTurn
           /\ AtRest(waiting, processed, pending) => Progress'
<1> DEFINE n == Refused(waiting)
           l == Len(waiting)
           rest == Rest(waiting, n)
<1>1. /\ n \in 0..l
      /\ l \in Nat
      /\ open = "open" => n = 0
      /\ open # "open" /\ ToSet(waiting) \subseteq stmt' => n = l
  <2>1. /\ n \in 0..l
        /\ open # "open" /\ ToSet(waiting) \subseteq stmt' => n = l
    BY RefusedFacts
  <2>2. open = "open" => n = 0
    BY DEF Refused
  <2> QED
    BY <2>1, <2>2
<1>2. /\ waiting_tasks' = rest /\ completed_tasks' = completed \o Prefix(waiting, n)
      /\ open' \in {open, "closed"}
      /\ n < l => /\ being_processed' = processed \cup {waiting[n + 1]}
                  /\ Submitted(t, waiting[n + 1], pending)
      /\ ~(n < l) => /\ being_processed' = processed /\ async_tasks' = pending
                     /\ status' = status /\ queue' = queue /\ submitter' = submitter
  <2> HIDE DEF n, l, rest
  <2>1. /\ waiting_tasks' = rest /\ completed_tasks' = completed \o Prefix(waiting, n)
        /\ open' = IF n > 0 THEN "closed" ELSE open
    BY Zenon DEF StartFirst, n, rest
  <2>2. IF n < l
        THEN /\ being_processed' = processed \cup {waiting[n + 1]}
             /\ Submitted(t, waiting[n + 1], pending)
        ELSE /\ being_processed' = processed /\ async_tasks' = pending
             /\ UNCHANGED <<service, submitter>>
    BY Zenon DEF StartFirst, n, l
  <2> QED
    BY <2>1, <2>2 DEF service
<1>3. /\ rest \in Seq(Tasks) /\ Len(rest) = l - n
      /\ \A i \in 1..(l - n) : rest[i] = waiting[n + i]
  <2> HIDE DEF n, rest, l
  <2>1. n \in 0..Len(waiting)
    BY <1>1 DEF l
  <2>2. /\ Rest(waiting, n) \in Seq(Tasks) /\ Len(Rest(waiting, n)) = Len(waiting) - n
        /\ \A i \in 1..(Len(waiting) - n) : Rest(waiting, n)[i] = waiting[n + i]
    BY <2>1, SplitFacts
  <2> QED
    BY <2>2 DEF rest, l
<1> HIDE DEF n, rest
<1>4. /\ waiting_tasks' \in Seq(Tasks) /\ completed_tasks' \in Seq(Tasks)
      /\ Increasing(waiting_tasks') /\ NoRepeats(completed_tasks')
      /\ ToSet(waiting_tasks') \cap ToSet(completed_tasks') = {}
      /\ ToSet(waiting_tasks') \cup ToSet(completed_tasks')
           = ToSet(waiting) \cup ToSet(completed)
  <2>1. Tasks \in SUBSET Int
    BY MaxTasksAssumption DEF Tasks
  <2> QED
    BY <1>1, <1>2, <2>1, MovedFacts DEF rest
<1>5. \A i \in 1..l : waiting[i] \in ToSet(waiting) /\ waiting[i] \in Tasks
  BY Elements
<1>6. open' \in {"open", "subclosed", "closed"}
  BY <1>2
<1>7. CASE n < l
  <2> DEFINE j == waiting[n + 1]
  <2>1. n + 1 \in 1..l /\ 1 \in 1..(l - n)
    BY <1>1, <1>7
  <2>2. j \in Tasks /\ j \in ToSet(waiting) /\ rest # <<>> /\ Head(rest) = j
    BY <1>3, <1>5, <2>1
  <2> HIDE DEF j
  <2>3. being_processed' = processed \cup {j} /\ Submitted(t, j, pending)
    BY <1>2, <1>7 DEF j
  <2>4. /\ Jobs' /\ submitter' \in [Tasks -> Callers \cup {NOTHING}]
        /\ async_tasks' \in Seq(Tasks)
        /\ \A k \in Tasks : k # j => status'[k] = status[k]
        /\ status'[j] = "new" => j \notin stmt'
        /\ j \in stmt' => status'[j] = "queued" /\ async_tasks' = Append(pending, j)
    BY <2>2, <2>3, SubmittedFacts
  <2>5. InTurn
    BY <1>2, <2>2, <2>4 DEF InTurn
  <2>6. ASSUME AtRest(waiting, processed, pending) PROVE Progress'
    <3>1. n = 0 /\ j \in stmt' /\ waiting_tasks' # <<>> /\ Head(waiting_tasks') = j
      BY <1>1, <1>2, <1>7, <2>2, <2>6 DEF AtRest
    <3>2. FirstAtWork'
      BY <2>3, <2>4, <2>6, <3>1 DEF FirstAtWork, AtRest
    <3>3. /\ Len(waiting_tasks') = l
          /\ \A i \in 1..l : waiting_tasks'[i] = waiting[i] /\ waiting[i] \in stmt'
      BY <1>1, <1>2, <1>3, <1>5, <2>6, <3>1 DEF AtRest
    <3>4. ASSUME NEW i \in 2..l PROVE status'[waiting_tasks'[i]] = "new"
      <4>1. i \in 1..l /\ 1 \in 1..l /\ waiting[1] = j /\ 1 < i
        BY <1>1, <3>1 DEF j
      <4>2. waiting[1] \in Int /\ waiting[i] \in Int /\ waiting[1] < waiting[i]
        BY <1>5, <4>1, MaxTasksAssumption DEF Increasing, Tasks
      <4>3. waiting[i] # j
        BY <4>1, <4>2
      <4> QED
        BY <1>5, <2>4, <2>6, <3>3, <4>1, <4>3 DEF AtRest
    <3> QED
      BY <3>1, <3>2, <3>3, <3>4 DEF Progress
  <2> QED
    <3>1. /\ being_processed' \in SUBSET Tasks
          /\ \A k \in Tasks : k \notin ToSet(waiting) => status'[k] = status[k]
      BY <2>2, <2>3, <2>4
    <3> QED
      BY <1>4, <1>6, <2>4, <2>5, <2>6, <3>1 DEF ArraysAfter
<1>8. CASE ~(n < l)
  <2>1. /\ being_processed' = processed /\ async_tasks' = pending
        /\ status' = status /\ queue' = queue /\ submitter' = submitter
    BY <1>2, <1>8
  <2>2. Jobs' /\ InTurn
    BY <2>1 DEF Jobs, InTurn
  <2>3. ASSUME AtRest(waiting, processed, pending) PROVE Progress'
    <3>1. waiting_tasks' = <<>> /\ Len(waiting_tasks') = 0
      BY <1>1, <1>2, <1>3, <1>8
    <3> QED
      BY <2>1, <2>3, <3>1 DEF Progress, AtRest
  <2> QED
    BY <1>4, <1>6, <2>1, <2>2, <2>3 DEF ArraysAfter
<1> QED
  BY <1>7, <1>8

-----------------------------------------------------------------------------
(* TasksInv at the start.                                                  *)
LEMMA TasksInitInv == AsyncInit => TasksInv
<1> SUFFICES ASSUME AsyncInit PROVE TasksInv
  OBVIOUS
<1> USE NothingAssumption, MaxTasksAssumption
<1>1. AsyncTypeOK
  BY DEF AsyncInit, AsyncTypeOK, Tasks, Service!TypeOK, Service!Init, Service!States
<1>2. waiting_tasks \in Seq(Tasks) /\ completed_tasks \in Seq(Tasks)
      /\ waiting_tasks = <<>> /\ completed_tasks = <<>> /\ Len(waiting_tasks) = 0
      /\ Len(completed_tasks) = 0
  BY DEF AsyncInit
<1>3. ToSet(waiting_tasks) = {} /\ ToSet(completed_tasks) = {}
  BY <1>2, NothingInIt
<1>4. ArraysInv
  <2>1. {j \in Tasks : j < next_task_id} = {}
    BY DEF AsyncInit, Tasks
  <2> QED
    BY <1>2, <1>3, <2>1 DEF AsyncInit, ArraysInv, Increasing, NoRepeats
<1>5. CallInv /\ JobsInv
  BY DEF AsyncInit, CallInv, Calling, JobsInv, Service!Init
<1>6. ProgressInv
  BY DEF AsyncInit, ProgressInv, Progress
<1> QED
  BY <1>1, <1>4, <1>5, <1>6 DEF TasksInv

(* What TasksInv says of the arrays and of the jobs, for the steps.        *)
LEMMA ArraysFacts ==
    ASSUME TasksInv
    PROVE  /\ waiting_tasks \in Seq(Tasks) /\ completed_tasks \in Seq(Tasks)
           /\ async_tasks \in Seq(Tasks) /\ Tasks \in SUBSET Int
           /\ next_task_id \in 1..(MaxTasks + 1)
           /\ Jobs /\ submitter \in [Tasks -> Callers \cup {NOTHING}]
           /\ open \in {"open", "subclosed", "closed"}
           /\ NoRepeats(waiting_tasks)
           /\ waiting_tasks # <<>> =>
                 /\ Head(waiting_tasks) = waiting_tasks[1]
                 /\ Head(waiting_tasks) \in ToSet(waiting_tasks)
<1>1. /\ waiting_tasks \in Seq(Tasks) /\ completed_tasks \in Seq(Tasks)
      /\ async_tasks \in Seq(Tasks) /\ next_task_id \in 1..(MaxTasks + 1)
      /\ Jobs /\ submitter \in [Tasks -> Callers \cup {NOTHING}]
      /\ open \in {"open", "subclosed", "closed"}
  BY DEF TasksInv, AsyncTypeOK, JobsInv, Jobs, Service!TypeOK
<1>2. Tasks \in SUBSET Int
  BY MaxTasksAssumption DEF Tasks
<1>3. NoRepeats(waiting_tasks)
  BY <1>1, <1>2, IncreasingNeverRepeats DEF TasksInv, ArraysInv
<1>4. ASSUME waiting_tasks # <<>>
      PROVE  /\ Head(waiting_tasks) = waiting_tasks[1]
             /\ Head(waiting_tasks) \in ToSet(waiting_tasks)
  <2>1. 1 \in 1..Len(waiting_tasks) /\ Head(waiting_tasks) = waiting_tasks[1]
    BY <1>1, <1>4
  <2> QED
    BY <1>1, <2>1, Elements
<1> QED
  BY <1>1, <1>2, <1>3, <1>4

(* A task is requested.                                                    *)
LEMMA ExecuteKeeps ==
    ASSUME TasksInv, NEW t \in Callers, Execute(t)
    PROVE  TasksInv' /\ InTurn
<1> DEFINE id == next_task_id
           waiting == Append(waiting_tasks, id)
<1>1. /\ call = NOTHING /\ call' = NOTHING /\ id <= MaxTasks /\ next_task_id' = id + 1
      /\ stmt' = stmt \cup {id} /\ requester' = [requester EXCEPT ![id] = t]
      /\ AfterExecute(t, waiting) /\ fetched' = fetched /\ cancelled' = cancelled
      /\ unmarked' = unmarked /\ modified' = modified
  BY DEF Execute
<1>2. /\ id \in Tasks
      /\ waiting_tasks \in Seq(Tasks) /\ completed_tasks \in Seq(Tasks)
      /\ async_tasks \in Seq(Tasks) /\ Tasks \in SUBSET Int
      /\ Jobs /\ submitter \in [Tasks -> Callers \cup {NOTHING}]
      /\ open \in {"open", "subclosed", "closed"}
      /\ being_processed \in SUBSET Tasks /\ Len(waiting_tasks) \in Nat
      /\ NoRepeats(waiting_tasks) /\ NoRepeats(completed_tasks)
      /\ Increasing(waiting_tasks)
  <2>1. id \in Tasks
    BY <1>1, ArraysFacts, MaxTasksAssumption DEF Tasks
  <2> QED
    BY <2>1, ArraysFacts DEF TasksInv, AsyncTypeOK, ArraysInv
<1>3. /\ ToSet(waiting_tasks) \cap ToSet(completed_tasks) = {}
      /\ (ToSet(waiting_tasks) \cup ToSet(completed_tasks))
           \cap (fetched \cup cancelled) = {}
      /\ fetched \cap cancelled = {}
      /\ ToSet(waiting_tasks) \cup ToSet(completed_tasks) \cup fetched \cup cancelled
           = {j \in Tasks : j < id}
  BY DEF TasksInv, ArraysInv
<1>4. \A j : j \in ToSet(waiting_tasks) \cup ToSet(completed_tasks) \cup fetched \cup cancelled
              <=> j \in Tasks /\ j < id
  BY <1>3
<1> HIDE DEF waiting, id
<1>5. /\ waiting \in Seq(Tasks) /\ Len(waiting) = Len(waiting_tasks) + 1
      /\ \A i \in 1..Len(waiting_tasks) : waiting[i] = waiting_tasks[i]
      /\ waiting[Len(waiting_tasks) + 1] = id
      /\ ToSet(waiting) = ToSet(waiting_tasks) \cup {id}
      /\ \A i \in 1..Len(waiting) :
            i \in 1..Len(waiting_tasks) \/ (i = Len(waiting_tasks) + 1 /\ waiting[i] = id)
  <2>1. /\ waiting \in Seq(Tasks) /\ Len(waiting) = Len(waiting_tasks) + 1
        /\ \A i \in 1..Len(waiting_tasks) : waiting[i] = waiting_tasks[i]
        /\ waiting[Len(waiting_tasks) + 1] = id
        /\ ToSet(waiting) = ToSet(waiting_tasks) \cup {id}
    BY <1>2, AppendFacts DEF waiting
  <2> QED
    BY <1>2, <2>1
<1>6. /\ id \in Int /\ id \notin ToSet(waiting_tasks) \cup ToSet(completed_tasks)
      /\ id \notin fetched \cup cancelled
  BY <1>2, <1>4
<1>7. Increasing(waiting)
  <2> SUFFICES ASSUME NEW i \in 1..Len(waiting), NEW k \in 1..Len(waiting), i < k
               PROVE  waiting[i] < waiting[k]
    BY DEF Increasing
  <2>1. i \in 1..Len(waiting_tasks) /\ waiting[i] = waiting_tasks[i]
    BY <1>2, <1>5
  <2>2. waiting_tasks[i] \in ToSet(waiting_tasks)
    BY <1>2, <2>1, Elements
  <2>3. waiting[i] < id
    BY <1>4, <2>1, <2>2
  <2>4. CASE k \in 1..Len(waiting_tasks)
    BY <1>2, <1>5, <2>1, <2>4 DEF Increasing
  <2> QED
    BY <1>5, <2>3, <2>4
<1>8. ToSet(waiting) \cap ToSet(completed_tasks) = {}
  BY <1>3, <1>5, <1>6
<1>9. status[id] = "new"
  BY <1>2 DEF TasksInv, JobsInv, id
<1>10. ArraysAfter(waiting, completed_tasks) /\ InTurn /\ ProgressInv'
  <2>1. CASE Len(waiting) = 1
    <3>1. StartFirst(t, waiting, completed_tasks, being_processed, async_tasks)
      BY <1>1, <2>1 DEF AfterExecute
    <3>2. ASSUME unmarked = {}, modified = {}
          PROVE  AtRest(waiting, being_processed, async_tasks)
      <4>1. waiting_tasks = <<>> /\ Len(waiting_tasks) = 0
        BY <1>2, <1>5, <2>1
      <4>2. ToSet(waiting_tasks) = {}
        BY <4>1, NothingInIt
      <4>3. being_processed = {} /\ async_tasks = <<>>
        BY <3>2, <4>1 DEF TasksInv, ProgressInv, Progress
      <4> QED
        BY <1>1, <1>5, <1>9, <4>1, <4>2, <4>3 DEF AtRest
    <3>3. /\ ArraysAfter(waiting, completed_tasks) /\ InTurn
          /\ AtRest(waiting, being_processed, async_tasks) => Progress'
      BY <1>2, <1>5, <1>7, <1>8, <3>1, StartFirstFacts
    <3> QED
      BY <1>1, <3>2, <3>3 DEF ProgressInv
  <2>2. CASE Len(waiting) # 1
    <3>1. /\ waiting_tasks' = waiting /\ completed_tasks' = completed_tasks
          /\ being_processed' = being_processed /\ async_tasks' = async_tasks
          /\ submitter' = submitter /\ open' = open /\ status' = status /\ queue' = queue
      BY <1>1, <2>2 DEF AfterExecute, provider, service
    <3>2. Jobs' /\ InTurn
      BY <1>2, <3>1 DEF Jobs, InTurn
    <3>3. ASSUME unmarked = {}, modified = {} PROVE Progress'
      <4>1. /\ waiting_tasks # <<>> /\ 1 \in 1..Len(waiting_tasks) /\ waiting # <<>>
            /\ Head(waiting) = Head(waiting_tasks)
        BY <1>2, <1>5, <2>2
      <4>2. /\ FirstAtWork
            /\ \A i \in 2..Len(waiting_tasks) : status[waiting_tasks[i]] = "new"
            /\ \A i \in 1..Len(waiting_tasks) :
                  status[waiting_tasks[i]] = "new" => waiting_tasks[i] \in stmt
        BY <3>3, <4>1 DEF TasksInv, ProgressInv, Progress
      <4>3. FirstAtWork'
        BY <1>1, <3>1, <4>1, <4>2 DEF FirstAtWork, Calling
      <4>4. ASSUME NEW i \in 1..Len(waiting)
            PROVE  /\ i \in 2..Len(waiting) => status[waiting[i]] = "new"
                   /\ status[waiting[i]] = "new" => waiting[i] \in stmt'
        <5>1. CASE i \in 1..Len(waiting_tasks)
          BY <1>1, <1>2, <1>5, <4>2, <5>1
        <5>2. CASE i \notin 1..Len(waiting_tasks)
          BY <1>1, <1>5, <1>9, <5>2
        <5> QED
          BY <5>1, <5>2
      <4>5. \A i \in 2..Len(waiting) : i \in 1..Len(waiting)
        BY <1>5
      <4> QED
        BY <3>1, <4>1, <4>3, <4>4, <4>5 DEF Progress
    <3> QED
      BY <1>1, <1>2, <1>5, <1>7, <1>8, <3>1, <3>2, <3>3 DEF ProgressInv, ArraysAfter
  <2> QED
    BY <2>1, <2>2
<1>11. AsyncTypeOK'
  <2>1. next_task_id' \in 1..(MaxTasks + 1)
    BY <1>1, <1>2, MaxTasksAssumption DEF Tasks
  <2>2. requester' \in [Tasks -> Callers \cup {NOTHING}] /\ stmt' \subseteq Tasks
    BY <1>1, <1>2 DEF TasksInv, AsyncTypeOK
  <2>3. Service!TypeOK'
    BY <1>10 DEF ArraysAfter, Jobs, Service!TypeOK
  <2> QED
    BY <1>1, <1>10, <2>1, <2>2, <2>3 DEF TasksInv, AsyncTypeOK, ArraysAfter
<1>12. ArraysInv'
  <2>1. \A j : j \in ToSet(waiting_tasks') \cup ToSet(completed_tasks')
                     \cup fetched \cup cancelled
              <=> j \in Tasks /\ j < id + 1
    <3>1. \A j \in Tasks : j < id + 1 <=> j < id \/ j = id
      BY <1>2
    <3>2. ToSet(waiting_tasks') \cup ToSet(completed_tasks')
            = ToSet(waiting_tasks) \cup {id} \cup ToSet(completed_tasks)
      BY <1>5, <1>10 DEF ArraysAfter
    <3> QED
      BY <1>2, <1>4, <3>1, <3>2
  <2>2. ToSet(waiting_tasks') \cup ToSet(completed_tasks') \cup fetched \cup cancelled
              = {j \in Tasks : j < id + 1}
    BY <2>1
  <2>3. (ToSet(waiting_tasks') \cup ToSet(completed_tasks')) \cap (fetched \cup cancelled) = {}
    BY <1>3, <1>5, <1>6, <1>10 DEF ArraysAfter
  <2> QED
    BY <1>1, <1>3, <1>10, <2>2, <2>3 DEF ArraysInv, ArraysAfter
<1>13. CallInv'
  BY <1>1 DEF CallInv, Calling
<1>14. JobsInv'
  <2>1. ASSUME NEW j \in Tasks, j >= id + 1 PROVE status'[j] = "new"
    <3>1. j \notin ToSet(waiting) /\ j >= id
      BY <1>2, <1>4, <1>5, <1>6, <2>1
    <3>2. status[j] = "new"
      BY <3>1 DEF TasksInv, JobsInv, id
    <3> QED
      BY <1>10, <3>1, <3>2 DEF ArraysAfter
  <2> QED
    BY <1>1, <1>10, <2>1 DEF JobsInv, Jobs, ArraysAfter
<1> QED
  BY <1>10, <1>11, <1>12, <1>13, <1>14 DEF TasksInv

(* The provider calls the connection back about its oldest job.            *)
LEMMA CallbackKeeps ==
    ASSUME TasksInv, Callback
    PROVE  TasksInv' /\ InTurn
<1> DEFINE j == Head(async_tasks)
           waiting == TaskRemoved(waiting_tasks, j)
           completed == Append(completed_tasks, j)
<1>1. /\ call # NOTHING /\ call.at = "callback" /\ call' = [call EXCEPT !.at = "lookup"]
      /\ next_task_id' = next_task_id /\ requester' = requester
      /\ fetched' = fetched /\ cancelled' = cancelled
      /\ unmarked' = unmarked /\ modified' = modified
  BY DEF Callback, taskHistory
<1>2. call \in Calls
  BY <1>1 DEF TasksInv, AsyncTypeOK
<1>3. /\ call' \in Calls
      /\ call'.at = "lookup" /\ call.thread \in Callers
  BY <1>1, <1>2 DEF Calls
<1>4. async_tasks # <<>> /\ j \in Tasks /\ Tail(async_tasks) \in Seq(Tasks)
  <2>1. async_tasks # <<>>
    BY <1>1 DEF TasksInv, CallInv, Calling
  <2> QED
    BY <2>1, ArraysFacts
<1> HIDE DEF j
<1>5. /\ waiting_tasks \in Seq(Tasks) /\ completed_tasks \in Seq(Tasks)
      /\ async_tasks \in Seq(Tasks) /\ Tasks \in SUBSET Int
      /\ Jobs /\ submitter \in [Tasks -> Callers \cup {NOTHING}]
      /\ open \in {"open", "subclosed", "closed"}
      /\ being_processed \in SUBSET Tasks /\ stmt \in SUBSET Tasks
      /\ NoRepeats(waiting_tasks) /\ NoRepeats(completed_tasks)
      /\ Increasing(waiting_tasks)
  BY ArraysFacts DEF TasksInv, AsyncTypeOK, ArraysInv
<1>6. /\ ToSet(waiting_tasks) \cap ToSet(completed_tasks) = {}
      /\ (ToSet(waiting_tasks) \cup ToSet(completed_tasks))
           \cap (fetched \cup cancelled) = {}
      /\ fetched \cap cancelled = {}
      /\ ToSet(waiting_tasks) \cup ToSet(completed_tasks) \cup fetched \cup cancelled
           = {k \in Tasks : k < next_task_id}
  BY DEF TasksInv, ArraysInv
<1>7. /\ ArraysAfter(waiting_tasks, completed_tasks) /\ InTurn /\ ProgressInv'
      /\ stmt' \in SUBSET Tasks
  <2>1. CASE Contains(waiting_tasks, j)
    <3>1. /\ stmt' = stmt \ {j}
          /\ StartFirst(call.thread, waiting, completed, being_processed \ {j},
                        Tail(async_tasks))
      BY <2>1 DEF Callback, StartsNext, j
    <3>2. j \in ToSet(waiting_tasks) /\ j \notin ToSet(completed_tasks)
      BY <1>5, <1>6, <2>1, Elements
    <3>3. /\ waiting \in Seq(Tasks) /\ ToSet(waiting) = ToSet(waiting_tasks) \ {j}
          /\ Increasing(waiting)
          /\ waiting_tasks # <<>> /\ j = Head(waiting_tasks) =>
                /\ Len(waiting) = Len(waiting_tasks) - 1
                /\ \A i \in 1..(Len(waiting_tasks) - 1) : waiting[i] = waiting_tasks[i + 1]
      BY <1>5, RemovedFacts
    <3>4. /\ completed \in Seq(Tasks) /\ NoRepeats(completed)
          /\ ToSet(completed) = ToSet(completed_tasks) \cup {j}
      BY <1>4, <1>5, <3>2, AppendFacts
    <3> HIDE DEF waiting, completed
    <3>5. /\ ToSet(waiting) \cap ToSet(completed) = {}
          /\ ToSet(waiting) \cup ToSet(completed)
               = ToSet(waiting_tasks) \cup ToSet(completed_tasks)
      BY <1>6, <3>2, <3>3, <3>4
    <3>6. being_processed \ {j} \in SUBSET Tasks
      BY <1>5
    <3>7. /\ ArraysAfter(waiting, completed) /\ InTurn
          /\ AtRest(waiting, being_processed \ {j}, Tail(async_tasks)) => Progress'
      BY <1>3, <1>4, <1>5, <3>1, <3>3, <3>4, <3>5, <3>6, StartFirstFacts
    <3>8. ArraysAfter(waiting_tasks, completed_tasks)
      <4>1. \A k \in Tasks : k \notin ToSet(waiting_tasks) => status'[k] = status[k]
        BY <3>3, <3>7 DEF ArraysAfter
      <4> QED
        BY <3>5, <3>7, <4>1 DEF ArraysAfter
    <3>9. ASSUME unmarked = {}, modified = {}
          PROVE  AtRest(waiting, being_processed \ {j}, Tail(async_tasks))
      <4>1. waiting_tasks # <<>>
        BY <3>2, NothingInIt
      <4>2. /\ FirstAtWork
            /\ \A i \in 2..Len(waiting_tasks) : status[waiting_tasks[i]] = "new"
            /\ \A i \in 1..Len(waiting_tasks) :
                  status[waiting_tasks[i]] = "new" => waiting_tasks[i] \in stmt
        BY <3>9, <4>1 DEF TasksInv, ProgressInv, Progress
      <4>3. j = Head(waiting_tasks) /\ being_processed \ {j} = {} /\ Tail(async_tasks) = <<>>
        BY <4>2 DEF FirstAtWork, j
      <4>4. ASSUME NEW i \in 1..Len(waiting)
            PROVE  status[waiting[i]] = "new" /\ waiting[i] \in stmt
        <5>1. /\ i \in 1..(Len(waiting_tasks) - 1) /\ i + 1 \in 2..Len(waiting_tasks)
              /\ i + 1 \in 1..Len(waiting_tasks)
          BY <1>5, <3>3, <4>1, <4>3
        <5>2. waiting[i] = waiting_tasks[i + 1]
          BY <3>3, <4>1, <4>3, <5>1
        <5> QED
          BY <4>2, <5>1, <5>2
      <4>5. ASSUME NEW k \in ToSet(waiting) PROVE k \in stmt'
        <5>1. PICK i \in 1..Len(waiting) : waiting[i] = k
          BY <3>3, Elements
        <5> QED
          BY <3>1, <3>3, <4>4, <5>1
      <4> QED
        BY <4>3, <4>4, <4>5 DEF AtRest
    <3> QED
      BY <1>1, <1>5, <3>1, <3>7, <3>8, <3>9 DEF ProgressInv
  <2>2. CASE ~Contains(waiting_tasks, j)
    <3>1. /\ async_tasks' = Tail(async_tasks) /\ waiting_tasks' = waiting_tasks
          /\ completed_tasks' = completed_tasks /\ being_processed' = being_processed
          /\ stmt' = stmt /\ submitter' = submitter /\ open' = open
          /\ status' = status /\ queue' = queue
      BY <2>2 DEF Callback, service, j
    <3>2. ~(unmarked = {} /\ modified = {})
      <4> SUFFICES ASSUME unmarked = {}, modified = {} PROVE FALSE
        OBVIOUS
      <4>1. waiting_tasks # <<>> /\ FirstAtWork
        BY <1>4 DEF TasksInv, ProgressInv, Progress
      <4>2. j = Head(waiting_tasks)
        BY <4>1 DEF FirstAtWork, j
      <4>3. j \in ToSet(waiting_tasks)
        BY <4>1, <4>2, ArraysFacts
      <4> QED
        BY <1>5, <2>2, <4>3, Elements
    <3>3. Jobs' /\ InTurn /\ ProgressInv'
      BY <1>1, <1>5, <3>1, <3>2 DEF Jobs, InTurn, ProgressInv
    <3> QED
      BY <1>4, <1>5, <1>6, <3>1, <3>3 DEF ArraysAfter
  <2> QED
    BY <2>1, <2>2
<1>8. AsyncTypeOK'
  <2>1. Service!TypeOK'
    BY <1>7 DEF ArraysAfter, Jobs, Service!TypeOK
  <2> QED
    BY <1>1, <1>3, <1>7, <2>1 DEF TasksInv, AsyncTypeOK, ArraysAfter
<1>9. ArraysInv'
  BY <1>1, <1>6, <1>7 DEF ArraysInv, ArraysAfter
<1>10. CallInv'
  BY <1>3 DEF CallInv, Calling
<1>11. JobsInv'
  <2>1. ASSUME NEW k \in Tasks, k >= next_task_id PROVE status'[k] = "new"
    <3>1. k \notin ToSet(waiting_tasks)
      BY <1>5, <1>6, <2>1, ArraysFacts
    <3> QED
      BY <1>7, <2>1, <3>1 DEF ArraysAfter, TasksInv, JobsInv
  <2> QED
    BY <1>1, <1>7, <2>1 DEF JobsInv, Jobs, ArraysAfter
<1> QED
  BY <1>7, <1>8, <1>9, <1>10, <1>11 DEF TasksInv

(* The provider collects the result of its oldest job, or finds the sub    *)
(* connection closed.                                                      *)
LEMMA FetchResultKeeps ==
    ASSUME TasksInv, NEW t \in Callers, NEW id \in Tasks, FetchResult(t, id)
    PROVE  TasksInv' /\ InTurn
<1> DEFINE h == Head(async_tasks)
<1>1. /\ call = NOTHING /\ HandleAsync(t)
      /\ call' = [thread |-> t, id |-> id,
                  at |-> IF open = "open" /\ Ready(t) THEN "callback" ELSE "lookup"]
      /\ UNCHANGED <<next_task_id, waiting_tasks, completed_tasks, being_processed, stmt,
                     requester, fetched, cancelled, unmarked, modified>>
  BY DEF FetchResult, connection, taskHistory
<1>2. call' \in Calls
  BY <1>1 DEF Calls
<1>3. ArraysInv'
  BY <1>1 DEF TasksInv, ArraysInv
<1>4. CASE open = "open" /\ Ready(t)
  <2>1. /\ Service!Collect(h) /\ async_tasks' = async_tasks /\ submitter' = submitter
        /\ open' = open
    BY <1>1, <1>4 DEF HandleAsync, provider
  <2>2. async_tasks # <<>> /\ h \in Tasks /\ call'.at = "callback"
    BY <1>1, <1>4, ArraysFacts DEF Ready
  <2> HIDE DEF h
  <2>3. status[h] = "done" /\ status' = [status EXCEPT ![h] = "collected"] /\ queue' = queue
    BY <2>1 DEF Service!Collect
  <2>4. status \in [Tasks -> Service!States] /\ queue \in Seq(Tasks)
    BY ArraysFacts DEF Jobs
  <2>5. /\ status' \in [Tasks -> Service!States] /\ status'[h] = "collected"
        /\ \A k \in Tasks : k # h => status'[k] = status[k]
    BY <2>2, <2>3, <2>4 DEF Service!States
  <2>6. AsyncTypeOK'
    <3>1. Service!TypeOK'
      BY <2>3, <2>4, <2>5 DEF Service!TypeOK
    <3> QED
      BY <1>1, <1>2, <2>1, <3>1 DEF TasksInv, AsyncTypeOK
  <2>7. CallInv' /\ InTurn
    BY <2>1, <2>2, <2>5 DEF CallInv, InTurn
  <2>8. JobsInv'
    <3>1. \A i \in 1..Len(queue) : queue[i] \in Tasks /\ status[queue[i]] # "new"
      BY <2>4 DEF TasksInv, JobsInv
    <3>2. \A k \in Tasks : k >= next_task_id => status[k] = "new"
      BY DEF TasksInv, JobsInv
    <3> QED
      BY <1>1, <2>2, <2>3, <2>5, <3>1, <3>2 DEF JobsInv
  <2>9. ASSUME unmarked = {}, modified = {} PROVE Progress'
    <3>1. /\ waiting_tasks # <<>> /\ FirstAtWork
          /\ \A i \in 2..Len(waiting_tasks) : status[waiting_tasks[i]] = "new"
          /\ \A i \in 1..Len(waiting_tasks) :
                status[waiting_tasks[i]] = "new" => waiting_tasks[i] \in stmt
      BY <2>2, <2>9 DEF TasksInv, ProgressInv, Progress
    <3>2. \A i \in 1..Len(waiting_tasks) : waiting_tasks[i] \in Tasks
      BY ArraysFacts
    <3>3. h = Head(waiting_tasks) /\ call' # NOTHING
      BY <1>2, <3>1, NothingAssumption DEF FirstAtWork, h
    <3>4. FirstAtWork'
      BY <1>1, <2>1, <2>2, <2>5, <3>1, <3>3 DEF FirstAtWork, Calling
    <3>5. \A i \in 2..Len(waiting_tasks) : status'[waiting_tasks[i]] = "new"
      <4> SUFFICES ASSUME NEW i \in 2..Len(waiting_tasks)
                   PROVE  status'[waiting_tasks[i]] = "new"
        OBVIOUS
      <4>1. waiting_tasks[i] \in Tasks
        BY <3>2, ArraysFacts
      <4> QED
        BY <2>3, <2>5, <3>1, <4>1
    <3>6. \A i \in 1..Len(waiting_tasks) :
             status'[waiting_tasks[i]] = "new" => waiting_tasks[i] \in stmt
      BY <2>5, <3>1, <3>2
    <3> QED
      BY <1>1, <3>1, <3>4, <3>5, <3>6 DEF Progress
  <2> QED
    BY <1>1, <1>3, <2>6, <2>7, <2>8, <2>9 DEF TasksInv, ProgressInv
<1>5. CASE ~(open = "open" /\ Ready(t))
  <2>1. /\ status' = status /\ queue' = queue /\ async_tasks' = async_tasks
        /\ submitter' = submitter /\ open' \in {open, "closed"}
    <3>1. CASE open = "subclosed"
      BY <1>1, <3>1 DEF HandleAsync, service
    <3>2. CASE open # "subclosed"
      BY <1>1, <1>5, <3>2 DEF HandleAsync, service, provider
    <3> QED
      BY <3>1, <3>2
  <2>2. call'.at = "lookup"
    BY <1>1, <1>5
  <2>3. AsyncTypeOK'
    BY <1>1, <1>2, <2>1 DEF TasksInv, AsyncTypeOK, Service!TypeOK
  <2>4. CallInv' /\ JobsInv' /\ InTurn
    BY <1>1, <2>1, <2>2 DEF TasksInv, CallInv, Calling, JobsInv, InTurn
  <2>5. ProgressInv'
    BY <1>1, <2>1 DEF TasksInv, ProgressInv, Progress, FirstAtWork, Calling
  <2> QED
    BY <1>3, <2>3, <2>4, <2>5 DEF TasksInv
<1> QED
  BY <1>4, <1>5

(* A completed task is given back.                                         *)
LEMMA LookupKeeps ==
    ASSUME TasksInv, Lookup
    PROVE  TasksInv' /\ InTurn
<1> DEFINE given == {call.id} \cap ToSet(completed_tasks)
<1>1. /\ call # NOTHING /\ call.at = "lookup" /\ call' = NOTHING
      /\ completed_tasks' = TaskRemoved(completed_tasks, call.id)
      /\ fetched' = fetched \cup given
      /\ UNCHANGED <<next_task_id, waiting_tasks, being_processed, stmt, async_tasks,
                     submitter, open, status, queue, requester, cancelled, unmarked, modified>>
  BY DEF Lookup, Without, provider, service
<1>2. /\ completed_tasks \in Seq(Tasks) /\ NoRepeats(completed_tasks)
      /\ ToSet(completed_tasks) \subseteq Tasks
  BY ArraysFacts, Elements DEF TasksInv, ArraysInv
<1>3. /\ completed_tasks' \in Seq(Tasks) /\ NoRepeats(completed_tasks')
      /\ ToSet(completed_tasks') = ToSet(completed_tasks) \ {call.id}
  BY <1>1, <1>2, RemovedFacts
<1>4. AsyncTypeOK'
  <2>1. fetched' \subseteq Tasks
    BY <1>1, <1>2 DEF TasksInv, AsyncTypeOK
  <2> QED
    BY <1>1, <1>3, <2>1 DEF TasksInv, AsyncTypeOK, Service!TypeOK
<1>5. ArraysInv'
  <2>1. /\ ToSet(completed_tasks) = ToSet(completed_tasks') \cup given
        /\ ToSet(completed_tasks') \cap given = {}
    BY <1>3
  <2> HIDE DEF given
  <2>2. /\ ToSet(waiting_tasks) \cap ToSet(completed_tasks) = {}
        /\ (ToSet(waiting_tasks) \cup ToSet(completed_tasks))
             \cap (fetched \cup cancelled) = {}
        /\ fetched \cap cancelled = {}
        /\ ToSet(waiting_tasks) \cup ToSet(completed_tasks) \cup fetched \cup cancelled
             = {k \in Tasks : k < next_task_id}
    BY DEF TasksInv, ArraysInv
  <2>3. /\ ToSet(waiting_tasks) \cap ToSet(completed_tasks') = {}
        /\ (ToSet(waiting_tasks) \cup ToSet(completed_tasks'))
             \cap (fetched' \cup cancelled) = {}
        /\ fetched' \cap cancelled = {}
        /\ ToSet(waiting_tasks) \cup ToSet(completed_tasks') \cup fetched' \cup cancelled
             = ToSet(waiting_tasks) \cup ToSet(completed_tasks) \cup fetched \cup cancelled
    BY <1>1, <2>1, <2>2
  <2> QED
    BY <1>1, <1>3, <2>2, <2>3 DEF TasksInv, ArraysInv
<1>6. CallInv' /\ JobsInv' /\ InTurn
  BY <1>1 DEF TasksInv, CallInv, Calling, JobsInv, InTurn
<1>7. ProgressInv'
  BY <1>1 DEF TasksInv, ProgressInv, Progress, FirstAtWork, Calling
<1> QED
  BY <1>4, <1>5, <1>6, <1>7 DEF TasksInv

(* A task that waits is cancelled, or loses its mark.                      *)
LEMMA AsyncCancelKeeps ==
    ASSUME TasksInv, NEW id \in Tasks, AsyncCancel(id)
    PROVE  TasksInv' /\ InTurn
<1>1. /\ call = NOTHING /\ Contains(waiting_tasks, id)
      /\ UNCHANGED <<next_task_id, completed_tasks, async_tasks, submitter, open, status,
                     queue, call, requester, fetched, modified>>
  BY DEF AsyncCancel, provider, service
<1>2. CallInv' /\ JobsInv' /\ InTurn
  BY <1>1 DEF TasksInv, CallInv, Calling, JobsInv, InTurn
<1>3. CASE id \in being_processed
  <2>1. /\ being_processed' = being_processed \ {id} /\ unmarked' = unmarked \cup {id}
        /\ UNCHANGED <<waiting_tasks, stmt, cancelled>>
    BY <1>3 DEF AsyncCancel
  <2>2. AsyncTypeOK'
    BY <1>1, <2>1 DEF TasksInv, AsyncTypeOK, Service!TypeOK
  <2>3. ArraysInv'
    BY <1>1, <2>1 DEF TasksInv, ArraysInv
  <2>4. ProgressInv'
    BY <2>1 DEF ProgressInv
  <2> QED
    BY <1>2, <2>2, <2>3, <2>4 DEF TasksInv
<1>4. CASE id \notin being_processed
  <2>1. /\ waiting_tasks' = TaskRemoved(waiting_tasks, id) /\ stmt' = stmt \ {id}
        /\ cancelled' = cancelled \cup {id}
        /\ UNCHANGED <<being_processed, unmarked>>
    BY <1>4 DEF AsyncCancel
  <2>2. /\ waiting_tasks \in Seq(Tasks) /\ NoRepeats(waiting_tasks)
        /\ Increasing(waiting_tasks) /\ id \in ToSet(waiting_tasks)
    BY <1>1, ArraysFacts, Elements DEF TasksInv, ArraysInv
  <2>3. /\ waiting_tasks' \in Seq(Tasks) /\ Increasing(waiting_tasks')
        /\ ToSet(waiting_tasks') = ToSet(waiting_tasks) \ {id}
        /\ waiting_tasks # <<>> /\ id # Head(waiting_tasks) =>
              /\ waiting_tasks' # <<>> /\ Head(waiting_tasks') = Head(waiting_tasks)
              /\ \A i \in 2..Len(waiting_tasks') : \E k \in 2..Len(waiting_tasks) :
                    waiting_tasks'[i] = waiting_tasks[k]
    BY <2>1, <2>2, RemovedFacts
  <2>4. AsyncTypeOK'
    BY <1>1, <2>1, <2>3 DEF TasksInv, AsyncTypeOK, Service!TypeOK
  <2>5. ArraysInv'
    <3>1. /\ ToSet(waiting_tasks) \cap ToSet(completed_tasks) = {}
          /\ (ToSet(waiting_tasks) \cup ToSet(completed_tasks))
               \cap (fetched \cup cancelled) = {}
          /\ fetched \cap cancelled = {}
          /\ ToSet(waiting_tasks) \cup ToSet(completed_tasks) \cup fetched \cup cancelled
               = {k \in Tasks : k < next_task_id}
      BY DEF TasksInv, ArraysInv
    <3>2. /\ ToSet(waiting_tasks') \cap ToSet(completed_tasks) = {}
          /\ (ToSet(waiting_tasks') \cup ToSet(completed_tasks))
               \cap (fetched \cup cancelled') = {}
          /\ fetched \cap cancelled' = {}
          /\ ToSet(waiting_tasks') \cup ToSet(completed_tasks) \cup fetched \cup cancelled'
               = ToSet(waiting_tasks) \cup ToSet(completed_tasks) \cup fetched \cup cancelled
      BY <2>1, <2>2, <2>3, <3>1
    <3> QED
      BY <1>1, <2>3, <3>1, <3>2 DEF TasksInv, ArraysInv
  <2>6. ASSUME unmarked = {}, modified = {} PROVE Progress'
    <3>1. waiting_tasks # <<>>
      BY <2>2, NothingInIt
    <3>2. /\ FirstAtWork
          /\ \A i \in 2..Len(waiting_tasks) : status[waiting_tasks[i]] = "new"
          /\ \A i \in 1..Len(waiting_tasks) :
                status[waiting_tasks[i]] = "new" => waiting_tasks[i] \in stmt
      BY <2>6, <3>1 DEF TasksInv, ProgressInv, Progress
    <3>3. id # Head(waiting_tasks)
      BY <1>4, <3>2 DEF FirstAtWork
    <3>4. /\ waiting_tasks' # <<>> /\ Head(waiting_tasks') = Head(waiting_tasks)
          /\ \A i \in 2..Len(waiting_tasks') : \E k \in 2..Len(waiting_tasks) :
                waiting_tasks'[i] = waiting_tasks[k]
      BY <2>3, <3>1, <3>3
    <3>5. FirstAtWork'
      BY <1>1, <2>1, <3>2, <3>4 DEF FirstAtWork, Calling
    <3>6. ASSUME NEW i \in 1..Len(waiting_tasks'), status[waiting_tasks'[i]] = "new"
          PROVE  waiting_tasks'[i] \in stmt'
      <4>1. waiting_tasks'[i] \in ToSet(waiting_tasks) \ {id}
        BY <2>3, Elements
      <4>2. PICK k \in 1..Len(waiting_tasks) : waiting_tasks[k] = waiting_tasks'[i]
        BY <2>2, <4>1, Elements
      <4> QED
        BY <2>1, <3>2, <3>6, <4>1, <4>2
    <3>7. \A i \in 2..Len(waiting_tasks') : status'[waiting_tasks'[i]] = "new"
      BY <1>1, <3>2, <3>4
    <3> QED
      BY <1>1, <3>4, <3>5, <3>6, <3>7 DEF Progress
  <2> QED
    BY <1>1, <1>2, <2>1, <2>4, <2>5, <2>6 DEF TasksInv, ProgressInv
<1> QED
  BY <1>3, <1>4

(* The statement of a task is modified.                                    *)
LEMMA ModifyKeeps ==
    ASSUME TasksInv, NEW j \in Tasks, Modify(j)
    PROVE  TasksInv' /\ InTurn
<1>1. /\ stmt' = stmt \ {j}
      /\ modified' = IF status[j] \in {"new", "queued"} THEN modified \cup {j} ELSE modified
      /\ UNCHANGED <<next_task_id, waiting_tasks, completed_tasks, being_processed,
                     async_tasks, submitter, open, status, queue, call, requester, fetched,
                     cancelled, unmarked>>
  BY DEF Modify, provider, service
<1>2. AsyncTypeOK'
  BY <1>1 DEF TasksInv, AsyncTypeOK, Service!TypeOK
<1>3. ArraysInv' /\ CallInv' /\ JobsInv' /\ InTurn
  BY <1>1 DEF TasksInv, ArraysInv, CallInv, Calling, JobsInv, InTurn
<1>4. ASSUME unmarked' = {}, modified' = {} PROVE Progress'
  <2>1. Progress /\ status[j] # "new"
    BY <1>1, <1>4 DEF TasksInv, ProgressInv
  <2>2. \A i \in 1..Len(waiting_tasks) :
           status[waiting_tasks[i]] = "new" => waiting_tasks[i] \in stmt'
    BY <1>1, <2>1 DEF Progress
  <2> QED
    BY <1>1, <2>1, <2>2 DEF Progress, FirstAtWork, Calling
<1> QED
  BY <1>2, <1>3, <1>4 DEF TasksInv, ProgressInv

(* The worker starts or finishes job j.                                    *)
LEMMA JobStepKeeps ==
    ASSUME TasksInv, NEW j \in Tasks, NEW to \in {"running", "done"},
           status[j] \in {"queued", "running", "done"} \/ j \in ToSet(queue),
           status' = [status EXCEPT ![j] = to],
           queue' \in {queue, Tail(queue)}, queue = <<>> => queue' = queue,
           UNCHANGED <<connection, provider, call, taskHistory>>
    PROVE  TasksInv' /\ InTurn
<1>1. UNCHANGED <<next_task_id, waiting_tasks, completed_tasks, being_processed, stmt,
                  async_tasks, submitter, open, call, requester, fetched, cancelled,
                  unmarked, modified>>
  BY DEF connection, provider, taskHistory
<1>2. /\ status \in [Tasks -> Service!States] /\ queue \in Seq(Tasks)
      /\ \A i \in 1..Len(queue) : queue[i] \in Tasks /\ status[queue[i]] # "new"
      /\ waiting_tasks \in Seq(Tasks)
      /\ \A i \in 1..Len(waiting_tasks) : waiting_tasks[i] \in Tasks
  BY ArraysFacts DEF Jobs
<1>3. /\ status' \in [Tasks -> Service!States] /\ status'[j] = to
      /\ \A k \in Tasks : k # j => status'[k] = status[k]
  BY <1>2 DEF Service!States
<1>4. status[j] # "new"
  <2>1. CASE j \in ToSet(queue)
    BY <1>2, <2>1, Elements
  <2> QED
    BY <2>1
<1>5. \A k \in Tasks : status[k] = "new" <=> status'[k] = "new"
  BY <1>3, <1>4
<1>6. /\ queue' \in Seq(Tasks)
      /\ \A i \in 1..Len(queue') : \E k \in 1..Len(queue) : queue'[i] = queue[k]
  <2>1. CASE queue' = queue
    BY <1>2, <2>1
  <2>2. CASE queue' = Tail(queue) /\ queue # <<>>
    <3>1. /\ queue' \in Seq(Tasks) /\ Len(queue') = Len(queue) - 1
          /\ \A i \in 1..Len(queue') : queue'[i] = queue[i + 1] /\ i + 1 \in 1..Len(queue)
      BY <1>2, <2>2
    <3> QED
      BY <3>1
  <2> QED
    BY <2>1, <2>2
<1>7. AsyncTypeOK'
  <2>1. Service!TypeOK'
    BY <1>3, <1>6 DEF Service!TypeOK
  <2> QED
    BY <1>1, <2>1 DEF TasksInv, AsyncTypeOK
<1>8. ArraysInv' /\ CallInv'
  BY <1>1 DEF TasksInv, ArraysInv, CallInv, Calling
<1>9. InTurn
  BY <1>3, <1>4 DEF InTurn
<1>10. JobsInv'
  <2>1. \A i \in 1..Len(queue') : status'[queue'[i]] # "new"
    BY <1>2, <1>5, <1>6
  <2>2. \A k \in Tasks : k >= next_task_id => status'[k] = "new"
    BY <1>5 DEF TasksInv, JobsInv
  <2> QED
    BY <1>1, <2>1, <2>2 DEF JobsInv
<1>11. ASSUME unmarked = {}, modified = {} PROVE Progress'
  <2>1. Progress
    BY <1>11 DEF TasksInv, ProgressInv
  <2>2. ASSUME waiting_tasks # <<>> PROVE FirstAtWork'
    <3>1. Head(waiting_tasks) \in Tasks
      BY <1>2, <2>2
    <3>2. CASE Head(waiting_tasks) = j
      BY <1>1, <1>3, <2>1, <2>2, <3>2 DEF Progress, FirstAtWork
    <3>3. CASE Head(waiting_tasks) # j
      BY <1>1, <1>3, <2>1, <2>2, <3>1, <3>3 DEF Progress, FirstAtWork, Calling
    <3> QED
      BY <3>2, <3>3
  <2>3. \A i \in 2..Len(waiting_tasks) : i \in 1..Len(waiting_tasks)
    BY <1>2
  <2> QED
    BY <1>1, <1>2, <1>5, <2>1, <2>2, <2>3 DEF Progress
<1> QED
  BY <1>1, <1>7, <1>8, <1>9, <1>10, <1>11 DEF TasksInv, ProgressInv

(* Steps that change nothing TasksInv speaks of, except perhaps open.      *)
LEMMA QuietStepKeeps ==
    ASSUME TasksInv,
           UNCHANGED <<connection, async_tasks, submitter, service, call, taskHistory>>,
           open' \in {"open", "subclosed", "closed"}
    PROVE  TasksInv' /\ InTurn
<1>1. UNCHANGED <<next_task_id, waiting_tasks, completed_tasks, being_processed, stmt,
                  async_tasks, submitter, status, queue, call, requester, fetched,
                  cancelled, unmarked, modified>>
  BY DEF connection, service, taskHistory
<1>2. AsyncTypeOK'
  BY <1>1 DEF TasksInv, AsyncTypeOK, Service!TypeOK
<1>3. ArraysInv' /\ CallInv' /\ JobsInv' /\ InTurn
  BY <1>1 DEF TasksInv, ArraysInv, CallInv, Calling, JobsInv, InTurn
<1>4. ProgressInv'
  BY <1>1 DEF TasksInv, ProgressInv, Progress, FirstAtWork, Calling
<1> QED
  BY <1>2, <1>3, <1>4 DEF TasksInv

(* No step breaks TasksInv, and every step keeps the order.                *)
LEMMA StepsKeep == ASSUME TasksInv, [AsyncNext]_asyncVars PROVE TasksInv' /\ InTurn
<1>1. ASSUME NEW t \in Callers, Execute(t) PROVE TasksInv' /\ InTurn
  BY <1>1, ExecuteKeeps
<1>2. ASSUME NEW t \in Callers, NEW id \in Tasks, FetchResult(t, id) PROVE TasksInv' /\ InTurn
  BY <1>2, FetchResultKeeps
<1>3. CASE Callback
  BY <1>3, CallbackKeeps
<1>4. CASE Lookup
  BY <1>4, LookupKeeps
<1>5. ASSUME NEW j \in Tasks, AsyncCancel(j) PROVE TasksInv' /\ InTurn
  BY <1>5, AsyncCancelKeeps
<1>6. ASSUME NEW j \in Tasks, Modify(j) PROVE TasksInv' /\ InTurn
  BY <1>6, ModifyKeeps
<1>7. ASSUME NEW j \in Tasks, WorkerFinish(j) PROVE TasksInv' /\ InTurn
  <2>1. /\ status[j] = "running" /\ status' = [status EXCEPT ![j] = "done"]
        /\ queue' = queue /\ UNCHANGED <<connection, provider, call, taskHistory>>
    BY <1>7 DEF WorkerFinish, Service!Finish
  <2> QED
    BY <2>1, JobStepKeeps
<1>8. CASE WorkerStart
  <2>1. /\ queue # <<>> /\ status' = [status EXCEPT ![Head(queue)] = "running"]
        /\ queue' = Tail(queue) /\ UNCHANGED <<connection, provider, call, taskHistory>>
    BY <1>8 DEF WorkerStart, Service!Start
  <2>2. Head(queue) \in Tasks /\ Head(queue) \in ToSet(queue)
    <3>1. queue \in Seq(Tasks) /\ 1 \in 1..Len(queue) /\ Head(queue) = queue[1]
      BY <2>1, ArraysFacts DEF Jobs
    <3> QED
      BY <3>1, Elements
  <2> QED
    BY <2>1, <2>2, JobStepKeeps
<1>9. CASE SubCloses
  BY <1>9, QuietStepKeeps DEF SubCloses
<1>10. CASE Close
  BY <1>10, QuietStepKeeps DEF Close
<1>11. CASE UNCHANGED asyncVars
  BY <1>11, QuietStepKeeps, ArraysFacts DEF asyncVars, provider
<1> QED
  BY <1>1, <1>2, <1>3, <1>4, <1>5, <1>6, <1>7, <1>8, <1>9, <1>10, <1>11 DEF AsyncNext

-----------------------------------------------------------------------------
(* TasksInv holds in every state.                                          *)
THEOREM TasksInvariance == AsyncSpec => []TasksInv
<1>1. TasksInv /\ [AsyncNext]_asyncVars => TasksInv'
  BY StepsKeep
<1> QED
  BY <1>1, TasksInitInv, PTL DEF AsyncSpec

(* A task is at one index of an array without repetitions, or at none.     *)
LEMMA CountFacts ==
    ASSUME NEW S, NEW q \in Seq(S), NoRepeats(q), NEW j
    PROVE  Cardinality({i \in DOMAIN q : q[i] = j}) = IF j \in ToSet(q) THEN 1 ELSE 0
<1> DEFINE I == {i \in DOMAIN q : q[i] = j}
<1>1. /\ DOMAIN q = 1..Len(q)
      /\ j \in ToSet(q) => \E i \in 1..Len(q) : q[i] = j
      /\ \A i \in 1..Len(q) : q[i] \in ToSet(q)
  BY Elements
<1>2. CASE j \in ToSet(q)
  <2>1. PICK i \in 1..Len(q) : q[i] = j
    BY <1>1, <1>2
  <2>2. I = {i}
    BY <1>1, <2>1 DEF NoRepeats
  <2> QED
    BY <1>2, <2>2, FS_Singleton
<1>3. CASE j \notin ToSet(q)
  <2>1. I = {}
    BY <1>1, <1>3
  <2> QED
    BY <1>3, <2>1, FS_EmptySet
<1> QED
  BY <1>2, <1>3

(* A task is in one place only: waiting, completed, fetched or cancelled;  *)
(* and the first of those that wait is at work: TasksSound.                *)
LEMMA TasksSoundFollows == TasksInv => TasksSound
<1> SUFFICES ASSUME TasksInv PROVE TasksSound
  OBVIOUS
<1>1. ASSUME NEW j \in Tasks
      PROVE  LET places ==
                   <<Cardinality({i \in DOMAIN waiting_tasks : waiting_tasks[i] = j}),
                     Cardinality({i \in DOMAIN completed_tasks : completed_tasks[i] = j}),
                     IF j \in fetched THEN 1 ELSE 0,
                     IF j \in cancelled THEN 1 ELSE 0>>
             IN  places[1] + places[2] + places[3] + places[4]
                   = IF j < next_task_id THEN 1 ELSE 0
  <2> DEFINE w == Cardinality({i \in DOMAIN waiting_tasks : waiting_tasks[i] = j})
             c == Cardinality({i \in DOMAIN completed_tasks : completed_tasks[i] = j})
  <2>1. /\ waiting_tasks \in Seq(Tasks) /\ NoRepeats(waiting_tasks)
        /\ completed_tasks \in Seq(Tasks) /\ NoRepeats(completed_tasks)
    BY ArraysFacts DEF TasksInv, ArraysInv
  <2>2. w = IF j \in ToSet(waiting_tasks) THEN 1 ELSE 0
    BY <2>1, CountFacts
  <2>3. c = IF j \in ToSet(completed_tasks) THEN 1 ELSE 0
    BY <2>1, CountFacts
  <2> HIDE DEF w, c
  <2>4. /\ ToSet(waiting_tasks) \cap ToSet(completed_tasks) = {}
        /\ (ToSet(waiting_tasks) \cup ToSet(completed_tasks))
             \cap (fetched \cup cancelled) = {}
        /\ fetched \cap cancelled = {}
        /\ j < next_task_id <=>
             j \in ToSet(waiting_tasks) \cup ToSet(completed_tasks) \cup fetched \cup cancelled
    BY DEF TasksInv, ArraysInv
  <2>5. w + c + (IF j \in fetched THEN 1 ELSE 0) + (IF j \in cancelled THEN 1 ELSE 0)
          = IF j < next_task_id THEN 1 ELSE 0
    BY <2>4, <2>2, <2>3
  <2> QED
    BY <2>5 DEF w, c
<1>2. TaskInOnePlace
  BY <1>1 DEF TaskInOnePlace
<1>3. FirstIsInProgress
  BY DEF TasksInv, ProgressInv, Progress, FirstAtWork, Calling, FirstIsInProgress
<1> QED
  BY <1>2, <1>3 DEF TasksInv, TasksSound

(* TasksSound (async_stmt_exec_cb, get_task_index, async_cancel): always.  *)
THEOREM TasksAreSound == AsyncSpec => []TasksSound
BY TasksInvariance, TasksSoundFollows, PTL

(* Statements are executed in the order in which they were requested: a    *)
(* task is handed to the worker when no task requested before it waits.    *)
THEOREM TasksRunInOrder == AsyncSpec => ExecutedInOrder
<1>1. ASSUME TasksInv, TasksInv', [AsyncNext]_asyncVars, NEW j \in Tasks, NEW k \in Tasks,
             j < k, status[k] = "new", status'[k] = "queued"
      PROVE  j \notin ToSet(waiting_tasks')
  <2>1. waiting_tasks' # <<>> /\ k = Head(waiting_tasks')
    BY <1>1, StepsKeep DEF InTurn
  <2>2. waiting_tasks' \in Seq(Tasks) /\ Increasing(waiting_tasks')
    BY <1>1 DEF TasksInv, AsyncTypeOK, ArraysInv
  <2> SUFFICES ASSUME j \in ToSet(waiting_tasks') PROVE FALSE
    OBVIOUS
  <2>3. PICK i \in 1..Len(waiting_tasks') : waiting_tasks'[i] = j
    BY <2>2, Elements
  <2>4. 1 \in 1..Len(waiting_tasks') /\ waiting_tasks'[1] = k
    BY <2>1, <2>2
  <2>5. i # 1 => k < j
    BY <2>2, <2>3, <2>4 DEF Increasing
  <2> QED
    BY <1>1, <2>3, <2>4, <2>5, MaxTasksAssumption DEF Tasks
<1>2. TasksInv /\ TasksInv' /\ [AsyncNext]_asyncVars =>
        [\A j, k \in Tasks :
           j < k /\ status[k] = "new" /\ status'[k] = "queued"
             => status[j] = "collected" \/ j \notin ToSet(waiting_tasks')]_asyncVars
  BY <1>1
<1> QED
  BY <1>2, TasksInvariance, PTL DEF AsyncSpec, ExecutedInOrder
=============================================================================
