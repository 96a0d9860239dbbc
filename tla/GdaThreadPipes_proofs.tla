------------------------- MODULE GdaThreadPipes_proofs -------------------------
(***************************************************************************)
(* Proofs about the notification pipes, for any number of pipes, jobs,     *)
(* signals and emitting threads: how often a pipe is referred to is what   *)
(* its counter says, and nothing is put in the owner's queue without the   *)
(* owner being told of it through the channel it waits for.                *)
(***************************************************************************)
EXTENDS GdaThreadPipes, FunctionTheorems, FiniteSetTheorems, TLAPS

-----------------------------------------------------------------------------
(* Counting.                                                               *)
One(b) == IF b THEN 1 ELSE 0

(* Elements that are one to one are as many.                               *)
LEMMA SameCount ==
    ASSUME NEW X, IsFiniteSet(X), NEW T, NEW f \in [X -> T],
           \A a, b \in X : f[a] = f[b] => a = b, \A t \in T : \E x \in X : f[x] = t
    PROVE  IsFiniteSet(T) /\ Cardinality(T) = Cardinality(X)
<1>1. f \in Bijection(X, T)
  BY Fun_IsBij
<1>2. ExistsBijection(X, T)
  BY <1>1 DEF ExistsBijection
<1> QED BY <1>2, FS_Bijection

(* The elements of two disjoint sets.                                      *)
LEMMA DisjointCount ==
    ASSUME NEW S, NEW T, IsFiniteSet(S), IsFiniteSet(T), S \cap T = {}
    PROVE  /\ IsFiniteSet(S \cup T)
           /\ Cardinality(S \cup T) = Cardinality(S) + Cardinality(T)
           /\ Cardinality(S) \in Nat /\ Cardinality(T) \in Nat
<1>1. Cardinality(S) \in Nat /\ Cardinality(T) \in Nat /\ Cardinality(S \cap T) = 0
  BY FS_CardinalityType, FS_EmptySet
<1>2. /\ IsFiniteSet(S \cup T)
      /\ Cardinality(S \cup T) = Cardinality(S) + Cardinality(T) - Cardinality(S \cap T)
  BY FS_Union
<1> QED BY <1>1, <1>2

(* One taken away.                                                         *)
LEMMA RemovedCount ==
    ASSUME NEW S, IsFiniteSet(S), NEW x, NEW T, T = S \ {x}
    PROVE  Cardinality(T) = Cardinality(S) - One(x \in S)
<1>1. Cardinality(S) \in Nat
  BY FS_CardinalityType
<1> QED BY <1>1, FS_RemoveElement DEF One

(* One added.                                                              *)
LEMMA AddedCount ==
    ASSUME NEW S, IsFiniteSet(S), NEW x, x \notin S
    PROVE  Cardinality(S \cup {x}) = Cardinality(S) + 1
  BY FS_AddElement

(* There are only so many jobs, specs and writers.                         *)
LEMMA FiniteOnes ==
    /\ IsFiniteSet(Jobs) /\ IsFiniteSet(Specs) /\ IsFiniteSet(Writers)
<1>1. IsFiniteSet(Jobs)
  BY BoundsAssumption, FS_Interval DEF Jobs
<1>2. IsFiniteSet(Writers)
  <2>1. IsFiniteSet(Others \cup {Worker}) /\ Writers = Others \cup {Worker}
    BY NamesAssumption, FS_AddElement DEF Writers
  <2> QED BY <2>1
<1> QED BY <1>1, <1>2, NamesAssumption

-----------------------------------------------------------------------------
(* The pointers to a pipe, by who has them.                                *)
WriterRef(w) == <<"writer", w, write[w].pipe>>

Held(h, t, J, S, W) ==
    (IF h THEN {HashRef} ELSE {}) \cup (IF t THEN {TdRef} ELSE {})
      \cup {JobRef(j) : j \in J} \cup {SpecRef(s) : s \in S}
      \cup {WriterRef(w) : w \in W}

HeldSum(p, h, t, J, S, W) ==
    One(h /\ pipes_hash = p) + One(t /\ notif = p)
      + Cardinality({j \in J : job_notif[j] = p})
      + Cardinality({s \in S : spec_notif[s] = p})
      + Cardinality({w \in W : write[w].pipe = p})

(* The pointers to one pipe, whoever has them, are counted by kind.        *)
LEMMA HeldCount ==
    ASSUME NEW p, NEW h \in BOOLEAN, NEW t \in BOOLEAN,
           NEW J \in SUBSET Jobs, NEW S \in SUBSET Specs, NEW W \in SUBSET Writers
    PROVE  Cardinality({r \in Held(h, t, J, S, W) : r[3] = p}) = HeldSum(p, h, t, J, S, W)
<1> DEFINE HT == IF h /\ pipes_hash = p THEN {HashRef} ELSE {}
           TT == IF t /\ notif = p THEN {TdRef} ELSE {}
           JP == {j \in J : job_notif[j] = p}
           SP == {s \in S : spec_notif[s] = p}
           WP == {w \in W : write[w].pipe = p}
           JT == {<<"job", j, p>> : j \in JP}
           ST == {<<"spec", s, p>> : s \in SP}
           WT == {<<"writer", w, p>> : w \in WP}
           All == {r \in Held(h, t, J, S, W) : r[3] = p}
<1>1. /\ IsFiniteSet(HT) /\ Cardinality(HT) = One(h /\ pipes_hash = p)
      /\ \A r \in HT : r[1] = "pipes_hash"
  <2>1. CASE h /\ pipes_hash = p
    <3>1. HT = {HashRef} /\ HashRef[1] = "pipes_hash"
      BY <2>1 DEF HashRef
    <3>2. One(h /\ pipes_hash = p) = 1
      BY <2>1 DEF One
    <3> HIDE DEF HT
    <3> QED BY <3>1, <3>2, FS_Singleton
  <2>2. CASE ~(h /\ pipes_hash = p)
    <3>1. HT = {} /\ One(h /\ pipes_hash = p) = 0
      BY <2>2 DEF One
    <3> HIDE DEF HT
    <3> QED BY <3>1, FS_EmptySet
  <2> QED BY <2>1, <2>2
<1>2. /\ IsFiniteSet(TT) /\ Cardinality(TT) = One(t /\ notif = p)
      /\ \A r \in TT : r[1] = "td"
  <2>1. CASE t /\ notif = p
    <3>1. TT = {TdRef} /\ TdRef[1] = "td"
      BY <2>1 DEF TdRef
    <3>2. One(t /\ notif = p) = 1
      BY <2>1 DEF One
    <3> HIDE DEF TT
    <3> QED BY <3>1, <3>2, FS_Singleton
  <2>2. CASE ~(t /\ notif = p)
    <3>1. TT = {} /\ One(t /\ notif = p) = 0
      BY <2>2 DEF One
    <3> HIDE DEF TT
    <3> QED BY <3>1, FS_EmptySet
  <2> QED BY <2>1, <2>2
<1>3. IsFiniteSet(JP) /\ IsFiniteSet(SP) /\ IsFiniteSet(WP)
  <2>1. JP \in SUBSET Jobs /\ SP \in SUBSET Specs /\ WP \in SUBSET Writers
    OBVIOUS
  <2> QED BY <2>1, FiniteOnes, FS_Subset
<1> HIDE DEF JP, SP, WP
<1>4. /\ IsFiniteSet(JT) /\ Cardinality(JT) = Cardinality(JP)
      /\ \A r \in JT : r[1] = "job"
  <2> DEFINE f == [j \in JP |-> <<"job", j, p>>]
  <2>1. /\ f \in [JP -> JT] /\ \A a, b \in JP : f[a] = f[b] => a = b
        /\ \A t1 \in JT : \E j \in JP : f[j] = t1
    OBVIOUS
  <2>2. \A r \in JT : r[1] = "job"
    OBVIOUS
  <2> HIDE DEF JT, f
  <2> QED BY <1>3, <2>1, <2>2, SameCount
<1>5. /\ IsFiniteSet(ST) /\ Cardinality(ST) = Cardinality(SP)
      /\ \A r \in ST : r[1] = "spec"
  <2> DEFINE f == [s \in SP |-> <<"spec", s, p>>]
  <2>1. /\ f \in [SP -> ST] /\ \A a, b \in SP : f[a] = f[b] => a = b
        /\ \A t1 \in ST : \E s \in SP : f[s] = t1
    OBVIOUS
  <2>2. \A r \in ST : r[1] = "spec"
    OBVIOUS
  <2> HIDE DEF ST, f
  <2> QED BY <1>3, <2>1, <2>2, SameCount
<1>6. /\ IsFiniteSet(WT) /\ Cardinality(WT) = Cardinality(WP)
      /\ \A r \in WT : r[1] = "writer"
  <2> DEFINE f == [w \in WP |-> <<"writer", w, p>>]
  <2>1. /\ f \in [WP -> WT] /\ \A a, b \in WP : f[a] = f[b] => a = b
        /\ \A t1 \in WT : \E w \in WP : f[w] = t1
    OBVIOUS
  <2>2. \A r \in WT : r[1] = "writer"
    OBVIOUS
  <2> HIDE DEF WT, f
  <2> QED BY <1>3, <2>1, <2>2, SameCount
<1>7. All = HT \cup TT \cup JT \cup ST \cup WT
  <2>1. ASSUME NEW r \in All PROVE r \in HT \cup TT \cup JT \cup ST \cup WT
    BY <2>1 DEF Held, HashRef, TdRef, JobRef, SpecRef, WriterRef, JP, SP, WP
  <2>2. ASSUME NEW r \in HT \cup TT \cup JT \cup ST \cup WT PROVE r \in All
    BY <2>2 DEF Held, HashRef, TdRef, JobRef, SpecRef, WriterRef, JP, SP, WP
  <2> QED BY <2>1, <2>2
<1> HIDE DEF HT, TT, JT, ST, WT, All
<1>8. /\ HT \cap TT = {} /\ (HT \cup TT) \cap JT = {}
      /\ (HT \cup TT \cup JT) \cap ST = {} /\ (HT \cup TT \cup JT \cup ST) \cap WT = {}
  BY <1>1, <1>2, <1>4, <1>5, <1>6
<1>9. /\ IsFiniteSet(HT \cup TT)
      /\ Cardinality(HT \cup TT) = Cardinality(HT) + Cardinality(TT)
  BY <1>1, <1>2, <1>8, DisjointCount
<1>10. /\ IsFiniteSet(HT \cup TT \cup JT)
       /\ Cardinality(HT \cup TT \cup JT) = Cardinality(HT \cup TT) + Cardinality(JT)
  BY <1>4, <1>8, <1>9, DisjointCount
<1>11. /\ IsFiniteSet(HT \cup TT \cup JT \cup ST)
       /\ Cardinality(HT \cup TT \cup JT \cup ST)
          = Cardinality(HT \cup TT \cup JT) + Cardinality(ST)
  BY <1>5, <1>8, <1>10, DisjointCount
<1>12. Cardinality(HT \cup TT \cup JT \cup ST \cup WT)
       = Cardinality(HT \cup TT \cup JT \cup ST) + Cardinality(WT)
  BY <1>6, <1>8, <1>11, DisjointCount
<1> QED BY <1>1, <1>2, <1>4, <1>5, <1>6, <1>7, <1>9, <1>10, <1>11, <1>12
        DEF HeldSum, JP, SP, WP, All

(* RefsCounted, with the pointers by who has them.                         *)
JobsTo(p) == {j \in Jobs : stage[j] # "freed" /\ job_notif[j] = p}
SpecsTo(p) == {s \in Specs : spec_refs[s] > 0 /\ spec_notif[s] = p}
WritersTo(p) == {w \in Writers : write[w].at # "report" /\ write[w].pipe = p}
RefSum(p) ==
    One(pipes_hash = p) + One(notif = p)
      + Cardinality(JobsTo(p)) + Cardinality(SpecsTo(p)) + Cardinality(WritersTo(p))
Counted == \A p \in Pipes : ref_count[p] = RefSum(p)

(* The sets that RefSum counts are finite.                                 *)
LEMMA FiniteTo ==
    ASSUME NEW p
    PROVE  /\ IsFiniteSet(JobsTo(p)) /\ IsFiniteSet(SpecsTo(p)) /\ IsFiniteSet(WritersTo(p))
           /\ Cardinality(JobsTo(p)) \in Nat /\ Cardinality(SpecsTo(p)) \in Nat
           /\ Cardinality(WritersTo(p)) \in Nat
<1>1. /\ JobsTo(p) \in SUBSET Jobs /\ SpecsTo(p) \in SUBSET Specs
      /\ WritersTo(p) \in SUBSET Writers
  BY DEF JobsTo, SpecsTo, WritersTo
<1>2. /\ IsFiniteSet(JobsTo(p)) /\ IsFiniteSet(SpecsTo(p)) /\ IsFiniteSet(WritersTo(p))
  BY <1>1, FiniteOnes, FS_Subset
<1> QED BY <1>2, FS_CardinalityType

(* RefSum counts the pointers of the model's Pointers.                     *)
LEMMA RefSumIsCount ==
    ASSUME NEW p
    PROVE  Cardinality({r \in Pointers : r[3] = p}) = RefSum(p)
<1> DEFINE J == {j \in Jobs : stage[j] # "freed"}
           S == {s \in Specs : spec_refs[s] > 0}
           W == {w \in Writers : write[w].at # "report"}
<1>1. Pointers = Held(TRUE, TRUE, J, S, W)
  BY DEF Pointers, Held, WriterRef
<1>2. /\ {j \in J : job_notif[j] = p} = JobsTo(p)
      /\ {s \in S : spec_notif[s] = p} = SpecsTo(p)
      /\ {w \in W : write[w].pipe = p} = WritersTo(p)
  BY DEF JobsTo, SpecsTo, WritersTo
<1>3. HeldSum(p, TRUE, TRUE, J, S, W) = RefSum(p)
  BY <1>2 DEF HeldSum, RefSum
<1>4. J \in SUBSET Jobs /\ S \in SUBSET Specs /\ W \in SUBSET Writers
  OBVIOUS
<1> HIDE DEF J, S, W
<1>5. Cardinality({r \in Held(TRUE, TRUE, J, S, W) : r[3] = p})
      = HeldSum(p, TRUE, TRUE, J, S, W)
  BY <1>4, HeldCount
<1> QED BY <1>1, <1>3, <1>5

(* Counted is the model's RefsCounted.                                     *)
LEMMA CountedIsRefsCounted == Counted <=> RefsCounted
  BY RefSumIsCount DEF Counted, RefsCounted

-----------------------------------------------------------------------------
(* The inductive invariant.                                                *)
Count(q, x) == Cardinality({i \in 1..Len(q) : q[i] = x})
In(x, q) == \E i \in 1..Len(q) : q[i] = x

(* A pipe whose writing end was closed had its reading end closed before.  *)
EndsOK ==
    /\ made \subseteq Pipes /\ writing \subseteq made /\ reading \subseteq writing
    /\ pipes_hash \in made \cup {NULL} /\ channel \in made \cup {NULL}
    /\ notif \in made \cup {NULL} /\ td \in BOOLEAN
    /\ td \/ notif = NULL
    /\ job_notif \in [Jobs -> made \cup {NULL}]
    /\ spec_notif \in [Specs -> made \cup {NULL}]

ContentOK ==
    /\ content \in [Pipes -> Seq(Items)]
    /\ \A p \in Pipes : Len(content[p]) <= Capacity

(* A job is in one place at a time.                                        *)
JobTypes ==
    /\ submitted \in 0..MaxJobs
    /\ stage \in [Jobs -> {"new", "queued", "cancelled", "running",
                           "pushed", "popped", "freed"}]
    /\ to_worker \in Seq(Jobs) /\ current \in Jobs \cup {NULL}
    /\ from_worker \in Seq(Items)
NewJobs ==
    \A j \in Jobs : /\ stage[j] = "new" <=> j > submitted
                    /\ stage[j] = "new" => job_notif[j] = NULL
QueuedJobs ==
    \A i \in 1..Len(to_worker) :
        /\ stage[to_worker[i]] \in {"queued", "cancelled"}
        /\ \A k \in 1..Len(to_worker) : to_worker[i] = to_worker[k] => i = k
CurrentJob == current # NULL => stage[current] = "running"
PushedJobs ==
    \A i \in 1..Len(from_worker) : from_worker[i] \in Jobs =>
        /\ stage[from_worker[i]] = "pushed"
        /\ \A k \in 1..Len(from_worker) : from_worker[i] = from_worker[k] => i = k
JobsOK == JobTypes /\ NewJobs /\ QueuedJobs /\ CurrentJob /\ PushedJobs

(* The signals that are connected, queued, or in a call.                   *)
SpecsOK ==
    /\ created \subseteq Specs /\ signals_list \subseteq created
    /\ \A i \in 1..Len(from_worker) : from_worker[i] \in Specs => from_worker[i] \in created
    /\ locked \in [Specs -> Writers \cup {NULL}]
    /\ pc \in Calls /\ subject \in Specs \cup {NULL} /\ may_block \in BOOLEAN
    /\ pc = "callback" => subject \in created
    /\ pc = "disconnect" => subject \in signals_list

(* A SignalSpec is there for the list it is in, for each signal in the     *)
(* queue, and for the one whose callback runs.                             *)
SpecSum(s) ==
    One(s \in signals_list) + Count(from_worker, s) + One(pc = "callback" /\ subject = s)
SpecsCounted == spec_refs \in [Specs -> Int] /\ \A s \in Specs : spec_refs[s] = SpecSum(s)

(* What a writer writes is a job's or, with its mutex, a connected         *)
(* signal's, and goes to the pipe of that.                                 *)
Writes(w, r) ==
    /\ r.at # "none" /\ (r.at = "write" => r.pipe # NULL)
    /\ r.at = "report" => r.pipe \in made \ writing
    /\ \/ /\ r.item \in Jobs /\ w = Worker
          /\ stage[r.item] # "new" /\ r.pipe = job_notif[r.item]
       \/ /\ r.item \in signals_list
          /\ locked[r.item] = w /\ r.pipe = spec_notif[r.item]
WritesOK ==
    /\ write \in [Writers -> [at : {"none", "test", "write", "failed", "report"},
                              pipe : Pipes \cup {NULL}, item : Items \cup {NULL}]]
    /\ \A w \in Writers : write[w] = NoWrite \/ Writes(w, write[w])

HistoryOK ==
    /\ told \subseteq Items /\ emits \in 0..MaxEmits
    /\ disposed \in BOOLEAN /\ broken \in {"no", "job", "descriptor"}

RefCountOK == ref_count \in [Pipes -> Int] /\ Counted

(* NothingMissed, for every pipe that can be written to: the owner may ask *)
(* for its channel later.                                                  *)
ToldOf(x) ==
    \/ x \in told \/ In(x, content[ItemPipe(x)])
    \/ \E w \in Writers : write[w].item = x
Notified ==
    \A x \in Items \ {Failure} :
        In(x, from_worker) /\ ItemPipe(x) \in writing => ToldOf(x)

(* FailureReported, also for the pipe a next ThreadData would have; and a  *)
(* failure there is, or that is dealt with, is of some pipe.               *)
FailureKnown ==
    \/ pc = "clean" \/ In(Failure, from_worker)
    \/ \E w \in Writers : write[w].at = "report"
Reported ==
    broken = "no" =>
    \A p \in made \ writing : p = notif \/ p = pipes_hash => FailureKnown
SomeFailed == \E p \in made : p \notin writing
FailedOne ==
    /\ pc = "clean" \/ In(Failure, from_worker) => SomeFailed
    /\ channel = NULL \/ channel = pipes_hash \/ SomeFailed
    /\ pc = "unset" => channel = NULL

Owned == EndsOK /\ ContentOK /\ JobsOK /\ SpecsOK /\ WritesOK /\ HistoryOK
IInv == Owned /\ SpecsCounted /\ RefCountOK /\ Notified /\ Reported /\ FailedOne

(* What is counted in a queue is finite.                                   *)
LEMMA CountNat ==
    ASSUME NEW S, NEW q \in Seq(S), NEW x
    PROVE  Count(q, x) \in Nat /\ IsFiniteSet({i \in 1..Len(q) : q[i] = x})
<1>1. IsFiniteSet(1..Len(q))
  BY FS_Interval
<1>2. {i \in 1..Len(q) : q[i] = x} \in SUBSET (1..Len(q))
  OBVIOUS
<1>3. IsFiniteSet({i \in 1..Len(q) : q[i] = x})
  BY <1>1, <1>2, FS_Subset
<1> QED BY <1>3, FS_CardinalityType DEF Count

(* One more at the end.                                                    *)
LEMMA CountAppend ==
    ASSUME NEW S, NEW q \in Seq(S), NEW e \in S, NEW x
    PROVE  Count(Append(q, e), x) = Count(q, x) + One(e = x)
<1> DEFINE A == {i \in 1..Len(q) : q[i] = x}
           B == {i \in 1..Len(Append(q, e)) : Append(q, e)[i] = x}
<1>1. IsFiniteSet(A) /\ Cardinality(A) \in Nat
  BY CountNat DEF Count
<1>2. /\ Len(Append(q, e)) = Len(q) + 1 /\ Len(q) \in Nat
      /\ \A i \in 1..Len(q) : Append(q, e)[i] = q[i]
      /\ Append(q, e)[Len(q) + 1] = e
  OBVIOUS
<1>3. CASE e = x
  <2>1. B = A \cup {Len(q) + 1} /\ Len(q) + 1 \notin A
    BY <1>2, <1>3
  <2> HIDE DEF A, B
  <2>2. Cardinality(B) = Cardinality(A) + 1
    BY <1>1, <2>1, FS_AddElement
  <2> QED BY <1>3, <2>2 DEF Count, One, A, B
<1>4. CASE e # x
  <2>1. B = A
    BY <1>2, <1>4
  <2>2. One(e = x) = 0 /\ Cardinality(B) = Cardinality(A)
    BY <1>4, <2>1 DEF One
  <2> HIDE DEF A, B
  <2>3. Cardinality(B) = Cardinality(A) + One(e = x)
    BY <1>1, <2>2
  <2> QED BY <2>3 DEF Count, A, B
<1> QED BY <1>3, <1>4

(* One less at the head.                                                   *)
LEMMA CountTail ==
    ASSUME NEW S, NEW q \in Seq(S), q # <<>>, NEW x
    PROVE  Count(q, x) = Count(Tail(q), x) + One(Head(q) = x)
<1> DEFINE A == {i \in 1..Len(q) : q[i] = x}
           B == {i \in 1..Len(Tail(q)) : Tail(q)[i] = x}
           f == [i \in B |-> i + 1]
<1>1. Tail(q) \in Seq(S) /\ IsFiniteSet(B) /\ IsFiniteSet(A) /\ Cardinality(A) \in Nat
  <2>1. Tail(q) \in Seq(S)
    OBVIOUS
  <2> QED BY <2>1, CountNat DEF Count
<1>2. /\ Len(Tail(q)) = Len(q) - 1 /\ Len(q) \in Nat /\ Len(q) > 0 /\ Head(q) = q[1]
      /\ \A i \in 1..(Len(q) - 1) : Tail(q)[i] = q[i + 1]
  OBVIOUS
<1>3. /\ f \in [B -> A \ {1}] /\ \A a, b \in B : f[a] = f[b] => a = b
      /\ \A t \in A \ {1} : \E i \in B : f[i] = t
  <2>1. \A i \in B : i \in Nat /\ i + 1 \in A \ {1}
    BY <1>2
  <2>2. \A t \in A \ {1} : t - 1 \in B /\ (t - 1) + 1 = t
    BY <1>2
  <2> HIDE DEF A, B
  <2>3. \A t \in A \ {1} : \E i \in B : f[i] = t
    BY <2>2
  <2> QED BY <2>1, <2>3
<1>4. 1 \in A <=> Head(q) = x
  BY <1>2
<1> HIDE DEF A, B, f
<1>5. Cardinality(A \ {1}) = Cardinality(B)
  BY <1>1, <1>3, SameCount
<1>6. Cardinality(A \ {1}) = Cardinality(A) - One(1 \in A)
  BY <1>1, RemovedCount
<1>7. Cardinality(A) = Cardinality(B) + One(Head(q) = x)
  BY <1>1, <1>4, <1>5, <1>6 DEF One
<1> QED BY <1>7 DEF Count, A, B

(* What is in a queue is counted.                                          *)
LEMMA CountIn ==
    ASSUME NEW S, NEW q \in Seq(S), NEW i \in 1..Len(q)
    PROVE  Count(q, q[i]) > 0
<1> DEFINE A == {k \in 1..Len(q) : q[k] = q[i]}
<1>1. IsFiniteSet(A) /\ A # {} /\ Cardinality(A) \in Nat
  BY CountNat DEF Count
<1>2. Cardinality(A) # 0
  BY <1>1, FS_EmptySet
<1> QED BY <1>1, <1>2 DEF Count

(* IInv holds at first.                                                    *)
LEMMA InitIInv == Init => IInv
<1> SUFFICES ASSUME Init PROVE IInv
  OBVIOUS
<1> USE DEF Init
<1>1. EndsOK
  BY DEF EndsOK
<1>2. ContentOK
  BY BoundsAssumption DEF ContentOK
<1>3. JobsOK
  BY BoundsAssumption
     DEF JobsOK, JobTypes, NewJobs, QueuedJobs, CurrentJob, PushedJobs, Jobs
<1>4. SpecsOK
  <2>1. may_block \in BOOLEAN
    BY Zenon
  <2> QED BY <2>1 DEF SpecsOK, Calls
<1>5. HistoryOK
  <2>1. disposed \in BOOLEAN
    BY Zenon
  <2>2. emits \in 0..MaxEmits /\ told = {} /\ broken = "no"
    BY BoundsAssumption
  <2> QED BY <2>1, <2>2, Zenon DEF HistoryOK
<1>6. WritesOK
  BY DEF WritesOK, NoWrite
<1>7. SpecsCounted
  <2>1. {i \in 1..Len(from_worker) : from_worker[i] = 1} = {} /\ 1..Len(from_worker) = {}
    OBVIOUS
  <2>2. \A s : {i \in 1..Len(from_worker) : from_worker[i] = s} = {}
    BY <2>1
  <2>3. \A s : Count(from_worker, s) = 0
    BY <2>2, FS_EmptySet DEF Count
  <2> QED BY <2>3 DEF SpecsCounted, SpecSum, One
<1>8. RefCountOK
  <2>1. ASSUME NEW p \in Pipes
        PROVE  JobsTo(p) = {} /\ SpecsTo(p) = {} /\ WritersTo(p) = {}
    BY NamesAssumption DEF JobsTo, SpecsTo, WritersTo, NoWrite
  <2>2. \A p \in Pipes : p # NULL
    BY NamesAssumption
  <2>3. ASSUME NEW p \in Pipes PROVE RefSum(p) = 0
    <3>1. /\ Cardinality(JobsTo(p)) = 0 /\ Cardinality(SpecsTo(p)) = 0
          /\ Cardinality(WritersTo(p)) = 0
      BY <2>1, FS_EmptySet
    <3>2. One(pipes_hash = p) = 0 /\ One(notif = p) = 0
      BY <2>2 DEF One
    <3> QED BY <3>1, <3>2 DEF RefSum
  <2> QED BY <2>3 DEF RefCountOK, Counted
<1>9. Notified /\ Reported /\ FailedOne
  BY DEF Notified, Reported, FailedOne, In
<1> QED BY <1>1, <1>2, <1>3, <1>4, <1>6, <1>7, <1>8, <1>9, <1>5 DEF IInv, Owned

-----------------------------------------------------------------------------
(* What a step does to each part of the invariant.                         *)

(* No step breaks EndsOK.                                                  *)
LEMMA EndsStep ==
    ASSUME EndsOK, [Next]_vars
    PROVE  EndsOK'
<1> USE DEF channelVars, tdVars, endVars, jobVars, specVars, callVars
<1>1. CASE \/ Read \/ Iterate \/ PopNothing \/ Pop \/ CallbackReturns \/ DisposeCalled
           \/ WorkerPop \/ WorkerReply
           \/ UNCHANGED vars
  BY <1>1 DEF Read, Iterate, PopNothing, Pop, CallbackReturns, DisposeCalled, Enter,
              WorkerPop, WorkerReply, vars, EndsOK
<1>2. CASE UnsetChannel \/ Shutdown
  BY <1>2 DEF UnsetChannel, Shutdown, EndsOK
<1>3. CASE GetChannel
  <2>1. UNCHANGED <<td, notif, job_notif, spec_notif>>
    BY <1>3 DEF GetChannel
  <2>2. CASE pipes_hash # NULL
    BY <1>3, <2>1, <2>2 DEF GetChannel, EndsOK
  <2>3. CASE pipes_hash = NULL
    <3> DEFINE p == CHOOSE q \in Pipes : q \notin made
    <3>1. p \in Pipes
      BY <1>3, <2>3 DEF GetChannel, EndsOK
    <3>2. /\ pipes_hash' = p /\ channel' = p /\ made' = made \cup {p}
          /\ reading' = reading \cup {p} /\ writing' = writing \cup {p}
      BY <1>3, <2>3 DEF GetChannel
    <3> HIDE DEF p
    <3> QED BY <2>1, <3>1, <3>2 DEF EndsOK
  <2> QED BY <2>2, <2>3
<1>4. ThreadDataNotif \in made \cup {NULL}
  BY DEF ThreadDataNotif, EndsOK
<1>5. CASE Execute
  BY <1>4, <1>5 DEF Execute, RefByThreadData, EndsOK
<1>6. ASSUME NEW s \in Specs, Connect(s) PROVE EndsOK'
  BY <1>4, <1>6 DEF Connect, RefByThreadData, EndsOK
<1>7. ASSUME NEW s \in Specs, DisconnectCalled(s) PROVE EndsOK'
  BY <1>7 DEF DisconnectCalled, Enter, EndsOK
<1>8. ASSUME NEW j \in Jobs, Cancel(j) PROVE EndsOK'
  BY <1>8 DEF Cancel, EndsOK
<1>9. ASSUME NEW gone, td' = ~gone, notif' = IF gone THEN NULL ELSE notif,
             UNCHANGED <<pipes_hash, channel, made, reading, writing, job_notif, spec_notif>>
      PROVE  EndsOK'
  <2>1. td' \in BOOLEAN /\ (td' \/ notif' = NULL)
    BY <1>9, Zenon
  <2> QED BY <1>9, <2>1 DEF EndsOK
<1>10. ASSUME NEW j \in Jobs, FetchResult(j) PROVE EndsOK'
  <2> DEFINE gone == Useless({j}, signals_list)
  <2>1. td' = ~gone /\ notif' = IF gone THEN NULL ELSE notif
    BY <1>10, Zenon DEF FetchResult
  <2>2. UNCHANGED <<pipes_hash, channel, made, reading, writing, job_notif, spec_notif>>
    BY <1>10 DEF FetchResult
  <2> HIDE DEF gone
  <2> QED BY <1>9, <2>1, <2>2
<1>11. CASE Disconnect
  <2> DEFINE gone == Useless({}, signals_list \ {subject})
  <2>1. td' = ~gone /\ notif' = IF gone THEN NULL ELSE notif
    BY <1>11, Zenon DEF Disconnect
  <2>2. UNCHANGED <<pipes_hash, channel, made, reading, writing, job_notif, spec_notif>>
    BY <1>11 DEF Disconnect
  <2> HIDE DEF gone
  <2> QED BY <1>9, <2>1, <2>2
<1>12. CASE CleanNotifications
  BY <1>12 DEF CleanNotifications, EndsOK
<1>13. CASE Dispose
  BY <1>13 DEF Dispose, EndsOK
<1>14. ASSUME NEW w \in Writers, NEW s \in Specs, Emit(w, s) PROVE EndsOK'
  BY <1>14 DEF Emit, EndsOK
<1>15. ASSUME NEW w \in Writers,
              NothingToWrite(w) \/ WriteBegin(w) \/ Write(w) \/ WriteElsewhere(w) \/ Report(w)
       PROVE  EndsOK'
  BY <1>15 DEF NothingToWrite, WriteBegin, Write, WriteElsewhere, Report, EndsOK
<1>16. ASSUME NEW w \in Writers, WriteFails(w) PROVE EndsOK'
  BY <1>16 DEF WriteFails, EndsOK
<1> QED BY <1>1, <1>2, <1>3, <1>5, <1>6, <1>7, <1>8, <1>10, <1>11, <1>12, <1>13, <1>14,
           <1>15, <1>16 DEF Next, Owner, OwnerReturns, Writing

(* No step breaks ContentOK.                                               *)
LEMMA ContentStep ==
    ASSUME ContentOK, SpecsOK, WritesOK, [Next]_vars
    PROVE  ContentOK'
<1> USE DEF channelVars, tdVars, endVars, jobVars, specVars, callVars
<1>1. ASSUME UNCHANGED content PROVE ContentOK'
  BY <1>1 DEF ContentOK
<1>2. CASE \/ GetChannel \/ UnsetChannel \/ Shutdown \/ Execute \/ Iterate \/ DisposeCalled
           \/ OwnerReturns \/ WorkerPop \/ WorkerReply \/ UNCHANGED vars
  <2>1. UNCHANGED content
    BY <1>2 DEF GetChannel, UnsetChannel, Shutdown, Execute, Iterate, DisposeCalled, Enter,
                OwnerReturns, Disconnect, CleanNotifications, Dispose, Pop, PopNothing,
                CallbackReturns, WorkerPop, WorkerReply, vars
  <2> QED BY <1>1, <2>1
<1>3. CASE Read
  <2>1. /\ channel \in Pipes => content[channel] \in Seq(Items)
        /\ content[channel] # <<>>
        /\ content' = [content EXCEPT ![channel] = Tail(@)]
    BY <1>3 DEF Read, ContentOK
  <2>2. ASSUME NEW p \in Pipes PROVE content'[p] \in Seq(Items) /\ Len(content'[p]) <= Capacity
    <3>1. CASE p = channel
      <4>1. /\ content'[p] = Tail(content[p]) /\ content[p] \in Seq(Items)
            /\ content[p] # <<>> /\ Len(content[p]) <= Capacity
        BY <2>1, <3>1 DEF ContentOK
      <4> QED BY <4>1, BoundsAssumption
    <3>2. CASE p # channel
      BY <2>1, <3>2 DEF ContentOK
    <3> QED BY <3>1, <3>2
  <2> QED BY <2>1, <2>2 DEF ContentOK
<1>4. ASSUME NEW s \in Specs, Connect(s) \/ DisconnectCalled(s) PROVE ContentOK'
  BY <1>1, <1>4 DEF Connect, DisconnectCalled, Enter
<1>5. ASSUME NEW j \in Jobs, Cancel(j) \/ FetchResult(j) PROVE ContentOK'
  BY <1>1, <1>5 DEF Cancel, FetchResult
<1>6. ASSUME NEW w \in Writers, NEW s \in Specs, Emit(w, s) PROVE ContentOK'
  BY <1>1, <1>6 DEF Emit
<1>7. ASSUME NEW w \in Writers, \/ NothingToWrite(w) \/ WriteBegin(w) \/ WriteElsewhere(w)
                               \/ WriteFails(w) \/ Report(w)
      PROVE  ContentOK'
  BY <1>1, <1>7 DEF NothingToWrite, WriteBegin, WriteElsewhere, WriteFails, Report
<1>8. ASSUME NEW w \in Writers, Write(w) PROVE ContentOK'
  <2> DEFINE p == write[w].pipe
             x == write[w].item
  <2>1. /\ write[w].at = "write" /\ ~Full(p)
        /\ content' = [content EXCEPT ![p] = Append(@, x)]
    BY <1>8 DEF Write
  <2>2. x \in Items
    BY <2>1 DEF WritesOK, Writes, NoWrite, Items, SpecsOK
  <2> HIDE DEF p, x
  <2>3. ASSUME NEW q \in Pipes PROVE content'[q] \in Seq(Items) /\ Len(content'[q]) <= Capacity
    <3>1. CASE q = p
      <4>1. /\ content'[q] = Append(content[q], x) /\ content[q] \in Seq(Items)
            /\ Len(content[q]) < Capacity
        BY <2>1, <3>1, BoundsAssumption DEF ContentOK, Full
      <4> QED BY <2>2, <4>1, BoundsAssumption
    <3>2. CASE q # p
      BY <2>1, <3>2 DEF ContentOK
    <3> QED BY <3>1, <3>2
  <2> QED BY <2>1, <2>3 DEF ContentOK
<1> QED BY <1>2, <1>3, <1>4, <1>5, <1>6, <1>7, <1>8 DEF Next, Owner, Writing

(* What is known of a queue when its head is taken.                        *)
LEMMA HeadTail ==
    ASSUME NEW S, NEW q \in Seq(S), q # <<>>
    PROVE  /\ Tail(q) \in Seq(S) /\ Head(q) \in S /\ Head(q) = q[1]
           /\ Len(Tail(q)) = Len(q) - 1 /\ Len(q) \in Nat /\ 1 \in 1..Len(q)
           /\ \A i \in 1..(Len(q) - 1) : /\ Tail(q)[i] = q[i + 1]
                                         /\ i + 1 \in 1..Len(q) /\ i + 1 # 1
  OBVIOUS

(* The elements of a queue with one appended.                              *)
LEMMA Appended ==
    ASSUME NEW S, NEW q \in Seq(S), NEW e \in S
    PROVE  /\ Append(q, e) \in Seq(S) /\ Len(Append(q, e)) = Len(q) + 1 /\ Len(q) \in Nat
           /\ \A i \in 1..Len(q) : Append(q, e)[i] = q[i]
           /\ Append(q, e)[Len(q) + 1] = e
           /\ \A i \in 1..Len(Append(q, e)) : i \in 1..Len(q) \/ i = Len(q) + 1
  OBVIOUS

(* What is in a queue with one appended.                                   *)
LEMMA InAppended ==
    ASSUME NEW S, NEW q \in Seq(S), NEW e \in S
    PROVE  \A x : In(x, Append(q, e)) <=> In(x, q) \/ x = e
<1> DEFINE r == Append(q, e)
<1>1. /\ Len(r) = Len(q) + 1 /\ Len(q) \in Nat /\ r[Len(q) + 1] = e
      /\ \A i \in 1..Len(q) : r[i] = q[i]
      /\ \A i \in 1..Len(r) : i \in 1..Len(q) \/ i = Len(q) + 1
  BY Appended
<1> HIDE DEF r
<1>2. ASSUME NEW x, In(x, r) PROVE In(x, q) \/ x = e
  BY <1>1, <1>2 DEF In
<1>3. ASSUME NEW x, In(x, q) \/ x = e PROVE In(x, r)
  BY <1>1, <1>3 DEF In
<1> QED BY <1>2, <1>3 DEF r

(* No step breaks JobsOK.                                                  *)
LEMMA JobsStep ==
    ASSUME JobsOK, WritesOK, [Next]_vars
    PROVE  JobsOK'
<1> USE DEF channelVars, tdVars, endVars, jobVars, specVars, callVars
<1>1. ASSUME UNCHANGED <<to_worker, current, stage, submitted, job_notif, from_worker>>
      PROVE  JobsOK'
  BY <1>1 DEF JobsOK, JobTypes, NewJobs, QueuedJobs, CurrentJob, PushedJobs
<1>2. CASE \/ GetChannel \/ UnsetChannel \/ Read \/ Shutdown \/ Iterate \/ DisposeCalled
           \/ Disconnect \/ CleanNotifications \/ PopNothing \/ CallbackReturns
           \/ UNCHANGED vars
  BY <1>1, <1>2 DEF GetChannel, UnsetChannel, Read, Shutdown, Iterate, DisposeCalled, Enter,
              Disconnect, CleanNotifications, PopNothing, CallbackReturns, vars
<1>3. ASSUME NEW s \in Specs, Connect(s) \/ DisconnectCalled(s) PROVE JobsOK'
  BY <1>1, <1>3 DEF Connect, DisconnectCalled, Enter
<1>4. ASSUME NEW w \in Writers, \/ NothingToWrite(w) \/ WriteBegin(w) \/ Write(w)
                               \/ WriteElsewhere(w) \/ WriteFails(w)
      PROVE  JobsOK'
  BY <1>1, <1>4 DEF NothingToWrite, WriteBegin, Write, WriteElsewhere, WriteFails
<1>5. CASE Execute
  <2> DEFINE j == submitted + 1
  <2>1. /\ submitted < MaxJobs /\ submitted' = j
        /\ stage' = [stage EXCEPT ![j] = "queued"]
        /\ job_notif' = [job_notif EXCEPT ![j] = ThreadDataNotif]
        /\ to_worker' = Append(to_worker, j)
        /\ UNCHANGED <<current, from_worker>>
    BY <1>5 DEF Execute
  <2>2. /\ j \in Jobs /\ j \in 0..MaxJobs /\ stage[j] = "new" /\ submitted \in Nat
        /\ stage \in [Jobs -> {"new", "queued", "cancelled", "running",
                                "pushed", "popped", "freed"}]
        /\ to_worker \in Seq(Jobs)
    BY <2>1, BoundsAssumption DEF JobsOK, JobTypes, NewJobs, Jobs
  <2>3. \A k \in Jobs : k \in Nat /\ k <= MaxJobs
    BY BoundsAssumption DEF Jobs
  <2>4. NewJobs'
    <3> SUFFICES ASSUME NEW k \in Jobs
                 PROVE  /\ stage'[k] = "new" <=> k > submitted'
                        /\ stage'[k] = "new" => job_notif'[k] = NULL
      BY DEF NewJobs
    <3>1. CASE k = j
      BY <2>1, <2>2, <3>1
    <3>2. CASE k # j
      <4>1. /\ stage'[k] = stage[k] /\ (stage[k] = "new" => job_notif'[k] = job_notif[k])
            /\ (k > submitted' <=> k > submitted)
        BY <2>1, <2>2, <2>3, <3>2
      <4> QED BY <4>1 DEF JobsOK, NewJobs
    <3> QED BY <3>1, <3>2
  <2> HIDE DEF j
  <2>5. /\ to_worker' \in Seq(Jobs) /\ Len(to_worker') = Len(to_worker) + 1
        /\ \A i \in 1..Len(to_worker) : to_worker'[i] = to_worker[i] /\ to_worker[i] # j
        /\ to_worker'[Len(to_worker) + 1] = j
        /\ \A i \in 1..Len(to_worker') : i \in 1..Len(to_worker) \/ i = Len(to_worker) + 1
    <3>1. \A i \in 1..Len(to_worker) : to_worker[i] # j
      BY <2>2 DEF JobsOK, QueuedJobs
    <3> QED BY <2>1, <2>2, <3>1, Appended
  <2>6. QueuedJobs'
    <3>1. \A k \in Jobs : k # j => stage'[k] = stage[k]
      BY <2>1, <2>2
    <3>2. stage'[j] = "queued"
      BY <2>1, <2>2
    <3>3. \A i \in 1..Len(to_worker) : to_worker[i] \in Jobs
      BY <2>2
    <3>4. \A i, k \in 1..Len(to_worker) : to_worker[i] = to_worker[k] => i = k
      BY DEF JobsOK, QueuedJobs
    <3>5. \A i, k \in 1..Len(to_worker') : to_worker'[i] = to_worker'[k] => i = k
      BY <2>5, <3>4
    <3>6. \A i \in 1..Len(to_worker') : stage'[to_worker'[i]] \in {"queued", "cancelled"}
      BY <2>5, <3>1, <3>2, <3>3 DEF JobsOK, QueuedJobs
    <3> QED BY <3>5, <3>6 DEF QueuedJobs
  <2>7. JobTypes'
    BY <2>1, <2>2, <2>5 DEF JobsOK, JobTypes
  <2>8. CurrentJob' /\ PushedJobs'
    BY <2>1, <2>2 DEF JobsOK, JobTypes, CurrentJob, PushedJobs
  <2> QED BY <2>4, <2>6, <2>7, <2>8 DEF JobsOK
<1>6. ASSUME NEW j \in Jobs, Cancel(j) PROVE JobsOK'
  BY <1>6 DEF Cancel, JobsOK, JobTypes, NewJobs, QueuedJobs, CurrentJob, PushedJobs
<1>7. ASSUME NEW j \in Jobs, FetchResult(j) PROVE JobsOK'
  BY <1>7 DEF FetchResult, JobsOK, JobTypes, NewJobs, QueuedJobs, CurrentJob, PushedJobs
<1>8. CASE Dispose
  <2>1. /\ \A j \in Jobs : stage'[j] = IF stage[j] = "popped" THEN "freed"
                                       ELSE IF stage[j] = "queued" THEN "cancelled"
                                       ELSE stage[j]
        /\ stage' = [j \in Jobs |-> stage'[j]]
        /\ UNCHANGED <<to_worker, current, submitted, job_notif, from_worker>>
    BY <1>8 DEF Dispose
  <2>2. stage' \in [Jobs -> {"new", "queued", "cancelled", "running",
                             "pushed", "popped", "freed"}]
    BY <2>1 DEF JobsOK, JobTypes
  <2>3. JobTypes' /\ NewJobs'
    BY <2>1, <2>2 DEF JobsOK, JobTypes, NewJobs
  <2>4. QueuedJobs'
    <3>1. \A j \in Jobs : stage[j] \in {"queued", "cancelled"} => stage'[j] = "cancelled"
      BY <2>1
    <3>2. \A i \in 1..Len(to_worker) : to_worker[i] \in Jobs
      BY DEF JobsOK, JobTypes
    <3> QED BY <2>1, <3>1, <3>2 DEF JobsOK, QueuedJobs
  <2>5. CurrentJob' /\ PushedJobs'
    BY <2>1 DEF JobsOK, JobTypes, CurrentJob, PushedJobs
  <2> QED BY <2>3, <2>4, <2>5 DEF JobsOK
<1>9. CASE Pop
  <2> DEFINE item == Head(from_worker)
  <2>1. /\ from_worker # <<>> /\ from_worker' = Tail(from_worker)
        /\ stage' = [j \in Jobs |-> IF j = item THEN "popped" ELSE stage[j]]
        /\ UNCHANGED <<to_worker, current, submitted, job_notif>>
    BY <1>9 DEF Pop
  <2>2. /\ from_worker \in Seq(Items) /\ to_worker \in Seq(Jobs)
        /\ current \in Jobs \cup {NULL}
        /\ stage \in [Jobs -> {"new", "queued", "cancelled", "running",
                                "pushed", "popped", "freed"}]
    BY DEF JobsOK, JobTypes
  <2>3. item = from_worker[1] /\ 1 \in 1..Len(from_worker) /\ Tail(from_worker) \in Seq(Items)
    BY <2>1, <2>2, HeadTail
  <2> HIDE DEF item
  <2>4. item \in Jobs => stage[item] = "pushed"
    BY <2>3 DEF JobsOK, PushedJobs
  <2>5. JobTypes'
    BY <2>1, <2>2, <2>3 DEF JobsOK, JobTypes
  <2>6. NewJobs' /\ QueuedJobs' /\ CurrentJob'
    BY <2>1, <2>2, <2>4, NamesAssumption DEF JobsOK, NewJobs, QueuedJobs, CurrentJob
  <2>7. PushedJobs'
    <3>1. /\ Len(from_worker') = Len(from_worker) - 1 /\ Len(from_worker) \in Nat
          /\ \A i \in 1..(Len(from_worker) - 1) : /\ from_worker'[i] = from_worker[i + 1]
                                                /\ i + 1 \in 1..Len(from_worker) /\ i + 1 # 1
      BY <2>1, <2>2, HeadTail
    <3> SUFFICES ASSUME NEW i \in 1..Len(from_worker'), from_worker'[i] \in Jobs
                 PROVE  /\ stage'[from_worker'[i]] = "pushed"
                        /\ \A k \in 1..Len(from_worker') :
                               from_worker'[i] = from_worker'[k] => i = k
      BY DEF PushedJobs
    <3>2. /\ from_worker'[i] = from_worker[i + 1] /\ i + 1 \in 1..Len(from_worker)
          /\ i + 1 # 1 /\ i \in Nat
      BY <3>1
    <3>3. from_worker[i + 1] # item
      BY <2>3, <3>2 DEF JobsOK, PushedJobs
    <3>4. stage'[from_worker'[i]] = "pushed"
      BY <2>1, <3>2, <3>3 DEF JobsOK, PushedJobs
    <3>5. ASSUME NEW k \in 1..Len(from_worker'), from_worker'[i] = from_worker'[k] PROVE i = k
      <4>1. k + 1 \in 1..Len(from_worker) /\ from_worker'[k] = from_worker[k + 1] /\ k \in Nat
        BY <3>1
      <4>2. i + 1 = k + 1
        BY <3>2, <3>5, <4>1 DEF JobsOK, PushedJobs
      <4> QED BY <3>2, <4>1, <4>2
    <3> QED BY <3>4, <3>5
  <2> QED BY <2>5, <2>6, <2>7 DEF JobsOK
<1>10. CASE WorkerPop
  <2> DEFINE j == Head(to_worker)
  <2>1. /\ to_worker # <<>> /\ to_worker' = Tail(to_worker) /\ current = NULL
        /\ \/ /\ stage[j] = "cancelled" /\ stage' = [stage EXCEPT ![j] = "freed"]
              /\ UNCHANGED current
           \/ /\ stage[j] # "cancelled" /\ stage' = [stage EXCEPT ![j] = "running"]
              /\ current' = j
        /\ UNCHANGED <<submitted, job_notif, from_worker>>
    BY <1>10 DEF WorkerPop
  <2>2. /\ from_worker \in Seq(Items) /\ to_worker \in Seq(Jobs)
        /\ stage \in [Jobs -> {"new", "queued", "cancelled", "running",
                                "pushed", "popped", "freed"}]
    BY DEF JobsOK, JobTypes
  <2>3. /\ j = to_worker[1] /\ 1 \in 1..Len(to_worker) /\ Tail(to_worker) \in Seq(Jobs)
        /\ j \in Jobs
    BY <2>1, <2>2, HeadTail
  <2> HIDE DEF j
  <2>4. stage[j] \in {"queued", "cancelled"}
    BY <2>3 DEF JobsOK, QueuedJobs
  <2>5. JobTypes'
    BY <2>1, <2>2, <2>3 DEF JobsOK, JobTypes
  <2>6. NewJobs' /\ CurrentJob' /\ PushedJobs'
    BY <2>1, <2>2, <2>3, <2>4, NamesAssumption DEF JobsOK, NewJobs, CurrentJob, PushedJobs
  <2>7. QueuedJobs'
    <3>1. /\ Len(to_worker') = Len(to_worker) - 1 /\ Len(to_worker) \in Nat
          /\ \A i \in 1..(Len(to_worker) - 1) : /\ to_worker'[i] = to_worker[i + 1]
                                              /\ i + 1 \in 1..Len(to_worker) /\ i + 1 # 1
      BY <2>1, <2>2, HeadTail
    <3> SUFFICES ASSUME NEW i \in 1..Len(to_worker')
                 PROVE  /\ stage'[to_worker'[i]] \in {"queued", "cancelled"}
                        /\ \A k \in 1..Len(to_worker') : to_worker'[i] = to_worker'[k] => i = k
      BY DEF QueuedJobs
    <3>2. /\ to_worker'[i] = to_worker[i + 1] /\ i + 1 \in 1..Len(to_worker)
          /\ i + 1 # 1 /\ i \in Nat
      BY <3>1
    <3>3. to_worker[i + 1] # j /\ to_worker[i + 1] \in Jobs
      BY <2>2, <2>3, <3>2 DEF JobsOK, QueuedJobs
    <3>4. stage'[to_worker'[i]] \in {"queued", "cancelled"}
      <4>1. stage'[to_worker[i + 1]] = stage[to_worker[i + 1]]
        BY <2>1, <2>2, <3>3
      <4> QED BY <3>2, <4>1 DEF JobsOK, QueuedJobs
    <3>5. ASSUME NEW k \in 1..Len(to_worker'), to_worker'[i] = to_worker'[k] PROVE i = k
      <4>1. k + 1 \in 1..Len(to_worker) /\ to_worker'[k] = to_worker[k + 1] /\ k \in Nat
        BY <3>1
      <4>2. i + 1 = k + 1
        BY <3>2, <3>5, <4>1 DEF JobsOK, QueuedJobs
      <4> QED BY <3>2, <4>1, <4>2
    <3> QED BY <3>4, <3>5
  <2> QED BY <2>5, <2>6, <2>7 DEF JobsOK
<1>11. ASSUME NEW x \in Items, from_worker' = Append(from_worker, x),
              UNCHANGED <<to_worker, submitted, job_notif>>,
              \/ /\ current # NULL /\ x = current /\ current' = NULL
                 /\ stage' = [stage EXCEPT ![current] = "pushed"]
              \/ x \notin Jobs /\ UNCHANGED <<current, stage>>
       PROVE  JobsOK'
  <2>1. /\ from_worker \in Seq(Items) /\ to_worker \in Seq(Jobs)
        /\ current \in Jobs \cup {NULL}
        /\ stage \in [Jobs -> {"new", "queued", "cancelled", "running",
                                "pushed", "popped", "freed"}]
        /\ current # NULL => stage[current] = "running"
    BY DEF JobsOK, JobTypes, CurrentJob
  <2>2. /\ from_worker' \in Seq(Items) /\ Len(from_worker') = Len(from_worker) + 1
        /\ Len(from_worker) \in Nat
        /\ \A i \in 1..Len(from_worker) : from_worker'[i] = from_worker[i]
        /\ from_worker'[Len(from_worker) + 1] = x
        /\ \A i \in 1..Len(from_worker') : i \in 1..Len(from_worker) \/ i = Len(from_worker) + 1
    BY <1>11, <2>1, Appended
  <2>3. JobTypes'
    BY <1>11, <2>1, <2>2 DEF JobsOK, JobTypes
  <2>4. NewJobs' /\ QueuedJobs' /\ CurrentJob'
    BY <1>11, <2>1, NamesAssumption DEF JobsOK, JobTypes, NewJobs, QueuedJobs, CurrentJob
  <2>5. x \in Jobs => /\ stage'[x] = "pushed" /\ stage[x] = "running"
                     /\ \A i \in 1..Len(from_worker) : from_worker[i] # x
    BY <1>11, <2>1 DEF JobsOK, PushedJobs
  <2>6. PushedJobs'
    <3> SUFFICES ASSUME NEW i \in 1..Len(from_worker'), from_worker'[i] \in Jobs
                 PROVE  /\ stage'[from_worker'[i]] = "pushed"
                        /\ \A k \in 1..Len(from_worker') :
                               from_worker'[i] = from_worker'[k] => i = k
      BY DEF PushedJobs
    <3>1. CASE i \in 1..Len(from_worker)
      <4>1. /\ stage[from_worker[i]] = "pushed"
            /\ \A k \in 1..Len(from_worker) : from_worker[i] = from_worker[k] => i = k
        BY <2>2, <3>1 DEF JobsOK, PushedJobs
      <4>2. from_worker[i] # x
        BY <2>2, <2>5, <3>1
      <4>3. stage'[from_worker[i]] = "pushed"
        BY <1>11, <2>1, <2>2, <3>1, <4>1, <4>2
      <4> QED BY <2>2, <3>1, <4>1, <4>2, <4>3
    <3>2. CASE i = Len(from_worker) + 1
      BY <2>2, <2>5, <3>2
    <3> QED BY <2>2, <3>1, <3>2
  <2> QED BY <2>3, <2>4, <2>6 DEF JobsOK
<1>12. CASE WorkerReply
  <2>1. /\ current # NULL /\ current' = NULL /\ from_worker' = Append(from_worker, current)
        /\ stage' = [stage EXCEPT ![current] = "pushed"]
        /\ UNCHANGED <<to_worker, submitted, job_notif>>
    BY <1>12 DEF WorkerReply
  <2>2. current \in Items
    BY <2>1 DEF JobsOK, JobTypes, Items
  <2> QED BY <1>11, <2>1, <2>2
<1>13. ASSUME NEW w \in Writers, NEW s \in Specs, Emit(w, s) PROVE JobsOK'
  <2>1. /\ from_worker' = Append(from_worker, s)
        /\ UNCHANGED <<to_worker, submitted, job_notif, current, stage>>
    BY <1>13 DEF Emit
  <2>2. s \in Items /\ s \notin Jobs
    BY NamesAssumption DEF Items
  <2> QED BY <1>11, <2>1, <2>2
<1>14. ASSUME NEW w \in Writers, Report(w) PROVE JobsOK'
  <2>1. UNCHANGED <<to_worker, submitted, job_notif, current, stage>>
    BY <1>14 DEF Report
  <2>2. from_worker' = Append(from_worker, Failure) \/ UNCHANGED from_worker
    BY <1>14 DEF Report
  <2>3. Failure \in Items /\ Failure \notin Jobs
    BY NamesAssumption DEF Items
  <2> QED BY <1>1, <1>11, <2>1, <2>2, <2>3
<1> QED BY <1>2, <1>3, <1>4, <1>5, <1>6, <1>7, <1>8, <1>9, <1>10, <1>12, <1>13, <1>14
        DEF Next, Owner, OwnerReturns, Writing

(* No step breaks SpecsOK.                                                 *)
LEMMA SpecsStep ==
    ASSUME SpecsOK, JobsOK, [Next]_vars
    PROVE  SpecsOK'
<1> USE DEF channelVars, tdVars, endVars, jobVars, specVars, callVars
<1>1. CASE \/ GetChannel \/ Read \/ Shutdown \/ Execute \/ WorkerPop \/ UNCHANGED vars
  BY <1>1 DEF GetChannel, Read, Shutdown, Execute, WorkerPop, vars, SpecsOK
<1>2. CASE UnsetChannel \/ PopNothing \/ CallbackReturns \/ DisposeCalled
  BY <1>2, NamesAssumption
     DEF UnsetChannel, PopNothing, CallbackReturns, DisposeCalled, Enter, CanCall,
         Calls, SpecsOK
<1>3. CASE Iterate
  <2>1. may_block' \in BOOLEAN /\ pc' = "pop"
    BY <1>3 DEF Iterate
  <2>2. UNCHANGED <<created, signals_list, from_worker, locked, subject>>
    BY <1>3 DEF Iterate
  <2> QED BY <2>1, <2>2 DEF Calls, SpecsOK
<1>4. ASSUME NEW s \in Specs, Connect(s) PROVE SpecsOK'
  BY <1>4 DEF Connect, CanCall, SpecsOK
<1>5. ASSUME NEW s \in Specs, DisconnectCalled(s) PROVE SpecsOK'
  BY <1>5 DEF DisconnectCalled, Enter, Calls, SpecsOK
<1>6. ASSUME NEW j \in Jobs, Cancel(j) \/ FetchResult(j) PROVE SpecsOK'
  BY <1>6 DEF Cancel, FetchResult, SpecsOK
<1>7. CASE Disconnect
  BY <1>7 DEF Disconnect, Calls, SpecsOK
<1>8. CASE CleanNotifications
  BY <1>8 DEF CleanNotifications, Calls, SpecsOK
<1>9. CASE Dispose
  BY <1>9 DEF Dispose, Calls, SpecsOK
<1>10. CASE Pop
  <2> DEFINE item == Head(from_worker)
  <2>1. /\ from_worker # <<>> /\ from_worker' = Tail(from_worker)
        /\ pc' = CASE item \in Specs -> "callback" [] item = Failure -> "clean"
                   [] OTHER -> "idle"
        /\ subject' = IF item \in Specs THEN item ELSE subject
        /\ UNCHANGED <<created, signals_list, locked, may_block>>
    BY <1>10 DEF Pop
  <2>2. from_worker \in Seq(Items)
    BY DEF JobsOK, JobTypes
  <2>3. /\ item = from_worker[1] /\ 1 \in 1..Len(from_worker)
        /\ Len(from_worker') = Len(from_worker) - 1
        /\ \A i \in 1..(Len(from_worker) - 1) : /\ from_worker'[i] = from_worker[i + 1]
                                              /\ i + 1 \in 1..Len(from_worker)
    BY <2>1, <2>2, HeadTail
  <2> HIDE DEF item
  <2>4. item \in Specs => item \in created
    BY <2>3 DEF SpecsOK
  <2>5. pc' \in Calls /\ (pc' = "callback" => item \in Specs) /\ pc' # "disconnect"
    BY <2>1 DEF Calls
  <2>6. \A i \in 1..Len(from_worker') : from_worker'[i] \in Specs => from_worker'[i] \in created
    BY <2>3 DEF SpecsOK
  <2> QED BY <2>1, <2>4, <2>5, <2>6 DEF SpecsOK
<1>11. ASSUME NEW x \in Items, from_worker' = Append(from_worker, x), x \in Specs => x \in created
       PROVE  \A i \in 1..Len(from_worker') :
                  from_worker'[i] \in Specs => from_worker'[i] \in created
  <2>1. from_worker \in Seq(Items)
    BY DEF JobsOK, JobTypes
  <2>2. /\ \A i \in 1..Len(from_worker) : from_worker'[i] = from_worker[i]
        /\ from_worker'[Len(from_worker) + 1] = x
        /\ \A i \in 1..Len(from_worker') : i \in 1..Len(from_worker) \/ i = Len(from_worker) + 1
    BY <1>11, <2>1, Appended
  <2> QED BY <1>11, <2>2 DEF SpecsOK
<1>12. CASE WorkerReply
  <2>1. /\ current # NULL /\ from_worker' = Append(from_worker, current)
        /\ UNCHANGED <<created, signals_list, locked, pc, subject, may_block>>
    BY <1>12 DEF WorkerReply
  <2>2. current \in Items /\ current \notin Specs
    BY <2>1, NamesAssumption DEF JobsOK, JobTypes, Items
  <2> QED BY <1>11, <2>1, <2>2 DEF SpecsOK
<1>13. ASSUME NEW w \in Writers, NEW s \in Specs, Emit(w, s) PROVE SpecsOK'
  <2>1. /\ from_worker' = Append(from_worker, s) /\ s \in signals_list
        /\ locked' = [locked EXCEPT ![s] = w]
        /\ UNCHANGED <<created, signals_list, pc, subject, may_block>>
    BY <1>13 DEF Emit
  <2>2. s \in Items /\ s \in created
    BY <2>1 DEF Items, SpecsOK
  <2>3. locked' \in [Specs -> Writers \cup {NULL}]
    BY <2>1 DEF SpecsOK
  <2>4. \A i \in 1..Len(from_worker') : from_worker'[i] \in Specs => from_worker'[i] \in created
    BY <1>11, <2>1, <2>2
  <2> QED BY <2>1, <2>3, <2>4 DEF SpecsOK
<1>14. ASSUME NEW w \in Writers, WriteBegin(w) \/ WriteElsewhere(w) \/ WriteFails(w)
       PROVE  SpecsOK'
  BY <1>14 DEF WriteBegin, WriteElsewhere, WriteFails, SpecsOK
<1>15. ASSUME NEW w \in Writers, NothingToWrite(w) \/ Write(w)
       PROVE  SpecsOK'
  BY <1>15 DEF NothingToWrite, Write, Unlock, SpecsOK
<1>16. ASSUME NEW w \in Writers, Report(w) PROVE SpecsOK'
  <2>1. /\ Unlock(w)
        /\ UNCHANGED <<created, signals_list, pc, subject, may_block>>
    BY <1>16 DEF Report
  <2>2. from_worker' = Append(from_worker, Failure) \/ UNCHANGED from_worker
    BY <1>16 DEF Report
  <2>3. Failure \in Items /\ Failure \notin Specs
    BY NamesAssumption DEF Items
  <2>4. locked' \in [Specs -> Writers \cup {NULL}]
    BY <2>1 DEF Unlock, SpecsOK
  <2>5. \A i \in 1..Len(from_worker') : from_worker'[i] \in Specs => from_worker'[i] \in created
    BY <1>11, <2>2, <2>3 DEF SpecsOK
  <2> QED BY <2>1, <2>4, <2>5 DEF SpecsOK
<1> QED BY <1>1, <1>2, <1>3, <1>4, <1>5, <1>6, <1>7, <1>8, <1>9, <1>10, <1>12, <1>13, <1>14,
           <1>15, <1>16 DEF Next, Owner, OwnerReturns, Writing

(* No step breaks HistoryOK.                                               *)
LEMMA HistoryStep ==
    ASSUME HistoryOK, EndsOK, ContentOK, [Next]_vars
    PROVE  HistoryOK'
<1> USE DEF channelVars, tdVars, endVars, jobVars, specVars, callVars
<1>1. ASSUME UNCHANGED <<told, emits, disposed, broken>> PROVE HistoryOK'
  BY <1>1 DEF HistoryOK
<1>2. CASE \/ GetChannel \/ UnsetChannel \/ Shutdown \/ Execute \/ Iterate \/ DisposeCalled
           \/ Disconnect \/ CleanNotifications \/ Pop \/ CallbackReturns
           \/ WorkerPop \/ WorkerReply \/ UNCHANGED vars
  BY <1>1, <1>2 DEF GetChannel, UnsetChannel, Shutdown, Execute, Iterate, DisposeCalled, Enter,
                Disconnect, CleanNotifications, Pop, CallbackReturns, WorkerPop, WorkerReply, vars
<1>3. ASSUME NEW s \in Specs, Connect(s) \/ DisconnectCalled(s) PROVE HistoryOK'
  BY <1>1, <1>3 DEF Connect, DisconnectCalled, Enter
<1>4. ASSUME NEW j \in Jobs, Cancel(j) \/ FetchResult(j) PROVE HistoryOK'
  BY <1>1, <1>4 DEF Cancel, FetchResult
<1>5. ASSUME NEW w \in Writers, \/ NothingToWrite(w) \/ WriteBegin(w) \/ Write(w)
                               \/ WriteFails(w)
      PROVE  HistoryOK'
  BY <1>1, <1>5 DEF NothingToWrite, WriteBegin, Write, WriteFails
<1>6. CASE Read
  <2>1. /\ channel \in Pipes /\ content[channel] # <<>>
        /\ told' = told \cup {Head(content[channel])}
        /\ UNCHANGED <<emits, disposed, broken>>
    BY <1>6 DEF Read, EndsOK
  <2>2. Head(content[channel]) \in Items
    <3>1. content[channel] \in Seq(Items)
      BY <2>1 DEF ContentOK
    <3> QED BY <2>1, <3>1
  <2> QED BY <2>1, <2>2 DEF HistoryOK
<1>7. CASE PopNothing
  BY <1>7 DEF PopNothing, HistoryOK
<1>8. CASE Dispose
  <2>1. disposed' = TRUE /\ UNCHANGED <<told, emits, broken>>
    BY <1>8 DEF Dispose
  <2>2. disposed' \in BOOLEAN
    BY <2>1, Zenon
  <2> QED BY <2>1, <2>2 DEF HistoryOK
<1>9. ASSUME NEW w \in Writers, NEW s \in Specs, Emit(w, s) PROVE HistoryOK'
  BY <1>9, BoundsAssumption DEF Emit, HistoryOK
<1>10. ASSUME NEW w \in Writers, WriteElsewhere(w) \/ Report(w) PROVE HistoryOK'
  BY <1>10 DEF WriteElsewhere, Report, HistoryOK
<1> QED BY <1>2, <1>3, <1>4, <1>5, <1>6, <1>7, <1>8, <1>9, <1>10
        DEF Next, Owner, OwnerReturns, Writing

(* What a writer is doing is not disturbed by what others do.              *)
LEMMA WritesKept ==
    ASSUME WritesOK, NEW w \in Writers, write'[w] = write[w],
           \A j \in Jobs : stage[j] # "new" => stage'[j] # "new" /\ job_notif'[j] = job_notif[j],
           \A s \in signals_list : locked[s] = w =>
               s \in signals_list' /\ locked'[s] = w /\ spec_notif'[s] = spec_notif[s],
           made \ writing \subseteq made' \ writing'
    PROVE  write'[w] = NoWrite \/ Writes(w, write[w])'
  BY DEF WritesOK, Writes

(* No step breaks WritesOK.                                                *)
LEMMA WritesStep ==
    ASSUME WritesOK, EndsOK, JobsOK, SpecsOK, [Next]_vars
    PROVE  WritesOK'
<1> USE DEF channelVars, tdVars, endVars, jobVars, specVars, callVars
<1>1. /\ write \in [Writers -> [at : {"none", "test", "write", "failed", "report"},
                                pipe : Pipes \cup {NULL}, item : Items \cup {NULL}]]
      /\ stage \in [Jobs -> {"new", "queued", "cancelled", "running",
                              "pushed", "popped", "freed"}]
      /\ job_notif \in [Jobs -> made \cup {NULL}]
      /\ spec_notif \in [Specs -> made \cup {NULL}]
      /\ \A w \in Writers : w # NULL
      /\ signals_list \subseteq Specs /\ writing \subseteq made /\ made \subseteq Pipes
  BY NamesAssumption DEF WritesOK, JobsOK, JobTypes, EndsOK, SpecsOK
<1>2. ASSUME UNCHANGED write,
             \A j \in Jobs : stage[j] # "new" =>
                 stage'[j] # "new" /\ job_notif'[j] = job_notif[j],
             \A s \in signals_list : locked[s] # NULL =>
                 s \in signals_list' /\ locked'[s] = locked[s] /\ spec_notif'[s] = spec_notif[s],
             made \ writing \subseteq made' \ writing'
      PROVE  WritesOK'
  <2>1. ASSUME NEW w \in Writers PROVE write'[w] = NoWrite \/ Writes(w, write[w])'
    <3>1. write'[w] = write[w]
      BY <1>2
    <3>2. \A s \in signals_list : locked[s] = w =>
             s \in signals_list' /\ locked'[s] = w /\ spec_notif'[s] = spec_notif[s]
      BY <1>1, <1>2
    <3> QED BY <1>2, <3>1, <3>2, WritesKept
  <2> QED BY <1>1, <1>2, <2>1 DEF WritesOK
<1>3. CASE \/ UnsetChannel \/ Read \/ Shutdown \/ Iterate \/ DisposeCalled
           \/ PopNothing \/ CallbackReturns \/ UNCHANGED vars
  <2>1. UNCHANGED <<write, stage, job_notif, signals_list, locked, spec_notif, made, writing>>
    BY <1>3 DEF UnsetChannel, Read, Shutdown, Iterate, DisposeCalled, Enter,
                PopNothing, CallbackReturns, vars
  <2> QED BY <1>2, <2>1
<1>4. CASE GetChannel
  <2>1. UNCHANGED <<write, stage, job_notif, signals_list, locked, spec_notif>>
    BY <1>4 DEF GetChannel
  <2>2. \/ UNCHANGED <<made, writing>>
        \/ \E p \in Pipes \ made : made' = made \cup {p} /\ writing' = writing \cup {p}
    BY <1>1, <1>4 DEF GetChannel
  <2>3. made \ writing \subseteq made' \ writing'
    BY <2>2
  <2> QED BY <1>2, <2>1, <2>3
<1>5. CASE Execute
  <2> DEFINE j == submitted + 1
  <2>1. /\ submitted < MaxJobs /\ stage' = [stage EXCEPT ![j] = "queued"]
        /\ job_notif' = [job_notif EXCEPT ![j] = ThreadDataNotif]
        /\ UNCHANGED <<write, signals_list, locked, spec_notif, made, writing>>
    BY <1>5 DEF Execute
  <2>2. j \in Jobs /\ stage[j] = "new"
    BY <2>1, BoundsAssumption DEF JobsOK, JobTypes, NewJobs, Jobs
  <2> HIDE DEF j
  <2>3. \A k \in Jobs : stage[k] # "new" => stage'[k] # "new" /\ job_notif'[k] = job_notif[k]
    BY <1>1, <2>1, <2>2
  <2> QED BY <1>2, <2>1, <2>3
<1>6. ASSUME NEW s \in Specs, Connect(s) PROVE WritesOK'
  <2>1. /\ s \notin signals_list /\ signals_list' = signals_list \cup {s}
        /\ spec_notif' = [spec_notif EXCEPT ![s] = ThreadDataNotif]
        /\ UNCHANGED <<write, stage, job_notif, locked, made, writing>>
    BY <1>6 DEF Connect, SpecsOK
  <2>2. \A t \in signals_list : t \in signals_list' /\ spec_notif'[t] = spec_notif[t]
    BY <1>1, <2>1
  <2> QED BY <1>2, <2>1, <2>2
<1>7. ASSUME NEW s \in Specs, DisconnectCalled(s) PROVE WritesOK'
  <2>1. UNCHANGED <<write, stage, job_notif, signals_list, locked, spec_notif, made, writing>>
    BY <1>7 DEF DisconnectCalled, Enter
  <2> QED BY <1>2, <2>1
<1>8. ASSUME NEW j \in Jobs, Cancel(j) \/ FetchResult(j) PROVE WritesOK'
  <2>1. /\ UNCHANGED <<write, job_notif, signals_list, locked, spec_notif, made, writing>>
        /\ \/ stage' = [stage EXCEPT ![j] = "cancelled"]
           \/ stage' = [stage EXCEPT ![j] = "freed"]
    BY <1>8 DEF Cancel, FetchResult
  <2>2. \A k \in Jobs : stage[k] # "new" => stage'[k] # "new"
    BY <1>1, <2>1
  <2> QED BY <1>2, <2>1, <2>2
<1>9. CASE Disconnect
  <2>1. /\ UNCHANGED <<write, stage, job_notif, locked, spec_notif, made, writing>>
        /\ signals_list' = signals_list \ {subject} /\ locked[subject] = NULL
    BY <1>9 DEF Disconnect, Unlocked
  <2> QED BY <1>2, <2>1
<1>10. CASE CleanNotifications \/ Dispose
  <2>1. /\ UNCHANGED <<write, job_notif, locked, made, writing>>
        /\ \A s \in signals_list : locked[s] = NULL
    BY <1>10 DEF CleanNotifications, Dispose, Unlocked
  <2>2. \A k \in Jobs : stage[k] # "new" => stage'[k] # "new"
    BY <1>10 DEF CleanNotifications, Dispose
  <2> QED BY <1>2, <2>1, <2>2
<1>11. CASE Pop \/ WorkerPop
  <2>1. UNCHANGED <<write, job_notif, signals_list, locked, spec_notif, made, writing>>
    BY <1>11 DEF Pop, WorkerPop
  <2>2. \A k \in Jobs : stage[k] # "new" => stage'[k] # "new"
    BY <1>1, <1>11 DEF Pop, WorkerPop
  <2> QED BY <1>2, <2>1, <2>2
<1>12. ASSUME NEW w \in Writers, write' = [write EXCEPT ![w] = write'[w]],
              write'[w] \in [at : {"none", "test", "write", "failed", "report"},
                             pipe : Pipes \cup {NULL}, item : Items \cup {NULL}],
              write'[w] = NoWrite \/ Writes(w, write[w])',
              \A j \in Jobs : stage[j] # "new" =>
                  stage'[j] # "new" /\ job_notif'[j] = job_notif[j],
              \A s \in signals_list : locked[s] \notin {w, NULL} => locked'[s] = locked[s],
              UNCHANGED <<signals_list, spec_notif>>, made \ writing \subseteq made' \ writing'
       PROVE  WritesOK'
  <2>1. ASSUME NEW v \in Writers PROVE write'[v] = NoWrite \/ Writes(v, write[v])'
    <3>1. CASE v = w
      BY <1>12, <3>1
    <3>2. CASE v # w
      <4>1. write'[v] = write[v]
        BY <1>1, <1>12, <3>2
      <4>2. \A s \in signals_list : locked[s] = v =>
               s \in signals_list' /\ locked'[s] = v /\ spec_notif'[s] = spec_notif[s]
        BY <1>1, <1>12, <3>2
      <4> QED BY <1>12, <4>1, <4>2, WritesKept
    <3> QED BY <3>1, <3>2
  <2>2. write' \in [Writers -> [at : {"none", "test", "write", "failed", "report"},
                                pipe : Pipes \cup {NULL}, item : Items \cup {NULL}]]
    BY <1>1, <1>12
  <2> QED BY <2>1, <2>2 DEF WritesOK
<1>13. CASE WorkerReply
  <2> DEFINE r == [at |-> "test", pipe |-> job_notif[current], item |-> current]
  <2>1. /\ current \in Jobs
        /\ write' = [write EXCEPT ![Worker] = r]
        /\ stage' = [stage EXCEPT ![current] = "pushed"]
        /\ UNCHANGED <<job_notif, signals_list, locked, spec_notif, made, writing>>
    BY <1>13 DEF WorkerReply, Notify, JobsOK, JobTypes
  <2>2. Worker \in Writers /\ write'[Worker] = r
    BY <1>1, <2>1 DEF Writers
  <2>3. \A k \in Jobs : stage[k] # "new" => stage'[k] # "new"
    BY <1>1, <2>1
  <2>4. r \in [at : {"none", "test", "write", "failed", "report"},
              pipe : Pipes \cup {NULL}, item : Items \cup {NULL}]
    BY <1>1, <2>1 DEF Items
  <2>5. Writes(Worker, write[Worker])'
    BY <1>1, <2>1, <2>2 DEF Writes
  <2> HIDE DEF r
  <2> QED BY <1>12, <2>1, <2>2, <2>3, <2>4, <2>5
<1>14. ASSUME NEW w \in Writers, NEW s \in Specs, Emit(w, s) PROVE WritesOK'
  <2> DEFINE r == [at |-> "test", pipe |-> spec_notif[s], item |-> s]
  <2>1. /\ s \in signals_list /\ locked[s] = NULL
        /\ write' = [write EXCEPT ![w] = r]
        /\ locked' = [locked EXCEPT ![s] = w]
        /\ UNCHANGED <<stage, job_notif, signals_list, spec_notif, made, writing>>
    BY <1>14 DEF Emit, Notify
  <2>2. write'[w] = r /\ locked'[s] = w
    BY <1>1, <2>1 DEF SpecsOK
  <2>3. \A t \in signals_list : locked[t] \notin {w, NULL} => locked'[t] = locked[t]
    BY <1>1, <2>1 DEF SpecsOK
  <2>4. r \in [at : {"none", "test", "write", "failed", "report"},
              pipe : Pipes \cup {NULL}, item : Items \cup {NULL}]
    BY <1>1 DEF Items
  <2>5. Writes(w, write[w])'
    BY <1>1, <2>1, <2>2 DEF Writes
  <2> HIDE DEF r
  <2> QED BY <1>12, <2>1, <2>2, <2>3, <2>4, <2>5
<1>15. ASSUME NEW w \in Writers, NothingToWrite(w) \/ Write(w) \/ Report(w) PROVE WritesOK'
  <2>1. /\ write' = [write EXCEPT ![w] = NoWrite] /\ Unlock(w)
        /\ UNCHANGED <<stage, job_notif, signals_list, spec_notif, made, writing>>
    BY <1>15 DEF NothingToWrite, Write, Report
  <2>2. write'[w] = NoWrite
    BY <1>1, <2>1
  <2>3. \A t \in signals_list : locked[t] \notin {w, NULL} => locked'[t] = locked[t]
    BY <1>1, <2>1 DEF Unlock
  <2>4. NoWrite \in [at : {"none", "test", "write", "failed", "report"},
                    pipe : Pipes \cup {NULL}, item : Items \cup {NULL}]
    BY DEF NoWrite
  <2> QED BY <1>12, <2>1, <2>2, <2>3, <2>4
<1>16. ASSUME NEW w \in Writers, WriteBegin(w) \/ WriteFails(w) PROVE WritesOK'
  <2>1. /\ write[w].at \in {"test", "write"} /\ write[w].pipe \in writing
        /\ UNCHANGED <<stage, job_notif, signals_list, spec_notif, made, locked>>
    BY <1>16 DEF WriteBegin, WriteFails
  <2>2. \/ write' = [write EXCEPT ![w].at = "write"] /\ UNCHANGED writing
        \/ write' = [write EXCEPT ![w].at = "report"] /\ writing' = writing \ {write[w].pipe}
    BY <1>16 DEF WriteBegin, WriteFails
  <2>3. write[w] \in [at : {"none", "test", "write", "failed", "report"},
                     pipe : Pipes \cup {NULL}, item : Items \cup {NULL}]
    BY <1>1
  <2>4. /\ write'[w].pipe = write[w].pipe /\ write'[w].item = write[w].item
        /\ write'[w].at \in {"write", "report"}
        /\ write'[w].at = "report" => writing' = writing \ {write[w].pipe}
        /\ write'[w] \in [at : {"none", "test", "write", "failed", "report"},
                          pipe : Pipes \cup {NULL}, item : Items \cup {NULL}]
        /\ write' = [write EXCEPT ![w] = write'[w]]
    BY <1>1, <2>2, <2>3
  <2>5. Writes(w, write[w])
    BY <2>1 DEF WritesOK, NoWrite
  <2>6. Writes(w, write[w])'
    BY <1>1, <2>1, <2>4, <2>5, NamesAssumption DEF Writes
  <2>7. made \ writing \subseteq made' \ writing'
    BY <2>1, <2>2
  <2> QED BY <1>12, <2>1, <2>4, <2>6, <2>7
<1>17. ASSUME NEW w \in Writers, WriteElsewhere(w) PROVE WritesOK'
  <2>1. UNCHANGED <<write, stage, job_notif, signals_list, locked, spec_notif, made, writing>>
    BY <1>17 DEF WriteElsewhere
  <2> QED BY <1>2, <2>1
<1> QED BY <1>3, <1>4, <1>5, <1>6, <1>7, <1>8, <1>9, <1>10, <1>11, <1>13, <1>14, <1>15, <1>16,
           <1>17 DEF Next, Owner, OwnerReturns, Writing

(* What is not in a queue is not counted.                                  *)
LEMMA CountNone ==
    ASSUME NEW S, NEW q \in Seq(S), NEW x, \A i \in 1..Len(q) : q[i] # x
    PROVE  Count(q, x) = 0
<1> DEFINE A == {i \in 1..Len(q) : q[i] = x}
<1>1. A = {}
  OBVIOUS
<1>2. Cardinality(A) = 0
  BY <1>1, FS_EmptySet
<1> QED BY <1>2 DEF Count

(* The references to a SignalSpec are counted.                             *)
LEMMA SpecsCountedStep ==
    ASSUME SpecsCounted, JobsOK, SpecsOK, [Next]_vars
    PROVE  SpecsCounted'
<1> USE DEF channelVars, tdVars, endVars, jobVars, specVars, callVars
<1>1. /\ spec_refs \in [Specs -> Int] /\ from_worker \in Seq(Items)
      /\ \A s \in Specs : Count(from_worker, s) \in Nat
      /\ \A s \in Specs : spec_refs[s] = SpecSum(s)
  BY CountNat DEF SpecsCounted, JobsOK, JobTypes
<1>2. ASSUME UNCHANGED <<spec_refs, signals_list, from_worker>>,
             pc # "callback", pc' # "callback"
      PROVE  SpecsCounted'
  BY <1>1, <1>2 DEF SpecsCounted, SpecSum, One
<1>3. ASSUME UNCHANGED <<spec_refs, signals_list, from_worker, pc, subject>>
      PROVE  SpecsCounted'
  BY <1>1, <1>3 DEF SpecsCounted, SpecSum
<1>4. CASE \/ GetChannel \/ Read \/ Shutdown \/ Execute \/ WorkerPop \/ UNCHANGED vars
  BY <1>3, <1>4 DEF GetChannel, Read, Shutdown, Execute, WorkerPop, vars
<1>5. CASE \/ UnsetChannel \/ Iterate \/ DisposeCalled \/ PopNothing \/ CleanNotifications
  BY <1>2, <1>5 DEF UnsetChannel, Iterate, DisposeCalled, PopNothing, CleanNotifications,
                    Enter, CanCall
<1>6. ASSUME NEW s \in Specs, Connect(s) PROVE SpecsCounted'
  <2>1. /\ s \notin signals_list /\ signals_list' = signals_list \cup {s}
        /\ spec_refs' = [spec_refs EXCEPT ![s] = 1]
        /\ pc = "idle" /\ UNCHANGED <<from_worker, pc, subject>>
    BY <1>6 DEF Connect, CanCall, SpecsOK
  <2>2. \A i \in 1..Len(from_worker) : from_worker[i] # s
    BY <1>6 DEF Connect, SpecsOK
  <2>3. Count(from_worker, s) = 0
    BY <1>1, <2>2, CountNone
  <2>4. ASSUME NEW t \in Specs PROVE spec_refs'[t] = SpecSum(t)'
    <3>1. spec_refs[t] = SpecSum(t)
      BY <1>1
    <3>2. CASE t = s
      BY <1>1, <2>1, <2>3, <3>2 DEF SpecSum, One
    <3>3. CASE t # s
      BY <1>1, <2>1, <3>1, <3>3 DEF SpecSum, One
    <3> QED BY <3>2, <3>3
  <2> QED BY <1>1, <2>1, <2>4 DEF SpecsCounted
<1>7. ASSUME NEW s \in Specs, DisconnectCalled(s) PROVE SpecsCounted'
  BY <1>2, <1>7 DEF DisconnectCalled, Enter, CanCall
<1>8. ASSUME NEW j \in Jobs, Cancel(j) \/ FetchResult(j) PROVE SpecsCounted'
  BY <1>3, <1>8 DEF Cancel, FetchResult
<1>9. CASE Disconnect
  <2>1. /\ subject \in signals_list /\ subject \in Specs
        /\ signals_list' = signals_list \ {subject}
        /\ spec_refs' = [spec_refs EXCEPT ![subject] = @ - 1]
        /\ pc = "disconnect" /\ pc' = "idle" /\ UNCHANGED from_worker
    BY <1>9 DEF Disconnect, SpecsOK
  <2> QED BY <1>1, <2>1 DEF SpecsCounted, SpecSum, One
<1>10. CASE Dispose
  <2>1. /\ signals_list' = {} /\ pc = "dispose" /\ pc' = "idle" /\ UNCHANGED from_worker
        /\ spec_refs' = [s \in Specs |-> spec_refs[s] - (IF s \in signals_list THEN 1 ELSE 0)]
    BY <1>10 DEF Dispose
  <2> QED BY <1>1, <2>1 DEF SpecsCounted, SpecSum, One
<1>11. CASE Pop
  <2> DEFINE item == Head(from_worker)
  <2>1. /\ from_worker # <<>> /\ from_worker' = Tail(from_worker)
        /\ pc' = CASE item \in Specs -> "callback" [] item = Failure -> "clean"
                   [] OTHER -> "idle"
        /\ subject' = IF item \in Specs THEN item ELSE subject
        /\ pc = "pop" /\ UNCHANGED <<spec_refs, signals_list>>
    BY <1>11 DEF Pop
  <2>2. \A s \in Specs : Count(from_worker, s) = Count(from_worker', s) + One(item = s)
    BY <1>1, <2>1, CountTail
  <2>3. \A s \in Specs : Count(from_worker', s) \in Nat
    <3>1. Tail(from_worker) \in Seq(Items)
      BY <1>1, <2>1
    <3> QED BY <2>1, <3>1, CountNat
  <2> HIDE DEF item
  <2>4. pc' = "callback" <=> item \in Specs
    BY <2>1, NamesAssumption
  <2>5. ASSUME NEW s \in Specs PROVE One(pc' = "callback" /\ subject' = s) = One(item = s)
    BY <2>1, <2>4 DEF One
  <2>6. ASSUME NEW s \in Specs PROVE spec_refs'[s] = SpecSum(s)'
    <3>1. spec_refs[s] = One(s \in signals_list) + Count(from_worker, s) + 0
      BY <1>1, <2>1 DEF SpecSum, One
    <3>2. One(s \in signals_list) \in Nat /\ One(item = s) \in Nat
      BY DEF One
    <3> QED BY <1>1, <2>1, <2>2, <2>3, <2>5, <3>1, <3>2 DEF SpecSum
  <2> QED BY <1>1, <2>1, <2>6 DEF SpecsCounted
<1>12. CASE CallbackReturns
  <2>1. /\ pc = "callback" /\ pc' = "pop" /\ subject \in Specs
        /\ spec_refs' = [spec_refs EXCEPT ![subject] = @ - 1]
        /\ UNCHANGED <<signals_list, from_worker>>
    BY <1>12 DEF CallbackReturns, SpecsOK
  <2> QED BY <1>1, <2>1 DEF SpecsCounted, SpecSum, One
<1>13. ASSUME NEW x \in Items, x \notin Specs, from_worker' = Append(from_worker, x),
              UNCHANGED <<spec_refs, signals_list, pc, subject>>
       PROVE  SpecsCounted'
  <2>1. \A s \in Specs : Count(from_worker', s) = Count(from_worker, s) + One(x = s)
    BY <1>1, <1>13, CountAppend
  <2>2. \A s \in Specs : Count(from_worker', s) = Count(from_worker, s)
    BY <1>1, <1>13, <2>1 DEF One
  <2> QED BY <1>1, <1>13, <2>2 DEF SpecsCounted, SpecSum
<1>14. CASE WorkerReply
  <2>1. /\ current # NULL /\ from_worker' = Append(from_worker, current)
        /\ UNCHANGED <<spec_refs, signals_list, pc, subject>>
    BY <1>14 DEF WorkerReply
  <2>2. current \in Items /\ current \notin Specs
    BY <2>1, NamesAssumption DEF JobsOK, JobTypes, Items
  <2> QED BY <1>13, <2>1, <2>2
<1>15. ASSUME NEW w \in Writers, NEW s \in Specs, Emit(w, s) PROVE SpecsCounted'
  <2>1. /\ from_worker' = Append(from_worker, s)
        /\ spec_refs' = [spec_refs EXCEPT ![s] = @ + 1]
        /\ UNCHANGED <<signals_list, pc, subject>>
    BY <1>15 DEF Emit
  <2>2. \A t \in Specs : Count(from_worker', t) = Count(from_worker, t) + One(s = t)
    BY <1>1, <2>1, CountAppend DEF Items
  <2>3. ASSUME NEW t \in Specs PROVE spec_refs'[t] = SpecSum(t)'
    <3>1. /\ One(t \in signals_list) \in Nat /\ One(s = t) \in Nat
          /\ One(pc = "callback" /\ subject = t) \in Nat
      BY DEF One
    <3>2. spec_refs'[t] = spec_refs[t] + One(s = t)
      BY <1>1, <2>1 DEF One
    <3>3. spec_refs[t] = SpecSum(t) /\ Count(from_worker, t) \in Nat
      BY <1>1
    <3> QED BY <2>1, <2>2, <3>1, <3>2, <3>3 DEF SpecSum
  <2> QED BY <1>1, <2>1, <2>3 DEF SpecsCounted
<1>16. ASSUME NEW w \in Writers, \/ NothingToWrite(w) \/ WriteBegin(w) \/ Write(w)
                                \/ WriteElsewhere(w) \/ WriteFails(w)
       PROVE  SpecsCounted'
  BY <1>3, <1>16 DEF NothingToWrite, WriteBegin, Write, WriteElsewhere, WriteFails
<1>17. ASSUME NEW w \in Writers, Report(w) PROVE SpecsCounted'
  <2>1. UNCHANGED <<spec_refs, signals_list, pc, subject>>
    BY <1>17 DEF Report
  <2>2. from_worker' = Append(from_worker, Failure) \/ UNCHANGED from_worker
    BY <1>17 DEF Report
  <2>3. Failure \in Items /\ Failure \notin Specs
    BY NamesAssumption DEF Items
  <2> QED BY <1>3, <1>13, <2>1, <2>2, <2>3
<1> QED BY <1>4, <1>5, <1>6, <1>7, <1>8, <1>9, <1>10, <1>11, <1>12, <1>14, <1>15, <1>16, <1>17
        DEF Next, Owner, OwnerReturns, Writing

-----------------------------------------------------------------------------
(* The references to a pipe are counted.                                   *)

(* What pipe_ref() does to the counters.                                   *)
LEMMA RefIs ==
    ASSUME RefCountOK, NEW x, Ref(x)
    PROVE  /\ ref_count' \in [Pipes -> Int]
           /\ \A p \in Pipes : ref_count'[p] = RefSum(p) + One(x = p)
  BY DEF RefCountOK, Counted, Ref, One

(* What pipe_unref() does to the counters.                                 *)
LEMMA UnrefIs ==
    ASSUME RefCountOK, NEW x, Unref(x)
    PROVE  /\ ref_count' \in [Pipes -> Int]
           /\ \A p \in Pipes : ref_count'[p] = RefSum(p) - One(x = p)
  BY DEF RefCountOK, Counted, Unref, One

(* What does not change the pointers to a pipe.                            *)
LEMMA JobsToFrame ==
    ASSUME UNCHANGED job_notif, \A j \in Jobs : stage'[j] = "freed" <=> stage[j] = "freed", NEW p
    PROVE  JobsTo(p)' = JobsTo(p)
  BY DEF JobsTo

(* A spec that keeps its references keeps its pipe.                        *)
LEMMA SpecsToFrame ==
    ASSUME UNCHANGED spec_notif, \A s \in Specs : spec_refs'[s] > 0 <=> spec_refs[s] > 0, NEW p
    PROVE  SpecsTo(p)' = SpecsTo(p)
  BY DEF SpecsTo

(* A write that goes on keeps its pipe.                                    *)
LEMMA WritersToFrame ==
    ASSUME NEW p, \A w \in Writers :
               write'[w].at # "report" /\ write'[w].pipe = p
               <=> write[w].at # "report" /\ write[w].pipe = p
    PROVE  WritersTo(p)' = WritersTo(p)
  BY DEF WritersTo

(* A step that moves no pointer keeps the counts.                          *)
LEMMA RefsUnchanged ==
    ASSUME RefCountOK, UNCHANGED <<ref_count, pipes_hash, notif>>,
           \A p \in Pipes : /\ JobsTo(p)' = JobsTo(p) /\ SpecsTo(p)' = SpecsTo(p)
                           /\ WritersTo(p)' = WritersTo(p)
    PROVE  RefCountOK'
  BY DEF RefCountOK, Counted, RefSum

(* References given back together.                                         *)
LEMMA UnrefAllCounted ==
    ASSUME RefCountOK, NEW h \in BOOLEAN, NEW t \in BOOLEAN,
           NEW J \in SUBSET Jobs, NEW S \in SUBSET Specs, UnrefAll(Held(h, t, J, S, {})),
           pipes_hash' = (IF h THEN NULL ELSE pipes_hash),
           notif' = (IF t THEN NULL ELSE notif),
           \A j \in J : stage[j] # "freed", \A s \in S : spec_refs[s] > 0,
           \A p \in Pipes : JobsTo(p)' = JobsTo(p) \ J /\ SpecsTo(p)' = SpecsTo(p) \ S,
           UNCHANGED write
    PROVE  RefCountOK'
<1>1. ASSUME NEW p \in Pipes
      PROVE  ref_count'[p] = RefSum(p)' /\ ref_count'[p] \in Int
  <2> DEFINE JP == {j \in J : job_notif[j] = p}
             SP == {s \in S : spec_notif[s] = p}
             None == {w \in {} : write[w].pipe = p}
  <2>1. ref_count'[p] = ref_count[p] - HeldSum(p, h, t, J, S, {})
    <3>1. {} \in SUBSET Writers
      OBVIOUS
    <3>2. ref_count'[p] = ref_count[p]
                          - Cardinality({r \in Held(h, t, J, S, {}) : r[3] = p})
      BY DEF UnrefAll
    <3> QED BY <3>1, <3>2, HeldCount
  <2>2. None = {} /\ Cardinality(None) = 0
    <3>1. None = {}
      OBVIOUS
    <3> QED BY <3>1, FS_EmptySet
  <2>3. JP = JobsTo(p) \cap J /\ SP = SpecsTo(p) \cap S
    BY DEF JobsTo, SpecsTo
  <2>4. WritersTo(p)' = WritersTo(p)
    BY DEF WritersTo
  <2>5. HeldSum(p, h, t, J, S, {})
        = One(h /\ pipes_hash = p) + One(t /\ notif = p) + Cardinality(JP) + Cardinality(SP)
          + Cardinality(None)
    BY DEF HeldSum
  <2> HIDE DEF JP, SP, None
  <2>6. /\ Cardinality(JobsTo(p)') = Cardinality(JobsTo(p)) - Cardinality(JP)
        /\ Cardinality(SpecsTo(p)') = Cardinality(SpecsTo(p)) - Cardinality(SP)
    BY <2>3, FiniteTo, FS_Difference
  <2>7. Cardinality(JP) \in Nat /\ Cardinality(SP) \in Nat
    <3>1. JP \in SUBSET JobsTo(p) /\ SP \in SUBSET SpecsTo(p)
      BY <2>3
    <3> QED BY <3>1, FiniteTo, FS_Subset, FS_CardinalityType
  <2>8. /\ One(pipes_hash' = p) = One(pipes_hash = p) - One(h /\ pipes_hash = p)
        /\ One(notif' = p) = One(notif = p) - One(t /\ notif = p)
        /\ One(h /\ pipes_hash = p) \in Nat /\ One(t /\ notif = p) \in Nat
        /\ One(pipes_hash = p) \in Nat /\ One(notif = p) \in Nat
    <3>1. NULL # p
      BY NamesAssumption
    <3> QED BY <3>1 DEF One
  <2>9. ref_count[p] = RefSum(p)
    BY DEF RefCountOK, Counted
  <2>10. RefSum(p)' = One(pipes_hash' = p) + One(notif' = p) + Cardinality(JobsTo(p)')
                      + Cardinality(SpecsTo(p)') + Cardinality(WritersTo(p)')
    BY DEF RefSum
  <2> QED BY <2>1, <2>2, <2>4, <2>5, <2>6, <2>7, <2>8, <2>9, <2>10, FiniteTo DEF RefSum
<1>2. ref_count' \in [Pipes -> Int]
  <2>1. ref_count' = [p \in Pipes |-> ref_count'[p]]
    BY DEF UnrefAll
  <2> QED BY <1>1, <2>1
<1> QED BY <1>1, <1>2 DEF RefCountOK, Counted

(* A reference taken for one more writer, or given back by one.            *)
LEMMA NotifyCounted ==
    ASSUME RefCountOK, WritesOK, NEW w \in Writers, NEW item, NEW x, Notify(w, item, x),
           write[w] = NoWrite, UNCHANGED <<pipes_hash, notif>>,
           \A p \in Pipes : JobsTo(p)' = JobsTo(p) /\ SpecsTo(p)' = SpecsTo(p)
    PROVE  RefCountOK'
<1>1. Ref(x) /\ write' = [write EXCEPT ![w] = [at |-> "test", pipe |-> x, item |-> item]]
  BY DEF Notify
<1>2. /\ ref_count' \in [Pipes -> Int]
      /\ \A p \in Pipes : ref_count'[p] = RefSum(p) + One(x = p)
  BY <1>1, RefIs
<1>3. ASSUME NEW p \in Pipes PROVE ref_count'[p] = RefSum(p)'
  <2>1. /\ w \notin WritersTo(p)
        /\ WritersTo(p)' = IF x = p THEN WritersTo(p) \cup {w} ELSE WritersTo(p)
    <3>1. /\ write'[w].at = "test" /\ write'[w].pipe = x
          /\ \A v \in Writers : v # w => write'[v] = write[v]
          /\ write[w].pipe = NULL /\ NULL # p
      BY <1>1, NamesAssumption DEF WritesOK, NoWrite
    <3>2. ASSUME NEW v \in Writers, v # w
          PROVE  v \in WritersTo(p)' <=> v \in WritersTo(p)
      BY <3>1, <3>2 DEF WritersTo
    <3>3. w \notin WritersTo(p) /\ (w \in WritersTo(p)' <=> x = p)
      BY <3>1 DEF WritersTo
    <3>4. WritersTo(p) \in SUBSET Writers /\ WritersTo(p)' \in SUBSET Writers
      BY DEF WritersTo
    <3>5. x = p => WritersTo(p)' = WritersTo(p) \cup {w}
      BY <3>2, <3>3, <3>4
    <3>6. x # p => WritersTo(p)' = WritersTo(p)
      BY <3>2, <3>3, <3>4
    <3> QED BY <3>3, <3>5, <3>6
  <2>2. Cardinality(WritersTo(p)') = Cardinality(WritersTo(p)) + One(x = p)
    <3>1. CASE x = p
      BY <2>1, <3>1, FiniteTo, AddedCount DEF One
    <3>2. CASE x # p
      BY <2>1, <3>2, FiniteTo DEF One
    <3> QED BY <3>1, <3>2
  <2>3. One(x = p) \in Nat /\ One(pipes_hash = p) \in Nat /\ One(notif = p) \in Nat
    BY DEF One
  <2>4. RefSum(p)' = One(pipes_hash' = p) + One(notif' = p) + Cardinality(JobsTo(p)')
                     + Cardinality(SpecsTo(p)') + Cardinality(WritersTo(p)')
    BY DEF RefSum
  <2> QED BY <1>2, <2>2, <2>3, <2>4, FiniteTo DEF RefSum
<1> QED BY <1>2, <1>3 DEF RefCountOK, Counted

(* The pointer of a write that ends is given back.                         *)
LEMMA WrittenCounted ==
    ASSUME RefCountOK, WritesOK, NEW w \in Writers, write[w].at # "report",
           Unref(write[w].pipe), write' = [write EXCEPT ![w] = write'[w]],
           write'[w] = NoWrite \/ write'[w].at = "report", UNCHANGED <<pipes_hash, notif>>,
           \A p \in Pipes : JobsTo(p)' = JobsTo(p) /\ SpecsTo(p)' = SpecsTo(p)
    PROVE  RefCountOK'
<1>1. /\ ref_count' \in [Pipes -> Int]
      /\ \A p \in Pipes : ref_count'[p] = RefSum(p) - One(write[w].pipe = p)
  BY UnrefIs
<1>2. ASSUME NEW p \in Pipes PROVE ref_count'[p] = RefSum(p)'
  <2>1. /\ WritersTo(p)' = WritersTo(p) \ {w}
        /\ w \in WritersTo(p) <=> write[w].pipe = p
    <3>1. /\ \A v \in Writers : v # w => write'[v] = write[v]
          /\ write'[w].at = "report" \/ write'[w].pipe = NULL
          /\ NULL # p
      BY NamesAssumption DEF WritesOK, NoWrite
    <3> QED BY <3>1 DEF WritersTo
  <2>2. Cardinality(WritersTo(p)') = Cardinality(WritersTo(p)) - One(w \in WritersTo(p))
    BY <2>1, FiniteTo, RemovedCount
  <2>3. /\ One(w \in WritersTo(p)) = One(write[w].pipe = p) /\ One(write[w].pipe = p) \in Nat
        /\ One(pipes_hash = p) \in Nat /\ One(notif = p) \in Nat
    BY <2>1 DEF One
  <2>4. RefSum(p)' = One(pipes_hash' = p) + One(notif' = p) + Cardinality(JobsTo(p)')
                     + Cardinality(SpecsTo(p)') + Cardinality(WritersTo(p)')
    BY DEF RefSum
  <2> QED BY <1>1, <2>2, <2>3, <2>4, FiniteTo DEF RefSum
<1> QED BY <1>1, <1>2 DEF RefCountOK, Counted

(* The pipe of a new job or SignalSpec, which a new ThreadData has, too.   *)
LEMMA ByThreadDataCounted ==
    ASSUME RefCountOK, EndsOK, RefByThreadData, UNCHANGED <<pipes_hash, write>>,
           NEW a, NEW b, a \in {0, 1}, b = 1 - a,
           \A p \in Pipes :
               /\ Cardinality(JobsTo(p)') = Cardinality(JobsTo(p))
                                           + (IF p = ThreadDataNotif THEN a ELSE 0)
               /\ Cardinality(SpecsTo(p)') = Cardinality(SpecsTo(p))
                                           + (IF p = ThreadDataNotif THEN b ELSE 0)
    PROVE  RefCountOK'
<1> DEFINE N == ThreadDataNotif
<1>1. /\ notif' = N /\ (td => notif = N) /\ (~td => notif = NULL)
      /\ ref_count' = [q \in Pipes |-> ref_count[q] +
                           (IF q # N THEN 0 ELSE IF td THEN 1 ELSE 2)]
  BY Zenon DEF RefByThreadData, ThreadDataNotif, EndsOK
<1>2. ref_count' \in [Pipes -> Int]
  BY <1>1 DEF RefCountOK
<1> HIDE DEF N
<1>3. ASSUME NEW p \in Pipes PROVE ref_count'[p] = RefSum(p)'
  <2>1. ref_count'[p] = RefSum(p) + (IF p # N THEN 0 ELSE IF td THEN 1 ELSE 2)
    BY <1>1 DEF RefCountOK, Counted
  <2>2. /\ Cardinality(JobsTo(p)') = Cardinality(JobsTo(p)) + (IF p = N THEN a ELSE 0)
        /\ Cardinality(SpecsTo(p)') = Cardinality(SpecsTo(p)) + (IF p = N THEN b ELSE 0)
    BY DEF N
  <2>3. One(notif' = p) = One(notif = p) + (IF p # N THEN 0 ELSE IF td THEN 0 ELSE 1)
    <3>1. p # NULL
      BY NamesAssumption
    <3>2. CASE p # N
      BY <1>1, <3>1, <3>2 DEF One
    <3>3. CASE p = N /\ td
      BY <1>1, <3>3 DEF One
    <3>4. CASE p = N /\ ~td
      BY <1>1, <3>1, <3>4 DEF One
    <3> QED BY <3>2, <3>3, <3>4
  <2>4. WritersTo(p)' = WritersTo(p)
    BY DEF WritersTo
  <2>5. One(pipes_hash = p) \in Nat /\ One(notif = p) \in Nat
    BY DEF One
  <2>6. RefSum(p)' = One(pipes_hash' = p) + One(notif' = p) + Cardinality(JobsTo(p)')
                     + Cardinality(SpecsTo(p)') + Cardinality(WritersTo(p)')
    BY DEF RefSum
  <2>7. RefSum(p) = One(pipes_hash = p) + One(notif = p) + Cardinality(JobsTo(p))
                     + Cardinality(SpecsTo(p)) + Cardinality(WritersTo(p))
    BY DEF RefSum
  <2>8. pipes_hash' = pipes_hash
    OBVIOUS
  <2>9. /\ (IF p # N THEN 0 ELSE IF td THEN 1 ELSE 2)
           = (IF p # N THEN 0 ELSE IF td THEN 0 ELSE 1) + (IF p = N THEN a + b ELSE 0)
        /\ (IF p = N THEN a ELSE 0) + (IF p = N THEN b ELSE 0) = (IF p = N THEN a + b ELSE 0)
        /\ (IF p = N THEN a ELSE 0) \in Nat /\ (IF p = N THEN b ELSE 0) \in Nat
        /\ (IF p # N THEN 0 ELSE IF td THEN 0 ELSE 1) \in Nat
    OBVIOUS
  <2> QED BY <2>1, <2>2, <2>3, <2>4, <2>5, <2>6, <2>7, <2>8, <2>9, FiniteTo
<1> QED BY <1>2, <1>3 DEF RefCountOK, Counted

(* A spec that was not created has no reference.                           *)
LEMMA NotCreated ==
    ASSUME SpecsCounted, JobsOK, SpecsOK, NEW s \in Specs \ created
    PROVE  spec_refs[s] = 0 \/ pc = "callback"
<1>1. Count(from_worker, s) = 0
  BY CountNone DEF JobsOK, JobTypes, SpecsOK
<1> QED BY <1>1 DEF SpecsCounted, SpecSum, SpecsOK, One

(* No spec's count gets below zero.                                        *)
LEMMA SpecsPositive ==
    ASSUME SpecsCounted, JobsOK
    PROVE  /\ \A s \in Specs : spec_refs[s] \in Nat
           /\ \A s \in Specs : s \in signals_list => spec_refs[s] > 0
           /\ pc = "callback" /\ subject \in Specs => spec_refs[subject] > 0
<1>1. \A s \in Specs : Count(from_worker, s) \in Nat
  BY CountNat DEF JobsOK, JobTypes
<1> QED BY <1>1 DEF SpecsCounted, SpecSum, One

(* No step breaks RefCountOK.                                              *)
LEMMA RefCountStep ==
    ASSUME RefCountOK, EndsOK, JobsOK, SpecsOK, WritesOK, SpecsCounted, [Next]_vars
    PROVE  RefCountOK'
<1> USE DEF channelVars, tdVars, endVars, jobVars, specVars, callVars
<1>1. /\ write \in [Writers -> [at : {"none", "test", "write", "failed", "report"},
                                pipe : Pipes \cup {NULL}, item : Items \cup {NULL}]]
      /\ stage \in [Jobs -> {"new", "queued", "cancelled", "running",
                              "pushed", "popped", "freed"}]
      /\ job_notif \in [Jobs -> made \cup {NULL}]
      /\ spec_notif \in [Specs -> made \cup {NULL}]
      /\ \A p \in Pipes : p # NULL
      /\ signals_list \subseteq Specs /\ made \subseteq Pipes
  BY NamesAssumption DEF WritesOK, JobsOK, JobTypes, EndsOK, SpecsOK
<1>2. ASSUME UNCHANGED <<ref_count, pipes_hash, notif, job_notif, spec_notif>>,
             \A j \in Jobs : stage'[j] = "freed" <=> stage[j] = "freed",
             \A s \in Specs : spec_refs'[s] > 0 <=> spec_refs[s] > 0,
             \A p \in Pipes : \A w \in Writers :
               write'[w].at # "report" /\ write'[w].pipe = p
               <=> write[w].at # "report" /\ write[w].pipe = p
      PROVE  RefCountOK'
  <2>1. ASSUME NEW p \in Pipes
        PROVE  /\ JobsTo(p)' = JobsTo(p) /\ SpecsTo(p)' = SpecsTo(p)
               /\ WritersTo(p)' = WritersTo(p)
    BY <1>2, JobsToFrame, SpecsToFrame, WritersToFrame
  <2> QED BY <1>2, <2>1, RefsUnchanged
<1>3. CASE \/ UnsetChannel \/ Read \/ Shutdown \/ DisposeCalled \/ Iterate \/ PopNothing
           \/ UNCHANGED vars
  <2>1. UNCHANGED <<ref_count, pipes_hash, notif, job_notif, spec_notif, stage, spec_refs, write>>
    BY <1>3 DEF UnsetChannel, Read, Shutdown, DisposeCalled, Enter, Iterate, PopNothing, vars
  <2> QED BY <1>2, <2>1
<1>4. ASSUME NEW s \in Specs, DisconnectCalled(s) PROVE RefCountOK'
  <2>1. UNCHANGED <<ref_count, pipes_hash, notif, job_notif, spec_notif, stage, spec_refs, write>>
    BY <1>4 DEF DisconnectCalled, Enter
  <2> QED BY <1>2, <2>1
<1>5. CASE Pop
  <2> DEFINE item == Head(from_worker)
  <2>1. /\ UNCHANGED <<ref_count, pipes_hash, notif, job_notif, spec_notif, spec_refs, write>>
        /\ from_worker # <<>>
        /\ stage' = [j \in Jobs |-> IF j = item THEN "popped" ELSE stage[j]]
    BY <1>5 DEF Pop
  <2>2. item \in Jobs => stage[item] = "pushed"
    <3>1. item = from_worker[1] /\ 1 \in 1..Len(from_worker)
      BY <2>1, HeadTail DEF JobsOK, JobTypes
    <3> HIDE DEF item
    <3> QED BY <3>1 DEF JobsOK, PushedJobs
  <2> HIDE DEF item
  <2>3. \A j \in Jobs : stage'[j] = "freed" <=> stage[j] = "freed"
    BY <2>1, <2>2
  <2> QED BY <1>2, <2>1, <2>3
<1>6. ASSUME NEW j \in Jobs, Cancel(j) PROVE RefCountOK'
  <2>1. /\ UNCHANGED <<ref_count, pipes_hash, notif, job_notif, spec_notif, spec_refs, write>>
        /\ stage[j] = "queued" /\ stage' = [stage EXCEPT ![j] = "cancelled"]
    BY <1>6 DEF Cancel
  <2>2. \A k \in Jobs : stage'[k] = "freed" <=> stage[k] = "freed"
    BY <1>1, <2>1
  <2> QED BY <1>2, <2>1, <2>2
<1>7. CASE GetChannel
  <2>1. UNCHANGED <<notif, job_notif, spec_notif, stage, spec_refs, write>>
    BY <1>7 DEF GetChannel
  <2>2. CASE UNCHANGED <<pipes_hash, ref_count>>
    BY <1>2, <2>1, <2>2
  <2>3. CASE ~UNCHANGED <<pipes_hash, ref_count>>
    <3>1. PICK q \in Pipes : pipes_hash = NULL /\ pipes_hash' = q /\ Ref(q)
      BY <1>1, <1>7, <2>3 DEF GetChannel
    <3>2. /\ ref_count' \in [Pipes -> Int]
          /\ \A p \in Pipes : ref_count'[p] = RefSum(p) + One(q = p)
      BY <3>1, RefIs
    <3>3. ASSUME NEW p \in Pipes PROVE ref_count'[p] = RefSum(p)'
      <4>1. /\ JobsTo(p)' = JobsTo(p) /\ SpecsTo(p)' = SpecsTo(p)
            /\ WritersTo(p)' = WritersTo(p)
        BY <2>1, JobsToFrame, SpecsToFrame, WritersToFrame
      <4>2. One(pipes_hash' = p) = One(q = p) /\ One(pipes_hash = p) = 0
        BY <1>1, <3>1 DEF One
      <4>3. One(q = p) \in Nat /\ One(notif = p) \in Nat /\ notif' = notif
        BY <2>1 DEF One
      <4>4. RefSum(p)' = One(pipes_hash' = p) + One(notif' = p) + Cardinality(JobsTo(p)')
                         + Cardinality(SpecsTo(p)') + Cardinality(WritersTo(p)')
        BY DEF RefSum
      <4> QED BY <3>2, <4>1, <4>2, <4>3, <4>4, FiniteTo DEF RefSum
    <3> QED BY <3>2, <3>3 DEF RefCountOK, Counted
  <2> QED BY <2>2, <2>3
<1>8. CASE Execute
  <2> DEFINE j == submitted + 1
  <2>1. /\ submitted < MaxJobs /\ stage' = [stage EXCEPT ![j] = "queued"]
        /\ job_notif' = [job_notif EXCEPT ![j] = ThreadDataNotif]
        /\ RefByThreadData /\ UNCHANGED <<pipes_hash, spec_notif, spec_refs, write>>
    BY <1>8 DEF Execute
  <2>2. j \in Jobs /\ stage[j] = "new" /\ job_notif[j] = NULL
    BY <2>1, BoundsAssumption DEF JobsOK, JobTypes, NewJobs, Jobs
  <2> HIDE DEF j
  <2>3. ASSUME NEW p \in Pipes
        PROVE  /\ Cardinality(JobsTo(p)') = Cardinality(JobsTo(p))
                                           + (IF p = ThreadDataNotif THEN 1 ELSE 0)
               /\ Cardinality(SpecsTo(p)') = Cardinality(SpecsTo(p))
                                           + (IF p = ThreadDataNotif THEN 0 ELSE 0)
    <3>1. /\ j \notin JobsTo(p)
          /\ JobsTo(p)' = IF p = ThreadDataNotif THEN JobsTo(p) \cup {j} ELSE JobsTo(p)
      <4>1. j \notin JobsTo(p) /\ (j \in JobsTo(p)' <=> p = ThreadDataNotif)
        BY <1>1, <2>1, <2>2 DEF JobsTo
      <4>2. \A k \in Jobs \ {j} : k \in JobsTo(p)' <=> k \in JobsTo(p)
        BY <1>1, <2>1, <2>2 DEF JobsTo
      <4>3. JobsTo(p) \in SUBSET Jobs /\ JobsTo(p)' \in SUBSET Jobs
        BY DEF JobsTo
      <4>4. p = ThreadDataNotif => JobsTo(p)' = JobsTo(p) \cup {j}
        BY <2>2, <4>1, <4>2, <4>3
      <4>5. p # ThreadDataNotif => JobsTo(p)' = JobsTo(p)
        BY <2>2, <4>1, <4>2, <4>3
      <4> QED BY <4>1, <4>4, <4>5
    <3>2. SpecsTo(p)' = SpecsTo(p)
      BY <2>1, SpecsToFrame
    <3>3. Cardinality(JobsTo(p)') = Cardinality(JobsTo(p)) + One(p = ThreadDataNotif)
      <4>1. CASE p = ThreadDataNotif
        BY <3>1, <4>1, FiniteTo, AddedCount DEF One
      <4>2. CASE p # ThreadDataNotif
        BY <3>1, <4>2, FiniteTo DEF One
      <4> QED BY <4>1, <4>2
    <3> QED BY <3>2, <3>3, FiniteTo DEF One
  <2> QED BY <2>1, <2>3, ByThreadDataCounted
<1>9. ASSUME NEW s \in Specs, Connect(s) PROVE RefCountOK'
  <2>1. /\ s \notin created /\ pc = "idle" /\ spec_refs' = [spec_refs EXCEPT ![s] = 1]
        /\ spec_notif' = [spec_notif EXCEPT ![s] = ThreadDataNotif]
        /\ RefByThreadData /\ UNCHANGED <<pipes_hash, job_notif, stage, write>>
    BY <1>9 DEF Connect, CanCall
  <2>2. spec_refs[s] = 0 /\ spec_refs \in [Specs -> Int]
    BY <2>1, NotCreated DEF SpecsCounted
  <2>3. ASSUME NEW p \in Pipes
        PROVE  /\ Cardinality(JobsTo(p)') = Cardinality(JobsTo(p))
                                           + (IF p = ThreadDataNotif THEN 0 ELSE 0)
               /\ Cardinality(SpecsTo(p)') = Cardinality(SpecsTo(p))
                                           + (IF p = ThreadDataNotif THEN 1 ELSE 0)
    <3>1. /\ s \notin SpecsTo(p)
          /\ SpecsTo(p)' = IF p = ThreadDataNotif THEN SpecsTo(p) \cup {s} ELSE SpecsTo(p)
      <4>1. s \notin SpecsTo(p) /\ (s \in SpecsTo(p)' <=> p = ThreadDataNotif)
        BY <1>1, <2>1, <2>2 DEF SpecsTo
      <4>2. \A k \in Specs \ {s} : k \in SpecsTo(p)' <=> k \in SpecsTo(p)
        BY <1>1, <2>1, <2>2 DEF SpecsTo
      <4>3. SpecsTo(p) \in SUBSET Specs /\ SpecsTo(p)' \in SUBSET Specs
        BY DEF SpecsTo
      <4>4. p = ThreadDataNotif => SpecsTo(p)' = SpecsTo(p) \cup {s}
        BY <4>1, <4>2, <4>3
      <4>5. p # ThreadDataNotif => SpecsTo(p)' = SpecsTo(p)
        BY <4>1, <4>2, <4>3
      <4> QED BY <4>1, <4>4, <4>5
    <3>2. JobsTo(p)' = JobsTo(p)
      BY <2>1, JobsToFrame
    <3>3. Cardinality(SpecsTo(p)') = Cardinality(SpecsTo(p)) + One(p = ThreadDataNotif)
      <4>1. CASE p = ThreadDataNotif
        BY <3>1, <4>1, FiniteTo, AddedCount DEF One
      <4>2. CASE p # ThreadDataNotif
        BY <3>1, <4>2, FiniteTo DEF One
      <4> QED BY <4>1, <4>2
    <3> QED BY <3>2, <3>3, FiniteTo DEF One
  <2> QED BY <2>1, <2>3, ByThreadDataCounted
<1>10. ASSUME NEW j \in Jobs, FetchResult(j) PROVE RefCountOK'
  <2> DEFINE gone == Useless({j}, signals_list)
  <2>1. /\ stage[j] = "popped" /\ stage' = [stage EXCEPT ![j] = "freed"]
        /\ notif' = (IF gone THEN NULL ELSE notif)
        /\ UnrefAll({JobRef(j)} \cup (IF gone THEN {TdRef} ELSE {}))
        /\ UNCHANGED <<pipes_hash, job_notif, spec_notif, spec_refs, write>>
    BY <1>10 DEF FetchResult
  <2>2. gone \in BOOLEAN
    BY Zenon DEF Useless
  <2> HIDE DEF gone
  <2>3. {JobRef(j)} \cup (IF gone THEN {TdRef} ELSE {}) = Held(FALSE, gone, {j}, {}, {})
    BY DEF Held
  <2>4. \A p \in Pipes : JobsTo(p)' = JobsTo(p) \ {j} /\ SpecsTo(p)' = SpecsTo(p) \ {}
    BY <1>1, <2>1 DEF JobsTo, SpecsTo
  <2>5. /\ FALSE \in BOOLEAN /\ {j} \in SUBSET Jobs /\ {} \in SUBSET Specs
        /\ UnrefAll(Held(FALSE, gone, {j}, {}, {}))
        /\ pipes_hash' = (IF FALSE THEN NULL ELSE pipes_hash)
        /\ \A k \in {j} : stage[k] # "freed"
    BY <2>1, <2>3
  <2> QED BY <2>1, <2>2, <2>4, <2>5, UnrefAllCounted
<1>11. CASE Disconnect
  <2> DEFINE gone == Useless({}, signals_list \ {subject})
             last == spec_refs[subject] = 1
             S == IF last THEN {subject} ELSE {}
  <2>1. /\ pc = "disconnect" /\ spec_refs' = [spec_refs EXCEPT ![subject] = @ - 1]
        /\ notif' = (IF gone THEN NULL ELSE notif)
        /\ UnrefAll((IF gone THEN {TdRef} ELSE {}) \cup (IF last THEN {SpecRef(subject)} ELSE {}))
        /\ UNCHANGED <<pipes_hash, job_notif, spec_notif, stage, write>>
    BY <1>11 DEF Disconnect
  <2>2. gone \in BOOLEAN
    BY Zenon DEF Useless
  <2>3. subject \in Specs /\ spec_refs[subject] \in Nat /\ spec_refs[subject] > 0
    BY <1>1, <2>1, SpecsPositive DEF SpecsOK
  <2> HIDE DEF gone
  <2>4. (IF gone THEN {TdRef} ELSE {}) \cup (IF last THEN {SpecRef(subject)} ELSE {})
        = Held(FALSE, gone, {}, S, {})
    BY DEF Held
  <2>5. \A p \in Pipes : JobsTo(p)' = JobsTo(p) \ {} /\ SpecsTo(p)' = SpecsTo(p) \ S
    BY <2>1, <2>3 DEF JobsTo, SpecsTo, SpecsCounted
  <2>6. /\ FALSE \in BOOLEAN /\ {} \in SUBSET Jobs /\ S \in SUBSET Specs
        /\ UnrefAll(Held(FALSE, gone, {}, S, {}))
        /\ pipes_hash' = (IF FALSE THEN NULL ELSE pipes_hash)
        /\ \A s \in S : spec_refs[s] > 0
    BY <2>1, <2>3, <2>4
  <2> HIDE DEF S, last
  <2> QED BY <2>1, <2>2, <2>5, <2>6, UnrefAllCounted
<1>12. CASE CleanNotifications
  <2> DEFINE S == {s \in signals_list : spec_notif[s] = notif}
  <2>1. /\ UnrefAll({TdRef, HashRef} \cup {SpecRef(s) : s \in S})
        /\ spec_notif' = [s \in Specs |-> IF s \in S THEN NULL ELSE spec_notif[s]]
        /\ notif' = NULL /\ pipes_hash' = NULL
        /\ UNCHANGED <<job_notif, spec_refs, stage, write>>
    BY <1>12 DEF CleanNotifications
  <2>2. {TdRef, HashRef} \cup {SpecRef(s) : s \in S} = Held(TRUE, TRUE, {}, S, {})
    BY DEF Held
  <2>3. S \in SUBSET Specs /\ \A s \in S : spec_refs[s] > 0
    BY <1>1, SpecsPositive
  <2>4. \A p \in Pipes : JobsTo(p)' = JobsTo(p) \ {} /\ SpecsTo(p)' = SpecsTo(p) \ S
    BY <1>1, <2>1 DEF JobsTo, SpecsTo
  <2> HIDE DEF S
  <2>5. /\ TRUE \in BOOLEAN /\ {} \in SUBSET Jobs
        /\ UnrefAll(Held(TRUE, TRUE, {}, S, {}))
        /\ pipes_hash' = (IF TRUE THEN NULL ELSE pipes_hash)
        /\ notif' = (IF TRUE THEN NULL ELSE notif)
    BY <2>1, <2>2
  <2> QED BY <2>1, <2>3, <2>4, <2>5, UnrefAllCounted
<1>13. CASE Dispose
  <2> DEFINE J == {j \in Jobs : stage[j] = "popped"}
             S == {s \in signals_list : spec_refs[s] = 1}
  <2>1. /\ UnrefAll({TdRef, HashRef} \cup {JobRef(j) : j \in J} \cup {SpecRef(s) : s \in S})
        /\ stage' = [j \in Jobs |-> IF j \in J THEN "freed"
                                    ELSE IF stage[j] = "queued" THEN "cancelled"
                                    ELSE stage[j]]
        /\ spec_refs' = [s \in Specs |-> spec_refs[s] - (IF s \in signals_list THEN 1 ELSE 0)]
        /\ notif' = NULL /\ pipes_hash' = NULL
        /\ UNCHANGED <<job_notif, spec_notif, write>>
    BY <1>13 DEF Dispose
  <2>2. {TdRef, HashRef} \cup {JobRef(j) : j \in J} \cup {SpecRef(s) : s \in S}
        = Held(TRUE, TRUE, J, S, {})
    BY DEF Held
  <2>3. /\ J \in SUBSET Jobs /\ S \in SUBSET Specs
        /\ \A s \in S : spec_refs[s] > 0 /\ \A j \in J : stage[j] # "freed"
    BY <1>1, SpecsPositive
  <2>4. \A p \in Pipes : JobsTo(p)' = JobsTo(p) \ J
    BY <1>1, <2>1 DEF JobsTo
  <2>5. \A s \in Specs : spec_refs'[s] > 0 <=> spec_refs[s] > 0 /\ s \notin S
    BY <1>1, <2>1, SpecsPositive
  <2>6. \A p \in Pipes : SpecsTo(p)' = SpecsTo(p) \ S
    <3> HIDE DEF S
    <3> QED BY <2>1, <2>5 DEF SpecsTo
  <2>7. \A j \in J : stage[j] # "freed"
    OBVIOUS
  <2> HIDE DEF J, S
  <2>8. /\ TRUE \in BOOLEAN
        /\ UnrefAll(Held(TRUE, TRUE, J, S, {}))
        /\ pipes_hash' = (IF TRUE THEN NULL ELSE pipes_hash)
        /\ notif' = (IF TRUE THEN NULL ELSE notif)
    BY <2>1, <2>2
  <2> QED BY <2>1, <2>3, <2>4, <2>6, <2>7, <2>8, UnrefAllCounted
<1>14. CASE CallbackReturns
  <2>1. /\ pc = "callback" /\ spec_refs' = [spec_refs EXCEPT ![subject] = @ - 1]
        /\ IF spec_refs[subject] = 1
           THEN Unref(spec_notif[subject]) ELSE UNCHANGED ref_count
        /\ UNCHANGED <<pipes_hash, notif, job_notif, spec_notif, stage, write>>
    BY <1>14 DEF CallbackReturns
  <2>2. subject \in Specs /\ spec_refs[subject] \in Nat /\ spec_refs[subject] > 0
    BY <2>1, SpecsPositive DEF SpecsOK
  <2>3. CASE spec_refs[subject] # 1
    <3>1. \A s \in Specs : spec_refs'[s] > 0 <=> spec_refs[s] > 0
      BY <2>1, <2>2, <2>3 DEF SpecsCounted
    <3> QED BY <1>2, <2>1, <2>3, <3>1
  <2>4. CASE spec_refs[subject] = 1
    <3>1. /\ ref_count' \in [Pipes -> Int]
          /\ \A p \in Pipes : ref_count'[p] = RefSum(p) - One(spec_notif[subject] = p)
      BY <2>1, <2>4, UnrefIs
    <3>2. ASSUME NEW p \in Pipes PROVE ref_count'[p] = RefSum(p)'
      <4>1. /\ SpecsTo(p)' = SpecsTo(p) \ {subject}
            /\ subject \in SpecsTo(p) <=> spec_notif[subject] = p
        BY <2>1, <2>2, <2>4 DEF SpecsTo, SpecsCounted
      <4>2. Cardinality(SpecsTo(p)') = Cardinality(SpecsTo(p)) - One(subject \in SpecsTo(p))
        BY <4>1, FiniteTo, RemovedCount
      <4>3. JobsTo(p)' = JobsTo(p) /\ WritersTo(p)' = WritersTo(p)
        BY <2>1, JobsToFrame, WritersToFrame
      <4>4. /\ One(subject \in SpecsTo(p)) = One(spec_notif[subject] = p)
            /\ One(spec_notif[subject] = p) \in Nat
            /\ One(pipes_hash = p) \in Nat /\ One(notif = p) \in Nat
            /\ pipes_hash' = pipes_hash /\ notif' = notif
        BY <2>1, <4>1 DEF One
      <4>5. RefSum(p)' = One(pipes_hash' = p) + One(notif' = p) + Cardinality(JobsTo(p)')
                         + Cardinality(SpecsTo(p)') + Cardinality(WritersTo(p)')
        BY DEF RefSum
      <4> QED BY <3>1, <4>2, <4>3, <4>4, <4>5, FiniteTo DEF RefSum
    <3> QED BY <3>1, <3>2 DEF RefCountOK, Counted
  <2> QED BY <2>3, <2>4
<1>15. CASE WorkerPop
  <2> DEFINE j == Head(to_worker)
  <2>1. /\ to_worker # <<>>
        /\ IF stage[j] = "cancelled"
           THEN stage' = [stage EXCEPT ![j] = "freed"] /\ Unref(job_notif[j])
           ELSE stage' = [stage EXCEPT ![j] = "running"] /\ UNCHANGED ref_count
        /\ UNCHANGED <<pipes_hash, notif, job_notif, spec_notif, spec_refs, write>>
    BY <1>15 DEF WorkerPop
  <2>2. j \in Jobs /\ stage[j] # "freed"
    <3>1. j = to_worker[1] /\ 1 \in 1..Len(to_worker) /\ j \in Jobs
      BY <2>1, HeadTail DEF JobsOK, JobTypes
    <3> HIDE DEF j
    <3> QED BY <3>1 DEF JobsOK, QueuedJobs
  <2> HIDE DEF j
  <2>3. CASE stage[j] # "cancelled"
    <3>1. \A k \in Jobs : stage'[k] = "freed" <=> stage[k] = "freed"
      BY <1>1, <2>1, <2>2, <2>3
    <3> QED BY <1>2, <2>1, <2>3, <3>1
  <2>4. CASE stage[j] = "cancelled"
    <3>1. /\ ref_count' \in [Pipes -> Int]
          /\ \A p \in Pipes : ref_count'[p] = RefSum(p) - One(job_notif[j] = p)
      BY <2>1, <2>4, UnrefIs
    <3>2. ASSUME NEW p \in Pipes PROVE ref_count'[p] = RefSum(p)'
      <4>1. /\ JobsTo(p)' = JobsTo(p) \ {j}
            /\ j \in JobsTo(p) <=> job_notif[j] = p
        BY <1>1, <2>1, <2>2, <2>4 DEF JobsTo
      <4>2. Cardinality(JobsTo(p)') = Cardinality(JobsTo(p)) - One(j \in JobsTo(p))
        BY <4>1, FiniteTo, RemovedCount
      <4>3. SpecsTo(p)' = SpecsTo(p) /\ WritersTo(p)' = WritersTo(p)
        BY <2>1, SpecsToFrame, WritersToFrame
      <4>4. /\ One(j \in JobsTo(p)) = One(job_notif[j] = p)
            /\ One(job_notif[j] = p) \in Nat
            /\ One(pipes_hash = p) \in Nat /\ One(notif = p) \in Nat
            /\ pipes_hash' = pipes_hash /\ notif' = notif
        BY <2>1, <4>1 DEF One
      <4>5. RefSum(p)' = One(pipes_hash' = p) + One(notif' = p) + Cardinality(JobsTo(p)')
                         + Cardinality(SpecsTo(p)') + Cardinality(WritersTo(p)')
        BY DEF RefSum
      <4> QED BY <3>1, <4>2, <4>3, <4>4, <4>5, FiniteTo DEF RefSum
    <3> QED BY <3>1, <3>2 DEF RefCountOK, Counted
  <2> QED BY <2>3, <2>4
<1>16. CASE WorkerReply
  <2>1. /\ current \in Jobs /\ stage[current] = "running" /\ write[Worker] = NoWrite
        /\ Notify(Worker, current, job_notif[current])
        /\ stage' = [stage EXCEPT ![current] = "pushed"]
        /\ UNCHANGED <<pipes_hash, notif, job_notif, spec_notif, spec_refs>>
    BY <1>16 DEF WorkerReply, JobsOK, JobTypes, CurrentJob
  <2>2. \A p \in Pipes : JobsTo(p)' = JobsTo(p) /\ SpecsTo(p)' = SpecsTo(p)
    <3>1. \A k \in Jobs : stage'[k] = "freed" <=> stage[k] = "freed"
      BY <1>1, <2>1
    <3> QED BY <2>1, <3>1, JobsToFrame, SpecsToFrame
  <2>3. Worker \in Writers
    BY DEF Writers
  <2> QED BY <2>1, <2>2, <2>3, NotifyCounted
<1>17. ASSUME NEW w \in Writers, NEW s \in Specs, Emit(w, s) PROVE RefCountOK'
  <2>1. /\ s \in signals_list /\ write[w] = NoWrite /\ Notify(w, s, spec_notif[s])
        /\ spec_refs' = [spec_refs EXCEPT ![s] = @ + 1]
        /\ UNCHANGED <<pipes_hash, notif, job_notif, spec_notif, stage>>
    BY <1>17 DEF Emit
  <2>2. \A p \in Pipes : JobsTo(p)' = JobsTo(p) /\ SpecsTo(p)' = SpecsTo(p)
    <3>1. \A t \in Specs : spec_refs'[t] > 0 <=> spec_refs[t] > 0
      BY <2>1, SpecsPositive DEF SpecsCounted
    <3> QED BY <2>1, <3>1, JobsToFrame, SpecsToFrame
  <2> QED BY <2>1, <2>2, NotifyCounted
<1>18. ASSUME NEW w \in Writers, NothingToWrite(w) \/ Write(w) \/ WriteFails(w)
       PROVE  RefCountOK'
  <2>1. /\ write[w].at \in {"test", "write"} /\ Unref(write[w].pipe)
        /\ UNCHANGED <<pipes_hash, notif, job_notif, spec_notif, stage, spec_refs>>
        /\ \/ write' = [write EXCEPT ![w] = NoWrite]
           \/ write' = [write EXCEPT ![w].at = "report"]
    BY <1>18 DEF NothingToWrite, Write, WriteFails
  <2>2. \A p \in Pipes : JobsTo(p)' = JobsTo(p) /\ SpecsTo(p)' = SpecsTo(p)
    BY <2>1, JobsToFrame, SpecsToFrame
  <2>3. write' = [write EXCEPT ![w] = write'[w]] /\ (write'[w] = NoWrite \/ write'[w].at = "report")
    BY <1>1, <2>1
  <2>4. write[w].at # "report"
    BY <2>1
  <2> QED BY <2>1, <2>2, <2>3, <2>4, WrittenCounted
<1>19. ASSUME NEW w \in Writers, WriteBegin(w) \/ WriteElsewhere(w) \/ Report(w)
       PROVE  RefCountOK'
  <2>1. UNCHANGED <<ref_count, pipes_hash, notif, job_notif, spec_notif, stage, spec_refs>>
    BY <1>19 DEF WriteBegin, WriteElsewhere, Report
  <2>2. \/ write[w].at = "test" /\ write' = [write EXCEPT ![w].at = "write"]
        \/ write[w].at = "report" /\ write' = [write EXCEPT ![w] = NoWrite]
        \/ UNCHANGED write
    BY <1>19 DEF WriteBegin, WriteElsewhere, Report
  <2>3. \A p \in Pipes : \A v \in Writers :
               write'[v].at # "report" /\ write'[v].pipe = p
               <=> write[v].at # "report" /\ write[v].pipe = p
    BY <1>1, <2>2 DEF NoWrite
  <2> QED BY <1>2, <2>1, <2>3
<1> QED BY <1>3, <1>4, <1>5, <1>6, <1>7, <1>8, <1>9, <1>10, <1>11, <1>12, <1>13, <1>14,
           <1>15, <1>16, <1>17, <1>18, <1>19 DEF Next, Owner, OwnerReturns, Writing


-----------------------------------------------------------------------------
(* The owner is told.  What a writer has in hand goes to the pipe the item *)
(* has, so that it is missed by no other.                                  *)
LEMMA WritesToItsPipe ==
    ASSUME WritesOK, SpecsOK, NEW w \in Writers, NEW x \in Items, write[w].item = x
    PROVE  /\ Writes(w, write[w]) /\ write[w].pipe = ItemPipe(x)
           /\ write[w].at = "report" => ItemPipe(x) \notin writing
<1>1. write[w] # NoWrite
  BY NamesAssumption DEF NoWrite
<1>2. Writes(w, write[w])
  BY <1>1 DEF WritesOK
<1> QED BY <1>2, NamesAssumption DEF Writes, ItemPipe, SpecsOK

(* No step breaks Notified.                                                *)
LEMMA NotifiedStep ==
    ASSUME Notified, EndsOK, ContentOK, JobsOK, SpecsOK, WritesOK, [Next]_vars
    PROVE  Notified'
<1> USE DEF channelVars, tdVars, endVars, jobVars, specVars, callVars
<1>1. /\ write \in [Writers -> [at : {"none", "test", "write", "failed", "report"},
                                pipe : Pipes \cup {NULL}, item : Items \cup {NULL}]]
      /\ from_worker \in Seq(Items) /\ content \in [Pipes -> Seq(Items)]
      /\ made \subseteq Pipes /\ writing \subseteq made /\ signals_list \subseteq Specs
      /\ job_notif \in [Jobs -> made \cup {NULL}] /\ spec_notif \in [Specs -> made \cup {NULL}]
      /\ NULL \notin Pipes /\ NULL \notin Items
  BY NamesAssumption DEF WritesOK, JobsOK, JobTypes, EndsOK, ContentOK, SpecsOK
<1>2. ASSUME NEW x \in Items \ {Failure}, In(x, from_worker)
      PROVE  /\ x \in Jobs => stage[x] = "pushed" /\ x <= submitted
             /\ x \notin Jobs => x \in Specs /\ x \in created
  BY <1>2 DEF In, JobsOK, PushedJobs, NewJobs, JobTypes, SpecsOK, Items, Jobs
<1>3. ASSUME NEW x \in Items \ {Failure}, UNCHANGED <<job_notif, spec_notif>>
      PROVE  ItemPipe(x)' = ItemPipe(x)
  BY <1>3 DEF ItemPipe
<1>4. ASSUME UNCHANGED <<told, write, content, writing, from_worker>>,
             \A x \in Items \ {Failure} : In(x, from_worker) =>
                 ItemPipe(x)' = ItemPipe(x) \/ ItemPipe(x)' = NULL
      PROVE  Notified'
  <2> SUFFICES ASSUME NEW x \in Items \ {Failure},
                      In(x, from_worker)', ItemPipe(x)' \in writing'
               PROVE  ToldOf(x)'
    BY DEF Notified
  <2>1. In(x, from_worker) /\ ItemPipe(x)' = ItemPipe(x) /\ ItemPipe(x) \in writing
    BY <1>1, <1>4 DEF In
  <2> QED BY <1>4, <2>1 DEF Notified, ToldOf, In
<1>5. CASE \/ UnsetChannel \/ Shutdown \/ Iterate \/ DisposeCalled \/ Disconnect \/ Dispose
           \/ CallbackReturns \/ WorkerPop \/ UNCHANGED vars
  <2>1. UNCHANGED <<told, write, content, writing, from_worker, job_notif, spec_notif>>
    BY <1>5 DEF UnsetChannel, Shutdown, Iterate, DisposeCalled, Enter, Disconnect, Dispose,
                CallbackReturns, WorkerPop, vars
  <2> QED BY <1>3, <1>4, <2>1
<1>6. ASSUME NEW s \in Specs, DisconnectCalled(s) PROVE Notified'
  <2>1. UNCHANGED <<told, write, content, writing, from_worker, job_notif, spec_notif>>
    BY <1>6 DEF DisconnectCalled, Enter
  <2> QED BY <1>3, <1>4, <2>1
<1>7. ASSUME NEW j \in Jobs, Cancel(j) \/ FetchResult(j) PROVE Notified'
  <2>1. UNCHANGED <<told, write, content, writing, from_worker, job_notif, spec_notif>>
    BY <1>7 DEF Cancel, FetchResult
  <2> QED BY <1>3, <1>4, <2>1
<1>8. ASSUME NEW w \in Writers, WriteElsewhere(w) PROVE Notified'
  <2>1. UNCHANGED <<told, write, content, writing, from_worker, job_notif, spec_notif>>
    BY <1>8 DEF WriteElsewhere
  <2> QED BY <1>3, <1>4, <2>1
<1>9. CASE CleanNotifications
  <2>1. /\ UNCHANGED <<told, write, content, writing, from_worker, job_notif>>
        /\ \A s \in Specs : spec_notif'[s] = spec_notif[s] \/ spec_notif'[s] = NULL
    BY <1>9 DEF CleanNotifications
  <2> QED BY <1>2, <1>4, <2>1 DEF ItemPipe
<1>10. CASE Execute
  <2>1. /\ UNCHANGED <<told, write, content, writing, from_worker, spec_notif>>
        /\ job_notif' = [job_notif EXCEPT ![submitted + 1] = ThreadDataNotif]
    BY <1>10 DEF Execute
  <2>2. submitted \in Nat
    BY DEF JobsOK, JobTypes
  <2>3. \A k \in Jobs : k <= submitted => job_notif'[k] = job_notif[k]
    BY <1>1, <2>1, <2>2 DEF Jobs
  <2> QED BY <1>2, <1>4, <2>1, <2>3 DEF ItemPipe
<1>11. ASSUME NEW s \in Specs, Connect(s) PROVE Notified'
  <2>1. /\ UNCHANGED <<told, write, content, writing, from_worker, job_notif>>
        /\ s \notin created /\ spec_notif' = [spec_notif EXCEPT ![s] = ThreadDataNotif]
    BY <1>11 DEF Connect
  <2>2. \A k \in Specs : k \in created => spec_notif'[k] = spec_notif[k]
    BY <1>1, <2>1
  <2> QED BY <1>2, <1>4, <2>1, <2>2 DEF ItemPipe
<1>12. CASE GetChannel
  <2>1. UNCHANGED <<told, write, content, from_worker, job_notif, spec_notif>>
    BY <1>12 DEF GetChannel
  <2>2. \/ UNCHANGED writing
        \/ \E p \in Pipes \ made : writing' = writing \cup {p}
    BY <1>1, <1>12 DEF GetChannel
  <2> SUFFICES ASSUME NEW x \in Items \ {Failure},
                      In(x, from_worker)', ItemPipe(x)' \in writing'
               PROVE  ToldOf(x)'
    BY DEF Notified
  <2>3. In(x, from_worker) /\ ItemPipe(x)' = ItemPipe(x)
    BY <1>3, <2>1 DEF In
  <2>4. ItemPipe(x) \in made \cup {NULL}
    BY <1>1, <1>2, <2>3 DEF ItemPipe
  <2>5. ItemPipe(x) \in writing
    BY <1>1, <2>2, <2>3, <2>4
  <2> QED BY <2>1, <2>3, <2>5 DEF Notified, ToldOf, In
<1>13. CASE Read
  <2>1. /\ channel \in Pipes /\ content[channel] # <<>>
        /\ told' = told \cup {Head(content[channel])}
        /\ content' = [content EXCEPT ![channel] = Tail(@)]
        /\ UNCHANGED <<write, writing, from_worker, job_notif, spec_notif>>
    BY <1>13 DEF Read, EndsOK
  <2> SUFFICES ASSUME NEW x \in Items \ {Failure},
                      In(x, from_worker)', ItemPipe(x)' \in writing'
               PROVE  ToldOf(x)'
    BY DEF Notified
  <2>2. /\ In(x, from_worker) /\ ItemPipe(x)' = ItemPipe(x)
        /\ ItemPipe(x) \in writing /\ ItemPipe(x) \in Pipes
    BY <1>1, <1>3, <2>1 DEF In
  <2>3. CASE In(x, content[ItemPipe(x)])
    <3>1. CASE ItemPipe(x) = channel
      <4> DEFINE q == content[channel]
      <4>1. q \in Seq(Items) /\ q # <<>> /\ content'[channel] = Tail(q)
        BY <1>1, <2>1
      <4>2. PICK i \in 1..Len(q) : q[i] = x
        BY <2>3, <3>1 DEF In
      <4>3. told' = told \cup {Head(q)}
        BY <2>1
      <4> HIDE DEF q
      <4>4. CASE i = 1
        BY <4>1, <4>2, <4>3, <4>4, HeadTail DEF ToldOf
      <4>5. CASE i # 1
        <5>1. i - 1 \in 1..(Len(q) - 1) /\ Len(Tail(q)) = Len(q) - 1 /\ Tail(q)[i - 1] = x
          BY <4>1, <4>2, <4>5, HeadTail
        <5> QED BY <2>2, <3>1, <4>1, <5>1 DEF ToldOf, In
      <4> QED BY <4>4, <4>5
    <3>2. CASE ItemPipe(x) # channel
      <4>1. content'[ItemPipe(x)] = content[ItemPipe(x)]
        BY <1>1, <2>1, <2>2, <3>2
      <4> QED BY <2>2, <2>3, <4>1 DEF ToldOf, In
    <3> QED BY <3>1, <3>2
  <2>4. CASE x \in told \/ \E w \in Writers : write[w].item = x
    BY <2>1, <2>4 DEF ToldOf
  <2> QED BY <2>2, <2>3, <2>4 DEF Notified, ToldOf
<1>14. CASE PopNothing
  <2>1. from_worker' = <<>>
    BY <1>14 DEF PopNothing
  <2>2. \A x : ~In(x, from_worker)'
    BY <2>1 DEF In
  <2> QED BY <2>2 DEF Notified
<1>15. CASE Pop
  <2>1. /\ from_worker # <<>> /\ from_worker' = Tail(from_worker)
        /\ UNCHANGED <<told, write, content, writing, job_notif, spec_notif>>
    BY <1>15 DEF Pop
  <2> SUFFICES ASSUME NEW x \in Items \ {Failure},
                      In(x, from_worker)', ItemPipe(x)' \in writing'
               PROVE  ToldOf(x)'
    BY DEF Notified
  <2>2. In(x, from_worker)
    BY <1>1, <2>1, HeadTail DEF In
  <2>3. ItemPipe(x)' = ItemPipe(x)
    BY <1>3, <2>1
  <2> QED BY <2>1, <2>2, <2>3 DEF Notified, ToldOf, In
<1>16. ASSUME NEW w \in Writers, NEW y \in Items, write[w] = NoWrite,
              write'[w].item = y, \A v \in Writers : v # w => write'[v] = write[v],
              from_worker' = Append(from_worker, y),
              UNCHANGED <<told, content, writing, job_notif, spec_notif>>
       PROVE  Notified'
  <2> SUFFICES ASSUME NEW x \in Items \ {Failure},
                      In(x, from_worker)', ItemPipe(x)' \in writing'
               PROVE  ToldOf(x)'
    BY DEF Notified
  <2>1. CASE x = y
    BY <1>16, <2>1 DEF ToldOf
  <2>2. CASE x # y
    <3>1. In(x, from_worker)
      <4>1. In(x, from_worker')
        BY DEF In
      <4> QED BY <1>1, <1>16, <2>2, <4>1, InAppended
    <3>2. ItemPipe(x)' = ItemPipe(x)
      BY <1>3, <1>16
    <3>3. ToldOf(x)
      BY <1>16, <3>1, <3>2 DEF Notified
    <3>4. ASSUME NEW v \in Writers, write[v].item = x PROVE write'[v].item = x
      <4>1. write[w].item = NULL /\ x # NULL
        BY <1>1, <1>16 DEF NoWrite
      <4> QED BY <1>16, <3>4, <4>1
    <3> QED BY <1>16, <3>2, <3>3, <3>4 DEF ToldOf, In
  <2> QED BY <2>1, <2>2
<1>17. CASE WorkerReply
  <2>1. /\ current \in Items /\ write[Worker] = NoWrite /\ Worker \in Writers
        /\ from_worker' = Append(from_worker, current)
        /\ write' = [write EXCEPT ![Worker] =
               [at |-> "test", pipe |-> job_notif[current], item |-> current]]
        /\ UNCHANGED <<told, content, writing, job_notif, spec_notif>>
    BY <1>17 DEF WorkerReply, Notify, JobsOK, JobTypes, Items, Writers
  <2>2. write'[Worker].item = current /\ \A v \in Writers : v # Worker => write'[v] = write[v]
    BY <1>1, <2>1
  <2> QED BY <1>16, <2>1, <2>2
<1>18. ASSUME NEW w \in Writers, NEW s \in Specs, Emit(w, s) PROVE Notified'
  <2>1. /\ s \in Items /\ write[w] = NoWrite
        /\ from_worker' = Append(from_worker, s)
        /\ write' = [write EXCEPT ![w] =
               [at |-> "test", pipe |-> spec_notif[s], item |-> s]]
        /\ UNCHANGED <<told, content, writing, job_notif, spec_notif>>
    BY <1>18 DEF Emit, Notify, Items
  <2>2. write'[w].item = s /\ \A v \in Writers : v # w => write'[v] = write[v]
    BY <1>1, <2>1
  <2> QED BY <1>16, <2>1, <2>2
<1>19. ASSUME NEW w \in Writers, \A v \in Writers : v # w => write'[v] = write[v],
              \/ write'[w].item = write[w].item
              \/ write[w].pipe \notin writing'
              \/ In(write[w].item, content'[write[w].pipe]),
              \A x, p : In(x, content[p]) => In(x, content'[p]),
              writing' \subseteq writing,
              \A x : In(x, from_worker') => In(x, from_worker) \/ x = Failure,
              UNCHANGED <<told, job_notif, spec_notif>>
       PROVE  Notified'
  <2> SUFFICES ASSUME NEW x \in Items \ {Failure},
                      In(x, from_worker)', ItemPipe(x)' \in writing'
               PROVE  ToldOf(x)'
    BY DEF Notified
  <2>1. In(x, from_worker)
    BY <1>19 DEF In
  <2>2. ItemPipe(x)' = ItemPipe(x) /\ ItemPipe(x) \in writing
    BY <1>3, <1>19
  <2>3. ToldOf(x)
    BY <2>1, <2>2 DEF Notified
  <2>4. CASE x \in told \/ In(x, content[ItemPipe(x)])
    <3>1. x \in told' \/ In(x, content'[ItemPipe(x)])
      BY <1>19, <2>4
    <3> QED BY <2>2, <3>1 DEF ToldOf, In
  <2>5. ASSUME NEW v \in Writers, v # w, write[v].item = x PROVE ToldOf(x)'
    BY <1>19, <2>5 DEF ToldOf
  <2>6. CASE write[w].item = x
    <3>1. write[w].pipe = ItemPipe(x)
      BY <2>6, WritesToItsPipe
    <3>2. CASE write'[w].item = x
      BY <3>2 DEF ToldOf
    <3>3. CASE In(x, content'[ItemPipe(x)])
      BY <2>2, <3>3 DEF ToldOf, In
    <3> QED BY <1>19, <2>2, <2>6, <3>1, <3>2, <3>3
  <2> QED BY <2>3, <2>4, <2>5, <2>6 DEF ToldOf
<1>20. ASSUME NEW w \in Writers, NothingToWrite(w) PROVE Notified'
  <2>1. /\ \A v \in Writers : v # w => write'[v] = write[v]
        /\ write[w].pipe \notin writing
    BY <1>1, <1>20 DEF NothingToWrite
  <2>2. UNCHANGED <<told, content, writing, from_worker, job_notif, spec_notif>>
    BY <1>20 DEF NothingToWrite
  <2> QED BY <1>19, <2>1, <2>2
<1>21. ASSUME NEW w \in Writers, WriteBegin(w) \/ WriteFails(w) PROVE Notified'
  <2>1. /\ \A v \in Writers : v # w => write'[v] = write[v]
        /\ write'[w].item = write[w].item
    BY <1>1, <1>21 DEF WriteBegin, WriteFails
  <2>2. /\ writing' \subseteq writing
        /\ UNCHANGED <<told, content, from_worker, job_notif, spec_notif>>
    BY <1>21 DEF WriteBegin, WriteFails
  <2> QED BY <1>19, <2>1, <2>2
<1>22. ASSUME NEW w \in Writers, Write(w) PROVE Notified'
  <2> DEFINE p == write[w].pipe
             y == write[w].item
  <2>1. \A v \in Writers : v # w => write'[v] = write[v]
    BY <1>1, <1>22 DEF Write
  <2>2. /\ p \in Pipes /\ content' = [content EXCEPT ![p] = Append(@, y)]
        /\ UNCHANGED <<told, writing, from_worker, job_notif, spec_notif>>
    BY <1>1, <1>22 DEF Write
  <2>3. y \in Items
    <3>1. write[w] # NoWrite
      BY <1>22 DEF Write, NoWrite
    <3>2. Writes(w, write[w])
      BY <3>1 DEF WritesOK
    <3> QED BY <1>1, <3>2 DEF Writes, Items
  <2> HIDE DEF p, y
  <2>4. content[p] \in Seq(Items) /\ content'[p] = Append(content[p], y)
    BY <1>1, <2>2
  <2>5. In(y, content'[p]) /\ \A x : In(x, content[p]) => In(x, content'[p])
    BY <2>3, <2>4, InAppended
  <2>6. \A q : q # p => content'[q] = content[q]
    BY <1>1, <2>2
  <2>7. \A x, q : In(x, content[q]) => In(x, content'[q])
    BY <2>5, <2>6
  <2> QED BY <1>19, <2>1, <2>2, <2>5, <2>7 DEF p, y
<1>23. ASSUME NEW w \in Writers, Report(w) PROVE Notified'
  <2>1. \A v \in Writers : v # w => write'[v] = write[v]
    BY <1>1, <1>23 DEF Report
  <2>2. write[w].pipe \notin writing
    <3>1. write[w] # NoWrite
      BY <1>23 DEF Report, NoWrite
    <3> QED BY <1>23, <3>1 DEF WritesOK, Writes, Report
  <2>3. /\ from_worker' = from_worker \/ from_worker' = Append(from_worker, Failure)
        /\ UNCHANGED <<told, content, writing, job_notif, spec_notif>>
    BY <1>23 DEF Report
  <2>4. \A x : In(x, from_worker') => In(x, from_worker) \/ x = Failure
    <3>1. Failure \in Items
      BY DEF Items
    <3>2. CASE from_worker' = Append(from_worker, Failure)
      BY <1>1, <3>1, <3>2, InAppended
    <3> QED BY <2>3, <3>2
  <2> QED BY <1>19, <2>1, <2>2, <2>3, <2>4
<1> QED BY <1>5, <1>6, <1>7, <1>8, <1>9, <1>10, <1>11, <1>12, <1>13, <1>14, <1>15, <1>17,
           <1>18, <1>20, <1>21, <1>22, <1>23 DEF Next, Owner, OwnerReturns, Writing

(* A failure is known until it is dealt with.                              *)
LEMMA FailureStays ==
    ASSUME JobsOK, FailureKnown, pc' = pc,
           from_worker' = from_worker \/ \E y \in Items : from_worker' = Append(from_worker, y),
           \A w \in Writers : write[w].at = "report" => write'[w].at = "report"
    PROVE  FailureKnown'
<1>1. In(Failure, from_worker) => In(Failure, from_worker')
  <2>1. from_worker \in Seq(Items)
    BY DEF JobsOK, JobTypes
  <2>2. ASSUME NEW y \in Items, from_worker' = Append(from_worker, y)
        PROVE  In(Failure, from_worker) => In(Failure, from_worker')
    BY <2>1, <2>2, InAppended
  <2> QED BY <2>2
<1>2. CASE In(Failure, from_worker)
  BY <1>1, <1>2 DEF FailureKnown, In
<1>3. CASE pc = "clean" \/ \E w \in Writers : write[w].at = "report"
  BY <1>3 DEF FailureKnown
<1> QED BY <1>2, <1>3 DEF FailureKnown

(* No step breaks Reported.                                                *)
LEMMA ReportedStep ==
    ASSUME Reported, EndsOK, JobsOK, WritesOK, [Next]_vars
    PROVE  Reported'
<1> USE DEF channelVars, tdVars, endVars, jobVars, specVars, callVars
<1>1. /\ write \in [Writers -> [at : {"none", "test", "write", "failed", "report"},
                                pipe : Pipes \cup {NULL}, item : Items \cup {NULL}]]
      /\ from_worker \in Seq(Items) /\ writing \subseteq made /\ made \subseteq Pipes
      /\ NULL \notin Pipes
  BY NamesAssumption DEF WritesOK, JobsOK, JobTypes, EndsOK
<1>2. ASSUME broken' = "no" => broken = "no",
             made' \ writing' \subseteq made \ writing,
             notif' \in {notif, pipes_hash, NULL},
             pipes_hash' \in {pipes_hash, NULL} \cup (Pipes \ made),
             FailureKnown => FailureKnown'
      PROVE  Reported'
  BY <1>1, <1>2 DEF Reported
<1>3. ASSUME pc' = pc \/ pc # "clean", UNCHANGED <<from_worker, write>>
      PROVE  FailureKnown => FailureKnown'
  BY <1>3 DEF FailureKnown, In
<1>4. CASE \/ UnsetChannel \/ Read \/ Shutdown \/ Iterate \/ DisposeCalled \/ Disconnect
           \/ PopNothing \/ CallbackReturns \/ WorkerPop \/ Dispose \/ UNCHANGED vars
  <2>1. /\ UNCHANGED <<made, writing, broken, from_worker, write>>
        /\ pc' = pc \/ pc # "clean"
        /\ notif' \in {notif, NULL} /\ pipes_hash' \in {pipes_hash, NULL}
    BY <1>4 DEF UnsetChannel, Read, Shutdown, Iterate, DisposeCalled, Enter, Disconnect,
                PopNothing, CallbackReturns, WorkerPop, Dispose, CanCall, vars
  <2>2. FailureKnown => FailureKnown'
    BY <1>3, <2>1
  <2> QED BY <1>2, <2>1, <2>2
<1>5. CASE GetChannel
  <2>1. UNCHANGED <<broken, notif, from_worker, write, pc>>
    BY <1>5 DEF GetChannel
  <2>2. \/ UNCHANGED <<made, writing, pipes_hash>>
        \/ \E p \in Pipes \ made : /\ made' = made \cup {p} /\ writing' = writing \cup {p}
                                   /\ pipes_hash' = p
    BY <1>1, <1>5 DEF GetChannel
  <2>3. FailureKnown => FailureKnown'
    BY <1>3, <2>1
  <2>4. /\ made' \ writing' \subseteq made \ writing
        /\ pipes_hash' \in {pipes_hash, NULL} \cup (Pipes \ made)
    BY <2>2
  <2> QED BY <1>2, <2>1, <2>3, <2>4
<1>6. ASSUME UNCHANGED <<pipes_hash, made, writing, broken, from_worker, write>>,
             pc' = pc \/ pc # "clean", notif' \in {notif, pipes_hash, NULL}
      PROVE  Reported'
  BY <1>2, <1>3, <1>6
<1>7. CASE Execute
  <2>1. /\ UNCHANGED <<pipes_hash, made, writing, broken, from_worker, write, pc>>
        /\ notif' \in {notif, pipes_hash, NULL}
    BY <1>7 DEF Execute, RefByThreadData, ThreadDataNotif
  <2> QED BY <1>6, <2>1
<1>8. ASSUME NEW s \in Specs, Connect(s) \/ DisconnectCalled(s) PROVE Reported'
  <2>1. /\ UNCHANGED <<pipes_hash, made, writing, broken, from_worker, write>>
        /\ pc' = pc \/ pc # "clean"
        /\ notif' \in {notif, pipes_hash, NULL}
    BY <1>8 DEF Connect, DisconnectCalled, Enter, CanCall, RefByThreadData, ThreadDataNotif
  <2> QED BY <1>6, <2>1
<1>9. ASSUME NEW j \in Jobs, Cancel(j) \/ FetchResult(j) PROVE Reported'
  <2>1. /\ UNCHANGED <<pipes_hash, made, writing, broken, from_worker, write, pc>>
        /\ notif' \in {notif, pipes_hash, NULL}
    BY <1>9 DEF Cancel, FetchResult
  <2> QED BY <1>6, <2>1
<1>10. CASE CleanNotifications
  <2>1. notif' = NULL /\ pipes_hash' = NULL /\ UNCHANGED made
    BY <1>10 DEF CleanNotifications
  <2> QED BY <1>1, <2>1 DEF Reported
<1>11. CASE Pop
  <2>1. /\ from_worker # <<>> /\ from_worker' = Tail(from_worker) /\ pc = "pop"
        /\ Head(from_worker) = Failure /\ Failure \notin Specs => pc' = "clean"
        /\ UNCHANGED <<write, notif, pipes_hash, made, writing, broken>>
    BY <1>11 DEF Pop
  <2>2. FailureKnown => FailureKnown'
    <3>1. CASE In(Failure, from_worker)
      <4>1. PICK i \in 1..Len(from_worker) : from_worker[i] = Failure
        BY <3>1 DEF In
      <4>2. CASE i = 1
        <5>1. pc' = "clean"
          BY <1>1, <2>1, <4>1, <4>2, NamesAssumption, HeadTail
        <5> QED BY <5>1 DEF FailureKnown
      <4>3. CASE i # 1
        <5>1. i - 1 \in 1..Len(from_worker') /\ from_worker'[i - 1] = Failure
          BY <1>1, <2>1, <4>1, <4>3, HeadTail
        <5>2. In(Failure, from_worker')
          BY <5>1 DEF In
        <5> QED BY <5>2 DEF FailureKnown, In
      <4> QED BY <4>2, <4>3
    <3>2. CASE \E w \in Writers : write[w].at = "report"
      BY <2>1, <3>2 DEF FailureKnown
    <3> QED BY <2>1, <3>1, <3>2 DEF FailureKnown
  <2> QED BY <1>2, <2>1, <2>2
<1>12. CASE WorkerReply
  <2>1. /\ current \in Items /\ write[Worker] = NoWrite
        /\ from_worker' = Append(from_worker, current)
        /\ UNCHANGED <<notif, pipes_hash, made, writing, broken, pc>>
    BY <1>12 DEF WorkerReply, JobsOK, JobTypes, Items
  <2>2. \A v \in Writers : v # Worker => write'[v] = write[v]
    BY <1>1, <1>12 DEF WorkerReply, Notify
  <2>3. FailureKnown => FailureKnown'
    BY <2>1, <2>2, FailureStays DEF NoWrite
  <2> QED BY <1>2, <2>1, <2>3
<1>13. ASSUME NEW w \in Writers, NEW s \in Specs, Emit(w, s) PROVE Reported'
  <2>1. /\ s \in Items /\ write[w] = NoWrite
        /\ from_worker' = Append(from_worker, s)
        /\ UNCHANGED <<notif, pipes_hash, made, writing, broken, pc>>
    BY <1>13 DEF Emit, Items
  <2>2. \A v \in Writers : v # w => write'[v] = write[v]
    BY <1>1, <1>13 DEF Emit, Notify
  <2>3. FailureKnown => FailureKnown'
    BY <2>1, <2>2, FailureStays DEF NoWrite
  <2> QED BY <1>2, <2>1, <2>3
<1>14. ASSUME NEW w \in Writers, NothingToWrite(w) \/ WriteBegin(w) \/ Write(w)
                                 \/ WriteElsewhere(w)
       PROVE  Reported'
  <2>1. /\ UNCHANGED <<notif, pipes_hash, made, writing, pc, from_worker>>
        /\ broken = "no" /\ write[w].at # "report"
    BY <1>14 DEF NothingToWrite, WriteBegin, Write, WriteElsewhere
  <2>2. \A v \in Writers : v # w => write'[v] = write[v]
    BY <1>1, <1>14 DEF NothingToWrite, WriteBegin, Write, WriteElsewhere
  <2>3. FailureKnown => FailureKnown'
    BY <2>1, <2>2, FailureStays
  <2> QED BY <1>2, <2>1, <2>3
<1>15. ASSUME NEW w \in Writers, WriteFails(w) PROVE Reported'
  <2>1. write'[w].at = "report"
    BY <1>1, <1>15 DEF WriteFails
  <2> QED BY <2>1 DEF Reported, FailureKnown
<1>16. ASSUME NEW w \in Writers, Report(w) PROVE Reported'
  <2>1. CASE broken' = "job"
    BY <2>1 DEF Reported
  <2>2. CASE from_worker' = Append(from_worker, Failure)
    <3>1. Failure \in Items
      BY DEF Items
    <3>2. In(Failure, from_worker')
      BY <1>1, <2>2, <3>1, InAppended
    <3> QED BY <3>2 DEF Reported, FailureKnown, In
  <2> QED BY <1>16, <2>1, <2>2 DEF Report
<1> QED BY <1>4, <1>5, <1>7, <1>8, <1>9, <1>10, <1>11, <1>12, <1>13, <1>14, <1>15, <1>16
        DEF Next, Owner, OwnerReturns, Writing

(* No step breaks FailedOne.                                               *)
LEMMA FailedOneStep ==
    ASSUME FailedOne, EndsOK, JobsOK, WritesOK, [Next]_vars
    PROVE  FailedOne'
<1> USE DEF channelVars, tdVars, endVars, jobVars, specVars, callVars
<1>1. /\ from_worker \in Seq(Items) /\ writing \subseteq made
      /\ pc = "unset" => channel = NULL
  BY DEF WritesOK, JobsOK, JobTypes, EndsOK, FailedOne
<1>2. ASSUME made \ writing \subseteq made' \ writing', SomeFailed
      PROVE  SomeFailed'
  BY <1>2 DEF SomeFailed
<1>3. ASSUME made \ writing \subseteq made' \ writing',
             pc' = "clean" => pc = "clean" \/ In(Failure, from_worker),
             In(Failure, from_worker') => In(Failure, from_worker),
             \/ channel' = NULL
             \/ channel' = pipes_hash'
             \/ channel' = channel /\ (pipes_hash' = pipes_hash \/ SomeFailed),
             pc' = "unset" => channel' = NULL
      PROVE  FailedOne'
  <2>1. pc' = "clean" \/ In(Failure, from_worker') => SomeFailed'
    BY <1>2, <1>3 DEF FailedOne
  <2>2. channel' = NULL \/ channel' = pipes_hash' \/ SomeFailed'
    BY <1>2, <1>3 DEF FailedOne
  <2> QED BY <1>3, <2>1, <2>2 DEF FailedOne, In
<1>4. ASSUME UNCHANGED <<made, writing, channel, pipes_hash, from_worker>>,
             pc' = pc \/ pc' \notin {"clean", "unset"}
      PROVE  FailedOne'
  BY <1>1, <1>3, <1>4
<1>5. CASE \/ Read \/ Iterate \/ DisposeCalled \/ Disconnect \/ PopNothing
           \/ CallbackReturns \/ WorkerPop \/ Execute \/ UNCHANGED vars
  <2>1. /\ UNCHANGED <<made, writing, channel, pipes_hash, from_worker>>
        /\ pc' = pc \/ pc' \notin {"clean", "unset"}
    BY <1>5 DEF Read, Iterate, DisposeCalled, Enter, Disconnect, PopNothing, CallbackReturns,
                WorkerPop, Execute, vars
  <2> QED BY <1>4, <2>1
<1>6. ASSUME NEW s \in Specs, Connect(s) \/ DisconnectCalled(s) PROVE FailedOne'
  <2>1. /\ UNCHANGED <<made, writing, channel, pipes_hash, from_worker>>
        /\ pc' = pc \/ pc' \notin {"clean", "unset"}
    BY <1>6 DEF Connect, DisconnectCalled, Enter
  <2> QED BY <1>4, <2>1
<1>7. ASSUME NEW j \in Jobs, Cancel(j) \/ FetchResult(j) PROVE FailedOne'
  <2>1. UNCHANGED <<made, writing, channel, pipes_hash, from_worker, pc>>
    BY <1>7 DEF Cancel, FetchResult
  <2> QED BY <1>4, <2>1
<1>8. ASSUME NEW w \in Writers, NothingToWrite(w) \/ WriteBegin(w) \/ Write(w)
                                \/ WriteElsewhere(w)
      PROVE  FailedOne'
  <2>1. UNCHANGED <<made, writing, channel, pipes_hash, from_worker, pc>>
    BY <1>8 DEF NothingToWrite, WriteBegin, Write, WriteElsewhere
  <2> QED BY <1>4, <2>1
<1>9. CASE UnsetChannel \/ Shutdown
  <2>1. /\ UNCHANGED <<made, writing, pipes_hash, from_worker>> /\ channel' = NULL
        /\ pc = "idle" /\ pc' \in {"idle", "unset"}
    BY <1>9 DEF UnsetChannel, Shutdown, CanCall
  <2> QED BY <1>3, <2>1
<1>10. CASE Dispose
  <2>1. /\ UNCHANGED <<made, writing, from_worker>> /\ channel' = NULL /\ pc' = "idle"
    BY <1>10 DEF Dispose
  <2> QED BY <1>3, <2>1
<1>11. CASE GetChannel
  <2>1. UNCHANGED <<from_worker, pc>> /\ pc = "idle" /\ channel' = pipes_hash'
    BY <1>11 DEF GetChannel, CanCall
  <2>2. made \ writing \subseteq made' \ writing'
    <3>1. \/ UNCHANGED <<made, writing>>
          \/ \E p \in Pipes \ made : made' = made \cup {p} /\ writing' = writing \cup {p}
      BY <1>11 DEF GetChannel, EndsOK
    <3> QED BY <3>1
  <2> QED BY <1>3, <2>1, <2>2
<1>12. CASE CleanNotifications
  <2>1. /\ UNCHANGED <<made, writing, channel, from_worker>>
        /\ pc \in {"clean", "unset"} /\ pc' = "idle"
    BY <1>12 DEF CleanNotifications
  <2>2. channel = NULL \/ SomeFailed
    BY <1>1, <2>1 DEF FailedOne
  <2> QED BY <1>3, <2>1, <2>2
<1>13. CASE Pop
  <2>1. /\ from_worker # <<>> /\ from_worker' = Tail(from_worker)
        /\ pc' \in {"callback", "clean", "idle"}
        /\ pc' = "clean" => Head(from_worker) = Failure
        /\ UNCHANGED <<channel, pipes_hash, made, writing>>
    BY <1>13 DEF Pop
  <2>2. pc' = "clean" => In(Failure, from_worker)
    BY <1>1, <2>1, HeadTail DEF In
  <2>3. In(Failure, from_worker') => In(Failure, from_worker)
    BY <1>1, <2>1, HeadTail DEF In
  <2> QED BY <1>3, <2>1, <2>2, <2>3
<1>14. ASSUME NEW y \in Items, y # Failure, from_worker' = Append(from_worker, y),
              UNCHANGED <<channel, pipes_hash, made, writing, pc>>
       PROVE  FailedOne'
  <2>1. In(Failure, from_worker') => In(Failure, from_worker)
    BY <1>1, <1>14, InAppended
  <2> QED BY <1>1, <1>3, <1>14, <2>1
<1>15. CASE WorkerReply
  BY <1>14, <1>15, NamesAssumption DEF WorkerReply, JobsOK, JobTypes, Items
<1>16. ASSUME NEW w \in Writers, NEW s \in Specs, Emit(w, s) PROVE FailedOne'
  BY <1>14, <1>16, NamesAssumption DEF Emit, Items
<1>17. ASSUME NEW w \in Writers, WriteFails(w) PROVE FailedOne'
  <2>1. /\ UNCHANGED <<channel, pipes_hash, made, from_worker, pc>>
        /\ writing' \subseteq writing
    BY <1>17 DEF WriteFails
  <2> QED BY <1>1, <1>3, <2>1
<1>18. ASSUME NEW w \in Writers, Report(w) PROVE FailedOne'
  <2>1. UNCHANGED <<channel, pipes_hash, made, writing, pc>>
    BY <1>18 DEF Report
  <2>2. SomeFailed
    <3>1. write[w] # NoWrite
      BY <1>18 DEF Report, NoWrite
    <3>2. write[w].pipe \in made \ writing
      BY <1>18, <3>1 DEF WritesOK, Writes, Report
    <3> QED BY <3>2 DEF SomeFailed
  <2> QED BY <1>1, <2>1, <2>2 DEF FailedOne, SomeFailed
<1> QED BY <1>5, <1>6, <1>7, <1>8, <1>9, <1>10, <1>11, <1>12, <1>13, <1>15, <1>16, <1>17, <1>18
        DEF Next, Owner, OwnerReturns, Writing

-----------------------------------------------------------------------------
(* No step breaks IInv.                                                    *)
LEMMA StepIInv == IInv /\ [Next]_vars => IInv'
<1> SUFFICES ASSUME IInv, [Next]_vars PROVE IInv'
  OBVIOUS
<1> USE DEF IInv, Owned
<1>1. EndsOK' /\ ContentOK'
  BY EndsStep, ContentStep
<1>2. JobsOK' /\ SpecsOK'
  BY JobsStep, SpecsStep
<1>3. WritesOK' /\ HistoryOK'
  BY WritesStep, HistoryStep
<1>4. SpecsCounted' /\ RefCountOK'
  BY SpecsCountedStep, RefCountStep
<1>5. Notified' /\ Reported' /\ FailedOne'
  BY NotifiedStep, ReportedStep, FailedOneStep
<1> QED BY <1>1, <1>2, <1>3, <1>4, <1>5

(* The invariant holds in every state of the notification pipes.           *)
THEOREM PipesInvariance == Spec => []IInv
  BY InitIInv, StepIInv, PTL DEF Spec

(* PipesSound, whatever the numbers of threads, pipes, signals, jobs and   *)
(* emissions: the reference count of a pipe is the number of pointers to   *)
(* it, so that pipe_unref() frees it with the last one and not before.     *)
THEOREM PipesAreSound == Spec => []PipesSound
<1>1. IInv => PipesSound
  <2> SUFFICES ASSUME IInv PROVE PipesSound
    OBVIOUS
  <2> USE DEF IInv, Owned
  <2>1. \A p \in Pipes : RefSum(p) \in Nat
    BY FiniteTo DEF RefSum, One
  <2>2. ref_count \in [Pipes -> Nat]
    BY <2>1 DEF RefCountOK, Counted
  <2>3. spec_refs \in [Specs -> Nat]
    BY SpecsPositive DEF SpecsCounted
  <2>4. TypeOK
    <3>1. /\ pipes_hash \in Pipes \cup {NULL} /\ channel \in Pipes \cup {NULL}
          /\ notif \in Pipes \cup {NULL}
          /\ made \subseteq Pipes /\ reading \subseteq made /\ writing \subseteq made
          /\ job_notif \in [Jobs -> Pipes \cup {NULL}]
          /\ spec_notif \in [Specs -> Pipes \cup {NULL}]
      BY DEF EndsOK
    <3>2. td \in BOOLEAN
      BY Zenon DEF EndsOK
    <3>3. /\ from_worker \in Seq(Items) /\ to_worker \in Seq(Jobs)
          /\ current \in Jobs \cup {NULL} /\ submitted \in 0..MaxJobs
          /\ stage \in [Jobs -> {"new", "queued", "cancelled", "running",
                                  "pushed", "popped", "freed"}]
      BY DEF JobsOK, JobTypes
    <3>4. /\ signals_list \subseteq Specs /\ created \subseteq Specs
          /\ locked \in [Specs -> Writers \cup {NULL}]
          /\ pc \in Calls /\ subject \in Specs \cup {NULL}
      BY DEF SpecsOK
    <3>5. may_block \in BOOLEAN
      BY Zenon DEF SpecsOK
    <3>6. /\ content \in [Pipes -> Seq(Items)] /\ \A p \in Pipes : Len(content[p]) <= Capacity
          /\ write \in [Writers -> [at : {"none", "test", "write", "failed", "report"},
                                    pipe : Pipes \cup {NULL}, item : Items \cup {NULL}]]
          /\ told \subseteq Items /\ emits \in 0..MaxEmits
          /\ broken \in {"no", "job", "descriptor"}
      BY DEF ContentOK, WritesOK, HistoryOK
    <3>7. disposed \in BOOLEAN
      BY Zenon DEF HistoryOK
    <3> QED BY <2>2, <2>3, <3>1, <3>2, <3>3, <3>4, <3>5, <3>6, <3>7, Zenon DEF TypeOK
  <2>5. RefsCounted
    BY CountedIsRefsCounted DEF RefCountOK
  <2>6. ChannelUsable
    <3> SUFFICES ASSUME channel # NULL, Freed(channel), channel \in reading
                 PROVE  \E p \in made \ {channel} : p \notin writing
      BY DEF ChannelUsable
    <3>1. channel \in Pipes /\ ref_count[channel] = 0
      BY DEF Freed, EndsOK
    <3>2. channel # pipes_hash
      <4>1. RefSum(channel) = 0
        BY <3>1 DEF RefCountOK, Counted
      <4> QED BY <4>1, FiniteTo DEF RefSum, One
    <3>3. SomeFailed
      BY <3>2 DEF FailedOne
    <3> QED BY <3>3 DEF SomeFailed, EndsOK
  <2> QED BY <2>4, <2>5, <2>6 DEF PipesSound
<1> QED BY <1>1, PipesInvariance, PTL

(* OwnerIsTold, for the same: of what is in the owner's queue, and of the  *)
(* failure of its pipe.                                                    *)
THEOREM OwnerToldOf == Spec => []OwnerIsTold
<1>1. IInv => OwnerIsTold
  <2> SUFFICES ASSUME IInv PROVE OwnerIsTold
    OBVIOUS
  <2> USE DEF IInv, Owned
  <2>1. /\ from_worker \in Seq(Items) /\ content \in [Pipes -> Seq(Items)]
        /\ writing \subseteq made /\ made \subseteq Pipes
    BY DEF JobsOK, JobTypes, ContentOK, EndsOK
  <2>2. NothingMissed
    <3> SUFFICES ASSUME channel \in writing,
                        NEW x \in {from_worker[i] : i \in DOMAIN from_worker} \ {Failure},
                        ItemPipe(x) = channel
                 PROVE  \/ x \in told
                        \/ \E k \in DOMAIN content[channel] : content[channel][k] = x
                        \/ \E w \in Writers : write[w].item = x
      BY DEF NothingMissed
    <3>1. x \in Items \ {Failure} /\ In(x, from_worker)
      BY <2>1 DEF In
    <3>2. ToldOf(x)
      BY <3>1 DEF Notified
    <3>3. content[channel] \in Seq(Items)
      BY <2>1
    <3>4. In(x, content[channel]) => \E k \in DOMAIN content[channel] : content[channel][k] = x
      BY <3>3 DEF In
    <3> QED BY <3>2, <3>4 DEF ToldOf
  <2>3. FailureReported
    <3> SUFFICES ASSUME broken = "no", notif # NULL, notif \notin writing
                 PROVE  \/ pc = "clean"
                        \/ \E i \in DOMAIN from_worker : from_worker[i] = Failure
                        \/ \E w \in Writers : write[w].at = "report"
      BY DEF FailureReported
    <3>1. notif \in made \ writing
      BY DEF EndsOK
    <3>2. FailureKnown
      BY <3>1 DEF Reported
    <3> QED BY <2>1, <3>2 DEF FailureKnown, In
  <2> QED BY <2>2, <2>3 DEF OwnerIsTold
<1> QED BY <1>1, PipesInvariance, PTL
=============================================================================
