------------------------ MODULE GdaXaTransaction_proofs ------------------------
(***************************************************************************)
(* The safety of distributed transactions, for any sets of connections and *)
(* transactions, any failures of the databases and a crash at any step.    *)
(* The properties are about what a call has done when it returns; IInv     *)
(* says what each of its loops has done when it has come to position pos.  *)
(***************************************************************************)
EXTENDS GdaXaTransaction, TLAPS

(* A connection without xa_funcs never has a branch, and non_xa_cnc never  *)
(* names any other.                                                        *)
NonXaInv ==
    /\ \A x \in Xas : Members(x) \cap NonXa \subseteq {non_xa_cnc[x]}
    /\ \A x \in Xas : non_xa_cnc[x] \in NonXa \cup {NULL}
    /\ \A x \in Xas, c \in NonXa : branch[x][c] = "none"

ObjectsInv == RegisteredOnce /\ NonXaInv

(* The part of the list before position p, and the part from p on.         *)
Before(p) ==
    {c \in Members(cur) : \E i \in DOMAIN cnc_list[cur] : i < p /\ cnc_list[cur][i] = c}
From(p) ==
    {c \in Members(cur) : \E i \in DOMAIN cnc_list[cur] : i >= p /\ cnc_list[cur][i] = c}

(* The connection has no transaction but what this begin gave it.          *)
OnlyOurs(c) ==
    /\ ~IsPlain(c) => c \notin plain
    /\ \A x \in Xas : branch[x][c] = "active" => x = cur /\ ~IsPlain(c)

BeginInv ==
    /\ op = "begin" =>
          /\ started \subseteq Before(pos)
          /\ \A c \in started : OnlyOurs(c)
    /\ op = "begin_undo" =>
          /\ started \subseteq Cncs
          /\ \A c \in started \ failed :
                ~InTransaction(c) \/ (OnlyOurs(c) /\ c \in Before(pos + 1))

PrepareInv ==
    /\ op = "prepare" =>
          /\ committed = {}
          /\ prepared = IF SkipsAll THEN {} ELSE Before(pos)
    /\ op = "prepare_undo" =>
          /\ committed = {}
          /\ \A c \in prepared \ failed :
                branch[cur][c] = "none" \/ c \in Before(pos + 1)

CommitInv ==
    /\ op = "plain_commit" =>
          ~SkipsAll /\ committed = {} /\ prepared = Members(cur)
    /\ op = "commit_undo" =>
          /\ committed = {}
          /\ Members(cur) \subseteq prepared
          /\ \A c \in prepared \ failed :
                branch[cur][c] = "none" \/ c \in From(pos)
    /\ op = "commit" =>
          IF SkipsAll THEN committed = {} /\ prepared = {}
          ELSE /\ prepared = Members(cur)
               /\ Before(pos) \subseteq committed \cup to_recover

RollbackInv == op = "rollback" => \A c \in Before(pos) \ failed :
    IF IsPlain(c) THEN c \notin plain ELSE branch[cur][c] = "none"

RecoverInv == op = "recover" => \A c \in Before(pos) :
    branch[cur][c] = "prepared" => c \in to_recover \cup failed

(* A call is made for a transaction and has not returned.                  *)
CallInv == op # "none" =>
    /\ cur \in Xas /\ ret = NoRet
    /\ IF op \in {"begin_undo", "prepare_undo"} THEN pos <= Len(cnc_list[cur]) ELSE pos >= 1

LoopsInv ==
    CallInv /\ BeginInv /\ PrepareInv /\ CommitInv /\ RollbackInv /\ RecoverInv

(* What a call has done is what is promised.                               *)
ReturnInv == NoneLeftOpen /\ CommitAllOrNothing /\ NothingUnreported

IInv == TypeOK /\ ObjectsInv /\ LoopsInv /\ ReturnInv

-----------------------------------------------------------------------------
(* The objects before any call.                                            *)
LEMMA InitInv == Init => IInv
<1> SUFFICES ASSUME Init PROVE IInv
  OBVIOUS
<1> USE DEF Init, NoRet
<1>1. TypeOK
  BY DEF TypeOK, Unlisted, NoNonXa, Untagged
<1>2. \A x \in Xas : Members(x) = {}
  BY DEF Members, ToSet, Unlisted
<1>3. RegisteredOnce
  BY <1>2, NullAssumption DEF RegisteredOnce, IsInjective, Unlisted, Untagged
<1>4. NonXaInv
  BY <1>2, NonXaAssumption DEF NonXaInv, NoNonXa
<1>5. LoopsInv
  BY DEF LoopsInv, CallInv, BeginInv, PrepareInv, CommitInv, RollbackInv, RecoverInv
<1>6. ReturnInv
  BY DEF ReturnInv, NoneLeftOpen, CommitAllOrNothing, NothingUnreported, BeginAllOrNothing,
     RollbackEndsAll, CommitOnlyAfterAllPrepared, FailedCommitLeavesNothing,
     PreparedIsCommittedOrReported, StillPreparedIsReported, Returned
<1> QED
  BY <1>1, <1>3, <1>4, <1>5, <1>6 DEF IInv, ObjectsInv

(* The list of a transaction with one more connection in front ...         *)
LEMMA PrependFacts ==
    ASSUME NEW S, NEW s \in Seq(S), NEW c \in S, IsInjective(s), c \notin ToSet(s)
    PROVE  /\ <<c>> \o s \in Seq(S)
           /\ IsInjective(<<c>> \o s)
           /\ ToSet(<<c>> \o s) = ToSet(s) \cup {c}
<1> DEFINE q == <<c>> \o s
<1>1. /\ q \in Seq(S) /\ Len(q) = Len(s) + 1 /\ DOMAIN q = 1..Len(q) /\ DOMAIN s = 1..Len(s)
      /\ q[1] = c /\ \A i \in 2..Len(q) : q[i] = s[i - 1]
  OBVIOUS
<1>2. \A i \in 1..Len(s) : s[i] # c /\ s[i] = q[i + 1]
  BY <1>1 DEF ToSet
<1> HIDE DEF q
<1>3. IsInjective(q)
  <2> SUFFICES ASSUME NEW i \in 1..Len(q), NEW k \in 1..Len(q), q[i] = q[k]
               PROVE  i = k
    BY <1>1 DEF IsInjective
  <2>1. ASSUME NEW j \in 2..Len(q) PROVE j - 1 \in 1..Len(s) /\ q[j] = s[j - 1] /\ q[j] # c
    BY <1>1, <1>2
  <2>2. CASE i = 1 \/ k = 1
    BY <2>1, <2>2, <1>1
  <2>3. CASE i # 1 /\ k # 1
    <3>1. i \in 2..Len(q) /\ k \in 2..Len(q)
      BY <2>3, <1>1
    <3>2. i - 1 \in DOMAIN s /\ k - 1 \in DOMAIN s /\ s[i - 1] = s[k - 1]
      BY <3>1, <2>1, <1>1
    <3>3. i - 1 = k - 1
      BY <3>2 DEF IsInjective
    <3> QED
      BY <3>1, <3>3
  <2> QED
    BY <2>2, <2>3
<1>4. ToSet(q) = ToSet(s) \cup {c}
  <2>1. ASSUME NEW i \in 1..Len(q) PROVE q[i] \in ToSet(s) \cup {c}
    <3>1. CASE i = 1
      BY <3>1, <1>1
    <3>2. CASE i # 1
      <4>1. i - 1 \in 1..Len(s) /\ q[i] = s[i - 1]
        BY <3>2, <1>1
      <4> QED
        BY <4>1, <1>1 DEF ToSet
    <3> QED
      BY <3>1, <3>2
  <2>2. ASSUME NEW i \in 1..Len(s) PROVE s[i] \in ToSet(q)
    <3>1. i + 1 \in 1..Len(q) /\ q[i + 1] = s[i]
      BY <1>1, <1>2
    <3> QED
      BY <3>1, <1>1 DEF ToSet
  <2>3. c \in ToSet(q)
    <3>1. 1 \in DOMAIN q
      BY <1>1
    <3> QED
      BY <3>1, <1>1 DEF ToSet
  <2> QED
    BY <2>1, <2>2, <2>3, <1>1 DEF ToSet
<1> QED
  BY <1>1, <1>3, <1>4 DEF q

(* ... and without one of its connections.                                 *)
LEMMA RemoveAtFacts ==
    ASSUME NEW S, NEW s \in Seq(S), NEW n \in DOMAIN s, IsInjective(s)
    PROVE  /\ RemoveAt(s, n) \in Seq(S)
           /\ IsInjective(RemoveAt(s, n))
           /\ ToSet(RemoveAt(s, n)) = ToSet(s) \ {s[n]}
<1> DEFINE q == RemoveAt(s, n)
           Old(i) == IF i < n THEN i ELSE i + 1
<1>1. /\ q \in Seq(S) /\ DOMAIN q = 1..(Len(s) - 1)
      /\ \A i \in 1..(Len(s) - 1) : q[i] = s[Old(i)]
  <2> DEFINE a == SubSeq(s, 1, n - 1)
             b == SubSeq(s, n + 1, Len(s))
  <2>1. n \in 1..Len(s) /\ Len(s) \in Nat
    OBVIOUS
  <2>2. a \in Seq(S) /\ Len(a) = n - 1 /\ \A i \in 1..(n - 1) : a[i] = s[i]
    BY <2>1
  <2>3. b \in Seq(S) /\ Len(b) = Len(s) - n /\ \A i \in 1..(Len(s) - n) : b[i] = s[n + i]
    BY <2>1
  <2> HIDE DEF a, b
  <2>4. /\ a \o b \in Seq(S) /\ Len(a \o b) = Len(s) - 1 /\ DOMAIN (a \o b) = 1..(Len(s) - 1)
        /\ \A i \in 1..(Len(s) - 1) :
              (a \o b)[i] = IF i <= n - 1 THEN a[i] ELSE b[i - (n - 1)]
    BY <2>1, <2>2, <2>3, SMTT(20)
  <2>5. ASSUME NEW i \in 1..(Len(s) - 1) PROVE (a \o b)[i] = s[Old(i)]
    <3>1. CASE i < n
      BY <3>1, <2>1, <2>2, <2>4
    <3>2. CASE i >= n
      <4>1. PICK k \in 1..(Len(s) - n) : k = i - (n - 1) /\ n + k = i + 1
        BY <3>2, <2>1
      <4>2. (a \o b)[i] = b[k]
        <5>1. i \in Int /\ n \in Int /\ ~(i <= n - 1)
          BY <3>2, <2>1
        <5> QED
          BY <4>1, <5>1, <2>4
      <4>3. b[k] = s[i + 1]
        BY <4>1, <2>3
      <4> QED
        BY <3>2, <4>2, <4>3, <2>1
    <3>3. i < n \/ i >= n
      BY <2>1
    <3> QED
      BY <3>1, <3>2, <3>3
  <2>6. q = a \o b
    BY DEF RemoveAt, a, b
  <2> QED
    BY <2>4, <2>5, <2>6
<1>2. \A i \in 1..(Len(s) - 1) : Old(i) \in DOMAIN s \ {n}
  OBVIOUS
<1>3. \A i, k \in 1..(Len(s) - 1) : Old(i) = Old(k) => i = k
  OBVIOUS
<1>4. ASSUME NEW k \in DOMAIN s \ {n} PROVE \E i \in 1..(Len(s) - 1) : Old(i) = k
  <2>1. CASE k < n
    BY <2>1
  <2>2. CASE k > n
    <3>1. k - 1 \in 1..(Len(s) - 1) /\ Old(k - 1) = k
      BY <2>2
    <3> QED
      BY <3>1
  <2> QED
    BY <2>1, <2>2
<1> HIDE DEF q, Old
<1>5. IsInjective(q)
  BY <1>1, <1>2, <1>3 DEF IsInjective
<1>6. ToSet(q) \subseteq ToSet(s) \ {s[n]}
  BY <1>1, <1>2 DEF ToSet, IsInjective
<1>7. ToSet(s) \ {s[n]} \subseteq ToSet(q)
  <2> SUFFICES ASSUME NEW k \in DOMAIN s, s[k] # s[n] PROVE s[k] \in ToSet(q)
    BY DEF ToSet
  <2>1. PICK i \in 1..(Len(s) - 1) : Old(i) = k
    BY <1>4
  <2> QED
    BY <2>1, <1>1 DEF ToSet
<1> QED
  BY <1>1, <1>5, <1>6, <1>7 DEF q

(* What has been walked when a loop is at connection c, or past the end.   *)
LEMMA WalkFacts ==
    ASSUME TypeOK, cur \in Xas
    PROVE  /\ \A c : At(c) => /\ c \in Members(cur)
                              /\ Before(pos + 1) = Before(pos) \cup {c}
                              /\ From(pos) = From(pos + 1) \cup {c}
           /\ Past /\ pos >= 1 => Before(pos) = Members(cur) /\ From(pos) = {}
           /\ Past /\ pos <= Len(cnc_list[cur]) => Before(pos + 1) = {}
           /\ Before(1) = {} /\ From(1) = Members(cur)
           /\ \A p : Before(p) \subseteq Members(cur) /\ From(p) \subseteq Members(cur)
           /\ Members(cur) \subseteq Cncs
<1> DEFINE s == cnc_list[cur]
<1>1. /\ s \in Seq(Cncs) /\ pos \in Int
      /\ DOMAIN s = 1..Len(s) /\ Len(s) \in Nat
      /\ pos >= 0 /\ pos <= Len(s) + 1
      /\ Members(cur) = {s[i] : i \in DOMAIN s}
  <2>1. cur # NULL
    BY NullAssumption
  <2> QED
    BY <2>1 DEF TypeOK, Members, ToSet
<1> HIDE DEF s
<1> USE DEF s
<1>2. ASSUME NEW c, At(c)
      PROVE  /\ c \in Members(cur)
             /\ Before(pos + 1) = Before(pos) \cup {c}
             /\ From(pos) = From(pos + 1) \cup {c}
  BY <1>1, <1>2 DEF At, Before, From
<1>3. Past /\ pos >= 1 => Before(pos) = Members(cur) /\ From(pos) = {}
  BY <1>1 DEF Past, Before, From
<1>4. Past /\ pos <= Len(cnc_list[cur]) => Before(pos + 1) = {}
  BY <1>1 DEF Past, Before
<1>5. Before(1) = {} /\ From(1) = Members(cur)
  BY <1>1 DEF Before, From
<1>6. \A p : Before(p) \subseteq Members(cur) /\ From(p) \subseteq Members(cur)
  BY DEF Before, From
<1>7. Members(cur) \subseteq Cncs
  BY <1>1
<1> QED
  BY <1>2, <1>3, <1>4, <1>5, <1>6, <1>7
-----------------------------------------------------------------------------
(* Between the calls there is nothing to say of loops and returns.         *)
LEMMA IdleStep ==
    ASSUME op' = "none", ret' = NoRet
    PROVE  LoopsInv' /\ ReturnInv'
<1> USE DEF NoRet
<1>1. LoopsInv'
  BY DEF LoopsInv, CallInv, BeginInv, PrepareInv, CommitInv, RollbackInv, RecoverInv
<1>2. ReturnInv'
  BY DEF ReturnInv, NoneLeftOpen, CommitAllOrNothing, NothingUnreported, BeginAllOrNothing,
     RollbackEndsAll, CommitOnlyAfterAllPrepared, FailedCommitLeavesNothing,
     PreparedIsCommittedOrReported, StillPreparedIsReported, Returned
<1> QED
  BY <1>1, <1>2

(* Closing connections loses transactions and branches, and adds none.     *)
LEMMA ClosedFacts ==
    ASSUME TypeOK, NonXaInv, NEW S, Closed(S)
    PROVE  /\ plain' \subseteq Cncs
           /\ branch' \in [Xas -> [Cncs -> {"none", "active", "prepared"}]]
           /\ \A x \in Xas, c \in NonXa : branch'[x][c] = "none"
<1>1. \A x \in Xas, c \in Cncs : branch'[x][c] \in {branch[x][c], "none"}
  BY DEF Closed
<1>2. branch' \in [Xas -> [Cncs -> {"none", "active", "prepared"}]]
  <2>1. \A x \in Xas, c \in Cncs : branch[x][c] \in {"none", "active", "prepared"}
    BY DEF TypeOK
  <2> QED
    BY <2>1 DEF Closed
<1>3. plain' \subseteq Cncs
  BY DEF Closed, TypeOK
<1> QED
  BY <1>1, <1>2, <1>3, NonXaAssumption DEF NonXaInv

(* The new member is first in the list, and non_xa_cnc if it has to be.    *)
LEMMA RegisterInv ==
    ASSUME IInv, NEW x \in Xas, NEW c \in Cncs, Register(x, c)
    PROVE  IInv'
<1> USE DEF ForgetCall, databases
<1>1. /\ cnc_list[x] \in Seq(Cncs) /\ c \notin ToSet(cnc_list[x]) /\ IsInjective(cnc_list[x])
      /\ cnc_list' = [cnc_list EXCEPT ![x] = <<c>> \o cnc_list[x]]
      /\ cnc_list \in [Xas -> Seq(Cncs)]
  BY DEF IInv, TypeOK, ObjectsInv, RegisteredOnce, Register, Members
<1>2. /\ <<c>> \o cnc_list[x] \in Seq(Cncs)
      /\ IsInjective(<<c>> \o cnc_list[x])
      /\ ToSet(<<c>> \o cnc_list[x]) = ToSet(cnc_list[x]) \cup {c}
  BY <1>1, PrependFacts
<1>3. \A y \in Xas : Members(y)' = IF y = x THEN Members(y) \cup {c} ELSE Members(y)
  BY <1>1, <1>2 DEF Members
<1>4. TypeOK'
  BY <1>1, <1>2, NonXaAssumption DEF IInv, TypeOK, Register, NoRet
<1>5. RegisteredOnce'
  <2>1. \A y \in Xas : IsInjective(cnc_list'[y])
    BY <1>1, <1>2 DEF IInv, ObjectsInv, RegisteredOnce
  <2>2. \A d \in Cncs : tag'[d] = IF d = c THEN x ELSE tag[d]
    BY DEF Register, IInv, TypeOK
  <2>3. tag[c] = NULL
    BY DEF Register, Accepts
  <2>4. \A y \in Xas, d \in Cncs : d \in Members(y)' <=> tag'[d] = y
    BY <1>3, <2>2, <2>3, NullAssumption DEF IInv, ObjectsInv, RegisteredOnce
  <2> QED
    BY <2>1, <2>4 DEF RegisteredOnce
<1>6. NonXaInv'
  <2>1. \A y \in Xas : non_xa_cnc'[y] = IF y = x /\ c \in NonXa THEN c ELSE non_xa_cnc[y]
    BY DEF Register, IInv, TypeOK
  <2>2. c \in NonXa => non_xa_cnc[x] = NULL
    BY DEF Register, Accepts
  <2>3. \A y \in Xas : Members(y)' \cap NonXa \subseteq {non_xa_cnc'[y]}
    BY <1>3, <2>1, <2>2, NullAssumption, NonXaAssumption DEF IInv, ObjectsInv, NonXaInv
  <2>4. UNCHANGED branch
    BY DEF Register
  <2> QED
    BY <2>1, <2>3, <2>4 DEF IInv, ObjectsInv, NonXaInv
<1>7. op' = "none" /\ ret' = NoRet
  BY DEF Register
<1> QED
  BY <1>4, <1>5, <1>6, <1>7, IdleStep DEF IInv, ObjectsInv

(* The connection leaves the list, non_xa_cnc stays.                       *)
LEMMA UnregisterInv ==
    ASSUME IInv, NEW x \in Xas, NEW c \in Cncs, Unregister(x, c)
    PROVE  IInv'
<1> USE DEF ForgetCall, databases
<1>1. /\ cnc_list[x] \in Seq(Cncs) /\ IsInjective(cnc_list[x])
      /\ cnc_list \in [Xas -> Seq(Cncs)]
  BY DEF IInv, TypeOK, ObjectsInv, RegisteredOnce
<1>2. PICK n \in DOMAIN cnc_list[x] :
        cnc_list[x][n] = c /\ cnc_list' = [cnc_list EXCEPT ![x] = RemoveAt(cnc_list[x], n)]
  BY DEF Unregister, Unlink
<1> DEFINE q == RemoveAt(cnc_list[x], n)
<1>3. q \in Seq(Cncs) /\ IsInjective(q) /\ ToSet(q) = ToSet(cnc_list[x]) \ {c}
  BY <1>1, <1>2, RemoveAtFacts
<1>4. cnc_list' = [cnc_list EXCEPT ![x] = q]
  BY <1>2
<1> HIDE DEF q
<1>5. \A y \in Xas : Members(y)' = IF y = x THEN Members(y) \ {c} ELSE Members(y)
  BY <1>1, <1>3, <1>4 DEF Members
<1>6. c \in Members(x)
  BY <1>2 DEF Members, ToSet
<1>7. TypeOK'
  BY <1>1, <1>3, <1>4 DEF IInv, TypeOK, Unregister, NoRet
<1>8. RegisteredOnce'
  <2>1. \A y \in Xas : IsInjective(cnc_list'[y])
    BY <1>1, <1>3, <1>4 DEF IInv, ObjectsInv, RegisteredOnce
  <2>2. \A d \in Cncs : tag'[d] = IF d = c THEN NULL ELSE tag[d]
    BY DEF Unregister, IInv, TypeOK
  <2>3. \A y \in Xas, d \in Cncs : d \in Members(y)' <=> tag'[d] = y
    BY <1>5, <1>6, <2>2, NullAssumption DEF IInv, ObjectsInv, RegisteredOnce
  <2> QED
    BY <2>1, <2>3 DEF RegisteredOnce
<1>9. NonXaInv'
  BY <1>5 DEF IInv, ObjectsInv, NonXaInv, Unregister
<1>10. op' = "none" /\ ret' = NoRet
  BY DEF Unregister
<1> QED
  BY <1>7, <1>8, <1>9, <1>10, IdleStep DEF IInv, ObjectsInv

(* The objects do not know of the reference.                               *)
LEMMA UnrefInv ==
    ASSUME IInv, NEW c \in Cncs, Unref(c)
    PROVE  IInv'
<1> USE DEF ForgetCall
<1>1. /\ plain' \subseteq Cncs
      /\ branch' \in [Xas -> [Cncs -> {"none", "active", "prepared"}]]
      /\ \A x \in Xas, d \in NonXa : branch'[x][d] = "none"
  BY ClosedFacts DEF Unref, IInv, ObjectsInv
<1>2. TypeOK'
  BY <1>1 DEF IInv, TypeOK, Unref, NoRet
<1>3. ObjectsInv'
  BY <1>1 DEF IInv, ObjectsInv, RegisteredOnce, NonXaInv, Members, Unref
<1> QED
  BY <1>2, <1>3, IdleStep DEF IInv, Unref

(* The transaction forgets its connections, and they forget it.            *)
LEMMA DisposeInv ==
    ASSUME IInv, NEW x \in Xas, Dispose(x)
    PROVE  IInv'
<1> USE DEF ForgetCall
<1>1. /\ plain' \subseteq Cncs
      /\ branch' \in [Xas -> [Cncs -> {"none", "active", "prepared"}]]
      /\ \A y \in Xas, d \in NonXa : branch'[y][d] = "none"
  BY ClosedFacts DEF Dispose, IInv, ObjectsInv
<1>2. /\ cnc_list \in [Xas -> Seq(Cncs)] /\ cnc_list' = [cnc_list EXCEPT ![x] = <<>>]
      /\ \A y \in Xas : non_xa_cnc'[y] = IF y = x THEN NULL ELSE non_xa_cnc[y]
      /\ \A d \in Cncs : tag'[d] = IF d \in Members(x) THEN NULL ELSE tag[d]
  BY DEF IInv, TypeOK, Dispose
<1>3. \A y \in Xas : Members(y)' = IF y = x THEN {} ELSE Members(y)
  BY <1>2 DEF Members, ToSet
<1>4. TypeOK'
  BY <1>1, <1>2 DEF IInv, TypeOK, Dispose, NoRet
<1>5. RegisteredOnce'
  <2>1. \A y \in Xas : IsInjective(cnc_list'[y])
    BY <1>2 DEF IInv, ObjectsInv, RegisteredOnce, IsInjective
  <2>2. \A y \in Xas, d \in Cncs : d \in Members(y)' <=> tag'[d] = y
    BY <1>2, <1>3, NullAssumption DEF IInv, ObjectsInv, RegisteredOnce
  <2> QED
    BY <2>1, <2>2 DEF RegisteredOnce
<1>6. NonXaInv'
  BY <1>1, <1>2, <1>3 DEF IInv, ObjectsInv, NonXaInv
<1>7. op' = "none" /\ ret' = NoRet
  BY DEF Dispose
<1> QED
  BY <1>4, <1>5, <1>6, <1>7, IdleStep DEF IInv, ObjectsInv

(* A new run of the program starts with new objects, and what is prepared. *)
LEMMA CrashInv == ASSUME IInv, Crash PROVE IInv'
<1> USE DEF ForgetCall
<1>1. /\ plain' \subseteq Cncs
      /\ branch' \in [Xas -> [Cncs -> {"none", "active", "prepared"}]]
      /\ \A y \in Xas, d \in NonXa : branch'[y][d] = "none"
  BY ClosedFacts DEF Crash, IInv, ObjectsInv
<1>2. \A y \in Xas : Members(y)' = {}
  BY DEF Members, ToSet, Crash, Unlisted
<1>3. TypeOK'
  BY <1>1 DEF IInv, TypeOK, Crash, NoRet, Unlisted, NoNonXa, Untagged
<1>4. RegisteredOnce'
  BY <1>2, NullAssumption DEF RegisteredOnce, IsInjective, Crash, Unlisted, Untagged
<1>5. NonXaInv'
  BY <1>1, <1>2 DEF NonXaInv, Crash, NoNonXa
<1> QED
  BY <1>3, <1>4, <1>5, IdleStep DEF IInv, ObjectsInv, Crash

-----------------------------------------------------------------------------
(* A call starts at the head of the list, with nothing done.               *)
LEMMA CallStarts ==
    ASSUME IInv, NEW x \in Xas, NEW loop \in {"begin", "prepare", "rollback", "recover"},
           Call(x, loop)
    PROVE  IInv'
<1> USE DEF objects, databases
<1>1. /\ op' = loop /\ cur' = x /\ pos' = 1 /\ ret' = NoRet /\ cnc_list' = cnc_list
      /\ started' = {} /\ prepared' = {} /\ committed' = {} /\ failed' = {}
  BY DEF Call
<1>2. Before(pos)' = {}
  <2>1. DOMAIN cnc_list[x] = 1..Len(cnc_list[x])
    BY DEF IInv, TypeOK
  <2> QED
    BY <1>1, <2>1 DEF Before
<1>3. TypeOK'
  <2>1. Len(cnc_list[x]) \in Nat /\ x # NULL
    BY NullAssumption DEF IInv, TypeOK
  <2> QED
    BY <2>1 DEF IInv, TypeOK, Call, Loops, NoRet
<1>4. ObjectsInv'
  BY DEF IInv, ObjectsInv, RegisteredOnce, NonXaInv, Members, Call
<1>5. LoopsInv'
  BY <1>1, <1>2 DEF LoopsInv, CallInv, BeginInv, PrepareInv, CommitInv, RollbackInv, RecoverInv
<1>6. ReturnInv'
  BY <1>1 DEF ReturnInv, NoneLeftOpen, CommitAllOrNothing, NothingUnreported,
     BeginAllOrNothing, RollbackEndsAll, CommitOnlyAfterAllPrepared,
     FailedCommitLeavesNothing, PreparedIsCommittedOrReported, StillPreparedIsReported,
     Returned, NoRet
<1> QED
  BY <1>3, <1>4, <1>5, <1>6 DEF IInv

(* What one call into the database of a member may change.                 *)
DatabaseTypes ==
    /\ plain \subseteq Cncs
    /\ branch \in [Xas -> [Cncs -> {"none", "active", "prepared"}]]
    /\ \A S \in {started, prepared, committed, failed} : S \subseteq Cncs
    /\ \A x \in Xas, d \in NonXa : branch[x][d] = "none"

(* It changes the state of that member in the transaction, at most.        *)
LEMMA DatabaseStep ==
    ASSUME IInv, cur \in Xas, NEW c \in Cncs, c \in Members(cur),
           \/ StartOn(c) \/ PrepareOn(c) \/ CommitOn(c) \/ RollbackOn(c)
           \/ NothingDone
    PROVE  /\ DatabaseTypes'
           /\ \A x \in Xas, d \in Cncs : x # cur \/ d # c => branch'[x][d] = branch[x][d]
           /\ \A d \in Cncs : d # c => (d \in plain' <=> d \in plain)
<1> USE DEF databases, history
<1> DEFINE BranchOK == /\ branch' \in [Xas -> [Cncs -> {"none", "active", "prepared"}]]
                       /\ \A x \in Xas, d \in NonXa : branch'[x][d] = "none"
                       /\ \A x \in Xas, d \in Cncs :
                             x # cur \/ d # c => branch'[x][d] = branch[x][d]
           PlainOK == /\ plain' \subseteq Cncs
                      /\ \A d \in Cncs : d # c => (d \in plain' <=> d \in plain)
           HistoryOK == \A S \in {started, prepared, committed, failed}' : S \subseteq Cncs
<1>1. /\ DatabaseTypes
      /\ c \in NonXa => IsPlain(c)
  BY DEF IInv, TypeOK, DatabaseTypes, ObjectsInv, NonXaInv, IsPlain
<1>2. ASSUME NEW s \in {"none", "active", "prepared"}, c \in NonXa => s = "none",
             BranchBecomes(c, s)
      PROVE  BranchOK
  <2>1. \A x \in Xas, d \in Cncs :
           branch'[x][d] = IF x = cur /\ d = c THEN s ELSE branch[x][d]
    BY <1>1, <1>2 DEF BranchBecomes, DatabaseTypes
  <2>2. branch' \in [Xas -> [Cncs -> {"none", "active", "prepared"}]]
    BY <1>1, <1>2 DEF BranchBecomes, DatabaseTypes
  <2> QED
    BY <1>1, <1>2, <2>1, <2>2, NonXaAssumption DEF DatabaseTypes
<1>3. (UNCHANGED branch) => BranchOK
  BY <1>1 DEF DatabaseTypes
<1>4. (UNCHANGED plain) => PlainOK
  BY <1>1 DEF DatabaseTypes
<1>5. CASE StartOn(c)
  <2>1. BranchOK
    BY <1>1, <1>2, <1>3, <1>5 DEF StartOn
  <2>2. PlainOK
    BY <1>1, <1>4, <1>5 DEF StartOn, DatabaseTypes
  <2>3. HistoryOK
    BY <1>1, <1>5 DEF StartOn, DatabaseTypes
  <2> QED
    BY <2>1, <2>2, <2>3 DEF DatabaseTypes
<1>6. CASE PrepareOn(c)
  <2>1. c \notin NonXa
    BY <1>1, <1>6 DEF PrepareOn, DatabaseTypes
  <2>2. BranchOK
    BY <1>2, <1>6, <2>1 DEF PrepareOn
  <2>3. PlainOK /\ HistoryOK
    BY <1>1, <1>4, <1>6 DEF PrepareOn, DatabaseTypes
  <2> QED
    BY <2>2, <2>3 DEF DatabaseTypes
<1>7. CASE CommitOn(c)
  <2>1. BranchOK
    BY <1>2, <1>7 DEF CommitOn
  <2>2. PlainOK /\ HistoryOK
    BY <1>1, <1>4, <1>7 DEF CommitOn, DatabaseTypes
  <2> QED
    BY <2>1, <2>2 DEF DatabaseTypes
<1>8. CASE RollbackOn(c)
  <2>1. BranchOK
    BY <1>2, <1>3, <1>8 DEF RollbackOn
  <2>2. PlainOK
    BY <1>1, <1>4, <1>8 DEF RollbackOn, DatabaseTypes
  <2>3. HistoryOK
    BY <1>1, <1>8 DEF RollbackOn, DatabaseTypes
  <2> QED
    BY <2>1, <2>2, <2>3 DEF DatabaseTypes
<1>9. CASE NothingDone
  BY <1>1, <1>3, <1>4, <1>9 DEF NothingDone, DatabaseTypes
<1> QED
  BY <1>5, <1>6, <1>7, <1>8, <1>9

(* What is left to show of a step of a loop that does not return.          *)
LEMMA LoopStep ==
    ASSUME IInv, op \in Loops, op' \in Loops \cup {"segv"},
           UNCHANGED <<objects, cur, ret>>,
           pos' \in 0..(Len(cnc_list[cur]) + 1), retval' \in BOOLEAN,
           to_recover' \subseteq Cncs, DatabaseTypes', LoopsInv'
    PROVE  IInv'
<1> USE DEF objects
<1>1. ret = NoRet /\ cur \in Xas /\ cur # NULL
  BY NullAssumption DEF IInv, LoopsInv, CallInv, Loops
<1>2. TypeOK'
  BY <1>1 DEF IInv, TypeOK, DatabaseTypes
<1>3. ObjectsInv'
  BY DEF IInv, ObjectsInv, RegisteredOnce, NonXaInv, Members, DatabaseTypes
<1>4. CommitOnlyAfterAllPrepared'
  BY <1>1 DEF CommitOnlyAfterAllPrepared, LoopsInv, CommitInv, NoRet
<1>5. ReturnInv'
  BY <1>1, <1>4 DEF ReturnInv, NoneLeftOpen, CommitAllOrNothing, NothingUnreported,
     BeginAllOrNothing, RollbackEndsAll, FailedCommitLeavesNothing,
     PreparedIsCommittedOrReported, StillPreparedIsReported, Returned, NoRet
<1> QED
  BY <1>2, <1>3, <1>5 DEF IInv

(* The list, the object and what is said of them stay during a call.       *)
LEMMA Frame ==
    ASSUME UNCHANGED <<objects, cur>>
    PROVE  /\ Before(pos)' = Before(pos') /\ Before(pos + 1)' = Before(pos' + 1)
           /\ From(pos)' = From(pos') /\ Members(cur)' = Members(cur)
           /\ SkipsAll' = SkipsAll /\ \A c : IsPlain(c)' = IsPlain(c)
  BY DEF objects, Before, From, Members, SkipsAll, IsPlain

(* Where a loop is.                                                        *)
LEMMA LoopFacts ==
    ASSUME IInv, op \in Loops
    PROVE  /\ TypeOK /\ cur \in Xas /\ ret = NoRet
           /\ pos \in Int /\ pos >= 0 /\ pos <= Len(cnc_list[cur]) + 1
           /\ \A c : At(c) => pos >= 1 /\ pos <= Len(cnc_list[cur])
           /\ Len(cnc_list[cur]) \in Nat
           /\ op \in {"begin_undo", "prepare_undo"} => pos <= Len(cnc_list[cur])
           /\ op \notin {"begin_undo", "prepare_undo"} => pos >= 1
           /\ DatabaseTypes /\ retval \in BOOLEAN /\ to_recover \subseteq Cncs
<1>1. TypeOK /\ cur \in Xas /\ ret = NoRet /\ cur # NULL
  BY NullAssumption DEF IInv, LoopsInv, CallInv, Loops
<1>2. cnc_list[cur] \in Seq(Cncs) /\ Len(cnc_list[cur]) \in Nat
  BY <1>1 DEF TypeOK
<1>3. pos \in 0..(Len(cnc_list[cur]) + 1) /\ retval \in BOOLEAN /\ to_recover \subseteq Cncs
  BY <1>1 DEF TypeOK
<1>4. DatabaseTypes
  BY <1>1 DEF DatabaseTypes, IInv, ObjectsInv, NonXaInv, TypeOK
<1>5. /\ op \in {"begin_undo", "prepare_undo"} => pos <= Len(cnc_list[cur])
      /\ op \notin {"begin_undo", "prepare_undo"} => pos >= 1
  BY DEF IInv, LoopsInv, CallInv, Loops
<1>6. \A c : At(c) => pos \in 1..Len(cnc_list[cur])
  BY <1>2 DEF At
<1> QED
  BY <1>1, <1>2, <1>3, <1>4, <1>5, <1>6

-----------------------------------------------------------------------------
(* gda_xa_transaction_begin()                                              *)
LEMMA BeginStepInv ==
    ASSUME IInv, NEW c \in Cncs, BeginStep(c)
    PROVE  IInv'
<1> USE DEF Move, KeepLocals, Loops
<1>1. op = "begin" /\ At(c)
  BY DEF BeginStep
<1>2. /\ c \in Members(cur) /\ Before(pos + 1) = Before(pos) \cup {c} /\ DatabaseTypes
      /\ cur \in Xas /\ pos \in Int /\ pos >= 1 /\ pos <= Len(cnc_list[cur])
      /\ Len(cnc_list[cur]) \in Nat /\ ret = NoRet
  BY <1>1, LoopFacts, WalkFacts
<1>3. UNCHANGED <<objects, cur, ret>>
  BY DEF BeginStep
<1>4. /\ Before(pos)' = Before(pos') /\ Before(pos + 1)' = Before(pos' + 1)
      /\ \A d : IsPlain(d)' = IsPlain(d)
  BY <1>3, Frame
<1>5. DatabaseTypes'
  BY <1>1, <1>2, DatabaseStep DEF BeginStep
<1>6. BeginInv
  BY DEF IInv, LoopsInv
<1>7. CASE StartOn(c) /\ Move("begin", pos + 1)
  <2>1. op' = "begin" /\ pos' = pos + 1
    BY <1>7
  <2>2. started' \subseteq Before(pos')
    BY <1>1, <1>2, <1>6, <1>7 DEF StartOn, BeginInv
  <2>3. ASSUME NEW d \in started, d # c PROVE OnlyOurs(d)'
    <3>1. OnlyOurs(d) /\ d \in Cncs
      BY <1>1, <1>2, <1>6 DEF BeginInv, DatabaseTypes
    <3>2. /\ \A x \in Xas : branch'[x][d] = branch[x][d]
          /\ d \in plain' <=> d \in plain
      BY <1>2, <1>7, <2>3, <3>1, DatabaseStep
    <3> QED
      BY <1>3, <1>4, <3>1, <3>2 DEF OnlyOurs
  <2>4. OnlyOurs(c)'
    <3>1. c \notin plain /\ \A x \in Xas : branch[x][c] # "active"
      BY <1>7 DEF StartOn, InTransaction
    <3>2. CASE IsPlain(c)
      BY <1>3, <1>4, <1>7, <3>1, <3>2 DEF StartOn, OnlyOurs
    <3>3. CASE ~IsPlain(c)
      <4>1. \A x \in Xas : x # cur => branch'[x][c] = branch[x][c]
        BY <1>2, <1>7, DatabaseStep
      <4> QED
        BY <1>3, <1>4, <1>7, <3>1, <3>3, <4>1 DEF StartOn, OnlyOurs
    <3> QED
      BY <3>2, <3>3
  <2>5. LoopsInv'
    <3>1. BeginInv'
      BY <1>4, <1>7, <2>1, <2>2, <2>3, <2>4 DEF BeginInv, StartOn
    <3>2. CallInv'
      BY <1>2, <1>3, <2>1 DEF CallInv
    <3> QED
      BY <2>1, <3>1, <3>2 DEF LoopsInv, PrepareInv, CommitInv, RollbackInv, RecoverInv
  <2> QED
    BY <1>1, <1>2, <1>3, <1>5, <2>1, <2>5, LoopStep, LoopFacts DEF BeginStep
<1>8. CASE NothingDone /\ Move("begin_undo", pos)
  <2>1. op' = "begin_undo" /\ pos' = pos /\ UNCHANGED <<history, databases>>
    BY <1>8 DEF NothingDone
  <2>2. ASSUME NEW d \in started PROVE OnlyOurs(d)' /\ d \in Before(pos + 1)
    BY <1>1, <1>2, <1>3, <1>4, <1>6, <2>1 DEF BeginInv, OnlyOurs, databases
  <2>3. BeginInv'
    BY <1>4, <1>5, <2>1, <2>2 DEF BeginInv, DatabaseTypes, history
  <2>4. CallInv'
    BY <1>2, <1>3, <2>1 DEF CallInv, objects
  <2>5. LoopsInv'
    BY <2>1, <2>3, <2>4 DEF LoopsInv, PrepareInv, CommitInv, RollbackInv, RecoverInv
  <2> QED
    BY <1>1, <1>2, <1>3, <1>5, <2>1, <2>5, LoopStep, LoopFacts DEF BeginStep
<1> QED
  BY <1>7, <1>8 DEF BeginStep

(* Its undoing walks back from the connection that failed.                 *)
LEMMA BeginUndoStepInv ==
    ASSUME IInv, NEW c \in Cncs, BeginUndoStep(c)
    PROVE  IInv'
<1> USE DEF Move, KeepLocals, Loops
<1>1. /\ op = "begin_undo" /\ At(c) /\ RollbackOn(c)
      /\ op' = "begin_undo" /\ pos' = pos - 1
  BY DEF BeginUndoStep, Previous
<1>2. /\ c \in Members(cur) /\ Before(pos + 1) = Before(pos) \cup {c} /\ DatabaseTypes
      /\ cur \in Xas /\ pos \in Int /\ pos >= 1 /\ pos <= Len(cnc_list[cur])
      /\ Len(cnc_list[cur]) \in Nat /\ ret = NoRet
  BY <1>1, LoopFacts, WalkFacts
<1>3. UNCHANGED <<objects, cur, ret>>
  BY DEF BeginUndoStep
<1>4. /\ Before(pos + 1)' = Before(pos' + 1) /\ pos' + 1 = pos
      /\ \A d : IsPlain(d)' = IsPlain(d)
  BY <1>1, <1>2, <1>3, Frame
<1>5. DatabaseTypes'
  BY <1>1, <1>2, DatabaseStep
<1>6. ASSUME NEW d \in Cncs, d \in started, d \notin failed',
             ~InTransaction(d) \/ (OnlyOurs(d) /\ d \in Before(pos + 1))
      PROVE  ~InTransaction(d)' \/ (OnlyOurs(d)' /\ d \in Before(pos))
  <2>1. CASE d # c
    <3>1. /\ \A x \in Xas : branch'[x][d] = branch[x][d]
          /\ d \in plain' <=> d \in plain
      BY <1>1, <1>2, <2>1, DatabaseStep
    <3>2. CASE ~InTransaction(d)
      BY <3>1, <3>2 DEF InTransaction
    <3>3. CASE OnlyOurs(d) /\ d \in Before(pos + 1)
      BY <1>2, <1>3, <1>4, <2>1, <3>1, <3>3 DEF OnlyOurs
    <3> QED
      BY <1>6, <3>2, <3>3
  <2>2. CASE d = c
    <3>1. IF IsPlain(c) THEN plain' = plain \ {c} /\ UNCHANGED branch
          ELSE BranchBecomes(c, "none") /\ UNCHANGED plain
      BY <1>1, <1>6, <2>2 DEF RollbackOn
    <3>2. OnlyOurs(c)
      BY <1>6, <2>2 DEF InTransaction, OnlyOurs
    <3>3. CASE IsPlain(c)
      BY <2>2, <3>1, <3>2, <3>3 DEF InTransaction, OnlyOurs
    <3>4. CASE ~IsPlain(c)
      <4>1. /\ branch'[cur][c] = "none"
            /\ \A x \in Xas : x # cur => branch'[x][c] = branch[x][c]
        BY <1>2, <3>1, <3>4 DEF BranchBecomes, DatabaseTypes
      <4> QED
        BY <2>2, <3>1, <3>2, <3>4, <4>1 DEF InTransaction, OnlyOurs
    <3> QED
      BY <3>3, <3>4
  <2> QED
    BY <2>1, <2>2
<1>7. BeginInv'
  <2>1. /\ started \subseteq Cncs /\ started' = started /\ failed \subseteq failed'
        /\ \A d \in started \ failed :
              ~InTransaction(d) \/ (OnlyOurs(d) /\ d \in Before(pos + 1))
    BY <1>1 DEF IInv, LoopsInv, BeginInv, RollbackOn
  <2>2. \A d \in started' \ failed' :
           ~InTransaction(d)' \/ (OnlyOurs(d)' /\ d \in Before(pos + 1)')
    BY <1>4, <1>6, <2>1
  <2> QED
    BY <1>1, <2>1, <2>2 DEF BeginInv
<1>8. CallInv'
  BY <1>1, <1>2, <1>3 DEF CallInv, objects
<1>9. LoopsInv'
  BY <1>1, <1>7, <1>8 DEF LoopsInv, PrepareInv, CommitInv, RollbackInv, RecoverInv
<1> QED
  BY <1>1, <1>2, <1>3, <1>5, <1>9, LoopStep, LoopFacts DEF BeginUndoStep

-----------------------------------------------------------------------------
(* gda_xa_transaction_commit(): the members are prepared ...               *)
LEMMA PrepareStepInv ==
    ASSUME IInv, NEW c \in Cncs, PrepareStep(c)
    PROVE  IInv'
<1> USE DEF Move, KeepLocals, Loops
<1>1. op = "prepare" /\ At(c) /\ ~SkipsAll
  BY DEF PrepareStep
<1>2. /\ c \in Members(cur) /\ Before(pos + 1) = Before(pos) \cup {c} /\ DatabaseTypes
      /\ cur \in Xas /\ pos \in Int /\ pos >= 1 /\ pos <= Len(cnc_list[cur])
      /\ Len(cnc_list[cur]) \in Nat /\ ret = NoRet
  BY <1>1, LoopFacts, WalkFacts
<1>3. UNCHANGED <<objects, cur, ret>>
  BY DEF PrepareStep
<1>4. /\ Before(pos)' = Before(pos') /\ Before(pos + 1)' = Before(pos' + 1)
      /\ SkipsAll' = SkipsAll
  BY <1>3, Frame
<1>5. DatabaseTypes'
  BY <1>1, <1>2, DatabaseStep DEF PrepareStep
<1>6. committed = {} /\ prepared = Before(pos)
  BY <1>1 DEF IInv, LoopsInv, PrepareInv
<1>7. CASE PrepareOn(c) /\ Move("prepare", pos + 1)
  <2>1. op' = "prepare" /\ pos' = pos + 1
    BY <1>7
  <2>2. PrepareInv'
    BY <1>1, <1>2, <1>4, <1>6, <1>7, <2>1 DEF PrepareInv, PrepareOn
  <2>3. CallInv'
    BY <1>2, <1>3, <2>1 DEF CallInv
  <2>4. LoopsInv'
    BY <2>1, <2>2, <2>3 DEF LoopsInv, BeginInv, CommitInv, RollbackInv, RecoverInv
  <2> QED
    BY <1>1, <1>2, <1>3, <1>5, <2>1, <2>4, LoopStep, LoopFacts DEF PrepareStep
<1>8. CASE NothingDone /\ Move("prepare_undo", pos)
  <2>1. op' = "prepare_undo" /\ pos' = pos /\ UNCHANGED <<history, databases>>
    BY <1>8 DEF NothingDone
  <2>2. PrepareInv'
    BY <1>2, <1>4, <1>6, <2>1 DEF PrepareInv, history
  <2>3. CallInv'
    BY <1>2, <1>3, <2>1 DEF CallInv, objects
  <2>4. LoopsInv'
    BY <2>1, <2>2, <2>3 DEF LoopsInv, BeginInv, CommitInv, RollbackInv, RecoverInv
  <2> QED
    BY <1>1, <1>2, <1>3, <1>5, <2>1, <2>4, LoopStep, LoopFacts DEF PrepareStep
<1>9. CASE NothingDone /\ Move("segv", pos)
  <2>1. op' = "segv" /\ pos' = pos
    BY <1>9
  <2>2. CallInv'
    BY <1>2, <1>3, <2>1 DEF CallInv
  <2>3. LoopsInv'
    BY <2>1, <2>2 DEF LoopsInv, BeginInv, PrepareInv, CommitInv, RollbackInv, RecoverInv
  <2> QED
    BY <1>1, <1>2, <1>3, <1>5, <2>1, <2>3, LoopStep, LoopFacts DEF PrepareStep
<1> QED
  BY <1>7, <1>8, <1>9 DEF PrepareStep

(* ... or those that were are rolled back, from the one that failed ...    *)
LEMMA PrepareUndoStepInv ==
    ASSUME IInv, NEW c \in Cncs, PrepareUndoStep(c)
    PROVE  IInv'
<1> USE DEF Move, KeepLocals, Loops
<1>1. /\ op = "prepare_undo" /\ At(c) /\ RollbackOn(c)
      /\ op' = "prepare_undo" /\ pos' = pos - 1
  BY DEF PrepareUndoStep, Previous
<1>2. /\ c \in Members(cur) /\ Before(pos + 1) = Before(pos) \cup {c} /\ DatabaseTypes
      /\ cur \in Xas /\ pos \in Int /\ pos >= 1 /\ pos <= Len(cnc_list[cur])
      /\ Len(cnc_list[cur]) \in Nat /\ ret = NoRet
  BY <1>1, LoopFacts, WalkFacts
<1>3. UNCHANGED <<objects, cur, ret>>
  BY DEF PrepareUndoStep
<1>4. Before(pos + 1)' = Before(pos' + 1) /\ pos' + 1 = pos
  BY <1>1, <1>2, <1>3, Frame
<1>5. DatabaseTypes'
  BY <1>1, <1>2, DatabaseStep
<1>6. IsPlain(c) => branch[cur][c] = "none"
  BY <1>2, NullAssumption DEF IsPlain, IInv, ObjectsInv, NonXaInv
<1>7. /\ prepared' = prepared /\ prepared \subseteq Cncs /\ committed' = {}
      /\ failed \subseteq failed'
      /\ c \in failed' \/ branch'[cur][c] = "none"
      /\ \A d \in prepared \ failed : branch[cur][d] = "none" \/ d \in Before(pos + 1)
  BY <1>1, <1>2, <1>6
     DEF RollbackOn, BranchBecomes, DatabaseTypes, IInv, LoopsInv, PrepareInv
<1>8. \A d \in Cncs : d # c => branch'[cur][d] = branch[cur][d]
  BY <1>1, <1>2, DatabaseStep
<1>9. \A d \in prepared \ failed' : branch'[cur][d] = "none" \/ d \in Before(pos)
  BY <1>2, <1>7, <1>8
<1>10. PrepareInv'
  BY <1>1, <1>3, <1>4, <1>7, <1>9 DEF PrepareInv
<1>11. CallInv'
  BY <1>1, <1>2, <1>3 DEF CallInv, objects
<1>12. LoopsInv'
  BY <1>1, <1>10, <1>11 DEF LoopsInv, BeginInv, CommitInv, RollbackInv, RecoverInv
<1> QED
  BY <1>1, <1>2, <1>3, <1>5, <1>12, LoopStep, LoopFacts DEF PrepareUndoStep

(* ... and when all are, the connection without xa_funcs is committed ...  *)
LEMMA PrepareDoneInv == ASSUME IInv, PrepareDone PROVE IInv'
<1> USE DEF Move, KeepLocals, Loops, NothingDone
<1>1. /\ Past \/ SkipsAll
      /\ op' = IF SkipsAll THEN "commit" ELSE "plain_commit"
      /\ pos' = 1 /\ UNCHANGED <<objects, cur, ret, history, databases>>
  BY DEF PrepareDone
<1>2. op = "prepare"
  BY DEF PrepareDone
<1>3. /\ DatabaseTypes /\ cur \in Xas /\ ret = NoRet /\ Len(cnc_list[cur]) \in Nat
      /\ Past => Before(pos) = Members(cur)
      /\ Before(1) = {}
  BY <1>2, LoopFacts, WalkFacts
<1>4. /\ Before(pos)' = {} /\ SkipsAll' = SkipsAll /\ Members(cur)' = Members(cur)
  BY <1>1, <1>3, Frame
<1>5. DatabaseTypes'
  BY <1>1, <1>3 DEF DatabaseTypes, history, databases
<1>6. CommitInv'
  BY <1>1, <1>2, <1>3, <1>4 DEF IInv, LoopsInv, PrepareInv, CommitInv, history, PrepareDone
<1>7. CallInv'
  BY <1>1, <1>3 DEF CallInv
<1>8. LoopsInv'
  BY <1>1, <1>6, <1>7 DEF LoopsInv, BeginInv, PrepareInv, RollbackInv, RecoverInv
<1> QED
  BY <1>1, <1>2, <1>3, <1>5, <1>8, LoopStep, LoopFacts DEF PrepareDone

(* Whatever the commit of the plain connection does, it is the first one.  *)
LEMMA PlainCommitInv == ASSUME IInv, PlainCommit PROVE IInv'
<1> USE DEF Move, KeepLocals, Loops
<1>1. /\ op = "plain_commit" /\ op' \in {"commit", "commit_undo", "segv"}
      /\ pos' = 1 /\ UNCHANGED <<objects, cur, ret, branch, started, prepared, failed>>
      /\ op' # "commit" => committed' = committed
      /\ plain' \subseteq plain /\ committed' \subseteq committed \cup plain
  BY DEF PlainCommit
<1>2. /\ DatabaseTypes /\ cur \in Xas /\ ret = NoRet /\ Len(cnc_list[cur]) \in Nat
      /\ Before(1) = {} /\ From(1) = Members(cur)
  BY <1>1, LoopFacts, WalkFacts
<1>3. /\ Before(pos)' = {} /\ From(pos)' = Members(cur) /\ SkipsAll' = SkipsAll
      /\ Members(cur)' = Members(cur)
  BY <1>1, <1>2, Frame
<1>4. DatabaseTypes'
  BY <1>1, <1>2 DEF DatabaseTypes
<1>5. committed = {} /\ prepared = Members(cur) /\ ~SkipsAll
  BY <1>1 DEF IInv, LoopsInv, CommitInv
<1>6. CommitInv'
  BY <1>1, <1>3, <1>5 DEF CommitInv
<1>7. CallInv'
  BY <1>1, <1>2 DEF CallInv
<1>8. LoopsInv'
  BY <1>1, <1>6, <1>7 DEF LoopsInv, BeginInv, PrepareInv, RollbackInv, RecoverInv
<1> QED
  BY <1>1, <1>2, <1>4, <1>8, LoopStep, LoopFacts DEF PlainCommit

(* ... whose failure has all of them rolled back, from the head ...        *)
LEMMA CommitUndoStepInv ==
    ASSUME IInv, NEW c \in Cncs, CommitUndoStep(c)
    PROVE  IInv'
<1> USE DEF Move, KeepLocals, Loops
<1>1. /\ op = "commit_undo" /\ At(c) /\ RollbackOn(c)
      /\ op' = "commit_undo" /\ pos' = pos + 1
  BY DEF CommitUndoStep
<1>2. /\ c \in Members(cur) /\ From(pos) = From(pos + 1) \cup {c} /\ DatabaseTypes
      /\ cur \in Xas /\ pos \in Int /\ pos >= 1 /\ pos <= Len(cnc_list[cur])
      /\ Len(cnc_list[cur]) \in Nat /\ ret = NoRet
  BY <1>1, LoopFacts, WalkFacts
<1>3. UNCHANGED <<objects, cur, ret>>
  BY DEF CommitUndoStep
<1>4. From(pos)' = From(pos + 1) /\ Members(cur)' = Members(cur)
  BY <1>1, <1>3, Frame
<1>5. DatabaseTypes'
  BY <1>1, <1>2, DatabaseStep
<1>6. IsPlain(c) => branch[cur][c] = "none"
  BY <1>2, NullAssumption DEF IsPlain, IInv, ObjectsInv, NonXaInv
<1>7. /\ prepared' = prepared /\ prepared \subseteq Cncs /\ committed' = {}
      /\ Members(cur) \subseteq prepared
      /\ failed \subseteq failed'
      /\ c \in failed' \/ branch'[cur][c] = "none"
      /\ \A d \in prepared \ failed : branch[cur][d] = "none" \/ d \in From(pos)
  BY <1>1, <1>2, <1>6
     DEF RollbackOn, BranchBecomes, DatabaseTypes, IInv, LoopsInv, CommitInv
<1>8. \A d \in Cncs : d # c => branch'[cur][d] = branch[cur][d]
  BY <1>1, <1>2, DatabaseStep
<1>9. \A d \in prepared \ failed' : branch'[cur][d] = "none" \/ d \in From(pos + 1)
  BY <1>2, <1>7, <1>8
<1>10. CommitInv'
  BY <1>1, <1>3, <1>4, <1>7, <1>9 DEF CommitInv
<1>11. CallInv'
  BY <1>1, <1>2, <1>3 DEF CallInv
<1>12. LoopsInv'
  BY <1>1, <1>10, <1>11 DEF LoopsInv, BeginInv, PrepareInv, RollbackInv, RecoverInv
<1> QED
  BY <1>1, <1>2, <1>3, <1>5, <1>12, LoopStep, LoopFacts DEF CommitUndoStep

(* ... and after which what was prepared is committed, or to recover.      *)
LEMMA CommitStepInv ==
    ASSUME IInv, NEW c \in Cncs, CommitStep(c)
    PROVE  IInv'
<1> USE DEF Move, Loops
<1>1. /\ op = "commit" /\ At(c) /\ ~SkipsAll
      /\ op' = "commit" /\ pos' = pos + 1 /\ UNCHANGED <<objects, cur, ret, retval>>
      /\ CommitOn(c) \/ NothingDone
  BY DEF CommitStep
<1>2. /\ c \in Members(cur) /\ Before(pos + 1) = Before(pos) \cup {c} /\ DatabaseTypes
      /\ cur \in Xas /\ pos \in Int /\ pos >= 1 /\ pos <= Len(cnc_list[cur])
      /\ Len(cnc_list[cur]) \in Nat /\ ret = NoRet /\ to_recover \subseteq Cncs
  BY <1>1, LoopFacts, WalkFacts
<1>3. /\ Before(pos)' = Before(pos + 1) /\ SkipsAll' = SkipsAll /\ Members(cur)' = Members(cur)
  BY <1>1, Frame
<1>4. DatabaseTypes'
  BY <1>1, <1>2, DatabaseStep
<1>5. prepared = Members(cur) /\ Before(pos) \subseteq committed \cup to_recover
  BY <1>1 DEF IInv, LoopsInv, CommitInv
<1>6. /\ prepared' = prepared
      /\ committed \cup to_recover \cup {c} \subseteq committed' \cup to_recover'
      /\ to_recover' \subseteq Cncs
  BY <1>2 DEF CommitStep, CommitOn, NothingDone, history
<1>7. CommitInv'
  BY <1>1, <1>2, <1>3, <1>5, <1>6 DEF CommitInv
<1>8. CallInv'
  BY <1>1, <1>2 DEF CallInv
<1>9. LoopsInv'
  BY <1>1, <1>7, <1>8 DEF LoopsInv, BeginInv, PrepareInv, RollbackInv, RecoverInv
<1> QED
  BY <1>1, <1>2, <1>4, <1>6, <1>9, LoopStep, LoopFacts

(* gda_xa_transaction_rollback()                                           *)
LEMMA RollbackStepInv ==
    ASSUME IInv, NEW c \in Cncs, RollbackStep(c)
    PROVE  IInv'
<1> USE DEF Move, KeepLocals, Loops
<1>1. /\ op = "rollback" /\ At(c) /\ RollbackOn(c)
      /\ op' = "rollback" /\ pos' = pos + 1 /\ UNCHANGED <<objects, cur, ret>>
  BY DEF RollbackStep
<1>2. /\ c \in Members(cur) /\ Before(pos + 1) = Before(pos) \cup {c} /\ DatabaseTypes
      /\ cur \in Xas /\ pos \in Int /\ pos >= 1 /\ pos <= Len(cnc_list[cur])
      /\ Len(cnc_list[cur]) \in Nat /\ ret = NoRet
      /\ Before(pos) \subseteq Cncs
  BY <1>1, LoopFacts, WalkFacts
<1>3. Before(pos)' = Before(pos + 1) /\ \A d : IsPlain(d)' = IsPlain(d)
  BY <1>1, Frame
<1>4. DatabaseTypes'
  BY <1>1, <1>2, DatabaseStep
<1>5. ASSUME NEW d \in Before(pos), d \notin failed', d # c
      PROVE  IF IsPlain(d) THEN d \notin plain' ELSE branch'[cur][d] = "none"
  <2>1. d \in Cncs /\ d \notin failed
    BY <1>1, <1>2, <1>5 DEF RollbackOn
  <2>2. IF IsPlain(d) THEN d \notin plain ELSE branch[cur][d] = "none"
    BY <1>1, <2>1 DEF IInv, LoopsInv, RollbackInv
  <2>3. (d \in plain' <=> d \in plain) /\ branch'[cur][d] = branch[cur][d]
    BY <1>1, <1>2, <1>5, <2>1, DatabaseStep
  <2> QED
    BY <2>2, <2>3
<1>6. c \notin failed' => IF IsPlain(c) THEN c \notin plain' ELSE branch'[cur][c] = "none"
  BY <1>1, <1>2 DEF RollbackOn, BranchBecomes, DatabaseTypes
<1>7. RollbackInv'
  BY <1>1, <1>2, <1>3, <1>5, <1>6 DEF RollbackInv
<1>8. CallInv'
  BY <1>1, <1>2 DEF CallInv
<1>9. LoopsInv'
  BY <1>1, <1>7, <1>8 DEF LoopsInv, BeginInv, PrepareInv, CommitInv, RecoverInv
<1> QED
  BY <1>1, <1>2, <1>4, <1>9, LoopStep, LoopFacts DEF RollbackStep

(* gda_xa_transaction_commit_recovered()                                   *)
LEMMA RecoverStepInv ==
    ASSUME IInv, NEW c \in Cncs, RecoverStep(c)
    PROVE  IInv'
<1> USE DEF Move, KeepLocals, Loops
<1>1. /\ op = "recover" /\ At(c)
      /\ op' = "recover" /\ pos' = pos + 1 /\ UNCHANGED <<objects, cur, ret>>
  BY DEF RecoverStep
<1>2. /\ c \in Members(cur) /\ Before(pos + 1) = Before(pos) \cup {c} /\ DatabaseTypes
      /\ cur \in Xas /\ pos \in Int /\ pos >= 1 /\ pos <= Len(cnc_list[cur])
      /\ Len(cnc_list[cur]) \in Nat /\ ret = NoRet
      /\ Before(pos) \subseteq Cncs /\ to_recover \subseteq Cncs /\ retval \in BOOLEAN
  BY <1>1, LoopFacts, WalkFacts
<1>3. Before(pos)' = Before(pos + 1)
  BY <1>1, Frame
<1>4. DatabaseTypes'
  <2>1. CASE failed' = failed \cup {c} /\ UNCHANGED <<started, prepared, committed, databases>>
    BY <1>2, <2>1 DEF DatabaseTypes, databases
  <2>2. CASE CommitOn(c) \/ NothingDone
    BY <1>1, <1>2, <2>2, DatabaseStep
  <2> QED
    BY <2>1, <2>2 DEF RecoverStep
<1>5. /\ \A d \in Cncs : d # c => branch'[cur][d] = branch[cur][d]
      /\ to_recover \subseteq to_recover' /\ failed \subseteq failed'
      /\ to_recover' \subseteq Cncs /\ retval' \in BOOLEAN
  <2>1. CASE CommitOn(c) \/ NothingDone
    BY <1>1, <1>2, <2>1, DatabaseStep DEF RecoverStep, CommitOn, NothingDone, history
  <2>2. CASE failed' = failed \cup {c} /\ UNCHANGED databases /\ KeepLocals
    BY <1>2, <2>2 DEF databases
  <2> QED
    BY <2>1, <2>2 DEF RecoverStep
<1>6. branch'[cur][c] = "prepared" => c \in to_recover' \cup failed'
  <2>1. IsPlain(c) => branch[cur][c] = "none"
    BY <1>2, NullAssumption DEF IsPlain, IInv, ObjectsInv, NonXaInv
  <2>2. RecoverSkips(c) => branch[cur][c] # "prepared"
    BY <1>2, <2>1 DEF RecoverSkips, CommitNeeded
  <2> QED
    BY <1>2, <2>2 DEF RecoverStep, CommitOn, BranchBecomes, NothingDone, databases, history,
       DatabaseTypes
<1>7. RecoverInv'
  BY <1>1, <1>2, <1>3, <1>5, <1>6 DEF RecoverInv, IInv, LoopsInv
<1>8. CallInv'
  BY <1>1, <1>2 DEF CallInv
<1>9. LoopsInv'
  BY <1>1, <1>7, <1>8 DEF LoopsInv, BeginInv, PrepareInv, CommitInv, RollbackInv
<1> QED
  BY <1>1, <1>2, <1>4, <1>5, <1>9, LoopStep, LoopFacts

-----------------------------------------------------------------------------
(* A call returns, and its last loop has come to the end.                  *)
LEMMA ReturnStep ==
    ASSUME IInv, op \in Loops, NEW call \in {"begin", "commit", "rollback", "recover"},
           NEW ok \in BOOLEAN, Return(call, ok), ReturnInv'
    PROVE  IInv'
<1> USE DEF objects, databases, history, Return
<1>1. TypeOK'
  <2>1. cur \in Xas /\ cur # NULL /\ TypeOK /\ Len(cnc_list[cur]) \in Nat
    BY LoopFacts, NullAssumption
  <2> QED
    BY <2>1 DEF TypeOK
<1>2. ObjectsInv'
  BY DEF IInv, ObjectsInv, RegisteredOnce, NonXaInv, Members
<1>3. LoopsInv'
  BY DEF LoopsInv, CallInv, BeginInv, PrepareInv, CommitInv, RollbackInv, RecoverInv
<1> QED
  BY <1>1, <1>2, <1>3 DEF IInv

(* begin returns: TRUE, or FALSE when the head of the list is undone.      *)
LEMMA BeginReturnInv == ASSUME IInv, BeginReturn PROVE IInv'
<1> USE DEF Loops
<1>1. CASE op = "begin" /\ Past /\ Return("begin", TRUE)
  <2>1. ReturnInv'
    BY <1>1 DEF ReturnInv, NoneLeftOpen, CommitAllOrNothing, NothingUnreported,
       BeginAllOrNothing, RollbackEndsAll, CommitOnlyAfterAllPrepared,
       FailedCommitLeavesNothing, PreparedIsCommittedOrReported, StillPreparedIsReported,
       Returned, Return
  <2> QED
    BY <1>1, <2>1, ReturnStep
<1>2. CASE op = "begin_undo" /\ Past /\ Return("begin", FALSE)
  <2>1. \A c \in started \ failed : ~InTransaction(c)
    BY <1>2, LoopFacts, WalkFacts DEF IInv, LoopsInv, BeginInv
  <2>2. BeginAllOrNothing'
    BY <1>2, <2>1 DEF BeginAllOrNothing, InTransaction, Return, history, databases
  <2>3. ReturnInv'
    BY <1>2, <2>2 DEF ReturnInv, NoneLeftOpen, CommitAllOrNothing, NothingUnreported,
       RollbackEndsAll, CommitOnlyAfterAllPrepared,
       FailedCommitLeavesNothing, PreparedIsCommittedOrReported, StillPreparedIsReported,
       Returned, Return
  <2> QED
    BY <1>2, <2>3, ReturnStep
<1> QED
  BY <1>1, <1>2 DEF BeginReturn

(* commit returns FALSE: nothing is committed, all that was prepared has   *)
(* been rolled back.                                                       *)
LEMMA CommitFailsInv ==
    ASSUME IInv, op \in {"prepare_undo", "commit_undo"}, Past, Return("commit", FALSE)
    PROVE  IInv'
<1> USE DEF Loops
<1>1. committed = {} /\ \A c \in prepared \ failed : branch[cur][c] = "none"
  BY LoopFacts, WalkFacts DEF IInv, LoopsInv, PrepareInv, CommitInv
<1>2. CommitAllOrNothing'
  BY <1>1 DEF CommitAllOrNothing, CommitOnlyAfterAllPrepared, FailedCommitLeavesNothing,
     Return, history, databases
<1>3. ReturnInv'
  BY <1>2 DEF ReturnInv, NoneLeftOpen, NothingUnreported, BeginAllOrNothing,
     RollbackEndsAll, PreparedIsCommittedOrReported, StillPreparedIsReported, Returned, Return
<1> QED
  BY <1>3, ReturnStep

(* commit returns TRUE: the list was walked, or nothing was done.          *)
LEMMA CommitReturnInv == ASSUME IInv, CommitReturn PROVE IInv'
<1> USE DEF Loops
<1>1. CASE op = "commit" /\ (Past \/ SkipsAll) /\ Return("commit", TRUE)
  <2>1. /\ prepared \subseteq committed \cup to_recover
        /\ committed = {} \/ Members(cur) \subseteq prepared
    BY <1>1, LoopFacts, WalkFacts DEF IInv, LoopsInv, CommitInv
  <2>2. /\ PreparedIsCommittedOrReported'
        /\ CommitOnlyAfterAllPrepared'
    BY <1>1, <2>1 DEF PreparedIsCommittedOrReported, CommitOnlyAfterAllPrepared, Return,
       history, objects, Members
  <2>3. ReturnInv'
    BY <1>1, <2>2 DEF ReturnInv, NoneLeftOpen, CommitAllOrNothing, NothingUnreported,
       BeginAllOrNothing, RollbackEndsAll, FailedCommitLeavesNothing,
       StillPreparedIsReported, Returned, Return
  <2> QED
    BY <1>1, <2>3, ReturnStep
<1>2. CASE op = "commit_undo" /\ Past /\ Return("commit", FALSE)
  BY <1>2, CommitFailsInv
<1> QED
  BY <1>1, <1>2 DEF CommitReturn

(* rollback returns when the list was walked.                              *)
LEMMA RollbackReturnInv == ASSUME IInv, RollbackReturn PROVE IInv'
<1> USE DEF Loops
<1>1. op = "rollback" /\ Past /\ Return("rollback", TRUE)
  BY DEF RollbackReturn
<1>2. \A c \in Members(cur) \ failed :
         IF IsPlain(c) THEN c \notin plain ELSE branch[cur][c] = "none"
  BY <1>1, LoopFacts, WalkFacts DEF IInv, LoopsInv, RollbackInv
<1>3. RollbackEndsAll'
  BY <1>1, <1>2 DEF RollbackEndsAll, Return, history, objects, databases, Members, IsPlain
<1>4. ReturnInv'
  BY <1>1, <1>3 DEF ReturnInv, NoneLeftOpen, CommitAllOrNothing, NothingUnreported,
     BeginAllOrNothing, CommitOnlyAfterAllPrepared, FailedCommitLeavesNothing,
     PreparedIsCommittedOrReported, StillPreparedIsReported, Returned, Return
<1> QED
  BY <1>1, <1>4, ReturnStep

(* commit_recovered returns when the list was walked.                      *)
LEMMA RecoverReturnInv == ASSUME IInv, RecoverReturn PROVE IInv'
<1> USE DEF Loops
<1>1. op = "recover" /\ Past /\ Return("recover", retval)
  BY DEF RecoverReturn
<1>2. \A c \in Members(cur) : branch[cur][c] = "prepared" => c \in to_recover \cup failed
  BY <1>1, LoopFacts, WalkFacts DEF IInv, LoopsInv, RecoverInv
<1>3. StillPreparedIsReported'
  BY <1>1, <1>2 DEF StillPreparedIsReported, Return, history, objects, databases, Members
<1>4. ReturnInv'
  BY <1>1, <1>3 DEF ReturnInv, NoneLeftOpen, CommitAllOrNothing, NothingUnreported,
     BeginAllOrNothing, RollbackEndsAll, CommitOnlyAfterAllPrepared,
     FailedCommitLeavesNothing, PreparedIsCommittedOrReported, Returned, Return
<1>5. retval \in BOOLEAN
  BY <1>1, LoopFacts
<1> QED
  BY <1>1, <1>4, <1>5, ReturnStep

-----------------------------------------------------------------------------
(* IInv depends on the variables only.                                     *)
LEMMA StutterInv == ASSUME IInv, UNCHANGED vars PROVE IInv'
<1> USE DEF vars, objects, history, databases
<1>1. TypeOK'
  BY DEF IInv, TypeOK
<1>2. ObjectsInv'
  BY DEF IInv, ObjectsInv, RegisteredOnce, NonXaInv, Members
<1>3. /\ Before(pos)' = Before(pos) /\ Before(pos + 1)' = Before(pos + 1)
      /\ From(pos)' = From(pos) /\ Members(cur)' = Members(cur)
      /\ SkipsAll' = SkipsAll /\ \A c : IsPlain(c)' = IsPlain(c)
  BY Frame
<1>4. \A c : (InTransaction(c)' <=> InTransaction(c)) /\ (OnlyOurs(c)' <=> OnlyOurs(c))
  BY <1>3 DEF InTransaction, OnlyOurs
<1>5. LoopsInv'
  BY <1>3, <1>4 DEF IInv, LoopsInv, CallInv, BeginInv, PrepareInv, CommitInv, RollbackInv,
     RecoverInv
<1>6. ReturnInv'
  BY <1>3, <1>4 DEF IInv, ReturnInv, NoneLeftOpen, CommitAllOrNothing, NothingUnreported,
     BeginAllOrNothing, RollbackEndsAll, CommitOnlyAfterAllPrepared,
     FailedCommitLeavesNothing, PreparedIsCommittedOrReported, StillPreparedIsReported,
     Returned
<1> QED
  BY <1>1, <1>2, <1>5, <1>6 DEF IInv

(* Every step preserves IInv.                                              *)
LEMMA NextInv == IInv /\ [Next]_vars => IInv'
<1> SUFFICES ASSUME IInv, [Next]_vars PROVE IInv'
  OBVIOUS
<1>1. CASE \E x \in Xas, c \in Cncs : Register(x, c) \/ Unregister(x, c)
  BY <1>1, RegisterInv, UnregisterInv
<1>2. CASE \E c \in Cncs : Unref(c)
  BY <1>2, UnrefInv
<1>3. CASE \E c \in Cncs : Step(c)
  BY <1>3, BeginStepInv, BeginUndoStepInv, PrepareStepInv, PrepareUndoStepInv,
     CommitUndoStepInv, CommitStepInv, RollbackStepInv, RecoverStepInv DEF Step
<1>4. CASE \E x \in Xas : Dispose(x)
  BY <1>4, DisposeInv
<1>5. CASE \E x \in Xas : Begin(x) \/ Commit(x) \/ Rollback(x) \/ CommitRecovered(x)
  BY <1>5, CallStarts DEF Begin, Commit, Rollback, CommitRecovered
<1>6. CASE BeginReturn \/ CommitReturn \/ RollbackReturn \/ RecoverReturn
  BY <1>6, BeginReturnInv, CommitReturnInv, RollbackReturnInv, RecoverReturnInv
<1>7. CASE PrepareReturn
  BY <1>7, CommitFailsInv DEF PrepareReturn
<1>8. CASE PrepareDone \/ PlainCommit
  BY <1>8, PrepareDoneInv, PlainCommitInv
<1>9. CASE Crash
  BY <1>9, CrashInv
<1>10. CASE UNCHANGED vars
  BY <1>10, StutterInv
<1> QED
  BY <1>1, <1>2, <1>3, <1>4, <1>5, <1>6, <1>7, <1>8, <1>9, <1>10 DEF Next

(* The inductive invariant: what each loop of begin, commit, rollback and  *)
(* commit_recovered has done at each position of the list.                 *)
THEOREM XaInvariance == Spec => []IInv
  BY InitInv, NextInv, PTL DEF Spec

(* Registering, unregistering, disposing and crashing keep a connection in *)
(* one transaction's list at most, the one its data names.                 *)
THEOREM MembersRegisteredOnce == Spec => []RegisteredOnce
<1>1. IInv => RegisteredOnce
  BY DEF IInv, ObjectsInv
<1> QED
  BY <1>1, XaInvariance, PTL

(* The state is type correct, and non_xa_cnc is the one member without     *)
(* xa_funcs: begin, rollback and commit_recovered never follow a NULL.     *)
THEOREM NonXaMemberIsKnown == Spec => []NonXaMemberKnown
<1>1. IInv => NonXaMemberKnown
  BY DEF IInv, ObjectsInv, NonXaInv, NonXaMemberKnown
<1> QED
  BY <1>1, XaInvariance, PTL

(* The lists of members, the data of the connections and non_xa_cnc agree, *)
(* whatever was registered, unregistered, disposed or lost in a crash.     *)
THEOREM MembersAreSound == Spec => []MembersSound
<1>1. RegisteredOnce /\ NonXaMemberKnown => MembersSound
  BY DEF MembersSound
<1> QED
  BY <1>1, MembersRegisteredOnce, NonXaMemberIsKnown, PTL

(* A begin that fails and a rollback leave no transaction open, but where  *)
(* a database refused to roll back.                                        *)
THEOREM CallsLeaveNoneOpen == Spec => []NoneLeftOpen
<1>1. IInv => NoneLeftOpen
  BY DEF IInv, ReturnInv
<1> QED
  BY <1>1, XaInvariance, PTL

(* Two-phase commit: nothing is committed before all members are prepared, *)
(* and a commit that fails has committed nothing and undone the rest.      *)
THEOREM CommitIsAllOrNothing == Spec => []CommitAllOrNothing
<1>1. IInv => CommitAllOrNothing
  BY DEF IInv, ReturnInv
<1> QED
  BY <1>1, XaInvariance, PTL

(* What a commit or a recovery leaves prepared it reports.                 *)
THEOREM PreparedAreReported == Spec => []NothingUnreported
<1>1. IInv => NothingUnreported
  BY DEF IInv, ReturnInv
<1> QED
  BY <1>1, XaInvariance, PTL
=============================================================================
