--------------------------- MODULE GdaDataProxy_proofs ---------------------------
(***************************************************************************)
(* Proofs about a data proxy, for any columns, values, models and number   *)
(* of modifications.                                                       *)
(*                                                                         *)
(* What the lists, the table and the RowModifs are to each other is OK, of *)
(* the rows m of a model, the lists p and the RowModifs f.  A call and a   *)
(* callback of the model's signals are made of a few operations: one that  *)
(* takes a RowModif off the lists, one that changes it, one that makes it, *)
(* one that moves those behind a row, one that fetches the cached ones.    *)
(* There are lemmas on each, that it keeps OK, that it leaves no RowModif  *)
(* without values (Valued) and keeps each on its row (OnRows), and one     *)
(* for each action that puts them together (Keeps).                        *)
(***************************************************************************)
EXTENDS GdaDataProxy, FiniteSetTheorems, FunctionTheorems, TLAPS

NoRepeats(s) == \A x, y \in 1..Len(s) : s[x] = s[y] => x = y

(* The lists and the table, and the RowModifs, by their types.             *)
ProxyLists == [
    all_modifs : Seq(Modifs), new_rows : Seq(Modifs),
    modify_rows : UNION {[D -> Modifs] : D \in SUBSET (0 .. MaxRows)},
    cached_modifs : Seq(Modifs), cached_inserts : Seq(Modifs)]
RowModifs == UNION {[D -> RowModif] : D \in SUBSET Modifs}

(* A RowModif is in one list, once.                                        *)
ListsOK(p) ==
    /\ NoRepeats(p.all_modifs) /\ NoRepeats(p.new_rows)
    /\ NoRepeats(p.cached_modifs) /\ NoRepeats(p.cached_inserts)
    /\ Range(p.new_rows) \subseteq Range(p.all_modifs)
    /\ Range(p.all_modifs) \cap Range(p.cached_modifs) = {}
    /\ Range(p.all_modifs) \cap Range(p.cached_inserts) = {}
    /\ Range(p.cached_modifs) \cap Range(p.cached_inserts) = {}

(* Its values are those of its columns; a new row has some, and nothing it *)
(* was before.                                                             *)
RecordOK(rm) ==
    /\ rm \in RowModif
    /\ \A c \in DOMAIN rm.modify_values :
          rm.modify_values[c] \in Domain[c] \cup {Null, Default}
    /\ rm.model_row = -1 =>
          rm.orig_values = NONE /\ rm.modify_values # Empty /\ ~rm.to_be_deleted

RecordsOK(p, f) ==
    /\ DOMAIN f = Range(p.all_modifs) \cup Range(p.cached_modifs) \cup Range(p.cached_inserts)
    /\ \A i \in DOMAIN f : RecordOK(f[i])

TableOK(p, f) == \A r \in DOMAIN p.modify_rows :
    p.modify_rows[r] \in Range(p.all_modifs) /\ f[p.modify_rows[r]].model_row = r

(* Which RowModifs are of a new row, and how far down the others are.  One *)
(* that is not in the table may be one row behind the last.                *)
PlacesOK(m, p, f) ==
    /\ \A i \in Range(p.all_modifs) :
          /\ f[i].model_row <= Len(m)
          /\ f[i].model_row = -1 <=> i \in Range(p.new_rows)
    /\ \A i \in Range(p.cached_modifs) : f[i].model_row # -1
    /\ \A i \in Range(p.cached_inserts) : f[i].model_row = -1

OK(m, p, f) ==
    /\ m \in Seq(Content) /\ Len(m) <= MaxRows /\ p \in ProxyLists /\ f \in RowModifs
    /\ ListsOK(p) /\ RecordsOK(p, f) /\ TableOK(p, f) /\ PlacesOK(m, p, f)

IInv == OK(model, proxy, modif) /\ NRows(model, proxy) <= MaxRows

(* Every RowModif has something to apply; those listed are on their rows,  *)
(* and the table finds them.  HasValues and Sound are these of the state.  *)
HasSome(rm) == rm.to_be_deleted \/ rm.modify_values # Empty
Valued(f) == \A i \in DOMAIN f : HasSome(f[i])
OnRow(m, p, rm, i) ==
    /\ rm.model_row \in DOMAIN p.modify_rows /\ p.modify_rows[rm.model_row] = i
    /\ rm.model_row < Len(m) /\ m[rm.model_row + 1] = rm.orig_values
OnRows(m, p, f) ==
    \A i \in Range(p.all_modifs) : f[i].model_row >= 0 => OnRow(m, p, f[i], i)

Keeps(m, p, f, n, q, g) ==
    /\ OK(n, q, g)
    /\ Valued(f) => Valued(g)
    /\ OnRows(m, p, f) => OnRows(n, q, g)

-----------------------------------------------------------------------------
(* Sequences without repetitions are as long as the set of what they hold. *)
LEMMA LenIsCardinality ==
    ASSUME NEW S, NEW s \in Seq(S), NoRepeats(s)
    PROVE  IsFiniteSet(Range(s)) /\ Cardinality(Range(s)) = Len(s)
<1>1. s \in [1..Len(s) -> Range(s)] /\ DOMAIN s = 1..Len(s) /\ Len(s) \in Nat
  BY DEF Range
<1>2. s \in Bijection(1..Len(s), Range(s))
  <2>1. \A x, y \in 1..Len(s) : s[x] = s[y] => x = y
    BY DEF NoRepeats
  <2>2. \A i \in Range(s) : \E x \in 1..Len(s) : s[x] = i
    BY <1>1 DEF Range
  <2> QED BY <1>1, <2>1, <2>2, Fun_IsBij
<1>3. ExistsBijection(1..Len(s), Range(s))
  BY <1>2 DEF ExistsBijection
<1>4. IsFiniteSet(1..Len(s)) /\ Cardinality(1..Len(s)) = Len(s)
  <2>1. 1 \in Int /\ Len(s) \in Int
    BY <1>1
  <2>2. /\ IsFiniteSet(1..Len(s))
        /\ Cardinality(1..Len(s)) = IF 1 > Len(s) THEN 0 ELSE Len(s) - 1 + 1
    BY ONLY <2>1, FS_Interval
  <2> QED BY ONLY <1>1, <2>2
<1> QED BY <1>3, <1>4, FS_Bijection

LEMMA RangeOf ==
    ASSUME NEW S, NEW s \in Seq(S)
    PROVE  /\ \A x \in 1..Len(s) : s[x] \in Range(s)
           /\ \A i \in Range(s) : \E x \in 1..Len(s) : s[x] = i
           /\ Range(s) \subseteq S
  BY DEF Range

(* One more at the head, one more at the end, two one after the other.     *)
LEMMA ConsFacts ==
    ASSUME NEW S, NEW s \in Seq(S), NEW i \in S, i \notin Range(s), NoRepeats(s)
    PROVE  LET t == <<i>> \o s IN
           /\ t \in Seq(S) /\ Range(t) = Range(s) \cup {i} /\ NoRepeats(t)
<1> DEFINE t == <<i>> \o s
<1>1. t \in Seq(S) /\ Len(t) = Len(s) + 1 /\ DOMAIN t = 1..Len(t) /\ DOMAIN s = 1..Len(s)
  OBVIOUS
<1>2. \A x \in 1..Len(t) : t[x] = IF x = 1 THEN i ELSE s[x - 1]
  OBVIOUS
<1> HIDE DEF t
<1>3. \A x \in 1..Len(s) : t[x + 1] = s[x] /\ x + 1 \in 1..Len(t)
  BY <1>1, <1>2
<1>4. Len(s) \in Nat
  OBVIOUS
<1>5. Range(t) = Range(s) \cup {i}
  <2>1. 1 \in 1..Len(t) /\ t[1] = i
    BY <1>1, <1>2, <1>4
  <2>2. \A x \in 1..Len(t) : t[x] \in Range(s) \cup {i}
    BY <1>1, <1>2, <1>4 DEF Range
  <2>3. \A j \in Range(s) : \E x \in 1..Len(t) : t[x] = j
    BY <1>1, <1>3 DEF Range
  <2>4. \A j \in Range(s) \cup {i} : j \in Range(t)
    BY <1>1, <2>1, <2>3 DEF Range
  <2>5. \A j \in Range(t) : j \in Range(s) \cup {i}
    BY <1>1, <2>2 DEF Range
  <2> QED BY <2>4, <2>5
<1>6. NoRepeats(t)
  <2> SUFFICES ASSUME NEW x \in 1..Len(t), NEW y \in 1..Len(t), t[x] = t[y]
      PROVE x = y
    BY DEF NoRepeats
  <2>1. \A z \in 1..Len(t) : z # 1 => z - 1 \in 1..Len(s) /\ t[z] = s[z - 1] /\ t[z] # i
    <3> SUFFICES ASSUME NEW z \in 1..Len(t), z # 1
        PROVE z - 1 \in 1..Len(s) /\ t[z] = s[z - 1] /\ t[z] # i
      OBVIOUS
    <3>1. z - 1 \in 1..Len(s) /\ t[z] = s[z - 1]
      BY <1>1, <1>2, <1>4
    <3>2. s[z - 1] \in Range(s)
      BY <1>1, <3>1 DEF Range
    <3> QED BY <3>1, <3>2
  <2>2. x = 1 <=> y = 1
    BY <1>2, <2>1
  <2>3. CASE x # 1
    <3>1. /\ x - 1 \in 1..Len(s) /\ y - 1 \in 1..Len(s)
          /\ s[x - 1] = s[y - 1]
      BY <2>1, <2>2, <2>3
    <3>2. x - 1 = y - 1
      BY <3>1 DEF NoRepeats
    <3>3. x \in Nat /\ y \in Nat
      BY <1>1, <1>4
    <3> QED BY <3>2, <3>3
  <2> QED BY <2>2, <2>3
<1> QED BY <1>1, <1>5, <1>6 DEF t

LEMMA ConcatFacts ==
    ASSUME NEW S, NEW s \in Seq(S), NEW t \in Seq(S), NoRepeats(s), NoRepeats(t),
           Range(s) \cap Range(t) = {}
    PROVE  /\ s \o t \in Seq(S) /\ Range(s \o t) = Range(s) \cup Range(t)
           /\ NoRepeats(s \o t)
<1> DEFINE u == s \o t
<1>1. u \in Seq(S) /\ Len(u) = Len(s) + Len(t) /\ DOMAIN u = 1..Len(u)
      /\ DOMAIN s = 1..Len(s) /\ DOMAIN t = 1..Len(t)
      /\ Len(s) \in Nat /\ Len(t) \in Nat
  OBVIOUS
<1>2. \A x \in 1..Len(u) : u[x] = IF x <= Len(s) THEN s[x] ELSE t[x - Len(s)]
  OBVIOUS
<1> HIDE DEF u
<1>3. /\ \A x \in 1..Len(s) : x \in 1..Len(u) /\ u[x] = s[x]
      /\ \A x \in 1..Len(t) : x + Len(s) \in 1..Len(u) /\ u[x + Len(s)] = t[x]
  <2>1. ASSUME NEW x \in 1..Len(s) PROVE x \in 1..Len(u) /\ u[x] = s[x]
    <3>1. x \in 1..Len(u) /\ x <= Len(s)
      BY <1>1
    <3> QED BY <1>2, <3>1
  <2>2. ASSUME NEW x \in 1..Len(t)
        PROVE  x + Len(s) \in 1..Len(u) /\ u[x + Len(s)] = t[x]
    <3>1. /\ x + Len(s) \in 1..Len(u) /\ ~(x + Len(s) <= Len(s))
          /\ (x + Len(s)) - Len(s) = x
      BY <1>1
    <3> QED BY <1>2, <3>1
  <2> QED BY <2>1, <2>2
<1>4. \A x \in 1..Len(u) :
          /\ x <= Len(s) => x \in 1..Len(s) /\ u[x] = s[x] /\ u[x] \in Range(s)
          /\ x > Len(s) => x - Len(s) \in 1..Len(t) /\ u[x] = t[x - Len(s)] /\ u[x] \in Range(t)
  <2> SUFFICES ASSUME NEW x \in 1..Len(u)
      PROVE  /\ x <= Len(s) => x \in 1..Len(s) /\ u[x] = s[x] /\ u[x] \in Range(s)
             /\ x > Len(s) =>
                   x - Len(s) \in 1..Len(t) /\ u[x] = t[x - Len(s)] /\ u[x] \in Range(t)
    OBVIOUS
  <2>1. CASE x <= Len(s)
    <3>1. x \in 1..Len(s) /\ u[x] = s[x] /\ ~(x > Len(s))
      BY <1>1, <1>2, <2>1
    <3> QED BY <1>1, <3>1 DEF Range
  <2>2. CASE x > Len(s)
    <3>1. x - Len(s) \in 1..Len(t) /\ u[x] = t[x - Len(s)] /\ ~(x <= Len(s))
      BY <1>1, <1>2, <2>2
    <3> QED BY <1>1, <3>1 DEF Range
  <2> QED BY <1>1, <2>1, <2>2
<1>5. Range(u) = Range(s) \cup Range(t)
  <2>1. \A i \in Range(s) \cup Range(t) : i \in Range(u)
    BY <1>1, <1>3 DEF Range
  <2>2. \A i \in Range(u) : i \in Range(s) \cup Range(t)
    BY <1>1, <1>4 DEF Range
  <2> QED BY <2>1, <2>2
<1>6. NoRepeats(u)
  <2> SUFFICES ASSUME NEW x \in 1..Len(u), NEW y \in 1..Len(u), u[x] = u[y]
      PROVE x = y
    BY DEF NoRepeats
  <2>1. x <= Len(s) <=> y <= Len(s)
    <3>1. \A z \in 1..Len(u) : z <= Len(s) \/ z > Len(s)
      BY <1>1
    <3>2. \A z \in 1..Len(u) : z <= Len(s) => u[z] \in Range(s)
      BY <1>4
    <3>3. \A z \in 1..Len(u) : z > Len(s) => u[z] \in Range(t)
      BY <1>4
    <3>4. u[x] \notin Range(s) \/ u[x] \notin Range(t)
      OBVIOUS
    <3> QED BY <3>1, <3>2, <3>3, <3>4
  <2>2. CASE x <= Len(s)
    BY <1>4, <2>1, <2>2 DEF NoRepeats
  <2>3. CASE x > Len(s)
    <3>1. y > Len(s)
      BY <1>1, <2>1, <2>3
    <3>2. x - Len(s) = y - Len(s)
      BY <1>4, <2>3, <3>1 DEF NoRepeats
    <3> QED BY <1>1, <3>2
  <2> QED BY <1>1, <2>2, <2>3
<1> QED BY <1>1, <1>5, <1>6 DEF u

LEMMA AppendFacts ==
    ASSUME NEW S, NEW s \in Seq(S), NEW i \in S, i \notin Range(s), NoRepeats(s)
    PROVE  /\ Append(s, i) \in Seq(S) /\ Range(Append(s, i)) = Range(s) \cup {i}
           /\ NoRepeats(Append(s, i)) /\ Len(Append(s, i)) = Len(s) + 1
<1>1. <<i>> \in Seq(S) /\ Len(<<i>>) = 1 /\ <<i>>[1] = i
  OBVIOUS
<1>2. NoRepeats(<<i>>) /\ Range(<<i>>) = {i}
  BY <1>1 DEF NoRepeats, Range
<1>3. Append(s, i) = s \o <<i>>
  OBVIOUS
<1>4. Range(s) \cap Range(<<i>>) = {}
  BY <1>2
<1>5. Len(Append(s, i)) = Len(s) + 1
  OBVIOUS
<1> DEFINE e == <<i>>
<1> HIDE DEF e
<1>6. /\ s \o e \in Seq(S) /\ Range(s \o e) = Range(s) \cup Range(e) /\ NoRepeats(s \o e)
  BY <1>1, <1>2, <1>4, ConcatFacts DEF e
<1> QED BY <1>2, <1>3, <1>5, <1>6 DEF e

LEMMA ReverseFacts ==
    ASSUME NEW S, NEW s \in Seq(S), NoRepeats(s)
    PROVE  Reverse(s) \in Seq(S) /\ Range(Reverse(s)) = Range(s) /\ NoRepeats(Reverse(s))
<1> DEFINE t == Reverse(s)
<1>1. Len(s) \in Nat /\ DOMAIN s = 1..Len(s)
  OBVIOUS
<1>2. \A x \in 1..Len(s) : (Len(s) - x) + 1 \in 1..Len(s)
  BY <1>1
<1>3. t \in Seq(S) /\ Len(t) = Len(s) /\ DOMAIN t = 1..Len(s)
      /\ \A x \in 1..Len(s) : t[x] = s[(Len(s) - x) + 1]
  BY <1>1, <1>2 DEF Reverse
<1> HIDE DEF t
<1>4. Range(t) = Range(s)
  <2>1. \A x \in 1..Len(s) : s[x] = t[(Len(s) - x) + 1]
    <3> TAKE x \in 1..Len(s)
    <3>1. (Len(s) - ((Len(s) - x) + 1)) + 1 = x
      BY <1>1
    <3>2. (Len(s) - x) + 1 \in 1..Len(s)
      BY <1>2
    <3>3. t[(Len(s) - x) + 1] = s[(Len(s) - ((Len(s) - x) + 1)) + 1]
      BY ONLY <1>3, <3>2
    <3> QED BY ONLY <3>1, <3>3
  <2>2. ASSUME NEW i \in Range(s) PROVE i \in Range(t)
    <3>1. PICK x \in 1..Len(s) : s[x] = i
      BY <1>1 DEF Range
    <3>2. (Len(s) - x) + 1 \in DOMAIN t /\ t[(Len(s) - x) + 1] = i
      BY <1>2, <1>3, <2>1, <3>1
    <3> QED BY <3>2 DEF Range
  <2>3. ASSUME NEW i \in Range(t) PROVE i \in Range(s)
    <3>1. PICK x \in 1..Len(s) : t[x] = i
      BY <1>3 DEF Range
    <3>2. (Len(s) - x) + 1 \in DOMAIN s /\ s[(Len(s) - x) + 1] = i
      BY <1>1, <1>2, <1>3, <3>1
    <3> QED BY <3>2 DEF Range
  <2> QED BY <2>2, <2>3
<1>5. NoRepeats(t)
  <2> SUFFICES ASSUME NEW x \in 1..Len(s), NEW y \in 1..Len(s), t[x] = t[y]
      PROVE x = y
    BY <1>3 DEF NoRepeats
  <2>1. (Len(s) - x) + 1 = (Len(s) - y) + 1
    BY <1>2, <1>3 DEF NoRepeats
  <2> QED BY <1>1, <2>1
<1> QED BY <1>3, <1>4, <1>5 DEF t

(* A finite set of places is listed in order by the inverse of their rank. *)
LEMMA ListingExists ==
    ASSUME NEW n \in Nat, NEW K \in SUBSET (1..n)
    PROVE  \E g \in [1..Cardinality(K) -> K] : Lists(g, K)
<1> DEFINE upto(i) == {j \in K : j <= i}
           N == Cardinality(K)
           rank == [i \in K |-> Cardinality(upto(i))]
<1>1. IsFiniteSet(K) /\ N \in Nat
  <2>1. IsFiniteSet(1..n)
    BY FS_Interval
  <2> QED BY <2>1, FS_Subset, FS_CardinalityType
<1>2. \A i \in K : /\ IsFiniteSet(upto(i)) /\ Cardinality(upto(i)) \in 1..N
  <2> SUFFICES ASSUME NEW i \in K
      PROVE IsFiniteSet(upto(i)) /\ Cardinality(upto(i)) \in 1..N
    OBVIOUS
  <2>1. upto(i) \in SUBSET K /\ i \in upto(i)
    OBVIOUS
  <2> HIDE DEF upto
  <2>2. IsFiniteSet(upto(i)) /\ Cardinality(upto(i)) <= N
    BY <1>1, <2>1, FS_Subset
  <2>3. Cardinality(upto(i)) \in Nat /\ Cardinality(upto(i)) # 0
    BY <2>1, <2>2, FS_CardinalityType, FS_EmptySet
  <2> QED BY <1>1, <2>2, <2>3
<1>3. \A i, j \in K : i < j => Cardinality(upto(i)) < Cardinality(upto(j))
  <2> SUFFICES ASSUME NEW i \in K, NEW j \in K, i < j
      PROVE Cardinality(upto(i)) < Cardinality(upto(j))
    OBVIOUS
  <2>1. upto(i) \in SUBSET upto(j) /\ upto(i) # upto(j)
    <3>1. j \in upto(j) /\ j \notin upto(i)
      OBVIOUS
    <3>2. \A k \in upto(i) : k \in upto(j)
      OBVIOUS
    <3> QED BY <3>1, <3>2
  <2>2. IsFiniteSet(upto(i)) /\ IsFiniteSet(upto(j)) /\ Cardinality(upto(i)) \in 1..N
        /\ Cardinality(upto(j)) \in 1..N
    BY <1>2
  <2> HIDE DEF upto
  <2>3. Cardinality(upto(i)) <= Cardinality(upto(j))
        /\ Cardinality(upto(i)) # Cardinality(upto(j))
    BY <2>1, <2>2, FS_Subset
  <2> QED BY <1>1, <2>2, <2>3
<1> HIDE DEF upto
<1>4. rank \in [K -> 1..N] /\ \A i, j \in K : i < j => rank[i] < rank[j]
  BY <1>2, <1>3
<1> HIDE DEF rank
<1>5. \A i, j \in K : rank[i] = rank[j] => i = j
  <2> SUFFICES ASSUME NEW i \in K, NEW j \in K, rank[i] = rank[j], i < j PROVE FALSE
    OBVIOUS
  <2>1. rank[i] < rank[j] /\ rank[i] \in 1..N
    BY <1>4
  <2> QED BY <2>1
<1>6. rank \in Surjection(K, 1..N)
  <2>1. rank \in Injection(K, 1..N)
    BY <1>4, <1>5, Fun_IsInj
  <2>2. IsFiniteSet(1..N) /\ Cardinality(1..N) = N
    BY <1>1, FS_Interval
  <2> QED BY <2>1, <2>2, FS_Injection
<1>7. \A k \in 1..N : \E i \in K : rank[i] = k
  BY <1>6 DEF Surjection
<1> DEFINE g == [k \in 1..N |-> CHOOSE i \in K : rank[i] = k]
<1>8. g \in [1..N -> K] /\ \A k \in 1..N : rank[g[k]] = k
  BY <1>7
<1> HIDE DEF g
<1>9. Lists(g, K)
  <2>1. \A i \in K : \E k \in 1..N : g[k] = i
    <3> TAKE i \in K
    <3>1. rank[i] \in 1..N /\ rank[g[rank[i]]] = rank[i] /\ g[rank[i]] \in K
      BY <1>4, <1>8
    <3> QED BY <1>5, <3>1
  <2>2. \A k, l \in 1..N : k < l => g[k] < g[l]
    <3> SUFFICES ASSUME NEW k \in 1..N, NEW l \in 1..N, k < l, ~(g[k] < g[l]) PROVE FALSE
      OBVIOUS
    <3>1. g[k] \in K /\ g[l] \in K /\ rank[g[k]] = k /\ rank[g[l]] = l
      BY <1>8
    <3>2. g[k] # g[l]
      BY <3>1
    <3>3. g[k] \in 1..n /\ g[l] \in 1..n
      BY <3>1
    <3>4. g[l] < g[k]
      BY <3>2, <3>3
    <3>5. l < k
      BY <1>4, <3>1, <3>4
    <3> QED BY <3>5
  <2> QED BY <1>8, <2>1, <2>2 DEF Lists
<1> QED BY <1>8, <1>9

(* A list without some elements: what is left is in its old order.         *)
Subsequence(f, t, s) ==
    /\ f \in [1..Len(t) -> 1..Len(s)]
    /\ \A x \in 1..Len(t) : t[x] = s[f[x]]
    /\ \A x, y \in 1..Len(t) : x < y => f[x] < f[y]

LEMMA WithoutFacts ==
    ASSUME NEW S, NEW s \in Seq(S), NEW C
    PROVE  LET t == Without(s, C) IN
           /\ t \in Seq(S) /\ Range(t) = Range(s) \ C
           /\ \E f : Subsequence(f, t, s)
<1> DEFINE K == Kept(s, C)
           f == CHOOSE g \in [1..Cardinality(K) -> K] : Lists(g, K)
           t == Without(s, C)
           N == Cardinality(K)
<1>1. Len(s) \in Nat /\ K \in SUBSET (1..Len(s)) /\ DOMAIN s = 1..Len(s)
  BY DEF Kept
<1>2. f \in [1..N -> K] /\ Lists(f, K)
  <2>1. \E g \in [1..N -> K] : Lists(g, K)
    BY <1>1, ListingExists
  <2> QED BY <2>1
<1>3. t = [k \in DOMAIN f |-> s[f[k]]]
  BY DEF Without
<1>4. N \in Nat
  <2>1. IsFiniteSet(1..Len(s))
    BY <1>1, FS_Interval
  <2> QED BY <1>1, <2>1, FS_Subset, FS_CardinalityType
<1> HIDE DEF f, t, N
<1>5. t = [k \in 1..N |-> s[f[k]]] /\ \A k \in 1..N : f[k] \in 1..Len(s) /\ s[f[k]] \notin C
  BY <1>1, <1>2, <1>3 DEF Kept
<1>6. t \in Seq(S) /\ Len(t) = N /\ DOMAIN t = 1..N
  BY <1>1, <1>4, <1>5
<1>7. \A i \in Range(s) \ C : i \in Range(t)
  <2> SUFFICES ASSUME NEW i \in Range(s) \ C PROVE i \in Range(t)
    OBVIOUS
  <2>1. PICK x \in 1..Len(s) : s[x] = i
    BY <1>1 DEF Range
  <2>2. x \in K
    BY <2>1 DEF Kept
  <2>3. PICK k \in 1..N : f[k] = x
    BY <1>2, <2>2 DEF Lists
  <2> QED BY <1>5, <1>6, <2>1, <2>3 DEF Range
<1>8. \A i \in Range(t) : i \in Range(s) \ C
  BY <1>1, <1>5, <1>6 DEF Range
<1>9. Subsequence(f, t, s)
  <2>1. \A k, l \in 1..N : k < l => f[k] < f[l]
    BY <1>2 DEF Lists
  <2>2. f \in [1..N -> 1..Len(s)]
    BY <1>1, <1>2
  <2> QED BY <1>5, <1>6, <2>1, <2>2 DEF Subsequence
<1> QED BY <1>6, <1>7, <1>8, <1>9 DEF t

LEMMA SubsequenceKeeps ==
    ASSUME NEW S, NEW s \in Seq(S), NEW t \in Seq(S), NEW f, Subsequence(f, t, s), NoRepeats(s)
    PROVE  NoRepeats(t)
<1> SUFFICES ASSUME NEW x \in 1..Len(t), NEW y \in 1..Len(t), t[x] = t[y], x < y PROVE FALSE
  BY DEF NoRepeats
<1>1. f[x] \in 1..Len(s) /\ f[y] \in 1..Len(s) /\ s[f[x]] = s[f[y]] /\ f[x] < f[y]
  BY DEF Subsequence
<1>2. f[x] = f[y]
  BY <1>1 DEF NoRepeats
<1> QED BY <1>1, <1>2

LEMMA WithoutNoRepeats ==
    ASSUME NEW S, NEW s \in Seq(S), NoRepeats(s), NEW C
    PROVE  NoRepeats(Without(s, C))
<1>1. PICK f : Subsequence(f, Without(s, C), s)
  BY WithoutFacts
<1>2. Without(s, C) \in Seq(S)
  BY WithoutFacts
<1> QED BY <1>1, <1>2, SubsequenceKeeps

(* One element less: as many, or one less if it was there.                 *)
LEMMA WithoutLen ==
    ASSUME NEW S, NEW s \in Seq(S), NoRepeats(s), NEW i
    PROVE  Len(Without(s, {i})) = IF i \in Range(s) THEN Len(s) - 1 ELSE Len(s)
<1> DEFINE t == Without(s, {i})
<1>1. t \in Seq(S) /\ Range(t) = Range(s) \ {i} /\ NoRepeats(t)
  BY WithoutFacts, WithoutNoRepeats
<1> HIDE DEF t
<1>2. /\ IsFiniteSet(Range(s)) /\ Cardinality(Range(s)) = Len(s)
      /\ Cardinality(Range(t)) = Len(t)
  BY <1>1, LenIsCardinality
<1>3. Cardinality(Range(s) \ {i}) = IF i \in Range(s) THEN Len(s) - 1 ELSE Len(s)
  BY <1>2, FS_RemoveElement
<1>4. Len(t) = IF i \in Range(s) THEN Len(s) - 1 ELSE Len(s)
  BY <1>1, <1>2, <1>3
<1> QED BY <1>4 DEF t

-----------------------------------------------------------------------------
(* Maps: partial functions, with a key more, with some keys only.          *)
Partial(X, V) == UNION {[D -> V] : D \in SUBSET X}

LEMMA PartialFacts ==
    ASSUME NEW X, NEW V, NEW g \in Partial(X, V)
    PROVE  DOMAIN g \in SUBSET X /\ g \in [DOMAIN g -> V]
  BY DEF Partial

LEMMA PartialIs ==
    ASSUME NEW X, NEW V, NEW D \in SUBSET X, NEW g \in [D -> V]
    PROVE  g \in Partial(X, V)
  BY DEF Partial

LEMMA EmptyFacts ==
    ASSUME NEW D, NEW V, NEW g \in [D -> V]
    PROVE  g = Empty <=> D = {}
<1>1. DOMAIN Empty = {}
  BY DEF Empty
<1>2. CASE D = {}
  <2>1. Empty \in [{} -> V]
    BY DEF Empty
  <2> QED BY <1>2, <2>1
<1>3. CASE D # {}
  BY <1>1, <1>3
<1> QED BY <1>2, <1>3

LEMMA KeepFacts ==
    ASSUME NEW X, NEW V, NEW g \in Partial(X, V), NEW D \in SUBSET DOMAIN g
    PROVE  Keep(g, D) \in Partial(X, V) /\ DOMAIN Keep(g, D) = D
           /\ \A x \in D : Keep(g, D)[x] = g[x]
<1>1. DOMAIN g \in SUBSET X /\ g \in [DOMAIN g -> V]
  BY PartialFacts
<1>2. Keep(g, D) \in [D -> V] /\ D \in SUBSET X
  BY <1>1 DEF Keep
<1> QED BY <1>2, PartialIs DEF Keep

IsMapped(g, x, v, h) ==
    /\ DOMAIN h = DOMAIN g \cup {x} /\ h[x] = v
    /\ \A y \in DOMAIN g : y # x => h[y] = g[y]

LEMMA MappedFacts ==
    ASSUME NEW X, NEW V, NEW g \in Partial(X, V), NEW x \in X, NEW v \in V
    PROVE  Mapped(g, x, v) \in Partial(X, V) /\ IsMapped(g, x, v, Mapped(g, x, v))
<1>1. DOMAIN g \in SUBSET X /\ g \in [DOMAIN g -> V]
  BY PartialFacts
<1>2. Mapped(g, x, v) \in [DOMAIN g \cup {x} -> V] /\ DOMAIN g \cup {x} \in SUBSET X
  BY <1>1 DEF Mapped
<1> QED BY <1>2, PartialIs DEF Mapped, IsMapped

LEMMA ExceptFacts ==
    ASSUME NEW X, NEW V, NEW g \in Partial(X, V), NEW x \in DOMAIN g, NEW v \in V
    PROVE  /\ [g EXCEPT ![x] = v] \in Partial(X, V)
           /\ DOMAIN [g EXCEPT ![x] = v] = DOMAIN g
           /\ [g EXCEPT ![x] = v][x] = v
           /\ \A y \in DOMAIN g : y # x => [g EXCEPT ![x] = v][y] = g[y]
<1>1. DOMAIN g \in SUBSET X /\ g \in [DOMAIN g -> V]
  BY PartialFacts
<1>2. [g EXCEPT ![x] = v] \in [DOMAIN g -> V]
  BY <1>1
<1> QED BY <1>1, <1>2, PartialIs

(* The lists, the table and the RowModifs by their types.                  *)
LEMMA ListsType ==
    ASSUME NEW p \in ProxyLists
    PROVE  /\ p.all_modifs \in Seq(Modifs) /\ p.new_rows \in Seq(Modifs)
           /\ p.cached_modifs \in Seq(Modifs) /\ p.cached_inserts \in Seq(Modifs)
           /\ p.modify_rows \in Partial(0 .. MaxRows, Modifs)
  BY DEF ProxyLists, Partial

LEMMA ModifsType == RowModifs = Partial(Modifs, RowModif)
  BY DEF RowModifs, Partial
-----------------------------------------------------------------------------
(* A RowModif is taken off the lists and off the table, and freed.         *)
IsUnlisted(p, i, r, q) ==
    /\ q \in ProxyLists
    /\ q.all_modifs = Without(p.all_modifs, {i})
    /\ q.new_rows = Without(p.new_rows, {i})
    /\ q.cached_modifs = p.cached_modifs /\ q.cached_inserts = p.cached_inserts
    /\ Range(q.all_modifs) = Range(p.all_modifs) \ {i}
    /\ Range(q.new_rows) = Range(p.new_rows) \ {i}
    /\ DOMAIN q.modify_rows = DOMAIN p.modify_rows \ {r}
    /\ \A x \in DOMAIN q.modify_rows : q.modify_rows[x] = p.modify_rows[x]

LEMMA UnlistedFacts ==
    ASSUME NEW p \in ProxyLists, NEW i, NEW r
    PROVE  IsUnlisted(p, i, r, Unlisted(p, i, r))
<1> DEFINE q == Unlisted(p, i, r)
<1>1. /\ q.all_modifs = Without(p.all_modifs, {i})
      /\ q.new_rows = Without(p.new_rows, {i})
      /\ q.cached_modifs = p.cached_modifs /\ q.cached_inserts = p.cached_inserts
      /\ q.modify_rows = Unmapped(p.modify_rows, r)
      /\ q = [all_modifs |-> q.all_modifs, new_rows |-> q.new_rows,
              modify_rows |-> q.modify_rows, cached_modifs |-> q.cached_modifs,
              cached_inserts |-> q.cached_inserts]
  <2>1. p = [all_modifs |-> p.all_modifs, new_rows |-> p.new_rows,
             modify_rows |-> p.modify_rows, cached_modifs |-> p.cached_modifs,
             cached_inserts |-> p.cached_inserts]
    BY DEF ProxyLists
  <2> DEFINE a == Without(p.all_modifs, {i})
             n == Without(p.new_rows, {i})
             t == Unmapped(p.modify_rows, r)
  <2>2. q = [p EXCEPT !.all_modifs = a, !.new_rows = n, !.modify_rows = t]
    BY DEF Unlisted
  <2> HIDE DEF q, a, n, t
  <2>3. q = [all_modifs |-> a, new_rows |-> n, modify_rows |-> t,
             cached_modifs |-> p.cached_modifs, cached_inserts |-> p.cached_inserts]
    BY ONLY <2>1, <2>2
  <2> QED BY ONLY <2>3 DEF a, n, t
<1> HIDE DEF q
<1>2. /\ q.all_modifs \in Seq(Modifs) /\ Range(q.all_modifs) = Range(p.all_modifs) \ {i}
      /\ q.new_rows \in Seq(Modifs) /\ Range(q.new_rows) = Range(p.new_rows) \ {i}
  BY <1>1, ListsType, WithoutFacts
<1>3. /\ q.modify_rows \in Partial(0 .. MaxRows, Modifs)
      /\ DOMAIN q.modify_rows = DOMAIN p.modify_rows \ {r}
      /\ \A x \in DOMAIN q.modify_rows : q.modify_rows[x] = p.modify_rows[x]
  <2>1. DOMAIN p.modify_rows \ {r} \in SUBSET DOMAIN p.modify_rows
    OBVIOUS
  <2> QED BY <1>1, <2>1, ListsType, KeepFacts DEF Unmapped
<1>4. q \in ProxyLists
  BY <1>1, <1>2, <1>3, ListsType DEF ProxyLists, Partial
<1>5. IsUnlisted(p, i, r, q)
  BY <1>1, <1>2, <1>3, <1>4 DEF IsUnlisted
<1> QED BY <1>5 DEF q

LEMMA FreedFacts ==
    ASSUME NEW f \in RowModifs, NEW i
    PROVE  Freed(f, i) \in RowModifs /\ DOMAIN Freed(f, i) = DOMAIN f \ {i}
           /\ \A j \in DOMAIN f \ {i} : Freed(f, i)[j] = f[j]
<1>1. DOMAIN f \ {i} \in SUBSET DOMAIN f
  OBVIOUS
<1> QED BY <1>1, ModifsType, KeepFacts DEF Freed

LEMMA DropKeeps ==
    ASSUME NEW m, NEW p, NEW f, OK(m, p, f), NEW i \in Range(p.all_modifs)
    PROVE  /\ Keeps(m, p, f, m, Unlisted(p, i, f[i].model_row), Freed(f, i))
           /\ Len(Unlisted(p, i, f[i].model_row).new_rows) =
                 IF i \in Range(p.new_rows) THEN Len(p.new_rows) - 1 ELSE Len(p.new_rows)
<1> DEFINE r == f[i].model_row
           q == Unlisted(p, i, r)
           g == Freed(f, i)
<1>1. /\ m \in Seq(Content) /\ Len(m) <= MaxRows /\ p \in ProxyLists /\ f \in RowModifs
      /\ ListsOK(p) /\ RecordsOK(p, f) /\ TableOK(p, f) /\ PlacesOK(m, p, f)
  BY DEF OK
<1>2. /\ q \in ProxyLists
      /\ q.all_modifs = Without(p.all_modifs, {i})
      /\ q.new_rows = Without(p.new_rows, {i})
      /\ q.cached_modifs = p.cached_modifs /\ q.cached_inserts = p.cached_inserts
      /\ Range(q.all_modifs) = Range(p.all_modifs) \ {i}
      /\ Range(q.new_rows) = Range(p.new_rows) \ {i}
      /\ DOMAIN q.modify_rows = DOMAIN p.modify_rows \ {r}
      /\ \A x \in DOMAIN q.modify_rows : q.modify_rows[x] = p.modify_rows[x]
  <2>1. p \in ProxyLists
    BY <1>1
  <2>2. IsUnlisted(p, i, r, q)
    BY ONLY <2>1, UnlistedFacts DEF q
  <2> HIDE DEF r, q
  <2> QED BY ONLY <2>2 DEF IsUnlisted
<1>3. g \in RowModifs /\ DOMAIN g = DOMAIN f \ {i} /\ \A j \in DOMAIN g : g[j] = f[j]
  BY <1>1, FreedFacts
<1> HIDE DEF q, g
<1>4. i \in DOMAIN f /\ i \notin Range(p.cached_modifs) /\ i \notin Range(p.cached_inserts)
  BY <1>1 DEF RecordsOK, ListsOK
<1>5. ListsOK(q)
  <2>1. NoRepeats(q.all_modifs) /\ NoRepeats(q.new_rows)
    BY <1>1, <1>2, ListsType, WithoutNoRepeats DEF ListsOK
  <2> QED BY <1>1, <1>2, <2>1 DEF ListsOK
<1>6. RecordsOK(q, g)
  BY <1>1, <1>2, <1>3, <1>4 DEF RecordsOK
<1>7. TableOK(q, g)
  <2> SUFFICES ASSUME NEW x \in DOMAIN q.modify_rows
      PROVE q.modify_rows[x] \in Range(q.all_modifs) /\ g[q.modify_rows[x]].model_row = x
    BY DEF TableOK
  <2>1. /\ x \in DOMAIN p.modify_rows /\ x # r /\ q.modify_rows[x] = p.modify_rows[x]
        /\ p.modify_rows[x] \in Range(p.all_modifs) /\ f[p.modify_rows[x]].model_row = x
    BY <1>1, <1>2 DEF TableOK
  <2>2. p.modify_rows[x] # i
    BY <2>1
  <2>3. p.modify_rows[x] \in DOMAIN g
    BY <1>1, <1>3, <2>1, <2>2 DEF RecordsOK
  <2> QED BY <1>2, <1>3, <2>1, <2>2, <2>3
<1>8. PlacesOK(m, q, g)
  <2>1. \A j \in Range(q.all_modifs) \cup Range(q.cached_modifs) \cup Range(q.cached_inserts) :
           j \in DOMAIN g /\ g[j] = f[j]
    BY <1>1, <1>2, <1>3, <1>4 DEF RecordsOK
  <2> QED BY <1>1, <1>2, <2>1 DEF PlacesOK
<1>9. Valued(f) => Valued(g)
  BY <1>3 DEF Valued
<1>10. OnRows(m, p, f) => OnRows(m, q, g)
  <2> SUFFICES ASSUME OnRows(m, p, f), NEW j \in Range(q.all_modifs), g[j].model_row >= 0
      PROVE OnRow(m, q, g[j], j)
    BY DEF OnRows
  <2>1. j \in Range(p.all_modifs) /\ j # i /\ j \in DOMAIN g /\ g[j] = f[j]
    BY <1>1, <1>2, <1>3 DEF RecordsOK
  <2>2. OnRow(m, p, f[j], j)
    BY <2>1 DEF OnRows
  <2>3. f[j].model_row # r
    <3> SUFFICES ASSUME f[j].model_row = r PROVE FALSE
      OBVIOUS
    <3>1. OnRow(m, p, f[i], i)
      BY <2>1 DEF OnRows
    <3> QED BY <2>1, <2>2, <3>1 DEF OnRow
  <2> QED BY <1>2, <2>1, <2>2, <2>3 DEF OnRow
<1>11. Len(q.new_rows) = IF i \in Range(p.new_rows) THEN Len(p.new_rows) - 1
                         ELSE Len(p.new_rows)
  BY <1>1, <1>2, ListsType, WithoutLen DEF ListsOK
<1>12. OK(m, q, g)
  BY <1>1, <1>2, <1>3, <1>5, <1>6, <1>7, <1>8 DEF OK
<1> QED BY <1>9, <1>10, <1>11, <1>12 DEF Keeps, q, g

(* A RowModif is changed, on its row and with what the row was.            *)
LEMMA ChangeKeeps ==
    ASSUME NEW m, NEW p, NEW f, OK(m, p, f), NEW i \in Range(p.all_modifs),
           NEW rm, RecordOK(rm), rm.model_row = f[i].model_row,
           rm.orig_values = f[i].orig_values
    PROVE  /\ OK(m, p, [f EXCEPT ![i] = rm])
           /\ Valued(f) /\ HasSome(rm) => Valued([f EXCEPT ![i] = rm])
           /\ OnRows(m, p, f) => OnRows(m, p, [f EXCEPT ![i] = rm])
<1> DEFINE g == [f EXCEPT ![i] = rm]
<1>1. /\ m \in Seq(Content) /\ Len(m) <= MaxRows /\ p \in ProxyLists /\ f \in RowModifs
      /\ ListsOK(p) /\ RecordsOK(p, f) /\ TableOK(p, f) /\ PlacesOK(m, p, f)
  BY DEF OK
<1>2. i \in DOMAIN f /\ rm \in RowModif
  BY <1>1 DEF RecordsOK, RecordOK
<1>3. g \in RowModifs /\ DOMAIN g = DOMAIN f /\ g[i] = rm /\ \A j \in DOMAIN f : j # i => g[j] = f[j]
  BY <1>1, <1>2, ModifsType, ExceptFacts
<1> HIDE DEF g
<1>4. \A j \in DOMAIN f :
         g[j].model_row = f[j].model_row /\ g[j].orig_values = f[j].orig_values
  BY <1>3
<1>5. RecordsOK(p, g)
  BY <1>1, <1>3 DEF RecordsOK
<1>6. TableOK(p, g)
  <2>1. \A x \in DOMAIN p.modify_rows : p.modify_rows[x] \in DOMAIN f
    BY <1>1 DEF TableOK, RecordsOK
  <2> QED BY <1>1, <1>4, <2>1 DEF TableOK
<1>7. PlacesOK(m, p, g)
  <2>1. \A j \in Range(p.all_modifs) \cup Range(p.cached_modifs) \cup Range(p.cached_inserts) :
           g[j].model_row = f[j].model_row
    BY <1>1, <1>4 DEF RecordsOK
  <2> QED BY <1>1, <2>1 DEF PlacesOK
<1>8. Valued(f) /\ HasSome(rm) => Valued(g)
  BY <1>3 DEF Valued
<1>9. OnRows(m, p, f) => OnRows(m, p, g)
  <2>1. \A j \in Range(p.all_modifs) : j \in DOMAIN f
    BY <1>1 DEF RecordsOK
  <2> QED BY <1>4, <2>1 DEF OnRows, OnRow
<1> QED BY <1>1, <1>3, <1>5, <1>6, <1>7, <1>8, <1>9 DEF OK, g
-----------------------------------------------------------------------------
(* A RowModif is made, for a row of the model that has none.               *)
IsCreated(p, i, r, q) ==
    /\ q \in ProxyLists
    /\ q.all_modifs = <<i>> \o p.all_modifs /\ q.new_rows = p.new_rows
    /\ q.cached_modifs = p.cached_modifs /\ q.cached_inserts = p.cached_inserts
    /\ Range(q.all_modifs) = Range(p.all_modifs) \cup {i} /\ NoRepeats(q.all_modifs)
    /\ DOMAIN q.modify_rows = DOMAIN p.modify_rows \cup {r}
    /\ q.modify_rows[r] = i
    /\ \A x \in DOMAIN p.modify_rows : x # r => q.modify_rows[x] = p.modify_rows[x]

LEMMA CreatedFacts ==
    ASSUME NEW p \in ProxyLists, NEW i \in Modifs, NEW r \in 0 .. MaxRows,
           i \notin Range(p.all_modifs), NoRepeats(p.all_modifs)
    PROVE  IsCreated(p, i, r, Created(p, i, r))
<1> DEFINE q == Created(p, i, r)
           a == <<i>> \o p.all_modifs
           t == Mapped(p.modify_rows, r, i)
<1>1. a \in Seq(Modifs) /\ Range(a) = Range(p.all_modifs) \cup {i} /\ NoRepeats(a)
  BY ListsType, ConsFacts
<1>2. /\ t \in Partial(0 .. MaxRows, Modifs) /\ DOMAIN t = DOMAIN p.modify_rows \cup {r}
      /\ t[r] = i /\ \A x \in DOMAIN p.modify_rows : x # r => t[x] = p.modify_rows[x]
  <2>1. t \in Partial(0 .. MaxRows, Modifs) /\ IsMapped(p.modify_rows, r, i, t)
    BY ListsType, MappedFacts
  <2> QED BY <2>1 DEF IsMapped
<1>3. p = [all_modifs |-> p.all_modifs, new_rows |-> p.new_rows,
           modify_rows |-> p.modify_rows, cached_modifs |-> p.cached_modifs,
           cached_inserts |-> p.cached_inserts]
  BY DEF ProxyLists
<1>4. q = [p EXCEPT !.all_modifs = a, !.modify_rows = t]
  BY DEF Created
<1> HIDE DEF q, a, t
<1>5. q = [all_modifs |-> a, new_rows |-> p.new_rows, modify_rows |-> t,
           cached_modifs |-> p.cached_modifs, cached_inserts |-> p.cached_inserts]
  BY ONLY <1>3, <1>4
<1>6. /\ q.all_modifs = a /\ q.new_rows = p.new_rows /\ q.modify_rows = t
      /\ q.cached_modifs = p.cached_modifs /\ q.cached_inserts = p.cached_inserts
  BY ONLY <1>5
<1>7. q \in ProxyLists
  BY <1>1, <1>2, <1>5, ListsType DEF ProxyLists, Partial
<1>8. IsCreated(p, i, r, q)
  BY <1>1, <1>2, <1>6, <1>7 DEF IsCreated, a
<1> QED BY <1>8 DEF q

LEMMA CreatedKeeps ==
    ASSUME NEW m, NEW p, NEW f, OK(m, p, f), NEW i \in Modifs, i \notin DOMAIN f,
           NEW r \in Nat, r < Len(m), r \notin DOMAIN p.modify_rows,
           NEW rm, RecordOK(rm), rm.model_row = r, rm.orig_values = m[r + 1]
    PROVE  /\ OK(m, Created(p, i, r), Mapped(f, i, rm))
           /\ Valued(f) /\ HasSome(rm) => Valued(Mapped(f, i, rm))
           /\ OnRows(m, p, f) => OnRows(m, Created(p, i, r), Mapped(f, i, rm))
<1> DEFINE q == Created(p, i, r)
           g == Mapped(f, i, rm)
<1>1. /\ m \in Seq(Content) /\ Len(m) <= MaxRows /\ p \in ProxyLists /\ f \in RowModifs
      /\ ListsOK(p) /\ RecordsOK(p, f) /\ TableOK(p, f) /\ PlacesOK(m, p, f)
  BY DEF OK
<1>2. /\ i \notin Range(p.all_modifs) /\ i \notin Range(p.cached_modifs)
      /\ i \notin Range(p.cached_inserts) /\ i \notin Range(p.new_rows)
  BY <1>1 DEF RecordsOK, ListsOK
<1>3. r \in 0 .. MaxRows /\ rm \in RowModif
  BY <1>1, BoundsAssumption DEF RecordOK
<1>4. IsCreated(p, i, r, q)
  BY <1>1, <1>2, <1>3, CreatedFacts DEF ListsOK
<1>5. /\ g \in RowModifs /\ DOMAIN g = DOMAIN f \cup {i} /\ g[i] = rm
      /\ \A j \in DOMAIN f : g[j] = f[j]
  <2>1. g \in RowModifs /\ IsMapped(f, i, rm, g)
    BY <1>1, <1>3, ModifsType, MappedFacts
  <2> QED BY <2>1 DEF IsMapped
<1> HIDE DEF q, g
<1>6. ListsOK(q)
  BY <1>1, <1>2, <1>4 DEF ListsOK, IsCreated
<1>7. RecordsOK(q, g)
  BY <1>1, <1>4, <1>5 DEF RecordsOK, IsCreated
<1>8. \A j \in Range(p.all_modifs) \cup Range(p.cached_modifs) \cup Range(p.cached_inserts) :
         j # i /\ g[j] = f[j]
  BY <1>1, <1>2, <1>5 DEF RecordsOK
<1>9. TableOK(q, g)
  BY <1>1, <1>4, <1>5, <1>8 DEF TableOK, IsCreated
<1>10. PlacesOK(m, q, g)
  <2>1. i \notin Range(q.new_rows) /\ r <= Len(m) /\ r # -1
    BY <1>1, <1>2, <1>4 DEF IsCreated
  <2> QED BY <1>1, <1>4, <1>5, <1>8, <2>1 DEF PlacesOK, IsCreated
<1>11. Valued(f) /\ HasSome(rm) => Valued(g)
  BY <1>5 DEF Valued
<1>12. OnRows(m, p, f) => OnRows(m, q, g)
  <2> SUFFICES ASSUME OnRows(m, p, f), NEW j \in Range(q.all_modifs), g[j].model_row >= 0
      PROVE OnRow(m, q, g[j], j)
    BY DEF OnRows
  <2>1. CASE j = i
    BY <1>4, <1>5, <2>1 DEF OnRow, IsCreated
  <2>2. CASE j # i
    <3>1. j \in Range(p.all_modifs) /\ g[j] = f[j]
      BY <1>4, <1>8, <2>2 DEF IsCreated
    <3>2. OnRow(m, p, f[j], j)
      BY <3>1 DEF OnRows
    <3> QED BY <1>4, <3>1, <3>2 DEF OnRow, IsCreated
  <2> QED BY <2>1, <2>2
<1>13. OK(m, q, g)
  BY <1>1, <1>4, <1>5, <1>6, <1>7, <1>9, <1>10 DEF OK, IsCreated
<1> QED BY <1>11, <1>12, <1>13 DEF q, g
-----------------------------------------------------------------------------
(* A RowModif is made for a new row.                                       *)
Appended(p, i) == [p EXCEPT !.all_modifs = <<i>> \o @, !.new_rows = Append(@, i)]

IsAppended(p, i, q) ==
    /\ q \in ProxyLists
    /\ q.cached_modifs = p.cached_modifs /\ q.cached_inserts = p.cached_inserts
    /\ q.modify_rows = p.modify_rows
    /\ Range(q.all_modifs) = Range(p.all_modifs) \cup {i} /\ NoRepeats(q.all_modifs)
    /\ Range(q.new_rows) = Range(p.new_rows) \cup {i} /\ NoRepeats(q.new_rows)
    /\ Len(q.new_rows) = Len(p.new_rows) + 1

LEMMA AppendedFacts ==
    ASSUME NEW p \in ProxyLists, NEW i \in Modifs, ListsOK(p), i \notin Range(p.all_modifs)
    PROVE  IsAppended(p, i, Appended(p, i))
<1> DEFINE q == Appended(p, i)
           a == <<i>> \o p.all_modifs
           n == Append(p.new_rows, i)
<1>1. a \in Seq(Modifs) /\ Range(a) = Range(p.all_modifs) \cup {i} /\ NoRepeats(a)
  BY ListsType, ConsFacts DEF ListsOK
<1>2. n \in Seq(Modifs) /\ Range(n) = Range(p.new_rows) \cup {i} /\ NoRepeats(n)
      /\ Len(n) = Len(p.new_rows) + 1
  <2>1. i \notin Range(p.new_rows) /\ NoRepeats(p.new_rows) /\ p.new_rows \in Seq(Modifs)
    BY ListsType DEF ListsOK
  <2> QED BY <2>1, AppendFacts
<1>3. p = [all_modifs |-> p.all_modifs, new_rows |-> p.new_rows,
           modify_rows |-> p.modify_rows, cached_modifs |-> p.cached_modifs,
           cached_inserts |-> p.cached_inserts]
  BY DEF ProxyLists
<1>4. q = [p EXCEPT !.all_modifs = a, !.new_rows = n]
  BY DEF Appended
<1> HIDE DEF q, a, n
<1>5. q = [all_modifs |-> a, new_rows |-> n, modify_rows |-> p.modify_rows,
           cached_modifs |-> p.cached_modifs, cached_inserts |-> p.cached_inserts]
  BY ONLY <1>3, <1>4
<1>6. /\ q.all_modifs = a /\ q.new_rows = n /\ q.modify_rows = p.modify_rows
      /\ q.cached_modifs = p.cached_modifs /\ q.cached_inserts = p.cached_inserts
  BY ONLY <1>5
<1>7. q \in ProxyLists
  BY <1>1, <1>2, <1>5, ListsType DEF ProxyLists, Partial
<1>8. IsAppended(p, i, q)
  BY <1>1, <1>2, <1>6, <1>7 DEF IsAppended
<1> QED BY <1>8 DEF q

LEMMA AppendedKeeps ==
    ASSUME NEW m, NEW p, NEW f, OK(m, p, f), NEW i \in Modifs, i \notin DOMAIN f,
           NEW rm, RecordOK(rm), rm.model_row = -1
    PROVE  /\ Keeps(m, p, f, m, Appended(p, i), Mapped(f, i, rm))
           /\ Len(Appended(p, i).new_rows) = Len(p.new_rows) + 1
<1> DEFINE q == Appended(p, i)
           g == Mapped(f, i, rm)
<1>1. /\ m \in Seq(Content) /\ Len(m) <= MaxRows /\ p \in ProxyLists /\ f \in RowModifs
      /\ ListsOK(p) /\ RecordsOK(p, f) /\ TableOK(p, f) /\ PlacesOK(m, p, f)
  BY DEF OK
<1>2. /\ i \notin Range(p.all_modifs) /\ i \notin Range(p.cached_modifs)
      /\ i \notin Range(p.cached_inserts)
  BY <1>1 DEF RecordsOK
<1>3. IsAppended(p, i, q)
  BY <1>1, <1>2, AppendedFacts
<1>4. /\ g \in RowModifs /\ DOMAIN g = DOMAIN f \cup {i} /\ g[i] = rm
      /\ \A j \in DOMAIN f : g[j] = f[j]
  <2>1. g \in RowModifs /\ IsMapped(f, i, rm, g)
    BY <1>1, ModifsType, MappedFacts DEF RecordOK
  <2> QED BY <2>1 DEF IsMapped
<1> HIDE DEF q, g
<1>5. ListsOK(q)
  BY <1>1, <1>2, <1>3 DEF ListsOK, IsAppended
<1>6. RecordsOK(q, g)
  BY <1>1, <1>3, <1>4 DEF RecordsOK, IsAppended
<1>7. \A j \in Range(p.all_modifs) \cup Range(p.cached_modifs) \cup Range(p.cached_inserts) :
         j # i /\ g[j] = f[j]
  BY <1>1, <1>2, <1>4 DEF RecordsOK
<1>8. TableOK(q, g)
  BY <1>1, <1>3, <1>7 DEF TableOK, IsAppended
<1>9. PlacesOK(m, q, g)
  <2>1. -1 <= Len(m)
    BY <1>1
  <2> QED BY <1>1, <1>3, <1>4, <1>7, <2>1 DEF PlacesOK, IsAppended
<1>10. Valued(f) => Valued(g)
  BY <1>4 DEF Valued, HasSome, RecordOK
<1>11. OnRows(m, p, f) => OnRows(m, q, g)
  <2> SUFFICES ASSUME OnRows(m, p, f), NEW j \in Range(q.all_modifs), g[j].model_row >= 0
      PROVE OnRow(m, q, g[j], j)
    BY DEF OnRows
  <2>1. j # i
    BY <1>4
  <2>2. j \in Range(p.all_modifs) /\ g[j] = f[j]
    BY <1>3, <1>7, <2>1 DEF IsAppended
  <2>3. OnRow(m, p, f[j], j)
    BY <2>2 DEF OnRows
  <2> QED BY <1>3, <2>2, <2>3 DEF OnRow, IsAppended
<1>12. OK(m, q, g)
  BY <1>1, <1>3, <1>4, <1>5, <1>6, <1>8, <1>9 DEF OK, IsAppended
<1>13. Keeps(m, p, f, m, q, g)
  BY <1>10, <1>11, <1>12 DEF Keeps
<1> QED BY <1>3, <1>13 DEF q, g, IsAppended

(* All that is listed is taken off, with what the table has of it.         *)
Unchanged(p, f) ==
    [p EXCEPT !.all_modifs = <<>>, !.new_rows = <<>>,
        !.modify_rows = Keep(@, DOMAIN @ \ {f[i].model_row : i \in Range(p.all_modifs)})]
Uncached(p) == [Nothing EXCEPT !.cached_modifs = p.cached_modifs,
                               !.cached_inserts = p.cached_inserts]
Removed(p, f) == Keep(f, DOMAIN f \ Range(p.all_modifs))

IsUncached(p, q) ==
    /\ q \in ProxyLists
    /\ q.cached_modifs = p.cached_modifs /\ q.cached_inserts = p.cached_inserts
    /\ q.all_modifs = <<>> /\ q.new_rows = <<>>
    /\ Range(q.all_modifs) = {} /\ Range(q.new_rows) = {} /\ DOMAIN q.modify_rows = {}
    /\ NoRepeats(q.all_modifs) /\ NoRepeats(q.new_rows)

LEMMA NothingFacts ==
    /\ <<>> \in Seq(Modifs) /\ Range(<<>>) = {} /\ NoRepeats(<<>>)
    /\ Empty \in Partial(0 .. MaxRows, Modifs) /\ DOMAIN Empty = {}
    /\ Empty \in RowModifs
<1>1. <<>> \in Seq(Modifs) /\ Range(<<>>) = {} /\ NoRepeats(<<>>)
  BY DEF Range, NoRepeats
<1>2. DOMAIN Empty = {} /\ Empty \in [{} -> Modifs] /\ Empty \in [{} -> RowModif]
  BY DEF Empty
<1>3. {} \in SUBSET (0 .. MaxRows) /\ {} \in SUBSET Modifs
  OBVIOUS
<1> QED BY <1>1, <1>2, <1>3, PartialIs, ModifsType

LEMMA UncachedFacts ==
    ASSUME NEW p \in ProxyLists
    PROVE  IsUncached(p, Uncached(p))
<1> DEFINE q == Uncached(p)
<1>1. q = [all_modifs |-> <<>>, new_rows |-> <<>>, modify_rows |-> Empty,
           cached_modifs |-> p.cached_modifs, cached_inserts |-> p.cached_inserts]
  <2> DEFINE n == Nothing
             cm == p.cached_modifs
             ci == p.cached_inserts
  <2>1. n = [all_modifs |-> <<>>, new_rows |-> <<>>, modify_rows |-> Empty,
             cached_modifs |-> <<>>, cached_inserts |-> <<>>]
    BY DEF Nothing
  <2>2. q = [n EXCEPT !.cached_modifs = cm, !.cached_inserts = ci]
    BY DEF Uncached
  <2> HIDE DEF n, q, cm, ci
  <2>3. q = [all_modifs |-> <<>>, new_rows |-> <<>>, modify_rows |-> Empty,
             cached_modifs |-> cm, cached_inserts |-> ci]
    BY ONLY <2>1, <2>2
  <2> QED BY ONLY <2>3 DEF cm, ci
<1> HIDE DEF q
<1>2. /\ q.all_modifs = <<>> /\ q.new_rows = <<>> /\ q.modify_rows = Empty
      /\ q.cached_modifs = p.cached_modifs /\ q.cached_inserts = p.cached_inserts
  BY ONLY <1>1
<1>3. q \in ProxyLists
  BY <1>1, ListsType, NothingFacts DEF ProxyLists, Partial
<1>4. IsUncached(p, q)
  BY <1>2, <1>3, NothingFacts DEF IsUncached
<1> QED BY <1>4 DEF q

LEMMA UnchangedFacts ==
    ASSUME NEW p \in ProxyLists, NEW f, TableOK(p, f)
    PROVE  IsUncached(p, Unchanged(p, f))
<1> DEFINE q == Unchanged(p, f)
           D == DOMAIN p.modify_rows \ {f[i].model_row : i \in Range(p.all_modifs)}
           t == Keep(p.modify_rows, D)
<1>1. D = {}
  BY DEF TableOK
<1>2. t \in Partial(0 .. MaxRows, Modifs) /\ DOMAIN t = {}
  <2>1. D \in SUBSET DOMAIN p.modify_rows
    OBVIOUS
  <2> HIDE DEF D
  <2> QED BY <1>1, <2>1, ListsType, KeepFacts
<1>3. p = [all_modifs |-> p.all_modifs, new_rows |-> p.new_rows,
           modify_rows |-> p.modify_rows, cached_modifs |-> p.cached_modifs,
           cached_inserts |-> p.cached_inserts]
  BY DEF ProxyLists
<1>4. q = [p EXCEPT !.all_modifs = <<>>, !.new_rows = <<>>, !.modify_rows = t]
  BY DEF Unchanged
<1> HIDE DEF q, t, D
<1>5. q = [all_modifs |-> <<>>, new_rows |-> <<>>, modify_rows |-> t,
           cached_modifs |-> p.cached_modifs, cached_inserts |-> p.cached_inserts]
  BY ONLY <1>3, <1>4
<1>6. /\ q.all_modifs = <<>> /\ q.new_rows = <<>> /\ q.modify_rows = t
      /\ q.cached_modifs = p.cached_modifs /\ q.cached_inserts = p.cached_inserts
  BY ONLY <1>5
<1>7. q \in ProxyLists
  BY <1>2, <1>5, ListsType, NothingFacts DEF ProxyLists, Partial
<1>8. IsUncached(p, q)
  BY <1>2, <1>6, <1>7, NothingFacts DEF IsUncached
<1> QED BY <1>8 DEF q

LEMMA RemovedKeeps ==
    ASSUME NEW m, NEW p, NEW f, OK(m, p, f), NEW q, IsUncached(p, q)
    PROVE  Keeps(m, p, f, m, q, Removed(p, f))
<1> DEFINE g == Removed(p, f)
<1>1. /\ m \in Seq(Content) /\ Len(m) <= MaxRows /\ p \in ProxyLists /\ f \in RowModifs
      /\ ListsOK(p) /\ RecordsOK(p, f) /\ PlacesOK(m, p, f)
  BY DEF OK
<1>2. g \in RowModifs /\ DOMAIN g = DOMAIN f \ Range(p.all_modifs)
      /\ \A j \in DOMAIN g : g[j] = f[j]
  <2>1. DOMAIN f \ Range(p.all_modifs) \in SUBSET DOMAIN f
    OBVIOUS
  <2> QED BY <1>1, <2>1, ModifsType, KeepFacts DEF Removed
<1> HIDE DEF g
<1>3. ListsOK(q)
  BY <1>1 DEF ListsOK, IsUncached
<1>4. RecordsOK(q, g)
  BY <1>1, <1>2 DEF RecordsOK, ListsOK, IsUncached
<1>5. TableOK(q, g)
  BY DEF TableOK, IsUncached
<1>6. PlacesOK(m, q, g)
  <2>1. \A j \in Range(p.cached_modifs) \cup Range(p.cached_inserts) : g[j] = f[j]
    BY <1>1, <1>2 DEF RecordsOK, ListsOK
  <2> QED BY <1>1, <2>1 DEF PlacesOK, IsUncached
<1>7. (Valued(f) => Valued(g)) /\ OnRows(m, q, g)
  BY <1>2 DEF Valued, OnRows, IsUncached
<1>8. OK(m, q, g)
  BY <1>1, <1>2, <1>3, <1>4, <1>5, <1>6 DEF OK, IsUncached
<1> QED BY <1>7, <1>8 DEF Keeps, g
-----------------------------------------------------------------------------
(* The RowModifs behind row r are moved by d in the table, over the rows   *)
(* n that the model has when a row was inserted or removed.                *)
Shifted(p, f, r, d) == [p EXCEPT !.modify_rows = MovedRows(p, f, r, d)]

RowsMove(m, n, r, d) == \A x \in 0 .. Len(m) - 1 :
    x # r => n[(IF x > r THEN x + d ELSE x) + 1] = m[x + 1]

IsShifted(p, f, r, d, q) ==
    /\ q \in ProxyLists
    /\ q.all_modifs = p.all_modifs /\ q.new_rows = p.new_rows
    /\ q.cached_modifs = p.cached_modifs /\ q.cached_inserts = p.cached_inserts
    /\ \A x \in DOMAIN p.modify_rows :
          x <= r => x \in DOMAIN q.modify_rows /\ q.modify_rows[x] = p.modify_rows[x]
    /\ \A i \in Lasting(p, f, r, d) : f[i].model_row + d \in DOMAIN q.modify_rows
    /\ \A x \in DOMAIN q.modify_rows :
          \/ x \in DOMAIN p.modify_rows /\ x <= r
          \/ q.modify_rows[x] \in Lasting(p, f, r, d) /\ f[q.modify_rows[x]].model_row + d = x

LEMMA ShiftedFacts ==
    ASSUME NEW p \in ProxyLists, NEW f, NEW r \in Nat, NEW d \in {1, -1},
           \A i \in Range(p.all_modifs) : f[i].model_row > r => f[i].model_row + d \in 0 .. MaxRows
    PROVE  IsShifted(p, f, r, d, Shifted(p, f, r, d))
<1> DEFINE q == Shifted(p, f, r, d)
           t == MovedRows(p, f, r, d)
           left == {x \in DOMAIN p.modify_rows : x <= r}
           moved == Lasting(p, f, r, d)
           at == {f[i].model_row + d : i \in moved}
           who(x) == CHOOSE i \in moved : f[i].model_row + d = x
<1>1. t = [x \in left \cup at |-> IF x \in left THEN p.modify_rows[x] ELSE who(x)]
  BY DEF MovedRows
<1>2. \A i \in moved : i \in Range(p.all_modifs) /\ f[i].model_row + d \in 0 .. MaxRows
  BY DEF Lasting, After
<1>3. \A x \in at : who(x) \in moved /\ f[who(x)].model_row + d = x
  OBVIOUS
<1>4. DOMAIN p.modify_rows \in SUBSET (0 .. MaxRows) /\ p.modify_rows \in [DOMAIN p.modify_rows -> Modifs]
  BY ListsType, PartialFacts
<1>5. Range(p.all_modifs) \subseteq Modifs
  BY ListsType, RangeOf
<1> HIDE DEF q, t, moved, who
<1>6. t \in Partial(0 .. MaxRows, Modifs)
  <2>1. left \cup at \in SUBSET (0 .. MaxRows)
    BY <1>2, <1>4
  <2>2. t \in [left \cup at -> Modifs]
    BY <1>1, <1>2, <1>3, <1>4, <1>5
  <2> QED BY <2>1, <2>2, PartialIs
<1>7. p = [all_modifs |-> p.all_modifs, new_rows |-> p.new_rows,
           modify_rows |-> p.modify_rows, cached_modifs |-> p.cached_modifs,
           cached_inserts |-> p.cached_inserts]
  BY DEF ProxyLists
<1>8. q = [p EXCEPT !.modify_rows = t]
  BY DEF Shifted, q, t
<1>9. q = [all_modifs |-> p.all_modifs, new_rows |-> p.new_rows, modify_rows |-> t,
           cached_modifs |-> p.cached_modifs, cached_inserts |-> p.cached_inserts]
  BY ONLY <1>7, <1>8
<1>10. /\ q.all_modifs = p.all_modifs /\ q.new_rows = p.new_rows /\ q.modify_rows = t
       /\ q.cached_modifs = p.cached_modifs /\ q.cached_inserts = p.cached_inserts
  BY ONLY <1>9
<1>11. q \in ProxyLists
  BY <1>6, <1>9, ListsType DEF ProxyLists, Partial
<1>12. \A x \in DOMAIN p.modify_rows : x <= r => x \in DOMAIN t /\ t[x] = p.modify_rows[x]
  BY <1>1
<1>13. \A i \in moved : f[i].model_row + d \in DOMAIN t
  BY <1>1
<1>14. \A x \in DOMAIN t :
          \/ x \in DOMAIN p.modify_rows /\ x <= r
          \/ t[x] \in moved /\ f[t[x]].model_row + d = x
  <2> SUFFICES ASSUME NEW x \in DOMAIN t, x \notin left
      PROVE t[x] \in moved /\ f[t[x]].model_row + d = x
    OBVIOUS
  <2>1. x \in at /\ t[x] = who(x)
    BY <1>1
  <2> QED BY <1>3, <2>1
<1>15. IsShifted(p, f, r, d, q)
  BY <1>10, <1>11, <1>12, <1>13, <1>14 DEF IsShifted, moved
<1> QED BY <1>15 DEF q

LEMMA ShiftedKeeps ==
    ASSUME NEW m, NEW p, NEW f, OK(m, p, f), NEW r \in Nat, NEW d \in {1, -1},
           NEW n \in Seq(Content), Len(n) = Len(m) + d, Len(n) <= MaxRows, r <= Len(n)
    PROVE  /\ OK(n, Shifted(p, f, r, d), Moved(p, f, r, d))
           /\ Valued(f) => Valued(Moved(p, f, r, d))
           /\ /\ OnRows(m, p, f) /\ r \notin DOMAIN p.modify_rows /\ RowsMove(m, n, r, d)
              /\ ~\E i \in Range(p.all_modifs) : After(f, r, i) /\ Displaced(p, f, r, d, i)
              => OnRows(n, Shifted(p, f, r, d), Moved(p, f, r, d))
<1> DEFINE q == Shifted(p, f, r, d)
           g == Moved(p, f, r, d)
<1>1. /\ m \in Seq(Content) /\ Len(m) <= MaxRows /\ p \in ProxyLists /\ f \in RowModifs
      /\ ListsOK(p) /\ RecordsOK(p, f) /\ TableOK(p, f) /\ PlacesOK(m, p, f)
  BY DEF OK
<1>2. /\ DOMAIN f \subseteq Modifs
      /\ \A i \in DOMAIN f : f[i] \in RowModif /\ f[i].model_row \in -1 .. MaxRows
  BY <1>1 DEF RecordsOK, RecordOK, RowModif, RowModifs
<1>3. \A i \in Range(p.all_modifs) :
         i \in DOMAIN f /\ f[i].model_row \in Int /\ f[i].model_row <= Len(m)
  BY <1>1, <1>2, BoundsAssumption DEF RecordsOK, PlacesOK
<1>4. \A i \in Range(p.all_modifs) :
         f[i].model_row > r => f[i].model_row + d \in 0 .. MaxRows /\ f[i].model_row + d <= Len(n)
  BY <1>1, <1>3, BoundsAssumption
<1>5. IsShifted(p, f, r, d, q)
  BY <1>1, <1>4, ShiftedFacts
<1>6. DOMAIN g = DOMAIN f /\ \A i \in DOMAIN f :
         g[i] = IF i \in Range(p.all_modifs) /\ f[i].model_row > r
                THEN [f[i] EXCEPT !.model_row = @ + d] ELSE f[i]
  BY DEF Moved, After
<1> HIDE DEF q, g
<1>7. \A i \in DOMAIN f :
         /\ g[i].to_be_deleted = f[i].to_be_deleted /\ g[i].modify_values = f[i].modify_values
         /\ g[i].orig_values = f[i].orig_values /\ g[i] \in RowModif
         /\ g[i].model_row = IF i \in Range(p.all_modifs) /\ f[i].model_row > r
                             THEN f[i].model_row + d ELSE f[i].model_row
  <2> TAKE i \in DOMAIN f
  <2>1. CASE i \in Range(p.all_modifs) /\ f[i].model_row > r
    <3>1. f[i] \in RowModif /\ f[i].model_row + d \in -1 .. MaxRows
      BY <1>2, <1>4, <2>1
    <3>2. g[i] = [f[i] EXCEPT !.model_row = f[i].model_row + d]
      BY <1>6, <2>1
    <3> DEFINE rm == f[i]
               k == f[i].model_row + d
    <3> HIDE DEF rm, k
    <3>3. rm \in RowModif /\ k \in -1 .. MaxRows /\ g[i] = [rm EXCEPT !.model_row = k]
      BY <3>1, <3>2 DEF rm, k
    <3>4. /\ g[i].to_be_deleted = rm.to_be_deleted /\ g[i].modify_values = rm.modify_values
          /\ g[i].orig_values = rm.orig_values /\ g[i] \in RowModif /\ g[i].model_row = k
      BY ONLY <3>3 DEF RowModif
    <3> QED BY <2>1, <3>4 DEF rm, k
  <2>2. CASE ~(i \in Range(p.all_modifs) /\ f[i].model_row > r)
    BY <1>2, <1>6, <2>2
  <2> QED BY <2>1, <2>2
<1>8. g \in RowModifs
  <2>1. g \in [DOMAIN f -> RowModif]
    BY <1>6, <1>7 DEF Moved, g
  <2> QED BY <1>2, <2>1, PartialIs, ModifsType
<1>9. ListsOK(q)
  BY <1>1, <1>5 DEF ListsOK, IsShifted
<1>10. RecordsOK(q, g)
  <2>1. \A i \in DOMAIN f : RecordOK(g[i])
    <3> TAKE i \in DOMAIN f
    <3>1. RecordOK(f[i])
      BY <1>1 DEF RecordsOK
    <3>2. g[i].model_row = -1 => f[i].model_row = -1
      BY <1>2, <1>4, <1>7
    <3> QED BY <1>7, <3>1, <3>2 DEF RecordOK
  <2> QED BY <1>1, <1>5, <1>6, <2>1 DEF RecordsOK, IsShifted
<1>11. TableOK(q, g)
  <2> SUFFICES ASSUME NEW x \in DOMAIN q.modify_rows
      PROVE q.modify_rows[x] \in Range(q.all_modifs) /\ g[q.modify_rows[x]].model_row = x
    BY DEF TableOK
  <2>1. CASE x \in DOMAIN p.modify_rows /\ x <= r
    <3>1. q.modify_rows[x] = p.modify_rows[x] /\ q.all_modifs = p.all_modifs
      BY <1>5, <2>1 DEF IsShifted
    <3>2. p.modify_rows[x] \in Range(p.all_modifs) /\ f[p.modify_rows[x]].model_row = x
      BY <1>1, <2>1 DEF TableOK
    <3>3. ~(f[p.modify_rows[x]].model_row > r)
      BY <1>3, <2>1, <3>2
    <3> QED BY <1>3, <1>7, <3>1, <3>2, <3>3
  <2>2. CASE ~(x \in DOMAIN p.modify_rows /\ x <= r)
    <3> DEFINE i == q.modify_rows[x]
    <3>1. i \in Lasting(p, f, r, d) /\ f[i].model_row + d = x /\ q.all_modifs = p.all_modifs
      BY <1>5, <2>2 DEF IsShifted
    <3> HIDE DEF i
    <3>2. i \in Range(p.all_modifs) /\ f[i].model_row > r
      BY <3>1 DEF Lasting, After
    <3>3. g[i].model_row = x
      BY <1>3, <1>7, <3>1, <3>2
    <3> QED BY <3>1, <3>2, <3>3 DEF i
  <2> QED BY <2>1, <2>2
<1>12. PlacesOK(n, q, g)
  <2>1. \A i \in Range(p.all_modifs) :
           g[i].model_row <= Len(n) /\ (g[i].model_row = -1 <=> f[i].model_row = -1)
    <3> TAKE i \in Range(p.all_modifs)
    <3>1. CASE f[i].model_row > r
      BY <1>3, <1>4, <1>7, <3>1
    <3>2. CASE ~(f[i].model_row > r)
      BY <1>1, <1>3, <1>7, <3>2
    <3> QED BY <3>1, <3>2
  <2>2. \A i \in Range(p.cached_modifs) \cup Range(p.cached_inserts) :
           g[i].model_row = f[i].model_row
    BY <1>1, <1>7 DEF RecordsOK, ListsOK
  <2> QED BY <1>1, <1>5, <2>1, <2>2 DEF PlacesOK, IsShifted
<1>13. OK(n, q, g)
  BY <1>5, <1>8, <1>9, <1>10, <1>11, <1>12 DEF OK, IsShifted
<1>14. Valued(f) => Valued(g)
  BY <1>6, <1>7 DEF Valued, HasSome
<1>15. ASSUME OnRows(m, p, f), r \notin DOMAIN p.modify_rows, RowsMove(m, n, r, d),
              ~\E i \in Range(p.all_modifs) : After(f, r, i) /\ Displaced(p, f, r, d, i)
       PROVE  OnRows(n, q, g)
  <2> SUFFICES ASSUME NEW j \in Range(q.all_modifs), g[j].model_row >= 0
      PROVE OnRow(n, q, g[j], j)
    BY DEF OnRows
  <2> DEFINE y == f[j].model_row
  <2>1. j \in Range(p.all_modifs) /\ y \in Int /\ y >= 0
    <3>1. j \in Range(p.all_modifs)
      BY <1>5 DEF IsShifted
    <3> QED BY <1>3, <1>7, <3>1
  <2>2. OnRow(m, p, f[j], j)
    BY <1>15, <2>1 DEF OnRows
  <2>3. /\ y \in DOMAIN p.modify_rows /\ p.modify_rows[y] = j
        /\ y < Len(m) /\ m[y + 1] = f[j].orig_values /\ y # r
    BY <1>15, <2>2 DEF OnRow
  <2>4. g[j].orig_values = f[j].orig_values /\ g[j].model_row = IF y > r THEN y + d ELSE y
    BY <1>3, <1>7, <2>1
  <2>5. n[(IF y > r THEN y + d ELSE y) + 1] = m[y + 1]
    <3>1. y \in 0 .. Len(m) - 1 /\ y # r
      BY <1>1, <2>1, <2>3
    <3> HIDE DEF y
    <3> QED BY <1>15, <3>1 DEF RowsMove
  <2> HIDE DEF y
  <2>6. CASE y > r
    <3>1. j \in Lasting(p, f, r, d)
      BY <1>15, <2>1, <2>6 DEF Lasting, After, y
    <3>2. y + d \in DOMAIN q.modify_rows
      BY <1>5, <3>1 DEF IsShifted, y
    <3>3. ~(y + d \in DOMAIN p.modify_rows /\ y + d <= r)
      BY <1>15, <2>1, <2>6
    <3> DEFINE i == q.modify_rows[y + d]
    <3>4. i \in Lasting(p, f, r, d) /\ f[i].model_row + d = y + d
      BY <1>5, <3>2, <3>3 DEF IsShifted
    <3> HIDE DEF i
    <3>5. i \in Range(p.all_modifs) /\ f[i].model_row = y
      BY <1>3, <2>1, <3>4 DEF Lasting
    <3>6. OnRow(m, p, f[i], i)
      BY <1>15, <2>1, <3>5 DEF OnRows
    <3>7. i = j
      BY <2>3, <3>5, <3>6 DEF OnRow
    <3>8. y + d < Len(n) /\ n[y + d + 1] = g[j].orig_values /\ g[j].model_row = y + d
      BY <1>1, <2>1, <2>3, <2>4, <2>5, <2>6
    <3> QED BY <3>2, <3>7, <3>8 DEF OnRow, i
  <2>7. CASE ~(y > r)
    <3>1. y < r /\ y <= r
      BY <2>1, <2>3, <2>7
    <3>2. y \in DOMAIN q.modify_rows /\ q.modify_rows[y] = p.modify_rows[y]
      BY <1>5, <2>3, <3>1 DEF IsShifted
    <3>3. y < Len(n)
      BY <1>1, <2>1, <3>1
    <3> QED BY <2>3, <2>4, <2>5, <2>7, <3>2, <3>3 DEF OnRow
  <2> QED BY <2>6, <2>7
<1> QED BY <1>13, <1>14, <1>15 DEF q, g
-----------------------------------------------------------------------------
(* A RowModif that is in the way when another one is off the lists was so  *)
(* before.                                                                 *)
LEMMA DisplacedBefore ==
    ASSUME NEW m, NEW p, NEW f, OK(m, p, f), NEW j, NEW s, NEW r, NEW d,
           NEW i \in Range(Unlisted(p, j, s).all_modifs),
           Displaced(Unlisted(p, j, s), Freed(f, j), r, d, i)
    PROVE  Displaced(p, f, r, d, i)
<1> DEFINE q == Unlisted(p, j, s)
           g == Freed(f, j)
           a == p.all_modifs
           b == q.all_modifs
<1>1. p \in ProxyLists /\ f \in RowModifs /\ RecordsOK(p, f) /\ a \in Seq(Modifs)
  BY ListsType DEF OK
<1>2. IsUnlisted(p, j, s, q) /\ q \in ProxyLists
  <2>1. IsUnlisted(p, j, s, q)
    BY <1>1, UnlistedFacts
  <2> QED BY <2>1 DEF IsUnlisted
<1>3. \A k \in DOMAIN f \ {j} : g[k] = f[k]
  BY <1>1, FreedFacts
<1>4. PICK x \in DOMAIN b, y \in DOMAIN b :
         /\ x < y /\ b[x] = i /\ After(g, r, b[y])
         /\ g[b[y]].model_row \in {g[i].model_row, g[i].model_row + d}
  BY DEF Displaced
<1> HIDE DEF q, g
<1>5. b \in Seq(Modifs) /\ DOMAIN b = 1..Len(b) /\ b = Without(a, {j})
      /\ Range(b) = Range(a) \ {j}
  <2>1. b = Without(a, {j}) /\ Range(b) = Range(a) \ {j}
    BY <1>2 DEF IsUnlisted
  <2>2. b \in Seq(Modifs)
    BY <1>2, ListsType
  <2>3. DOMAIN b = 1..Len(b)
    BY ONLY <2>2
  <2> QED BY <2>1, <2>2, <2>3
<1> HIDE DEF a, b
<1>6. PICK h : Subsequence(h, b, a)
  BY <1>1, <1>5, WithoutFacts
<1>7. h[x] \in 1..Len(a) /\ h[y] \in 1..Len(a) /\ h[x] < h[y] /\ a[h[x]] = b[x] /\ a[h[y]] = b[y]
  BY <1>4, <1>5, <1>6 DEF Subsequence
<1>8. g[i] = f[i] /\ g[b[y]] = f[b[y]]
  <2>1. i \in Range(a) \ {j} /\ b[y] \in Range(a) \ {j}
    BY <1>4, <1>5 DEF Range, b
  <2> QED BY <1>1, <1>3, <2>1 DEF RecordsOK, a
<1>9. DOMAIN a = 1..Len(a)
  BY <1>1
<1> QED BY <1>4, <1>7, <1>8, <1>9 DEF Displaced, After, a

LEMMA ConcatIs ==
    ASSUME NEW S, NEW s \in Seq(S), NEW t \in Seq(S)
    PROVE  /\ s \o t \in Seq(S) /\ Len(s \o t) = Len(s) + Len(t)
           /\ \A x \in 1..Len(s) + Len(t) :
                 (s \o t)[x] = IF x <= Len(s) THEN s[x] ELSE t[x - Len(s)]
  OBVIOUS

(* The rows of the model when one was inserted, removed or updated.        *)
LEMMA RemoveAtFacts ==
    ASSUME NEW S, NEW m \in Seq(S), NEW r \in 0 .. Len(m) - 1
    PROVE  /\ RemoveAt(m, r + 1) \in Seq(S) /\ Len(RemoveAt(m, r + 1)) = Len(m) - 1
           /\ RowsMove(m, RemoveAt(m, r + 1), r, -1)
<1> DEFINE a == SubSeq(m, 1, r)
           b == SubSeq(m, r + 2, Len(m))
           n == RemoveAt(m, r + 1)
<1>1. Len(m) \in Nat /\ r \in Nat /\ r + 1 <= Len(m)
  OBVIOUS
<1>2. a \in Seq(S) /\ Len(a) = r /\ \A x \in 1..r : a[x] = m[x]
  BY <1>1
<1>3. b \in Seq(S) /\ Len(b) = Len(m) - 1 - r /\ \A x \in 1..(Len(m) - 1 - r) : b[x] = m[x + r + 1]
  BY <1>1
<1>4. n = a \o b
  <2>1. (r + 1) - 1 = r /\ (r + 1) + 1 = r + 2
    BY <1>1
  <2> QED BY <2>1 DEF RemoveAt
<1> HIDE DEF a, b, n
<1>5. n \in Seq(S) /\ Len(n) = Len(m) - 1
      /\ \A x \in 1..Len(n) : n[x] = IF x <= r THEN a[x] ELSE b[x - r]
  <2>0. a \in Seq(S) /\ b \in Seq(S)
    BY <1>2, <1>3
  <2>1. a \o b \in Seq(S) /\ Len(a \o b) = Len(a) + Len(b)
        /\ \A x \in 1..Len(a) + Len(b) :
              (a \o b)[x] = IF x <= Len(a) THEN a[x] ELSE b[x - Len(a)]
    BY ONLY <2>0, ConcatIs
  <2>2. Len(a) + Len(b) = Len(m) - 1
    BY <1>1, <1>2, <1>3
  <2> QED BY <1>2, <1>4, <2>1, <2>2
<1>6. ASSUME NEW x \in 0 .. Len(m) - 1, x # r
      PROVE  n[(IF x > r THEN x + (-1) ELSE x) + 1] = m[x + 1]
  <2>1. CASE x < r
    <3>1. x + 1 \in 1..Len(n) /\ x + 1 <= r /\ x + 1 \in 1..r /\ ~(x > r)
      BY <1>1, <1>5, <2>1
    <3> QED BY <1>2, <1>5, <3>1
  <2>2. CASE x > r
    <3>1. x \in 1..Len(n) /\ ~(x <= r) /\ x - r \in 1..(Len(m) - 1 - r)
          /\ (x - r) + r + 1 = x + 1 /\ (x + (-1)) + 1 = x
      BY <1>1, <1>5, <2>2
    <3>2. n[x] = m[x + 1]
      BY <1>3, <1>5, <3>1
    <3> QED BY <2>2, <3>1, <3>2
  <2> QED BY <1>1, <1>6, <2>1, <2>2
<1> QED BY <1>5, <1>6 DEF n, RowsMove

LEMMA InsertAtFacts ==
    ASSUME NEW S, NEW m \in Seq(S), NEW r \in 0 .. Len(m), NEW v \in S
    PROVE  /\ InsertAt(m, r + 1, v) \in Seq(S) /\ Len(InsertAt(m, r + 1, v)) = Len(m) + 1
           /\ RowsMove(m, InsertAt(m, r + 1, v), r, 1)
<1> DEFINE a == SubSeq(m, 1, r)
           b == SubSeq(m, r + 1, Len(m))
           e == <<v>>
           n == InsertAt(m, r + 1, v)
<1>1. Len(m) \in Nat /\ r \in Nat /\ r <= Len(m)
  OBVIOUS
<1>2. a \in Seq(S) /\ Len(a) = r /\ \A x \in 1..r : a[x] = m[x]
  BY <1>1
<1>3. b \in Seq(S) /\ Len(b) = Len(m) - r /\ \A x \in 1..(Len(m) - r) : b[x] = m[x + r]
  BY <1>1
<1>4. e \in Seq(S) /\ Len(e) = 1
  OBVIOUS
<1>5. n = (a \o e) \o b
  <2>1. (r + 1) - 1 = r
    BY <1>1
  <2> QED BY <2>1 DEF InsertAt
<1> HIDE DEF a, b, e, n
<1> DEFINE h == a \o e
<1>6. h \in Seq(S) /\ Len(h) = r + 1 /\ \A x \in 1..r : h[x] = m[x]
  <2>1. h \in Seq(S) /\ Len(h) = Len(a) + Len(e)
        /\ \A x \in 1..Len(a) + Len(e) : h[x] = IF x <= Len(a) THEN a[x] ELSE e[x - Len(a)]
    BY <1>2, <1>4, ConcatIs
  <2> HIDE DEF h
  <2> QED BY <1>1, <1>2, <1>4, <2>1
<1>7. n = h \o b
  BY <1>5
<1> HIDE DEF h
<1>8. n \in Seq(S) /\ Len(n) = Len(m) + 1
      /\ \A x \in 1..Len(n) : n[x] = IF x <= r + 1 THEN h[x] ELSE b[x - (r + 1)]
  <2>1. h \o b \in Seq(S) /\ Len(h \o b) = Len(h) + Len(b)
        /\ \A x \in 1..Len(h) + Len(b) :
              (h \o b)[x] = IF x <= Len(h) THEN h[x] ELSE b[x - Len(h)]
    BY <1>3, <1>6, ConcatIs
  <2>2. Len(h) + Len(b) = Len(m) + 1
    BY <1>1, <1>3, <1>6
  <2> QED BY <1>6, <1>7, <2>1, <2>2
<1>9. ASSUME NEW x \in 0 .. Len(m) - 1, x # r
      PROVE  n[(IF x > r THEN x + 1 ELSE x) + 1] = m[x + 1]
  <2>1. CASE x < r
    <3>1. x + 1 \in 1..Len(n) /\ x + 1 <= r + 1 /\ x + 1 \in 1..r /\ ~(x > r)
      BY <1>1, <1>8, <2>1
    <3> QED BY <1>6, <1>8, <3>1
  <2>2. CASE x > r
    <3>1. (x + 1) + 1 \in 1..Len(n) /\ ~((x + 1) + 1 <= r + 1)
          /\ ((x + 1) + 1) - (r + 1) \in 1..(Len(m) - r)
          /\ (((x + 1) + 1) - (r + 1)) + r = x + 1
      BY <1>1, <1>8, <2>2
    <3>2. n[(x + 1) + 1] = b[((x + 1) + 1) - (r + 1)]
      BY ONLY <1>8, <3>1
    <3>3. n[(x + 1) + 1] = m[x + 1]
      BY <1>3, <3>1, <3>2
    <3> QED BY <2>2, <3>3
  <2> QED BY <1>1, <1>9, <2>1, <2>2
<1> QED BY <1>8, <1>9 DEF n, RowsMove
-----------------------------------------------------------------------------
(* The callbacks of the model's signals.  A row that changes, or goes, has *)
(* no RowModif then, and nothing else is otherwise.                        *)
IsUpdated(m, p, f, r, u) ==
    /\ Keeps(m, p, f, m, u.p, u.f)
    /\ Len(u.p.new_rows) = Len(p.new_rows)
    /\ r \notin DOMAIN u.p.modify_rows
    /\ \A i \in Range(u.p.all_modifs) :
          /\ i \in Range(p.all_modifs) /\ u.f[i] = f[i]
          /\ \A d \in {1, -1} : Displaced(u.p, u.f, r, d, i) => Displaced(p, f, r, d, i)

LEMMA RowUpdatedFacts ==
    ASSUME NEW m, NEW p, NEW f, OK(m, p, f), NEW r \in Nat
    PROVE  IsUpdated(m, p, f, r, RowUpdated(p, f, r))
<1>1. CASE r \notin DOMAIN p.modify_rows
  <2> DEFINE u == RowUpdated(p, f, r)
  <2>1. u.p = p /\ u.f = f
    BY <1>1 DEF RowUpdated
  <2> HIDE DEF u
  <2>2. Keeps(m, p, f, m, u.p, u.f)
    BY <2>1 DEF Keeps
  <2>3. IsUpdated(m, p, f, r, u)
    BY <1>1, <2>1, <2>2 DEF IsUpdated
  <2> QED BY <2>3 DEF u
<1>2. CASE r \in DOMAIN p.modify_rows
  <2> DEFINE i == p.modify_rows[r]
             q == Unlisted(p, i, r)
             g == Freed(f, i)
             u == RowUpdated(p, f, r)
  <2>1. u.p = q /\ u.f = g
    BY <1>2 DEF RowUpdated
  <2>2. /\ p \in ProxyLists /\ f \in RowModifs /\ RecordsOK(p, f) /\ PlacesOK(m, p, f)
        /\ i \in Range(p.all_modifs) /\ f[i].model_row = r
    BY <1>2 DEF OK, TableOK
  <2>3. i \notin Range(p.new_rows)
    BY <2>2 DEF PlacesOK
  <2> HIDE DEF i, u
  <2>4. /\ Keeps(m, p, f, m, q, g)
        /\ Len(q.new_rows) = IF i \in Range(p.new_rows) THEN Len(p.new_rows) - 1
                             ELSE Len(p.new_rows)
    BY <2>2, DropKeeps
  <2>5. IsUnlisted(p, i, r, q)
    BY <2>2, UnlistedFacts
  <2>6. \A j \in DOMAIN f \ {i} : g[j] = f[j]
    BY <2>2, FreedFacts
  <2>7. \A j \in Range(q.all_modifs), d \in {1, -1} : Displaced(q, g, r, d, j) => Displaced(p, f, r, d, j)
    BY DisplacedBefore
  <2> HIDE DEF q, g
  <2>8. \A j \in Range(q.all_modifs) : j \in Range(p.all_modifs) /\ g[j] = f[j]
    BY <2>2, <2>5, <2>6 DEF IsUnlisted, RecordsOK
  <2>9. r \notin DOMAIN q.modify_rows
    BY <2>5 DEF IsUnlisted
  <2>10. IsUpdated(m, p, f, r, u)
    BY <2>1, <2>3, <2>4, <2>7, <2>8, <2>9 DEF IsUpdated
  <2> QED BY <2>10 DEF u
<1> QED BY <1>1, <1>2

(* What the model has in a row that has no RowModif does not matter.       *)
LEMMA SameRows ==
    ASSUME NEW m, NEW p, NEW f, OK(m, p, f), NEW n \in Seq(Content), Len(n) = Len(m)
    PROVE  /\ OK(n, p, f)
           /\ \A r \in 0 .. Len(m) - 1 :
                 /\ OnRows(m, p, f) /\ r \notin DOMAIN p.modify_rows
                 /\ \A x \in 0 .. Len(m) - 1 : x # r => n[x + 1] = m[x + 1]
                 => OnRows(n, p, f)
<1>1. OK(n, p, f)
  BY DEF OK, PlacesOK
<1>2. ASSUME NEW r \in 0 .. Len(m) - 1, OnRows(m, p, f), r \notin DOMAIN p.modify_rows,
             \A x \in 0 .. Len(m) - 1 : x # r => n[x + 1] = m[x + 1]
      PROVE  OnRows(n, p, f)
  <2> SUFFICES ASSUME NEW j \in Range(p.all_modifs), f[j].model_row >= 0
      PROVE OnRow(n, p, f[j], j)
    BY DEF OnRows
  <2> DEFINE y == f[j].model_row
  <2>1. OnRow(m, p, f[j], j)
    BY <1>2 DEF OnRows
  <2>2. y \in DOMAIN p.modify_rows /\ y < Len(m) /\ y # r
    BY <1>2, <2>1 DEF OnRow
  <2>3. y \in Int /\ y >= 0 /\ Len(m) \in Nat
    BY BoundsAssumption DEF OK, RecordsOK, RecordOK, RowModif
  <2> HIDE DEF y
  <2>4. y \in 0 .. Len(m) - 1
    BY <2>2, <2>3
  <2>5. n[y + 1] = m[y + 1]
    BY <1>2, <2>2, <2>4
  <2> QED BY <2>1, <2>5 DEF OnRow, y
<1> QED BY <1>1, <1>2

(* The model's rows are the same but for row r.                            *)
SameElsewhere(m, n, r) ==
    /\ r \in 0 .. Len(m) - 1 /\ n \in Seq(Content) /\ Len(n) = Len(m)
    /\ \A x \in 0 .. Len(m) - 1 : x # r => n[x + 1] = m[x + 1]

LEMMA RowUpdatedKeeps ==
    ASSUME NEW m, NEW p, NEW f, NEW n, NEW r, OK(m, p, f), SameElsewhere(m, n, r)
    PROVE  /\ Keeps(m, p, f, n, RowUpdated(p, f, r).p, RowUpdated(p, f, r).f)
           /\ Len(RowUpdated(p, f, r).p.new_rows) = Len(p.new_rows)
<1> DEFINE u == RowUpdated(p, f, r)
<1>1. IsUpdated(m, p, f, r, u)
  BY RowUpdatedFacts DEF SameElsewhere
<1> HIDE DEF u
<1>2. Keeps(m, p, f, m, u.p, u.f) /\ r \notin DOMAIN u.p.modify_rows
      /\ Len(u.p.new_rows) = Len(p.new_rows)
  BY <1>1 DEF IsUpdated
<1> DEFINE q == u.p
           g == u.f
<1> HIDE DEF q, g
<1>3. OK(m, q, g) /\ r \notin DOMAIN q.modify_rows
  BY <1>2 DEF Keeps, q, g
<1>4. OK(n, q, g) /\ (OnRows(m, q, g) => OnRows(n, q, g))
  BY <1>3, SameRows DEF SameElsewhere
<1> QED BY <1>2, <1>4 DEF Keeps, u, q, g

LEMMA RowRemovedKeeps ==
    ASSUME NEW m, NEW p, NEW f, OK(m, p, f), NEW r \in 0 .. Len(m) - 1
    PROVE  LET u == RowRemoved(p, f, r)
               n == RemoveAt(m, r + 1)
           IN /\ OK(n, u.p, u.f) /\ Len(n) = Len(m) - 1
              /\ Valued(f) => Valued(u.f)
              /\ /\ OnRows(m, p, f)
                 /\ ~\E i \in Range(p.all_modifs) : After(f, r, i) /\ Displaced(p, f, r, -1, i)
                 => OnRows(n, u.p, u.f)
              /\ Len(u.p.new_rows) = Len(p.new_rows)
<1> DEFINE w == RowUpdated(p, f, r)
           q == w.p
           g == w.f
           u == RowRemoved(p, f, r)
           n == RemoveAt(m, r + 1)
<1>1. m \in Seq(Content) /\ Len(m) \in Nat /\ Len(m) <= MaxRows /\ MaxRows \in Nat
  BY BoundsAssumption DEF OK
<1>2. n \in Seq(Content) /\ Len(n) = Len(m) - 1 /\ RowsMove(m, n, r, -1)
  BY <1>1, RemoveAtFacts
<1>3. IsUpdated(m, p, f, r, w)
  BY RowUpdatedFacts
<1>4. u.p = Shifted(q, g, r, -1) /\ u.f = Moved(q, g, r, -1)
  BY DEF RowRemoved, Shifted
<1> HIDE DEF w, u, n
<1>5. /\ Keeps(m, p, f, m, q, g)
      /\ Len(q.new_rows) = Len(p.new_rows) /\ r \notin DOMAIN q.modify_rows
      /\ \A i \in Range(q.all_modifs) :
            /\ i \in Range(p.all_modifs) /\ g[i] = f[i]
            /\ \A d \in {1, -1} : Displaced(q, g, r, d, i) => Displaced(p, f, r, d, i)
  BY <1>3 DEF IsUpdated
<1> HIDE DEF q, g
<1>6. OK(m, q, g) /\ (Valued(f) => Valued(g)) /\ (OnRows(m, p, f) => OnRows(m, q, g))
  BY <1>5 DEF Keeps
<1>7. Len(n) <= MaxRows /\ r <= Len(n) /\ Len(n) = Len(m) + (-1) /\ r \in Nat /\ -1 \in {1, -1}
  BY <1>1, <1>2
<1>8. /\ OK(n, u.p, u.f)
      /\ Valued(g) => Valued(u.f)
      /\ /\ OnRows(m, q, g)
         /\ ~\E i \in Range(q.all_modifs) : After(g, r, i) /\ Displaced(q, g, r, -1, i)
         => OnRows(n, u.p, u.f)
  BY <1>2, <1>4, <1>5, <1>6, <1>7, ShiftedKeeps
<1>9. (\E i \in Range(q.all_modifs) : After(g, r, i) /\ Displaced(q, g, r, -1, i))
      => \E i \in Range(p.all_modifs) : After(f, r, i) /\ Displaced(p, f, r, -1, i)
  BY <1>5 DEF After
<1>10. u.p.new_rows = q.new_rows
  <2>1. q \in ProxyLists /\ q = [all_modifs |-> q.all_modifs, new_rows |-> q.new_rows,
             modify_rows |-> q.modify_rows, cached_modifs |-> q.cached_modifs,
             cached_inserts |-> q.cached_inserts]
    BY <1>6 DEF OK, ProxyLists
  <2> QED BY <1>4, <2>1 DEF Shifted
<1> QED BY <1>2, <1>5, <1>6, <1>8, <1>9, <1>10 DEF u, n

LEMMA RowInsertedKeeps ==
    ASSUME NEW m, NEW p, NEW f, OK(m, p, f), NEW r \in 0 .. Len(m), Len(m) < MaxRows,
           NEW n \in Seq(Content), Len(n) = Len(m) + 1, RowsMove(m, n, r, 1)
    PROVE  LET u == RowInserted(p, f, r)
           IN /\ OK(n, u.p, u.f)
              /\ Valued(f) => Valued(u.f)
              /\ /\ OnRows(m, p, f) /\ r \notin DOMAIN p.modify_rows
                 /\ ~\E i \in Range(p.all_modifs) : After(f, r, i) /\ Displaced(p, f, r, 1, i)
                 => OnRows(n, u.p, u.f)
              /\ u.p.new_rows = p.new_rows /\ u.p.all_modifs = p.all_modifs
              /\ u.f = Moved(p, f, r, 1)
<1> DEFINE u == RowInserted(p, f, r)
<1>1. m \in Seq(Content) /\ Len(m) \in Nat /\ MaxRows \in Nat /\ p \in ProxyLists
  BY BoundsAssumption DEF OK
<1>2. u.p = Shifted(p, f, r, 1) /\ u.f = Moved(p, f, r, 1)
  BY DEF RowInserted, Shifted
<1> HIDE DEF u
<1>3. Len(n) <= MaxRows /\ r <= Len(n) /\ r \in Nat /\ 1 \in {1, -1}
  BY <1>1
<1>4. /\ OK(n, u.p, u.f)
      /\ Valued(f) => Valued(u.f)
      /\ /\ OnRows(m, p, f) /\ r \notin DOMAIN p.modify_rows
         /\ ~\E i \in Range(p.all_modifs) : After(f, r, i) /\ Displaced(p, f, r, 1, i)
         => OnRows(n, u.p, u.f)
  BY <1>2, <1>3, ShiftedKeeps
<1>5. u.p.new_rows = p.new_rows /\ u.p.all_modifs = p.all_modifs
  <2>1. p = [all_modifs |-> p.all_modifs, new_rows |-> p.new_rows,
             modify_rows |-> p.modify_rows, cached_modifs |-> p.cached_modifs,
             cached_inserts |-> p.cached_inserts]
    BY <1>1 DEF ProxyLists
  <2> QED BY <1>2, <2>1 DEF Shifted
<1> QED BY <1>2, <1>4, <1>5 DEF u

LEMMA FinishedKeeps ==
    ASSUME NEW n, NEW u, OK(n, u.p, u.f), NEW i
    PROVE  /\ Keeps(n, u.p, u.f, n, Finished(u, i).p, Finished(u, i).f)
           /\ Len(Finished(u, i).p.new_rows) <= Len(u.p.new_rows)
<1> DEFINE p == u.p
           f == u.f
           v == Finished(u, i)
<1>1. OK(n, p, f)
  OBVIOUS
<1>2. Len(p.new_rows) \in Nat
  BY ListsType DEF OK
<1>3. CASE i \in Range(p.all_modifs)
  <2>1. v.p = Unlisted(p, i, f[i].model_row) /\ v.f = Freed(f, i)
    BY <1>3 DEF Finished
  <2> HIDE DEF p, f, v
  <2>2. /\ Keeps(n, p, f, n, v.p, v.f)
        /\ Len(v.p.new_rows) =
              IF i \in Range(p.new_rows) THEN Len(p.new_rows) - 1 ELSE Len(p.new_rows)
    BY <1>1, <1>3, <2>1, DropKeeps
  <2> QED BY <1>2, <2>2 DEF p, f, v
<1>4. CASE i \notin Range(p.all_modifs)
  <2>1. v = u
    BY <1>4 DEF Finished
  <2> QED BY <1>2, <2>1 DEF Keeps
<1> QED BY <1>3, <1>4
-----------------------------------------------------------------------------
(* Values.  What is given to the model makes a row, and a RowModif of      *)
(* other values is one.                                                    *)
LEMMA ContentFacts ==
    ASSUME NEW row, row \in Content \/ row = DefaultRow, NEW rm, RecordOK(rm)
    PROVE  Stored(Committed(rm), row) \in Content
<1>1. \A c \in Cols : Domain[c] \cup {Null} \subseteq Value /\ Null \in Value
  BY DEF Value
<1>2. \A c \in Cols : row[c] \in Domain[c] \cup {Null}
  BY DEF Content, DefaultRow
<1>3. \A c \in DOMAIN rm.modify_values : c \in Cols /\
         rm.modify_values[c] \in Domain[c] \cup {Null, Default}
  BY DEF RecordOK, RowModif
<1>4. rm.orig_values # NONE => \A c \in Cols : rm.orig_values[c] \in Domain[c] \cup {Null}
  BY DEF RecordOK, RowModif, Content
<1>5. \A c \in Cols : Committed(rm)[c] \in Domain[c] \cup {Null, NONE}
  BY <1>3, <1>4 DEF Committed, Given
<1>6. \A c \in Cols : Stored(Committed(rm), row)[c] \in Domain[c] \cup {Null}
  BY <1>2, <1>5 DEF Stored
<1>7. Stored(Committed(rm), row) \in [Cols -> Value]
  <2>1. \A c \in Cols : Stored(Committed(rm), row)[c] \in Value
    BY <1>1, <1>6
  <2> QED BY <2>1 DEF Stored
<1> QED BY <1>6, <1>7 DEF Content

Values(mv) ==
    /\ mv \in Partial(Cols, Value \cup {Default})
    /\ \A c \in DOMAIN mv : mv[c] \in Domain[c] \cup {Null, Default}

LEMMA RecordValues ==
    ASSUME NEW rm, RecordOK(rm)
    PROVE  Values(rm.modify_values)
  BY DEF RecordOK, RowModif, Values, Partial

LEMMA MappedValues ==
    ASSUME NEW mv, Values(mv), NEW c \in Cols, NEW v \in Domain[c] \cup {Null, Default}
    PROVE  Values(Mapped(mv, c, v)) /\ Mapped(mv, c, v) # Empty
<1> DEFINE h == Mapped(mv, c, v)
<1>1. v \in Value \cup {Default}
  BY DEF Value
<1>2. h \in Partial(Cols, Value \cup {Default}) /\ IsMapped(mv, c, v, h)
  BY <1>1, MappedFacts DEF Values
<1> HIDE DEF h
<1>3. DOMAIN h = DOMAIN mv \cup {c} /\ h[c] = v /\ \A y \in DOMAIN mv : y # c => h[y] = mv[y]
  BY <1>2 DEF IsMapped
<1>4. \A x \in DOMAIN h : h[x] \in Domain[x] \cup {Null, Default}
  BY <1>3 DEF Values
<1>5. h # Empty
  BY <1>3, NothingFacts
<1> QED BY <1>2, <1>4, <1>5 DEF Values, h

LEMMA KeepValues ==
    ASSUME NEW mv, Values(mv), NEW D \in SUBSET DOMAIN mv
    PROVE  Values(Keep(mv, D)) /\ DOMAIN Keep(mv, D) = D
<1>1. Keep(mv, D) \in Partial(Cols, Value \cup {Default}) /\ DOMAIN Keep(mv, D) = D
      /\ \A x \in D : Keep(mv, D)[x] = mv[x]
  BY KeepFacts DEF Values
<1> QED BY <1>1 DEF Values

LEMMA WithValues ==
    ASSUME NEW rm, RecordOK(rm), NEW mv, Values(mv), rm.model_row = -1 => mv # Empty
    PROVE  LET new == [rm EXCEPT !.modify_values = mv] IN
           /\ RecordOK(new) /\ new.model_row = rm.model_row
           /\ new.orig_values = rm.orig_values
           /\ HasSome(new) <=> rm.to_be_deleted \/ mv # Empty
<1> DEFINE new == [rm EXCEPT !.modify_values = mv]
<1>1. rm = [model_row |-> rm.model_row, to_be_deleted |-> rm.to_be_deleted,
            modify_values |-> rm.modify_values, orig_values |-> rm.orig_values]
  BY DEF RecordOK, RowModif
<1>2. new = [model_row |-> rm.model_row, to_be_deleted |-> rm.to_be_deleted,
             modify_values |-> mv, orig_values |-> rm.orig_values]
  BY <1>1
<1> HIDE DEF new
<1>3. /\ new.model_row = rm.model_row /\ new.to_be_deleted = rm.to_be_deleted
      /\ new.modify_values = mv /\ new.orig_values = rm.orig_values
  BY ONLY <1>2
<1>4. new \in RowModif
  BY <1>2 DEF RecordOK, RowModif, Values, Partial
<1>5. RecordOK(new)
  BY <1>3, <1>4 DEF RecordOK, Values
<1> QED BY <1>3, <1>5 DEF new, HasSome

LEMMA WithMark ==
    ASSUME NEW rm, RecordOK(rm), NEW b \in BOOLEAN, rm.model_row = -1 => ~b
    PROVE  LET new == [rm EXCEPT !.to_be_deleted = b] IN
           /\ RecordOK(new) /\ new.model_row = rm.model_row
           /\ new.orig_values = rm.orig_values
           /\ HasSome(new) <=> b \/ rm.modify_values # Empty
<1> DEFINE new == [rm EXCEPT !.to_be_deleted = b]
<1>1. rm = [model_row |-> rm.model_row, to_be_deleted |-> rm.to_be_deleted,
            modify_values |-> rm.modify_values, orig_values |-> rm.orig_values]
  BY DEF RecordOK, RowModif
<1>2. new = [model_row |-> rm.model_row, to_be_deleted |-> b,
             modify_values |-> rm.modify_values, orig_values |-> rm.orig_values]
  BY <1>1
<1> HIDE DEF new
<1>3. /\ new.model_row = rm.model_row /\ new.to_be_deleted = b
      /\ new.modify_values = rm.modify_values /\ new.orig_values = rm.orig_values
  BY ONLY <1>2
<1>4. new \in RowModif
  BY <1>2 DEF RecordOK, RowModif
<1>5. RecordOK(new)
  BY <1>3, <1>4 DEF RecordOK
<1> QED BY <1>3, <1>5 DEF new, HasSome

(* One RowModif may be without values for a while, in a call.              *)
ValuedBut(f, i) == \A j \in DOMAIN f \ {i} : HasSome(f[j])

LEMMA ValuedAgain ==
    ASSUME NEW f \in RowModifs, NEW i, ValuedBut(f, i)
    PROVE  /\ Valued(Freed(f, i))
           /\ \A rm : i \in DOMAIN f /\ HasSome(rm) => Valued([f EXCEPT ![i] = rm])
<1>1. Valued(Freed(f, i))
  <2>1. DOMAIN Freed(f, i) = DOMAIN f \ {i} /\ \A j \in DOMAIN f \ {i} : Freed(f, i)[j] = f[j]
    BY FreedFacts
  <2> QED BY <2>1 DEF Valued, ValuedBut
<1>2. ASSUME NEW rm, i \in DOMAIN f, HasSome(rm)
      PROVE  Valued([f EXCEPT ![i] = rm])
  <2> DEFINE g == [f EXCEPT ![i] = rm]
  <2>1. DOMAIN g = DOMAIN f /\ g[i] = rm /\ \A j \in DOMAIN f \ {i} : g[j] = f[j]
    BY <1>2 DEF RowModifs
  <2> HIDE DEF g
  <2>2. Valued(g)
    BY <1>2, <2>1 DEF Valued, ValuedBut
  <2> QED BY <2>2 DEF g
<1> QED BY <1>1, <1>2

LEMMA ValuedStill ==
    ASSUME NEW f \in RowModifs, NEW i \in Modifs, NEW rm \in RowModif, Valued(f)
    PROVE  ValuedBut(f, i) /\ ValuedBut(Mapped(f, i, rm), i)
<1> DEFINE g == Mapped(f, i, rm)
<1>1. IsMapped(f, i, rm, g)
  BY ModifsType, MappedFacts
<1> HIDE DEF g
<1>2. ValuedBut(g, i)
  BY <1>1 DEF IsMapped, Valued, ValuedBut
<1> QED BY <1>2 DEF Valued, ValuedBut, g
-----------------------------------------------------------------------------
(* Calls of the program.  What a call leaves of the state, from lists p    *)
(* and RowModifs f.                                                        *)
Left(p, f) ==
    /\ model' = model /\ OK(model', proxy', modif')
    /\ OnRows(model, p, f) => OnRows(model', proxy', modif')
    /\ Len(proxy'.new_rows) <= Len(p.new_rows)

LEMMA DoesDrop ==
    ASSUME NEW p, NEW f, OK(model, p, f), NEW i \in Range(p.all_modifs), NEW r,
           r = f[i].model_row, NEW s, Does(Unlisted(p, i, r), Freed(f, i), s)
    PROVE  Left(p, f) /\ (ValuedBut(f, i) => Valued(modif'))
<1>1. model' = model /\ proxy' = Unlisted(p, i, f[i].model_row) /\ modif' = Freed(f, i)
  BY DEF Does, Becomes
<1>2. /\ Keeps(model, p, f, model, Unlisted(p, i, f[i].model_row), Freed(f, i))
      /\ Len(Unlisted(p, i, f[i].model_row).new_rows) =
            IF i \in Range(p.new_rows) THEN Len(p.new_rows) - 1 ELSE Len(p.new_rows)
  BY DropKeeps
<1>3. Keeps(model, p, f, model', proxy', modif') /\ Len(proxy'.new_rows) <= Len(p.new_rows)
  <2>1. Len(p.new_rows) \in Nat
    BY ListsType DEF OK
  <2> QED BY <1>1, <1>2, <2>1
<1>4. ValuedBut(f, i) => Valued(modif')
  BY <1>1, ValuedAgain DEF OK
<1> QED BY <1>1, <1>3, <1>4 DEF Left, Keeps

LEMMA DoesChange ==
    ASSUME NEW p, NEW f, OK(model, p, f), NEW i \in Range(p.all_modifs), NEW rm,
           RecordOK(rm), rm.model_row = f[i].model_row, rm.orig_values = f[i].orig_values,
           NEW s, Does(p, [f EXCEPT ![i] = rm], s)
    PROVE  Left(p, f) /\ (ValuedBut(f, i) /\ HasSome(rm) => Valued(modif'))
<1>1. model' = model /\ proxy' = p /\ modif' = [f EXCEPT ![i] = rm]
  BY DEF Does, Becomes
<1>2. /\ OK(model, p, [f EXCEPT ![i] = rm])
      /\ OnRows(model, p, f) => OnRows(model, p, [f EXCEPT ![i] = rm])
  BY ChangeKeeps
<1>3. ValuedBut(f, i) /\ HasSome(rm) => Valued(modif')
  <2>1. f \in RowModifs /\ i \in DOMAIN f
    BY DEF OK, RecordsOK
  <2> QED BY <1>1, <2>1, ValuedAgain
<1>4. Len(p.new_rows) \in Nat
  BY ListsType DEF OK
<1> QED BY <1>1, <1>2, <1>3, <1>4 DEF Left

LEMMA SetInKeeps ==
    ASSUME NEW p, NEW f, OK(model, p, f), NEW i \in Range(p.all_modifs), NEW r,
           NEW c \in Cols, NEW v \in Domain[c] \cup {Null}, SetIn(p, f, i, r, c, v)
    PROVE  Left(p, f) /\ (ValuedBut(f, i) => Valued(modif'))
<1> DEFINE rm == f[i]
           back == /\ c \in DOMAIN rm.modify_values
                   /\ rm.orig_values # NONE /\ rm.orig_values[c] = v
           mv == IF back THEN Keep(rm.modify_values, DOMAIN rm.modify_values \ {c})
                 ELSE Mapped(rm.modify_values, c, v)
           new == [rm EXCEPT !.modify_values = mv]
           useless == ~rm.to_be_deleted /\ mv = Empty /\ rm.model_row >= 0
           s == <<Signal("updated", r)>>
<1>1. RecordOK(rm) /\ rm.model_row \in -1 .. MaxRows
  BY DEF OK, RecordsOK, RecordOK, RowModif
<1>2. Values(rm.modify_values)
  BY <1>1, RecordValues
<1>3. Values(mv) /\ (~back => mv # Empty)
  <2>1. CASE back
    <3>1. DOMAIN rm.modify_values \ {c} \in SUBSET DOMAIN rm.modify_values
      OBVIOUS
    <3>2. Values(Keep(rm.modify_values, DOMAIN rm.modify_values \ {c}))
      BY <1>2, <3>1, KeepValues
    <3> QED BY <2>1, <3>2
  <2>2. CASE ~back
    BY <1>2, <2>2, MappedValues
  <2> QED BY <2>1, <2>2
<1>4. rm.model_row = -1 => ~back
  BY <1>1 DEF RecordOK
<1>5. IF useless THEN Does(Unlisted(p, i, rm.model_row), Freed(f, i), s)
      ELSE Does(p, [f EXCEPT ![i].modify_values = mv], s)
  BY DEF SetIn
<1>6. [f EXCEPT ![i].modify_values = mv] = [f EXCEPT ![i] = new]
  OBVIOUS
<1> HIDE DEF mv, back
<1>7. /\ RecordOK(new) /\ new.model_row = rm.model_row /\ new.orig_values = rm.orig_values
      /\ HasSome(new) <=> rm.to_be_deleted \/ mv # Empty
  BY <1>1, <1>3, <1>4, WithValues
<1>8. CASE useless
  BY <1>5, <1>8, DoesDrop
<1>9. CASE ~useless
  <2>1. HasSome(new)
    <3>1. rm.model_row = -1 \/ rm.model_row >= 0
      BY <1>1, BoundsAssumption
    <3> QED BY <1>3, <1>4, <1>7, <1>9, <3>1
  <2>2. Does(p, [f EXCEPT ![i] = new], s)
    BY <1>5, <1>6, <1>9
  <2> HIDE DEF rm, new
  <2> QED BY <1>7, <2>1, <2>2, DoesChange DEF rm
<1> QED BY <1>8, <1>9

(* The RowModif of a row, or a new one for it.                             *)
LEMMA ModifAtFacts ==
    ASSUME IInv, NEW r \in 0 .. NRows(model, proxy) - 1
    PROVE  LET i == ModifAt(model, proxy, r) IN
           /\ i # NONE => /\ i \in Range(proxy.all_modifs) /\ i \in DOMAIN modif
                          /\ RecordOK(modif[i])
                          /\ r < Len(model) => modif[i].model_row = r
                          /\ r >= Len(model) => modif[i].model_row = -1
           /\ i = NONE => r < Len(model) /\ r \notin DOMAIN proxy.modify_rows
<1> DEFINE i == ModifAt(model, proxy, r)
<1>1. /\ proxy \in ProxyLists /\ ListsOK(proxy) /\ RecordsOK(proxy, modif)
      /\ TableOK(proxy, modif) /\ PlacesOK(model, proxy, modif) /\ model \in Seq(Content)
  BY DEF IInv, OK
<1>2. Len(model) \in Nat /\ proxy.new_rows \in Seq(Modifs) /\ Len(proxy.new_rows) \in Nat
  BY <1>1, ListsType
<1>3. CASE r < Len(model)
  <2>1. CASE r \in DOMAIN proxy.modify_rows
    <3>1. i = proxy.modify_rows[r]
      BY <1>3, <2>1 DEF ModifAt
    <3> HIDE DEF i
    <3>2. i \in Range(proxy.all_modifs) /\ modif[i].model_row = r
      BY <1>1, <2>1, <3>1 DEF TableOK
    <3>3. i \in Modifs
      BY <1>1, <3>2, ListsType, RangeOf
    <3> QED BY <1>1, <1>2, <1>3, <3>2, <3>3, BoundsAssumption DEF RecordsOK, i
  <2>2. CASE r \notin DOMAIN proxy.modify_rows
    <3>1. i = NONE
      BY <1>3, <2>2 DEF ModifAt
    <3> QED BY <1>3, <2>2, <3>1
  <2> QED BY <2>1, <2>2
<1>4. CASE ~(r < Len(model))
  <2>1. i = proxy.new_rows[r - Len(model) + 1]
    BY <1>4 DEF ModifAt
  <2>2. r - Len(model) + 1 \in 1 .. Len(proxy.new_rows)
    BY <1>2, <1>4 DEF NRows
  <2> HIDE DEF i
  <2>3. i \in Range(proxy.new_rows) /\ i \in Modifs
    BY <1>2, <2>1, <2>2, RangeOf
  <2>4. i \in Range(proxy.all_modifs) /\ modif[i].model_row = -1 /\ i \in DOMAIN modif
    BY <1>1, <2>3 DEF ListsOK, PlacesOK, RecordsOK
  <2> QED BY <1>1, <1>2, <1>4, <2>3, <2>4, BoundsAssumption DEF RecordsOK, i
<1> QED BY <1>3, <1>4

LEMMA NewModifFacts ==
    ASSUME IInv, NEW r \in Nat, r < Len(model)
    PROVE  /\ RecordOK(NewModif(r))
           /\ NewModif(r).model_row = r /\ NewModif(r).orig_values = model[r + 1]
           /\ NewModif(r).modify_values = Empty /\ NewModif(r).to_be_deleted = FALSE
<1> DEFINE rm == NewModif(r)
<1>1. model \in Seq(Content) /\ Len(model) \in Nat /\ Len(model) <= MaxRows
  BY DEF IInv, OK
<1>2. model[r + 1] \in Content /\ r \in -1 .. MaxRows /\ r # -1
  BY <1>1, BoundsAssumption
<1>3. Empty \in Partial(Cols, Value \cup {Default}) /\ DOMAIN Empty = {}
  <2>1. Empty \in [{} -> Value \cup {Default}] /\ {} \in SUBSET Cols
    BY DEF Empty
  <2> QED BY <2>1, PartialIs DEF Empty
<1>4. rm = [model_row |-> r, to_be_deleted |-> FALSE, modify_values |-> Empty,
            orig_values |-> model[r + 1]]
  BY DEF NewModif
<1> DEFINE o == model[r + 1]
<1> HIDE DEF rm, o
<1>5. /\ rm.model_row = r /\ rm.to_be_deleted = FALSE /\ rm.modify_values = Empty
      /\ rm.orig_values = o
  BY ONLY <1>4 DEF o
<1>6. rm \in RowModif
  BY <1>2, <1>3, <1>4 DEF RowModif, Partial, o
<1> QED BY <1>2, <1>3, <1>5, <1>6 DEF RecordOK, rm, o

LEMMA NewRowModif ==
    ASSUME IInv, NEW r \in Nat, r < Len(model), r \notin DOMAIN proxy.modify_rows,
           NEW j \in Fresh, NEW rm, RecordOK(rm), rm.model_row = r,
           rm.orig_values = model[r + 1]
    PROVE  LET p == Created(proxy, j, r)
               f == Mapped(modif, j, rm)
           IN /\ OK(model, p, f) /\ j \in Range(p.all_modifs)
              /\ Valued(modif) => ValuedBut(f, j)
              /\ Valued(modif) /\ HasSome(rm) => Valued(f)
              /\ OnRows(model, proxy, modif) => OnRows(model, p, f)
              /\ p.new_rows = proxy.new_rows /\ f[j] = rm
<1> DEFINE p == Created(proxy, j, r)
           f == Mapped(modif, j, rm)
<1>1. /\ OK(model, proxy, modif) /\ j \in Modifs /\ j \notin DOMAIN modif
      /\ proxy \in ProxyLists /\ modif \in RowModifs /\ ListsOK(proxy)
      /\ RecordsOK(proxy, modif) /\ Len(model) <= MaxRows /\ Len(model) \in Nat
  BY DEF IInv, OK, Fresh
<1>2. /\ OK(model, p, f)
      /\ Valued(modif) /\ HasSome(rm) => Valued(f)
      /\ OnRows(model, proxy, modif) => OnRows(model, p, f)
  BY <1>1, CreatedKeeps
<1>3. Valued(modif) => ValuedBut(f, j)
  BY <1>1, ValuedStill DEF RecordOK
<1>4. f[j] = rm
  BY DEF Mapped
<1>5. IsCreated(proxy, j, r, p)
  <2>1. r \in 0 .. MaxRows /\ j \notin Range(proxy.all_modifs) /\ NoRepeats(proxy.all_modifs)
    BY <1>1, BoundsAssumption DEF RecordsOK, ListsOK
  <2> QED BY <1>1, <2>1, CreatedFacts
<1> HIDE DEF p, f
<1>6. j \in Range(p.all_modifs) /\ p.new_rows = proxy.new_rows
  BY <1>5 DEF IsCreated
<1> QED BY <1>2, <1>3, <1>4, <1>6 DEF p, f
-----------------------------------------------------------------------------
(* What each step keeps: the invariant; that every RowModif has something  *)
(* to apply; and those on their rows, but for the named steps.             *)
StaysOnRows == OnRows(model, proxy, modif) =>
    OnRows(model', proxy', modif') \/ InsertedAtModified \/ Displaces
StepKeeps == IInv' /\ (Valued(modif) => Valued(modif')) /\ StaysOnRows

LEMMA LeftKeeps ==
    ASSUME IInv, NEW p, NEW f, Left(p, f), p.new_rows = proxy.new_rows,
           OnRows(model, proxy, modif) => OnRows(model, p, f)
    PROVE  IInv' /\ StaysOnRows
<1>1. OK(model', proxy', modif') /\ Len(proxy'.new_rows) <= Len(proxy.new_rows)
      /\ model' = model
  BY DEF Left
<1>2. NRows(model', proxy') <= MaxRows
  <2>1. Len(model) \in Nat /\ Len(proxy.new_rows) \in Nat /\ Len(proxy'.new_rows) \in Nat
    BY <1>1, ListsType DEF IInv, OK
  <2> QED BY <1>1, <2>1, BoundsAssumption DEF NRows, IInv
<1>3. IInv'
  BY <1>1, <1>2 DEF IInv
<1> QED BY <1>3 DEF Left, StaysOnRows

LEMMA SetValueKeeps ==
    ASSUME IInv, NEW r \in 0 .. NRows(model, proxy) - 1, NEW c \in Cols,
           NEW v \in Domain[c] \cup {Null}, SetValue(r, c, v)
    PROVE  StepKeeps
<1> DEFINE i == ModifAt(model, proxy, r)
<1>1. /\ i # NONE => i \in Range(proxy.all_modifs)
      /\ i = NONE => r < Len(model) /\ r \notin DOMAIN proxy.modify_rows
  BY ModifAtFacts
<1>2. \/ i # NONE /\ SetIn(proxy, modif, i, r, c, v)
      \/ i = NONE /\ \E j \in Fresh :
            SetIn(Created(proxy, j, r), Mapped(modif, j, NewModif(r)), j, r, c, v)
  BY DEF SetValue
<1> HIDE DEF i
<1>3. CASE i # NONE /\ SetIn(proxy, modif, i, r, c, v)
  <2>1. Left(proxy, modif) /\ (ValuedBut(modif, i) => Valued(modif'))
    BY <1>1, <1>3, SetInKeeps DEF IInv
  <2>2. Valued(modif) => ValuedBut(modif, i)
    BY DEF Valued, ValuedBut
  <2> QED BY <2>1, <2>2, LeftKeeps DEF StepKeeps
<1>4. ASSUME NEW j \in Fresh, i = NONE,
             SetIn(Created(proxy, j, r), Mapped(modif, j, NewModif(r)), j, r, c, v)
      PROVE  StepKeeps
  <2> DEFINE p == Created(proxy, j, r)
             f == Mapped(modif, j, NewModif(r))
  <2>1. r \in Nat /\ r < Len(model) /\ r \notin DOMAIN proxy.modify_rows
    BY <1>1, <1>4
  <2>2. RecordOK(NewModif(r)) /\ NewModif(r).model_row = r
        /\ NewModif(r).orig_values = model[r + 1]
    BY <2>1, NewModifFacts
  <2>3. /\ OK(model, p, f) /\ j \in Range(p.all_modifs)
        /\ Valued(modif) => ValuedBut(f, j)
        /\ OnRows(model, proxy, modif) => OnRows(model, p, f)
        /\ p.new_rows = proxy.new_rows
    BY <2>1, <2>2, NewRowModif
  <2> HIDE DEF p, f
  <2>4. Left(p, f) /\ (ValuedBut(f, j) => Valued(modif'))
    BY <1>4, <2>3, SetInKeeps DEF p, f
  <2> QED BY <2>3, <2>4, LeftKeeps DEF StepKeeps
<1> QED BY <1>2, <1>3, <1>4

LEMMA AlterDefaultKeeps ==
    ASSUME IInv, NEW r \in 0 .. NRows(model, proxy) - 1, NEW c \in Cols, AlterDefault(r, c)
    PROVE  StepKeeps
<1> DEFINE i == ModifAt(model, proxy, r)
           with(rm) == [rm EXCEPT !.modify_values = Mapped(rm.modify_values, c, Default)]
           s == <<Signal("updated", r)>>
<1>1. /\ i # NONE => i \in Range(proxy.all_modifs) /\ RecordOK(modif[i])
      /\ i = NONE => r < Len(model) /\ r \notin DOMAIN proxy.modify_rows
  BY ModifAtFacts
<1>2. \/ i # NONE /\ Does(proxy, [modif EXCEPT ![i] = with(modif[i])], s)
      \/ i = NONE /\ \E j \in Fresh :
            Does(Created(proxy, j, r), [Mapped(modif, j, NewModif(r)) EXCEPT
                    ![j] = with(Mapped(modif, j, NewModif(r))[j])], s)
  BY DEF AlterDefault
<1>3. ASSUME NEW rm, RecordOK(rm)
      PROVE  RecordOK(with(rm)) /\ with(rm).model_row = rm.model_row
             /\ with(rm).orig_values = rm.orig_values /\ HasSome(with(rm))
  <2>1. Values(Mapped(rm.modify_values, c, Default)) /\ Mapped(rm.modify_values, c, Default) # Empty
    BY <1>3, RecordValues, MappedValues
  <2> QED BY <1>3, <2>1, WithValues
<1> HIDE DEF i, with
<1>4. CASE i # NONE /\ Does(proxy, [modif EXCEPT ![i] = with(modif[i])], s)
  <2>1. Left(proxy, modif) /\ (ValuedBut(modif, i) => Valued(modif'))
    BY <1>1, <1>3, <1>4, DoesChange DEF IInv
  <2>2. Valued(modif) => ValuedBut(modif, i)
    BY DEF Valued, ValuedBut
  <2> QED BY <2>1, <2>2, LeftKeeps DEF StepKeeps
<1>5. ASSUME NEW j \in Fresh, i = NONE,
             Does(Created(proxy, j, r), [Mapped(modif, j, NewModif(r)) EXCEPT
                     ![j] = with(Mapped(modif, j, NewModif(r))[j])], s)
      PROVE  StepKeeps
  <2> DEFINE p == Created(proxy, j, r)
             f == Mapped(modif, j, NewModif(r))
  <2>1. r \in Nat /\ r < Len(model) /\ r \notin DOMAIN proxy.modify_rows
    BY <1>1, <1>5
  <2>2. RecordOK(NewModif(r)) /\ NewModif(r).model_row = r
        /\ NewModif(r).orig_values = model[r + 1]
    BY <2>1, NewModifFacts
  <2>3. /\ OK(model, p, f) /\ j \in Range(p.all_modifs)
        /\ Valued(modif) => ValuedBut(f, j)
        /\ OnRows(model, proxy, modif) => OnRows(model, p, f)
        /\ p.new_rows = proxy.new_rows /\ f[j] = NewModif(r)
    BY <2>1, <2>2, NewRowModif
  <2>4. Does(p, [f EXCEPT ![j] = with(f[j])], s)
    BY <1>5
  <2> HIDE DEF p, f
  <2>5. Left(p, f) /\ (ValuedBut(f, j) => Valued(modif'))
    BY <1>3, <2>2, <2>3, <2>4, DoesChange
  <2> QED BY <2>3, <2>5, LeftKeeps DEF StepKeeps
<1> QED BY <1>2, <1>4, <1>5

(* The call that makes a RowModif of an unchanged row is the one after     *)
(* which one may have nothing to apply.                                    *)
LEMMA AlterUnchangedKeeps ==
    ASSUME IInv, NEW r \in 0 .. NRows(model, proxy) - 1, NEW c \in Cols, AlterUnchanged(r, c)
    PROVE  /\ IInv' /\ StaysOnRows
           /\ Valued(modif) =>
                 Valued(modif') \/ (r \in 0 .. Len(model) - 1 /\ r \notin DOMAIN proxy.modify_rows)
<1> DEFINE i == ModifAt(model, proxy, r)
           v == modif[i].orig_values[c]
<1>1. /\ i # NONE => i \in Range(proxy.all_modifs) /\ RecordOK(modif[i])
      /\ i = NONE => r < Len(model) /\ r \notin DOMAIN proxy.modify_rows
  BY ModifAtFacts
<1>2. \/ i # NONE /\ modif[i].orig_values # NONE /\ SetIn(proxy, modif, i, r, c, v)
      \/ i = NONE /\ \E j \in Fresh :
            Does(Created(proxy, j, r), Mapped(modif, j, NewModif(r)), <<>>)
  BY DEF AlterUnchanged
<1> HIDE DEF i
<1>3. CASE i # NONE /\ modif[i].orig_values # NONE /\ SetIn(proxy, modif, i, r, c, v)
  <2>1. v \in Domain[c] \cup {Null}
    BY <1>1, <1>3 DEF RecordOK, RowModif, Content
  <2>2. Left(proxy, modif) /\ (ValuedBut(modif, i) => Valued(modif'))
    BY <1>1, <1>3, <2>1, SetInKeeps DEF IInv
  <2>3. Valued(modif) => ValuedBut(modif, i)
    BY DEF Valued, ValuedBut
  <2> QED BY <2>2, <2>3, LeftKeeps
<1>4. ASSUME NEW j \in Fresh, i = NONE,
             Does(Created(proxy, j, r), Mapped(modif, j, NewModif(r)), <<>>)
      PROVE  IInv' /\ StaysOnRows /\ r \in 0 .. Len(model) - 1 /\ r \notin DOMAIN proxy.modify_rows
  <2> DEFINE p == Created(proxy, j, r)
             f == Mapped(modif, j, NewModif(r))
  <2>1. r \in Nat /\ r < Len(model) /\ r \notin DOMAIN proxy.modify_rows
    BY <1>1, <1>4
  <2>2. RecordOK(NewModif(r)) /\ NewModif(r).model_row = r
        /\ NewModif(r).orig_values = model[r + 1]
    BY <2>1, NewModifFacts
  <2>3. /\ OK(model, p, f)
        /\ OnRows(model, proxy, modif) => OnRows(model, p, f)
        /\ p.new_rows = proxy.new_rows
    BY <2>1, <2>2, NewRowModif
  <2>4. model' = model /\ proxy' = p /\ modif' = f
    BY <1>4 DEF Does, Becomes
  <2> HIDE DEF p, f
  <2>5. Left(p, f)
    <3>1. Len(p.new_rows) \in Nat
      BY <2>3, ListsType DEF OK
    <3> QED BY <2>3, <2>4, <3>1 DEF Left
  <2>6. r \in 0 .. Len(model) - 1
    <3>1. Len(model) \in Nat
      BY DEF IInv, OK
    <3> QED BY <2>1, <3>1
  <2> QED BY <2>1, <2>3, <2>5, <2>6, LeftKeeps
<1> QED BY <1>2, <1>3, <1>4

LEMMA DeleteKeeps ==
    ASSUME IInv, NEW r \in 0 .. NRows(model, proxy) - 1, Delete(r)
    PROVE  StepKeeps
<1> DEFINE i == ModifAt(model, proxy, r)
           marked == <<Signal("updated", r)>>
           new == [NewModif(r) EXCEPT !.to_be_deleted = TRUE]
<1>1. /\ i # NONE => i \in Range(proxy.all_modifs) /\ RecordOK(modif[i])
      /\ i = NONE => r < Len(model) /\ r \notin DOMAIN proxy.modify_rows
  BY ModifAtFacts
<1>2. \/ /\ i # NONE /\ modif[i].model_row = -1
         /\ Does(Unlisted(proxy, i, -1), Freed(modif, i), <<Signal("removed", r)>>)
      \/ /\ i # NONE /\ modif[i].model_row >= 0
         /\ Does(proxy, [modif EXCEPT ![i] = [modif[i] EXCEPT !.to_be_deleted = TRUE]], marked)
      \/ /\ i = NONE
         /\ \E j \in Fresh : Does(Created(proxy, j, r), Mapped(modif, j, new), marked)
  BY DEF Delete
<1> HIDE DEF i
<1>3. Valued(modif) => ValuedBut(modif, i)
  BY DEF Valued, ValuedBut
<1>4. CASE /\ i # NONE /\ modif[i].model_row = -1
           /\ Does(Unlisted(proxy, i, -1), Freed(modif, i), <<Signal("removed", r)>>)
  <2>1. Left(proxy, modif) /\ (ValuedBut(modif, i) => Valued(modif'))
    BY <1>1, <1>4, DoesDrop DEF IInv
  <2> QED BY <1>3, <2>1, LeftKeeps DEF StepKeeps
<1>5. CASE /\ i # NONE /\ modif[i].model_row >= 0
           /\ Does(proxy, [modif EXCEPT ![i] = [modif[i] EXCEPT !.to_be_deleted = TRUE]], marked)
  <2> DEFINE rm == [modif[i] EXCEPT !.to_be_deleted = TRUE]
  <2>1. modif[i].model_row # -1
    BY <1>5
  <2>2. RecordOK(rm) /\ rm.model_row = modif[i].model_row
        /\ rm.orig_values = modif[i].orig_values /\ HasSome(rm)
    BY <1>1, <1>5, <2>1, WithMark
  <2> HIDE DEF rm
  <2>3. Left(proxy, modif) /\ (ValuedBut(modif, i) => Valued(modif'))
    BY <1>1, <1>5, <2>2, DoesChange DEF IInv, rm
  <2> QED BY <1>3, <2>3, LeftKeeps DEF StepKeeps
<1>6. ASSUME NEW j \in Fresh, i = NONE,
             Does(Created(proxy, j, r), Mapped(modif, j, new), marked)
      PROVE  StepKeeps
  <2> DEFINE p == Created(proxy, j, r)
             f == Mapped(modif, j, new)
  <2>1. r \in Nat /\ r < Len(model) /\ r \notin DOMAIN proxy.modify_rows
    BY <1>1, <1>6
  <2>2. RecordOK(NewModif(r)) /\ NewModif(r).model_row = r
        /\ NewModif(r).orig_values = model[r + 1]
    BY <2>1, NewModifFacts
  <2>3. NewModif(r).model_row # -1
    BY <2>1, <2>2
  <2>4. RecordOK(new) /\ new.model_row = r /\ new.orig_values = model[r + 1] /\ HasSome(new)
    BY <2>2, <2>3, WithMark
  <2> HIDE DEF new
  <2>5. /\ OK(model, p, f)
        /\ OnRows(model, proxy, modif) => OnRows(model, p, f)
        /\ Valued(modif) => Valued(f)
        /\ p.new_rows = proxy.new_rows
    BY <2>1, <2>4, NewRowModif
  <2>6. model' = model /\ proxy' = p /\ modif' = f
    BY <1>6 DEF Does, Becomes
  <2> HIDE DEF p, f
  <2>7. Left(p, f)
    <3>1. Len(p.new_rows) \in Nat
      BY <2>5, ListsType DEF OK
    <3> QED BY <2>5, <2>6, <3>1 DEF Left
  <2>8. Valued(modif) => Valued(modif')
    BY <2>5, <2>6
  <2>9. IInv' /\ StaysOnRows
    BY <2>5, <2>7, LeftKeeps
  <2> QED BY <2>8, <2>9 DEF StepKeeps
<1> QED BY <1>2, <1>4, <1>5, <1>6
LEMMA UndeleteKeeps ==
    ASSUME IInv, NEW r \in 0 .. NRows(model, proxy) - 1, Undelete(r)
    PROVE  StepKeeps
<1> DEFINE i == ModifAt(model, proxy, r)
           s == <<Signal("updated", r)>>
           rm == [modif[i] EXCEPT !.to_be_deleted = FALSE]
<1>1. i # NONE => /\ i \in Range(proxy.all_modifs) /\ RecordOK(modif[i])
                  /\ r < Len(model) => modif[i].model_row = r
                  /\ r >= Len(model) => modif[i].model_row = -1
  BY ModifAtFacts
<1>2. /\ i # NONE
      /\ IF modif[i].modify_values = Empty THEN Does(Unlisted(proxy, i, r), Freed(modif, i), s)
         ELSE Does(proxy, [modif EXCEPT ![i] = rm], s)
  BY DEF Undelete
<1> HIDE DEF i
<1>3. Valued(modif) => ValuedBut(modif, i)
  BY DEF Valued, ValuedBut
<1>4. CASE modif[i].modify_values = Empty
  <2>1. modif[i].model_row # -1
    BY <1>1, <1>2, <1>4 DEF RecordOK
  <2>2. r = modif[i].model_row
    <3>1. Len(model) \in Nat /\ r \in Int
      BY DEF IInv, OK
    <3> QED BY <1>1, <1>2, <2>1, <3>1
  <2>3. Left(proxy, modif) /\ (ValuedBut(modif, i) => Valued(modif'))
    BY <1>1, <1>2, <1>4, <2>2, DoesDrop DEF IInv
  <2> QED BY <1>3, <2>3, LeftKeeps DEF StepKeeps
<1>5. CASE modif[i].modify_values # Empty
  <2>1. RecordOK(rm) /\ rm.model_row = modif[i].model_row
        /\ rm.orig_values = modif[i].orig_values /\ HasSome(rm)
    BY <1>1, <1>2, <1>5, WithMark
  <2> HIDE DEF rm
  <2>2. Left(proxy, modif) /\ (ValuedBut(modif, i) => Valued(modif'))
    BY <1>1, <1>2, <1>5, <2>1, DoesChange DEF IInv
  <2> QED BY <1>3, <2>2, LeftKeeps DEF StepKeeps
<1> QED BY <1>4, <1>5

LEMMA CancelRowKeeps ==
    ASSUME IInv, NEW r \in 0 .. NRows(model, proxy) - 1, NEW cols, CancelRow(r, cols)
    PROVE  StepKeeps
<1> DEFINE i == ModifAt(model, proxy, r)
           left == Keep(modif[i].modify_values, DOMAIN modif[i].modify_values \ cols)
           last == left = Empty /\ ~modif[i].to_be_deleted
           rm == [modif[i] EXCEPT !.modify_values = left]
<1>1. i # NONE => i \in Range(proxy.all_modifs) /\ RecordOK(modif[i])
  BY ModifAtFacts
<1>2. /\ i # NONE
      /\ last => \E s : Does(Unlisted(proxy, i, modif[i].model_row), Freed(modif, i), s)
      /\ ~last => \E s : Does(proxy, [modif EXCEPT ![i] = rm], s)
  BY DEF CancelRow
<1>3. Values(left)
  <2>1. Values(modif[i].modify_values)
    BY <1>1, <1>2, RecordValues
  <2>2. DOMAIN modif[i].modify_values \ cols \in SUBSET DOMAIN modif[i].modify_values
    OBVIOUS
  <2> QED BY <2>1, <2>2, KeepValues
<1> HIDE DEF i, left
<1>4. Valued(modif) => ValuedBut(modif, i)
  BY DEF Valued, ValuedBut
<1>5. CASE last
  <2>1. PICK s : Does(Unlisted(proxy, i, modif[i].model_row), Freed(modif, i), s)
    BY <1>2, <1>5
  <2>2. Left(proxy, modif) /\ (ValuedBut(modif, i) => Valued(modif'))
    BY <1>1, <1>2, <2>1, DoesDrop DEF IInv
  <2> QED BY <1>4, <2>2, LeftKeeps DEF StepKeeps
<1>6. CASE ~last
  <2>1. modif[i].model_row = -1 => left # Empty
    BY <1>1, <1>2, <1>6 DEF RecordOK
  <2>2. RecordOK(rm) /\ rm.model_row = modif[i].model_row
        /\ rm.orig_values = modif[i].orig_values /\ HasSome(rm)
    BY <1>1, <1>2, <1>3, <1>6, <2>1, WithValues
  <2> HIDE DEF rm
  <2>3. PICK s : Does(proxy, [modif EXCEPT ![i] = rm], s)
    BY <1>2, <1>6
  <2>4. Left(proxy, modif) /\ (ValuedBut(modif, i) => Valued(modif'))
    BY <1>1, <1>2, <2>2, <2>3, DoesChange DEF IInv
  <2> QED BY <1>4, <2>4, LeftKeeps DEF StepKeeps
<1> QED BY <1>5, <1>6

(* How the invariant's bound is kept by a step that keeps the rest.        *)
LEMMA KeepsKeeps ==
    ASSUME Keeps(model, proxy, modif, model', proxy', modif'), NRows(model', proxy') <= MaxRows
    PROVE  StepKeeps
  BY DEF Keeps, IInv, StepKeeps, StaysOnRows

LEMMA Lengths ==
    ASSUME IInv
    PROVE  /\ Len(model) \in Nat /\ Len(proxy.new_rows) \in Nat /\ MaxRows \in Nat
           /\ Len(model) + Len(proxy.new_rows) <= MaxRows /\ model \in Seq(Content)
  BY ListsType, BoundsAssumption DEF IInv, OK, NRows

LEMMA AppendRowKeeps ==
    ASSUME IInv, NEW i \in Fresh, AppendRow(i)
    PROVE  StepKeeps
<1> DEFINE mv == [c \in Cols |-> Null]
           rm == [model_row |-> -1, to_be_deleted |-> FALSE, modify_values |-> mv,
                  orig_values |-> NONE]
<1>1. /\ model' = model /\ proxy' = Appended(proxy, i) /\ modif' = Mapped(modif, i, rm)
      /\ NRows(model, proxy) < MaxRows
  BY DEF AppendRow, Does, Becomes, Appended
<1>2. RecordOK(rm)
  <2>1. mv \in [Cols -> Value \cup {Default}] /\ Cols \in SUBSET Cols
    BY DEF Value
  <2>2. mv # Empty
    BY <2>1, EmptyFacts, ColsAssumption
  <2>3. \A c \in DOMAIN mv : mv[c] \in Domain[c] \cup {Null, Default}
    OBVIOUS
  <2>4. mv \in Partial(Cols, Value \cup {Default})
    BY <2>1, PartialIs
  <2> HIDE DEF mv
  <2>5. rm \in RowModif
    BY <2>4, BoundsAssumption DEF RowModif, Partial
  <2> QED BY <2>2, <2>3, <2>5 DEF RecordOK
<1>3. rm.model_row = -1
  OBVIOUS
<1> HIDE DEF rm
<1>4. i \in Modifs /\ i \notin DOMAIN modif
  BY DEF Fresh
<1>5. /\ Keeps(model, proxy, modif, model, Appended(proxy, i), Mapped(modif, i, rm))
      /\ Len(Appended(proxy, i).new_rows) = Len(proxy.new_rows) + 1
  BY <1>2, <1>3, <1>4, AppendedKeeps DEF IInv
<1>6. Keeps(model, proxy, modif, model', proxy', modif')
      /\ Len(proxy'.new_rows) = Len(proxy.new_rows) + 1
  BY <1>1, <1>5
<1>7. NRows(model', proxy') <= MaxRows
  BY <1>1, <1>6, Lengths DEF NRows
<1> QED BY <1>6, <1>7, KeepsKeeps

LEMMA CancelAllKeeps ==
    ASSUME IInv, CancelAll
    PROVE  StepKeeps
<1>1. model' = model /\ proxy' = Unchanged(proxy, modif) /\ modif' = Removed(proxy, modif)
  BY DEF CancelAll, Does, Becomes, Unchanged, Removed
<1>2. OK(model, proxy, modif) /\ proxy \in ProxyLists /\ TableOK(proxy, modif)
  BY DEF IInv, OK
<1>3. IsUncached(proxy, Unchanged(proxy, modif))
  BY <1>2, UnchangedFacts
<1>4. Keeps(model, proxy, modif, model', proxy', modif')
  BY <1>1, <1>2, <1>3, RemovedKeeps
<1>5. NRows(model', proxy') <= MaxRows
  <2>1. proxy'.new_rows = <<>>
    BY <1>1, <1>3 DEF IsUncached
  <2>2. Len(proxy'.new_rows) = 0
    BY <2>1
  <2> QED BY <1>1, <2>2, Lengths DEF NRows
<1> QED BY <1>4, <1>5, KeepsKeeps
-----------------------------------------------------------------------------
(* The application of a RowModif to the model.                             *)
LEMMA DisplacesIs ==
    ASSUME NEW r \in 0 .. Len(model), NEW d \in {-1, 1}, Len(model') = Len(model) + d,
           \E i \in Range(proxy.all_modifs) :
              After(modif, r, i) /\ Displaced(proxy, modif, r, d, i)
    PROVE  Displaces
  BY DEF Displaces, Listed

LEMMA CommitDeleteKeeps ==
    ASSUME IInv, NEW i \in Range(proxy.all_modifs), CommitDelete(i)
    PROVE  StepKeeps
<1> DEFINE r == modif[i].model_row
           n == RemoveAt(model, r + 1)
           u == RowRemoved(proxy, modif, r)
           v == Finished(u, i)
<1>1. /\ modif[i].to_be_deleted /\ r < Len(model)
      /\ model' = n /\ proxy' = v.p /\ modif' = v.f
  BY DEF CommitDelete, Commits, Becomes
<1>2. OK(model, proxy, modif) /\ RecordOK(modif[i]) /\ r \in -1 .. MaxRows
  BY DEF IInv, OK, RecordsOK, RecordOK, RowModif
<1>3. r \in 0 .. Len(model) - 1
  <2>1. r # -1
    BY <1>1, <1>2 DEF RecordOK
  <2> QED BY <1>1, <1>2, <2>1, Lengths
<1> HIDE DEF r, n, u, v
<1>4. /\ OK(n, u.p, u.f) /\ Len(n) = Len(model) - 1
      /\ Valued(modif) => Valued(u.f)
      /\ /\ OnRows(model, proxy, modif)
         /\ ~\E j \in Range(proxy.all_modifs) :
                After(modif, r, j) /\ Displaced(proxy, modif, r, -1, j)
         => OnRows(n, u.p, u.f)
      /\ Len(u.p.new_rows) = Len(proxy.new_rows)
  BY <1>2, <1>3, RowRemovedKeeps DEF n, u
<1>5. /\ Keeps(n, u.p, u.f, n, v.p, v.f)
      /\ Len(v.p.new_rows) <= Len(u.p.new_rows)
  BY <1>4, FinishedKeeps DEF v
<1>6. OK(model', proxy', modif') /\ (Valued(modif) => Valued(modif'))
  BY <1>1, <1>4, <1>5 DEF Keeps
<1>7. NRows(model', proxy') <= MaxRows
  <2>1. Len(proxy'.new_rows) \in Nat
    BY <1>6, ListsType DEF OK
  <2> QED BY <1>1, <1>4, <1>5, <2>1, Lengths DEF NRows
<1>8. StaysOnRows
  <2>1. Displaces \/ ~\E j \in Range(proxy.all_modifs) :
           After(modif, r, j) /\ Displaced(proxy, modif, r, -1, j)
    <3>1. r \in 0 .. Len(model) /\ Len(model') = Len(model) + (-1) /\ -1 \in {-1, 1}
      BY <1>1, <1>3, <1>4, Lengths
    <3> QED BY <3>1, DisplacesIs
  <2> QED BY <1>1, <1>4, <1>5, <2>1 DEF StaysOnRows, Keeps
<1> QED BY <1>6, <1>7, <1>8 DEF StepKeeps, IInv

LEMMA CommitUpdateKeeps ==
    ASSUME IInv, NEW i \in Range(proxy.all_modifs), CommitUpdate(i)
    PROVE  StepKeeps
<1> DEFINE r == modif[i].model_row
           new == Stored(Committed(modif[i]), model[r + 1])
           n == [model EXCEPT ![r + 1] = new]
           u == RowUpdated(proxy, modif, r)
           v == Finished(u, i)
<1>1. /\ r \in 0 .. Len(model) - 1
      /\ model' = n /\ proxy' = v.p /\ modif' = v.f
  BY DEF CommitUpdate, Commits, Becomes
<1>2. OK(model, proxy, modif) /\ RecordOK(modif[i])
  BY DEF IInv, OK, RecordsOK
<1>3. model[r + 1] \in Content /\ r + 1 \in 1 .. Len(model)
  BY <1>1, Lengths
<1>4. new \in Content
  BY <1>2, <1>3, ContentFacts
<1> HIDE DEF r, new, u, v
<1>5. n \in Seq(Content) /\ Len(n) = Len(model)
      /\ \A x \in 0 .. Len(model) - 1 : x # r => n[x + 1] = model[x + 1]
  BY <1>1, <1>3, <1>4, Lengths
<1> HIDE DEF n
<1>6. /\ Keeps(model, proxy, modif, n, u.p, u.f)
      /\ Len(u.p.new_rows) = Len(proxy.new_rows)
  <2>1. OK(model, proxy, modif) /\ SameElsewhere(model, n, r)
    BY <1>1, <1>2, <1>5 DEF SameElsewhere
  <2> QED BY <2>1, RowUpdatedKeeps DEF u
<1>7. OK(n, u.p, u.f)
  BY <1>6 DEF Keeps
<1>8. /\ Keeps(n, u.p, u.f, n, v.p, v.f)
      /\ Len(v.p.new_rows) <= Len(u.p.new_rows)
  BY <1>7, FinishedKeeps DEF v
<1>9. Keeps(model, proxy, modif, model', proxy', modif')
  BY <1>1, <1>6, <1>8 DEF Keeps
<1>10. NRows(model', proxy') <= MaxRows
  <2>1. Len(proxy'.new_rows) \in Nat
    BY <1>9, ListsType DEF OK, Keeps
  <2> QED BY <1>1, <1>5, <1>6, <1>8, <2>1, Lengths DEF NRows
<1> QED BY <1>9, <1>10, KeepsKeeps

LEMMA CommitInsertKeeps ==
    ASSUME IInv, NEW i \in Range(proxy.all_modifs), CommitInsert(i)
    PROVE  StepKeeps
<1> DEFINE r == Len(model)
           new == Stored(Committed(modif[i]), DefaultRow)
           n == Append(model, new)
           u == RowInserted(proxy, modif, r)
           q == Unlisted(u.p, i, -1)
           g == Freed(u.f, i)
<1>1. modif[i].model_row = -1 /\ model' = n /\ proxy' = q /\ modif' = g
  BY DEF CommitInsert, Commits, Becomes
<1>2. /\ OK(model, proxy, modif) /\ RecordOK(modif[i]) /\ i \in Range(proxy.new_rows)
      /\ proxy \in ProxyLists /\ PlacesOK(model, proxy, modif) /\ TableOK(proxy, modif)
      /\ RecordsOK(proxy, modif)
  BY <1>1 DEF IInv, OK, RecordsOK, PlacesOK
<1>3. new \in Content
  BY <1>2, ContentFacts
<1>4. r < MaxRows /\ r \in 0 .. Len(model)
  <2>1. proxy.new_rows \in Seq(Modifs)
    BY <1>2, ListsType
  <2>2. Len(proxy.new_rows) # 0
    BY <1>2, <2>1, RangeOf
  <2> QED BY <2>2, Lengths
<1> HIDE DEF new
<1>5. n \in Seq(Content) /\ Len(n) = r + 1 /\ RowsMove(model, n, r, 1)
  <2>1. n \in Seq(Content) /\ Len(n) = r + 1 /\ \A x \in 1 .. r : n[x] = model[x]
    BY <1>3, Lengths
  <2> HIDE DEF n
  <2>2. \A x \in 0 .. r - 1 : x + 1 \in 1 .. r /\ ~(x > r)
    BY Lengths
  <2> QED BY <2>1, <2>2 DEF RowsMove
<1> HIDE DEF r, n, u
<1>6. /\ OK(n, u.p, u.f)
      /\ Valued(modif) => Valued(u.f)
      /\ /\ OnRows(model, proxy, modif) /\ r \notin DOMAIN proxy.modify_rows
         /\ ~\E j \in Range(proxy.all_modifs) :
                After(modif, r, j) /\ Displaced(proxy, modif, r, 1, j)
         => OnRows(n, u.p, u.f)
      /\ u.p.new_rows = proxy.new_rows /\ u.p.all_modifs = proxy.all_modifs
      /\ u.f = Moved(proxy, modif, r, 1)
  BY <1>2, <1>4, <1>5, RowInsertedKeeps DEF r, u
<1>7. u.f[i].model_row = -1
  <2>1. ~After(modif, r, i) /\ i \in DOMAIN modif
    BY <1>1, <1>2, Lengths DEF After, r, RecordsOK
  <2> QED BY <1>1, <1>6, <2>1 DEF Moved
<1>8. /\ Keeps(n, u.p, u.f, n, q, g)
      /\ Len(q.new_rows) = Len(proxy.new_rows) - 1
  <2> DEFINE p == u.p
             f == u.f
  <2>1. i \in Range(p.all_modifs) /\ i \in Range(p.new_rows) /\ OK(n, p, f)
        /\ f[i].model_row = -1 /\ p.new_rows = proxy.new_rows
    BY <1>2, <1>6, <1>7
  <2> HIDE DEF p, f
  <2>2. /\ Keeps(n, p, f, n, Unlisted(p, i, -1), Freed(f, i))
        /\ Len(Unlisted(p, i, -1).new_rows) =
              IF i \in Range(p.new_rows) THEN Len(p.new_rows) - 1 ELSE Len(p.new_rows)
    BY <2>1, DropKeeps
  <2> QED BY <2>1, <2>2 DEF p, f
<1> HIDE DEF q, g
<1>9. OnRows(model, proxy, modif) => OnRows(n, u.p, u.f)
  <2> SUFFICES ASSUME OnRows(model, proxy, modif) PROVE OnRows(n, u.p, u.f)
    OBVIOUS
  <2>1. r \notin DOMAIN proxy.modify_rows
    <3> SUFFICES ASSUME r \in DOMAIN proxy.modify_rows PROVE FALSE
      OBVIOUS
    <3> DEFINE j == proxy.modify_rows[r]
    <3>1. j \in Range(proxy.all_modifs) /\ modif[j].model_row = r /\ r >= 0
      BY <1>2, <1>4, Lengths DEF TableOK
    <3>2. OnRow(model, proxy, modif[j], j)
      BY <3>1 DEF OnRows
    <3> QED BY <3>1, <3>2, Lengths DEF OnRow, r
  <2>2. \A j \in Range(proxy.all_modifs) : ~After(modif, r, j)
    <3> TAKE j \in Range(proxy.all_modifs)
    <3>1. modif[j].model_row <= r /\ modif[j].model_row \in Int /\ r \in Nat
      BY <1>2, Lengths, BoundsAssumption DEF PlacesOK, RecordsOK, RecordOK, RowModif, r
    <3> QED BY <3>1 DEF After
  <2> QED BY <1>6, <2>1, <2>2
<1>10. Keeps(model, proxy, modif, model', proxy', modif')
  BY <1>1, <1>6, <1>8, <1>9 DEF Keeps
<1>11. NRows(model', proxy') <= MaxRows
  <2>1. Len(proxy'.new_rows) = Len(proxy.new_rows) - 1 /\ Len(model') = Len(model) + 1
    BY <1>1, <1>5, <1>8 DEF r
  <2>3. Len(model) \in Nat /\ Len(proxy.new_rows) \in Nat /\ MaxRows \in Nat
        /\ Len(model) + Len(proxy.new_rows) <= MaxRows
    BY Lengths
  <2>4. Len(model') + Len(proxy'.new_rows) <= MaxRows
    <3> DEFINE a == Len(model)
               b == Len(proxy.new_rows)
               c == Len(model')
               d == Len(proxy'.new_rows)
    <3> HIDE DEF a, b, c, d
    <3>1. a \in Nat /\ b \in Nat /\ MaxRows \in Nat /\ a + b <= MaxRows /\ c = a + 1 /\ d = b - 1
      BY <2>1, <2>3 DEF a, b, c, d
    <3>2. c + d <= MaxRows
      BY ONLY <3>1
    <3> QED BY ONLY <3>2 DEF c, d
  <2> QED BY ONLY <2>4 DEF NRows
<1> QED BY <1>10, <1>11, KeepsKeeps

LEMMA CommitKeeps ==
    ASSUME IInv, NEW i \in Range(proxy.all_modifs), Commit(i)
    PROVE  StepKeeps
  BY CommitDeleteKeeps, CommitUpdateKeeps, CommitInsertKeeps DEF Commit

LEMMA ApplyRowKeeps ==
    ASSUME IInv, NEW r \in 0 .. NRows(model, proxy) - 1, ApplyRow(r)
    PROVE  StepKeeps
<1> DEFINE i == ModifAt(model, proxy, r)
<1>1. i # NONE /\ Commit(i)
  BY DEF ApplyRow
<1>2. i \in Range(proxy.all_modifs)
  BY <1>1, ModifAtFacts
<1> HIDE DEF i
<1> QED BY <1>1, <1>2, CommitKeeps

LEMMA ApplyNextKeeps ==
    ASSUME IInv, ApplyNext
    PROVE  StepKeeps
<1>1. proxy.all_modifs \in Seq(Modifs)
  BY ListsType DEF IInv, OK
<1>2. Head(proxy.all_modifs) \in Range(proxy.all_modifs)
  <2>1. proxy.all_modifs # <<>>
    BY DEF ApplyNext
  <2>2. 1 \in 1 .. Len(proxy.all_modifs) /\ Head(proxy.all_modifs) = proxy.all_modifs[1]
    BY <1>1, <2>1
  <2> QED BY <1>1, <2>2, RangeOf
<1> QED BY <1>2, CommitKeeps DEF ApplyNext

(* Changes of the model that are not the proxy's.                          *)
LEMMA ModelInsertsKeeps ==
    ASSUME IInv, NEW r \in 0 .. Len(model), NEW v \in Content, ModelInserts(r, v)
    PROVE  StepKeeps
<1> DEFINE n == InsertAt(model, r + 1, v)
           u == RowInserted(proxy, modif, r)
<1>1. model' = n /\ proxy' = u.p /\ modif' = u.f /\ NRows(model, proxy) < MaxRows
  BY DEF ModelInserts, Commits, Becomes
<1>2. n \in Seq(Content) /\ Len(n) = Len(model) + 1 /\ RowsMove(model, n, r, 1)
  BY Lengths, InsertAtFacts
<1>3. Len(model) < MaxRows
  BY <1>1, Lengths DEF NRows
<1> HIDE DEF n, u
<1>4. /\ OK(n, u.p, u.f)
      /\ Valued(modif) => Valued(u.f)
      /\ /\ OnRows(model, proxy, modif) /\ r \notin DOMAIN proxy.modify_rows
         /\ ~\E j \in Range(proxy.all_modifs) :
                After(modif, r, j) /\ Displaced(proxy, modif, r, 1, j)
         => OnRows(n, u.p, u.f)
      /\ u.p.new_rows = proxy.new_rows
  BY <1>2, <1>3, RowInsertedKeeps DEF IInv, u
<1>5. NRows(model', proxy') <= MaxRows
  <2>1. Len(proxy'.new_rows) = Len(proxy.new_rows) /\ Len(model') = Len(model) + 1
    BY <1>1, <1>2, <1>4
  <2>3. Len(model) \in Nat /\ Len(proxy.new_rows) \in Nat /\ MaxRows \in Nat
        /\ Len(model) + Len(proxy.new_rows) < MaxRows
    BY <1>1, Lengths DEF NRows
  <2>4. Len(model') + Len(proxy'.new_rows) <= MaxRows
    <3> DEFINE a == Len(model)
               b == Len(proxy.new_rows)
               c == Len(model')
               d == Len(proxy'.new_rows)
    <3> HIDE DEF a, b, c, d
    <3>1. a \in Nat /\ b \in Nat /\ MaxRows \in Nat /\ a + b < MaxRows /\ c = a + 1 /\ d = b
      BY <2>1, <2>3 DEF a, b, c, d
    <3>2. c + d <= MaxRows
      BY ONLY <3>1
    <3> QED BY ONLY <3>2 DEF c, d
  <2> QED BY ONLY <2>4 DEF NRows
<1>6. StaysOnRows
  <2>1. r \in DOMAIN proxy.modify_rows => InsertedAtModified
    BY DEF InsertedAtModified
  <2>2. Displaces \/ ~\E j \in Range(proxy.all_modifs) :
           After(modif, r, j) /\ Displaced(proxy, modif, r, 1, j)
    <3>1. Len(model') = Len(model) + 1 /\ 1 \in {-1, 1}
      BY <1>1, <1>2
    <3> QED BY <3>1, DisplacesIs
  <2> QED BY <1>1, <1>4, <2>1, <2>2 DEF StaysOnRows
<1> QED BY <1>1, <1>4, <1>5, <1>6 DEF StepKeeps, IInv

LEMMA ModelUpdatesKeeps ==
    ASSUME IInv, NEW r \in 0 .. Len(model), NEW c \in Cols, NEW v \in Domain[c] \cup {Null},
           ModelUpdates(r, c, v)
    PROVE  StepKeeps
<1> DEFINE new == [model[r + 1] EXCEPT ![c] = v]
           n == [model EXCEPT ![r + 1] = new]
           u == RowUpdated(proxy, modif, r)
<1>1. r < Len(model) /\ model' = n /\ proxy' = u.p /\ modif' = u.f
  BY DEF ModelUpdates, Commits, Becomes
<1>2. r \in 0 .. Len(model) - 1 /\ r + 1 \in 1 .. Len(model) /\ model[r + 1] \in Content
  BY <1>1, Lengths
<1>3. new \in Content
  BY <1>2 DEF Content, Value
<1> HIDE DEF new, u
<1>4. n \in Seq(Content) /\ Len(n) = Len(model)
      /\ \A x \in 0 .. Len(model) - 1 : x # r => n[x + 1] = model[x + 1]
  BY <1>2, <1>3, Lengths
<1> HIDE DEF n
<1>5. /\ Keeps(model, proxy, modif, n, u.p, u.f)
      /\ Len(u.p.new_rows) = Len(proxy.new_rows)
  <2>1. OK(model, proxy, modif) /\ SameElsewhere(model, n, r)
    BY <1>2, <1>4 DEF IInv, SameElsewhere
  <2> QED BY <2>1, RowUpdatedKeeps DEF u
<1>6. Keeps(model, proxy, modif, model', proxy', modif')
  BY <1>1, <1>5
<1>7. NRows(model', proxy') <= MaxRows
  BY <1>1, <1>4, <1>5, Lengths DEF NRows
<1> QED BY <1>6, <1>7, KeepsKeeps

LEMMA ModelRemovesKeeps ==
    ASSUME IInv, NEW r \in 0 .. Len(model), ModelRemoves(r)
    PROVE  StepKeeps
<1> DEFINE n == RemoveAt(model, r + 1)
           u == RowRemoved(proxy, modif, r)
<1>1. r < Len(model) /\ model' = n /\ proxy' = u.p /\ modif' = u.f
  BY DEF ModelRemoves, Commits, Becomes
<1>2. r \in 0 .. Len(model) - 1
  BY <1>1, Lengths
<1> HIDE DEF n, u
<1>3. /\ OK(n, u.p, u.f) /\ Len(n) = Len(model) - 1
      /\ Valued(modif) => Valued(u.f)
      /\ /\ OnRows(model, proxy, modif)
         /\ ~\E j \in Range(proxy.all_modifs) :
                After(modif, r, j) /\ Displaced(proxy, modif, r, -1, j)
         => OnRows(n, u.p, u.f)
      /\ Len(u.p.new_rows) = Len(proxy.new_rows)
  BY <1>2, RowRemovedKeeps DEF IInv, n, u
<1>4. NRows(model', proxy') <= MaxRows
  BY <1>1, <1>3, Lengths DEF NRows
<1>5. StaysOnRows
  <2>1. Displaces \/ ~\E j \in Range(proxy.all_modifs) :
           After(modif, r, j) /\ Displaced(proxy, modif, r, -1, j)
    <3>1. Len(model') = Len(model) + (-1) /\ -1 \in {-1, 1}
      BY <1>1, <1>3, Lengths
    <3> QED BY <3>1, DisplacesIs
  <2> QED BY <1>1, <1>3, <2>1 DEF StaysOnRows
<1> QED BY <1>1, <1>3, <1>4, <1>5 DEF StepKeeps, IInv
-----------------------------------------------------------------------------
(* The changes that are cached when the model is replaced.                 *)
LEMMA MigratedKeeps ==
    ASSUME OK(model, proxy, modif)
    PROVE  OK(model, Migrated, modif) /\ Migrated.all_modifs = <<>>
<1> DEFINE inserts == {i \in Range(proxy.all_modifs) : modif[i].model_row = -1}
           new == Without(proxy.all_modifs, Range(proxy.all_modifs) \ inserts)
           old == Without(proxy.all_modifs, inserts)
           ci == Reverse(new) \o proxy.cached_inserts
           cm == Reverse(old) \o proxy.cached_modifs
           n == Nothing
           q == Migrated
<1>1. /\ model \in Seq(Content) /\ Len(model) <= MaxRows /\ proxy \in ProxyLists
      /\ modif \in RowModifs /\ ListsOK(proxy) /\ RecordsOK(proxy, modif)
      /\ PlacesOK(model, proxy, modif)
  BY DEF OK
<1>2. n = [all_modifs |-> <<>>, new_rows |-> <<>>, modify_rows |-> Empty,
           cached_modifs |-> <<>>, cached_inserts |-> <<>>]
  BY DEF Nothing
<1>3. q = [n EXCEPT !.cached_inserts = ci, !.cached_modifs = cm]
  BY DEF Migrated, Listed
<1> HIDE DEF n, q, inserts
<1>4. new \in Seq(Modifs) /\ NoRepeats(new) /\ Range(new) = inserts
  <2>1. new \in Seq(Modifs) /\ Range(new) = Range(proxy.all_modifs) \ (Range(proxy.all_modifs) \ inserts)
    BY <1>1, ListsType, WithoutFacts
  <2>2. NoRepeats(new)
    BY <1>1, ListsType, WithoutNoRepeats DEF ListsOK
  <2> QED BY <2>1, <2>2 DEF inserts
<1>5. old \in Seq(Modifs) /\ NoRepeats(old) /\ Range(old) = Range(proxy.all_modifs) \ inserts
  BY <1>1, ListsType, WithoutFacts, WithoutNoRepeats DEF ListsOK
<1> HIDE DEF new, old
<1>6. inserts \subseteq Range(proxy.all_modifs)
  BY DEF inserts
<1>7. /\ ci \in Seq(Modifs) /\ NoRepeats(ci)
      /\ Range(ci) = inserts \cup Range(proxy.cached_inserts)
  <2> DEFINE t == Reverse(new)
  <2>1. t \in Seq(Modifs) /\ NoRepeats(t) /\ Range(t) = inserts
    BY <1>4, ReverseFacts
  <2>2. Range(t) \cap Range(proxy.cached_inserts) = {} /\ NoRepeats(proxy.cached_inserts)
        /\ proxy.cached_inserts \in Seq(Modifs)
    BY <1>1, <1>6, <2>1, ListsType DEF ListsOK
  <2> HIDE DEF t
  <2>3. /\ t \o proxy.cached_inserts \in Seq(Modifs) /\ NoRepeats(t \o proxy.cached_inserts)
        /\ Range(t \o proxy.cached_inserts) = Range(t) \cup Range(proxy.cached_inserts)
    BY <2>1, <2>2, ConcatFacts
  <2> QED BY <2>1, <2>3 DEF t
<1>8. /\ cm \in Seq(Modifs) /\ NoRepeats(cm)
      /\ Range(cm) = (Range(proxy.all_modifs) \ inserts) \cup Range(proxy.cached_modifs)
  <2> DEFINE t == Reverse(old)
  <2>1. t \in Seq(Modifs) /\ NoRepeats(t) /\ Range(t) = Range(proxy.all_modifs) \ inserts
    BY <1>5, ReverseFacts
  <2>2. Range(t) \cap Range(proxy.cached_modifs) = {} /\ NoRepeats(proxy.cached_modifs)
        /\ proxy.cached_modifs \in Seq(Modifs)
    BY <1>1, <2>1, ListsType DEF ListsOK
  <2> HIDE DEF t
  <2>3. /\ t \o proxy.cached_modifs \in Seq(Modifs) /\ NoRepeats(t \o proxy.cached_modifs)
        /\ Range(t \o proxy.cached_modifs) = Range(t) \cup Range(proxy.cached_modifs)
    BY <2>1, <2>2, ConcatFacts
  <2> QED BY <2>1, <2>3 DEF t
<1> HIDE DEF ci, cm
<1>9. q = [all_modifs |-> <<>>, new_rows |-> <<>>, modify_rows |-> Empty,
           cached_modifs |-> cm, cached_inserts |-> ci]
  BY ONLY <1>2, <1>3
<1>10. /\ q.all_modifs = <<>> /\ q.new_rows = <<>> /\ q.modify_rows = Empty
       /\ q.cached_modifs = cm /\ q.cached_inserts = ci
  BY ONLY <1>9
<1>11. q \in ProxyLists
  BY <1>7, <1>8, <1>9, NothingFacts DEF ProxyLists, Partial
<1>12. ListsOK(q)
  BY <1>1, <1>6, <1>7, <1>8, <1>10, NothingFacts DEF ListsOK
<1>13. RecordsOK(q, modif)
  BY <1>1, <1>6, <1>7, <1>8, <1>10, NothingFacts DEF RecordsOK
<1>14. TableOK(q, modif)
  BY <1>10, NothingFacts DEF TableOK
<1>15. PlacesOK(model, q, modif)
  <2>1. \A i \in Range(ci) : modif[i].model_row = -1
    BY <1>1, <1>7 DEF PlacesOK, inserts
  <2>2. \A i \in Range(cm) : modif[i].model_row # -1
    BY <1>1, <1>8 DEF PlacesOK, inserts
  <2> QED BY <1>10, <2>1, <2>2, NothingFacts DEF PlacesOK
<1> QED BY <1>1, <1>10, <1>11, <1>12, <1>13, <1>14, <1>15 DEF OK, q

(* And the rows of the new one they are fetched for, one for each.         *)
FoundRows(m, p, f) == {x \in DOMAIN m : Nth(m, x) <= Len(Matches(p, f, m[x]))}
Match(m, p, f, x) == Matches(p, f, m[x])[Nth(m, x)]
Taken(m, p, f) == {Match(m, p, f, x) : x \in FoundRows(m, p, f)}

LEMMA NthFacts ==
    ASSUME NEW S, NEW m \in Seq(S)
    PROVE  /\ \A x \in 1 .. Len(m) : Nth(m, x) \in Nat \ {0}
           /\ \A x, y \in 1 .. Len(m) : x < y /\ m[x] = m[y] => Nth(m, x) < Nth(m, y)
<1> DEFINE same(x) == {y \in 1 .. x : m[y] = m[x]}
<1>1. Len(m) \in Nat
  OBVIOUS
<1>2. \A x \in 1 .. Len(m) : IsFiniteSet(same(x)) /\ x \in same(x)
  <2> TAKE x \in 1 .. Len(m)
  <2>1. IsFiniteSet(1 .. x) /\ x \in 1 .. x
    BY FS_Interval
  <2>2. same(x) \in SUBSET (1 .. x)
    OBVIOUS
  <2> QED BY <2>1, <2>2, FS_Subset
<1>3. ASSUME NEW x \in 1 .. Len(m)
      PROVE  Nth(m, x) \in Nat \ {0}
  <2>1. IsFiniteSet(same(x)) /\ x \in same(x)
    BY <1>2
  <2>2. Nth(m, x) = Cardinality(same(x))
    BY DEF Nth
  <2> HIDE DEF same
  <2>3. Cardinality(same(x)) \in Nat /\ Cardinality(same(x)) # 0
    BY <2>1, FS_CardinalityType, FS_EmptySet
  <2> QED BY <2>2, <2>3
<1>4. ASSUME NEW x \in 1 .. Len(m), NEW y \in 1 .. Len(m), x < y, m[x] = m[y]
      PROVE  Nth(m, x) < Nth(m, y)
  <2>1. same(x) \in SUBSET same(y) /\ y \notin same(x)
    BY <1>4
  <2>2. IsFiniteSet(same(x)) /\ IsFiniteSet(same(y)) /\ y \in same(y)
    BY <1>2
  <2>3. Nth(m, x) = Cardinality(same(x)) /\ Nth(m, y) = Cardinality(same(y))
    BY DEF Nth
  <2> HIDE DEF same
  <2>4. Cardinality(same(x)) <= Cardinality(same(y))
        /\ (same(x) = same(y) \/ Cardinality(same(x)) # Cardinality(same(y)))
    BY <2>1, <2>2, FS_Subset
  <2>5. Cardinality(same(x)) \in Nat /\ Cardinality(same(y)) \in Nat /\ same(x) # same(y)
    BY <2>1, <2>2, FS_CardinalityType
  <2> QED BY <2>3, <2>4, <2>5
<1> QED BY <1>3, <1>4

LEMMA MatchesFacts ==
    ASSUME NEW p \in ProxyLists, ListsOK(p), NEW f, NEW v
    PROVE  /\ Matches(p, f, v) \in Seq(Modifs) /\ NoRepeats(Matches(p, f, v))
           /\ \A i \in Range(Matches(p, f, v)) :
                 i \in Range(p.cached_modifs) /\ (i \in DOMAIN f => f[i].orig_values = v)
<1> DEFINE C == {i \in DOMAIN f : f[i].orig_values # v}
<1>1. p.cached_modifs \in Seq(Modifs) /\ NoRepeats(p.cached_modifs)
  BY ListsType DEF ListsOK
<1>2. Matches(p, f, v) = Without(p.cached_modifs, C)
  BY DEF Matches
<1>3. \A i \in DOMAIN f : i \notin C => f[i].orig_values = v
  OBVIOUS
<1> HIDE DEF C
<1>4. /\ Without(p.cached_modifs, C) \in Seq(Modifs) /\ NoRepeats(Without(p.cached_modifs, C))
      /\ Range(Without(p.cached_modifs, C)) = Range(p.cached_modifs) \ C
  BY <1>1, WithoutFacts, WithoutNoRepeats
<1> QED BY <1>2, <1>3, <1>4

LEMMA MatchFacts ==
    ASSUME NEW p \in ProxyLists, ListsOK(p), NEW f, Range(p.cached_modifs) \subseteq DOMAIN f,
           NEW S, NEW m \in Seq(S)
    PROVE  /\ \A x \in FoundRows(m, p, f) :
                 /\ x \in 1 .. Len(m)
                 /\ Match(m, p, f, x) \in Range(p.cached_modifs)
                 /\ f[Match(m, p, f, x)].orig_values = m[x]
           /\ \A x, y \in FoundRows(m, p, f) : Match(m, p, f, x) = Match(m, p, f, y) => x = y
<1>1. ASSUME NEW x \in FoundRows(m, p, f)
      PROVE  /\ x \in 1 .. Len(m) /\ Nth(m, x) \in 1 .. Len(Matches(p, f, m[x]))
             /\ Match(m, p, f, x) \in Range(p.cached_modifs)
             /\ f[Match(m, p, f, x)].orig_values = m[x]
  <2> DEFINE s == Matches(p, f, m[x])
             k == Nth(m, x)
  <2>1. x \in 1 .. Len(m) /\ k <= Len(s)
    BY DEF FoundRows
  <2>2. k \in Nat \ {0}
    BY <2>1, NthFacts
  <2>3. s \in Seq(Modifs) /\ \A i \in Range(s) :
           i \in Range(p.cached_modifs) /\ (i \in DOMAIN f => f[i].orig_values = m[x])
    BY MatchesFacts
  <2>4. Match(m, p, f, x) = s[k]
    BY DEF Match
  <2> HIDE DEF s, k
  <2>5. k \in 1 .. Len(s)
    BY <2>1, <2>2, <2>3
  <2>6. s[k] \in Range(s)
    BY <2>3, <2>5, RangeOf
  <2> QED BY <2>1, <2>3, <2>4, <2>5, <2>6 DEF s, k
<1>2. ASSUME NEW x \in FoundRows(m, p, f), NEW y \in FoundRows(m, p, f),
             Match(m, p, f, x) = Match(m, p, f, y)
      PROVE  x = y
  <2>1. x \in 1 .. Len(m) /\ y \in 1 .. Len(m) /\ m[x] = m[y]
        /\ Nth(m, x) \in 1 .. Len(Matches(p, f, m[x]))
        /\ Nth(m, y) \in 1 .. Len(Matches(p, f, m[x]))
    BY <1>1, <1>2
  <2>2. Matches(p, f, m[x])[Nth(m, x)] = Matches(p, f, m[x])[Nth(m, y)]
    BY <1>2, <2>1 DEF Match
  <2>3. NoRepeats(Matches(p, f, m[x]))
    BY MatchesFacts
  <2>4. Nth(m, x) = Nth(m, y)
    BY <2>1, <2>2, <2>3 DEF NoRepeats
  <2>5. ~(x < y) /\ ~(y < x)
    <3>1. Nth(m, x) \in Nat /\ Nth(m, y) \in Nat
      BY <2>1, NthFacts
    <3> QED BY <2>1, <2>4, <3>1, NthFacts
  <2> QED BY <2>1, <2>5
<1> QED BY <1>1, <1>2
IsFetched(m, p, f, u) ==
    /\ u.p \in ProxyLists /\ u.p.new_rows = p.cached_inserts
    /\ NoRepeats(u.p.all_modifs) /\ NoRepeats(u.p.cached_modifs) /\ u.p.cached_inserts = <<>>
    /\ Range(u.p.all_modifs) = Taken(m, p, f) \cup Range(p.cached_inserts)
    /\ Range(u.p.cached_modifs) = Range(p.cached_modifs) \ Taken(m, p, f)
    /\ \A x \in FoundRows(m, p, f) :
          x - 1 \in DOMAIN u.p.modify_rows /\ u.p.modify_rows[x - 1] = Match(m, p, f, x)
    /\ \A r \in DOMAIN u.p.modify_rows : \E x \in FoundRows(m, p, f) : r = x - 1
    /\ DOMAIN u.f = DOMAIN f
    /\ \A i \in DOMAIN f \ Taken(m, p, f) : u.f[i] = f[i]
    /\ \A x \in FoundRows(m, p, f) :
          u.f[Match(m, p, f, x)] = [f[Match(m, p, f, x)] EXCEPT !.model_row = x - 1]

LEMMA FetchedFacts ==
    ASSUME NEW p \in ProxyLists, ListsOK(p), NEW f,
           Range(p.cached_modifs) \subseteq DOMAIN f,
           NEW m \in Seq(Content), Len(m) <= MaxRows
    PROVE  IsFetched(m, p, f, Fetched(m, p, f))
<1> DEFINE found == FoundRows(m, p, f)
           at(x) == Match(m, p, f, x)
           taken == Taken(m, p, f)
           id == [x \in DOMAIN m |-> x]
           rows == Without(id, DOMAIN m \ found)
           picked == [k \in DOMAIN rows |-> at(rows[k])]
           of(i) == CHOOSE x \in found : at(x) = i
           t == [r \in {x - 1 : x \in found} |-> at(r + 1)]
           all == Reverse(picked) \o Reverse(p.cached_inserts)
           cm == Without(p.cached_modifs, taken)
           q == [all_modifs |-> all, new_rows |-> p.cached_inserts, modify_rows |-> t,
                 cached_modifs |-> cm, cached_inserts |-> <<>>]
           g == [i \in DOMAIN f |-> IF i \in taken THEN [f[i] EXCEPT !.model_row = of(i) - 1]
                                    ELSE f[i]]
           u == Fetched(m, p, f)
<1>1. u = [p |-> q, f |-> g]
  BY DEF Fetched, FoundRows, Match, Taken
<1>2. u.p = q /\ u.f = g
  BY <1>1
<1> HIDE DEF u
<1>3. /\ \A x \in found : /\ x \in 1 .. Len(m) /\ at(x) \in Range(p.cached_modifs)
                          /\ at(x) \in DOMAIN f
      /\ \A x, y \in found : at(x) = at(y) => x = y
  BY MatchFacts
<1>4. /\ p.cached_modifs \in Seq(Modifs) /\ p.cached_inserts \in Seq(Modifs)
      /\ NoRepeats(p.cached_modifs) /\ NoRepeats(p.cached_inserts)
      /\ Range(p.cached_modifs) \cap Range(p.cached_inserts) = {}
  BY ListsType DEF ListsOK
<1>5. Range(p.cached_modifs) \subseteq Modifs
  BY <1>4, RangeOf
<1>6. \A x \in found : at(x) \in Modifs
  BY <1>3, <1>5
<1>7. \A i : i \in taken <=> \E x \in found : i = at(x)
  BY DEF Taken
<1>8. Len(m) \in Nat /\ DOMAIN m = 1 .. Len(m) /\ MaxRows \in Nat
  BY BoundsAssumption
<1> HIDE DEF found, at, taken
<1>9. rows \in Seq(1 .. Len(m)) /\ NoRepeats(rows) /\ Range(rows) = found
  <2>1. id \in Seq(1 .. Len(m)) /\ Range(id) = 1 .. Len(m) /\ NoRepeats(id)
    BY <1>8 DEF Range, NoRepeats
  <2> HIDE DEF id
  <2>2. rows \in Seq(1 .. Len(m)) /\ Range(rows) = Range(id) \ (DOMAIN m \ found)
    BY <2>1, WithoutFacts
  <2>3. NoRepeats(rows)
    BY <2>1, WithoutNoRepeats
  <2> HIDE DEF rows
  <2> QED BY <1>3, <1>8, <2>1, <2>2, <2>3
<1> HIDE DEF rows
<1>10. picked \in Seq(Modifs) /\ NoRepeats(picked) /\ Range(picked) = taken
  <2>1. Len(rows) \in Nat /\ DOMAIN rows = 1 .. Len(rows)
        /\ \A k \in 1 .. Len(rows) : rows[k] \in found
    BY <1>9 DEF Range
  <2>2. picked = [k \in 1 .. Len(rows) |-> at(rows[k])]
    BY <2>1
  <2> HIDE DEF picked
  <2>3. picked \in Seq(Modifs) /\ Len(picked) = Len(rows) /\ DOMAIN picked = 1 .. Len(rows)
    BY <1>6, <2>1, <2>2
  <2>4. NoRepeats(picked)
    <3> SUFFICES ASSUME NEW k \in 1 .. Len(rows), NEW l \in 1 .. Len(rows),
                        picked[k] = picked[l]
        PROVE k = l
      BY <2>3 DEF NoRepeats
    <3>1. rows[k] = rows[l]
      BY <1>3, <2>1, <2>2
    <3> QED BY <1>9, <3>1 DEF NoRepeats
  <2>5. \A i \in Range(picked) : i \in taken
    BY <1>7, <2>1, <2>2, <2>3 DEF Range
  <2>6. \A i \in taken : i \in Range(picked)
    <3> TAKE i \in taken
    <3>1. PICK x \in found : i = at(x)
      BY <1>7
    <3>2. PICK k \in 1 .. Len(rows) : rows[k] = x
      BY <1>9, RangeOf
    <3> QED BY <2>2, <2>3, <3>1, <3>2 DEF Range
  <2> QED BY <2>3, <2>4, <2>5, <2>6
<1> HIDE DEF picked
<1>11. taken \subseteq Range(p.cached_modifs)
  BY <1>3, <1>7
<1>12. /\ all \in Seq(Modifs) /\ NoRepeats(all)
       /\ Range(all) = taken \cup Range(p.cached_inserts)
  <2> DEFINE a == Reverse(picked)
             b == Reverse(p.cached_inserts)
  <2>1. a \in Seq(Modifs) /\ NoRepeats(a) /\ Range(a) = taken
    BY <1>10, ReverseFacts
  <2>2. b \in Seq(Modifs) /\ NoRepeats(b) /\ Range(b) = Range(p.cached_inserts)
    BY <1>4, ReverseFacts
  <2> HIDE DEF a, b
  <2>3. Range(a) \cap Range(b) = {}
    BY <1>4, <1>11, <2>1, <2>2
  <2>4. a \o b \in Seq(Modifs) /\ NoRepeats(a \o b) /\ Range(a \o b) = Range(a) \cup Range(b)
    BY <2>1, <2>2, <2>3, ConcatFacts
  <2> QED BY <2>1, <2>2, <2>4 DEF a, b
<1>13. cm \in Seq(Modifs) /\ NoRepeats(cm) /\ Range(cm) = Range(p.cached_modifs) \ taken
  BY <1>4, WithoutFacts, WithoutNoRepeats
<1>14. /\ t \in Partial(0 .. MaxRows, Modifs)
       /\ \A x \in found : x - 1 \in DOMAIN t /\ t[x - 1] = at(x)
       /\ \A r \in DOMAIN t : \E x \in found : r = x - 1
  <2> DEFINE D == {x - 1 : x \in found}
  <2>1. \A x \in found : x \in Int /\ (x - 1) + 1 = x /\ x - 1 \in 0 .. MaxRows
    BY <1>3, <1>8
  <2>2. \A r \in D : \E x \in found : r = x - 1
    OBVIOUS
  <2>3. D \in SUBSET (0 .. MaxRows) /\ \A r \in D : r + 1 \in found
    BY <2>1
  <2>4. t \in [D -> Modifs]
    BY <1>6, <2>3
  <2>5. \A x \in found : x - 1 \in D /\ t[x - 1] = at(x)
    BY <2>1
  <2>6. DOMAIN t = D
    OBVIOUS
  <2> HIDE DEF t, D
  <2> QED BY <2>2, <2>3, <2>4, <2>5, <2>6, PartialIs
<1>15. \A x \in found : of(at(x)) = x
  BY <1>3
<1>16. /\ DOMAIN g = DOMAIN f
       /\ \A i \in DOMAIN f \ taken : g[i] = f[i]
       /\ \A x \in found : g[at(x)] = [f[at(x)] EXCEPT !.model_row = x - 1]
  <2> HIDE DEF of
  <2> QED BY <1>3, <1>7, <1>15
<1> HIDE DEF all, cm, t, g, of
<1>17. /\ q.all_modifs = all /\ q.new_rows = p.cached_inserts /\ q.modify_rows = t
       /\ q.cached_modifs = cm /\ q.cached_inserts = <<>>
  OBVIOUS
<1>18. q \in ProxyLists
  BY <1>4, <1>12, <1>13, <1>14, NothingFacts DEF ProxyLists, Partial
<1> HIDE DEF q
<1>19. IsFetched(m, p, f, u)
  BY <1>2, <1>12, <1>13, <1>14, <1>16, <1>17, <1>18 DEF IsFetched, found, at, taken
<1> QED BY <1>19 DEF u

LEMMA FetchedKeeps ==
    ASSUME NEW n, NEW p, NEW f, OK(n, p, f), p.all_modifs = <<>>,
           NEW m \in Seq(Content), Len(m) <= MaxRows
    PROVE  LET u == Fetched(m, p, f) IN
           /\ OK(m, u.p, u.f) /\ OnRows(m, u.p, u.f)
           /\ Valued(f) => Valued(u.f)
<1> DEFINE u == Fetched(m, p, f)
           found == FoundRows(m, p, f)
           at(x) == Match(m, p, f, x)
           taken == Taken(m, p, f)
           q == u.p
           g == u.f
<1>1. /\ p \in ProxyLists /\ f \in RowModifs /\ ListsOK(p) /\ RecordsOK(p, f)
      /\ PlacesOK(n, p, f)
  BY DEF OK
<1>2. /\ Range(p.all_modifs) = {} /\ Range(p.cached_modifs) \subseteq DOMAIN f
      /\ Range(p.cached_inserts) \subseteq DOMAIN f
      /\ DOMAIN f = Range(p.cached_modifs) \cup Range(p.cached_inserts)
  BY <1>1, NothingFacts DEF RecordsOK
<1>3. IsFetched(m, p, f, u)
  BY <1>1, <1>2, FetchedFacts
<1>4. /\ q \in ProxyLists /\ q.new_rows = p.cached_inserts
      /\ NoRepeats(q.all_modifs) /\ NoRepeats(q.cached_modifs) /\ q.cached_inserts = <<>>
      /\ Range(q.all_modifs) = taken \cup Range(p.cached_inserts)
      /\ Range(q.cached_modifs) = Range(p.cached_modifs) \ taken
      /\ \A x \in found : x - 1 \in DOMAIN q.modify_rows /\ q.modify_rows[x - 1] = at(x)
      /\ \A r \in DOMAIN q.modify_rows : \E x \in found : r = x - 1
      /\ DOMAIN g = DOMAIN f
      /\ \A i \in DOMAIN f \ taken : g[i] = f[i]
      /\ \A x \in found : g[at(x)] = [f[at(x)] EXCEPT !.model_row = x - 1]
  <2> HIDE DEF u
  <2> QED BY <1>3 DEF IsFetched
<1>5. /\ \A x \in found : /\ x \in 1 .. Len(m) /\ at(x) \in Range(p.cached_modifs)
                          /\ f[at(x)].orig_values = m[x]
      /\ \A i : i \in taken <=> \E x \in found : i = at(x)
  BY <1>1, <1>2, MatchFacts DEF Taken
<1>6. Len(m) \in Nat /\ MaxRows \in Nat
  BY BoundsAssumption
<1> HIDE DEF u, found, at, taken, q, g
<1>7. \A x \in found :
         /\ at(x) \in DOMAIN f /\ g[at(x)] \in RowModif /\ g[at(x)].model_row = x - 1
         /\ x - 1 >= 0 /\ x - 1 < Len(m) /\ x - 1 # -1 /\ (x - 1) + 1 = x
         /\ g[at(x)].to_be_deleted = f[at(x)].to_be_deleted
         /\ g[at(x)].modify_values = f[at(x)].modify_values
         /\ g[at(x)].orig_values = m[x]
  <2> TAKE x \in found
  <2> DEFINE rm == f[at(x)]
             new == g[at(x)]
             k == x - 1
  <2>1. at(x) \in DOMAIN f /\ rm \in RowModif /\ rm.orig_values = m[x]
    BY <1>1, <1>2, <1>5 DEF RecordsOK, RecordOK
  <2>2. k >= 0 /\ k < Len(m) /\ k # -1 /\ k + 1 = x /\ k \in -1 .. MaxRows
    BY <1>5, <1>6
  <2>3. new = [rm EXCEPT !.model_row = k]
    BY <1>4
  <2> HIDE DEF rm, new, k
  <2>4. /\ new.to_be_deleted = rm.to_be_deleted /\ new.modify_values = rm.modify_values
        /\ new.orig_values = rm.orig_values /\ new \in RowModif /\ new.model_row = k
    BY ONLY <2>1, <2>2, <2>3 DEF RowModif
  <2> QED BY <2>1, <2>2, <2>4 DEF rm, new, k
<1>8. \A i \in DOMAIN f : i \in taken \/ g[i] = f[i]
  BY <1>4
<1>9. \A i \in DOMAIN f : g[i] \in RowModif
  BY <1>1, <1>5, <1>7, <1>8 DEF RecordsOK, RecordOK
<1>10. g \in RowModifs
  <2>1. g \in [DOMAIN f -> RowModif]
    <3>1. g = [i \in DOMAIN g |-> g[i]]
      BY DEF g, u, Fetched
    <3> QED BY <1>4, <1>9, <3>1
  <2>2. DOMAIN f \in SUBSET Modifs
    BY <1>1 DEF RowModifs
  <2> QED BY <2>1, <2>2, PartialIs, ModifsType
<1>11. ListsOK(q)
  <2>1. Range(p.cached_modifs) \cap Range(p.cached_inserts) = {} /\ NoRepeats(p.cached_inserts)
    BY <1>1 DEF ListsOK
  <2>2. Range(q.cached_inserts) = {} /\ NoRepeats(q.cached_inserts)
    BY <1>4, NothingFacts
  <2>3. Range(q.all_modifs) \cap Range(q.cached_modifs) = {}
    BY <1>4, <2>1
  <2> QED BY <1>4, <2>1, <2>2, <2>3 DEF ListsOK
<1>12. taken \subseteq Range(p.cached_modifs)
  BY <1>5
<1>13. RecordsOK(q, g)
  <2>1. DOMAIN g = Range(q.all_modifs) \cup Range(q.cached_modifs) \cup Range(q.cached_inserts)
    BY <1>2, <1>4, <1>12, NothingFacts
  <2>2. \A x \in found : RecordOK(g[at(x)])
    <3> TAKE x \in found
    <3>1. RecordOK(f[at(x)])
      BY <1>1, <1>7 DEF RecordsOK
    <3> QED BY <1>7, <3>1 DEF RecordOK
  <2>3. \A i \in DOMAIN f : RecordOK(g[i])
    BY <1>1, <1>5, <1>8, <2>2 DEF RecordsOK
  <2> QED BY <1>4, <2>1, <2>3 DEF RecordsOK
<1>14. TableOK(q, g)
  <2> SUFFICES ASSUME NEW r \in DOMAIN q.modify_rows
      PROVE q.modify_rows[r] \in Range(q.all_modifs) /\ g[q.modify_rows[r]].model_row = r
    BY DEF TableOK
  <2>1. PICK x \in found : r = x - 1
    BY <1>4
  <2>2. q.modify_rows[r] = at(x) /\ at(x) \in Range(q.all_modifs)
    BY <1>4, <1>5, <2>1
  <2> QED BY <1>7, <2>1, <2>2
<1>15. \A i \in Range(p.cached_inserts) : g[i] = f[i] /\ f[i].model_row = -1 /\ i \notin taken
  BY <1>1, <1>2, <1>4, <1>12 DEF ListsOK, PlacesOK
<1>16. PlacesOK(m, q, g)
  <2>1. \A i \in taken : g[i].model_row <= Len(m) /\ g[i].model_row # -1
                         /\ i \notin Range(q.new_rows)
    <3> TAKE i \in taken
    <3>1. PICK x \in found : i = at(x)
      BY <1>5
    <3>2. i \notin Range(q.new_rows)
      BY <1>4, <1>15
    <3>3. g[i].model_row = x - 1 /\ x - 1 \in Int
      BY <1>5, <1>7, <3>1
    <3> QED BY <1>6, <1>7, <3>2, <3>3
  <2>2. \A i \in Range(q.cached_modifs) : g[i].model_row # -1
    BY <1>1, <1>2, <1>4, <1>8 DEF PlacesOK
  <2>3. Range(q.cached_inserts) = {} /\ -1 <= Len(m)
    BY <1>4, <1>6, NothingFacts
  <2> QED BY <1>4, <1>15, <2>1, <2>2, <2>3 DEF PlacesOK
<1>17. OnRows(m, q, g)
  <2> SUFFICES ASSUME NEW i \in Range(q.all_modifs), g[i].model_row >= 0
      PROVE OnRow(m, q, g[i], i)
    BY DEF OnRows
  <2>1. i \in taken
    BY <1>4, <1>15
  <2>2. PICK x \in found : i = at(x)
    BY <1>5, <2>1
  <2> QED BY <1>4, <1>7, <2>2 DEF OnRow
<1>18. Valued(f) => Valued(g)
  BY <1>4, <1>5, <1>7, <1>8 DEF Valued, HasSome
<1>19. OK(m, q, g)
  BY <1>4, <1>10, <1>11, <1>13, <1>14, <1>16 DEF OK
<1> QED BY <1>17, <1>18, <1>19 DEF q, g, u

LEMMA NothingIsOK ==
    ASSUME NEW m \in Seq(Content), Len(m) <= MaxRows
    PROVE  OK(m, Nothing, Empty) /\ Valued(Empty) /\ OnRows(m, Nothing, Empty)
<1> DEFINE q == Nothing
<1>1. q = [all_modifs |-> <<>>, new_rows |-> <<>>, modify_rows |-> Empty,
           cached_modifs |-> <<>>, cached_inserts |-> <<>>]
  BY DEF Nothing
<1> HIDE DEF q
<1>2. /\ q.all_modifs = <<>> /\ q.new_rows = <<>> /\ q.modify_rows = Empty
      /\ q.cached_modifs = <<>> /\ q.cached_inserts = <<>>
  BY ONLY <1>1
<1>3. q \in ProxyLists
  BY <1>1, NothingFacts DEF ProxyLists, Partial
<1>4. ListsOK(q) /\ RecordsOK(q, Empty) /\ TableOK(q, Empty) /\ PlacesOK(m, q, Empty)
  BY <1>2, NothingFacts DEF ListsOK, RecordsOK, TableOK, PlacesOK
<1>5. Valued(Empty) /\ OnRows(m, q, Empty)
  BY <1>2, NothingFacts DEF Valued, OnRows
<1> QED BY <1>3, <1>4, <1>5, NothingFacts DEF OK, q

LEMMA ResetKeeps ==
    ASSUME IInv, NEW m \in Models, NEW p, NEW f, OK(model, p, f), p.all_modifs = <<>>,
           Valued(modif) => Valued(f), NEW u, u = Fetched(m, p, f),
           Len(m) + Len(u.p.new_rows) <= MaxRows,
           model' = m, proxy' = u.p, modif' = u.f
    PROVE  StepKeeps
<1>1. m \in Seq(Content) /\ Len(m) <= MaxRows
  BY ModelsAssumption
<1>2. OK(m, u.p, u.f) /\ OnRows(m, u.p, u.f) /\ (Valued(f) => Valued(u.f))
  BY <1>1, FetchedKeeps
<1> QED BY <1>2 DEF StepKeeps, StaysOnRows, IInv, NRows

LEMMA ModelResetKeeps ==
    ASSUME IInv, NEW m \in Models, ModelReset(m)
    PROVE  StepKeeps
<1> DEFINE p == Uncached(proxy)
           f == Cancelled
           u == Fetched(m, p, f)
<1>1. /\ Len(m) + Len(proxy.cached_inserts) <= MaxRows
      /\ model' = m /\ proxy' = u.p /\ modif' = u.f
  BY DEF ModelReset, Commits, Becomes, Uncached
<1>2. OK(model, proxy, modif) /\ proxy \in ProxyLists
  BY DEF IInv, OK
<1>3. IsUncached(proxy, p)
  BY <1>2, UncachedFacts
<1>4. f = Removed(proxy, modif)
  BY DEF Cancelled, Removed
<1>5. Keeps(model, proxy, modif, model, p, f)
  BY <1>2, <1>3, <1>4, RemovedKeeps
<1>6. p.all_modifs = <<>> /\ p.cached_inserts = proxy.cached_inserts
  BY <1>3 DEF IsUncached
<1>7. u.p.new_rows = p.cached_inserts
  BY DEF Fetched
<1> HIDE DEF p, f
<1>8. OK(model, p, f) /\ (Valued(modif) => Valued(f))
  BY <1>5 DEF Keeps
<1> HIDE DEF u
<1>9. Len(m) + Len(u.p.new_rows) <= MaxRows /\ u = Fetched(m, p, f)
  BY <1>1, <1>6, <1>7 DEF u
<1> QED BY <1>1, <1>6, <1>8, <1>9, ResetKeeps

LEMMA SetModelKeeps ==
    ASSUME IInv, NEW m \in Models, NEW cache_changes \in BOOLEAN, SetModel(m, cache_changes)
    PROVE  StepKeeps
<1>1. m \in Seq(Content) /\ Len(m) <= MaxRows
  BY ModelsAssumption
<1>2. CASE cache_changes
  <2> DEFINE p == Migrated
             f == modif
             u == Fetched(m, p, f)
  <2>1. /\ Len(m) + Len(u.p.new_rows) <= MaxRows
        /\ model' = m /\ proxy' = u.p /\ modif' = u.f
    BY <1>2 DEF SetModel, Commits, Becomes
  <2>2. OK(model, p, f) /\ p.all_modifs = <<>>
    BY MigratedKeeps DEF IInv
  <2> HIDE DEF p
  <2>3. u = Fetched(m, p, f)
    OBVIOUS
  <2> HIDE DEF u
  <2> QED BY <2>1, <2>2, <2>3, ResetKeeps
<1>3. CASE ~cache_changes
  <2>1. /\ model' = m /\ proxy' = Nothing /\ modif' = Empty
        /\ Len(m) + Len(Nothing.new_rows) <= MaxRows
    BY <1>3 DEF SetModel, Commits, Becomes, CacheCleaned
  <2>2. OK(m, Nothing, Empty) /\ Valued(Empty) /\ OnRows(m, Nothing, Empty)
    BY <1>1, NothingIsOK
  <2>3. OK(model', proxy', modif') /\ Valued(modif') /\ OnRows(model', proxy', modif')
    BY <2>1, <2>2
  <2>4. NRows(model', proxy') <= MaxRows
    BY <2>1 DEF NRows
  <2> QED BY <2>3, <2>4 DEF StepKeeps, StaysOnRows, IInv
<1> QED BY <1>2, <1>3

-----------------------------------------------------------------------------
LEMMA UnchangedKeeps ==
    ASSUME IInv, UNCHANGED <<model, proxy, modif>>
    PROVE  StepKeeps
  BY DEF IInv, StepKeeps, StaysOnRows

(* A step keeps the invariant, and, but for those named, what ModifsKeep   *)
(* says.                                                                   *)
AlteredUnchanged == \E r \in 0 .. Len(model) - 1, c \in Cols :
    r \notin DOMAIN proxy.modify_rows /\ AlterUnchanged(r, c)

LEMMA NextKeeps ==
    ASSUME IInv, [Next]_vars
    PROVE  /\ IInv' /\ StaysOnRows
           /\ Valued(modif) => Valued(modif') \/ AlteredUnchanged
<1>1. StepKeeps => /\ IInv' /\ StaysOnRows
                   /\ Valued(modif) => Valued(modif') \/ AlteredUnchanged
  BY DEF StepKeeps
<1>2. ASSUME NEW r \in 0 .. NRows(model, proxy) - 1, NEW c \in Cols, AlterUnchanged(r, c)
      PROVE  /\ IInv' /\ StaysOnRows
             /\ Valued(modif) => Valued(modif') \/ AlteredUnchanged
  BY <1>2, AlterUnchangedKeeps DEF AlteredUnchanged
<1>3. ASSUME NEW r \in 0 .. NRows(model, proxy) - 1, Row(r)
      PROVE  StepKeeps \/ \E c \in Cols : AlterUnchanged(r, c)
  <2>1. CASE \E c \in Cols : \E v \in Domain[c] \cup {Null} : SetValue(r, c, v)
    BY <2>1, SetValueKeeps
  <2>2. CASE \E c \in Cols : AlterDefault(r, c)
    BY <2>2, AlterDefaultKeeps
  <2>3. CASE (\E c \in Cols : CancelRow(r, {c})) \/ CancelRow(r, Cols)
    BY <2>3, CancelRowKeeps
  <2>4. CASE Delete(r)
    BY <2>4, DeleteKeeps
  <2>5. CASE Undelete(r)
    BY <2>5, UndeleteKeeps
  <2>6. CASE ApplyRow(r)
    BY <2>6, ApplyRowKeeps
  <2> QED BY <1>3, <2>1, <2>2, <2>3, <2>4, <2>5, <2>6 DEF Row
<1>4. CASE \E r \in 0 .. NRows(model, proxy) - 1 : Row(r)
  BY <1>1, <1>2, <1>3, <1>4
<1>5. CASE \E i \in Fresh : AppendRow(i)
  BY <1>1, <1>5, AppendRowKeeps
<1>6. CASE CancelAll
  BY <1>1, <1>6, CancelAllKeeps
<1>7. CASE ApplyNext
  BY <1>1, <1>7, ApplyNextKeeps
<1>8. CASE ApplyAll \/ ApplyRefused \/ ApplyEnds \/ UNCHANGED vars
  <2>1. UNCHANGED <<model, proxy, modif>>
    BY <1>8 DEF ApplyAll, ApplyRefused, ApplyEnds, vars
  <2> QED BY <1>1, <2>1, UnchangedKeeps
<1>9. CASE Model
  <2>1. (\E r \in 0 .. Len(model), v \in Content : ModelInserts(r, v)) => StepKeeps
    BY ModelInsertsKeeps
  <2>2. (\E r \in 0 .. Len(model), c \in Cols : \E v \in Domain[c] \cup {Null} :
            ModelUpdates(r, c, v)) => StepKeeps
    BY ModelUpdatesKeeps
  <2>3. (\E r \in 0 .. Len(model) : ModelRemoves(r)) => StepKeeps
    BY ModelRemovesKeeps
  <2>4. (\E m \in Models : ModelReset(m) \/ SetModel(m, TRUE) \/ SetModel(m, FALSE))
        => StepKeeps
    BY ModelResetKeeps, SetModelKeeps
  <2>5. StepKeeps
    BY <1>9, <2>1, <2>2, <2>3, <2>4 DEF Model
  <2> QED BY <1>1, <2>5
<1> QED BY <1>4, <1>5, <1>6, <1>7, <1>8, <1>9 DEF Next

LEMMA InitKeeps == Init => IInv
<1> SUFFICES ASSUME Init PROVE IInv
  OBVIOUS
<1>1. model \in Seq(Content) /\ Len(model) <= MaxRows
  BY ModelsAssumption DEF Init
<1>2. OK(model, Nothing, Empty)
  BY <1>1, NothingIsOK
<1>3. Len(Nothing.new_rows) = 0
  BY DEF Nothing
<1> QED BY <1>1, <1>2, <1>3 DEF Init, IInv, NRows

(* What the properties say of the state is what OK and OnRows do.          *)
LEMMA DisjointCardinality ==
    ASSUME NEW S, NEW T, IsFiniteSet(S), IsFiniteSet(T), S \cap T = {}
    PROVE  IsFiniteSet(S \cup T) /\ Cardinality(S \cup T) = Cardinality(S) + Cardinality(T)
<1>1. Cardinality(S) \in Nat /\ Cardinality(T) \in Nat /\ Cardinality(S \cap T) = 0
  BY FS_CardinalityType, FS_EmptySet
<1>2. /\ IsFiniteSet(S \cup T)
      /\ Cardinality(S \cup T) = Cardinality(S) + Cardinality(T) - Cardinality(S \cap T)
  BY FS_Union
<1> QED BY <1>1, <1>2

LEMMA IInvIsSound ==
    ASSUME IInv
    PROVE  ModifsSound
<1>1. /\ model \in Seq(Content) /\ Len(model) <= MaxRows /\ proxy \in ProxyLists
      /\ modif \in RowModifs /\ ListsOK(proxy) /\ RecordsOK(proxy, modif)
      /\ TableOK(proxy, modif) /\ PlacesOK(model, proxy, modif)
  BY DEF IInv, OK
<1>2. TypeOK
  <2>1. DOMAIN modif \subseteq Modifs /\ \A i \in DOMAIN modif : modif[i] \in RowModif
    BY <1>1 DEF RowModifs
  <2>2. /\ DOMAIN proxy.modify_rows \subseteq 0 .. MaxRows
        /\ \A r \in DOMAIN proxy.modify_rows : proxy.modify_rows[r] \in Modifs
    <3>1. /\ DOMAIN proxy.modify_rows \in SUBSET (0 .. MaxRows)
          /\ proxy.modify_rows \in [DOMAIN proxy.modify_rows -> Modifs]
      BY <1>1, ListsType, PartialFacts
    <3> QED BY <3>1
  <2> QED BY <1>1, <2>1, <2>2, ListsType DEF TypeOK
<1>3. Len(proxy.all_modifs) + Len(proxy.cached_modifs) + Len(proxy.cached_inserts)
      = Cardinality(DOMAIN modif)
  <2> DEFINE a == Range(proxy.all_modifs)
             b == Range(proxy.cached_modifs)
             c == Range(proxy.cached_inserts)
  <2>1. /\ IsFiniteSet(a) /\ Cardinality(a) = Len(proxy.all_modifs)
        /\ IsFiniteSet(b) /\ Cardinality(b) = Len(proxy.cached_modifs)
        /\ IsFiniteSet(c) /\ Cardinality(c) = Len(proxy.cached_inserts)
    BY <1>1, ListsType, LenIsCardinality DEF ListsOK
  <2>2. a \cap b = {} /\ (a \cup b) \cap c = {} /\ DOMAIN modif = (a \cup b) \cup c
    BY <1>1 DEF ListsOK, RecordsOK
  <2> HIDE DEF a, b, c
  <2>3. IsFiniteSet(a \cup b) /\ Cardinality(a \cup b) = Cardinality(a) + Cardinality(b)
    BY <2>1, <2>2, DisjointCardinality
  <2>4. Cardinality((a \cup b) \cup c) = Cardinality(a \cup b) + Cardinality(c)
    BY <2>1, <2>2, <2>3, DisjointCardinality
  <2> QED BY <2>1, <2>2, <2>3, <2>4
<1>4. NothingDangles
  <2>1. \A r \in DOMAIN proxy.modify_rows :
           proxy.modify_rows[r] \in Listed /\ modif[proxy.modify_rows[r]].model_row = r
    BY <1>1 DEF TableOK, Listed
  <2>2. \A i \in Range(proxy.new_rows) : i \in Listed /\ modif[i].model_row = -1
    BY <1>1 DEF PlacesOK, ListsOK, Listed
  <2>3. DOMAIN modif =
           Listed \cup Range(proxy.cached_modifs) \cup Range(proxy.cached_inserts)
    BY <1>1 DEF RecordsOK, Listed
  <2> QED BY <1>3, <2>1, <2>2, <2>3 DEF NothingDangles
<1>5. NewRowHasValues
  BY <1>1 DEF NewRowHasValues, RecordsOK, RecordOK
<1> QED BY <1>2, <1>4, <1>5 DEF ModifsSound

LEMMA SoundIsOnRows ==
    /\ Sound <=> OnRows(model, proxy, modif)
    /\ Sound' <=> OnRows(model', proxy', modif')
    /\ HasValues <=> Valued(modif)
    /\ HasValues' <=> Valued(modif')
  BY DEF Sound, AllIndexed, Indexed, OnItsRow, Listed, OnRows, OnRow, HasValues, Valued, HasSome

(* The inductive invariant: the lists, the table and the RowModifs go      *)
(* together, and there are no more rows than the bound.                    *)
THEOREM ProxyInvariance == Spec => []IInv
<1>1. IInv /\ [Next]_vars => IInv'
  BY NextKeeps
<1> QED BY <1>1, InitKeeps, PTL DEF Spec

(* The lists of changes of the proxy are consistent with each other and    *)
(* with the model, whatever is called and whatever the model signals: no   *)
(* RowModif that was freed is found, none is in two lists or in none, and  *)
(* a new row has values and is not to be deleted.                          *)
THEOREM ModifsAreSound == Spec => []ModifsSound
<1>1. IInv => ModifsSound
  BY IInvIsSound
<1> QED BY <1>1, ProxyInvariance, PTL

(* But for the steps it names, a RowModif stays with its row and with what *)
(* the row was, the table finds it, and it has something to apply.         *)
THEOREM ModifsAreKept == Spec => ModifsKeep
<1>1. IInv /\ [Next]_vars =>
         [HasValues => HasValues' \/ \E r \in 0 .. Len(model) - 1, c \in Cols :
             r \notin DOMAIN proxy.modify_rows /\ AlterUnchanged(r, c)]_vars
  BY NextKeeps, SoundIsOnRows DEF AlteredUnchanged
<1>2. IInv /\ [Next]_vars => [Sound => Sound' \/ InsertedAtModified \/ Displaces]_vars
  BY NextKeeps, SoundIsOnRows DEF StaysOnRows
<1>3. Spec => HasValuesUnless
  BY <1>1, ProxyInvariance, PTL DEF Spec, HasValuesUnless
<1>4. Spec => StaysSound
  BY <1>2, ProxyInvariance, PTL DEF Spec, StaysSound
<1> QED BY <1>3, <1>4 DEF ModifsKeep
=============================================================================
