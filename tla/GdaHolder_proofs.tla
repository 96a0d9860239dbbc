---------------------------- MODULE GdaHolder_proofs ----------------------------
(***************************************************************************)
(* Proofs about value holders, for any holders, values and bindings.       *)
(*                                                                         *)
(* What a holder gives as its value, and whether it contradicts itself,    *)
(* depends on one record, its own or that of the holder it is an alias of  *)
(* (Val, Bad).  For each action there are lemmas about what it makes of    *)
(* the records (Changes, Keeps), whether those it changes are told (Loud)  *)
(* and whether they stay sound (Sound); the properties follow from these.  *)
(* The inductive invariant adds to the types that every handler still to   *)
(* be called is one of the emitter's, and to Follows what is true of a     *)
(* bound holder while some are still to be called (Waits).                 *)
(***************************************************************************)
EXTENDS GdaHolder, TLAPS

(* A record's own value and validity, and whether it contradicts itself.   *)
Val(r) ==
    IF ~r.valid THEN NONE
    ELSE IF r.default_forced THEN IF r.default_value \in Values THEN r.default_value ELSE NONE
    ELSE r.value
Ok(r) ==
    ~r.invalid_forced /\ (IF r.default_forced THEN r.default_value # NONE ELSE r.valid)
Bad(r) ==
    \/ Ok(r) /\ r.not_null /\ Val(r) \in Nothing
    \/ Ok(r) /\ r.default_forced /\ r.default_value \in Values /\ Val(r) # r.default_value
    \/ ~Ok(r) /\ Val(r) # NONE
    \/ ~r.valid /\ r.value # Null
Holds(r) ==
    /\ r.default_forced => r.default_value # NONE
    /\ r.full_bind # NONE => r.value = Null

(* What a function makes of the record.                                    *)
Stored(r, v) ==
    [r EXCEPT !.invalid_forced = FALSE, !.valid = Accepts(r, v),
              !.default_forced = IsDefault(r, v),
              !.value = IF r.full_bind = NONE /\ v \in Values THEN v ELSE Null]
Unchanged(r) == [r EXCEPT !.invalid_forced = FALSE, !.valid = TRUE]
StoredStatic(r, v) ==
    [r EXCEPT !.invalid_forced = FALSE, !.valid = Accepts(r, v),
              !.is_freeable = FALSE, !.default_forced = IsDefault(r, v),
              !.value = IF r.full_bind = NONE /\ v \in Values THEN v ELSE Null]

Given == Values \cup {Null, Other, NONE}
Rest(r, q) == \* q differs from r in its value only
    /\ q.default_value = r.default_value /\ q.not_null = r.not_null
    /\ q.simple_bind = r.simple_bind /\ q.full_bind = r.full_bind

-----------------------------------------------------------------------------
(* One record.                                                             *)
LEMMA Fields ==
    ASSUME NEW r \in Private
    PROVE  /\ r.value \in Values \cup {Null}
           /\ r.default_value \in Values \cup {Null, Other, NONE}
           /\ r.valid \in BOOLEAN /\ r.invalid_forced \in BOOLEAN
           /\ r.default_forced \in BOOLEAN /\ r.is_freeable \in BOOLEAN
           /\ r.not_null \in BOOLEAN
           /\ r.simple_bind \in Holders \cup {NONE} /\ r.full_bind \in Holders \cup {NONE}
  BY DEF Private

LEMMA SameFacts ==
    /\ \A v : Same(v, v)
    /\ \A v, w : Same(v, w) => Same(w, v)
    /\ \A u, v, w : Same(u, v) /\ Same(v, w) => Same(u, w)
  BY DEF Same

LEMMA SetFields ==
    ASSUME NEW r \in Private, NEW a \in BOOLEAN, NEW d \in BOOLEAN, NEW x \in Values \cup {Null}
    PROVE  /\ [r EXCEPT !.invalid_forced = FALSE, !.valid = a,
                         !.default_forced = d, !.value = x] \in Private
           /\ [r EXCEPT !.invalid_forced = FALSE, !.valid = a, !.is_freeable = FALSE,
                         !.default_forced = d, !.value = x] \in Private
  BY DEF Private

LEMMA StoredFields ==
    ASSUME NEW r \in Private, NEW v \in Given
    PROVE  LET q == Stored(r, v) IN
           /\ q \in Private /\ Rest(r, q)
           /\ ~q.invalid_forced /\ (q.valid <=> Accepts(r, v))
           /\ (q.default_forced <=> IsDefault(r, v))
           /\ q.value = IF r.full_bind = NONE /\ v \in Values THEN v ELSE Null
<1>1. Accepts(r, v) \in BOOLEAN /\ IsDefault(r, v) \in BOOLEAN
  BY DEF Accepts, IsDefault
<1>2. (IF r.full_bind = NONE /\ v \in Values THEN v ELSE Null) \in Values \cup {Null}
  OBVIOUS
<1> DEFINE a == Accepts(r, v)
           d == IsDefault(r, v)
           x == IF r.full_bind = NONE /\ v \in Values THEN v ELSE Null
           q == Stored(r, v)
<1> HIDE DEF a, d, x
<1>3. a \in BOOLEAN /\ d \in BOOLEAN /\ x \in Values \cup {Null}
  BY <1>1, <1>2 DEF a, d, x
<1>4. q \in Private
  BY <1>3, SetFields DEF Stored, a, d, x
<1>5. Rest(r, q) /\ ~q.invalid_forced /\ q.value = x
  BY DEF Stored, Private, Rest, x
<1>6. (q.valid <=> a) /\ (q.default_forced <=> d)
  BY DEF Stored, Private, a, d
<1> QED BY <1>4, <1>5, <1>6 DEF a, d, x

LEMMA StaticFields ==
    ASSUME NEW r \in Private, NEW v \in Given
    PROVE  LET q == StoredStatic(r, v) IN
           /\ q \in Private /\ Rest(r, q)
           /\ ~q.invalid_forced /\ (q.valid <=> Accepts(r, v))
           /\ (q.default_forced <=> IsDefault(r, v))
           /\ q.value = IF r.full_bind = NONE /\ v \in Values THEN v ELSE Null
<1>1. Accepts(r, v) \in BOOLEAN /\ IsDefault(r, v) \in BOOLEAN
  BY DEF Accepts, IsDefault
<1>2. (IF r.full_bind = NONE /\ v \in Values THEN v ELSE Null) \in Values \cup {Null}
  OBVIOUS
<1> DEFINE a == Accepts(r, v)
           d == IsDefault(r, v)
           x == IF r.full_bind = NONE /\ v \in Values THEN v ELSE Null
           q == StoredStatic(r, v)
<1> HIDE DEF a, d, x
<1>3. a \in BOOLEAN /\ d \in BOOLEAN /\ x \in Values \cup {Null}
  BY <1>1, <1>2 DEF a, d, x
<1>4. q \in Private
  BY <1>3, SetFields DEF StoredStatic, a, d, x
<1>5. Rest(r, q) /\ ~q.invalid_forced /\ q.value = x
  BY DEF StoredStatic, Private, Rest, x
<1>6. (q.valid <=> a) /\ (q.default_forced <=> d)
  BY DEF StoredStatic, Private, a, d
<1> QED BY <1>4, <1>5, <1>6 DEF a, d, x

LEMMA UnchangedFields ==
    ASSUME NEW r \in Private
    PROVE  LET q == Unchanged(r) IN
           /\ q \in Private /\ Rest(r, q)
           /\ ~q.invalid_forced /\ q.valid
           /\ (q.default_forced <=> r.default_forced) /\ q.value = r.value
  BY DEF Unchanged, Private, Rest

(* A value that is stored: the record holds together, and gives it.        *)
IsStored(r, q, v) ==
    /\ Rest(r, q) /\ ~q.invalid_forced /\ (q.valid <=> Accepts(r, v))
    /\ (q.default_forced <=> IsDefault(r, v))
    /\ q.value = IF r.full_bind = NONE /\ v \in Values THEN v ELSE Null

LEMMA StoredHolds ==
    ASSUME NEW r \in Private, NEW q \in Private, NEW v \in Given, IsStored(r, q, v)
    PROVE  /\ Holds(q)
           /\ r.full_bind = NONE =>
                /\ ~Bad(q) \/ (q.not_null /\ q.default_value \in {Null, Other})
                /\ Accepts(r, v) => Ok(q) /\ Same(v, Val(q))
<1>1. /\ q.default_value = r.default_value /\ q.not_null = r.not_null
      /\ q.full_bind = r.full_bind
      /\ r.default_value \in Values \cup {Null, Other, NONE}
  BY Fields DEF IsStored, Rest
<1>2. Holds(q)
  BY <1>1, ValuesAssumption DEF IsStored, Holds, IsDefault
<1>3. ASSUME r.full_bind = NONE, Accepts(r, v) PROVE Ok(q) /\ Same(v, Val(q))
  BY <1>1, <1>3, ValuesAssumption DEF IsStored, IsDefault, Ok, Val, Same, Nothing, Accepts, Given
<1>4. ASSUME r.full_bind = NONE PROVE ~Bad(q) \/ (q.not_null /\ q.default_value \in {Null, Other})
  <2>1. CASE Accepts(r, v)
    BY <1>1, <1>4, <2>1, ValuesAssumption
       DEF IsStored, IsDefault, Ok, Val, Nothing, Accepts, Given, Bad
  <2>2. CASE ~Accepts(r, v)
    BY <1>1, <1>4, <2>2, ValuesAssumption
       DEF IsStored, IsDefault, Ok, Val, Nothing, Accepts, Given, Bad
  <2> QED BY <2>1, <2>2
<1> QED BY <1>2, <1>3, <1>4

LEMMA UnchangedHolds ==
    ASSUME NEW r \in Private, NEW v \in Given, Holds(r)
    PROVE  /\ Holds(Unchanged(r))
           /\ ~Bad(r) /\ Same(v, Val(r)) /\ Accepts(r, v) /\ Ok(r) =>
                /\ ~Bad(Unchanged(r)) /\ Ok(Unchanged(r)) /\ Same(v, Val(Unchanged(r)))
<1> DEFINE q == Unchanged(r)
<1>1. /\ q.default_value = r.default_value /\ q.not_null = r.not_null
      /\ q.full_bind = r.full_bind /\ q.value = r.value
      /\ ~q.invalid_forced /\ q.valid /\ (q.default_forced <=> r.default_forced)
      /\ r.value \in Values \cup {Null}
      /\ r.default_value \in Values \cup {Null, Other, NONE}
  BY Fields, UnchangedFields DEF Rest
<1> HIDE DEF q
<1>2. Holds(q)
  BY <1>1 DEF Holds
<1>3. ASSUME ~Bad(r), Same(v, Val(r)), Accepts(r, v), Ok(r)
      PROVE  ~Bad(q) /\ Ok(q) /\ Same(v, Val(q))
  BY <1>1, <1>3, ValuesAssumption DEF Holds, Bad, Ok, Val, Same, Nothing, Accepts, Given
<1> QED BY <1>2, <1>3 DEF q

-----------------------------------------------------------------------------
(* The records of all holders: an alias is one of a holder that is none.   *)
Proper(st) ==
    /\ st \in [Holders -> Private]
    /\ \A h \in Holders : Holds(st[h])
    /\ \A h \in Holders : st[h].full_bind # NONE => <<h, st[h].full_bind>> \in FullBinds

LEMMA ValType == ASSUME NEW r \in Private PROVE Val(r) \in Values \cup {Null, NONE}
  BY Fields DEF Val

LEMMA MasterFacts ==
    ASSUME NEW st, Proper(st), NEW h \in Holders
    PROVE  LET m == Master(st, h) IN
           /\ m \in Holders /\ st[m] \in Private /\ st[m].full_bind = NONE
           /\ Master(st, m) = m
           /\ m # h => st[h].full_bind = m
           /\ GetValue(st, h) = Val(st[m])
           /\ IsValid(st, h) <=> Ok(st[m])
           /\ Contradicts(st, h) <=> Bad(st[m])
<1> DEFINE m == Master(st, h)
<1>1. st[h] \in Private /\ st[h].full_bind \in Holders \cup {NONE}
  BY Fields DEF Proper
<1>2. m \in Holders /\ (m # h => st[h].full_bind = m)
  BY <1>1 DEF Master
<1>3. st[m].full_bind = NONE
  <2>1. CASE st[h].full_bind = NONE
    BY <2>1 DEF Master
  <2>2. CASE st[h].full_bind # NONE
    <3>1. m = st[h].full_bind /\ <<h, m>> \in FullBinds
      BY <2>2 DEF Master, Proper
    <3>2. ASSUME st[m].full_bind # NONE PROVE FALSE
      <4>1. <<m, st[m].full_bind>> \in FullBinds
        BY <1>2, <3>2 DEF Proper
      <4>2. <<h, m>>[2] # <<m, st[m].full_bind>>[1]
        BY <3>1, <4>1, BindsAssumption
      <4> QED BY <4>2
    <3> QED BY <3>2
  <2> QED BY <2>1, <2>2
<1>4. st[m] \in Private /\ Master(st, m) = m
  BY <1>2, <1>3 DEF Proper, Master
<1> HIDE DEF m
<1>5. Master(st, h) = m
  BY DEF m
<1>6. GetValue(st, h) = Val(st[m])
  BY <1>5 DEF GetValue, Val
<1>7. IsValid(st, h) <=> Ok(st[m])
  BY <1>5 DEF IsValid, Ok
<1>8. Contradicts(st, h) <=> Bad(st[m])
  BY <1>5, <1>6, <1>7 DEF Contradicts, Bad
<1> QED BY <1>2, <1>3, <1>4, <1>6, <1>7, <1>8 DEF m

LEMMA NoSelf == ASSUME NEW h \in Holders PROVE <<h, h>> \notin FullBinds
<1> SUFFICES ASSUME <<h, h>> \in FullBinds PROVE FALSE
  OBVIOUS
<1>1. <<h, h>>[2] # <<h, h>>[1]
  BY BindsAssumption
<1> QED BY <1>1

(* The same bindings: the same families, and the same to be told.          *)
LEMMA SameBindings ==
    ASSUME NEW st, NEW w, NEW h, \A g \in Holders : Rest(st[g], w[g])
    PROVE  /\ h \in Holders => Master(w, h) = Master(st, h)
           /\ Connected(w, h) = Connected(st, h)
  BY DEF Rest, Master, Connected

(* One record set.                                                         *)
LEMMA AssignedFacts ==
    ASSUME NEW st, Proper(st), NEW h \in Holders, NEW v \in Given
    PROVE  LET q == Assigned(st, h, v) IN
           /\ q \in Private /\ Rest(st[h], q) /\ Holds(q)
           /\ Outcome(st, h, v) = "set" => IsStored(st[h], q, v)
           /\ Outcome(st, h, v) = "same" =>
                /\ q = Unchanged(st[h])
                /\ Same(v, GetValue(st, h)) /\ Accepts(st[h], v) /\ IsValid(st, h)
           /\ Outcome(st, h, v) \notin {"set", "same"} => q = st[h]
<1> DEFINE q == Assigned(st, h, v)
           o == Outcome(st, h, v)
<1>1. st[h] \in Private /\ Holds(st[h])
  BY DEF Proper
<1>2. CASE o = "set"
  <2>1. q = Stored(st[h], v)
    BY <1>2 DEF Assigned, Stored
  <2>2. IsStored(st[h], q, v) /\ q \in Private
    BY <1>1, <2>1, StoredFields DEF IsStored
  <2>3. Rest(st[h], q) /\ Holds(q)
    BY <1>1, <2>2, StoredHolds DEF IsStored
  <2> QED BY <1>2, <2>2, <2>3
<1>3. CASE o = "same"
  <2>1. q = Unchanged(st[h])
    BY <1>3 DEF Assigned, Unchanged
  <2>2. q \in Private /\ Rest(st[h], q) /\ Holds(q)
    BY <1>1, <2>1, UnchangedFields, UnchangedHolds
  <2>3. Same(v, GetValue(st, h)) /\ Accepts(st[h], v) /\ IsValid(st, h)
    BY <1>3 DEF Outcome
  <2> QED BY <1>3, <2>1, <2>2, <2>3
<1>4. CASE o \notin {"set", "same"}
  <2>1. q = st[h]
    BY <1>4 DEF Assigned
  <2> QED BY <1>1, <1>4, <2>1 DEF Rest
<1> QED BY <1>2, <1>3, <1>4

(* One holder changed and then another one.                                *)
LEMMA ExceptProper ==
    ASSUME NEW st, Proper(st), NEW h \in Holders, NEW q \in Private, Holds(q),
           q.full_bind = st[h].full_bind
    PROVE  /\ Proper([st EXCEPT ![h] = q])
           /\ [st EXCEPT ![h] = q][h] = q
           /\ \A g \in Holders : g # h => [st EXCEPT ![h] = q][g] = st[g]
  BY DEF Proper

(* real_gda_holder_set_value().                                            *)
LEMMA WrittenFacts ==
    ASSUME NEW st, Proper(st), NEW h \in Holders, NEW v \in Given
    PROVE  LET m == Master(st, h)
               w == Written(st, h, v)
           IN
           /\ Proper(w)
           /\ \A g \in Holders : Rest(st[g], w[g])
           /\ \A g \in Holders \ {h, m} : w[g] = st[g]
           /\ \/ Emitter(st, h, v) = m /\ IsStored(st[m], w[m], v)
              \/ Emitter(st, h, v) = NONE /\ w[m] = st[m]
              \/ /\ Emitter(st, h, v) = NONE /\ w[m] = Unchanged(st[m])
                 /\ Same(v, Val(st[m])) /\ Accepts(st[m], v) /\ Ok(st[m])
           /\ v # Other /\ Returns(st, h, v) /\ ~Bad(st[m]) => Ok(w[m]) /\ Same(v, Val(w[m]))
<1> DEFINE m == Master(st, h)
           q == Assigned(st, h, v)
           x == Assigned(st, m, v)
           w == Written(st, h, v)
           one == [st EXCEPT ![h] = q]
<1>1. /\ m \in Holders /\ Master(st, m) = m /\ st[m] \in Private /\ st[m].full_bind = NONE
      /\ GetValue(st, h) = Val(st[m]) /\ (IsValid(st, h) <=> Ok(st[m]))
      /\ GetValue(st, m) = Val(st[m]) /\ (IsValid(st, m) <=> Ok(st[m]))
  BY MasterFacts
<1>2. /\ q \in Private /\ Rest(st[h], q) /\ Holds(q)
      /\ Outcome(st, h, v) = "set" => IsStored(st[h], q, v)
      /\ Outcome(st, h, v) = "same" =>
            /\ q = Unchanged(st[h])
            /\ Same(v, GetValue(st, h)) /\ Accepts(st[h], v) /\ IsValid(st, h)
      /\ Outcome(st, h, v) \notin {"set", "same"} => q = st[h]
  BY AssignedFacts
<1>3. /\ x \in Private /\ Rest(st[m], x) /\ Holds(x)
      /\ Outcome(st, m, v) = "set" => IsStored(st[m], x, v)
      /\ Outcome(st, m, v) = "same" =>
            /\ x = Unchanged(st[m])
            /\ Same(v, GetValue(st, m)) /\ Accepts(st[m], v) /\ IsValid(st, m)
      /\ Outcome(st, m, v) \notin {"set", "same"} => x = st[m]
  BY <1>1, AssignedFacts
<1>4. w = IF Outcome(st, h, v) = "set" /\ m # h THEN [one EXCEPT ![m] = x] ELSE one
  BY DEF Written
<1>5. /\ Emitter(st, h, v) = IF Outcome(st, h, v) = "set" /\ Outcome(st, m, v) = "set" THEN m ELSE NONE
      /\ Returns(st, h, v) <=>
            \/ Outcome(st, h, v) = "same"
            \/ Outcome(st, h, v) = "set" /\ Outcome(st, m, v) = "same"
            \/ Outcome(st, h, v) = "set" /\ Outcome(st, m, v) = "set" /\ Accepts(st[m], v)
  BY DEF Emitter, Returns
<1>6. \A o \in {"set", "same"} : Outcome(st, h, v) = o => Outcome(st, h, v) \in {"set", "same"}
  OBVIOUS
<1>7. \A g \in Holders : Rest(st[g], st[g])
  BY DEF Rest
<1>8. ASSUME NEW r \in Private, Holds(r), ~Bad(r), Same(v, Val(r)), Accepts(r, v), Ok(r)
      PROVE  Ok(Unchanged(r)) /\ Same(v, Val(Unchanged(r)))
  BY <1>8, UnchangedHolds
<1>9. ASSUME NEW y \in Private, IsStored(st[m], y, v), Accepts(st[m], v)
      PROVE  Ok(y) /\ Same(v, Val(y))
  BY <1>1, <1>9, StoredHolds
<1>10. st \in [Holders -> Private] /\ Holds(st[m])
  BY <1>1 DEF Proper
<1> HIDE DEF m, q, x, w
<1>11. /\ Proper(one) /\ one[h] = q /\ \A g \in Holders : g # h => one[g] = st[g]
  BY <1>2, ExceptProper DEF Rest
<1>12. CASE Outcome(st, h, v) = "set" /\ m # h
  <2>1. w = [one EXCEPT ![m] = x] /\ one[m] = st[m]
    BY <1>1, <1>4, <1>11, <1>12
  <2>2. Proper(w) /\ w[m] = x /\ \A g \in Holders : g # m => w[g] = one[g]
    <3>1. m \in Holders /\ x \in Private /\ Holds(x) /\ x.full_bind = one[m].full_bind
      BY <1>1, <1>3, <2>1 DEF Rest
    <3>2. Proper(one)
      BY <1>11
    <3> HIDE DEF one
    <3>3. /\ Proper([one EXCEPT ![m] = x]) /\ [one EXCEPT ![m] = x][m] = x
          /\ \A g \in Holders : g # m => [one EXCEPT ![m] = x][g] = one[g]
      BY <3>1, <3>2, ExceptProper
    <3> QED BY <2>1, <3>3
  <2>3. \A g \in Holders : Rest(st[g], w[g])
    BY <1>2, <1>3, <1>7, <1>11, <2>2
  <2>4. \A g \in Holders \ {h, m} : w[g] = st[g]
    BY <1>11, <2>2
  <2>5. CASE Outcome(st, m, v) = "set"
    <3>1. Emitter(st, h, v) = m /\ IsStored(st[m], w[m], v)
      BY <1>3, <1>5, <1>12, <2>2, <2>5
    <3>2. Returns(st, h, v) => Accepts(st[m], v)
      BY <1>5, <1>12, <2>5
    <3> QED BY <1>3, <1>9, <2>2, <2>3, <2>4, <3>1, <3>2 DEF m, w
  <2>6. CASE Outcome(st, m, v) = "same"
    <3>1. /\ Emitter(st, h, v) = NONE /\ w[m] = Unchanged(st[m])
          /\ Same(v, Val(st[m])) /\ Accepts(st[m], v) /\ Ok(st[m])
      BY <1>1, <1>3, <1>5, <2>2, <2>6
    <3>2. ~Bad(st[m]) => Ok(w[m]) /\ Same(v, Val(w[m]))
      BY <1>1, <1>8, <1>10, <3>1
    <3> QED BY <2>2, <2>3, <2>4, <3>1, <3>2 DEF m, w
  <2>7. CASE Outcome(st, m, v) \notin {"set", "same"}
    <3>1. Emitter(st, h, v) = NONE /\ w[m] = st[m] /\ ~Returns(st, h, v)
      BY <1>3, <1>5, <1>12, <2>2, <2>7
    <3> QED BY <2>2, <2>3, <2>4, <3>1 DEF m, w
  <2> QED BY <2>5, <2>6, <2>7
<1>13. CASE Outcome(st, h, v) = "set" /\ m = h
  <2>1. w = one
    BY <1>4, <1>13
  <2>2. \A g \in Holders : Rest(st[g], w[g])
    BY <1>2, <1>7, <1>11, <2>1
  <2>3. Emitter(st, h, v) = m /\ IsStored(st[m], w[m], v)
    BY <1>2, <1>5, <1>11, <1>13, <2>1
  <2>4. Returns(st, h, v) => Accepts(st[m], v)
    BY <1>5, <1>13
  <2>5. w[m] \in Private
    BY <1>2, <1>11, <1>13, <2>1
  <2> QED BY <1>9, <1>11, <2>1, <2>2, <2>3, <2>4, <2>5 DEF m, w
<1>14. CASE Outcome(st, h, v) = "same"
  <2>1. w = one /\ Emitter(st, h, v) = NONE
    BY <1>4, <1>5, <1>14
  <2>2. \A g \in Holders : Rest(st[g], w[g])
    BY <1>2, <1>7, <1>11, <2>1
  <2>3. Same(v, Val(st[m])) /\ Ok(st[m])
    BY <1>1, <1>2, <1>14
  <2>4. CASE m # h
    <3>1. w[m] = st[m]
      BY <1>1, <1>11, <2>1, <2>4
    <3> QED BY <1>11, <2>1, <2>2, <2>3, <3>1 DEF m, w
  <2>5. CASE m = h
    <3>1. w[m] = Unchanged(st[m]) /\ Accepts(st[m], v)
      BY <1>2, <1>11, <1>14, <2>1, <2>5
    <3>2. ~Bad(st[m]) => Ok(w[m]) /\ Same(v, Val(w[m]))
      BY <1>1, <1>8, <1>10, <2>3, <3>1
    <3> QED BY <1>11, <2>1, <2>2, <2>3, <3>1, <3>2 DEF m, w
  <2> QED BY <2>4, <2>5
<1>15. CASE Outcome(st, h, v) \notin {"set", "same"}
  <2>1. w = one /\ Emitter(st, h, v) = NONE /\ ~Returns(st, h, v) /\ q = st[h]
    BY <1>2, <1>4, <1>5, <1>15
  <2>2. \A g \in Holders : w[g] = st[g]
    BY <1>11, <2>1
  <2> QED BY <1>1, <1>7, <1>11, <2>1, <2>2 DEF m, w
<1> QED BY <1>12, <1>13, <1>14, <1>15

-----------------------------------------------------------------------------
(* The emissions under way.                                                *)
FrameOK(st, x) ==
    /\ x.kind = "set_default" => x.todo = {}
    /\ \A g \in Holders :
          /\ <<"simple_bind", g>> \in x.todo => st[g].simple_bind = x.holder
          /\ <<"full_bind", g>> \in x.todo => st[g].full_bind = x.holder
StackOK(st, s) == s \in Seq(Frame) /\ \A i \in 1..Len(s) : FrameOK(st, s[i])

(* f, bound to b, is to be told of a change, or b is, which then tells f.  *)
Waits(s, f, b) ==
    \E i \in 1..Len(s) : <<"simple_bind", f>> \in s[i].todo \/ <<"full_bind", b>> \in s[i].todo

Bindings(st, w) == \A g \in Holders :
    w[g].simple_bind = st[g].simple_bind /\ w[g].full_bind = st[g].full_bind

LEMMA FrameFields ==
    ASSUME NEW x \in Frame
    PROVE  /\ x.kind \in {"changed", "set_default"} /\ x.holder \in Holders
           /\ x.todo \in SUBSET ({"simple_bind", "full_bind"} \X Holders)
           /\ x.default \in Values \cup {Null, Other, NONE}
  BY DEF Frame

LEMMA ConcatFacts ==
    ASSUME NEW S, NEW e \in Seq(S), NEW s \in Seq(S)
    PROVE  /\ e \o s \in Seq(S) /\ Len(e \o s) = Len(e) + Len(s)
           /\ \A i \in 1..Len(e) : (e \o s)[i] = e[i]
           /\ \A i \in 1..Len(s) : (e \o s)[Len(e) + i] = s[i]
           /\ \A i \in 1..Len(e \o s) :
                 (\E j \in 1..Len(e) : (e \o s)[i] = e[j]) \/ (\E j \in 1..Len(s) : (e \o s)[i] = s[j])
<1>1. /\ e \o s \in Seq(S) /\ Len(e \o s) = Len(e) + Len(s) /\ Len(e) \in Nat /\ Len(s) \in Nat
      /\ \A i \in 1..Len(e) : (e \o s)[i] = e[i]
      /\ \A i \in 1..Len(s) : (e \o s)[Len(e) + i] = s[i]
  OBVIOUS
<1>2. ASSUME NEW i \in 1..Len(e \o s)
      PROVE  (\E j \in 1..Len(e) : (e \o s)[i] = e[j]) \/ (\E j \in 1..Len(s) : (e \o s)[i] = s[j])
  <2>1. CASE i <= Len(e)
    BY <1>1, <2>1
  <2>2. CASE i > Len(e)
    <3>1. i - Len(e) \in 1..Len(s) /\ i = Len(e) + (i - Len(e))
      BY <1>1, <2>2
    <3>2. (e \o s)[Len(e) + (i - Len(e))] = s[i - Len(e)]
      BY <1>1, <3>1
    <3> QED BY <3>1, <3>2
  <2> QED BY <1>1, <2>1, <2>2
<1> QED BY <1>1, <1>2

LEMMA StackConcat ==
    ASSUME NEW st, NEW e, NEW s, StackOK(st, e), StackOK(st, s)
    PROVE  /\ StackOK(st, e \o s) /\ Len(e \o s) = Len(e) + Len(s)
           /\ Len(e) \in Nat /\ Len(s) \in Nat
           /\ \A i \in 1..Len(e) : (e \o s)[i] = e[i]
           /\ \A f, b : Waits(e, f, b) \/ Waits(s, f, b) => Waits(e \o s, f, b)
<1>1. e \in Seq(Frame) /\ s \in Seq(Frame)
  BY DEF StackOK
<1>2. /\ e \o s \in Seq(Frame) /\ Len(e \o s) = Len(e) + Len(s)
      /\ Len(e) \in Nat /\ Len(s) \in Nat
      /\ \A i \in 1..Len(e) : (e \o s)[i] = e[i]
      /\ \A i \in 1..Len(s) : (e \o s)[Len(e) + i] = s[i]
  BY <1>1, ConcatFacts
<1>3. \A i \in 1..Len(e \o s) :
         (\E j \in 1..Len(e) : (e \o s)[i] = e[j]) \/ (\E j \in 1..Len(s) : (e \o s)[i] = s[j])
  BY <1>1, ConcatFacts
<1>4. StackOK(st, e \o s)
  BY <1>2, <1>3 DEF StackOK
<1>5. ASSUME NEW f, NEW b, Waits(e, f, b) PROVE Waits(e \o s, f, b)
  <2>1. PICK i \in 1..Len(e) : <<"simple_bind", f>> \in e[i].todo \/ <<"full_bind", b>> \in e[i].todo
    BY <1>5 DEF Waits
  <2>2. i \in 1..Len(e \o s) /\ (e \o s)[i] = e[i]
    BY <1>2
  <2> QED BY <2>1, <2>2 DEF Waits
<1>6. ASSUME NEW f, NEW b, Waits(s, f, b) PROVE Waits(e \o s, f, b)
  <2>1. PICK i \in 1..Len(s) : <<"simple_bind", f>> \in s[i].todo \/ <<"full_bind", b>> \in s[i].todo
    BY <1>6 DEF Waits
  <2>2. Len(e) + i \in 1..Len(e \o s) /\ (e \o s)[Len(e) + i] = s[i]
    BY <1>2
  <2> QED BY <2>1, <2>2 DEF Waits
<1> QED BY <1>2, <1>4, <1>5, <1>6

(* The emission for a holder: everyone connected is to be called.          *)
ChangedFrame(st, h) ==
    [kind |-> "changed", holder |-> h, todo |-> Connected(st, h), default |-> NONE]

LEMMA EmissionFacts ==
    ASSUME NEW st, NEW h \in Holders
    PROVE  /\ Emission(st, h) = <<ChangedFrame(st, h)>>
           /\ StackOK(st, Emission(st, h))
           /\ StackOK(st, Emission(st, NONE)) /\ Emission(st, NONE) = <<>>
           /\ \A f \in Holders : st[f].simple_bind = h => \A b : Waits(Emission(st, h), f, b)
           /\ \A b \in Holders : st[b].full_bind = h => \A f : Waits(Emission(st, h), f, b)
<1> DEFINE x == ChangedFrame(st, h)
<1>1. Emission(st, h) = <<x>> /\ Emission(st, NONE) = <<>>
  BY HoldersAssumption DEF Emission, ChangedFrame
<1>2. /\ \A g : <<"simple_bind", g>> \in Connected(st, h) <=> g \in Holders /\ st[g].simple_bind = h
      /\ \A g : <<"full_bind", g>> \in Connected(st, h) <=> g \in Holders /\ st[g].full_bind = h
      /\ Connected(st, h) \in SUBSET ({"simple_bind", "full_bind"} \X Holders)
  BY DEF Connected
<1>3. x \in Frame /\ FrameOK(st, x)
  BY <1>2 DEF Frame, FrameOK, ChangedFrame
<1>4. x.todo = Connected(st, h)
  BY DEF ChangedFrame
<1> HIDE DEF x
<1>5. <<x>> \in Seq(Frame) /\ Len(<<x>>) = 1 /\ <<x>>[1] = x
  BY <1>3
<1>6. StackOK(st, <<x>>)
  BY <1>3, <1>5 DEF StackOK
<1>7. StackOK(st, <<>>)
  BY DEF StackOK
<1>8. ASSUME NEW f \in Holders, NEW b, st[f].simple_bind = h PROVE Waits(<<x>>, f, b)
  <2>1. 1 \in 1..Len(<<x>>) /\ <<"simple_bind", f>> \in <<x>>[1].todo
    BY <1>2, <1>4, <1>5, <1>8
  <2> QED BY <2>1 DEF Waits
<1>9. ASSUME NEW f, NEW b \in Holders, st[b].full_bind = h PROVE Waits(<<x>>, f, b)
  <2>1. 1 \in 1..Len(<<x>>) /\ <<"full_bind", b>> \in <<x>>[1].todo
    BY <1>2, <1>4, <1>5, <1>9
  <2> QED BY <2>1 DEF Waits
<1> QED BY <1>1, <1>6, <1>7, <1>8, <1>9 DEF x

LEMMA StackBindings ==
    ASSUME NEW st, NEW w, NEW s, Bindings(st, w), StackOK(st, s)
    PROVE  StackOK(w, s)
  BY DEF StackOK, FrameOK, Bindings

LEMMA EmissionBindings ==
    ASSUME NEW st, NEW w, NEW h, Bindings(st, w)
    PROVE  Emission(st, h) = Emission(w, h)
<1>1. Connected(st, h) = Connected(w, h)
  BY DEF Connected, Bindings
<1> QED BY <1>1 DEF Emission

(* The first emission is over.                                             *)
LEMMA StackTail ==
    ASSUME NEW st, NEW s, StackOK(st, s), s # <<>>
    PROVE  /\ Head(s) \in Frame /\ FrameOK(st, Head(s))
           /\ StackOK(st, Tail(s))
           /\ Head(s).todo = {} => \A f, b : Waits(s, f, b) => Waits(Tail(s), f, b)
<1>1. s \in Seq(Frame) /\ Len(s) \in Nat /\ Len(s) # 0
  BY DEF StackOK
<1>2. Head(s) = s[1] /\ 1 \in 1..Len(s) /\ Head(s) \in Frame
  BY <1>1
<1>3. /\ Tail(s) \in Seq(Frame) /\ Len(Tail(s)) = Len(s) - 1
      /\ \A i \in 1..(Len(s) - 1) : Tail(s)[i] = s[i + 1]
  BY <1>1
<1>4. \A i \in 1..(Len(s) - 1) : i + 1 \in 1..Len(s)
  BY <1>1
<1>5. FrameOK(st, Head(s)) /\ StackOK(st, Tail(s))
  BY <1>2, <1>3, <1>4 DEF StackOK
<1>6. ASSUME Head(s).todo = {}, NEW f, NEW b, Waits(s, f, b) PROVE Waits(Tail(s), f, b)
  <2>1. PICK i \in 1..Len(s) : <<"simple_bind", f>> \in s[i].todo \/ <<"full_bind", b>> \in s[i].todo
    BY <1>6 DEF Waits
  <2>2. i # 1
    BY <1>2, <1>6, <2>1
  <2>3. i - 1 \in 1..(Len(s) - 1) /\ (i - 1) + 1 = i
    BY <1>1, <2>2
  <2>4. Tail(s)[i - 1] = s[i] /\ i - 1 \in 1..Len(Tail(s))
    BY <1>3, <2>3
  <2> QED BY <2>1, <2>4 DEF Waits
<1> QED BY <1>2, <1>5, <1>6

(* A handler called, or disconnected: nobody else waits in vain.           *)
Less(x, k, g) == [x EXCEPT !.todo = @ \ {<<k, g>>}]

LEMMA LessFacts ==
    ASSUME NEW x \in Frame, NEW k, NEW g
    PROVE  /\ Less(x, k, g) \in Frame
           /\ Less(x, k, g).todo = x.todo \ {<<k, g>>}
           /\ Less(x, k, g).holder = x.holder /\ Less(x, k, g).kind = x.kind
           /\ \A st : FrameOK(st, x) => FrameOK(st, Less(x, k, g))
<1>1. /\ Less(x, k, g) \in Frame
      /\ Less(x, k, g).todo = x.todo \ {<<k, g>>}
      /\ Less(x, k, g).holder = x.holder /\ Less(x, k, g).kind = x.kind
  BY DEF Less, Frame
<1>2. ASSUME NEW st, FrameOK(st, x) PROVE FrameOK(st, Less(x, k, g))
  <2> DEFINE y == Less(x, k, g)
  <2>1. y.todo \subseteq x.todo /\ y.holder = x.holder /\ y.kind = x.kind
    BY <1>1
  <2> HIDE DEF y
  <2>2. FrameOK(st, y)
    BY <1>2, <2>1 DEF FrameOK
  <2> QED BY <2>2 DEF y
<1> QED BY <1>1, <1>2

LEMMA StackCalled ==
    ASSUME NEW st, StackOK(st, stack), stack # <<>>, NEW k \in {"simple_bind", "full_bind"}, NEW g
    PROVE  /\ StackOK(st, Called(k, g)) /\ Len(Called(k, g)) = Len(stack)
           /\ \A f, b : Waits(stack, f, b) =>
                 \/ Waits(Called(k, g), f, b)
                 \/ k = "simple_bind" /\ f = g
                 \/ k = "full_bind" /\ b = g
<1> DEFINE t == Called(k, g)
<1>1. stack \in Seq(Frame) /\ 1 \in 1..Len(stack) /\ \A i \in 1..Len(stack) : stack[i] \in Frame
  BY DEF StackOK
<1>2. t = [stack EXCEPT ![1] = Less(stack[1], k, g)]
  BY <1>1 DEF Called, Less
<1>3. Less(stack[1], k, g) \in Frame
  BY <1>1, LessFacts
<1>4. /\ t \in Seq(Frame) /\ Len(t) = Len(stack) /\ t[1] = Less(stack[1], k, g)
      /\ \A i \in 1..Len(stack) : i # 1 => t[i] = stack[i]
  BY <1>1, <1>2, <1>3
<1> HIDE DEF t
<1>5. \A i \in 1..Len(stack) : FrameOK(st, stack[i])
  BY DEF StackOK
<1>6. FrameOK(st, t[1])
  BY <1>1, <1>4, <1>5, LessFacts
<1>7. StackOK(st, t)
  BY <1>1, <1>4, <1>5, <1>6 DEF StackOK
<1>8. ASSUME NEW f, NEW b, Waits(stack, f, b), ~(k = "simple_bind" /\ f = g), ~(k = "full_bind" /\ b = g)
      PROVE  Waits(t, f, b)
  <2>1. PICK i \in 1..Len(stack) : <<"simple_bind", f>> \in stack[i].todo \/ <<"full_bind", b>> \in stack[i].todo
    BY <1>8 DEF Waits
  <2>2. <<k, g>> # <<"simple_bind", f>> /\ <<k, g>> # <<"full_bind", b>>
    BY <1>8
  <2>3. Less(stack[i], k, g).todo = stack[i].todo \ {<<k, g>>}
    BY <1>1, LessFacts
  <2>4. t[i] = stack[i] \/ t[i] = Less(stack[i], k, g)
    BY <1>4
  <2>5. <<"simple_bind", f>> \in t[i].todo \/ <<"full_bind", b>> \in t[i].todo
    BY <2>1, <2>2, <2>3, <2>4
  <2> QED BY <1>4, <2>5 DEF Waits
<1> QED BY <1>4, <1>7, <1>8 DEF t

LEMMA StackWithout ==
    ASSUME NEW st, NEW w, StackOK(st, stack), NEW k \in {"simple_bind", "full_bind"}, NEW h,
           \A g \in Holders : /\ g # h \/ k # "simple_bind" => w[g].simple_bind = st[g].simple_bind
                              /\ g # h \/ k # "full_bind" => w[g].full_bind = st[g].full_bind
    PROVE  /\ StackOK(w, Without(stack, k, h)) /\ Len(Without(stack, k, h)) = Len(stack)
           /\ \A f, b : Waits(stack, f, b) =>
                 \/ Waits(Without(stack, k, h), f, b)
                 \/ k = "simple_bind" /\ f = h
                 \/ k = "full_bind" /\ b = h
<1> DEFINE t == Without(stack, k, h)
<1>1. stack \in Seq(Frame) /\ \A i \in 1..Len(stack) : stack[i] \in Frame /\ FrameOK(st, stack[i])
  BY DEF StackOK
<1>2. t = [i \in 1..Len(stack) |-> Less(stack[i], k, h)] /\ Len(stack) \in Nat
  BY <1>1 DEF Without, Less
<1>3. \A i \in 1..Len(stack) : Less(stack[i], k, h) \in Frame
  BY <1>1, LessFacts
<1>4. /\ t \in Seq(Frame) /\ Len(t) = Len(stack)
      /\ \A i \in 1..Len(stack) : t[i] = Less(stack[i], k, h)
  BY <1>2, <1>3
<1> HIDE DEF t
<1>5. ASSUME NEW i \in 1..Len(stack) PROVE FrameOK(w, t[i])
  <2>1. /\ t[i].todo = stack[i].todo \ {<<k, h>>}
        /\ t[i].holder = stack[i].holder /\ t[i].kind = stack[i].kind
    BY <1>1, <1>4, LessFacts
  <2>2. FrameOK(st, stack[i])
    BY <1>1
  <2>3. t[i].kind = "set_default" => t[i].todo = {}
    BY <2>1, <2>2 DEF FrameOK
  <2>4. ASSUME NEW g \in Holders, <<"simple_bind", g>> \in t[i].todo
        PROVE  w[g].simple_bind = t[i].holder
    <3>1. g # h \/ k # "simple_bind"
      BY <2>1, <2>4
    <3> QED BY <2>1, <2>2, <2>4, <3>1 DEF FrameOK
  <2>5. ASSUME NEW g \in Holders, <<"full_bind", g>> \in t[i].todo
        PROVE  w[g].full_bind = t[i].holder
    <3>1. g # h \/ k # "full_bind"
      BY <2>1, <2>5
    <3> QED BY <2>1, <2>2, <2>5, <3>1 DEF FrameOK
  <2> QED BY <2>3, <2>4, <2>5 DEF FrameOK
<1>6. StackOK(w, t)
  BY <1>4, <1>5 DEF StackOK
<1>7. ASSUME NEW f, NEW b, Waits(stack, f, b), ~(k = "simple_bind" /\ f = h), ~(k = "full_bind" /\ b = h)
      PROVE  Waits(t, f, b)
  <2>1. PICK i \in 1..Len(stack) : <<"simple_bind", f>> \in stack[i].todo \/ <<"full_bind", b>> \in stack[i].todo
    BY <1>7 DEF Waits
  <2>2. <<k, h>> # <<"simple_bind", f>> /\ <<k, h>> # <<"full_bind", b>>
    BY <1>7
  <2>3. t[i].todo = stack[i].todo \ {<<k, h>>}
    BY <1>1, <1>4, LessFacts
  <2>4. <<"simple_bind", f>> \in t[i].todo \/ <<"full_bind", b>> \in t[i].todo
    BY <2>1, <2>2, <2>3
  <2> QED BY <1>4, <2>4 DEF Waits
<1> QED BY <1>4, <1>6, <1>7 DEF t

-----------------------------------------------------------------------------
(* What a call for h may do to the records, of h and of the holder m its   *)
(* value is in, and to the emissions: nobody who waits is forgotten.       *)
Tells(w, m, s, t) ==
    /\ Len(t) > Len(s) /\ Head(t).kind = "changed" /\ Head(t).holder = m
    /\ \A f \in Holders : w[f].simple_bind = m => \A b : Waits(t, f, b)
    /\ \A b \in Holders : w[b].full_bind = m => \A f : Waits(t, f, b)

Changes(st, w, h) ==
    /\ Proper(st) /\ Proper(w) /\ Bindings(st, w)
    /\ \A g \in Holders \ {h, Master(st, h)} : w[g] = st[g]

Keeps(w, s, t) ==
    /\ StackOK(w, t) /\ Len(s) \in Nat /\ Len(t) \in Nat /\ Len(t) >= Len(s)
    /\ \A f, b : Waits(s, f, b) => Waits(t, f, b)

Loud(st, w, h, s, t) ==
    LET m == Master(st, h) IN
    ~Bad(st[m]) => Same(Val(w[m]), Val(st[m])) \/ Tells(w, m, s, t)

(* The first emission is the one of m.                                     *)
LEMMA EmissionTells ==
    ASSUME NEW w, NEW m \in Holders, NEW s, StackOK(w, s)
    PROVE  /\ Keeps(w, s, Emission(w, m) \o s) /\ Tells(w, m, s, Emission(w, m) \o s)
           /\ Keeps(w, s, Emission(w, NONE) \o s)
<1> DEFINE e == Emission(w, m)
           t == e \o s
           x == ChangedFrame(w, m)
<1>1. e = <<x>> /\ StackOK(w, e) /\ StackOK(w, Emission(w, NONE)) /\ Emission(w, NONE) = <<>>
  BY EmissionFacts
<1>3. x.kind = "changed" /\ x.holder = m
  BY DEF ChangedFrame
<1>4. /\ \A f \in Holders : w[f].simple_bind = m => \A b : Waits(e, f, b)
      /\ \A b \in Holders : w[b].full_bind = m => \A f : Waits(e, f, b)
  BY EmissionFacts
<1> HIDE DEF e
<1>12. StackOK(w, e)
  BY <1>1
<1>2. /\ StackOK(w, t) /\ Len(t) = Len(e) + Len(s) /\ Len(e) \in Nat /\ Len(s) \in Nat
      /\ \A i \in 1..Len(e) : t[i] = e[i]
      /\ \A f, b : Waits(e, f, b) \/ Waits(s, f, b) => Waits(t, f, b)
  BY <1>12, StackConcat
<1>5. s \in Seq(Frame) /\ <<>> \o s = s /\ t \in Seq(Frame)
  BY <1>2 DEF StackOK
<1> HIDE DEF t, x
<1>6. Len(e) = 1 /\ e[1] = x
  BY <1>1
<1>7. Len(t) > Len(s) /\ t[1] = x
  BY <1>2, <1>6
<1>8. Head(t) = t[1]
  BY <1>2, <1>5, <1>7
<1>9. Tells(w, m, s, t)
  BY <1>2, <1>3, <1>4, <1>7, <1>8 DEF Tells
<1>10. Keeps(w, s, t)
  BY <1>2, <1>6 DEF Keeps
<1>11. Keeps(w, s, Emission(w, NONE) \o s)
  BY <1>1, <1>2, <1>5 DEF Keeps
<1> QED BY <1>9, <1>10, <1>11 DEF t, e

LEMMA KeepsTrans ==
    ASSUME NEW w, NEW s, NEW t, NEW u, Keeps(w, s, t), Keeps(w, t, u)
    PROVE  Keeps(w, s, u)
  BY DEF Keeps

LEMMA RestBindings ==
    ASSUME NEW st, NEW w, \A g \in Holders : Rest(st[g], w[g])
    PROVE  Bindings(st, w)
  BY DEF Rest, Bindings

LEMMA BindingsMaster ==
    ASSUME NEW st, NEW w, Bindings(st, w), NEW h \in Holders
    PROVE  Master(w, h) = Master(st, h)
  BY DEF Bindings, Master

(* gda_holder_set_value() and what uses it.                                *)
LEMMA WrittenMoves ==
    ASSUME NEW st, Proper(st), NEW s, StackOK(st, s), NEW h \in Holders, NEW v \in Given
    PROVE  LET w == Written(st, h, v)
               t == Emission(st, Emitter(st, h, v)) \o s
               m == Master(st, h)
           IN
           /\ Changes(st, w, h) /\ Keeps(w, s, t) /\ Loud(st, w, h, s, t)
           /\ ~Bad(st[m]) => ~Bad(w[m]) \/ (w[m].not_null /\ w[m].default_value \in {Null, Other})
<1> DEFINE w == Written(st, h, v)
           e == Emitter(st, h, v)
           t == Emission(st, e) \o s
           m == Master(st, h)
<1>1. /\ m \in Holders /\ st[m] \in Private /\ st[m].full_bind = NONE /\ Holds(st[m])
  BY MasterFacts DEF Proper
<1>2. /\ Proper(w) /\ \A g \in Holders : Rest(st[g], w[g])
      /\ \A g \in Holders \ {h, m} : w[g] = st[g]
      /\ \/ e = m /\ IsStored(st[m], w[m], v)
         \/ e = NONE /\ w[m] = st[m]
         \/ /\ e = NONE /\ w[m] = Unchanged(st[m])
            /\ Same(v, Val(st[m])) /\ Accepts(st[m], v) /\ Ok(st[m])
  BY WrittenFacts
<1> HIDE DEF w, e, m
<1>3. Bindings(st, w)
  BY <1>2, RestBindings
<1>4. Changes(st, w, h)
  BY <1>2, <1>3 DEF Changes, m
<1>5. StackOK(w, s) /\ Emission(st, e) = Emission(w, e)
  BY <1>3, StackBindings, EmissionBindings
<1>6. w[m] \in Private
  BY <1>1, <1>2 DEF Proper
<1>7. CASE e = m /\ IsStored(st[m], w[m], v)
  <2>1. Keeps(w, s, t) /\ Tells(w, m, s, t)
    BY <1>1, <1>5, <1>7, EmissionTells
  <2>2. ~Bad(w[m]) \/ (w[m].not_null /\ w[m].default_value \in {Null, Other})
    BY <1>1, <1>6, <1>7, StoredHolds
  <2> QED BY <1>4, <2>1, <2>2 DEF Loud, w, e, m
<1>8. CASE e = NONE /\ w[m] = st[m]
  <2>1. Keeps(w, s, t)
    BY <1>1, <1>5, <1>8, EmissionTells
  <2>2. Same(Val(w[m]), Val(st[m])) /\ (~Bad(st[m]) => ~Bad(w[m]))
    BY <1>8, SameFacts
  <2> QED BY <1>4, <2>1, <2>2 DEF Loud, w, e, m
<1>9. CASE /\ e = NONE /\ w[m] = Unchanged(st[m])
           /\ Same(v, Val(st[m])) /\ Accepts(st[m], v) /\ Ok(st[m])
  <2>1. Keeps(w, s, t)
    BY <1>1, <1>5, <1>9, EmissionTells
  <2>2. ~Bad(st[m]) => ~Bad(w[m]) /\ Same(v, Val(w[m]))
    BY <1>1, <1>9, UnchangedHolds
  <2>3. ~Bad(st[m]) => Same(Val(w[m]), Val(st[m]))
    BY <1>9, <2>2, SameFacts
  <2> QED BY <1>4, <2>1, <2>2, <2>3 DEF Loud, w, e, m
<1> QED BY <1>2, <1>7, <1>8, <1>9

(* A record changed, and "changed" emitted for its holder.                 *)
LEMMA RecordMoves ==
    ASSUME NEW st, Proper(st), NEW s, StackOK(st, s), NEW h \in Holders,
           NEW q \in Private, Holds(q),
           q.full_bind = st[h].full_bind, q.simple_bind = st[h].simple_bind
    PROVE  LET w == [st EXCEPT ![h] = q]
               t == Emission(st, h) \o s
           IN
           /\ Changes(st, w, h) /\ Keeps(w, s, t) /\ Loud(st, w, h, s, t)
           /\ StackOK(w, s) /\ w[h] = q
<1> DEFINE w == [st EXCEPT ![h] = q]
           t == Emission(st, h) \o s
           m == Master(st, h)
<1>1. Proper(w) /\ w[h] = q /\ \A g \in Holders : g # h => w[g] = st[g]
  BY ExceptProper
<1> HIDE DEF w
<1>2. Bindings(st, w)
  BY <1>1 DEF Bindings
<1>3. Changes(st, w, h)
  BY <1>1, <1>2 DEF Changes
<1>4. StackOK(w, s) /\ Emission(st, h) = Emission(w, h)
  BY <1>2, StackBindings, EmissionBindings
<1>5. Keeps(w, s, t) /\ Tells(w, h, s, t)
  BY <1>4, EmissionTells
<1>6. m # h => w[m] = st[m]
  <2>1. m \in Holders
    BY MasterFacts
  <2> QED BY <1>1, <2>1
<1>7. Loud(st, w, h, s, t)
  BY <1>5, <1>6, SameFacts DEF Loud
<1> QED BY <1>1, <1>3, <1>4, <1>5, <1>7 DEF w

-----------------------------------------------------------------------------
(* What each function does, from a state that is in order.                 *)
Ready == Proper(holder) /\ StackOK(holder, stack) /\ strayed \subseteq Holders

Excused(q) == q.not_null /\ q.default_value \in {Null, Other}    \* NullDefault
Sound(st, w, h) ==
    LET m == Master(st, h) IN ~Bad(st[m]) => ~Bad(w[m]) \/ Excused(w[m])

LEMMA TouchedFacts ==
    ASSUME NEW h \in Holders
    PROVE  Touched(h) \subseteq Holders /\ Followers(h) \subseteq Holders
  BY DEF Touched, Followers, Family

LEMMA ReadyFacts ==
    ASSUME Ready, NEW h \in Holders
    PROVE  /\ Master(holder, h) \in Holders
           /\ holder[h] \in Private /\ Holds(holder[h])
           /\ holder[Master(holder, h)] \in Private /\ Holds(holder[Master(holder, h)])
           /\ GetValue(holder, h) \in Given
<1>1. /\ Master(holder, h) \in Holders
      /\ GetValue(holder, h) = Val(holder[Master(holder, h)])
  BY MasterFacts DEF Ready
<1>2. /\ holder[h] \in Private /\ Holds(holder[h])
      /\ holder[Master(holder, h)] \in Private /\ Holds(holder[Master(holder, h)])
  BY <1>1 DEF Ready, Proper
<1> QED BY <1>1, <1>2, ValType DEF Given

LEMMA SetValueEffect ==
    ASSUME Ready, NEW h \in Holders, NEW v \in Given, SetValue(h, v)
    PROVE  /\ Changes(holder, holder', h) /\ Keeps(holder', stack, stack')
           /\ Loud(holder, holder', h, stack, stack') /\ Sound(holder, holder', h)
<1>1. /\ holder' = Written(holder, h, v)
      /\ stack' = Emission(holder, Emitter(holder, h, v)) \o stack
  BY DEF SetValue
<1> QED BY <1>1, WrittenMoves DEF Ready, Sound, Excused

LEMMA SetDefaultValueEffect ==
    ASSUME Ready, NEW h \in Holders, NEW d \in Given, SetDefaultValue(h, d)
    PROVE  /\ Changes(holder, holder', h) /\ Keeps(holder', stack, stack')
           /\ Loud(holder, holder', h, stack, stack') /\ Sound(holder, holder', h)
<1> DEFINE r == holder[h]
           v == r.default_value
           keep == v # NONE /\ r.default_forced
           rest == [kind |-> "set_default", holder |-> h, todo |-> {}, default |-> d]
           s == <<rest>> \o stack
           m == Master(holder, h)
<1>1. /\ holder' = IF keep THEN Written(holder, h, v) ELSE holder
      /\ stack' = (IF keep THEN Emission(holder, Emitter(holder, h, v)) ELSE <<>>) \o s
  BY DEF SetDefaultValue
<1>2. v \in Given
  BY ReadyFacts, Fields DEF Given
<1>3. rest \in Frame /\ FrameOK(holder, rest)
  BY DEF Frame, FrameOK, Given
<1> HIDE DEF r, v, rest
<1>4. StackOK(holder, <<rest>>)
  BY <1>3 DEF StackOK
<1>10. StackOK(holder, stack)
  BY DEF Ready
<1>11. Len(<<rest>>) = 1
  OBVIOUS
<1> DEFINE one == <<rest>>
<1> HIDE DEF one
<1>5. /\ StackOK(holder, one \o stack) /\ Len(one \o stack) = Len(one) + Len(stack)
      /\ Len(stack) \in Nat
      /\ \A f, b : Waits(stack, f, b) => Waits(one \o stack, f, b)
  <2>1. StackOK(holder, one)
    BY <1>4 DEF one
  <2> QED BY <2>1, <1>10, StackConcat
<1>12. s = one \o stack /\ Len(one) = 1
  BY <1>11 DEF one
<1>6. s \in Seq(Frame) /\ <<>> \o s = s
  BY <1>5, <1>12 DEF StackOK
<1> HIDE DEF s
<1>13. /\ StackOK(holder, s) /\ Len(s) = 1 + Len(stack) /\ Len(stack) \in Nat
       /\ \A f, b : Waits(stack, f, b) => Waits(s, f, b)
  BY <1>5, <1>12
<1>7. Proper(holder) /\ stack \in Seq(Frame)
  BY DEF Ready, StackOK
<1>8. CASE keep
  <2>1. /\ Changes(holder, holder', h) /\ Keeps(holder', s, stack')
        /\ Loud(holder, holder', h, s, stack') /\ Sound(holder, holder', h)
    BY <1>1, <1>2, <1>13, <1>7, <1>8, WrittenMoves DEF Sound, Excused
  <2>2. Keeps(holder', stack, stack')
    BY <1>13, <1>6, <2>1 DEF Keeps
  <2>3. Loud(holder, holder', h, stack, stack')
    <3>1. Len(stack') > Len(s) => Len(stack') > Len(stack)
      BY <1>13, <1>6, <2>1 DEF Keeps
    <3> QED BY <2>1, <3>1 DEF Loud, Tells
  <2> QED BY <2>1, <2>2, <2>3
<1>9. CASE ~keep
  <2>1. holder' = holder /\ stack' = s
    BY <1>1, <1>6, <1>9
  <2>2. Changes(holder, holder', h)
    BY <1>7, <2>1 DEF Changes, Bindings
  <2>3. Keeps(holder', stack, stack')
    BY <1>13, <1>6, <2>1 DEF Keeps
  <2>4. Loud(holder, holder', h, stack, stack') /\ Sound(holder, holder', h)
    BY <2>1, SameFacts DEF Loud, Sound
  <2> QED BY <2>2, <2>3, <2>4
<1> QED BY <1>8, <1>9

LEMMA SetValueToDefaultEffect ==
    ASSUME Ready, NEW h \in Holders, SetValueToDefault(h)
    PROVE  /\ Changes(holder, holder', h) /\ Keeps(holder', stack, stack')
           /\ Loud(holder, holder', h, stack, stack')
           /\ Sound(holder, holder', h) \/ (~holder[h].valid /\ Master(holder, h) = h)
<1> DEFINE r == holder[h]
           q == [r EXCEPT !.default_forced = TRUE, !.invalid_forced = FALSE, !.value = Null]
           m == Master(holder, h)
<1>1. /\ r.default_value # NONE
      /\ holder' = [holder EXCEPT ![h].default_forced = TRUE,
                                  ![h].invalid_forced = FALSE, ![h].value = Null]
      /\ stack' = Emission(holder, h) \o stack
  BY DEF SetValueToDefault
<1>2. r \in Private /\ Holds(r) /\ Proper(holder) /\ holder \in [Holders -> Private]
  BY ReadyFacts DEF Ready, Proper
<1>3. holder' = [holder EXCEPT ![h] = q]
  BY <1>1, <1>2
<1>4. /\ q \in Private /\ Rest(r, q) /\ q.default_forced /\ ~q.invalid_forced /\ q.value = Null
      /\ (q.valid <=> r.valid)
  BY <1>2 DEF Private, Rest
<1> HIDE DEF q, r
<1>5. Holds(q)
  BY <1>1, <1>4 DEF Holds, Rest
<1>9. /\ StackOK(holder, stack) /\ m \in Holders
      /\ q.full_bind = holder[h].full_bind /\ q.simple_bind = holder[h].simple_bind
  BY <1>4, ReadyFacts DEF Ready, Rest, r
<1>10. LET w == [holder EXCEPT ![h] = q]
           t == Emission(holder, h) \o stack
       IN  /\ Changes(holder, w, h) /\ Keeps(w, stack, t) /\ Loud(holder, w, h, stack, t)
           /\ w[h] = q
  BY <1>2, <1>4, <1>5, <1>9, RecordMoves
<1>6. /\ Changes(holder, holder', h) /\ Keeps(holder', stack, stack')
      /\ Loud(holder, holder', h, stack, stack') /\ holder'[h] = q
  BY <1>1, <1>3, <1>10
<1>7. CASE m # h
  <2>1. holder'[m] = holder[m]
    BY <1>2, <1>3, <1>7, <1>9
  <2> QED BY <1>6, <2>1 DEF Sound
<1>8. CASE m = h /\ r.valid
  <2>1. ~Bad(q) \/ Excused(q)
    BY <1>1, <1>2, <1>4, <1>8, Fields, ValuesAssumption DEF Bad, Ok, Val, Excused, Rest, Nothing
  <2> QED BY <1>6, <1>8, <2>1 DEF Sound
<1> QED BY <1>6, <1>7, <1>8 DEF r

LEMMA SetNotNullEffect ==
    ASSUME Ready, NEW h \in Holders, NEW b \in BOOLEAN, SetNotNull(h, b)
    PROVE  /\ Changes(holder, holder', h) /\ Keeps(holder', stack, stack')
           /\ Loud(holder, holder', h, stack, stack')
           /\ \/ Sound(holder, holder', h)
              \/ Master(holder, h) = h /\ (holder[h].default_forced \/ holder[h].invalid_forced)
<1> DEFINE r == holder[h]
           y == IF r.value = Null THEN ~b ELSE r.valid
           q == [r EXCEPT !.not_null = b, !.valid = y]
           m == Master(holder, h)
<1>1. /\ holder' = [holder EXCEPT ![h].not_null = b,
                        ![h].valid = IF holder[h].value = Null THEN ~b ELSE @]
      /\ stack' = Emission(holder, h) \o stack
  BY DEF SetNotNull
<1>2. r \in Private /\ Holds(r) /\ Proper(holder) /\ holder \in [Holders -> Private]
  BY ReadyFacts DEF Ready, Proper
<1>3. holder' = [holder EXCEPT ![h] = q]
  BY <1>1, <1>2 DEF Private
<1>4. y \in BOOLEAN
  BY <1>2, Fields
<1> HIDE DEF y
<1>5. /\ q \in Private /\ (q.not_null <=> b) /\ (q.valid <=> y) /\ q.value = r.value
      /\ q.default_value = r.default_value /\ (q.default_forced <=> r.default_forced)
      /\ (q.invalid_forced <=> r.invalid_forced)
      /\ q.full_bind = r.full_bind /\ q.simple_bind = r.simple_bind
  BY <1>2, <1>4 DEF Private
<1> HIDE DEF q, r
<1>6. Holds(q)
  BY <1>2, <1>5 DEF Holds
<1>11. /\ StackOK(holder, stack) /\ m \in Holders
       /\ q.full_bind = holder[h].full_bind /\ q.simple_bind = holder[h].simple_bind
  BY <1>5, ReadyFacts DEF Ready, r
<1>12. LET w == [holder EXCEPT ![h] = q]
           t == Emission(holder, h) \o stack
       IN  /\ Changes(holder, w, h) /\ Keeps(w, stack, t) /\ Loud(holder, w, h, stack, t)
           /\ w[h] = q
  BY <1>2, <1>5, <1>6, <1>11, RecordMoves
<1>7. /\ Changes(holder, holder', h) /\ Keeps(holder', stack, stack')
      /\ Loud(holder, holder', h, stack, stack') /\ holder'[h] = q
  BY <1>1, <1>3, <1>12
<1>9. CASE m # h
  <2>1. holder'[m] = holder[m]
    BY <1>2, <1>3, <1>9, <1>11
  <2> QED BY <1>7, <2>1 DEF Sound
<1>10. CASE m = h /\ ~r.default_forced /\ ~r.invalid_forced
  <2>1. ~Bad(r) => ~Bad(q)
    BY <1>2, <1>5, <1>10, Fields, ValuesAssumption DEF Bad, Ok, Val, Nothing, y
  <2> QED BY <1>7, <1>10, <2>1 DEF Sound, r
<1> QED BY <1>7, <1>9, <1>10 DEF r

LEMMA ForcedFacts ==
    ASSUME NEW r \in Private, Holds(r)
    PROVE  LET q == Forced(r) IN
           q \in Private /\ Rest(r, q) /\ Holds(q) /\ ~Bad(q) /\ Val(q) = NONE
<1> DEFINE q == Forced(r)
<1>1. /\ q \in Private /\ Rest(r, q) /\ q.invalid_forced /\ ~q.valid /\ q.value = Null
      /\ (q.default_forced <=> r.default_forced)
  BY DEF Forced, Private, Rest
<1> HIDE DEF q
<1>2. Holds(q)
  BY <1>1 DEF Holds, Rest
<1>3. ~Bad(q) /\ Val(q) = NONE
  BY <1>1 DEF Bad, Ok, Val
<1> QED BY <1>1, <1>2, <1>3 DEF q

LEMMA ForceInvalidEffect ==
    ASSUME Ready, NEW h \in Holders, ForceInvalid(h)
    PROVE  /\ Changes(holder, holder', h) /\ Keeps(holder', stack, stack')
           /\ Loud(holder, holder', h, stack, stack') /\ Sound(holder, holder', h)
<1> DEFINE m == Master(holder, h)
           one == [holder EXCEPT ![h] = Forced(holder[h])]
           w == [one EXCEPT ![m] = Forced(one[m])]
<1>1. /\ holder' = [holder EXCEPT ![h] = Forced(@), ![m] = Forced(@)]
      /\ stack' = (IF holder[m].invalid_forced THEN <<>> ELSE Emission(holder, m)) \o stack
  BY DEF ForceInvalid
<1>2. /\ m \in Holders /\ holder[h] \in Private /\ Holds(holder[h])
      /\ holder[m] \in Private
  BY ReadyFacts
<1>18. holder' = [holder EXCEPT ![h] = Forced(@), ![m] = Forced(@)]
  BY <1>1
<1> HIDE DEF m
<1>3. holder' = w
  <2>1. holder \in [Holders -> Private]
    BY DEF Ready, Proper
  <2>4. Forced(Forced(holder[h])) = Forced(holder[h])
    BY <1>2 DEF Forced, Private
  <2>2. CASE m = h
    BY <1>2, <1>18, <2>1, <2>2, <2>4
  <2>3. CASE m # h
    BY <1>2, <1>18, <2>1, <2>3
  <2> QED BY <2>2, <2>3
<1>4. Proper(holder) /\ StackOK(holder, stack)
  BY DEF Ready
<1>5. Forced(holder[h]) \in Private /\ Holds(Forced(holder[h])) /\ Rest(holder[h], Forced(holder[h]))
  BY <1>2, ForcedFacts
<1>6. Forced(holder[h]).full_bind = holder[h].full_bind
  BY <1>5 DEF Rest
<1>7. /\ Proper(one) /\ one[h] = Forced(holder[h])
      /\ \A g \in Holders : g # h => one[g] = holder[g]
  BY <1>4, <1>5, <1>6, ExceptProper
<1> HIDE DEF one
<1>8. one[m] \in Private /\ Holds(one[m])
  BY <1>2, <1>7 DEF Proper
<1>9. /\ Forced(one[m]) \in Private /\ Holds(Forced(one[m])) /\ Rest(one[m], Forced(one[m]))
      /\ ~Bad(Forced(one[m])) /\ Val(Forced(one[m])) = NONE
  BY <1>8, ForcedFacts
<1>10. Forced(one[m]).full_bind = one[m].full_bind
  BY <1>9 DEF Rest
<1>11. /\ Proper(w) /\ w[m] = Forced(one[m])
       /\ \A g \in Holders : g # m => w[g] = one[g]
  BY <1>2, <1>7, <1>9, <1>10, ExceptProper
<1> HIDE DEF w
<1>12. Bindings(holder, w)
  BY <1>5, <1>7, <1>9, <1>11 DEF Bindings, Rest
<1>13. Changes(holder, w, h)
  BY <1>4, <1>7, <1>11, <1>12 DEF Changes, m
<1>14. StackOK(w, stack) /\ Emission(holder, m) = Emission(w, m)
  BY <1>4, <1>12, StackBindings, EmissionBindings
<1>15. Sound(holder, w, h)
  BY <1>9, <1>11 DEF Sound, m
<1>16. CASE holder[m].invalid_forced
  <2>1. stack' = Emission(w, NONE) \o stack
    BY <1>1, <1>16 DEF Emission
  <2>2. Keeps(w, stack, stack')
    BY <1>2, <1>14, <2>1, EmissionTells
  <2>3. ~Bad(holder[m]) => Val(holder[m]) = NONE
    BY <1>16 DEF Bad, Ok
  <2>4. Loud(holder, w, h, stack, stack')
    BY <1>9, <1>11, <2>3, SameFacts DEF Loud, m
  <2> QED BY <1>3, <1>13, <1>15, <2>2, <2>4
<1>17. CASE ~holder[m].invalid_forced
  <2>1. stack' = Emission(w, m) \o stack
    BY <1>1, <1>14, <1>17
  <2>2. Keeps(w, stack, stack') /\ Tells(w, m, stack, stack')
    BY <1>2, <1>14, <2>1, EmissionTells
  <2>3. Loud(holder, w, h, stack, stack')
    BY <2>2 DEF Loud, m
  <2> QED BY <1>3, <1>13, <1>15, <2>2, <2>3
<1> QED BY <1>16, <1>17

(* A static value: one that is refused leaves the holder valid.            *)
LEMMA RevivedHolds ==
    ASSUME NEW r \in Private, NEW v \in Given, Holds(r), ~Bad(r), Same(v, Val(r)), Accepts(r, v)
    PROVE  /\ ~Bad(Unchanged(r))
           /\ \/ Same(Val(Unchanged(r)), Val(r))
              \/ v \in Nothing /\ r.default_forced /\ ~r.valid
<1> DEFINE q == Unchanged(r)
<1>1. /\ q.default_value = r.default_value /\ q.not_null = r.not_null
      /\ q.full_bind = r.full_bind /\ q.value = r.value
      /\ ~q.invalid_forced /\ q.valid /\ (q.default_forced <=> r.default_forced)
      /\ r.value \in Values \cup {Null}
      /\ r.default_value \in Values \cup {Null, Other, NONE}
  BY Fields, UnchangedFields DEF Rest
<1> HIDE DEF q
<1>2. CASE r.valid
  <2>1. Val(q) = Val(r)
    BY <1>1, <1>2 DEF Val
  <2>2. ~Bad(q)
    BY <1>1, <1>2, <2>1, ValuesAssumption
       DEF Bad, Ok, Same, Nothing, Accepts, Given, Holds, Val
  <2> QED BY <2>1, <2>2, SameFacts DEF q
<1>3. CASE ~r.valid
  <2>1. Val(r) = NONE /\ r.value = Null
    BY <1>3 DEF Val, Bad
  <2>2. v \in Nothing /\ ~r.not_null
    BY <2>1 DEF Same, Accepts, Nothing
  <2>3. ~Bad(q)
    BY <1>1, <2>1, <2>2, ValuesAssumption DEF Bad, Ok, Val, Nothing, Holds
  <2>4. CASE r.default_forced
    BY <1>3, <2>2, <2>3, <2>4 DEF q
  <2>5. CASE ~r.default_forced
    <3>1. Same(Val(q), Val(r))
      BY <1>1, <2>1, <2>5 DEF Val, Same, Nothing
    <3> QED BY <2>3, <3>1 DEF q
  <2> QED BY <2>4, <2>5
<1> QED BY <1>2, <1>3

LEMMA StaticFacts ==
    ASSUME NEW st, Proper(st), NEW h \in Holders, NEW v \in Given
    PROVE  LET q == StaticAssigned(st, h, v) IN
           /\ q \in Private /\ Rest(st[h], q) /\ Holds(q)
           /\ \/ <<h, v>> \notin Refused /\ IsStored(st[h], q, v)
              \/ <<h, v>> \in Refused /\ q = st[h]
              \/ /\ <<h, v>> \in Refused /\ q = Unchanged(st[h])
                 /\ Same(v, GetValue(st, h)) /\ Accepts(st[h], v)
<1> DEFINE q == StaticAssigned(st, h, v)
<1>1. st[h] \in Private /\ Holds(st[h])
  BY DEF Proper
<1>2. CASE <<h, v>> \notin Refused
  <2>1. q = StoredStatic(st[h], v)
    BY <1>2 DEF StaticAssigned, StoredStatic
  <2>2. IsStored(st[h], q, v) /\ q \in Private
    BY <1>1, <2>1, StaticFields DEF IsStored
  <2>3. Rest(st[h], q) /\ Holds(q)
    BY <1>1, <2>2, StoredHolds DEF IsStored
  <2> QED BY <1>2, <2>2, <2>3
<1>3. CASE <<h, v>> \in Refused /\ Same(v, GetValue(st, h)) /\ Accepts(st[h], v)
  <2>1. q = Unchanged(st[h])
    BY <1>3 DEF StaticAssigned, Unchanged
  <2>2. q \in Private /\ Rest(st[h], q) /\ Holds(q)
    BY <1>1, <2>1, UnchangedFields, UnchangedHolds
  <2> QED BY <1>3, <2>1, <2>2
<1>4. CASE <<h, v>> \in Refused /\ ~(Same(v, GetValue(st, h)) /\ Accepts(st[h], v))
  <2>1. q = st[h]
    BY <1>4 DEF StaticAssigned
  <2> QED BY <1>1, <1>4, <2>1 DEF Rest
<1> QED BY <1>2, <1>3, <1>4

(* A static value reaches the holder m it is for: stored, or refused.      *)
Stands(h, v) ==
    LET m == Master(holder, h)
        q == holder'[m]
    IN \/ /\ stack' = Emission(holder, m) \o stack /\ IsStored(holder[m], q, v)
       \/ /\ stack' = Emission(holder, NONE) \o stack
          /\ \/ q = holder[m]
             \/ /\ {<<h, v>>, <<m, v>>} \cap Refused # {}
                /\ q = Unchanged(holder[m])
                /\ Same(v, Val(holder[m])) /\ Accepts(holder[m], v)

LEMMA TakeStaticValueMoves ==
    ASSUME Ready, NEW h \in Holders, NEW v \in Given, TakeStaticValue(h, v)
    PROVE  Changes(holder, holder', h) /\ Stands(h, v)
<1> DEFINE m == Master(holder, h)
           q == StaticAssigned(holder, h, v)
           one == [holder EXCEPT ![h] = q]
           x == StaticAssigned(one, m, v)
           through == <<h, v>> \notin Refused
<1>1. /\ holder' = IF through /\ m # h THEN [one EXCEPT ![m] = x] ELSE one
      /\ stack' = (IF through /\ <<m, v>> \notin Refused THEN Emission(holder, m) ELSE <<>>)
                  \o stack
  BY DEF TakeStaticValue
<1>2. Emission(holder, NONE) = <<>>
  BY DEF Emission
<1>3. Proper(holder)
  BY DEF Ready
<1>4. /\ m \in Holders /\ holder[m].full_bind = NONE /\ Master(holder, m) = m
      /\ GetValue(holder, h) = Val(holder[m])
  BY <1>3, MasterFacts
<1>5. /\ q \in Private /\ Rest(holder[h], q) /\ Holds(q)
      /\ \/ <<h, v>> \notin Refused /\ IsStored(holder[h], q, v)
         \/ <<h, v>> \in Refused /\ q = holder[h]
         \/ /\ <<h, v>> \in Refused /\ q = Unchanged(holder[h])
            /\ Same(v, GetValue(holder, h)) /\ Accepts(holder[h], v)
  BY <1>3, StaticFacts
<1> HIDE DEF m, q, x
<1>6. q.full_bind = holder[h].full_bind /\ q.simple_bind = holder[h].simple_bind
  BY <1>5 DEF Rest
<1>7. /\ Proper(one) /\ one[h] = q /\ \A g \in Holders : g # h => one[g] = holder[g]
  BY <1>3, <1>5, <1>6, ExceptProper
<1> HIDE DEF one
<1>8. CASE through /\ m # h
  <2>1. one[m] = holder[m]
    BY <1>4, <1>7, <1>8
  <2>2. Master(one, m) = m
    BY <1>4, <2>1 DEF Master
  <2>3. GetValue(one, m) = Val(holder[m])
    <3>1. GetValue(one, m) = Val(one[Master(one, m)])
      BY <1>4, <1>7, MasterFacts
    <3> QED BY <2>1, <2>2, <3>1
  <2>4. /\ x \in Private /\ Rest(holder[m], x) /\ Holds(x)
        /\ \/ <<m, v>> \notin Refused /\ IsStored(holder[m], x, v)
           \/ <<m, v>> \in Refused /\ x = holder[m]
           \/ /\ <<m, v>> \in Refused /\ x = Unchanged(holder[m])
              /\ Same(v, Val(holder[m])) /\ Accepts(holder[m], v)
    <3>1. /\ x \in Private /\ Rest(one[m], x) /\ Holds(x)
          /\ \/ <<m, v>> \notin Refused /\ IsStored(one[m], x, v)
             \/ <<m, v>> \in Refused /\ x = one[m]
             \/ /\ <<m, v>> \in Refused /\ x = Unchanged(one[m])
                /\ Same(v, GetValue(one, m)) /\ Accepts(one[m], v)
      BY <1>4, <1>7, StaticFacts DEF x
    <3> QED BY <2>1, <2>3, <3>1
  <2>5. x.full_bind = one[m].full_bind /\ x.simple_bind = holder[m].simple_bind
    BY <2>1, <2>4 DEF Rest
  <2>6. /\ Proper([one EXCEPT ![m] = x]) /\ [one EXCEPT ![m] = x][m] = x
        /\ \A g \in Holders : g # m => [one EXCEPT ![m] = x][g] = one[g]
    BY <1>4, <1>7, <2>4, <2>5, ExceptProper
  <2>7. holder' = [one EXCEPT ![m] = x]
    BY <1>1, <1>8
  <2>8. /\ Proper(holder') /\ holder'[m] = x
        /\ \A g \in Holders : g # m => holder'[g] = one[g]
    BY <2>6, <2>7
  <2>9. Bindings(holder, holder')
    BY <1>6, <1>7, <2>1, <2>5, <2>8 DEF Bindings
  <2>10. Changes(holder, holder', h)
    BY <1>3, <1>7, <2>8, <2>9 DEF Changes, m
  <2>11. CASE <<m, v>> \notin Refused /\ IsStored(holder[m], x, v)
    BY <1>1, <1>8, <2>8, <2>10, <2>11 DEF Stands, m
  <2>12. CASE <<m, v>> \in Refused
    <3>1. {<<h, v>>, <<m, v>>} \cap Refused # {}
      BY <2>12
    <3>2. stack' = Emission(holder, NONE) \o stack
      BY <1>1, <1>2, <2>12
    <3> QED BY <2>4, <2>8, <2>10, <2>12, <3>1, <3>2 DEF Stands, m
  <2> QED BY <2>4, <2>11, <2>12
<1>9. CASE ~(through /\ m # h)
  <2>1. holder' = one
    BY <1>1, <1>9
  <2>2. Bindings(holder, holder')
    BY <1>6, <1>7, <2>1 DEF Bindings
  <2>3. Changes(holder, holder', h)
    BY <1>3, <1>7, <2>1, <2>2 DEF Changes
  <2>4. CASE through
    <3>1. m = h /\ IsStored(holder[m], holder'[m], v)
      BY <1>5, <1>7, <1>9, <2>1, <2>4
    <3>2. stack' = Emission(holder, m) \o stack
      BY <1>1, <2>4, <3>1
    <3> QED BY <2>3, <3>1, <3>2 DEF Stands, m
  <2>5. CASE ~through
    <3>1. stack' = Emission(holder, NONE) \o stack /\ {<<h, v>>, <<m, v>>} \cap Refused # {}
      BY <1>1, <1>2, <2>5
    <3>2. CASE m = h
      <4>1. \/ holder'[m] = holder[m]
            \/ /\ holder'[m] = Unchanged(holder[m])
               /\ Same(v, Val(holder[m])) /\ Accepts(holder[m], v)
        BY <1>4, <1>5, <1>7, <2>1, <2>5, <3>2
      <4> QED BY <2>3, <3>1, <4>1 DEF Stands, m
    <3>3. CASE m # h
      <4>1. holder'[m] = holder[m]
        BY <1>4, <1>7, <2>1, <3>3
      <4> QED BY <2>3, <3>1, <4>1 DEF Stands, m
    <3> QED BY <3>2, <3>3
  <2> QED BY <2>4, <2>5
<1> QED BY <1>8, <1>9

LEMMA TakeStaticValueEffect ==
    ASSUME Ready, NEW h \in Holders, NEW v \in Values \cup {Null, Other}, TakeStaticValue(h, v)
    PROVE  /\ Changes(holder, holder', h) /\ Keeps(holder', stack, stack')
           /\ Loud(holder, holder', h, stack, stack') \/ Revives(h, v)
           /\ Sound(holder, holder', h)
<1> DEFINE m == Master(holder, h)
           q == holder'[m]
<1>1. v \in Given
  BY DEF Given
<1>2. Changes(holder, holder', h) /\ Stands(h, v)
  BY <1>1, TakeStaticValueMoves
<1>3. /\ m \in Holders /\ holder[m] \in Private /\ holder[m].full_bind = NONE
      /\ Holds(holder[m])
  BY MasterFacts DEF Ready, Proper
<1>4. StackOK(holder', stack) /\ \A g : Emission(holder, g) = Emission(holder', g)
  BY <1>2, StackBindings, EmissionBindings DEF Ready, Changes
<1>5. q \in Private
  BY <1>2, <1>3 DEF Changes, Proper
<1>6. CASE stack' = Emission(holder, m) \o stack /\ IsStored(holder[m], q, v)
  <2>1. Keeps(holder', stack, stack') /\ Tells(holder', m, stack, stack')
    BY <1>3, <1>4, <1>6, EmissionTells
  <2>2. ~Bad(q) \/ Excused(q)
    BY <1>1, <1>3, <1>5, <1>6, StoredHolds DEF Excused
  <2> QED BY <1>2, <2>1, <2>2 DEF Loud, Sound
<1>7. CASE stack' = Emission(holder, NONE) \o stack /\ q = holder[m]
  <2>1. Keeps(holder', stack, stack')
    BY <1>3, <1>4, <1>7, EmissionTells
  <2> QED BY <1>2, <1>7, <2>1, SameFacts DEF Loud, Sound
<1>8. CASE /\ stack' = Emission(holder, NONE) \o stack
           /\ {<<h, v>>, <<m, v>>} \cap Refused # {} /\ q = Unchanged(holder[m])
           /\ Same(v, Val(holder[m])) /\ Accepts(holder[m], v)
  <2>1. Keeps(holder', stack, stack')
    BY <1>3, <1>4, <1>8, EmissionTells
  <2>2. ~Bad(holder[m]) =>
           /\ ~Bad(q)
           /\ \/ Same(Val(q), Val(holder[m]))
              \/ v \in Nothing /\ holder[m].default_forced /\ ~holder[m].valid
    BY <1>1, <1>3, <1>8, RevivedHolds
  <2>3. v \in Nothing => v = Null
    BY ValuesAssumption DEF Nothing
  <2>4. Sound(holder, holder', h)
    BY <2>2 DEF Sound
  <2>5. Loud(holder, holder', h, stack, stack') \/ Revives(h, v)
    BY <1>8, <2>2, <2>3 DEF Loud, Revives
  <2> QED BY <1>2, <2>1, <2>4, <2>5
<1> QED BY <1>2, <1>6, <1>7, <1>8 DEF Stands

(* The end of gda_holder_set_default_value().                              *)
LEMMA SetDefaultValueEndsEffect ==
    ASSUME Ready, SetDefaultValueEnds
    PROVE  LET h == Head(stack).holder IN
           /\ h \in Holders
           /\ Changes(holder, holder', h) /\ Keeps(holder', stack', stack')
           /\ \A f, b : Waits(stack, f, b) => Waits(stack', f, b)
           /\ Sound(holder, holder', h) \/ (holder[h].default_forced /\ Master(holder, h) = h)
<1> DEFINE h == Head(stack).holder
           d == Head(stack).default
           r == holder[h]
           m == Master(holder, h)
           without == [holder EXCEPT ![h].default_forced = FALSE, ![h].default_value = NONE]
           current == GetValue(without, h)
           i == IsDefault([r EXCEPT !.default_value = d], current)
           q == [r EXCEPT !.default_forced = i, !.default_value = d]
<1>1. /\ stack # <<>> /\ Head(stack).kind = "set_default" /\ stack' = Tail(stack)
      /\ holder' = [without EXCEPT ![h].default_value = d, ![h].default_forced = i]
  BY DEF SetDefaultValueEnds
<1>2. /\ Head(stack) \in Frame /\ FrameOK(holder, Head(stack)) /\ StackOK(holder, Tail(stack))
      /\ Head(stack).todo = {} => \A f, b : Waits(stack, f, b) => Waits(Tail(stack), f, b)
  BY <1>1, StackTail DEF Ready
<1>3. h \in Holders /\ d \in Values \cup {Null, Other, NONE} /\ Head(stack).todo = {}
  BY <1>1, <1>2, FrameFields DEF FrameOK
<1> HIDE DEF h, d
<1>4. /\ r \in Private /\ Holds(r) /\ m \in Holders /\ Proper(holder)
      /\ holder \in [Holders -> Private]
  BY <1>3, ReadyFacts DEF Ready, Proper
<1>5. ASSUME m = h, ~r.default_forced PROVE current = Val(r)
  <2>1. /\ without[h].full_bind = r.full_bind /\ without[h].valid = r.valid
        /\ without[h].value = r.value /\ without[h].default_forced = FALSE
    BY <1>3, <1>4 DEF Private
  <2>2. Master(without, h) = h
    BY <1>3, <1>5, <2>1, HoldersAssumption DEF Master
  <2> HIDE DEF without
  <2>3. GetValue(without, h) = IF ~r.valid THEN NONE ELSE r.value
    BY <2>1, <2>2 DEF GetValue
  <2> QED BY <1>5, <2>3 DEF Val
<1>6. /\ i \in BOOLEAN
      /\ i <=> ((d = Null /\ current \in Nothing) \/ (d \in Values /\ current = d))
  <2> HIDE DEF current, r
  <2>1. [r EXCEPT !.default_value = d].default_value = d
    BY <1>4 DEF Private
  <2> QED BY <2>1 DEF IsDefault
<1> HIDE DEF i
<1>7. holder' = [holder EXCEPT ![h] = q]
  <2>1. without \in [Holders -> Private] /\ without[h] = [r EXCEPT !.default_forced = FALSE, !.default_value = NONE]
        /\ \A g \in Holders : g # h => without[g] = holder[g]
    BY <1>3, <1>4 DEF Private
  <2>4. without[h] = [r EXCEPT !.default_forced = FALSE, !.default_value = NONE]
    BY <2>1
  <2> HIDE DEF r, without
  <2>2. [without[h] EXCEPT !.default_value = d, !.default_forced = i] = q
    BY <1>4, <2>4 DEF Private
  <2> HIDE DEF q
  <2>3. holder' = [without EXCEPT ![h] = q]
    BY <1>1, <1>3, <2>1, <2>2
  <2> QED BY <1>3, <1>4, <2>1, <2>3
<1>8. /\ q \in Private /\ (q.default_forced <=> i) /\ q.default_value = d
      /\ q.value = r.value /\ (q.valid <=> r.valid) /\ (q.not_null <=> r.not_null)
      /\ (q.invalid_forced <=> r.invalid_forced)
      /\ q.full_bind = holder[h].full_bind /\ q.simple_bind = holder[h].simple_bind
  BY <1>3, <1>4, <1>6 DEF Private
<1> HIDE DEF q, r, current, without
<1>9. Holds(q)
  BY <1>4, <1>6, <1>8, ValuesAssumption DEF Holds, r
<1>10. /\ Proper(holder') /\ holder'[h] = q
       /\ \A g \in Holders : g # h => holder'[g] = holder[g]
  <2>1. /\ Proper([holder EXCEPT ![h] = q]) /\ [holder EXCEPT ![h] = q][h] = q
        /\ \A g \in Holders : g # h => [holder EXCEPT ![h] = q][g] = holder[g]
    BY <1>3, <1>4, <1>8, <1>9, ExceptProper
  <2> QED BY <1>7, <2>1
<1>11. Bindings(holder, holder')
  BY <1>8, <1>10 DEF Bindings
<1>12. Changes(holder, holder', h)
  BY <1>4, <1>10, <1>11 DEF Changes
<1>13. StackOK(holder', stack')
  BY <1>1, <1>2, <1>11, StackBindings
<1>14. Keeps(holder', stack', stack')
  BY <1>13 DEF Keeps, StackOK
<1>15. CASE m # h
  <2>1. Sound(holder, holder', h)
    BY <1>4, <1>10, <1>15 DEF Sound
  <2> QED BY <1>1, <1>2, <1>3, <1>12, <1>14, <2>1 DEF h
<1>16. CASE m = h /\ ~r.default_forced
  <2>1. i <=> ((d = Null /\ Val(r) \in Nothing) \/ (d \in Values /\ Val(r) = d))
    BY <1>5, <1>6, <1>16 DEF r
  <2>2. ~Bad(r) => ~Bad(q) \/ Excused(q)
    BY <1>3, <1>4, <1>8, <1>16, <2>1, Fields, ValuesAssumption
       DEF Bad, Ok, Val, Excused, Nothing
  <2>3. Sound(holder, holder', h)
    BY <1>10, <1>16, <2>2 DEF Sound, r
  <2> QED BY <1>1, <1>2, <1>3, <1>12, <1>14, <2>3 DEF h
<1>17. CASE m = h /\ r.default_forced
  BY <1>1, <1>2, <1>3, <1>12, <1>14, <1>17 DEF h, r
<1> QED BY <1>15, <1>16, <1>17

(* gda_holder_set_bind(): the same values, until the holder is given one.  *)
LEMMA BoundFacts ==
    ASSUME Ready, NEW h \in Holders, NEW b \in Holders \cup {NONE}
    PROVE  LET st == [holder EXCEPT ![h].simple_bind = b] IN
           /\ Proper(st) /\ st[h].simple_bind = b
           /\ \A g \in Holders \ {h} : st[g].simple_bind = holder[g].simple_bind
           /\ \A g \in Holders : /\ st[g].full_bind = holder[g].full_bind
                                 /\ Master(st, g) = Master(holder, g)
                                 /\ GetValue(st, g) = GetValue(holder, g)
                                 /\ Val(st[g]) = Val(holder[g]) /\ (Bad(st[g]) <=> Bad(holder[g]))
           /\ StackOK(st, Without(stack, "simple_bind", h))
           /\ Len(Without(stack, "simple_bind", h)) = Len(stack)
           /\ \A f, x : Waits(stack, f, x) => Waits(Without(stack, "simple_bind", h), f, x) \/ f = h
<1> DEFINE r == holder[h]
           q == [r EXCEPT !.simple_bind = b]
           st == [holder EXCEPT ![h].simple_bind = b]
<1>1. /\ r \in Private /\ Holds(r) /\ Proper(holder) /\ StackOK(holder, stack)
      /\ holder \in [Holders -> Private]
  BY ReadyFacts DEF Ready, Proper
<1>2. st = [holder EXCEPT ![h] = q]
  BY <1>1
<1>3. /\ q \in Private /\ q.simple_bind = b /\ q.full_bind = holder[h].full_bind
      /\ q.value = r.value /\ q.default_value = r.default_value
      /\ q.valid = r.valid /\ q.invalid_forced = r.invalid_forced
      /\ q.default_forced = r.default_forced /\ q.not_null = r.not_null
  BY <1>1 DEF Private
<1> HIDE DEF q, st
<1>4. Holds(q) /\ Val(q) = Val(r) /\ (Bad(q) <=> Bad(r))
  BY <1>1, <1>3 DEF Holds, Val, Bad, Ok
<1>5. /\ Proper([holder EXCEPT ![h] = q]) /\ [holder EXCEPT ![h] = q][h] = q
      /\ \A g \in Holders : g # h => [holder EXCEPT ![h] = q][g] = holder[g]
  BY <1>1, <1>3, <1>4, ExceptProper
<1>6. Proper(st) /\ st[h] = q /\ \A g \in Holders : g # h => st[g] = holder[g]
  BY <1>2, <1>5
<1>7. \A g \in Holders : Val(st[g]) = Val(holder[g]) /\ (Bad(st[g]) <=> Bad(holder[g]))
  BY <1>4, <1>6
<1>8. \A g \in Holders : st[g].full_bind = holder[g].full_bind
  BY <1>3, <1>6
<1>9. \A g \in Holders : Master(st, g) = Master(holder, g)
  BY <1>8 DEF Master
<1>10. ASSUME NEW g \in Holders PROVE GetValue(st, g) = GetValue(holder, g)
  <2>1. /\ Master(holder, g) \in Holders
        /\ GetValue(holder, g) = Val(holder[Master(holder, g)])
    BY <1>1, MasterFacts
  <2>2. GetValue(st, g) = Val(st[Master(st, g)])
    BY <1>6, MasterFacts
  <2> QED BY <1>7, <1>9, <2>1, <2>2
<1>11. \A g \in Holders : g # h => st[g].simple_bind = holder[g].simple_bind
  BY <1>6
<1>12. /\ StackOK(st, Without(stack, "simple_bind", h))
       /\ Len(Without(stack, "simple_bind", h)) = Len(stack)
       /\ \A f, x : Waits(stack, f, x) =>
             \/ Waits(Without(stack, "simple_bind", h), f, x)
             \/ "simple_bind" = "simple_bind" /\ f = h
             \/ "simple_bind" = "full_bind" /\ x = h
  BY <1>1, <1>8, <1>11, StackWithout
<1> QED BY <1>3, <1>6, <1>7, <1>8, <1>9, <1>10, <1>11, <1>12 DEF st

LEMMA SetBindEffect ==
    ASSUME Ready, NEW h \in Holders, NEW b \in Holders \cup {NONE}, SetBind(h, b)
    PROVE  LET st == [holder EXCEPT ![h].simple_bind = b]
               s == Without(stack, "simple_bind", h)
           IN
           /\ Changes(st, holder', h) /\ Keeps(holder', s, stack')
           /\ Loud(st, holder', h, s, stack') /\ Sound(st, holder', h)
<1> DEFINE st == [holder EXCEPT ![h].simple_bind = b]
           s == Without(stack, "simple_bind", h)
           v == IF b = NONE THEN GetValue(holder, h) ELSE GetValue(holder, b)
<1>1. /\ holder' = Written(st, h, v)
      /\ stack' = Emission(st, Emitter(st, h, v)) \o s
  BY DEF SetBind
<1>2. v \in Given
  BY ReadyFacts
<1>3. Proper(st) /\ StackOK(st, s)
  BY BoundFacts
<1> HIDE DEF st, s, v
<1>4. /\ Changes(st, holder', h) /\ Keeps(holder', s, stack')
      /\ Loud(st, holder', h, s, stack') /\ Sound(st, holder', h)
  BY <1>1, <1>2, <1>3, WrittenMoves DEF Sound, Excused
<1> QED BY <1>4 DEF st, s

(* The handlers.                                                           *)
LEMMA BoundHolderChangedEffect ==
    ASSUME Ready, NEW g \in Holders, BoundHolderChanged(g)
    PROVE  LET b == Head(stack).holder
               s == Called("simple_bind", g)
           IN
           /\ b \in Holders /\ holder[g].simple_bind = b /\ holder' = Written(holder, g, GetValue(holder, b))
           /\ Changes(holder, holder', g) /\ Keeps(holder', s, stack')
           /\ Loud(holder, holder', g, s, stack') /\ Sound(holder, holder', g)
           /\ Len(s) = Len(stack)
           /\ \A f, x : Waits(stack, f, x) => Waits(s, f, x) \/ f = g
<1> DEFINE b == Head(stack).holder
           s == Called("simple_bind", g)
           v == GetValue(holder, b)
<1>1. /\ stack # <<>> /\ <<"simple_bind", g>> \in Head(stack).todo
      /\ holder' = Written(holder, g, v)
      /\ stack' = Emission(holder, Emitter(holder, g, v)) \o s
  BY DEF BoundHolderChanged, Emitting
<1>2. Proper(holder) /\ StackOK(holder, stack)
  BY DEF Ready
<1>3. Head(stack) \in Frame /\ FrameOK(holder, Head(stack))
  BY <1>1, <1>2, StackTail
<1>4. b \in Holders /\ holder[g].simple_bind = b
  BY <1>1, <1>3, FrameFields DEF FrameOK
<1>5. v \in Given
  BY <1>4, ReadyFacts
<1>6. /\ StackOK(holder, s) /\ Len(s) = Len(stack)
      /\ \A f, x : Waits(stack, f, x) =>
            \/ Waits(s, f, x)
            \/ "simple_bind" = "simple_bind" /\ f = g
            \/ "simple_bind" = "full_bind" /\ x = g
  BY <1>1, <1>2, StackCalled
<1> HIDE DEF s, v
<1>7. /\ Changes(holder, holder', g) /\ Keeps(holder', s, stack')
      /\ Loud(holder, holder', g, s, stack') /\ Sound(holder, holder', g)
  BY <1>1, <1>2, <1>5, <1>6, WrittenMoves DEF Sound, Excused
<1> QED BY <1>1, <1>4, <1>6, <1>7 DEF s, v

LEMMA FullBoundHolderChangedEffect ==
    ASSUME Ready, NEW g \in Holders, FullBoundHolderChanged(g)
    PROVE  LET s == Called("full_bind", g) IN
           /\ holder' = holder /\ strayed' = strayed
           /\ StackOK(holder, stack')
           /\ \A f \in Holders : \A x : holder[f].simple_bind = x /\ Waits(stack, f, x) => Waits(stack', f, x)
<1> DEFINE s == Called("full_bind", g)
<1>1. /\ stack # <<>> /\ holder' = holder /\ strayed' = strayed
      /\ stack' = Emission(holder, g) \o s
  BY DEF FullBoundHolderChanged, Emitting
<1>2. Proper(holder) /\ StackOK(holder, stack)
  BY DEF Ready
<1>3. /\ StackOK(holder, s) /\ Len(s) = Len(stack)
      /\ \A f, x : Waits(stack, f, x) =>
            \/ Waits(s, f, x)
            \/ "full_bind" = "simple_bind" /\ f = g
            \/ "full_bind" = "full_bind" /\ x = g
  BY <1>1, <1>2, StackCalled
<1> HIDE DEF s
<1>4. Keeps(holder, s, stack') /\ Tells(holder, g, s, stack')
  BY <1>1, <1>3, EmissionTells
<1>5. ASSUME NEW f \in Holders, NEW x, holder[f].simple_bind = x, Waits(stack, f, x)
      PROVE  Waits(stack', f, x)
  <2>1. CASE Waits(s, f, x)
    BY <1>4, <2>1 DEF Keeps
  <2>2. CASE x = g
    BY <1>4, <1>5, <2>2 DEF Tells
  <2> QED BY <1>3, <1>5, <2>1, <2>2
<1> QED BY <1>1, <1>4, <1>5 DEF Keeps

LEMMA EndsEffect ==
    ASSUME Ready, EmissionEnds
    PROVE  /\ holder' = holder /\ strayed' = strayed
           /\ StackOK(holder, stack')
           /\ \A f, x : Waits(stack, f, x) => Waits(stack', f, x)
<1>1. /\ stack # <<>> /\ Head(stack).todo = {} /\ stack' = Tail(stack)
      /\ holder' = holder /\ strayed' = strayed
  BY DEF EmissionEnds, Emitting
<1>2. StackOK(holder, stack)
  BY DEF Ready
<1> QED BY <1>1, <1>2, StackTail

-----------------------------------------------------------------------------
(* A holder that has not strayed has the value of the one it is bound to,  *)
(* or it is to be told.                                                    *)
Follow(st, s, f) ==
    LET b == st[f].simple_bind
    IN b # NONE => Same(GetValue(st, f), GetValue(st, b)) \/ Waits(s, f, b)

FollowsInv == \A f \in Holders \ strayed : Follow(holder, stack, f)

IInv == Ready /\ FollowsInv

(* It still does after a call for another holder, unless its own value is  *)
(* in the same place, or the other's is and nobody is told.                *)
LEMMA StillFollows ==
    ASSUME NEW st, NEW w, NEW s, NEW t, NEW h \in Holders, NEW f \in Holders, NEW b \in Holders,
           Changes(st, w, h), Keeps(w, s, t), st[f].simple_bind = b,
           Master(st, f) # Master(st, h),
           Master(st, b) = Master(st, h) => ~Bad(st[Master(st, h)]) /\ Loud(st, w, h, s, t),
           Follow(st, s, f)
    PROVE  Follow(w, t, f)
<1> DEFINE m == Master(st, h)
<1>1. b # NONE /\ Proper(st) /\ Proper(w) /\ Bindings(st, w)
  BY HoldersAssumption DEF Changes
<1>2. /\ Master(st, f) \in Holders /\ GetValue(st, f) = Val(st[Master(st, f)])
      /\ Master(st, b) \in Holders /\ GetValue(st, b) = Val(st[Master(st, b)])
      /\ Master(st, Master(st, f)) = Master(st, f)
      /\ Master(st, Master(st, b)) = Master(st, b)
      /\ m \in Holders /\ (b # Master(st, b) => st[b].full_bind = Master(st, b))
  BY <1>1, MasterFacts
<1>3. Master(w, f) = Master(st, f) /\ Master(w, b) = Master(st, b)
  BY <1>1, BindingsMaster
<1>4. /\ GetValue(w, f) = Val(w[Master(st, f)]) /\ GetValue(w, b) = Val(w[Master(st, b)])
  BY <1>1, <1>3, MasterFacts
<1>5. Same(GetValue(st, f), GetValue(st, b)) \/ Waits(s, f, b)
  BY <1>1 DEF Follow
<1>6. w[f].simple_bind = b /\ w[b].full_bind = st[b].full_bind
  BY <1>1 DEF Bindings
<1>7. Waits(s, f, b) => Waits(t, f, b)
  BY DEF Keeps
<1>8. \A g \in Holders : Master(st, g) = g /\ g # m => w[g] = st[g]
  <2>1. ASSUME NEW g \in Holders, Master(st, g) = g, g # m PROVE g # h
    BY <2>1
  <2> QED BY <2>1 DEF Changes
<1>9. GetValue(w, f) = GetValue(st, f)
  BY <1>2, <1>4, <1>8
<1>10. CASE Master(st, b) # m
  <2>1. GetValue(w, b) = GetValue(st, b)
    BY <1>2, <1>4, <1>8, <1>10
  <2> QED BY <1>5, <1>6, <1>7, <1>9, <2>1 DEF Follow
<1>11. CASE Master(st, b) = m
  <2>1. Same(Val(w[m]), Val(st[m])) \/ Tells(w, m, s, t)
    BY <1>11 DEF Loud
  <2>2. CASE Same(Val(w[m]), Val(st[m]))
    <3>1. Same(GetValue(st, b), GetValue(w, b))
      BY <1>2, <1>4, <1>11, <2>2, SameFacts
    <3>2. Same(GetValue(st, f), GetValue(st, b)) => Same(GetValue(w, f), GetValue(w, b))
      BY <1>9, <3>1, SameFacts
    <3> QED BY <1>5, <1>6, <1>7, <3>2 DEF Follow
  <2>3. CASE Tells(w, m, s, t)
    <3>1. b = m => Waits(t, f, b)
      BY <1>6, <2>3 DEF Tells
    <3>2. b # m => Waits(t, f, b)
      BY <1>2, <1>6, <1>11, <2>3 DEF Tells
    <3> QED BY <1>6, <3>1, <3>2 DEF Follow
  <2> QED BY <2>1, <2>2, <2>3
<1> QED BY <1>10, <1>11

(* Those who are not among the touched.                                    *)
LEMMA UntouchedFacts ==
    ASSUME Ready, NEW h \in Holders, NEW f \in Holders, NEW b \in Holders,
           holder[f].simple_bind = b, f \notin Touched(h)
    PROVE  /\ Master(holder, f) # Master(holder, h)
           /\ Master(holder, b) = Master(holder, h) =>
                 ~Bad(holder[Master(holder, h)]) /\ f \in Followers(h)
<1>1. b # NONE
  BY HoldersAssumption
<1>2. Contradicts(holder, h) <=> Bad(holder[Master(holder, h)])
  BY MasterFacts DEF Ready
<1>3. Master(holder, f) # Master(holder, h)
  BY <1>1 DEF Touched, Family
<1>4. Master(holder, b) = Master(holder, h) => f \in Followers(h)
  BY DEF Followers, Family
<1>5. Contradicts(holder, h) => f \notin Followers(h)
  BY DEF Touched
<1> QED BY <1>2, <1>3, <1>4, <1>5

(* So a call for h leaves everyone where they were, but for one holder x   *)
(* who is looked at on its own.                                            *)
LEMMA CallFollows ==
    ASSUME IInv, NEW h \in Holders, NEW s, NEW x,
           Changes(holder, holder', h), Keeps(holder', s, stack'),
           \A f, b : f # x /\ Waits(stack, f, b) => Waits(s, f, b),
           Loud(holder, holder', h, s, stack') \/ Followers(h) \subseteq strayed',
           strayed \ {x} \subseteq strayed', Touched(h) \ {x} \subseteq strayed'
    PROVE  \A f \in Holders \ strayed' : f # x => Follow(holder', stack', f)
<1> SUFFICES ASSUME NEW f \in Holders, f \notin strayed', f # x, holder'[f].simple_bind # NONE
             PROVE  Follow(holder', stack', f)
  BY DEF Follow
<1> DEFINE b == holder[f].simple_bind
<1>1. Ready /\ f \notin strayed /\ f \notin Touched(h) /\ Follow(holder, stack, f)
  BY DEF IInv, FollowsInv
<1>2. holder'[f].simple_bind = b /\ b \in Holders
  BY <1>1, ReadyFacts, Fields DEF Changes, Bindings
<1>3. /\ Master(holder, f) # Master(holder, h)
      /\ Master(holder, b) = Master(holder, h) =>
            ~Bad(holder[Master(holder, h)]) /\ f \in Followers(h)
  BY <1>1, <1>2, UntouchedFacts
<1>4. f \in Followers(h) => Loud(holder, holder', h, s, stack')
  OBVIOUS
<1>5. Follow(holder, s, f)
  BY <1>1 DEF Follow
<1> HIDE DEF b
<1>6. holder[f].simple_bind = b
  BY DEF b
<1> QED BY <1>2, <1>3, <1>4, <1>5, <1>6, StillFollows

(* gda_holder_set_full_bind(): a holder that is or becomes an alias has no *)
(* alias itself, so that no other holder's value is another one.           *)
LEMMA SetFullBindRecords ==
    ASSUME Ready, NEW h \in Holders, NEW a \in Holders \cup {NONE}, SetFullBind(h, a)
    PROVE  /\ Proper(holder') /\ holder'[h].full_bind = a
           /\ \A g \in Holders : holder'[g].simple_bind = holder[g].simple_bind
           /\ \A g \in Holders \ {h} : holder'[g] = holder[g]
           /\ \A g \in Holders \ {h} : /\ Master(holder, g) # h /\ Master(holder', g) # h
                                       /\ Master(holder', g) = Master(holder, g)
                                       /\ GetValue(holder', g) = GetValue(holder, g)
           /\ a # NONE => GetValue(holder', h) = GetValue(holder, a) /\ Master(holder', h) # h
           /\ a = NONE => Master(holder, h) # h
<1> DEFINE r == holder[h]
           own == GetValue(holder, h)
           v == IF a = NONE /\ own \in Values THEN own ELSE Null
           q == [r EXCEPT !.full_bind = a, !.value = v]
<1>1. /\ r.full_bind # a /\ (a = NONE \/ <<h, a>> \in FullBinds)
      /\ holder' = [holder EXCEPT ![h].full_bind = a, ![h].value = v]
  BY DEF SetFullBind
<1>2. r \in Private /\ Proper(holder) /\ holder \in [Holders -> Private]
  BY ReadyFacts DEF Ready, Proper
<1>3. v \in Values \cup {Null}
  OBVIOUS
<1> HIDE DEF v, own
<1>4. holder' = [holder EXCEPT ![h] = q]
  BY <1>1, <1>2
<1>5. /\ q \in Private /\ q.full_bind = a /\ q.value = v /\ q.simple_bind = r.simple_bind
      /\ (q.default_forced <=> r.default_forced) /\ q.default_value = r.default_value
  BY <1>2, <1>3 DEF Private
<1>6. /\ holder' \in [Holders -> Private] /\ holder'[h] = q
      /\ \A g \in Holders : g # h => holder'[g] = holder[g]
  BY <1>2, <1>4, <1>5
<1> HIDE DEF q
<1>7. Holds(q)
  <2>1. Holds(r)
    BY <1>2 DEF Proper
  <2> QED BY <1>5, <2>1 DEF Holds, v
<1> HIDE DEF r
<1>8. Proper(holder')
  <2>1. \A g \in Holders : Holds(holder'[g])
    BY <1>2, <1>6, <1>7 DEF Proper
  <2>2. \A g \in Holders : holder'[g].full_bind # NONE => <<g, holder'[g].full_bind>> \in FullBinds
    BY <1>1, <1>2, <1>5, <1>6 DEF Proper
  <2> QED BY <1>6, <2>1, <2>2 DEF Proper
<1>9. \E c : <<h, c>> \in FullBinds
  <2>1. r.full_bind # NONE => <<h, r.full_bind>> \in FullBinds
    BY <1>2 DEF Proper, r
  <2> QED BY <1>1, <2>1
<1>10. \A g : <<g, h>> \notin FullBinds
  <2> SUFFICES ASSUME NEW g, <<g, h>> \in FullBinds PROVE FALSE
    OBVIOUS
  <2>1. PICK c : <<h, c>> \in FullBinds
    BY <1>9
  <2>2. <<g, h>>[2] # <<h, c>>[1]
    BY <2>1, BindsAssumption
  <2> QED BY <2>2
<1>11. ASSUME NEW g \in Holders, g # h
       PROVE  /\ Master(holder, g) # h /\ Master(holder', g) = Master(holder, g)
              /\ GetValue(holder', g) = GetValue(holder, g)
  <2>1. /\ Master(holder, g) \in Holders /\ GetValue(holder, g) = Val(holder[Master(holder, g)])
        /\ (Master(holder, g) # g => holder[g].full_bind = Master(holder, g))
    BY <1>2, MasterFacts
  <2>2. holder[g].full_bind # NONE => <<g, holder[g].full_bind>> \in FullBinds
    BY <1>2 DEF Proper
  <2>3. Master(holder, g) # h
    BY <1>10, <1>11, <2>1, <2>2, HoldersAssumption
  <2>4. Master(holder', g) = Master(holder, g)
    BY <1>6, <1>11 DEF Master
  <2>5. GetValue(holder', g) = Val(holder'[Master(holder', g)])
    BY <1>8, MasterFacts
  <2> QED BY <1>6, <2>1, <2>3, <2>4, <2>5
<1>12. ASSUME a # NONE PROVE GetValue(holder', h) = GetValue(holder, a) /\ Master(holder', h) # h
  <2>1. <<h, a>> \in FullBinds /\ a \in Holders /\ a # h
    BY <1>1, <1>12, NoSelf
  <2>2. holder'[h].full_bind = a /\ Master(holder', h) = a
    BY <1>5, <1>6, <1>12 DEF Master
  <2>3. GetValue(holder', h) = Val(holder'[a]) /\ holder'[a].full_bind = NONE
    BY <1>8, <2>2, MasterFacts
  <2>4. GetValue(holder', a) = Val(holder'[a])
    <3>1. Master(holder', a) = a
      BY <2>3 DEF Master
    <3> QED BY <1>8, <2>1, <3>1, MasterFacts
  <2> QED BY <1>11, <2>1, <2>2, <2>3, <2>4
<1>13. a = NONE => Master(holder, h) # h
  <2>1. ASSUME a = NONE PROVE r.full_bind # h /\ r.full_bind # NONE
    BY <1>1, <1>2, <1>10, <2>1 DEF Proper, r
  <2> QED BY <2>1 DEF Master, r
<1> QED BY <1>5, <1>6, <1>8, <1>11, <1>12, <1>13 DEF r

LEMMA SetFullBindStack ==
    ASSUME Ready, NEW h \in Holders, NEW a \in Holders \cup {NONE}, SetFullBind(h, a)
    PROVE  LET s == Without(stack, "full_bind", h) IN
           /\ Keeps(holder', s, stack') /\ Len(s) = Len(stack)
           /\ a # NONE => \/ Same(GetValue(holder', h), GetValue(holder, h))
                          \/ Tells(holder', h, s, stack')
           /\ \A f, x : Waits(stack, f, x) =>
                 Waits(s, f, x) \/ (x = h /\ holder[h].full_bind # NONE)
<1> DEFINE s == Without(stack, "full_bind", h)
           differs == ~Same(GetValue(holder, h), GetValue(holder, a))
<1>1. stack' = (IF a # NONE /\ differs THEN Emission(holder', h) ELSE <<>>) \o s
  BY DEF SetFullBind
<1>2. /\ \A g \in Holders : holder'[g].simple_bind = holder[g].simple_bind
      /\ \A g \in Holders \ {h} : holder'[g] = holder[g]
      /\ a # NONE => GetValue(holder', h) = GetValue(holder, a)
  BY SetFullBindRecords
<1>3. StackOK(holder, stack) /\ Proper(holder)
  BY DEF Ready
<1>4. \A g \in Holders : g # h => holder'[g].full_bind = holder[g].full_bind
  BY <1>2
<1>5. /\ StackOK(holder', s) /\ Len(s) = Len(stack)
      /\ \A f, x : Waits(stack, f, x) =>
            \/ Waits(s, f, x)
            \/ "full_bind" = "simple_bind" /\ f = h
            \/ "full_bind" = "full_bind" /\ x = h
  BY <1>2, <1>3, <1>4, StackWithout
<1>6. Emission(holder', NONE) = <<>>
  BY DEF Emission
<1> HIDE DEF s
<1>7. Keeps(holder', s, Emission(holder', h) \o s) /\ Tells(holder', h, s, Emission(holder', h) \o s)
      /\ Keeps(holder', s, <<>> \o s)
  BY <1>5, <1>6, EmissionTells
<1>8. Keeps(holder', s, stack')
  BY <1>1, <1>7
<1>9. ASSUME a # NONE
      PROVE  \/ Same(GetValue(holder', h), GetValue(holder, h))
             \/ Tells(holder', h, s, stack')
  <2>1. CASE differs
    BY <1>1, <1>7, <1>9, <2>1
  <2>2. CASE ~differs
    BY <1>2, <1>9, <2>2, SameFacts
  <2> QED BY <2>1, <2>2
<1>10. ASSUME NEW f, Waits(stack, f, h), holder[h].full_bind = NONE PROVE Waits(s, f, h)
  <2>1. PICK i \in 1..Len(stack) : <<"simple_bind", f>> \in stack[i].todo \/ <<"full_bind", h>> \in stack[i].todo
    BY <1>10 DEF Waits
  <2>2. stack[i] \in Frame /\ FrameOK(holder, stack[i])
    BY <1>3 DEF StackOK
  <2>3. stack[i].holder \in Holders
    BY <2>2, FrameFields
  <2>4. <<"simple_bind", f>> \in stack[i].todo
    BY <1>10, <2>1, <2>2, <2>3, HoldersAssumption DEF FrameOK
  <2>5. Waits(stack, f, NONE)
    BY <2>4 DEF Waits
  <2>6. Waits(s, f, NONE)
    BY <1>5, <2>5, HoldersAssumption
  <2>7. PICK j \in 1..Len(s) : <<"simple_bind", f>> \in s[j].todo \/ <<"full_bind", NONE>> \in s[j].todo
    BY <2>6 DEF Waits
  <2>8. s[j] \in Frame
    BY <1>5 DEF StackOK
  <2>9. <<"simple_bind", f>> \in s[j].todo
    BY <2>7, <2>8, FrameFields, HoldersAssumption
  <2> QED BY <2>9 DEF Waits
<1> QED BY <1>5, <1>8, <1>9, <1>10 DEF s

LEMMA SetFullBindFollows ==
    ASSUME IInv, NEW h \in Holders, NEW a \in Holders \cup {NONE}, SetFullBind(h, a)
    PROVE  \A f \in Holders \ strayed' : Follow(holder', stack', f)
<1> SUFFICES ASSUME NEW f \in Holders, f \notin strayed', holder'[f].simple_bind # NONE
             PROVE  Follow(holder', stack', f)
  BY DEF Follow
<1> DEFINE b == holder[f].simple_bind
           s == Without(stack, "full_bind", h)
<1>1. /\ strayed' = strayed \cup Touched(h) \cup
             (IF a = NONE \/ holder[h].full_bind # NONE THEN Followers(h) ELSE {})
  BY DEF SetFullBind
<1>2. Ready /\ Follow(holder, stack, f) /\ f \notin Touched(h)
  BY <1>1 DEF IInv, FollowsInv
<1>3. /\ \A g \in Holders : holder'[g].simple_bind = holder[g].simple_bind
      /\ \A g \in Holders \ {h} : GetValue(holder', g) = GetValue(holder, g)
  BY <1>2, SetFullBindRecords
<1>4. /\ Keeps(holder', s, stack')
      /\ a # NONE => \/ Same(GetValue(holder', h), GetValue(holder, h))
                     \/ Tells(holder', h, s, stack')
      /\ \A g, x : Waits(stack, g, x) =>
            Waits(s, g, x) \/ (x = h /\ holder[h].full_bind # NONE)
  BY <1>2, SetFullBindStack
<1>5. b \in Holders /\ b # NONE /\ holder'[f].simple_bind = b
  BY <1>2, <1>3, ReadyFacts, Fields
<1>6. /\ Master(holder, f) # Master(holder, h)
      /\ Master(holder, b) = Master(holder, h) => f \in Followers(h)
  BY <1>2, <1>5, UntouchedFacts
<1>7. f # h /\ GetValue(holder', f) = GetValue(holder, f)
  BY <1>3, <1>6
<1>8. Same(GetValue(holder, f), GetValue(holder, b)) \/ Waits(stack, f, b)
  BY <1>2, <1>5 DEF Follow
<1> HIDE DEF b, s
<1>9. Waits(s, f, b) => Waits(stack', f, b)
  BY <1>4 DEF Keeps
<1>10. CASE b # h
  <2>1. GetValue(holder', b) = GetValue(holder, b)
    BY <1>3, <1>5, <1>10
  <2> QED BY <1>4, <1>5, <1>7, <1>8, <1>9, <1>10, <2>1 DEF Follow
<1>11. CASE b = h
  <2>1. a # NONE /\ holder[h].full_bind = NONE
    BY <1>1, <1>6, <1>11
  <2>2. CASE Tells(holder', h, s, stack')
    <3>1. Waits(stack', f, b)
      BY <1>5, <1>11, <2>2 DEF Tells
    <3> QED BY <1>5, <3>1 DEF Follow
  <2>3. CASE Same(GetValue(holder', h), GetValue(holder, h))
    <3>1. Same(GetValue(holder, f), GetValue(holder, b)) => Same(GetValue(holder', f), GetValue(holder', b))
      BY <1>7, <1>11, <2>3, SameFacts
    <3>2. Waits(stack, f, b) => Waits(stack', f, b)
      BY <1>4, <1>9, <2>1
    <3> QED BY <1>5, <1>8, <3>1, <3>2 DEF Follow
  <2> QED BY <1>4, <2>1, <2>2, <2>3
<1> QED BY <1>10, <1>11

(* Whose value is in the same place, and whose is not.                     *)
LEMMA FamilyFacts ==
    ASSUME NEW st, NEW w, NEW h \in Holders, Changes(st, w, h), NEW b \in Holders
    PROVE  /\ Master(st, b) = Master(st, h) => GetValue(w, b) = GetValue(w, h)
           /\ Master(st, b) # Master(st, h) => GetValue(w, b) = GetValue(st, b)
           /\ Master(w, h) = Master(st, h) /\ GetValue(w, h) = Val(w[Master(st, h)])
<1> DEFINE m == Master(st, h)
           n == Master(st, b)
<1>1. Proper(st) /\ Proper(w) /\ Bindings(st, w)
  BY DEF Changes
<1>2. /\ m \in Holders /\ n \in Holders /\ Master(st, n) = n
      /\ GetValue(st, b) = Val(st[n])
  BY <1>1, MasterFacts
<1>3. Master(w, h) = m /\ Master(w, b) = n
  BY <1>1, BindingsMaster
<1>4. GetValue(w, h) = Val(w[m]) /\ GetValue(w, b) = Val(w[n])
  BY <1>1, <1>3, MasterFacts
<1>5. ASSUME n # m PROVE w[n] = st[n]
  <2>1. n # h
    BY <1>2, <1>5
  <2> QED BY <1>2, <1>5, <2>1 DEF Changes
<1> QED BY <1>2, <1>3, <1>4, <1>5

LEMMA SetBindFollows ==
    ASSUME IInv, NEW h \in Holders, NEW b \in Holders \cup {NONE}, SetBind(h, b)
    PROVE  \A f \in Holders \ strayed' : Follow(holder', stack', f)
<1> DEFINE st == [holder EXCEPT ![h].simple_bind = b]
           s == Without(stack, "simple_bind", h)
           v == IF b = NONE THEN GetValue(holder, h) ELSE GetValue(holder, b)
<1>1. strayed' = IF b = NONE \/ Same(v, GetValue(holder', h))
                 THEN (strayed \cup Touched(h)) \ {h} ELSE strayed \cup Touched(h) \cup {h}
  BY DEF SetBind
<1>2. Ready
  BY DEF IInv
<1>3. Changes(st, holder', h) /\ Keeps(holder', s, stack') /\ Loud(st, holder', h, s, stack')
  BY <1>2, SetBindEffect
<1>4. /\ Proper(st) /\ st[h].simple_bind = b
      /\ \A g \in Holders \ {h} : st[g].simple_bind = holder[g].simple_bind
      /\ \A g \in Holders : /\ Master(st, g) = Master(holder, g)
                            /\ GetValue(st, g) = GetValue(holder, g)
                            /\ (Bad(st[g]) <=> Bad(holder[g]))
      /\ \A f, x : Waits(stack, f, x) => Waits(s, f, x) \/ f = h
  BY <1>2, BoundFacts
<1> HIDE DEF st, s
<1>5. \A g \in Holders : holder'[g].simple_bind = st[g].simple_bind
  BY <1>3 DEF Changes, Bindings
<1>6. ASSUME h \notin strayed', b # NONE PROVE Follow(holder', stack', h)
  <2>1. b \in Holders /\ Same(v, GetValue(holder', h)) /\ v = GetValue(st, b)
    BY <1>1, <1>4, <1>6
  <2>2. /\ Master(st, b) = Master(st, h) => GetValue(holder', b) = GetValue(holder', h)
        /\ Master(st, b) # Master(st, h) => GetValue(holder', b) = GetValue(st, b)
    BY <1>3, <2>1, FamilyFacts
  <2>3. Same(GetValue(holder', h), GetValue(holder', b))
    BY <2>1, <2>2, SameFacts
  <2>4. holder'[h].simple_bind = b
    BY <1>4, <1>5
  <2> QED BY <2>3, <2>4 DEF Follow
<1>7. ASSUME b = NONE PROVE Follow(holder', stack', h)
  BY <1>4, <1>5, <1>7 DEF Follow
<1>8. ASSUME NEW f \in Holders, f # h, f \notin strayed', holder'[f].simple_bind # NONE
      PROVE  Follow(holder', stack', f)
  <2> DEFINE c == holder[f].simple_bind
             m == Master(st, h)
  <2>1. f \notin strayed /\ f \notin Touched(h) /\ Follow(holder, stack, f)
    BY <1>1, <1>8 DEF IInv, FollowsInv
  <2>2. c \in Holders /\ st[f].simple_bind = c
    BY <1>2, <1>4, <1>5, <1>8, ReadyFacts, Fields
  <2>3. m \in Holders
    BY <1>4, MasterFacts
  <2>4. /\ Master(holder, f) # Master(holder, h)
        /\ Master(holder, c) = Master(holder, h) => ~Bad(holder[Master(holder, h)])
    BY <1>2, <2>1, <2>2, UntouchedFacts
  <2>5. /\ Master(st, f) # m
        /\ Master(st, c) = m => ~Bad(st[m]) /\ Loud(st, holder', h, s, stack')
    BY <1>3, <1>4, <2>2, <2>3, <2>4
  <2>6. Follow(st, s, f)
    BY <1>4, <1>8, <2>1, <2>2 DEF Follow
  <2> HIDE DEF c
  <2>7. st[f].simple_bind = c
    BY <2>2
  <2> QED BY <1>3, <2>2, <2>5, <2>6, <2>7, StillFollows
<1>9. \A f \in Holders : holder'[f].simple_bind = NONE => Follow(holder', stack', f)
  BY DEF Follow
<1> QED BY <1>6, <1>7, <1>8, <1>9

LEMMA BoundHolderChangedFollows ==
    ASSUME IInv, NEW g \in Holders, BoundHolderChanged(g)
    PROVE  \A f \in Holders \ strayed' : Follow(holder', stack', f)
<1> DEFINE b == Head(stack).holder
           s == Called("simple_bind", g)
           v == GetValue(holder, b)
           m == Master(holder, g)
<1>1. strayed' = IF Returns(holder, g, v) /\ ~Contradicts(holder, g)
                 THEN (strayed \cup Touched(g)) \ {g} ELSE strayed \cup Touched(g)
  BY DEF BoundHolderChanged
<1>2. Ready /\ Proper(holder)
  BY DEF IInv, Ready
<1>3. /\ b \in Holders /\ holder[g].simple_bind = b /\ holder' = Written(holder, g, v)
      /\ Changes(holder, holder', g) /\ Keeps(holder', s, stack')
      /\ Loud(holder, holder', g, s, stack')
      /\ \A f, x : Waits(stack, f, x) => Waits(s, f, x) \/ f = g
  BY <1>2, BoundHolderChangedEffect
<1> HIDE DEF s
<1>4. \A f \in Holders \ strayed' : f # g => Follow(holder', stack', f)
  BY <1>1, <1>3, CallFollows
<1>5. ASSUME g \notin strayed' PROVE Follow(holder', stack', g)
  <2>1. b # NONE /\ g \in Touched(g)
    BY <1>3, HoldersAssumption DEF Touched, Family
  <2>2. Returns(holder, g, v) /\ ~Contradicts(holder, g)
    BY <1>1, <1>5, <2>1
  <2>3. ~Bad(holder[m])
    BY <1>2, <2>2, MasterFacts
  <2>4. v \in Given /\ v # Other
    <3>1. v = Val(holder[Master(holder, b)]) /\ holder[Master(holder, b)] \in Private
      BY <1>2, <1>3, MasterFacts
    <3> QED BY <3>1, ValType, ValuesAssumption DEF Given
  <2>5. Same(v, Val(holder'[m]))
    <3> HIDE DEF v
    <3> QED BY <1>2, <1>3, <2>2, <2>3, <2>4, WrittenFacts
  <2>6. /\ Master(holder, b) = m => GetValue(holder', b) = GetValue(holder', g)
        /\ Master(holder, b) # m => GetValue(holder', b) = v
        /\ GetValue(holder', g) = Val(holder'[m])
    BY <1>3, FamilyFacts
  <2>7. Same(GetValue(holder', g), GetValue(holder', b))
    BY <2>5, <2>6, SameFacts
  <2>8. holder'[g].simple_bind = b
    BY <1>3 DEF Changes, Bindings
  <2> QED BY <2>7, <2>8 DEF Follow
<1> QED BY <1>4, <1>5

-----------------------------------------------------------------------------
(* The invariant.                                                          *)
LEMMA InitInv == Init => IInv
<1> SUFFICES ASSUME Init PROVE IInv
  OBVIOUS
<1>1. Blank \in Private /\ Holds(Blank) /\ Blank.full_bind = NONE /\ Blank.simple_bind = NONE
  BY DEF Blank, Private, Holds
<1>2. Proper(holder)
  BY <1>1 DEF Init, Proper
<1>3. StackOK(holder, stack)
  BY DEF Init, StackOK
<1>4. FollowsInv
  BY <1>1 DEF Init, FollowsInv, Follow
<1> QED BY <1>2, <1>3, <1>4 DEF IInv, Ready, Init

(* A call that keeps the emissions under way.                              *)
LEMMA PlainCall ==
    ASSUME IInv, NEW h \in Holders,
           Changes(holder, holder', h), Keeps(holder', stack, stack'),
           Loud(holder, holder', h, stack, stack') \/ Followers(h) \subseteq strayed',
           strayed' \subseteq Holders, strayed \cup Touched(h) \subseteq strayed'
    PROVE  IInv'
<1>1. Ready'
  BY DEF Ready, Changes, Keeps
<1>2. \A f \in Holders \ strayed' : f # NONE => Follow(holder', stack', f)
  BY CallFollows
<1>3. FollowsInv'
  BY <1>2, HoldersAssumption DEF FollowsInv
<1> QED BY <1>1, <1>3 DEF IInv

LEMMA StrayedType ==
    ASSUME Ready, NEW h \in Holders
    PROVE  strayed \cup Touched(h) \cup Followers(h) \cup {h} \subseteq Holders
  BY TouchedFacts DEF Ready

LEMMA CallInv ==
    ASSUME IInv, NEW h \in Holders, Call(h)
    PROVE  IInv'
<1>1. Ready /\ strayed \cup Touched(h) \cup Followers(h) \cup {h} \subseteq Holders
  BY StrayedType DEF IInv
<1>2. ASSUME NEW v \in Values \cup {Null, Other}, SetValue(h, v) PROVE IInv'
  <2>1. v \in Given
    BY DEF Given
  <2>2. strayed' = strayed \cup Touched(h)
    BY <1>2 DEF SetValue
  <2>3. /\ Changes(holder, holder', h) /\ Keeps(holder', stack, stack')
        /\ Loud(holder, holder', h, stack, stack')
    BY <1>1, <1>2, <2>1, SetValueEffect
  <2> QED BY <1>1, <2>2, <2>3, PlainCall
<1>3. ASSUME NEW v \in Values \cup {Null, Other}, TakeStaticValue(h, v) PROVE IInv'
  <2>1. strayed' = strayed \cup Touched(h) \cup IF Revives(h, v) THEN Followers(h) ELSE {}
    BY <1>3 DEF TakeStaticValue
  <2>2. /\ Changes(holder, holder', h) /\ Keeps(holder', stack, stack')
        /\ Loud(holder, holder', h, stack, stack') \/ Revives(h, v)
    BY <1>1, <1>3, TakeStaticValueEffect
  <2>3. strayed' \subseteq Holders /\ strayed \cup Touched(h) \subseteq strayed'
    BY <1>1, <2>1
  <2>4. Loud(holder, holder', h, stack, stack') \/ Followers(h) \subseteq strayed'
    BY <2>1, <2>2
  <2> QED BY <2>2, <2>3, <2>4, PlainCall
<1>4. ASSUME ForceInvalid(h) PROVE IInv'
  <2>1. strayed' = strayed \cup Touched(h)
    BY <1>4 DEF ForceInvalid
  <2>2. /\ Changes(holder, holder', h) /\ Keeps(holder', stack, stack')
        /\ Loud(holder, holder', h, stack, stack')
    BY <1>1, <1>4, ForceInvalidEffect
  <2> QED BY <1>1, <2>1, <2>2, PlainCall
<1>5. ASSUME SetValueToDefault(h) PROVE IInv'
  <2>1. strayed' = strayed \cup Touched(h)
    BY <1>5 DEF SetValueToDefault
  <2>2. /\ Changes(holder, holder', h) /\ Keeps(holder', stack, stack')
        /\ Loud(holder, holder', h, stack, stack')
    BY <1>1, <1>5, SetValueToDefaultEffect
  <2> QED BY <1>1, <2>1, <2>2, PlainCall
<1>6. ASSUME NEW d \in Defaults[h] \cup {NONE}, SetDefaultValue(h, d) PROVE IInv'
  <2>1. d \in Given
    BY DefaultsAssumption DEF Given
  <2>2. strayed' = strayed \cup Touched(h)
    BY <1>6 DEF SetDefaultValue
  <2>3. /\ Changes(holder, holder', h) /\ Keeps(holder', stack, stack')
        /\ Loud(holder, holder', h, stack, stack')
    BY <1>1, <1>6, <2>1, SetDefaultValueEffect
  <2> QED BY <1>1, <2>2, <2>3, PlainCall
<1>7. ASSUME NEW b \in BOOLEAN, SetNotNull(h, b) PROVE IInv'
  <2>1. strayed' = strayed \cup Touched(h)
    BY <1>7 DEF SetNotNull
  <2>2. /\ Changes(holder, holder', h) /\ Keeps(holder', stack, stack')
        /\ Loud(holder, holder', h, stack, stack')
    BY <1>1, <1>7, SetNotNullEffect
  <2> QED BY <1>1, <2>1, <2>2, PlainCall
<1>8. ASSUME NEW b \in Holders \cup {NONE}, SetBind(h, b) PROVE IInv'
  <2>1. strayed' \subseteq strayed \cup Touched(h) \cup {h}
    BY <1>8 DEF SetBind
  <2>2. Proper(holder') /\ StackOK(holder', stack')
    BY <1>1, <1>8, SetBindEffect DEF Changes, Keeps
  <2>3. \A f \in Holders \ strayed' : Follow(holder', stack', f)
    BY <1>8, SetBindFollows
  <2>4. Ready'
    BY <1>1, <2>1, <2>2 DEF Ready
  <2> QED BY <2>3, <2>4 DEF IInv, FollowsInv
<1>9. ASSUME NEW a \in Holders \cup {NONE}, SetFullBind(h, a) PROVE IInv'
  <2>1. strayed' \subseteq strayed \cup Touched(h) \cup Followers(h)
    BY <1>9 DEF SetFullBind
  <2>2. Proper(holder') /\ StackOK(holder', stack')
    BY <1>1, <1>9, SetFullBindRecords, SetFullBindStack DEF Keeps
  <2>3. \A f \in Holders \ strayed' : Follow(holder', stack', f)
    BY <1>9, SetFullBindFollows
  <2>4. Ready'
    BY <1>1, <2>1, <2>2 DEF Ready
  <2> QED BY <2>3, <2>4 DEF IInv, FollowsInv
<1> QED BY <1>2, <1>3, <1>4, <1>5, <1>6, <1>7, <1>8, <1>9 DEF Call

(* The records are as they were, and nobody who waits is forgotten.        *)
LEMMA SilentStep ==
    ASSUME IInv, holder' = holder, strayed' = strayed, StackOK(holder, stack'),
           \A f \in Holders : \A x : holder[f].simple_bind = x /\ Waits(stack, f, x) => Waits(stack', f, x)
    PROVE  IInv'
<1>1. Ready'
  BY DEF IInv, Ready
<1>2. \A f \in Holders \ strayed : Follow(holder, stack', f)
  BY DEF IInv, FollowsInv, Follow
<1>3. FollowsInv'
  BY <1>2 DEF FollowsInv
<1> QED BY <1>1, <1>3 DEF IInv

LEMMA HandlersInv ==
    ASSUME IInv, Handlers \/ EmissionEnds \/ SetDefaultValueEnds
    PROVE  IInv'
<1>1. Ready
  BY DEF IInv
<1>2. ASSUME NEW g \in Holders, BoundHolderChanged(g) PROVE IInv'
  <2>1. strayed' \subseteq strayed \cup Touched(g)
    BY <1>2 DEF BoundHolderChanged
  <2>2. Proper(holder') /\ StackOK(holder', stack')
    BY <1>1, <1>2, BoundHolderChangedEffect DEF Changes, Keeps
  <2>3. \A f \in Holders \ strayed' : Follow(holder', stack', f)
    BY <1>2, BoundHolderChangedFollows
  <2>4. strayed \cup Touched(g) \subseteq Holders
    BY <1>1, StrayedType
  <2>5. Ready'
    BY <2>1, <2>2, <2>4 DEF Ready
  <2> QED BY <2>3, <2>5 DEF IInv, FollowsInv
<1>3. ASSUME NEW g \in Holders, FullBoundHolderChanged(g) PROVE IInv'
  BY <1>1, <1>3, FullBoundHolderChangedEffect, SilentStep
<1>4. ASSUME EmissionEnds PROVE IInv'
  BY <1>1, <1>4, EndsEffect, SilentStep
<1>5. ASSUME SetDefaultValueEnds PROVE IInv'
  <2> DEFINE h == Head(stack).holder
  <2>1. /\ h \in Holders
        /\ Changes(holder, holder', h) /\ Keeps(holder', stack', stack')
        /\ \A f, b : Waits(stack, f, b) => Waits(stack', f, b)
    BY <1>1, <1>5, SetDefaultValueEndsEffect
  <2>2. strayed' = strayed \cup Touched(h) \cup Followers(h)
    BY <1>5 DEF SetDefaultValueEnds
  <2>3. strayed' \subseteq Holders
    BY <1>1, <2>1, <2>2, StrayedType
  <2>4. Ready'
    BY <2>1, <2>3 DEF Ready, Changes, Keeps
  <2> HIDE DEF h
  <2>5. \A f \in Holders \ strayed' : f # NONE => Follow(holder', stack', f)
    BY <2>1, <2>2, CallFollows
  <2>6. FollowsInv'
    BY <2>5, HoldersAssumption DEF FollowsInv
  <2> QED BY <2>4, <2>6 DEF IInv
<1> QED BY <1>2, <1>3, <1>4, <1>5 DEF Handlers

LEMMA NextInv == IInv /\ [Next]_vars => IInv'
<1> SUFFICES ASSUME IInv, [Next]_vars PROVE IInv'
  OBVIOUS
<1>1. CASE \E h \in Holders : Call(h)
  BY <1>1, CallInv
<1>2. CASE Handlers \/ EmissionEnds \/ SetDefaultValueEnds
  BY <1>2, HandlersInv
<1>3. CASE UNCHANGED vars
  BY <1>3 DEF IInv, Ready, FollowsInv, vars
<1> QED BY <1>1, <1>2, <1>3 DEF Next

(* Every state of every behaviour is in order.                             *)
THEOREM HoldersInvariance == Spec => []IInv
  BY InitInv, NextInv, PTL DEF Spec

(* A holder agrees with itself, the assertions hold, and a value that was  *)
(* set is the value of the holder.                                         *)
LEMMA HoldersSoundInv == IInv => HoldersSound
<1> SUFFICES ASSUME IInv PROVE HoldersSound
  OBVIOUS
<1>1. Proper(holder) /\ StackOK(holder, stack) /\ strayed \subseteq Holders
  BY DEF IInv, Ready
<1>2. TypeOK
  BY <1>1 DEF TypeOK, Proper, StackOK
<1>3. AssertHolds
  <2>1. \A h \in Holders : Holds(holder[h])
    BY <1>1 DEF Proper
  <2>2. \A i \in 1..Len(stack) : FrameOK(holder, stack[i])
    BY <1>1 DEF StackOK
  <2> QED BY <2>1, <2>2 DEF AssertHolds, Holds, FrameOK
<1>4. ASSUME NEW h \in Holders, ~Contradicts(holder, h), NEW v \in Values \cup {Null},
             Returns(holder, h, v)
      PROVE  LET after == Written(holder, h, v)
             IN IsValid(after, h) /\ Same(v, GetValue(after, h))
  <2> DEFINE w == Written(holder, h, v)
             m == Master(holder, h)
  <2>1. v \in Given /\ v # Other
    BY ValuesAssumption DEF Given
  <2>2. ~Bad(holder[m])
    BY <1>1, <1>4, MasterFacts
  <2>3. /\ Proper(w) /\ \A g \in Holders : Rest(holder[g], w[g])
        /\ Ok(w[m]) /\ Same(v, Val(w[m]))
    BY <1>1, <1>4, <2>1, <2>2, WrittenFacts
  <2>4. Master(w, h) = m
    BY <2>3, SameBindings
  <2> HIDE DEF w
  <2>5. (IsValid(w, h) <=> Ok(w[m])) /\ GetValue(w, h) = Val(w[m])
    BY <2>3, <2>4, MasterFacts
  <2> QED BY <2>3, <2>5 DEF w
<1>5. ValueIsSet
  BY <1>4 DEF ValueIsSet
<1> QED BY <1>2, <1>3, <1>5 DEF HoldersSound

(* HoldersSound, of every state.                                           *)
THEOREM HoldersAreSound == Spec => []HoldersSound
  BY HoldersInvariance, HoldersSoundInv, PTL

(* Follows: when nothing is being emitted nobody waits, so that whoever    *)
(* has not strayed has the value of the holder it is bound to.             *)
THEOREM BoundHoldersFollow == Spec => []Follows
<1>1. IInv => Follows
  <2> SUFFICES ASSUME IInv, stack = <<>>, NEW h \in Holders,
                      holder[h].simple_bind # NONE, h \notin strayed
               PROVE  Same(GetValue(holder, h), GetValue(holder, holder[h].simple_bind))
    BY DEF Follows
  <2>1. Follow(holder, stack, h)
    BY DEF IInv, FollowsInv
  <2>2. ~Waits(stack, h, holder[h].simple_bind)
    BY DEF Waits
  <2> QED BY <2>1, <2>2 DEF Follow
<1> QED BY <1>1, HoldersInvariance, PTL

-----------------------------------------------------------------------------
(* Steps.  A call for g makes no holder contradict itself but the one its  *)
(* value is in, and that one only when it has to use what is no value.     *)
LEMMA OnlyExcused ==
    ASSUME NEW st, NEW w, NEW g \in Holders, NEW h \in Holders, Changes(st, w, g),
           Master(st, h) = h, ~Bad(st[h]), Contradicts(w, h),
           Sound(st, w, g) \/ h # Master(st, g)
    PROVE  Excused(w[h])
<1>1. Proper(w) /\ Bindings(st, w)
  BY DEF Changes
<1>2. Master(w, h) = h
  BY <1>1, BindingsMaster
<1>3. Bad(w[h])
  BY <1>1, <1>2, MasterFacts
<1>4. CASE h = Master(st, g)
  BY <1>3, <1>4 DEF Sound
<1>5. CASE h # Master(st, g)
  <2>1. h # g
    BY <1>5
  <2>2. w[h] = st[h]
    BY <1>5, <2>1 DEF Changes
  <2> QED BY <1>3, <2>2
<1> QED BY <1>4, <1>5

LEMMA CallStaysSound ==
    ASSUME IInv, NEW g \in Holders, Call(g), NEW h \in Holders
    PROVE  StaysSound(h)
<1> SUFFICES ASSUME Master(holder, h) = h, Master(holder', h) = h,
                    ~Contradicts(holder, h), Contradicts(holder', h)
             PROVE  \/ DefaultOfInvalid(h) \/ DefaultInUseReplaced(h)
                    \/ NullDefault(h) \/ NotNullOfHidden(h)
  BY DEF StaysSound
<1>1. Ready /\ Proper(holder)
  BY DEF IInv, Ready
<1>2. ~Bad(holder[h])
  BY <1>1, MasterFacts
<1>3. ASSUME Changes(holder, holder', g), Sound(holder, holder', g) PROVE NullDefault(h)
  BY <1>2, <1>3, OnlyExcused DEF Excused, NullDefault
<1>4. ASSUME NEW v \in Values \cup {Null, Other}, SetValue(g, v) PROVE NullDefault(h)
  <2>1. v \in Given
    BY DEF Given
  <2> QED BY <1>1, <1>3, <1>4, <2>1, SetValueEffect
<1>5. ASSUME NEW v \in Values \cup {Null, Other}, TakeStaticValue(g, v) PROVE NullDefault(h)
  BY <1>1, <1>3, <1>5, TakeStaticValueEffect
<1>6. ASSUME ForceInvalid(g) PROVE NullDefault(h)
  BY <1>1, <1>3, <1>6, ForceInvalidEffect
<1>7. ASSUME SetValueToDefault(g) PROVE NullDefault(h) \/ DefaultOfInvalid(h)
  <2>1. /\ Changes(holder, holder', g)
        /\ Sound(holder, holder', g) \/ (~holder[g].valid /\ Master(holder, g) = g)
    BY <1>1, <1>7, SetValueToDefaultEffect
  <2>2. CASE Sound(holder, holder', g) \/ h # Master(holder, g)
    BY <1>2, <2>1, <2>2, OnlyExcused DEF Excused, NullDefault
  <2>3. CASE h = g /\ ~holder[g].valid
    BY <1>7, <2>3 DEF DefaultOfInvalid
  <2> QED BY <2>1, <2>2, <2>3
<1>8. ASSUME NEW d \in Defaults[g] \cup {NONE}, SetDefaultValue(g, d) PROVE NullDefault(h)
  <2>1. d \in Given
    BY DefaultsAssumption DEF Given
  <2> QED BY <1>1, <1>3, <1>8, <2>1, SetDefaultValueEffect
<1>9. ASSUME NEW b \in BOOLEAN, SetNotNull(g, b) PROVE NullDefault(h) \/ NotNullOfHidden(h)
  <2>1. /\ Changes(holder, holder', g)
        /\ \/ Sound(holder, holder', g)
           \/ Master(holder, g) = g /\ (holder[g].default_forced \/ holder[g].invalid_forced)
    BY <1>1, <1>9, SetNotNullEffect
  <2>2. CASE Sound(holder, holder', g) \/ h # Master(holder, g)
    BY <1>2, <2>1, <2>2, OnlyExcused DEF Excused, NullDefault
  <2>3. CASE h = g /\ (holder[g].default_forced \/ holder[g].invalid_forced)
    BY <1>9, <2>3 DEF NotNullOfHidden
  <2> QED BY <2>1, <2>2, <2>3
<1>10. ASSUME NEW b \in Holders \cup {NONE}, SetBind(g, b) PROVE NullDefault(h)
  <2> DEFINE st == [holder EXCEPT ![g].simple_bind = b]
  <2>1. Changes(st, holder', g) /\ Sound(st, holder', g)
    BY <1>1, <1>10, SetBindEffect
  <2>2. Master(st, h) = h /\ ~Bad(st[h])
    BY <1>1, <1>2, BoundFacts
  <2> HIDE DEF st
  <2> QED BY <2>1, <2>2, OnlyExcused DEF Excused, NullDefault
<1>11. ASSUME NEW a \in Holders \cup {NONE}, SetFullBind(g, a) PROVE NullDefault(h)
  <2>1. /\ Proper(holder') /\ \A x \in Holders \ {g} : holder'[x] = holder[x]
        /\ a # NONE => Master(holder', g) # g
        /\ a = NONE => Master(holder, g) # g
    BY <1>1, <1>11, SetFullBindRecords
  <2>2. h # g
    BY <2>1
  <2>3. Bad(holder'[h])
    BY <2>1, MasterFacts
  <2> QED BY <1>2, <2>1, <2>2, <2>3
<1> QED BY <1>4, <1>5, <1>6, <1>7, <1>8, <1>9, <1>10, <1>11 DEF Call

LEMMA HandlersStaySound ==
    ASSUME IInv, Handlers \/ EmissionEnds \/ SetDefaultValueEnds, holder' # holder, NEW h \in Holders
    PROVE  StaysSound(h)
<1> SUFFICES ASSUME Master(holder, h) = h, Master(holder', h) = h,
                    ~Contradicts(holder, h), Contradicts(holder', h)
             PROVE  \/ DefaultOfInvalid(h) \/ DefaultInUseReplaced(h)
                    \/ NullDefault(h) \/ NotNullOfHidden(h)
  BY DEF StaysSound
<1>1. Ready /\ Proper(holder)
  BY DEF IInv, Ready
<1>2. ~Bad(holder[h])
  BY <1>1, MasterFacts
<1>3. ASSUME NEW g \in Holders, BoundHolderChanged(g) PROVE NullDefault(h)
  <2>1. Changes(holder, holder', g) /\ Sound(holder, holder', g)
    BY <1>1, <1>3, BoundHolderChangedEffect
  <2> QED BY <1>2, <2>1, OnlyExcused DEF Excused, NullDefault
<1>4. ASSUME NEW g \in Holders, FullBoundHolderChanged(g) PROVE FALSE
  BY <1>4 DEF FullBoundHolderChanged
<1>5. ASSUME EmissionEnds PROVE FALSE
  BY <1>5 DEF EmissionEnds
<1>6. ASSUME SetDefaultValueEnds PROVE NullDefault(h) \/ DefaultInUseReplaced(h)
  <2> DEFINE g == Head(stack).holder
  <2>1. /\ g \in Holders /\ Changes(holder, holder', g)
        /\ Sound(holder, holder', g) \/ (holder[g].default_forced /\ Master(holder, g) = g)
    BY <1>1, <1>6, SetDefaultValueEndsEffect
  <2>2. CASE Sound(holder, holder', g) \/ h # Master(holder, g)
    BY <1>2, <2>1, <2>2, OnlyExcused DEF Excused, NullDefault
  <2>3. CASE h = g /\ holder[g].default_forced
    BY <1>6, <2>3 DEF DefaultInUseReplaced
  <2> QED BY <2>1, <2>2, <2>3
<1> QED BY <1>3, <1>4, <1>5, <1>6 DEF Handlers

(* SoundUnless, of every step.                                             *)
THEOREM HoldersStaySound == Spec => SoundUnless
<1>1. IInv /\ [Next]_vars => [\A h \in Holders : StaysSound(h)]_holder
  <2> SUFFICES ASSUME IInv, [Next]_vars, holder' # holder, NEW h \in Holders PROVE StaysSound(h)
    OBVIOUS
  <2>1. Next
    BY DEF vars
  <2> QED BY <2>1, CallStaysSound, HandlersStaySound DEF Next
<1> QED BY <1>1, HoldersInvariance, PTL DEF Spec, SoundUnless

-----------------------------------------------------------------------------
(* A call for g that is loud tells of the values that change.              *)
LEMMA LoudIsTold ==
    ASSUME Proper(holder), NEW st, NEW s, NEW g \in Holders, NEW h \in Holders,
           Changes(st, holder', g), Loud(st, holder', g, s, stack'), Len(s) = Len(stack),
           \A x \in Holders : /\ Master(st, x) = Master(holder, x)
                              /\ GetValue(st, x) = GetValue(holder, x)
                              /\ (Bad(st[x]) <=> Bad(holder[x])),
           ~Same(GetValue(holder', h), GetValue(holder, h)), ~Contradicts(holder, h)
    PROVE  Told(h)
<1> DEFINE m == Master(st, g)
<1>1. /\ Master(st, h) = m => GetValue(holder', h) = GetValue(holder', g)
      /\ Master(st, h) # m => GetValue(holder', h) = GetValue(st, h)
      /\ GetValue(holder', g) = Val(holder'[m])
  BY FamilyFacts
<1>2. Master(st, h) = m
  BY <1>1, SameFacts
<1>3. m \in Holders /\ ~Bad(st[m]) /\ Master(holder, h) = m
  BY <1>2, MasterFacts
<1>4. GetValue(st, h) = Val(st[m])
  BY <1>2, MasterFacts DEF Changes
<1>5. ~Same(Val(holder'[m]), Val(st[m]))
  BY <1>1, <1>2, <1>4
<1>6. Tells(holder', m, s, stack')
  BY <1>3, <1>5 DEF Loud
<1> QED BY <1>3, <1>6 DEF Told, Tells

LEMMA CallIsTold ==
    ASSUME IInv, NEW g \in Holders, Call(g), NEW h \in Holders
    PROVE  ChangeIsTold(h)
<1> SUFFICES ASSUME ~Same(GetValue(holder', h), GetValue(holder, h)), ~Contradicts(holder, h)
             PROVE  \/ Told(h)
                    \/ SetFullBind(h, NONE)
                    \/ \E x \in Family(h) : TakeStaticValue(x, Null) /\ Revives(x, Null)
  BY DEF ChangeIsTold
<1>1. Ready /\ Proper(holder)
  BY DEF IInv, Ready
<1>2. ASSUME Changes(holder, holder', g), Loud(holder, holder', g, stack, stack') PROVE Told(h)
  BY <1>1, <1>2, LoudIsTold
<1>3. ASSUME NEW v \in Values \cup {Null, Other}, SetValue(g, v) PROVE Told(h)
  <2>1. v \in Given
    BY DEF Given
  <2> QED BY <1>1, <1>2, <1>3, <2>1, SetValueEffect
<1>4. ASSUME NEW v \in Values \cup {Null, Other}, TakeStaticValue(g, v)
      PROVE  Told(h) \/ \E x \in Family(h) : TakeStaticValue(x, Null) /\ Revives(x, Null)
  <2>1. /\ Changes(holder, holder', g)
        /\ Loud(holder, holder', g, stack, stack') \/ Revives(g, v)
    BY <1>1, <1>4, TakeStaticValueEffect
  <2>2. CASE Loud(holder, holder', g, stack, stack')
    BY <1>2, <2>1, <2>2
  <2>3. CASE Revives(g, v)
    <3>1. v = Null
      BY <2>3 DEF Revives
    <3>2. Master(holder, h) # Master(holder, g) => GetValue(holder', h) = GetValue(holder, h)
      BY <2>1, FamilyFacts
    <3>3. g \in Family(h)
      BY <3>2, SameFacts DEF Family
    <3> QED BY <1>4, <2>3, <3>1, <3>3
  <2> QED BY <2>1, <2>2, <2>3
<1>5. ASSUME ForceInvalid(g) PROVE Told(h)
  BY <1>1, <1>2, <1>5, ForceInvalidEffect
<1>6. ASSUME SetValueToDefault(g) PROVE Told(h)
  BY <1>1, <1>2, <1>6, SetValueToDefaultEffect
<1>7. ASSUME NEW d \in Defaults[g] \cup {NONE}, SetDefaultValue(g, d) PROVE Told(h)
  <2>1. d \in Given
    BY DefaultsAssumption DEF Given
  <2> QED BY <1>1, <1>2, <1>7, <2>1, SetDefaultValueEffect
<1>8. ASSUME NEW b \in BOOLEAN, SetNotNull(g, b) PROVE Told(h)
  BY <1>1, <1>2, <1>8, SetNotNullEffect
<1>9. ASSUME NEW b \in Holders \cup {NONE}, SetBind(g, b) PROVE Told(h)
  <2> DEFINE st == [holder EXCEPT ![g].simple_bind = b]
             s == Without(stack, "simple_bind", g)
  <2>1. Changes(st, holder', g) /\ Loud(st, holder', g, s, stack')
    BY <1>1, <1>9, SetBindEffect
  <2>2. /\ Len(s) = Len(stack)
        /\ \A x \in Holders : /\ Master(st, x) = Master(holder, x)
                              /\ GetValue(st, x) = GetValue(holder, x)
                              /\ (Bad(st[x]) <=> Bad(holder[x]))
    BY <1>1, BoundFacts
  <2> HIDE DEF st, s
  <2> QED BY <1>1, <2>1, <2>2, LoudIsTold
<1>10. ASSUME NEW a \in Holders \cup {NONE}, SetFullBind(g, a)
       PROVE  Told(h) \/ SetFullBind(h, NONE)
  <2> DEFINE s == Without(stack, "full_bind", g)
  <2>1. \A x \in Holders \ {g} : GetValue(holder', x) = GetValue(holder, x)
    BY <1>1, <1>10, SetFullBindRecords
  <2>2. h = g
    BY <2>1, SameFacts
  <2>3. /\ Len(s) = Len(stack)
        /\ a # NONE => \/ Same(GetValue(holder', g), GetValue(holder, g))
                       \/ Tells(holder', g, s, stack')
    BY <1>1, <1>10, SetFullBindStack
  <2>4. CASE a = NONE
    BY <1>10, <2>2, <2>4
  <2>5. CASE a # NONE
    BY <2>2, <2>3, <2>5 DEF Tells, Told
  <2> QED BY <2>4, <2>5
<1> QED BY <1>3, <1>4, <1>5, <1>6, <1>7, <1>8, <1>9, <1>10 DEF Call

LEMMA HandlersAreTold ==
    ASSUME IInv, Handlers \/ EmissionEnds \/ SetDefaultValueEnds, holder' # holder, NEW h \in Holders
    PROVE  ChangeIsTold(h)
<1>1. Ready /\ Proper(holder)
  BY DEF IInv, Ready
<1>2. ASSUME NEW g \in Holders, BoundHolderChanged(g),
             ~Same(GetValue(holder', h), GetValue(holder, h)), ~Contradicts(holder, h)
      PROVE  Told(h)
  <2> DEFINE s == Called("simple_bind", g)
  <2>1. /\ Changes(holder, holder', g) /\ Loud(holder, holder', g, s, stack')
        /\ Len(s) = Len(stack)
    BY <1>1, <1>2, BoundHolderChangedEffect
  <2> HIDE DEF s
  <2> QED BY <1>1, <1>2, <2>1, LoudIsTold
<1>3. ASSUME NEW g \in Holders, FullBoundHolderChanged(g) PROVE FALSE
  BY <1>3 DEF FullBoundHolderChanged
<1>4. ASSUME EmissionEnds PROVE FALSE
  BY <1>4 DEF EmissionEnds
<1> QED BY <1>2, <1>3, <1>4 DEF Handlers, ChangeIsTold

(* ChangesAreTold, of every step.                                          *)
THEOREM ChangesAreAlwaysTold == Spec => ChangesAreTold
<1>1. IInv /\ [Next]_vars => [\A h \in Holders : ChangeIsTold(h)]_holder
  <2> SUFFICES ASSUME IInv, [Next]_vars, holder' # holder, NEW h \in Holders PROVE ChangeIsTold(h)
    OBVIOUS
  <2>1. Next
    BY DEF vars
  <2> QED BY <2>1, CallIsTold, HandlersAreTold DEF Next
<1> QED BY <1>1, HoldersInvariance, PTL DEF Spec, ChangesAreTold
=============================================================================
