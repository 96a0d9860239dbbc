----------------------- MODULE GdaCncTransactions_proofs -----------------------
(***************************************************************************)
(* Proofs about the transaction status, the contexts and the meta store of *)
(* a connection, for any sets of tables and savepoints and any nesting.    *)
(* IInv is the inductive invariant: what the connection has recorded is    *)
(* related to the transaction the server has, statement by statement.      *)
(***************************************************************************)
EXTENDS GdaCncTransactions, FiniteSetTheorems, TLAPS

(* The server: outside of a transaction there is nothing to undo, and a    *)
(* savepoint undoes what came after it and no more than one before it.     *)
Undoable(l, s) ==
    /\ \A k \in 1..Len(s) : s[k].at <= Len(l)
    /\ \A j, k \in 1..Len(s) : j <= k => s[j].at <= s[k].at
ServerInv ==
    /\ ~active => log = <<>> /\ savepoints = <<>> /\ ~outer
    /\ active => opened
    /\ Undoable(log, savepoints)

(* The status L lists the statements l of the server's transaction, in     *)
(* their order: f finds them.  A savepoint of s that is in L comes after   *)
(* the statements that the server executed before it.                      *)
Embeds(f, l, s, L) ==
    /\ \A i \in 1..Len(l) : L[f[i]] = Sql(l[i])
    /\ \A i, j \in 1..Len(l) : j < i => f[j] < f[i]
    /\ \A k \in 1..Len(s), j \in 1..Len(L) :
          L[j] = Svp(s[k].name) => \A i \in 1..s[k].at : f[i] < j
Listed(l, s, L) == \E f \in [1..Len(l) -> 1..Len(L)] : Embeds(f, l, s, L)

Known == odd \cap {"failed", "closed"} = {}
StatusInv ==
    Known =>
        /\ levels # <<>> <=> active /\ ~outer
        /\ Len(levels) <= 1
        /\ levels # <<>> => Listed(log, savepoints, levels[1])

(* A transaction that a BEGIN started has a status and, while it is        *)
(* watched, contexts, and nothing else has.                                *)
LevelsInv ==
    /\ odd \cap {"failed", "outer"} = {} => (active => levels # <<>>)
    /\ outer => "outer" \in odd
ContextInv ==
    odd \cap {"failed", "outer", "late"} = {} => (ctx # NULL <=> active /\ Watched)

(* What the statements of the transaction named is in the contexts, and    *)
(* the meta store is what it is to be, watched now or not.                 *)
TouchedInv ==
    Watched /\ "late" \notin odd /\ ctx # NULL => \A i \in 1..Len(log) : log[i] \in ctx
StoreInv ==
    meta_store # NULL /\ ~aborted /\ ~stale /\ "late" \notin odd => meta_store = Current

IInv == /\ TypeOK /\ ServerInv /\ StatusInv /\ LevelsInv
        /\ ContextInv /\ AssertHolds /\ TouchedInv /\ StoreInv

-----------------------------------------------------------------------------
(* Sequences: without the last element, without one, cut short.            *)
LEMMA CutFacts ==
    ASSUME NEW S, NEW s \in Seq(S), NEW n \in 0..Len(s)
    PROVE  /\ SubSeq(s, 1, n) \in Seq(S) /\ Len(SubSeq(s, 1, n)) = n
           /\ \A i \in 1..n : SubSeq(s, 1, n)[i] = s[i]
  OBVIOUS

LEMMA FrontFacts ==
    ASSUME NEW S, NEW s \in Seq(S), s # <<>>
    PROVE  /\ Front(s) \in Seq(S) /\ Len(Front(s)) = Len(s) - 1
           /\ \A i \in 1..(Len(s) - 1) : Front(s)[i] = s[i]
<1>1. Len(s) - 1 \in 0..Len(s)
  <2>1. Len(s) \in Nat /\ Len(s) # 0
    OBVIOUS
  <2> QED BY <2>1
<1> QED BY <1>1, CutFacts DEF Front

LEMMA RemoveAtFacts ==
    ASSUME NEW S, NEW s \in Seq(S), NEW n \in 1..Len(s)
    PROVE  /\ RemoveAt(s, n) \in Seq(S) /\ Len(RemoveAt(s, n)) = Len(s) - 1
           /\ \A i \in 1..(n - 1) : RemoveAt(s, n)[i] = s[i]
           /\ \A i \in n..(Len(s) - 1) : RemoveAt(s, n)[i] = s[i + 1]
<1> DEFINE A == SubSeq(s, 1, n - 1)
           B == SubSeq(s, n + 1, Len(s))
<1>1. A \in Seq(S) /\ Len(A) = n - 1 /\ \A i \in 1..(n - 1) : A[i] = s[i]
  OBVIOUS
<1>2. B \in Seq(S) /\ Len(B) = Len(s) - n /\ \A i \in 1..(Len(s) - n) : B[i] = s[i + n]
  OBVIOUS
<1>3. RemoveAt(s, n) = A \o B
  BY DEF RemoveAt
<1> HIDE DEF A, B
<1>4. A \o B \in Seq(S) /\ Len(A \o B) = Len(s) - 1
  BY <1>1, <1>2
<1>5. \A i \in 1..(Len(s) - 1) : (A \o B)[i] = IF i < n THEN A[i] ELSE B[i - (n - 1)]
  BY <1>1, <1>2
<1> QED BY <1>1, <1>2, <1>3, <1>4, <1>5

(* The tables after some statements: there are only so many of these.      *)
LEMMA TimesType ==
    ASSUME NEW l \in Seq(Tables), NEW t
    PROVE  Times(l, t) \in Nat /\ IsFiniteSet({i \in DOMAIN l : l[i] = t})
<1>1. IsFiniteSet(1..Len(l))
  BY FS_Interval
<1>2. {i \in DOMAIN l : l[i] = t} \in SUBSET (1..Len(l))
  OBVIOUS
<1>3. IsFiniteSet({i \in DOMAIN l : l[i] = t})
  BY <1>1, <1>2, FS_Subset
<1> QED BY <1>3, FS_CardinalityType DEF Times

(* Without statements nothing changes, and one about a table makes it      *)
(* appear or disappear.                                                    *)
LEMMA ContentNone ==
    ASSUME NEW b \in SUBSET Tables
    PROVE  Content(b, <<>>) = b
<1>1. \A t : Times(<<>>, t) = 0
  BY FS_EmptySet DEF Times
<1> QED BY <1>1 DEF Content

LEMMA ContentNext ==
    ASSUME NEW b \in SUBSET Tables, NEW l \in Seq(Tables), NEW t \in Tables
    PROVE  Content(b, Append(l, t)) = Toggle(Content(b, l), t)
<1> DEFINE n == Append(l, t)
           At(q, u) == {i \in DOMAIN q : q[i] = u}
<1>1. Times(n, t) = Times(l, t) + 1
  <2>1. At(n, t) = At(l, t) \cup {Len(l) + 1} /\ Len(l) + 1 \notin At(l, t)
    OBVIOUS
  <2>2. IsFiniteSet(At(l, t))
    BY TimesType
  <2> HIDE DEF At
  <2>3. Cardinality(At(n, t)) = Cardinality(At(l, t)) + 1
    BY <2>1, <2>2, FS_AddElement
  <2> QED BY <2>3 DEF At, Times
<1>2. ASSUME NEW u, u # t PROVE Times(n, u) = Times(l, u)
  <2>1. At(n, u) = At(l, u)
    BY <1>2
  <2> QED BY <2>1 DEF Times
<1>3. Times(l, t) \in Nat
  BY TimesType
<1>4. Times(n, t) % 2 = 0 <=> Times(l, t) % 2 # 0
  BY <1>1, <1>3
<1>5. \A u \in Tables : u \in Content(b, n) <=> u \in Toggle(Content(b, l), t)
  BY <1>2, <1>4 DEF Content, Toggle
<1> QED BY <1>5 DEF Content, Toggle

(* What no statement names stays.                                          *)
LEMMA ContentElsewhere ==
    ASSUME NEW b \in SUBSET Tables, NEW l \in Seq(Tables), NEW t \in Tables,
           \A i \in 1..Len(l) : l[i] # t
    PROVE  t \in Content(b, l) <=> t \in b
<1>1. {i \in DOMAIN l : l[i] = t} = {}
  OBVIOUS
<1>2. Times(l, t) = 0
  BY <1>1, FS_EmptySet DEF Times
<1> QED BY <1>2 DEF Content

LEMMA ContentType == ASSUME NEW b, NEW l PROVE Content(b, l) \in SUBSET Tables
  BY DEF Content

-----------------------------------------------------------------------------
(* The invariant holds initially.                                          *)
LEMMA InitIInv == Init => IInv
<1> SUFFICES ASSUME Init PROVE IInv
  OBVIOUS
<1>1. TypeOK
  <2>1. /\ opened \in BOOLEAN /\ auto_meta \in BOOLEAN /\ aborted \in BOOLEAN
        /\ active \in BOOLEAN /\ outer \in BOOLEAN /\ stale \in BOOLEAN
    BY DEF Init
  <2>2. levels \in Seq(Seq(Event)) /\ log \in Seq(Tables) /\ savepoints \in Seq(Mark)
    BY DEF Init
  <2>3. /\ ctx \in {NULL} \cup SUBSET Tables /\ meta_store \in {NULL} \cup SUBSET Tables
        /\ base \subseteq Tables /\ odd \subseteq Reasons
    BY DEF Init
  <2> QED BY <2>1, <2>2, <2>3 DEF TypeOK
<1>2. ServerInv
  BY DEF Init, ServerInv, Undoable
<1>3. StatusInv /\ LevelsInv /\ AssertHolds
  BY DEF Init, StatusInv, LevelsInv, AssertHolds
<1>4. ContextInv /\ TouchedInv
  BY DEF Init, ContextInv, TouchedInv
<1>5. StoreInv
  <2>1. Current = {}
    BY ContentNone DEF Init, Current
  <2> QED BY <2>1 DEF Init, StoreInv
<1> QED BY <1>1, <1>2, <1>3, <1>4, <1>5 DEF IInv

(* What a statement makes of the status.                                   *)
LEMMA EventFacts ==
    /\ \A n \in Names : Svp(n) \in Event
    /\ \A t \in Tables : Sql(t) \in Event
    /\ \A n, t : Svp(n) # Sql(t)
    /\ \A m, n : Svp(m) = Svp(n) => m = n
  BY DEF Svp, Sql, Event

LEMMA PlaceFacts ==
    ASSUME TypeOK, NEW n \in Names, NEW p \in Places(n)
    PROVE  /\ p[1] \in 1..Len(levels) /\ p[2] \in 1..Len(levels[p[1]])
           /\ levels[p[1]] \in Seq(Event) /\ levels[p[1]][p[2]] = Svp(n)
<1>1. \A i \in DOMAIN levels : i \in 1..Len(levels) /\ levels[i] \in Seq(Event)
  BY DEF TypeOK
<1> QED BY <1>1 DEF Places

LEMMA RecordedType ==
    ASSUME TypeOK, NEW e \in Event, Recorded(e)
    PROVE  levels' \in Seq(Seq(Event))
<1>1. CASE levels = <<>>
  BY <1>1 DEF Recorded, TypeOK
<1>2. CASE levels # <<>>
  <2>1. Len(levels) \in 1..Len(levels) /\ levels[Len(levels)] \in Seq(Event)
    BY <1>2 DEF TypeOK
  <2>2. Append(levels[Len(levels)], e) \in Seq(Event)
    BY <2>1
  <2> QED BY <1>2, <2>1, <2>2 DEF Recorded, TypeOK
<1> QED BY <1>1, <1>2

LEMMA SvpType ==
    ASSUME TypeOK, NEW n \in Names, SvpRolledBack(n) \/ SvpRemoved(n)
    PROVE  levels' \in Seq(Seq(Event))
<1>1. CASE Places(n) = {}
  BY <1>1 DEF SvpRolledBack, SvpRemoved, TypeOK
<1>2. CASE Places(n) # {} /\ SvpRolledBack(n)
  <2>1. PICK p \in Places(n) : levels' = Append(SubSeq(levels, 1, p[1] - 1),
                                                SubSeq(levels[p[1]], 1, p[2] - 1))
    BY <1>2 DEF SvpRolledBack
  <2>2. p[1] - 1 \in 0..Len(levels) /\ p[2] - 1 \in 0..Len(levels[p[1]])
    BY PlaceFacts DEF TypeOK
  <2>3. /\ SubSeq(levels, 1, p[1] - 1) \in Seq(Seq(Event))
        /\ SubSeq(levels[p[1]], 1, p[2] - 1) \in Seq(Event)
    BY <2>2, CutFacts, PlaceFacts DEF TypeOK
  <2> QED BY <2>1, <2>3
<1>3. CASE Places(n) # {} /\ SvpRemoved(n)
  <2>1. PICK p \in Places(n) : levels' = [levels EXCEPT ![p[1]] = RemoveAt(@, p[2])]
    BY <1>3 DEF SvpRemoved
  <2>2. RemoveAt(levels[p[1]], p[2]) \in Seq(Event)
    BY PlaceFacts, RemoveAtFacts
  <2> QED BY <2>1, <2>2, PlaceFacts DEF TypeOK
<1> QED BY <1>1, <1>2, <1>3

LEMMA MarkFacts ==
    ASSUME TypeOK, NEW n, NEW k \in Marks(n)
    PROVE  /\ k \in 1..Len(savepoints) /\ savepoints[k].name = n
           /\ savepoints[k].at \in Nat /\ savepoints[k] \in Mark
<1>1. k \in 1..Len(savepoints) /\ savepoints[k].name = n
  BY DEF Marks, TypeOK
<1>2. savepoints[k] \in Mark
  BY <1>1 DEF TypeOK
<1> QED BY <1>1, <1>2 DEF Mark

(* The types are kept: those of the flags, and the others.                 *)
Flags ==
    /\ opened \in BOOLEAN /\ auto_meta \in BOOLEAN /\ aborted \in BOOLEAN
    /\ active \in BOOLEAN /\ outer \in BOOLEAN /\ stale \in BOOLEAN
Lists == levels \in Seq(Seq(Event)) /\ log \in Seq(Tables) /\ savepoints \in Seq(Mark)
Sets ==
    /\ ctx \in {NULL} \cup SUBSET Tables /\ meta_store \in {NULL} \cup SUBSET Tables
    /\ base \in SUBSET Tables /\ odd \in SUBSET Reasons

LEMMA TypeParts == TypeOK <=> Flags /\ Lists /\ Sets
  BY DEF TypeOK, Flags, Lists, Sets

LEMMA FlagsStep == ASSUME Flags, [Next]_vars PROVE Flags'
<1>1. CASE Begin
  BY <1>1 DEF Begin, MetaBegin, Flags
<1>2. CASE Commit
  BY <1>2 DEF Commit, MetaCommit, Ends, Flags
<1>3. CASE Rollback
  BY <1>3 DEF Rollback, MetaRollback, Ends, NotTold, Flags
<1>4. ASSUME NEW n \in Names, Savepoint(n) PROVE Flags'
  BY <1>4 DEF Savepoint, MetaUntouched, Flags
<1>5. ASSUME NEW n \in Names, RollbackTo(n) PROVE Flags'
  BY <1>5 DEF RollbackTo, ServerRollbackTo, MetaUntouched, NotTold, Flags
<1>6. ASSUME NEW n \in Names, Release(n) PROVE Flags'
  BY <1>6 DEF Release, ServerRelease, Ends, MetaUntouched, Flags
<1>7. ASSUME NEW t \in Tables, Ddl(t) PROVE Flags'
  BY <1>7 DEF Ddl, MetaDdl, Flags
<1>8. CASE FailedStatement
  BY <1>8 DEF FailedStatement, Ends, NotTold, client, Flags
<1>9. CASE Close
  BY <1>9 DEF Close, Ends, NotTold, Flags
<1>10. ASSUME NEW o \in BOOLEAN, Open(o) PROVE Flags'
  BY <1>10 DEF Open, server, Flags
<1>11. CASE UpdateMetaStore
  BY <1>11 DEF UpdateMetaStore, server, Flags
<1>12. ASSUME NEW m \in {NULL, {}}, SetMetaStore(m) PROVE Flags'
  BY <1>12 DEF SetMetaStore, server, Flags
<1>13. CASE UNCHANGED vars
  BY <1>13 DEF vars, client, server, Flags
<1> QED
  BY <1>1, <1>2, <1>3, <1>4, <1>5, <1>6, <1>7, <1>8, <1>9, <1>10, <1>11, <1>12, <1>13 DEF Next

LEMMA ListsStep == ASSUME TypeOK, ServerInv, [Next]_vars PROVE Lists'
<1> DEFINE Servers == log' \in Seq(Tables) /\ savepoints' \in Seq(Mark)
<1>1. ASSUME NEW b, Ends(b) PROVE Servers
  BY <1>1 DEF Ends
<1>2. ASSUME Finished PROVE levels' \in Seq(Seq(Event))
  BY <1>2, FrontFacts DEF Finished, TypeOK
<1>3. CASE Begin
  BY <1>3 DEF Begin, Started, TypeOK, Lists
<1>4. CASE Commit
  BY <1>1, <1>2, <1>4 DEF Commit, Lists
<1>5. CASE Rollback
  BY <1>1, <1>2, <1>5 DEF Rollback, Lists
<1>6. ASSUME NEW n \in Names, Savepoint(n) PROVE Lists'
  <2>0. Recorded(Svp(n)) /\ log' = log
    BY <1>6 DEF Savepoint
  <2>1. levels' \in Seq(Seq(Event)) /\ log' \in Seq(Tables)
    <3>1. Svp(n) \in Event
      BY DEF Svp, Event
    <3>2. levels' \in Seq(Seq(Event))
      BY <2>0, <3>1, RecordedType
    <3> QED BY <2>0, <3>2 DEF TypeOK
  <2>2. [name |-> n, at |-> Len(log)] \in Mark /\ savepoints \in Seq(Mark)
    BY DEF TypeOK, Mark
  <2>3. savepoints' \in Seq(Mark)
    BY <1>6, <2>2 DEF Savepoint
  <2> QED BY <2>1, <2>3 DEF Lists
<1>7. ASSUME NEW n \in Names, RollbackTo(n) PROVE Lists'
  <2>1. PICK k \in Marks(n) : /\ log' = SubSeq(log, 1, savepoints[k].at)
                              /\ savepoints' = SubSeq(savepoints, 1, k)
                              /\ UNCHANGED <<base, active, outer>>
    BY <1>7 DEF RollbackTo, ServerRollbackTo
  <2>2. k \in 0..Len(savepoints) /\ savepoints[k].at \in 0..Len(log)
    BY MarkFacts DEF ServerInv, Undoable, TypeOK
  <2>3. Servers
    BY <2>1, <2>2, CutFacts DEF TypeOK
  <2> QED BY <1>7, <2>3, SvpType DEF RollbackTo, Lists
<1>8. ASSUME NEW n \in Names, Release(n) PROVE Lists'
  <2>1. PICK k \in Marks(n) :
            IF outer /\ k = 1 THEN Ends(Current)
            ELSE /\ savepoints' = SubSeq(savepoints, 1, k - 1)
                 /\ UNCHANGED <<base, active, outer, log>>
    BY <1>8 DEF Release, ServerRelease
  <2>2. k - 1 \in 0..Len(savepoints)
    BY MarkFacts DEF TypeOK
  <2>3. Servers
    BY <1>1, <2>1, <2>2, CutFacts DEF TypeOK
  <2> QED BY <1>8, <2>3, SvpType DEF Release, Lists
<1>9. ASSUME NEW t \in Tables, Ddl(t) PROVE Lists'
  <2>0. Recorded(Sql(t)) /\ (log' = Append(log, t) \/ log' = log) /\ savepoints' = savepoints
    BY <1>9 DEF Ddl
  <2>1. levels' \in Seq(Seq(Event))
    <3>1. Sql(t) \in Event
      BY DEF Sql, Event
    <3> QED BY <2>0, <3>1, RecordedType
  <2>2. log' \in Seq(Tables) /\ savepoints' \in Seq(Mark)
    <3>1. log \in Seq(Tables) /\ savepoints \in Seq(Mark)
      BY DEF TypeOK
    <3>2. Append(log, t) \in Seq(Tables)
      BY <3>1
    <3> QED BY <2>0, <3>1, <3>2
  <2> QED BY <2>1, <2>2 DEF Lists
<1>10. CASE FailedStatement
  BY <1>1, <1>10 DEF FailedStatement, client, TypeOK, Lists
<1>11. CASE Close
  BY <1>1, <1>11 DEF Close, TypeOK, Lists
<1>12. ASSUME NEW o \in BOOLEAN, Open(o) PROVE Lists'
  BY <1>12 DEF Open, server, TypeOK, Lists
<1>13. CASE UpdateMetaStore
  BY <1>13 DEF UpdateMetaStore, server, TypeOK, Lists
<1>14. ASSUME NEW m \in {NULL, {}}, SetMetaStore(m) PROVE Lists'
  BY <1>14 DEF SetMetaStore, server, TypeOK, Lists
<1>15. CASE UNCHANGED vars
  BY <1>15 DEF vars, client, server, TypeOK, Lists
<1> QED
  BY <1>3, <1>4, <1>5, <1>6, <1>7, <1>8, <1>9, <1>10, <1>11, <1>12, <1>13, <1>14, <1>15 DEF Next

LEMMA SetsStep == ASSUME Sets, [Next]_vars PROVE Sets'
<1>1. Current \in SUBSET Tables
  BY ContentType DEF Current
<1>2. ASSUME NEW T, NEW C \in SUBSET Tables, meta_store # NULL
      PROVE  Updated(T, C) \in SUBSET Tables
  BY <1>2 DEF Updated, Sets
<1>3. CASE Begin
  BY <1>3 DEF Begin, MetaBegin, Sets
<1>4. CASE Commit
  BY <1>1, <1>4 DEF Commit, MetaCommit, Ends, Sets
<1>5. CASE Rollback
  <2>1. CASE Watched /\ ctx # NULL
    <3>1. meta_store' = Updated(ctx, base) /\ ctx' = NULL /\ meta_store # NULL
      BY <1>5, <2>1 DEF Rollback, MetaRollback, Watched
    <3>2. meta_store' \in SUBSET Tables
      BY <1>2, <3>1 DEF Sets
    <3> QED BY <1>5, <3>1, <3>2 DEF Rollback, Ends, Sets
  <2>2. CASE ~(Watched /\ ctx # NULL)
    BY <1>5, <2>2 DEF Rollback, MetaRollback, Ends, Sets
  <2> QED BY <2>1, <2>2
<1>6. ASSUME NEW n \in Names, Savepoint(n) PROVE Sets'
  BY <1>6 DEF Savepoint, MetaUntouched, Sets, Reasons
<1>7. ASSUME NEW n \in Names, RollbackTo(n) PROVE Sets'
  BY <1>7 DEF RollbackTo, ServerRollbackTo, MetaUntouched, Sets
<1>8. ASSUME NEW n \in Names, Release(n) PROVE Sets'
  BY <1>1, <1>8 DEF Release, ServerRelease, Ends, MetaUntouched, Sets
<1>9. ASSUME NEW t \in Tables, Ddl(t) PROVE Sets'
  <2>1. Toggle(Current, t) \in SUBSET Tables /\ Toggle(base, t) \in SUBSET Tables
    BY <1>1 DEF Toggle, Sets
  <2>2. CASE Watched
    <3>1. meta_store' = Updated({t}, Toggle(Current, t)) /\ meta_store # NULL
      BY <1>9, <2>2 DEF Ddl, MetaDdl, Watched
    <3>2. meta_store' \in SUBSET Tables
      BY <1>2, <2>1, <3>1
    <3>3. ctx' = IF ctx # NULL THEN ctx \cup {t} ELSE ctx
      BY <1>9, <2>2 DEF Ddl, MetaDdl
    <3> QED BY <1>9, <2>1, <3>2, <3>3 DEF Ddl, Sets
  <2>3. CASE ~Watched
    BY <1>9, <2>1, <2>3 DEF Ddl, MetaDdl, Sets
  <2> QED BY <2>2, <2>3
<1>10. CASE FailedStatement
  BY <1>10 DEF FailedStatement, Ends, client, Sets, Reasons
<1>11. CASE Close
  <2>1. CASE meta_store # NULL /\ ctx # NULL /\ levels # <<>>
    <3>1. meta_store' = Updated(ctx, Current) /\ ctx' = NULL
      BY <1>11, <2>1 DEF Close
    <3>2. meta_store' \in SUBSET Tables
      BY <1>1, <1>2, <2>1, <3>1
    <3> QED BY <1>11, <3>1, <3>2 DEF Close, Ends, Sets, Reasons
  <2>2. CASE ~(meta_store # NULL /\ ctx # NULL /\ levels # <<>>)
    BY <1>11, <2>2 DEF Close, Ends, Sets, Reasons
  <2> QED BY <2>1, <2>2
<1>12. ASSUME NEW o \in BOOLEAN, Open(o) PROVE Sets'
  BY <1>12 DEF Open, server, Sets
<1>13. CASE UpdateMetaStore
  BY <1>1, <1>13 DEF UpdateMetaStore, server, Sets, Reasons
<1>14. ASSUME NEW m \in {NULL, {}}, SetMetaStore(m) PROVE Sets'
  BY <1>14 DEF SetMetaStore, server, Sets, Reasons
<1>15. CASE UNCHANGED vars
  BY <1>15 DEF vars, client, server, Sets
<1> QED
  BY <1>3, <1>4, <1>5, <1>6, <1>7, <1>8, <1>9, <1>10, <1>11, <1>12, <1>13, <1>14, <1>15 DEF Next

LEMMA TypeStep == ASSUME TypeOK, ServerInv, [Next]_vars PROVE TypeOK'
<1>1. Flags' /\ Lists' /\ Sets'
  BY TypeParts, FlagsStep, ListsStep, SetsStep
<1> QED BY <1>1 DEF TypeOK, Flags, Lists, Sets

-----------------------------------------------------------------------------
(* What a call makes of the status and of the server's transaction.        *)
LEMMA UndoableFacts ==
    ASSUME NEW l, NEW s \in Seq(Mark), Undoable(l, s)
    PROVE  \A k \in 1..Len(s) : s[k].at \in Nat /\ s[k].at <= Len(l)
<1>1. \A k \in 1..Len(s) : s[k] \in Mark
  OBVIOUS
<1>2. \A m \in Mark : m.at \in Nat
  BY DEF Mark
<1> QED BY <1>1, <1>2 DEF Undoable

LEMMA ListedSavepoint ==
    ASSUME NEW l \in Seq(Tables), NEW s \in Seq(Mark), NEW L \in Seq(Event), NEW n \in Names,
           Undoable(l, s), Listed(l, s, L), \A j \in 1..Len(L) : L[j] # Svp(n)
    PROVE  Listed(l, Append(s, [name |-> n, at |-> Len(l)]), Append(L, Svp(n)))
<1> DEFINE m == [name |-> n, at |-> Len(l)]
           t == Append(s, m)
           M == Append(L, Svp(n))
<1>1. PICK f \in [1..Len(l) -> 1..Len(L)] : Embeds(f, l, s, L)
  BY DEF Listed
<1>2. Len(M) = Len(L) + 1 /\ M[Len(L) + 1] = Svp(n) /\ \A j \in 1..Len(L) : M[j] = L[j]
  BY EventFacts
<1>3. /\ Len(t) = Len(s) + 1 /\ t[Len(s) + 1].name = n /\ t[Len(s) + 1].at = Len(l)
      /\ \A k \in 1..Len(s) : t[k] = s[k]
  OBVIOUS
<1>4. \A k \in 1..Len(s) : s[k].at \in Nat /\ s[k].at <= Len(l)
  BY UndoableFacts
<1>5. \A i \in 1..Len(l) : f[i] \in 1..Len(L)
  OBVIOUS
<1>6. Len(l) \in Nat /\ Len(L) \in Nat /\ Len(s) \in Nat
  OBVIOUS
<1>7. f \in [1..Len(l) -> 1..Len(M)]
  BY <1>2, <1>6
<1> HIDE DEF m, t, M
<1>8. ASSUME NEW k \in 1..Len(t), NEW j \in 1..Len(M), M[j] = Svp(t[k].name),
             NEW i \in 1..t[k].at
      PROVE  f[i] < j
  <2>1. CASE j = Len(L) + 1
    <3>1. t[k].at \in Nat /\ t[k].at <= Len(l)
      BY <1>3, <1>4, <1>6
    <3> QED BY <1>5, <1>6, <2>1, <3>1
  <2>2. CASE j \in 1..Len(L) /\ k \in 1..Len(s)
    BY <1>1, <1>2, <1>3, <1>8, <2>2 DEF Embeds
  <2>3. CASE j \in 1..Len(L) /\ k = Len(s) + 1
    BY <1>2, <1>3, <1>8, <2>3
  <2> QED BY <1>2, <1>3, <1>6, <2>1, <2>2, <2>3
<1>9. \A i \in 1..Len(l) : M[f[i]] = Sql(l[i])
  BY <1>1, <1>2, <1>5 DEF Embeds
<1>10. Embeds(f, l, t, M)
  BY <1>1, <1>8, <1>9 DEF Embeds
<1> QED BY <1>7, <1>10 DEF Listed, t, M, m

LEMMA ListedDdl ==
    ASSUME NEW l \in Seq(Tables), NEW s \in Seq(Mark), NEW L \in Seq(Event), NEW u \in Tables,
           Undoable(l, s), Listed(l, s, L)
    PROVE  Listed(Append(l, u), s, Append(L, Sql(u)))
<1> DEFINE q == Append(l, u)
           M == Append(L, Sql(u))
<1>1. PICK f \in [1..Len(l) -> 1..Len(L)] : Embeds(f, l, s, L)
  BY DEF Listed
<1> DEFINE g == [i \in 1..Len(q) |-> IF i = Len(l) + 1 THEN Len(L) + 1 ELSE f[i]]
<1>2. Len(M) = Len(L) + 1 /\ M[Len(L) + 1] = Sql(u) /\ \A j \in 1..Len(L) : M[j] = L[j]
  BY EventFacts
<1>3. Len(q) = Len(l) + 1 /\ q[Len(l) + 1] = u /\ \A i \in 1..Len(l) : q[i] = l[i]
  OBVIOUS
<1>4. \A k \in 1..Len(s) : s[k].at \in Nat /\ s[k].at <= Len(l)
  BY UndoableFacts
<1>5. \A i \in 1..Len(l) : f[i] \in 1..Len(L)
  OBVIOUS
<1>6. Len(l) \in Nat /\ Len(L) \in Nat /\ Len(s) \in Nat
  OBVIOUS
<1> HIDE DEF q, M
<1>7. /\ g \in [1..Len(q) -> 1..Len(M)] /\ g[Len(l) + 1] = Len(L) + 1
      /\ \A i \in 1..Len(l) : g[i] = f[i]
  BY <1>2, <1>3, <1>5, <1>6
<1> HIDE DEF g
<1>8. \A i \in 1..Len(q) : M[g[i]] = Sql(q[i])
  <2> SUFFICES ASSUME NEW i \in 1..Len(q) PROVE M[g[i]] = Sql(q[i])
    OBVIOUS
  <2>1. CASE i = Len(l) + 1
    BY <1>2, <1>3, <1>7, <2>1
  <2>2. CASE i \in 1..Len(l)
    BY <1>1, <1>2, <1>3, <1>5, <1>7, <2>2 DEF Embeds
  <2> QED BY <1>3, <1>6, <2>1, <2>2
<1>9. \A i, j \in 1..Len(q) : j < i => g[j] < g[i]
  <2> SUFFICES ASSUME NEW i \in 1..Len(q), NEW j \in 1..Len(q), j < i PROVE g[j] < g[i]
    OBVIOUS
  <2>1. j \in 1..Len(l)
    BY <1>3, <1>6
  <2>2. CASE i = Len(l) + 1
    BY <1>5, <1>6, <1>7, <2>1, <2>2
  <2>3. CASE i \in 1..Len(l)
    BY <1>1, <1>7, <2>1, <2>3 DEF Embeds
  <2> QED BY <1>3, <1>6, <2>2, <2>3
<1>10. ASSUME NEW k \in 1..Len(s), NEW j \in 1..Len(M), M[j] = Svp(s[k].name),
              NEW i \in 1..s[k].at
       PROVE  g[i] < j
  <2>1. j \in 1..Len(L)
    BY <1>2, <1>6, <1>10, EventFacts
  <2>2. i \in 1..Len(l)
    BY <1>4, <1>6
  <2>3. f[i] < j
    BY <1>1, <1>2, <1>10, <2>1 DEF Embeds
  <2> QED BY <1>7, <2>2, <2>3
<1>11. Embeds(g, q, s, M)
  BY <1>8, <1>9, <1>10 DEF Embeds
<1> QED BY <1>7, <1>11 DEF Listed, q, M

(* ROLLBACK TO, of a savepoint the status does not know, and of one it     *)
(* does.                                                                   *)
LEMMA ListedCut ==
    ASSUME NEW l \in Seq(Tables), NEW s \in Seq(Mark), NEW L \in Seq(Event),
           NEW k \in 1..Len(s), NEW e \in 1..(Len(L) + 1),
           Undoable(l, s), Listed(l, s, L), e <= Len(L) => L[e] = Svp(s[k].name)
    PROVE  Listed(SubSeq(l, 1, s[k].at), SubSeq(s, 1, k), SubSeq(L, 1, e - 1))
<1> DEFINE a == s[k].at
           q == SubSeq(l, 1, a)
           t == SubSeq(s, 1, k)
           M == SubSeq(L, 1, e - 1)
<1>1. PICK f \in [1..Len(l) -> 1..Len(L)] : Embeds(f, l, s, L)
  BY DEF Listed
<1> DEFINE g == [i \in 1..Len(q) |-> f[i]]
<1>2. a \in 0..Len(l) /\ k \in 0..Len(s) /\ e - 1 \in 0..Len(L)
  BY UndoableFacts
<1>3. Len(q) = a /\ \A i \in 1..a : q[i] = l[i]
  BY <1>2, CutFacts
<1>4. Len(t) = k /\ \A i \in 1..k : t[i] = s[i]
  BY <1>2, CutFacts
<1>5. Len(M) = e - 1 /\ \A i \in 1..(e - 1) : M[i] = L[i]
  BY <1>2, CutFacts
<1>6. \A j \in 1..k : s[j].at \in Nat /\ s[j].at <= a
  <2>1. \A j \in 1..Len(s) : s[j] \in Mark
    OBVIOUS
  <2>2. \A j \in 1..k : j \in 1..Len(s) /\ j <= k
    OBVIOUS
  <2> QED BY <2>1, <2>2 DEF Undoable, Mark
<1>7. Len(l) \in Nat /\ Len(L) \in Nat /\ Len(s) \in Nat
  OBVIOUS
<1> HIDE DEF a, q, t, M
<1>8. \A i \in 1..a : f[i] \in 1..(e - 1)
  <2> SUFFICES ASSUME NEW i \in 1..a PROVE f[i] \in 1..(e - 1)
    OBVIOUS
  <2>1. f[i] \in 1..Len(L)
    BY <1>2, <1>7
  <2>2. CASE e <= Len(L)
    <3>1. f[i] < e
      BY <1>1, <1>7, <2>2 DEF Embeds, a
    <3> QED BY <1>7, <2>1, <3>1
  <2>3. CASE e = Len(L) + 1
    BY <1>7, <2>1, <2>3
  <2> QED BY <1>7, <2>2, <2>3
<1>9. g \in [1..Len(q) -> 1..Len(M)] /\ \A i \in 1..a : g[i] = f[i]
  BY <1>3, <1>5, <1>8
<1> HIDE DEF g
<1>10. \A i \in 1..Len(q) : M[g[i]] = Sql(q[i])
  <2> SUFFICES ASSUME NEW i \in 1..a PROVE M[g[i]] = Sql(q[i])
    BY <1>3
  <2>1. i \in 1..Len(l) /\ g[i] = f[i] /\ f[i] \in 1..(e - 1) /\ q[i] = l[i]
    BY <1>2, <1>3, <1>7, <1>8, <1>9
  <2>2. L[f[i]] = Sql(l[i])
    BY <1>1, <2>1 DEF Embeds
  <2>3. M[f[i]] = L[f[i]]
    BY <1>5, <2>1
  <2> QED BY <2>1, <2>2, <2>3
<1>11. \A i, j \in 1..Len(q) : j < i => g[j] < g[i]
  BY <1>1, <1>2, <1>3, <1>7, <1>9 DEF Embeds
<1>12. ASSUME NEW m \in 1..Len(t), NEW j \in 1..Len(M), M[j] = Svp(t[m].name),
              NEW i \in 1..t[m].at
       PROVE  g[i] < j
  <2>1. m \in 1..k /\ m \in 1..Len(s) /\ t[m] = s[m]
    BY <1>4, <1>7
  <2>2. j \in 1..Len(L) /\ L[j] = M[j]
    BY <1>5, <1>7
  <2>3. i \in 1..a
    BY <1>2, <1>6, <1>7, <2>1
  <2>4. f[i] < j
    BY <1>1, <1>12, <2>1, <2>2 DEF Embeds
  <2> QED BY <1>9, <2>3, <2>4
<1>13. Embeds(g, q, t, M)
  BY <1>10, <1>11, <1>12 DEF Embeds
<1> QED BY <1>9, <1>13 DEF Listed, a, q, t, M

(* RELEASE, where the status forgets the savepoint alone.                  *)
LEMMA ListedFewer ==
    ASSUME NEW l \in Seq(Tables), NEW s \in Seq(Mark), NEW L \in Seq(Event),
           NEW k \in 1..Len(s), Undoable(l, s), Listed(l, s, L)
    PROVE  Listed(l, SubSeq(s, 1, k - 1), L)
<1>1. PICK f \in [1..Len(l) -> 1..Len(L)] : Embeds(f, l, s, L)
  BY DEF Listed
<1>2. k - 1 \in 0..Len(s)
  OBVIOUS
<1>3. Len(SubSeq(s, 1, k - 1)) = k - 1 /\ \A i \in 1..(k - 1) : SubSeq(s, 1, k - 1)[i] = s[i]
  BY <1>2, CutFacts
<1>4. \A i \in 1..(k - 1) : i \in 1..Len(s)
  OBVIOUS
<1>5. Embeds(f, l, SubSeq(s, 1, k - 1), L)
  BY <1>1, <1>3, <1>4 DEF Embeds
<1> QED BY <1>5 DEF Listed

LEMMA ListedRemoved ==
    ASSUME NEW l \in Seq(Tables), NEW s \in Seq(Mark), NEW L \in Seq(Event),
           NEW e \in 1..Len(L), NEW n, Undoable(l, s), Listed(l, s, L), L[e] = Svp(n)
    PROVE  Listed(l, s, RemoveAt(L, e))
<1> DEFINE M == RemoveAt(L, e)
<1>1. PICK f \in [1..Len(l) -> 1..Len(L)] : Embeds(f, l, s, L)
  BY DEF Listed
<1> DEFINE g == [i \in 1..Len(l) |-> IF f[i] < e THEN f[i] ELSE f[i] - 1]
<1>2. /\ Len(M) = Len(L) - 1
      /\ \A i \in 1..(e - 1) : M[i] = L[i]
      /\ \A i \in e..(Len(L) - 1) : M[i] = L[i + 1]
  BY RemoveAtFacts
<1>3. Len(l) \in Nat /\ Len(L) \in Nat /\ Len(s) \in Nat
  OBVIOUS
<1>4. \A i \in 1..Len(l) : f[i] \in 1..Len(L) /\ f[i] # e
  BY <1>1, EventFacts DEF Embeds
<1>5. \A k \in 1..Len(s) : s[k].at \in Nat /\ s[k].at <= Len(l)
  BY UndoableFacts
<1> HIDE DEF M
<1>6. g \in [1..Len(l) -> 1..Len(M)]
  BY <1>2, <1>3, <1>4
<1>7. \A i \in 1..Len(l) : g[i] = IF f[i] < e THEN f[i] ELSE f[i] - 1
  OBVIOUS
<1> HIDE DEF g
<1>8. \A i \in 1..Len(l) : M[g[i]] = Sql(l[i])
  <2> SUFFICES ASSUME NEW i \in 1..Len(l) PROVE M[g[i]] = L[f[i]]
    BY <1>1 DEF Embeds
  <2>1. CASE f[i] < e
    BY <1>2, <1>3, <1>4, <1>7, <2>1
  <2>2. CASE ~(f[i] < e)
    <3>1. g[i] = f[i] - 1 /\ g[i] \in e..(Len(L) - 1)
      BY <1>3, <1>4, <1>7, <2>2
    <3>2. M[g[i]] = L[g[i] + 1] /\ g[i] + 1 = f[i]
      BY <1>2, <1>4, <3>1
    <3> QED BY <3>2
  <2> QED BY <2>1, <2>2
<1>9. \A i, j \in 1..Len(l) : j < i => g[j] < g[i]
  <2> SUFFICES ASSUME NEW i \in 1..Len(l), NEW j \in 1..Len(l), j < i PROVE g[j] < g[i]
    OBVIOUS
  <2>1. f[j] < f[i]
    BY <1>1 DEF Embeds
  <2> QED BY <1>4, <1>7, <2>1
<1>10. ASSUME NEW k \in 1..Len(s), NEW j \in 1..Len(M), M[j] = Svp(s[k].name),
              NEW i \in 1..s[k].at
       PROVE  g[i] < j
  <2>1. i \in 1..Len(l)
    BY <1>3, <1>5
  <2>2. CASE j < e
    <3>1. j \in 1..(e - 1) /\ j \in 1..Len(L)
      BY <1>2, <1>3, <2>2
    <3>2. f[i] < j
      BY <1>1, <1>2, <1>10, <3>1 DEF Embeds
    <3> QED BY <1>4, <1>7, <2>1, <2>2, <3>2
  <2>3. CASE ~(j < e)
    <3>1. j \in e..(Len(L) - 1) /\ j + 1 \in 1..Len(L)
      BY <1>2, <1>3, <2>3
    <3>2. f[i] < j + 1
      BY <1>1, <1>2, <1>10, <3>1 DEF Embeds
    <3> QED BY <1>4, <1>7, <2>1, <2>3, <3>2
  <2> QED BY <2>2, <2>3
<1>11. Embeds(g, l, s, M)
  BY <1>8, <1>9, <1>10 DEF Embeds
<1> QED BY <1>6, <1>11 DEF Listed, M

LEMMA ListedNothing == ASSUME NEW L \in Seq(Event) PROVE Listed(<<>>, <<>>, L)
<1>1. [i \in 1..0 |-> 0] \in [1..0 -> 1..Len(L)]
  OBVIOUS
<1>2. Embeds([i \in 1..0 |-> 0], <<>>, <<>>, L)
  BY DEF Embeds
<1> QED BY <1>1, <1>2 DEF Listed

-----------------------------------------------------------------------------
(* The server stays as it is, and its transaction ends.                    *)
LEMMA UndoableNothing == Undoable(<<>>, <<>>)
  BY DEF Undoable

LEMMA ServerSame ==
    ASSUME ServerInv, UNCHANGED <<active, outer, log, savepoints>>, active => opened'
    PROVE  ServerInv'
  BY DEF ServerInv

LEMMA ServerEnds == ASSUME NEW b, Ends(b) PROVE ServerInv'
<1>1. ~active' /\ ~outer' /\ log' = <<>> /\ savepoints' = <<>>
  BY DEF Ends
<1>2. Undoable(log', savepoints')
  BY <1>1, UndoableNothing
<1> QED BY <1>1, <1>2 DEF ServerInv

LEMMA UndoableCut ==
    ASSUME NEW l \in Seq(Tables), NEW s \in Seq(Mark), NEW k \in 1..Len(s), Undoable(l, s)
    PROVE  /\ Undoable(SubSeq(l, 1, s[k].at), SubSeq(s, 1, k))
           /\ Undoable(l, SubSeq(s, 1, k - 1))
<1>1. s[k].at \in 0..Len(l) /\ k \in 0..Len(s) /\ k - 1 \in 0..Len(s)
  BY UndoableFacts
<1>2. Len(SubSeq(l, 1, s[k].at)) = s[k].at
  BY <1>1, CutFacts
<1>3. Len(SubSeq(s, 1, k)) = k /\ \A i \in 1..k : SubSeq(s, 1, k)[i] = s[i]
  BY <1>1, CutFacts
<1>4. Len(SubSeq(s, 1, k - 1)) = k - 1 /\ \A i \in 1..(k - 1) : SubSeq(s, 1, k - 1)[i] = s[i]
  BY <1>1, CutFacts
<1>5. \A i \in 1..k : i \in 1..Len(s) /\ i <= k
  OBVIOUS
<1>6. \A i \in 1..(k - 1) : i \in 1..Len(s)
  OBVIOUS
<1>7. Undoable(SubSeq(l, 1, s[k].at), SubSeq(s, 1, k))
  BY <1>2, <1>3, <1>5 DEF Undoable
<1>8. Undoable(l, SubSeq(s, 1, k - 1))
  BY <1>4, <1>6 DEF Undoable
<1> QED BY <1>7, <1>8

LEMMA UndoableDdl ==
    ASSUME NEW l \in Seq(Tables), NEW s \in Seq(Mark), NEW t \in Tables, Undoable(l, s)
    PROVE  Undoable(Append(l, t), s)
<1>1. Len(Append(l, t)) = Len(l) + 1 /\ Len(l) \in Nat
  OBVIOUS
<1>2. ASSUME NEW k \in 1..Len(s) PROVE s[k].at <= Len(Append(l, t))
  <2>1. s[k].at \in Nat /\ s[k].at <= Len(l)
    BY UndoableFacts
  <2> QED BY <1>1, <2>1
<1> QED BY <1>2 DEF Undoable

LEMMA UndoableSavepoint ==
    ASSUME NEW l \in Seq(Tables), NEW s \in Seq(Mark), NEW n \in Names, Undoable(l, s)
    PROVE  Undoable(l, Append(s, [name |-> n, at |-> Len(l)]))
<1> DEFINE m == [name |-> n, at |-> Len(l)]
           q == Append(s, m)
<1>1. /\ Len(q) = Len(s) + 1 /\ q[Len(s) + 1].at = Len(l)
      /\ \A k \in 1..Len(s) : q[k] = s[k]
  OBVIOUS
<1>2. \A k \in 1..Len(s) : s[k].at \in Nat /\ s[k].at <= Len(l)
  BY UndoableFacts
<1>3. Len(l) \in Nat /\ Len(s) \in Nat
  OBVIOUS
<1> HIDE DEF m, q
<1>4. \A k \in 1..Len(q) : q[k].at \in Nat /\ q[k].at <= Len(l)
  BY <1>1, <1>2, <1>3
<1>5. ASSUME NEW j \in 1..Len(q), NEW k \in 1..Len(q), j <= k PROVE q[j].at <= q[k].at
  <2>1. CASE k = Len(s) + 1
    BY <1>1, <1>4, <2>1
  <2>2. CASE k \in 1..Len(s)
    <3>1. j \in 1..Len(s)
      BY <1>3, <1>5, <2>2
    <3> QED BY <1>1, <1>5, <2>2, <3>1 DEF Undoable
  <2> QED BY <1>1, <1>3, <2>1, <2>2
<1>6. Undoable(l, q)
  BY <1>4, <1>5 DEF Undoable
<1> QED BY <1>6 DEF q, m

LEMMA ServerStep == ASSUME TypeOK, ServerInv, [Next]_vars PROVE ServerInv'
<1>0. log \in Seq(Tables) /\ savepoints \in Seq(Mark) /\ Undoable(log, savepoints)
  BY DEF TypeOK, ServerInv
<1>1. CASE Begin
  BY <1>1 DEF Begin, ServerInv
<1>2. CASE Commit
  BY <1>2, ServerEnds DEF Commit
<1>3. CASE Rollback
  BY <1>3, ServerEnds DEF Rollback
<1>4. ASSUME NEW n \in Names, Savepoint(n) PROVE ServerInv'
  <2>1. /\ active' /\ opened' /\ log' = log
        /\ savepoints' = Append(savepoints, [name |-> n, at |-> Len(log)])
    BY <1>4 DEF Savepoint
  <2>2. Undoable(log', savepoints')
    BY <1>0, <2>1, UndoableSavepoint
  <2> QED BY <2>1, <2>2 DEF ServerInv
<1>5. ASSUME NEW n \in Names, RollbackTo(n) PROVE ServerInv'
  <2>1. PICK k \in Marks(n) : /\ log' = SubSeq(log, 1, savepoints[k].at)
                              /\ savepoints' = SubSeq(savepoints, 1, k)
                              /\ UNCHANGED <<base, active, outer>>
    BY <1>5 DEF RollbackTo, ServerRollbackTo
  <2>2. k \in 1..Len(savepoints)
    BY MarkFacts
  <2>3. Undoable(log', savepoints')
    BY <1>0, <2>1, <2>2, UndoableCut
  <2>4. active
    BY <2>2 DEF ServerInv
  <2>5. active' /\ opened'
    BY <1>5, <2>1, <2>4 DEF RollbackTo
  <2> QED BY <2>3, <2>5 DEF ServerInv
<1>6. ASSUME NEW n \in Names, Release(n) PROVE ServerInv'
  <2>1. PICK k \in Marks(n) :
            IF outer /\ k = 1 THEN Ends(Current)
            ELSE /\ savepoints' = SubSeq(savepoints, 1, k - 1)
                 /\ UNCHANGED <<base, active, outer, log>>
    BY <1>6 DEF Release, ServerRelease
  <2>2. k \in 1..Len(savepoints)
    BY MarkFacts
  <2>3. CASE outer /\ k = 1
    BY <2>1, <2>3, ServerEnds
  <2>4. CASE ~(outer /\ k = 1)
    <3>1. Undoable(log', savepoints')
      BY <1>0, <2>1, <2>2, <2>4, UndoableCut
    <3>2. active
      BY <2>2 DEF ServerInv
    <3>3. active' /\ opened'
      BY <1>6, <2>1, <2>4, <3>2 DEF Release
    <3> QED BY <3>1, <3>3 DEF ServerInv
  <2> QED BY <2>3, <2>4
<1>7. ASSUME NEW t \in Tables, Ddl(t) PROVE ServerInv'
  <2>1. /\ UNCHANGED <<opened, active, outer, savepoints>>
        /\ active => log' = Append(log, t)
        /\ ~active => log' = log
    BY <1>7 DEF Ddl
  <2>2. CASE active
    <3>1. savepoints' = savepoints /\ log' = Append(log, t)
      BY <2>1, <2>2
    <3>2. Undoable(log', savepoints')
      BY <1>0, <3>1, UndoableDdl
    <3> QED BY <2>1, <2>2, <3>2 DEF ServerInv
  <2>3. CASE ~active
    BY <2>1, <2>3 DEF ServerInv
  <2> QED BY <2>2, <2>3
<1>8. CASE FailedStatement
  BY <1>8, ServerEnds DEF FailedStatement
<1>9. CASE Close
  BY <1>9, ServerEnds DEF Close
<1>10. ASSUME NEW o \in BOOLEAN, Open(o) PROVE ServerInv'
  BY <1>10, ServerSame DEF Open, server
<1>11. CASE UpdateMetaStore
  BY <1>11, ServerSame DEF UpdateMetaStore, server, ServerInv
<1>12. ASSUME NEW m \in {NULL, {}}, SetMetaStore(m) PROVE ServerInv'
  BY <1>12, ServerSame DEF SetMetaStore, server, ServerInv
<1>13. CASE UNCHANGED vars
  BY <1>13, ServerSame DEF vars, client, server, ServerInv
<1> QED
  BY <1>1, <1>2, <1>3, <1>4, <1>5, <1>6, <1>7, <1>8, <1>9, <1>10, <1>11, <1>12, <1>13 DEF Next

-----------------------------------------------------------------------------
(* A sequence of one element.                                              *)
LEMMA LenOne ==
    ASSUME NEW S, NEW s \in Seq(S), s # <<>>, Len(s) <= 1
    PROVE  Len(s) = 1
<1>1. Len(s) \in Nat /\ Len(s) # 0
  OBVIOUS
<1> QED BY <1>1

LEMMA ExceptOne ==
    ASSUME NEW S, NEW s \in Seq(S), Len(s) = 1, NEW x
    PROVE  /\ Len([s EXCEPT ![1] = x]) = 1 /\ [s EXCEPT ![1] = x][1] = x
           /\ [s EXCEPT ![1] = x] # <<>>
<1>1. /\ [s EXCEPT ![1] = x] \in Seq(S \cup {x}) /\ Len([s EXCEPT ![1] = x]) = 1
      /\ [s EXCEPT ![1] = x][1] = x
  OBVIOUS
<1> QED BY <1>1

LEMMA AppendOne ==
    ASSUME NEW x
    PROVE  Append(<<>>, x) # <<>> /\ Len(Append(<<>>, x)) = 1 /\ Append(<<>>, x)[1] = x
  OBVIOUS

(* The status of a transaction that the server still has: the call changes *)
(* the only level there is, if there is one.                               *)
LEMMA OneLevel ==
    ASSUME TypeOK, Len(levels) <= 1, levels # <<>>
    PROVE  Len(levels) = 1 /\ levels[1] \in Seq(Event)
<1>1. levels \in Seq(Seq(Event))
  BY DEF TypeOK
<1>2. Len(levels) = 1
  BY <1>1, LenOne
<1> QED BY <1>1, <1>2

LEMMA RecordedOne ==
    ASSUME TypeOK, Len(levels) <= 1, levels # <<>>, NEW e, Recorded(e)
    PROVE  Len(levels') = 1 /\ levels' # <<>> /\ levels'[1] = Append(levels[1], e)
<1>1. levels \in Seq(Seq(Event)) /\ Len(levels) = 1
  BY OneLevel DEF TypeOK
<1>2. levels' = [levels EXCEPT ![1] = Append(@, e)]
  BY <1>1 DEF Recorded
<1> QED BY <1>1, <1>2

LEMMA SameOne ==
    ASSUME TypeOK, Len(levels) <= 1, levels # <<>>, NEW n \in Names,
           SvpRolledBack(n) \/ SvpRemoved(n), Places(n) = {}
    PROVE  levels' = levels
  BY DEF SvpRolledBack, SvpRemoved

LEMMA PlaceOne ==
    ASSUME TypeOK, Len(levels) <= 1, levels # <<>>, NEW n \in Names, NEW p \in Places(n)
    PROVE  p[1] = 1 /\ p[2] \in 1..Len(levels[1]) /\ levels[1][p[2]] = Svp(n)
<1>1. Len(levels) = 1
  BY OneLevel
<1>2. p[1] = 1
  BY <1>1, PlaceFacts
<1> QED BY <1>2, PlaceFacts

LEMMA NoPlace ==
    ASSUME TypeOK, levels # <<>>, NEW n \in Names, Places(n) = {}
    PROVE  \A j \in 1..Len(levels[1]) : levels[1][j] # Svp(n)
<1>1. 1 \in DOMAIN levels /\ levels[1] \in Seq(Event)
  BY DEF TypeOK
<1>2. ASSUME NEW j \in 1..Len(levels[1]), levels[1][j] = Svp(n) PROVE FALSE
  <2>1. <<1, j>> \in Places(n)
    BY <1>1, <1>2 DEF Places
  <2> QED BY <2>1
<1> QED BY <1>2

LEMMA NoneChanged ==
    ASSUME levels = <<>>, NEW n, SvpRolledBack(n) \/ SvpRemoved(n)
    PROVE  levels' = <<>>
<1>1. Places(n) = {}
  BY DEF Places
<1> QED BY <1>1 DEF SvpRolledBack, SvpRemoved

LEMMA StatusEnds ==
    ASSUME TypeOK, Len(levels) <= 1, Finished
    PROVE  levels' = <<>>
<1>1. CASE levels = <<>>
  BY <1>1 DEF Finished
<1>2. CASE levels # <<>>
  <2>1. Len(levels) = 1 /\ levels' = Front(levels) /\ levels \in Seq(Seq(Event))
    BY <1>2, OneLevel DEF Finished, TypeOK
  <2>2. Front(levels) \in Seq(Seq(Event)) /\ Len(Front(levels)) = Len(levels) - 1
    BY <1>2, <2>1, FrontFacts
  <2>3. Front(levels) = <<>>
    BY <2>1, <2>2
  <2> QED BY <2>1, <2>3
<1> QED BY <1>1, <1>2

LEMMA StatusGone ==
    ASSUME levels' = <<>>, active' => outer'
    PROVE  StatusInv'
  BY DEF StatusInv

LEMMA StatusThere ==
    ASSUME Len(levels') <= 1, levels' # <<>>, active' /\ ~outer',
           Listed(log', savepoints', levels'[1])
    PROVE  StatusInv'
  BY DEF StatusInv

LEMMA StatusStep == ASSUME TypeOK, ServerInv, StatusInv, [Next]_vars PROVE StatusInv'
<1> SUFFICES ASSUME Known' PROVE StatusInv'
  BY DEF StatusInv
<1>a. ASSUME odd \subseteq odd' PROVE Known
  BY <1>a DEF Known
<1>b. ASSUME Known PROVE /\ levels # <<>> <=> active /\ ~outer
                         /\ Len(levels) <= 1
                         /\ levels # <<>> => Listed(log, savepoints, levels[1])
  BY <1>b DEF StatusInv
<1>d. ASSUME odd' = odd PROVE Len(levels) <= 1
  BY <1>a, <1>b, <1>d
<1>c. log \in Seq(Tables) /\ savepoints \in Seq(Mark) /\ Undoable(log, savepoints)
  BY DEF TypeOK, ServerInv
<1>1. ASSUME odd' = odd, UNCHANGED <<levels, active, outer, log, savepoints>>
      PROVE  StatusInv'
  BY <1>1 DEF StatusInv, Known
<1>2. CASE Begin
  <2>1. /\ ~active /\ active' /\ levels' = Append(levels, <<>>) /\ odd' = odd
        /\ UNCHANGED <<outer, log, savepoints>>
    BY <1>2 DEF Begin, Started
  <2>2. levels = <<>> /\ ~outer' /\ log' = <<>> /\ savepoints' = <<>>
    BY <1>a, <1>b, <2>1 DEF ServerInv
  <2>3. levels' = <<<<>>>>
    BY <2>1, <2>2
  <2>4. Len(levels') = 1 /\ levels'[1] = <<>> /\ levels' # <<>>
    BY <2>3
  <2>5. Listed(<<>>, <<>>, <<>>)
    <3>1. <<>> \in Seq(Event)
      OBVIOUS
    <3> QED BY <3>1, ListedNothing
  <2>6. Listed(log', savepoints', levels'[1])
    BY <2>2, <2>4, <2>5
  <2> QED BY <2>1, <2>2, <2>4, <2>6, StatusThere
<1>3. ASSUME Finished, NEW b, Ends(b), odd' = odd PROVE StatusInv'
  <2>1. levels' = <<>>
    BY <1>3, <1>a, <1>b, StatusEnds
  <2> QED BY <1>3, <2>1, StatusGone DEF Ends
<1>4. CASE Commit
  BY <1>3, <1>4 DEF Commit
<1>5. CASE Rollback
  BY <1>3, <1>5 DEF Rollback
<1>6. ASSUME NEW n \in Names, Savepoint(n) PROVE StatusInv'
  <2>1. /\ active' /\ log' = log
        /\ savepoints' = Append(savepoints, [name |-> n, at |-> Len(log)])
        /\ Places(n) = {} /\ Recorded(Svp(n))
        /\ odd \subseteq odd'
    BY <1>6 DEF Savepoint
  <2>2. outer' <=> (outer \/ ~active)
    BY <1>6 DEF Savepoint
  <2>3. CASE levels = <<>>
    <3>1. levels' = <<>> /\ outer'
      BY <1>a, <1>b, <2>1, <2>2, <2>3 DEF Recorded
    <3> QED BY <3>1, StatusGone
  <2>4. CASE levels # <<>>
    <3>1. /\ Len(levels) <= 1 /\ Listed(log, savepoints, levels[1])
          /\ ~outer' /\ levels[1] \in Seq(Event)
      BY <1>a, <1>b, <2>1, <2>2, <2>4, OneLevel
    <3>2. Len(levels') = 1 /\ levels' # <<>> /\ levels'[1] = Append(levels[1], Svp(n))
      BY <2>1, <2>4, <3>1, RecordedOne
    <3>3. Listed(log, Append(savepoints, [name |-> n, at |-> Len(log)]),
                 Append(levels[1], Svp(n)))
      BY <1>c, <2>1, <2>4, <3>1, NoPlace, ListedSavepoint
    <3>4. Listed(log', savepoints', levels'[1])
      BY <2>1, <3>2, <3>3
    <3> QED BY <2>1, <3>1, <3>2, <3>4, StatusThere
  <2> QED BY <2>3, <2>4
<1>7. ASSUME NEW n \in Names, RollbackTo(n) PROVE StatusInv'
  <2>1. PICK k \in Marks(n) : /\ log' = SubSeq(log, 1, savepoints[k].at)
                              /\ savepoints' = SubSeq(savepoints, 1, k)
                              /\ UNCHANGED <<base, active, outer>>
    BY <1>7 DEF RollbackTo, ServerRollbackTo
  <2>2. SvpRolledBack(n) /\ odd' = odd
    BY <1>7 DEF RollbackTo
  <2>3. CASE levels = <<>>
    BY <1>a, <1>b, <2>1, <2>2, <2>3, NoneChanged, StatusGone
  <2>4. CASE levels # <<>>
    <3> DEFINE L == levels[1]
    <3>1. /\ Len(levels) = 1 /\ Listed(log, savepoints, L)
          /\ active' /\ ~outer' /\ L \in Seq(Event)
      BY <1>a, <1>b, <2>1, <2>2, <2>4, OneLevel
    <3>2. k \in 1..Len(savepoints) /\ savepoints[k].name = n
      BY MarkFacts
    <3>3. CASE Places(n) = {}
      <4>1. levels' = levels
        BY <2>2, <3>3 DEF SvpRolledBack
      <4>2. Len(L) + 1 \in 1..(Len(L) + 1) /\ ~(Len(L) + 1 <= Len(L))
        BY <3>1
      <4>3. Listed(log', savepoints', SubSeq(L, 1, (Len(L) + 1) - 1))
        BY <1>c, <2>1, <3>1, <3>2, <4>2, ListedCut
      <4>4. SubSeq(L, 1, (Len(L) + 1) - 1) = L
        BY <3>1
      <4>5. Listed(log', savepoints', levels'[1])
        BY <4>1, <4>3, <4>4
      <4>6. Len(levels') <= 1 /\ levels' # <<>>
        BY <1>d, <2>2, <2>4, <4>1
      <4> QED BY <3>1, <4>5, <4>6, StatusThere
    <3>4. CASE Places(n) # {}
      <4>1. PICK p \in Places(n) : levels' = Append(SubSeq(levels, 1, p[1] - 1),
                                                    SubSeq(levels[p[1]], 1, p[2] - 1))
        BY <2>2, <3>4 DEF SvpRolledBack
      <4>2. p[1] = 1 /\ p[2] \in 1..Len(L) /\ L[p[2]] = Svp(n)
        BY <2>4, <3>1, PlaceOne
      <4>3. p[2] \in 1..(Len(L) + 1)
        BY <3>1, <4>2
      <4>4. Listed(log', savepoints', SubSeq(L, 1, p[2] - 1))
        BY <1>c, <2>1, <3>1, <3>2, <4>2, <4>3, ListedCut
      <4>5. SubSeq(levels, 1, 0) = <<>> /\ p[1] - 1 = 0
        BY <4>2 DEF TypeOK
      <4>6. levels' = Append(<<>>, SubSeq(L, 1, p[2] - 1))
        BY <4>1, <4>2, <4>5
      <4>7. Len(levels') = 1 /\ levels' # <<>> /\ levels'[1] = SubSeq(L, 1, p[2] - 1)
        BY <4>6, AppendOne
      <4>8. Listed(log', savepoints', levels'[1])
        BY <4>4, <4>7
      <4> QED BY <3>1, <4>7, <4>8, StatusThere
    <3> QED BY <3>3, <3>4
  <2> QED BY <2>3, <2>4
<1>8. ASSUME NEW n \in Names, Release(n) PROVE StatusInv'
  <2>1. PICK k \in Marks(n) :
            IF outer /\ k = 1 THEN Ends(Current)
            ELSE /\ savepoints' = SubSeq(savepoints, 1, k - 1)
                 /\ UNCHANGED <<base, active, outer, log>>
    BY <1>8 DEF Release, ServerRelease
  <2>2. SvpRemoved(n) /\ odd' = odd
    BY <1>8 DEF Release
  <2>3. CASE levels = <<>>
    <3>1. levels' = <<>>
      BY <2>2, <2>3, NoneChanged
    <3>2. active => outer
      BY <1>a, <1>b, <2>2, <2>3
    <3>3. active' => outer'
      BY <2>1, <3>2 DEF Ends
    <3> QED BY <3>1, <3>3, StatusGone
  <2>4. CASE levels # <<>>
    <3> DEFINE L == levels[1]
    <3>1. /\ Len(levels) = 1 /\ Listed(log, savepoints, L)
          /\ active /\ ~outer /\ L \in Seq(Event)
      BY <1>a, <1>b, <2>2, <2>4, OneLevel
    <3>2. k \in 1..Len(savepoints)
      BY MarkFacts
    <3>3. savepoints' = SubSeq(savepoints, 1, k - 1) /\ log' = log /\ active' /\ ~outer'
      BY <2>1, <3>1
    <3>4. /\ Listed(log, SubSeq(savepoints, 1, k - 1), L)
          /\ Undoable(log, SubSeq(savepoints, 1, k - 1))
      BY <1>c, <3>1, <3>2, ListedFewer, UndoableCut
    <3>5. CASE Places(n) = {}
      <4>1. levels' = levels
        BY <2>2, <3>5 DEF SvpRemoved
      <4>2. Listed(log', savepoints', levels'[1])
        BY <3>3, <3>4, <4>1
      <4>3. Len(levels') <= 1 /\ levels' # <<>>
        BY <1>d, <2>2, <2>4, <4>1
      <4> QED BY <3>3, <4>2, <4>3, StatusThere
    <3>6. CASE Places(n) # {}
      <4>1. PICK p \in Places(n) : levels' = [levels EXCEPT ![p[1]] = RemoveAt(@, p[2])]
        BY <2>2, <3>6 DEF SvpRemoved
      <4>2. p[1] = 1 /\ p[2] \in 1..Len(L) /\ L[p[2]] = Svp(n)
        BY <2>4, <3>1, PlaceOne
      <4>3. SubSeq(savepoints, 1, k - 1) \in Seq(Mark)
        <5>1. k - 1 \in 0..Len(savepoints)
          BY <1>c, <3>2
        <5> QED BY <1>c, <5>1, CutFacts
      <4>4. Listed(log, SubSeq(savepoints, 1, k - 1), RemoveAt(L, p[2]))
        BY <1>c, <3>1, <3>4, <4>2, <4>3, ListedRemoved
      <4>5. levels \in Seq(Seq(Event)) /\ levels' = [levels EXCEPT ![1] = RemoveAt(L, p[2])]
        BY <4>1, <4>2 DEF TypeOK
      <4>6. Len(levels') = 1 /\ levels' # <<>> /\ levels'[1] = RemoveAt(L, p[2])
        BY <3>1, <4>5, ExceptOne
      <4>7. Listed(log', savepoints', levels'[1])
        BY <3>3, <4>4, <4>6
      <4> QED BY <3>3, <4>6, <4>7, StatusThere
    <3> QED BY <3>5, <3>6
  <2> QED BY <2>3, <2>4
<1>9. ASSUME NEW t \in Tables, Ddl(t) PROVE StatusInv'
  <2>1. /\ UNCHANGED <<active, outer, savepoints, odd>>
        /\ active => log' = Append(log, t)
        /\ Recorded(Sql(t))
    BY <1>9 DEF Ddl
  <2>2. CASE levels = <<>>
    <3>1. levels' = <<>>
      BY <2>1, <2>2 DEF Recorded
    <3>2. active' => outer'
      BY <1>a, <1>b, <2>1, <2>2
    <3> QED BY <3>1, <3>2, StatusGone
  <2>3. CASE levels # <<>>
    <3>1. /\ Len(levels) = 1 /\ Listed(log, savepoints, levels[1])
          /\ active /\ active' /\ ~outer' /\ levels[1] \in Seq(Event)
      BY <1>a, <1>b, <2>1, <2>3, OneLevel
    <3>2. Len(levels') = 1 /\ levels' # <<>> /\ levels'[1] = Append(levels[1], Sql(t))
      BY <2>1, <2>3, <3>1, RecordedOne
    <3>3. Listed(Append(log, t), savepoints, Append(levels[1], Sql(t)))
      BY <1>c, <3>1, ListedDdl
    <3>4. Listed(log', savepoints', levels'[1])
      BY <2>1, <3>1, <3>2, <3>3
    <3> QED BY <3>1, <3>2, <3>4, StatusThere
  <2> QED BY <2>2, <2>3
<1>10. CASE FailedStatement
  BY <1>10 DEF FailedStatement, Known
<1>11. CASE Close
  <2>1. ~active /\ odd' = odd /\ levels' = levels /\ ~active'
    BY <1>11 DEF Close, Ends, Known
  <2>2. levels = <<>>
    BY <1>a, <1>b, <2>1
  <2> QED BY <2>1, <2>2, StatusGone
<1>12. ASSUME NEW o \in BOOLEAN, Open(o) PROVE StatusInv'
  BY <1>1, <1>12 DEF Open, server
<1>13. CASE UpdateMetaStore
  <2>1. UNCHANGED <<levels, active, outer, log, savepoints>> /\ odd \subseteq odd'
    BY <1>13 DEF UpdateMetaStore, server
  <2> QED BY <1>a, <2>1 DEF StatusInv
<1>14. ASSUME NEW m \in {NULL, {}}, SetMetaStore(m) PROVE StatusInv'
  <2>1. UNCHANGED <<levels, active, outer, log, savepoints>> /\ odd \subseteq odd'
    BY <1>14 DEF SetMetaStore, server
  <2> QED BY <1>a, <2>1 DEF StatusInv
<1>15. CASE UNCHANGED vars
  BY <1>1, <1>15 DEF vars, client, server
<1> QED
  BY <1>2, <1>4, <1>5, <1>6, <1>7, <1>8, <1>9, <1>10, <1>11, <1>12, <1>13, <1>14, <1>15 DEF Next

-----------------------------------------------------------------------------
(* The contexts: there are some exactly during the transactions they are   *)
(* for, as long as nothing came in between.                                *)
LEMMA NullFacts == \A T \in SUBSET Tables : T # NULL
  BY NullAssumption

LEMMA OddGrows == ASSUME [Next]_vars PROVE odd \subseteq odd'
  BY DEF Next, vars, client, server, Begin, Commit, Rollback, Savepoint, RollbackTo, Release,
         Ddl, FailedStatement, Close, Open, UpdateMetaStore, SetMetaStore

(* A savepoint that is rolled back or released leaves its transaction.     *)
LEMMA AppendSome == ASSUME NEW S, NEW s \in Seq(S), NEW x PROVE Append(s, x) # <<>>
<1>1. s \in Seq(S \cup {x})
  OBVIOUS
<1>2. Append(s, x) \in Seq(S \cup {x}) /\ Len(Append(s, x)) = Len(s) + 1 /\ Len(s) \in Nat
  BY <1>1
<1> QED BY <1>2

LEMMA SvpStays ==
    ASSUME TypeOK, levels # <<>>, NEW n \in Names, SvpRolledBack(n) \/ SvpRemoved(n)
    PROVE  levels' # <<>>
<1>1. CASE Places(n) = {}
  BY <1>1 DEF SvpRolledBack, SvpRemoved
<1>2. CASE Places(n) # {} /\ SvpRolledBack(n)
  <2>1. PICK p \in Places(n) : levels' = Append(SubSeq(levels, 1, p[1] - 1),
                                                SubSeq(levels[p[1]], 1, p[2] - 1))
    BY <1>2 DEF SvpRolledBack
  <2>2. p[1] - 1 \in 0..Len(levels)
    BY PlaceFacts DEF TypeOK
  <2>3. SubSeq(levels, 1, p[1] - 1) \in Seq(Seq(Event))
    BY <2>2, CutFacts DEF TypeOK
  <2> QED BY <2>1, <2>3, AppendSome
<1>3. CASE Places(n) # {} /\ SvpRemoved(n)
  <2>1. PICK p \in Places(n) : levels' = [levels EXCEPT ![p[1]] = RemoveAt(@, p[2])]
    BY <1>3 DEF SvpRemoved
  <2>2. DOMAIN levels' = DOMAIN levels /\ DOMAIN levels # {}
    BY <2>1, PlaceFacts DEF TypeOK
  <2> QED BY <2>2
<1> QED BY <1>1, <1>2, <1>3

LEMMA RecordedStays ==
    ASSUME TypeOK, levels # <<>>, NEW e, Recorded(e)
    PROVE  levels' # <<>>
<1>1. DOMAIN levels' = DOMAIN levels
  BY DEF Recorded
<1>2. levels \in Seq(Seq(Event))
  BY DEF TypeOK
<1>3. 1 \in DOMAIN levels
  BY <1>2
<1> QED BY <1>1, <1>3

LEMMA OuterStep == ASSUME LevelsInv, [Next]_vars PROVE outer' => "outer" \in odd'
<1> SUFFICES ASSUME outer', ~outer PROVE "outer" \in odd'
  BY OddGrows DEF LevelsInv
<1> QED BY DEF Next, vars, client, server, Begin, Commit, Rollback, Savepoint, RollbackTo,
               Release, ServerRollbackTo, ServerRelease, Ends, Ddl, FailedStatement, Close,
               Open, UpdateMetaStore, SetMetaStore

LEMMA LevelsStep == ASSUME TypeOK, LevelsInv, [Next]_vars PROVE LevelsInv'
<1> SUFFICES ASSUME odd' \cap {"failed", "outer"} = {}, active'
             PROVE  levels' # <<>>
  BY OuterStep DEF LevelsInv
<1>a. active => levels # <<>>
  BY OddGrows DEF LevelsInv
<1>1. CASE Begin
  <2>1. levels' = Append(levels, <<>>) /\ levels \in Seq(Seq(Event))
    BY <1>1 DEF Begin, Started, TypeOK
  <2> QED BY <2>1, AppendSome
<1>2. CASE Commit \/ Rollback \/ FailedStatement \/ Close
  BY <1>2 DEF Commit, Rollback, FailedStatement, Close, Ends
<1>3. ASSUME NEW n \in Names, Savepoint(n) PROVE levels' # <<>>
  <2>1. active /\ Recorded(Svp(n))
    BY <1>3 DEF Savepoint
  <2> QED BY <1>a, <2>1, RecordedStays
<1>4. ASSUME NEW n \in Names, RollbackTo(n) PROVE levels' # <<>>
  <2>1. active /\ SvpRolledBack(n)
    BY <1>4 DEF RollbackTo, ServerRollbackTo
  <2> QED BY <1>a, <2>1, SvpStays
<1>5. ASSUME NEW n \in Names, Release(n) PROVE levels' # <<>>
  <2>1. active /\ SvpRemoved(n)
    BY <1>5 DEF Release, ServerRelease, Ends
  <2> QED BY <1>a, <2>1, SvpStays
<1>6. ASSUME NEW t \in Tables, Ddl(t) PROVE levels' # <<>>
  <2>1. active /\ Recorded(Sql(t))
    BY <1>6 DEF Ddl
  <2> QED BY <1>a, <2>1, RecordedStays
<1>7. ASSUME NEW o \in BOOLEAN, Open(o) PROVE levels' # <<>>
  BY <1>a, <1>7 DEF Open, server
<1>8. CASE UpdateMetaStore
  BY <1>a, <1>8 DEF UpdateMetaStore, server
<1>9. ASSUME NEW m \in {NULL, {}}, SetMetaStore(m) PROVE levels' # <<>>
  BY <1>a, <1>9 DEF SetMetaStore, server
<1>10. CASE UNCHANGED vars
  BY <1>a, <1>10 DEF vars, client, server
<1> QED BY <1>1, <1>2, <1>3, <1>4, <1>5, <1>6, <1>7, <1>8, <1>9, <1>10 DEF Next

LEMMA ContextStep ==
    ASSUME TypeOK, ServerInv, LevelsInv, ContextInv, AssertHolds, [Next]_vars
    PROVE  ContextInv' /\ AssertHolds'
<1> SUFFICES ASSUME odd' \cap {"failed", "outer", "late"} = {}
             PROVE  (ctx' # NULL <=> active' /\ Watched') /\ ~aborted'
  BY DEF ContextInv, AssertHolds
<1>a. /\ ctx # NULL <=> active /\ Watched
      /\ ~aborted
      /\ active => levels # <<>>
  BY OddGrows DEF ContextInv, AssertHolds, LevelsInv
<1>b. /\ ~active => ctx = NULL
      /\ active => opened
  BY <1>a DEF ServerInv
<1>c. {} # NULL /\ Current # NULL
  BY NullFacts, ContentType DEF Current
<1>e. ASSUME NEW T, NEW C \in SUBSET Tables, meta_store # NULL PROVE Updated(T, C) # NULL
  <2>1. Updated(T, C) \in SUBSET Tables
    BY <1>e DEF Updated, TypeOK
  <2> QED BY <2>1, NullFacts
<1>d. ASSUME MetaUntouched, auto_meta' = auto_meta, active' = active
      PROVE  (ctx' # NULL <=> active' /\ Watched') /\ ~aborted'
  BY <1>a, <1>d DEF MetaUntouched, Watched
<1>1. CASE Begin
  <2>1. ctx = NULL /\ active' /\ auto_meta' = auto_meta /\ meta_store' = meta_store /\ MetaBegin
    BY <1>1, <1>b DEF Begin, MetaBegin
  <2>2. Watched' = Watched
    BY <2>1 DEF Watched
  <2> QED BY <1>a, <1>c, <2>1, <2>2 DEF MetaBegin
<1>2. CASE Commit
  <2>1. active /\ ~active' /\ MetaCommit
    BY <1>2 DEF Commit, Ends
  <2> QED BY <1>a, <2>1 DEF MetaCommit
<1>3. CASE Rollback
  <2>1. active /\ ~active' /\ MetaRollback(base)
    BY <1>3 DEF Rollback, Ends
  <2> QED BY <1>a, <2>1 DEF MetaRollback
<1>4. ASSUME NEW n \in Names, Savepoint(n)
      PROVE  (ctx' # NULL <=> active' /\ Watched') /\ ~aborted'
  <2>1. active /\ active' /\ MetaUntouched /\ auto_meta' = auto_meta
    BY <1>4 DEF Savepoint
  <2> QED BY <1>a, <2>1 DEF MetaUntouched, Watched
<1>5. ASSUME NEW n \in Names, RollbackTo(n)
      PROVE  (ctx' # NULL <=> active' /\ Watched') /\ ~aborted'
  BY <1>d, <1>5 DEF RollbackTo, ServerRollbackTo
<1>6. ASSUME NEW n \in Names, Release(n)
      PROVE  (ctx' # NULL <=> active' /\ Watched') /\ ~aborted'
  <2>1. ~outer
    BY OddGrows DEF LevelsInv
  <2>2. MetaUntouched /\ auto_meta' = auto_meta /\ active' = active
    BY <1>6, <2>1 DEF Release, ServerRelease
  <2> QED BY <1>d, <2>2
<1>7. ASSUME NEW t \in Tables, Ddl(t)
      PROVE  (ctx' # NULL <=> active' /\ Watched') /\ ~aborted'
  <2>1. Watched' = Watched
    <3>1. Watched => meta_store' # NULL
      <4>1. Toggle(Current, t) \in SUBSET Tables
        BY ContentType DEF Toggle, Current
      <4> QED BY <1>7, <1>e, <4>1 DEF Ddl, MetaDdl, Watched
    <3> QED BY <1>7, <3>1 DEF Ddl, MetaDdl, Watched
  <2>2. active' = active /\ aborted' = aborted
    BY <1>7 DEF Ddl, MetaDdl
  <2>3. ctx' # NULL <=> ctx # NULL
    <3>1. ctx # NULL => ctx \cup {t} \in SUBSET Tables
      BY DEF TypeOK
    <3> QED BY <1>7, <3>1, NullFacts DEF Ddl, MetaDdl
  <2> QED BY <1>a, <2>1, <2>2, <2>3
<1>8. CASE FailedStatement
  BY <1>8 DEF FailedStatement
<1>9. CASE Close
  BY <1>a, <1>9 DEF Close, Ends, Watched
<1>10. ASSUME NEW o \in BOOLEAN, Open(o)
       PROVE  (ctx' # NULL <=> active' /\ Watched') /\ ~aborted'
  BY <1>a, <1>b, <1>10 DEF Open, server
<1>11. CASE UpdateMetaStore
  <2>1. active => meta_store # NULL
    BY <1>11 DEF UpdateMetaStore
  <2>2. meta_store' # NULL /\ auto_meta' = auto_meta
    BY <1>11, <1>c DEF UpdateMetaStore
  <2>3. active /\ Watched <=> active /\ Watched'
    BY <2>1, <2>2 DEF Watched
  <2> QED BY <1>a, <1>11, <2>3 DEF UpdateMetaStore, server
<1>12. ASSUME NEW m \in {NULL, {}}, SetMetaStore(m)
       PROVE  (ctx' # NULL <=> active' /\ Watched') /\ ~aborted'
  BY <1>a, <1>12 DEF SetMetaStore, server
<1>13. CASE UNCHANGED vars
  BY <1>a, <1>13 DEF vars, client, server, Watched
<1> QED
  BY <1>1, <1>2, <1>3, <1>4, <1>5, <1>6, <1>7, <1>8, <1>9, <1>10, <1>11, <1>12, <1>13 DEF Next

-----------------------------------------------------------------------------
(* The meta store: what a ROLLBACK has to look up again is in the          *)
(* contexts, and the rest of what the meta store knows stays true.         *)
LEMMA TouchedStep == ASSUME TypeOK, ServerInv, TouchedInv, [Next]_vars PROVE TouchedInv'
<1> SUFFICES ASSUME Watched', "late" \notin odd', ctx' # NULL
             PROVE  \A i \in 1..Len(log') : log'[i] \in ctx'
  BY DEF TouchedInv
<1>a. "late" \notin odd
  BY OddGrows
<1>b. ASSUME log' = <<>> PROVE \A i \in 1..Len(log') : log'[i] \in ctx'
  BY <1>b
<1>c. ~active => log = <<>>
  BY DEF ServerInv
<1>d. ASSUME Watched, ctx' = ctx, log' = log PROVE \A i \in 1..Len(log') : log'[i] \in ctx'
  BY <1>a, <1>d DEF TouchedInv
<1>1. CASE Begin
  <2>1. log' = <<>>
    BY <1>1, <1>c DEF Begin
  <2> QED BY <1>b, <2>1
<1>2. CASE Commit \/ Rollback \/ FailedStatement \/ Close
  BY <1>b, <1>2 DEF Commit, Rollback, FailedStatement, Close, Ends
<1>3. ASSUME NEW n \in Names, Savepoint(n)
      PROVE  \A i \in 1..Len(log') : log'[i] \in ctx'
  BY <1>d, <1>3 DEF Savepoint, MetaUntouched, Watched
<1>4. ASSUME NEW n \in Names, RollbackTo(n)
      PROVE  \A i \in 1..Len(log') : log'[i] \in ctx'
  <2>1. PICK k \in Marks(n) : log' = SubSeq(log, 1, savepoints[k].at)
    BY <1>4 DEF RollbackTo, ServerRollbackTo
  <2>2. savepoints[k].at \in 0..Len(log)
    BY MarkFacts DEF ServerInv, Undoable, TypeOK
  <2>3. /\ Len(log') = savepoints[k].at /\ savepoints[k].at \in Nat
        /\ \A i \in 1..savepoints[k].at : log'[i] = log[i]
    BY <2>1, <2>2, CutFacts DEF TypeOK
  <2>4. Watched /\ ctx' = ctx
    BY <1>4 DEF RollbackTo, MetaUntouched, Watched
  <2>5. \A i \in 1..Len(log) : log[i] \in ctx'
    BY <1>a, <2>4 DEF TouchedInv
  <2>6. \A i \in 1..savepoints[k].at : i \in 1..Len(log)
    BY <2>2
  <2> QED BY <2>3, <2>5, <2>6
<1>5. ASSUME NEW n \in Names, Release(n)
      PROVE  \A i \in 1..Len(log') : log'[i] \in ctx'
  <2>1. log' = log \/ log' = <<>>
    BY <1>5 DEF Release, ServerRelease, Ends
  <2>2. Watched /\ ctx' = ctx
    BY <1>5 DEF Release, MetaUntouched, Watched
  <2> QED BY <1>b, <1>d, <2>1, <2>2
<1>6. ASSUME NEW t \in Tables, Ddl(t)
      PROVE  \A i \in 1..Len(log') : log'[i] \in ctx'
  <2>1. Watched
    BY <1>6 DEF Ddl, MetaDdl, Watched
  <2>2. ctx # NULL /\ ctx' = ctx \cup {t}
    BY <1>6, <2>1 DEF Ddl, MetaDdl
  <2>3. \A i \in 1..Len(log) : log[i] \in ctx
    BY <1>a, <2>1, <2>2 DEF TouchedInv
  <2>4. log' = log \/ log' = Append(log, t)
    BY <1>6 DEF Ddl
  <2>5. log \in Seq(Tables)
    BY DEF TypeOK
  <2>6. ASSUME NEW i \in 1..(Len(log) + 1) PROVE Append(log, t)[i] \in ctx'
    BY <2>2, <2>3, <2>5, <2>6
  <2>7. Len(Append(log, t)) = Len(log) + 1
    BY <2>5
  <2> QED BY <2>2, <2>3, <2>4, <2>6, <2>7
<1>7. ASSUME NEW o \in BOOLEAN, Open(o)
      PROVE  \A i \in 1..Len(log') : log'[i] \in ctx'
  <2>1. log' = <<>>
    BY <1>7 DEF Open, server, ServerInv
  <2> QED BY <1>b, <2>1
<1>8. CASE UpdateMetaStore
  <2>1. log' = log /\ ctx' = ctx /\ auto_meta' = auto_meta
    BY <1>8 DEF UpdateMetaStore, server
  <2>2. meta_store = NULL => ~active
    BY <1>8 DEF UpdateMetaStore
  <2>3. CASE meta_store = NULL
    BY <1>b, <1>c, <2>1, <2>2, <2>3
  <2>4. CASE meta_store # NULL
    BY <1>d, <2>1, <2>4 DEF Watched
  <2> QED BY <2>3, <2>4
<1>9. ASSUME NEW m \in {NULL, {}}, SetMetaStore(m)
      PROVE  \A i \in 1..Len(log') : log'[i] \in ctx'
  <2>1. log' = <<>>
    BY <1>9, <1>c DEF SetMetaStore, server
  <2> QED BY <1>b, <2>1
<1>10. CASE UNCHANGED vars
  BY <1>d, <1>10 DEF vars, client, server, Watched
<1> QED BY <1>1, <1>2, <1>3, <1>4, <1>5, <1>6, <1>7, <1>8, <1>9, <1>10 DEF Next

(* After a commit there are the tables there were.                         *)
LEMMA CurrentEnds == ASSUME NEW b \in SUBSET Tables, Ends(b) PROVE Current' = b
<1>1. base' = b /\ log' = <<>>
  BY DEF Ends
<1> QED BY <1>1, ContentNone DEF Current

(* After a ROLLBACK only the tables of the contexts differ.                *)
LEMMA UpdatedFacts ==
    ASSUME TypeOK, NEW C \in SUBSET Tables, meta_store \in SUBSET Tables,
           NEW T, \A t \in Tables : t \notin T => (t \in meta_store <=> t \in C)
    PROVE  Updated(T, C) = C
  BY DEF Updated

LEMMA StoreStep ==
    ASSUME TypeOK, ServerInv, TouchedInv, StoreInv, [Next]_vars, ~aborted
    PROVE  StoreInv'
<1> SUFFICES ASSUME meta_store' # NULL, ~aborted', ~stale', "late" \notin odd'
             PROVE  meta_store' = Current'
  BY DEF StoreInv
<1>a. "late" \notin odd
  BY OddGrows
<1>b. /\ Current \in SUBSET Tables /\ base \in SUBSET Tables
      /\ meta_store # NULL => meta_store \in SUBSET Tables
  BY ContentType DEF Current, TypeOK
<1>c. ASSUME ~stale, meta_store # NULL PROVE meta_store = Current
  BY <1>a, <1>c DEF StoreInv
<1>d. ASSUME ~stale, meta_store' = meta_store, Current' = Current PROVE meta_store' = Current'
  BY <1>c, <1>d
<1>e. ASSUME base' = base, log' = log PROVE Current' = Current
  BY <1>e DEF Current
<1>1. CASE Begin
  <2>1. base' = base /\ log' = log /\ meta_store' = meta_store /\ ~stale
    BY <1>1 DEF Begin, MetaBegin
  <2> QED BY <1>d, <1>e, <2>1
<1>2. CASE Commit
  <2>1. Ends(Current) /\ meta_store' = meta_store /\ ~stale
    BY <1>2 DEF Commit, MetaCommit
  <2> QED BY <1>b, <1>d, <2>1, CurrentEnds
<1>3. CASE Rollback
  <2>1. Ends(base) /\ MetaRollback(base)
    BY <1>3 DEF Rollback
  <2>2. Current' = base
    BY <1>b, <2>1, CurrentEnds
  <2>3. CASE ~Watched
    <3>1. ~stale /\ Current' = Current /\ meta_store' = meta_store
      BY <1>3, <2>1, <2>3 DEF Rollback, MetaRollback, NotTold
    <3> QED BY <1>d, <3>1
  <2>4. CASE Watched
    <3>1. ~stale /\ meta_store # NULL /\ ctx # NULL /\ meta_store' = Updated(ctx, base)
      BY <1>3, <2>1, <2>4 DEF Rollback, MetaRollback, Watched
    <3>2. \A i \in 1..Len(log) : log[i] \in ctx
      BY <1>a, <2>4, <3>1 DEF TouchedInv
    <3>3. meta_store = Content(base, log)
      BY <1>c, <3>1 DEF Current
    <3>4. ASSUME NEW t \in Tables, t \notin ctx PROVE t \in meta_store <=> t \in base
      <4>1. \A i \in 1..Len(log) : log[i] # t
        BY <3>2, <3>4
      <4>2. log \in Seq(Tables)
        BY DEF TypeOK
      <4> QED BY <1>b, <3>3, <4>1, <4>2, ContentElsewhere
    <3>5. Updated(ctx, base) = base
      BY <1>b, <3>1, <3>4, UpdatedFacts
    <3> QED BY <2>2, <3>1, <3>5
  <2> QED BY <2>3, <2>4
<1>4. ASSUME NEW n \in Names, Savepoint(n) PROVE meta_store' = Current'
  <2>1. base' = base /\ log' = log /\ meta_store' = meta_store /\ ~stale
    BY <1>4 DEF Savepoint, MetaUntouched
  <2> QED BY <1>d, <1>e, <2>1
<1>5. ASSUME NEW n \in Names, RollbackTo(n) PROVE meta_store' = Current'
  <2>1. meta_store' = meta_store /\ ~stale /\ Current' = Current
    BY <1>5 DEF RollbackTo, MetaUntouched, NotTold
  <2> QED BY <1>d, <2>1
<1>6. ASSUME NEW n \in Names, Release(n) PROVE meta_store' = Current'
  <2>1. meta_store' = meta_store /\ ~stale
    BY <1>6 DEF Release, MetaUntouched
  <2>2. Ends(Current) \/ (base' = base /\ log' = log)
    BY <1>6 DEF Release, ServerRelease
  <2>3. Current' = Current
    BY <1>b, <1>e, <2>2, CurrentEnds
  <2> QED BY <1>d, <2>1, <2>3
<1>7. ASSUME NEW t \in Tables, Ddl(t) PROVE meta_store' = Current'
  <2>1. Watched /\ ~stale
    BY <1>7 DEF Ddl
  <2>2. meta_store # NULL /\ meta_store' = Updated({t}, Toggle(Current, t))
    BY <1>7, <2>1 DEF Ddl, MetaDdl, Watched
  <2>3. meta_store = Current /\ Toggle(Current, t) \in SUBSET Tables
    BY <1>b, <1>c, <2>1, <2>2 DEF Toggle
  <2>4. Updated({t}, Toggle(Current, t)) = Toggle(Current, t)
    BY <2>3 DEF Updated, Toggle
  <2>5. Current' = Toggle(Current, t)
    <3>1. log \in Seq(Tables)
      BY DEF TypeOK
    <3>2. CASE active
      <4>1. base' = base /\ log' = Append(log, t)
        BY <1>7, <3>2 DEF Ddl
      <4> QED BY <1>b, <3>1, <4>1, ContentNext DEF Current
    <3>3. CASE ~active
      <4>1. base' = Toggle(base, t) /\ log' = <<>> /\ log = <<>>
        BY <1>7, <3>3 DEF Ddl, ServerInv
      <4>2. Toggle(base, t) \in SUBSET Tables
        BY <1>b DEF Toggle
      <4> QED BY <1>b, <4>1, <4>2, ContentNone DEF Current
    <3> QED BY <3>2, <3>3
  <2> QED BY <2>2, <2>4, <2>5
<1>8. CASE FailedStatement
  <2>1. meta_store' = meta_store /\ ~stale /\ Current' = Current
    BY <1>8 DEF FailedStatement, client, NotTold
  <2> QED BY <1>d, <2>1
<1>9. CASE Close
  <2>1. ~stale /\ Current' = Current
    BY <1>9 DEF Close, NotTold
  <2>2. CASE meta_store' = meta_store
    BY <1>d, <2>1, <2>2
  <2>3. CASE meta_store # NULL /\ meta_store' = Updated(ctx, Current)
    <3>1. meta_store = Current
      BY <1>c, <2>1, <2>3
    <3>2. Updated(ctx, Current) = Current
      BY <1>b, <3>1, UpdatedFacts
    <3> QED BY <2>1, <2>3, <3>2
  <2> QED BY <1>9, <2>2, <2>3 DEF Close
<1>10. ASSUME NEW o \in BOOLEAN, Open(o) PROVE meta_store' = Current'
  <2>1. base' = base /\ log' = log /\ meta_store' = meta_store /\ ~stale
    BY <1>10 DEF Open, server
  <2> QED BY <1>d, <1>e, <2>1
<1>11. CASE UpdateMetaStore
  <2>1. base' = base /\ log' = log /\ meta_store' = Current
    BY <1>11 DEF UpdateMetaStore, server
  <2> QED BY <1>e, <2>1
<1>12. ASSUME NEW m \in {NULL, {}}, SetMetaStore(m) PROVE meta_store' = Current'
  BY <1>12 DEF SetMetaStore
<1>13. CASE UNCHANGED vars
  <2>1. base' = base /\ log' = log /\ meta_store' = meta_store /\ ~stale
    BY <1>13 DEF vars, client, server
  <2> QED BY <1>d, <1>e, <2>1
<1> QED
  BY <1>1, <1>2, <1>3, <1>4, <1>5, <1>6, <1>7, <1>8, <1>9, <1>10, <1>11, <1>12, <1>13 DEF Next

-----------------------------------------------------------------------------
(* The invariant of the proof holds in every reachable state.              *)
THEOREM TransactionsInvariance == Spec => []IInv
<1>1. Init => IInv
  BY InitIInv
<1>2. IInv /\ [Next]_vars => IInv'
  <2> SUFFICES ASSUME IInv, [Next]_vars PROVE IInv'
    OBVIOUS
  <2>1. /\ TypeOK /\ ServerInv /\ StatusInv /\ LevelsInv
        /\ ContextInv /\ AssertHolds /\ TouchedInv /\ StoreInv
    BY DEF IInv
  <2>2. TypeOK' /\ ServerInv'
    BY <2>1, TypeStep, ServerStep
  <2>3. StatusInv' /\ LevelsInv'
    BY <2>1, StatusStep, LevelsStep
  <2>4. ContextInv' /\ AssertHolds' /\ TouchedInv'
    BY <2>1, ContextStep, TouchedStep
  <2>5. StoreInv'
    <3>1. CASE ~aborted
      BY <2>1, <3>1, StoreStep
    <3>2. CASE aborted
      <4>1. UNCHANGED vars
        BY <3>2 DEF Next
      <4>2. UNCHANGED <<meta_store, aborted, stale, odd, base, log>>
        BY <4>1 DEF vars, client, server
      <4> QED BY <2>1, <4>2 DEF StoreInv, Current
    <3> QED BY <3>1, <3>2
  <2> QED BY <2>2, <2>3, <2>4, <2>5 DEF IInv
<1> QED BY <1>1, <1>2, PTL DEF Spec

(* gda_connection_get_transaction_status(): the statements of the server's *)
(* transaction are all in the status, in order, and there is a status      *)
(* exactly during the transactions a BEGIN started.                        *)
THEOREM StatusIsAlwaysRight == Spec => []StatusIsRight
<1>1. IInv => StatusIsRight
  <2> SUFFICES ASSUME IInv PROVE StatusIsRight
    OBVIOUS
  <2>1. TypeOK /\ StatusInv
    BY DEF IInv
  <2>2. StatusFollowsServer
    BY <2>1 DEF StatusInv, StatusFollowsServer, Known
  <2>3. NothingForgotten
    <3> SUFFICES ASSUME Known, levels # <<>>
                 PROVE  Within([i \in DOMAIN log |-> Sql(log[i])], levels[1])
      BY DEF NothingForgotten, Known
    <3> DEFINE s == [i \in DOMAIN log |-> Sql(log[i])]
               L == levels[1]
    <3>1. Len(levels) <= 1 /\ Listed(log, savepoints, L)
      BY <2>1 DEF StatusInv
    <3>2. L \in Seq(Event) /\ log \in Seq(Tables)
      BY <2>1, <3>1, OneLevel DEF TypeOK
    <3>3. PICK f \in [1..Len(log) -> 1..Len(L)] : Embeds(f, log, savepoints, L)
      BY <3>1 DEF Listed
    <3>4. /\ DOMAIN s = 1..Len(log) /\ DOMAIN L = 1..Len(L) /\ Len(log) \in Nat
          /\ \A i \in 1..Len(log) : s[i] = Sql(log[i])
      BY <3>2
    <3>5. \A i \in DOMAIN s : s[i] = L[f[i]]
      BY <3>3, <3>4 DEF Embeds
    <3>6. \A i \in DOMAIN s : \A j \in 1..(i - 1) : f[j] < f[i]
      <4> SUFFICES ASSUME NEW i \in DOMAIN s, NEW j \in 1..(i - 1) PROVE f[j] < f[i]
        OBVIOUS
      <4>1. i \in 1..Len(log) /\ j \in 1..Len(log) /\ j < i
        BY <3>4
      <4> QED BY <3>3, <4>1 DEF Embeds
    <3>7. f \in [DOMAIN s -> DOMAIN L]
      BY <3>4
    <3> HIDE DEF s, L
    <3>8. Within(s, L)
      BY <3>5, <3>6, <3>7 DEF Within
    <3> QED BY <3>8 DEF s, L
  <2> QED BY <2>1, <2>2, <2>3 DEF StatusIsRight
<1> QED BY <1>1, TransactionsInvariance, PTL

(* The assertions on trans_meta_context (6925, 6936, 6956): they fail only *)
(* after what libgda does not see, and while the meta store is kept up to  *)
(* date there are contexts exactly during a transaction.                   *)
THEOREM ContextsAreAlwaysRight == Spec => []ContextsAreRight
<1>1. IInv => ContextsAreRight
  BY DEF IInv, ContextsAreRight, ContextsFollowServer, ContextInv
<1> QED BY <1>1, TransactionsInvariance, PTL

(* update_meta_store_after_statement_exec(): through commits and rollbacks *)
(* of any DDL the meta store has the tables of the server, as long as they *)
(* changed only by statements that libgda watches.                         *)
THEOREM MetaStoreIsCurrent == Spec => []MetaStoreCurrent
<1>1. IInv => MetaStoreCurrent
  BY DEF IInv, StoreInv, MetaStoreCurrent, Watched
<1> QED BY <1>1, TransactionsInvariance, PTL
=============================================================================
