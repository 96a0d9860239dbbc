--------------------------- MODULE GdaCncTransactions ---------------------------
(***************************************************************************)
(* What a GdaConnection knows of the transactions of its server            *)
(* (gda-connection-vs10.c): the GdaTransactionStatus it keeps by watching  *)
(* the statements it executes, and the meta store it keeps up to date,     *)
(* with the contexts (trans_meta_context) that a ROLLBACK has to update    *)
(* again.  The server is SQLite behind gda-sqlite-provider-vs10.c.         *)
(*                                                                         *)
(* One thread uses the connection; an action is a call of the API with all *)
(* it does to the server, the status and the meta store.  Statements the   *)
(* server refuses change nothing, with one exception: an error may make    *)
(* SQLite roll the whole transaction back (FailedStatement).               *)
(*                                                                         *)
(* Data: the only statements besides those about transactions are DDL, and *)
(* a table exists or not.  Transactions are not named, a savepoint's name  *)
(* is not used twice while either side remembers it, and the meta store is *)
(* in a database of its own.                                               *)
(***************************************************************************)
EXTENDS Integers, Sequences, FiniteSets, SequencesExt

CONSTANTS
    Tables,     \* names of tables
    Names,      \* names of savepoints
    MaxEvents,  \* bound on the events of a transaction
    MaxOdd,     \* bound on the kinds of things the status cannot follow
    MaxLevels,  \* bound on the nesting of transactions in the status
    NULL        \* no meta store, no contexts

ASSUME NullAssumption == \A T \in SUBSET Tables : T # NULL
ASSUME BoundsAssumption ==
    MaxEvents \in Nat /\ MaxLevels \in Nat \ {0} /\ MaxOdd \in Nat

VARIABLES
    opened,     \* cnc->priv->provider_data is not NULL
    auto_meta,  \* GDA_CONNECTION_OPTIONS_AUTO_META_DATA is in options
    levels,     \* trans_status: the chain from the outermost transaction to
                \* the innermost, each its events; <<>> is NULL
    ctx,        \* trans_meta_context: the tables to update again
    meta_store, \* the tables the meta store has, if there is a meta store
    aborted,    \* a g_assert() failed
    base,       \* the server: the tables committed
    active,     \* the server: a transaction is open
    outer,      \* the server: and a SAVEPOINT opened it
    log,        \* the server: the tables of the transaction's DDL, in order
    savepoints, \* the server: its savepoints, and how long log was at each
    odd,        \* history: what happened that the status cannot follow
    stale       \* history: the tables changed and the meta store was not told

client == <<opened, auto_meta, levels, ctx, meta_store>>
server == <<base, active, outer, log, savepoints>>
vars == <<client, aborted, server, odd, stale>>

Svp(n) == [kind |-> "svp", name |-> n]
Sql(t) == [kind |-> "sql", name |-> t]
Event == [kind : {"svp"}, name : Names] \cup [kind : {"sql"}, name : Tables]
Mark == [name : Names, at : Nat]
Reasons == {"failed", "closed", "outer", "late"}

(* Type correctness.                                                       *)
TypeOK ==
    /\ opened \in BOOLEAN /\ auto_meta \in BOOLEAN /\ aborted \in BOOLEAN
    /\ levels \in Seq(Seq(Event))
    /\ ctx \in {NULL} \cup SUBSET Tables
    /\ meta_store \in {NULL} \cup SUBSET Tables
    /\ base \subseteq Tables
    /\ active \in BOOLEAN /\ outer \in BOOLEAN
    /\ log \in Seq(Tables)
    /\ savepoints \in Seq(Mark)
    /\ odd \subseteq Reasons /\ stale \in BOOLEAN

Init ==
    /\ opened = TRUE /\ auto_meta \in BOOLEAN
    /\ levels = <<>> /\ ctx = NULL
    /\ meta_store \in {NULL, {}}
    /\ aborted = FALSE
    /\ base = {} /\ active = FALSE /\ outer = FALSE
    /\ log = <<>> /\ savepoints = <<>>
    /\ odd = {} /\ stale = FALSE

-----------------------------------------------------------------------------
(* The server.                                                             *)

(* A statement creates the table, or drops it if it exists; so after the   *)
(* statements of l, a table that was named an odd number of times in l is  *)
(* there if it was not in b, and is not if it was.                         *)
Toggle(S, t) == IF t \in S THEN S \ {t} ELSE S \cup {t}
Times(l, t) == Cardinality({i \in DOMAIN l : l[i] = t})
Content(b, l) == {t \in Tables : (t \in b) <=> (Times(l, t) % 2 = 0)}
Current == Content(base, log)

Marks(n) == {k \in DOMAIN savepoints : savepoints[k].name = n}

Ends(b) ==
    /\ base' = b /\ active' = FALSE /\ outer' = FALSE
    /\ log' = <<>> /\ savepoints' = <<>>

(* RELEASE: that savepoint and those inside it are forgotten; releasing    *)
(* the savepoint that opened the transaction commits.                      *)
ServerRelease(n) == \E k \in Marks(n) :
    IF outer /\ k = 1 THEN Ends(Current)
    ELSE /\ savepoints' = SubSeq(savepoints, 1, k - 1)
         /\ UNCHANGED <<base, active, outer, log>>

ServerRollbackTo(n) == \E k \in Marks(n) :
    /\ log' = SubSeq(log, 1, savepoints[k].at)
    /\ savepoints' = SubSeq(savepoints, 1, k)
    /\ UNCHANGED <<base, active, outer>>

-----------------------------------------------------------------------------
(* The transaction status.  gda_transaction_status_find(), for a name,     *)
(* searches the chain for the event of a savepoint; for NULL it returns    *)
(* the innermost transaction.                                              *)

Places(n) == UNION {{<<i, j>> : j \in {j \in DOMAIN levels[i] : levels[i][j] = Svp(n)}} :
                    i \in DOMAIN levels}

(* Started: inside the innermost transaction, if there is one.             *)
Started == levels' = Append(levels, <<>>)

(* Committed or rolled back: with a parent, its event is freed; without,   *)
(* the whole status is.  No status is only worth a warning.                *)
Finished == levels' = IF levels = <<>> THEN levels ELSE Front(levels)

Recorded(e) ==
    levels' = IF levels = <<>> THEN levels
              ELSE [levels EXCEPT ![Len(levels)] = Append(@, e)]

(* The savepoint and everything after it.                                  *)
SvpRolledBack(n) ==
    IF Places(n) = {} THEN levels' = levels
    ELSE \E p \in Places(n) :
            levels' = Append(SubSeq(levels, 1, p[1] - 1),
                             SubSeq(levels[p[1]], 1, p[2] - 1))

(* The savepoint alone.                                                    *)
SvpRemovedAfter(n) ==
    IF Places(n) = {} THEN levels' = levels
    ELSE \E p \in Places(n) :
            levels' = [levels EXCEPT ![p[1]] = SubSeq(@, 1, p[2] - 1)]
SvpRemoved(n) ==
    IF Places(n) = {} THEN levels' = levels
    ELSE \E p \in Places(n) :
            levels' = [levels EXCEPT ![p[1]] = RemoveAt(@, p[2])]

-----------------------------------------------------------------------------
(* The meta store, after a statement.                                      *)

Watched == meta_store # NULL /\ auto_meta

(* The tables of T looked up again in C, the others left as they were.     *)
Updated(T, C) == (meta_store \ T) \cup (C \cap T)

MetaBegin ==
    /\ IF ~Watched THEN UNCHANGED <<ctx, aborted>>
       ELSE IF ctx = NULL THEN ctx' = {} /\ UNCHANGED aborted
       ELSE aborted' = TRUE /\ UNCHANGED ctx
    /\ UNCHANGED meta_store

MetaCommit ==
    /\ IF ~Watched THEN UNCHANGED <<ctx, aborted>>
       ELSE IF ctx # NULL THEN ctx' = NULL /\ UNCHANGED aborted
       ELSE aborted' = TRUE /\ UNCHANGED ctx
    /\ UNCHANGED meta_store

MetaRollbackKept(C) ==
    IF ~Watched THEN UNCHANGED <<ctx, meta_store, aborted>>
    ELSE IF ctx = NULL THEN aborted' = TRUE /\ UNCHANGED <<ctx, meta_store>>
    ELSE meta_store' = Updated(ctx, C) /\ UNCHANGED <<ctx, aborted>>
MetaRollback(C) ==
    IF ~Watched THEN UNCHANGED <<ctx, meta_store, aborted>>
    ELSE IF ctx = NULL THEN aborted' = TRUE /\ UNCHANGED <<ctx, meta_store>>
    ELSE /\ meta_store' = Updated(ctx, C) /\ ctx' = NULL
         /\ UNCHANGED aborted

(* DDL, whose statement type is GDA_SQL_STATEMENT_UNKNOWN: the table is    *)
(* noted for a ROLLBACK.                                                   *)
MetaDdlOnce(t, C) ==
    /\ meta_store' = IF Watched THEN Updated({t}, C) ELSE meta_store
    /\ UNCHANGED <<ctx, aborted>>
MetaDdl(t, C) ==
    /\ meta_store' = IF Watched THEN Updated({t}, C) ELSE meta_store
    /\ ctx' = IF Watched /\ ctx # NULL THEN ctx \cup {t} ELSE ctx
    /\ UNCHANGED aborted

MetaUntouched == UNCHANGED <<ctx, meta_store, aborted>>

(* The meta store is not told of what this does to the tables.             *)
NotTold == stale' = (stale \/ Current' # Current)

-----------------------------------------------------------------------------
(* The calls.  Each guard says that the server accepts the statement.      *)

(* The bound on the events.                                                *)
Room ==
    /\ Len(log) + Len(savepoints) < MaxEvents
    /\ levels # <<>> => Len(Last(levels)) < MaxEvents

Begin ==
    /\ opened /\ ~active /\ Len(levels) < MaxLevels
    /\ active' = TRUE
    /\ Started /\ MetaBegin
    /\ UNCHANGED <<opened, auto_meta, base, outer, log, savepoints, odd, stale>>

Commit ==
    /\ opened /\ active
    /\ Ends(Current)
    /\ Finished /\ MetaCommit
    /\ UNCHANGED <<opened, auto_meta, odd, stale>>

Rollback ==
    /\ opened /\ active
    /\ Ends(base)
    /\ Finished /\ MetaRollback(base)
    /\ IF Watched THEN UNCHANGED stale ELSE NotTold
    /\ UNCHANGED <<opened, auto_meta, odd>>

(* SAVEPOINT: outside of a transaction it opens one, and libgda, which has *)
(* no status to add it to, only warns.                                     *)
Savepoint(n) ==
    /\ opened /\ Room
    /\ Marks(n) = {} /\ Places(n) = {}
    /\ active' = TRUE
    /\ savepoints' = Append(savepoints, [name |-> n, at |-> Len(log)])
    /\ outer' = (outer \/ ~active)
    /\ Recorded(Svp(n)) /\ MetaUntouched
    /\ odd' = IF active THEN odd ELSE odd \cup {"outer"}
    /\ UNCHANGED <<opened, auto_meta, base, log, stale>>

(* ROLLBACK TO: the server keeps the savepoint, the status does not; the   *)
(* meta store hears nothing of it.                                         *)
RollbackTo(n) ==
    /\ opened
    /\ ServerRollbackTo(n)
    /\ SvpRolledBack(n) /\ MetaUntouched
    /\ NotTold
    /\ UNCHANGED <<opened, auto_meta, odd>>

Release(n) ==
    /\ opened
    /\ ServerRelease(n)
    /\ SvpRemoved(n) /\ MetaUntouched
    /\ UNCHANGED <<opened, auto_meta, odd, stale>>

(* CREATE or DROP of a table; without a transaction it is committed.       *)
Ddl(t) ==
    /\ opened /\ Room
    /\ IF active
       THEN log' = Append(log, t) /\ UNCHANGED base
       ELSE base' = Toggle(base, t) /\ UNCHANGED log
    /\ Recorded(Sql(t)) /\ MetaDdl(t, Toggle(Current, t))
    /\ stale' = (stale \/ ~Watched)
    /\ UNCHANGED <<opened, auto_meta, active, outer, savepoints, odd>>

(* A statement fails, and SQLite rolls the transaction back: the error     *)
(* event is all libgda sees.                                               *)
FailedStatement ==
    /\ opened /\ active
    /\ Ends(base)
    /\ NotTold
    /\ odd' = odd \cup {"failed"}
    /\ UNCHANGED <<client, aborted>>

(* gda_connection_close_no_warning(): the meta store is updated before the *)
(* server rolls back, and the status stays.                                *)
Close ==
    /\ opened /\ opened' = FALSE
    /\ IF meta_store # NULL /\ ctx # NULL /\ levels # <<>>
       THEN meta_store' = Updated(ctx, Current) /\ ctx' = NULL
       ELSE UNCHANGED <<meta_store, ctx>>
    /\ Ends(base)
    /\ NotTold
    /\ odd' = IF active THEN odd \cup {"closed"} ELSE odd
    /\ UNCHANGED <<auto_meta, levels, aborted>>

Open(o) ==
    /\ ~opened /\ opened' = TRUE
    /\ auto_meta' = o  \* the "options" property, writable while closed
    /\ UNCHANGED <<levels, ctx, meta_store, aborted, server, odd, stale>>

(* gda_connection_update_meta_store(cnc, NULL), which creates the meta     *)
(* store if there is none.                                                 *)
UpdateMetaStore ==
    /\ opened
    /\ meta_store' = Current
    /\ stale' = FALSE
    /\ odd' = IF meta_store = NULL /\ active THEN odd \cup {"late"} ELSE odd
    /\ UNCHANGED <<opened, auto_meta, levels, ctx, aborted, server>>

(* The "meta-store" property: a meta store without tables, or none.        *)
SetMetaStore(m) ==
    /\ m \in {NULL, {}}
    /\ meta_store' = m
    /\ stale' = TRUE
    /\ odd' = IF active THEN odd \cup {"late"} ELSE odd
    /\ UNCHANGED <<opened, auto_meta, levels, ctx, aborted, server>>

Next ==
    /\ ~aborted
    /\ \/ Begin \/ Commit \/ Rollback
       \/ \E n \in Names : Savepoint(n) \/ RollbackTo(n) \/ Release(n)
       \/ \E t \in Tables : Ddl(t)
       \/ FailedStatement
       \/ Close \/ \E o \in BOOLEAN : Open(o)
       \/ UpdateMetaStore \/ \E m \in {NULL, {}} : SetMetaStore(m)
    /\ Cardinality(odd') <= MaxOdd

Spec == Init /\ [][Next]_vars

-----------------------------------------------------------------------------
(* Properties.                                                             *)

(* As long as no error rolled a transaction back and none was open when    *)
(* the connection was closed, there is a transaction status exactly during *)
(* the transactions of the server that a BEGIN started, and it has one     *)
(* level: SQLite has no nested ones.                                       *)
StatusFollowsServer ==
    odd \cap {"failed", "closed"} = {} =>
        /\ levels # <<>> <=> active /\ ~outer
        /\ Len(levels) <= 1

Within(s, t) ==
    \E f \in [DOMAIN s -> DOMAIN t] :
        \A i \in DOMAIN s :
            /\ s[i] = t[f[i]]
            /\ \A j \in 1..(i - 1) : f[j] < f[i]

(* Then the status lists every statement the transaction will commit, in   *)
(* the order of their execution, whatever savepoints came and went.        *)
NothingForgotten ==
    odd \cap {"failed", "closed"} = {} /\ levels # <<>> =>
        Within([i \in DOMAIN log |-> Sql(log[i])], levels[1])

(* What gda_connection_get_transaction_status() tells is what the server's *)
(* transaction is.                                                         *)
StatusIsRight == TypeOK /\ StatusFollowsServer /\ NothingForgotten

(* The assertions on the contexts (6925, 6936, 6956) only fail after a     *)
(* transaction that an error ended or that a SAVEPOINT opened, or when the *)
(* meta store was set or created during a transaction.                     *)
AssertHolds ==
    aborted => odd \cap {"failed", "outer", "late"} # {}

(* There are contexts exactly when a transaction is open that a ROLLBACK   *)
(* has to undo in the meta store.                                          *)
ContextsFollowServer ==
    Watched /\ odd = {} => (ctx # NULL <=> active)

(* The stack of meta store contexts is in step with the transaction.       *)
ContextsAreRight == AssertHolds /\ ContextsFollowServer

(* A meta store that is kept up to date knows the tables of the server,    *)
(* unless they changed by what libgda does not watch: a ROLLBACK TO, an    *)
(* error or a close that rolled back, a change without a meta store.       *)
MetaStoreCurrent ==
    Watched /\ opened /\ ~aborted /\ ~stale /\ "late" \notin odd =>
        meta_store = Current
=============================================================================
