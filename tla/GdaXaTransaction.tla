---------------------------- MODULE GdaXaTransaction ----------------------------
(***************************************************************************)
(* libgda's distributed transactions (gda-xa-transaction-vs10.c): an       *)
(* application registers connections with a GdaXaTransaction and runs      *)
(* begin, commit (PREPARE, then COMMIT), rollback and commit_recovered     *)
(* over them.                                                              *)
(*                                                                         *)
(* One application thread makes the calls.  A step of begin, commit,       *)
(* rollback or commit_recovered is one call into a database, which may     *)
(* fail; between two steps the program may crash: a database keeps what    *)
(* was prepared and forgets the rest, and the next run of the program      *)
(* starts with new objects for the same transaction ids.                   *)
(*                                                                         *)
(* branch and plain are the databases, modelled from the way the provider  *)
(* functions are called; every connection has a database of its own.  The  *)
(* transaction ids have the same format and gtrid_length.                  *)
(*                                                                         *)
(* A definition that no other uses and that stands just before another     *)
(* (After before Previous) is a seeded fault: the mutation runs put it in  *)
(* the place of the one below to see the properties fail.                  *)
(***************************************************************************)
EXTENDS Integers, Sequences, FiniteSets, SequencesExt

CONSTANTS
    Cncs,       \* the connections
    NonXa,      \* those whose provider has xa_funcs NULL
    Xas,        \* the GdaXaTransaction objects
    NULL        \* no connection, no transaction

ASSUME NonXaAssumption == NonXa \subseteq Cncs
ASSUME NullAssumption == NULL \notin Cncs \cup Xas

VARIABLES
    cnc_list,   \* xa_trans->priv->cnc_list (and the keys of cnc_hash)
    non_xa_cnc, \* xa_trans->priv->non_xa_cnc
    tag,        \* the "_gda_xa_transaction" data of a connection
    held,       \* the connections the application has a reference on
    op, cur, pos,   \* the call being made: its loop, object and position
    ret,        \* the call that just returned, and its result
    retval,     \* commit_recovered's local
    to_recover, \* *cnc_to_recover
    started,    \* history: the connections this call began a transaction on
    prepared,   \* history: those it prepared
    committed,  \* history: those it committed
    failed,     \* history: those on which an undo or a recover call failed
    branch,     \* the databases: state of transaction x in that of c
    plain       \* the databases: those with an ordinary transaction

objects == <<cnc_list, non_xa_cnc, tag, held>>
history == <<started, prepared, committed, failed>>
databases == <<branch, plain>>
vars == <<objects, op, cur, pos, ret, retval, to_recover, history, databases>>

Loops == {"begin", "begin_undo", "prepare", "prepare_undo", "plain_commit",
          "commit_undo", "commit", "rollback", "recover"}
NoRet == [call |-> "none", ok |-> TRUE]
Members(x) == ToSet(cnc_list[x])

(* Type correctness.                                                       *)
TypeOK ==
    /\ cnc_list \in [Xas -> Seq(Cncs)]
    /\ non_xa_cnc \in [Xas -> Cncs \cup {NULL}]
    /\ tag \in [Cncs -> Xas \cup {NULL}]
    /\ held \subseteq Cncs
    /\ op \in Loops \cup {"none", "segv"}
    /\ cur \in Xas \cup {NULL}
    /\ pos \in 0..(IF cur = NULL THEN 0 ELSE Len(cnc_list[cur]) + 1)
    /\ ret \in [call : {"none", "begin", "commit", "rollback", "recover"},
                ok : BOOLEAN]
    /\ retval \in BOOLEAN
    /\ \A S \in {to_recover, started, prepared, committed, failed, plain} :
          S \subseteq Cncs
    /\ branch \in [Xas -> [Cncs -> {"none", "active", "prepared"}]]

Unlisted == [x \in Xas |-> <<>>]
NoNonXa == [x \in Xas |-> NULL]
Untagged == [c \in Cncs |-> NULL]

Init ==
    /\ cnc_list = Unlisted /\ non_xa_cnc = NoNonXa /\ tag = Untagged
    /\ held = Cncs
    /\ op = "none" /\ cur = NULL /\ pos = 0 /\ ret = NoRet
    /\ retval = TRUE /\ to_recover = {}
    /\ started = {} /\ prepared = {} /\ committed = {} /\ failed = {}
    /\ branch = [x \in Xas |-> [c \in Cncs |-> "none"]]
    /\ plain = {}

ForgetCall ==
    /\ ret' = NoRet
    /\ cur' = NULL /\ pos' = 0 /\ retval' = TRUE /\ to_recover' = {}
    /\ started' = {} /\ prepared' = {} /\ committed' = {} /\ failed' = {}

-----------------------------------------------------------------------------
(* The objects.                                                            *)

Alive(c) == c \in held \/ \E x \in Xas : c \in Members(x)

(* Whether x can take one more connection.                                 *)
AcceptsAnything(x, c) == tag[c] = NULL
Accepts(x, c) ==
    /\ tag[c] = NULL
    /\ c \in NonXa => non_xa_cnc[x] = NULL

(* A connection registered with x already only changes its branch name.    *)
Register(x, c) ==
    /\ op = "none" /\ c \in held /\ c \notin Members(x)
    /\ Accepts(x, c)
    /\ cnc_list' = [cnc_list EXCEPT ![x] = <<c>> \o @]
    /\ non_xa_cnc' = [non_xa_cnc EXCEPT ![x] = IF c \in NonXa THEN c ELSE @]
    /\ tag' = [tag EXCEPT ![c] = x]
    /\ ForgetCall
    /\ UNCHANGED <<held, op, databases>>

(* g_list_remove() of a connection the list has. *)
Unlink(x, c) ==
    \E i \in DOMAIN cnc_list[x] :
        cnc_list[x][i] = c /\ cnc_list' = [cnc_list EXCEPT ![x] = RemoveAt(@, i)]

Unregister(x, c) ==
    /\ op = "none" /\ c \in held
    /\ Unlink(x, c)
    /\ tag' = [tag EXCEPT ![c] = NULL]
    /\ ForgetCall
    /\ UNCHANGED <<non_xa_cnc, held, op, databases>>

(* The databases once the connections of S are closed: what is not         *)
(* prepared is lost.                                                       *)
Closed(S) ==
    /\ plain' = plain \ S
    /\ branch' = [x \in Xas |-> [c \in Cncs |->
          IF c \in S /\ branch[x][c] = "active" THEN "none" ELSE branch[x][c]]]

(* The application drops its reference on a connection, maybe the last.    *)
Unref(c) ==
    /\ op = "none" /\ c \in held
    /\ held' = held \ {c}
    /\ Closed({c} \ UNION {Members(x) : x \in Xas})
    /\ ForgetCall
    /\ UNCHANGED <<cnc_list, non_xa_cnc, tag, op>>

(* The transaction object is disposed of, and a new one made with its id.  *)
Dispose(x) ==
    /\ op = "none"
    /\ cnc_list' = [cnc_list EXCEPT ![x] = <<>>]
    /\ non_xa_cnc' = [non_xa_cnc EXCEPT ![x] = NULL]
    /\ tag' = [c \in Cncs |-> IF c \in Members(x) THEN NULL ELSE tag[c]]
    /\ Closed(Members(x) \ held)
    /\ ForgetCall
    /\ UNCHANGED <<held, op>>

(* The program ends between two steps, or died of a NULL xa_funcs, and is  *)
(* started again.                                                          *)
Crash ==
    /\ op' = "none"
    /\ cnc_list' = Unlisted /\ non_xa_cnc' = NoNonXa /\ tag' = Untagged
    /\ held' = Cncs
    /\ Closed(Cncs)
    /\ ForgetCall

-----------------------------------------------------------------------------
(* One call into the database of connection c: xa_start or BEGIN...        *)

InTransaction(c) == c \in plain \/ \E x \in Xas : branch[x][c] = "active"
BranchBecomes(c, s) == branch' = [branch EXCEPT ![cur][c] = s]
IsPlain(c) == c = non_xa_cnc[cur]

StartOn(c) ==
    /\ ~InTransaction(c)
    /\ IF IsPlain(c) THEN plain' = plain \cup {c} /\ UNCHANGED branch
       ELSE /\ branch[cur][c] = "none"
            /\ BranchBecomes(c, "active") /\ UNCHANGED plain
    /\ started' = started \cup {c}
    /\ UNCHANGED <<prepared, committed, failed>>

(* ... xa_end and xa_prepare ...                                           *)
PrepareOn(c) ==
    /\ branch[cur][c] = "active"
    /\ BranchBecomes(c, "prepared")
    /\ prepared' = prepared \cup {c}
    /\ UNCHANGED <<plain, started, committed, failed>>

(* ... xa_commit ...                                                       *)
CommitOn(c) ==
    /\ branch[cur][c] = "prepared"
    /\ BranchBecomes(c, "none")
    /\ committed' = committed \cup {c}
    /\ UNCHANGED <<plain, started, prepared, failed>>

(* ... xa_rollback or ROLLBACK, whose failure nobody looks at.             *)
RollbackOn(c) ==
    /\ UNCHANGED <<started, prepared, committed>>
    /\ \/ /\ IF IsPlain(c) THEN plain' = plain \ {c} /\ UNCHANGED branch
             ELSE BranchBecomes(c, "none") /\ UNCHANGED plain
          /\ UNCHANGED failed
       \/ failed' = failed \cup {c} /\ UNCHANGED databases

NothingDone == UNCHANGED <<history, databases>>

-----------------------------------------------------------------------------
(* The loops over cnc_list.                                                *)

At(c) == pos \in DOMAIN cnc_list[cur] /\ c = cnc_list[cur][pos]
Past == pos \notin DOMAIN cnc_list[cur]

Call(x, loop) ==
    /\ op = "none"
    /\ op' = loop /\ cur' = x /\ pos' = 1
    /\ ret' = NoRet /\ retval' = TRUE /\ to_recover' = {}
    /\ started' = {} /\ prepared' = {} /\ committed' = {} /\ failed' = {}
    /\ UNCHANGED <<objects, databases>>

Move(loop, p) ==
    /\ op' = loop /\ pos' = p
    /\ UNCHANGED <<objects, cur, ret>>

Return(call, ok) ==
    /\ op' = "none" /\ pos' = 0
    /\ ret' = [call |-> call, ok |-> ok]
    /\ UNCHANGED <<objects, cur, retval, to_recover, history, databases>>

KeepLocals == UNCHANGED <<retval, to_recover>>

(* The undo loops walk list->prev from the connection that failed.         *)
After(p) == p + 1
Previous(p) == p - 1

BeginStep(c) ==
    /\ op = "begin" /\ At(c) /\ KeepLocals
    /\ \/ StartOn(c) /\ Move("begin", pos + 1)
       \/ NothingDone /\ Move("begin_undo", pos)
BeginUndoStep(c) ==
    /\ op = "begin_undo" /\ At(c) /\ KeepLocals
    /\ RollbackOn(c) /\ Move("begin_undo", Previous(pos))
BeginReturn ==
    \/ op = "begin" /\ Past /\ Return("begin", TRUE)
    \/ op = "begin_undo" /\ Past /\ Return("begin", FALSE)

(* The loops of commit compare a variable that is still NULL with          *)
(* non_xa_cnc: they skip every connection or none.                         *)
SkipsAll == non_xa_cnc[cur] = NULL

PrepareStepIgnoringErrors(c) ==
    /\ op = "prepare" /\ ~SkipsAll /\ At(c) /\ KeepLocals
    /\ \/ c \in NonXa /\ NothingDone /\ Move("segv", pos)
       \/ c \notin NonXa /\ PrepareOn(c) /\ Move("prepare", pos + 1)
       \/ c \notin NonXa /\ NothingDone /\ Move("prepare", pos + 1)
PrepareStep(c) ==
    /\ op = "prepare" /\ ~SkipsAll /\ At(c) /\ KeepLocals
    /\ \/ c \in NonXa /\ NothingDone /\ Move("segv", pos)
       \/ c \notin NonXa /\ PrepareOn(c) /\ Move("prepare", pos + 1)
       \/ c \notin NonXa /\ NothingDone /\ Move("prepare_undo", pos)
PrepareUndoStep(c) ==
    /\ op = "prepare_undo" /\ At(c) /\ KeepLocals
    /\ RollbackOn(c) /\ Move("prepare_undo", Previous(pos))
PrepareReturn ==
    /\ op = "prepare_undo" /\ Past /\ Return("commit", FALSE)
PrepareDone ==
    /\ op = "prepare" /\ (Past \/ SkipsAll)
    /\ NothingDone /\ KeepLocals
    /\ Move(IF SkipsAll THEN "commit" ELSE "plain_commit", 1)

(* non_xa_cnc may have been unregistered, and then freed: its commit does  *)
(* nothing, returns anything or crashes.                                   *)
PlainCommit ==
    /\ op = "plain_commit" /\ KeepLocals
    /\ UNCHANGED <<branch, started, prepared, failed>>
    /\ LET c == non_xa_cnc[cur] IN
       \/ /\ Move("commit", 1)
          /\ plain' = plain \ {c}
          /\ committed' = committed \cup (plain \cap {c})
       \/ Move("commit_undo", 1) /\ UNCHANGED <<plain, committed>>
       \/ ~Alive(c) /\ Move("segv", 1) /\ UNCHANGED <<plain, committed>>
CommitUndoStep(c) ==
    /\ op = "commit_undo" /\ At(c) /\ KeepLocals
    /\ RollbackOn(c) /\ Move("commit_undo", pos + 1)

CommitStepStopping(c) ==
    /\ op = "commit" /\ ~SkipsAll /\ At(c) /\ UNCHANGED retval
    /\ \/ CommitOn(c) /\ Move("commit", pos + 1) /\ UNCHANGED to_recover
       \/ /\ NothingDone /\ Move("commit", Len(cnc_list[cur]) + 1)
          /\ to_recover' = to_recover \cup {c}
CommitStep(c) ==
    /\ op = "commit" /\ ~SkipsAll /\ At(c) /\ UNCHANGED retval
    /\ \/ CommitOn(c) /\ Move("commit", pos + 1) /\ UNCHANGED to_recover
       \/ /\ NothingDone /\ Move("commit", pos + 1)
          /\ to_recover' = to_recover \cup {c}
CommitReturn ==
    \/ op = "commit" /\ (Past \/ SkipsAll) /\ Return("commit", TRUE)
    \/ op = "commit_undo" /\ Past /\ Return("commit", FALSE)

RollbackStep(c) ==
    /\ op = "rollback" /\ At(c) /\ KeepLocals /\ RollbackOn(c)
    /\ Move("rollback", pos + 1)
RollbackReturn == op = "rollback" /\ Past /\ Return("rollback", TRUE)

(* The ids xa_recover lists are compared without their data: another       *)
(* transaction prepared in the same database counts as this one.           *)
CommitNeeded(c) == \E x \in Xas : branch[x][c] = "prepared"

RecoverSkips(c) == IsPlain(c) \/ ~CommitNeeded(c)

RecoverStep(c) ==
    /\ op = "recover" /\ At(c) /\ Move("recover", pos + 1)
    /\ \/ RecoverSkips(c) /\ NothingDone /\ KeepLocals
       \/ /\ ~RecoverSkips(c)
          /\ \/ CommitOn(c) /\ retval' = TRUE /\ UNCHANGED to_recover
             \/ /\ NothingDone /\ retval' = FALSE
                /\ to_recover' = to_recover \cup {c}
             \/ /\ failed' = failed \cup {c}        \* xa_recover itself fails
                /\ UNCHANGED <<started, prepared, committed, databases>>
                /\ KeepLocals
RecoverReturn == op = "recover" /\ Past /\ Return("recover", retval)

-----------------------------------------------------------------------------
Begin(x) == Call(x, "begin")
Commit(x) == Call(x, "prepare")
Rollback(x) == Call(x, "rollback")
CommitRecovered(x) == Call(x, "recover")

Step(c) ==
    \/ BeginStep(c) \/ BeginUndoStep(c)
    \/ PrepareStep(c) \/ PrepareUndoStep(c) \/ CommitUndoStep(c) \/ CommitStep(c)
    \/ RollbackStep(c) \/ RecoverStep(c)

Next ==
    \/ \E x \in Xas, c \in Cncs : Register(x, c) \/ Unregister(x, c)
    \/ \E c \in Cncs : Unref(c) \/ Step(c)
    \/ \E x \in Xas : Dispose(x) \/ Begin(x) \/ Commit(x) \/ Rollback(x) \/ CommitRecovered(x)
    \/ BeginReturn \/ PrepareReturn \/ PrepareDone \/ PlainCommit
    \/ CommitReturn \/ RollbackReturn \/ RecoverReturn
    \/ Crash

Spec == Init /\ [][Next]_vars

-----------------------------------------------------------------------------
(* Properties.                                                             *)

Returned(call, ok) == ret = [call |-> call, ok |-> ok]

(* A connection is in the list of one transaction at most, once, and its   *)
(* "_gda_xa_transaction" data names that transaction: a stale one would    *)
(* keep the connection from ever being registered again.                   *)
RegisteredOnce ==
    /\ \A x \in Xas : IsInjective(cnc_list[x])
    /\ \A x \in Xas, c \in Cncs : c \in Members(x) <=> tag[c] = x

(* A member without xa_funcs is non_xa_cnc: begin, rollback and            *)
(* commit_recovered tell it from the others by that pointer alone, before  *)
(* they follow the xa_funcs of its provider.                               *)
NonXaMemberKnown ==
    /\ TypeOK
    /\ \A x \in Xas : Members(x) \cap NonXa \subseteq {non_xa_cnc[x]}

(* The lists of members, the data of the connections and non_xa_cnc agree. *)
MembersSound == RegisteredOnce /\ NonXaMemberKnown

(* When begin fails, no connection it started is still in a transaction,   *)
(* but for those on which the undoing rollback failed too.                 *)
BeginAllOrNothing ==
    Returned("begin", FALSE) => \A c \in started \ failed : ~InTransaction(c)

(* A rollback ends the transaction of every member: an error on one does   *)
(* not keep it from the others.                                            *)
RollbackEndsAll ==
    Returned("rollback", TRUE) => \A c \in Members(cur) \ failed :
        IF IsPlain(c) THEN c \notin plain ELSE branch[cur][c] = "none"

(* No transaction is left open by a call that is to undo all of them.      *)
NoneLeftOpen == BeginAllOrNothing /\ RollbackEndsAll

(* Two-phase commit: a commit makes no connection's data permanent before  *)
(* every member of the transaction is prepared.                            *)
CommitOnlyAfterAllPrepared ==
    op \in {"plain_commit", "commit_undo", "commit"} \/ ret.call = "commit"
        => committed = {} \/ Members(cur) \subseteq prepared

(* A commit that returns FALSE committed nothing on any connection, and    *)
(* leaves none of the branches it prepared behind in a database, where it  *)
(* would hold its locks, unless that rollback failed.                      *)
FailedCommitLeavesNothing ==
    Returned("commit", FALSE) =>
        /\ committed = {}
        /\ \A c \in prepared \ failed : branch[cur][c] = "none"

(* A commit is all or nothing, as far as the code can make it so: what the *)
(* databases do after they are prepared is NothingUnreported's.            *)
CommitAllOrNothing == CommitOnlyAfterAllPrepared /\ FailedCommitLeavesNothing

(* A commit that returns TRUE reports in cnc_to_recover every connection   *)
(* it prepared and did not commit.                                         *)
PreparedIsCommittedOrReported ==
    Returned("commit", TRUE) => prepared \subseteq committed \cup to_recover

(* After commit_recovered, a member whose data is still only prepared is   *)
(* in cnc_to_recover, unless its database would not list it.               *)
StillPreparedIsReported ==
    ret.call = "recover" => \A c \in Members(cur) :
        branch[cur][c] = "prepared" => c \in to_recover \cup failed

(* What is prepared, also before a crash, is committed or reported.        *)
NothingUnreported == PreparedIsCommittedOrReported /\ StillPreparedIsReported

-----------------------------------------------------------------------------
(* What the documentation and the comments say, and the code does not do.  *)

(* The documentation of commit: the transaction of every connection is     *)
(* committed, or to recover, when it returns TRUE.                         *)
CommitIsComplete ==
    Returned("commit", TRUE) =>
        \A c \in Members(cur) : branch[cur][c] # "active"
=============================================================================
