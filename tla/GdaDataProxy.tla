----------------------------- MODULE GdaDataProxy -----------------------------
(***************************************************************************)
(* The modifications a data proxy holds over the data model it proxies     *)
(* (gda-data-proxy-vs10.c): values set, rows marked to be deleted, new     *)
(* rows; their application to the model; what the model's own changes do   *)
(* to them; and the changes cached while the model is replaced.            *)
(*                                                                         *)
(* No sample (sample_size 0), no filter, no NULL row first: chunk and      *)
(* chunk_to stay NULL, a row's number in the proxy is its absolute number. *)
(* model_nb_rows is known, and follows the model's signals: Len(model).    *)
(* Rows are counted from 0, as in the code; model[r + 1] is row r.         *)
(***************************************************************************)
EXTENDS Integers, Sequences, FiniteSets, SequencesExt, Queues

CONSTANTS
    Cols,       \* columns of the model
    Domain,     \* the values a program sets in each column
    Altered,    \* columns whose attributes a program alters
    Null, NONE, \* a NULL value; no value, no modification
    Default,    \* a value with the attribute IS_DEFAULT: the model decides
    Modifs,     \* bound: RowModif structures that exist
    MaxRows,    \* bound on the rows of the model
    Models      \* contents of the models the proxy is given

ASSUME ColsAssumption == IsFiniteSet(Cols) /\ Cols # {}
ASSUME BoundsAssumption ==
    IsFiniteSet(Modifs) /\ NONE \notin Modifs /\ MaxRows \in Nat

VARIABLES
    model,      \* the rows of the proxied model
    proxy,      \* all_modifs, new_rows, modify_rows and the cached changes
    modif,      \* RowModif structures
    told,       \* history: the last step's signals account for what it displays
    applying    \* history: what apply_all_changes() is to store, when it runs

vars == <<model, proxy, modif, told, applying>>

Value == (UNION {Domain[c] : c \in Cols}) \cup {Null}
Content == {v \in [Cols -> Value] : \A c \in Cols : v[c] \in Domain[c] \cup {Null}}

ASSUME ModelsAssumption == \A m \in Models : m \in Seq(Content) /\ Len(m) <= MaxRows

RowModif == [
    model_row : -1 .. MaxRows, to_be_deleted : BOOLEAN,
    modify_values : UNION {[D -> Value \cup {Default}] : D \in SUBSET Cols},
    orig_values : Content \cup {NONE}]

TypeOK ==
    /\ model \in Seq(Content) /\ Len(model) <= MaxRows
    /\ DOMAIN modif \subseteq Modifs /\ \A i \in DOMAIN modif : modif[i] \in RowModif
    /\ proxy.all_modifs \in Seq(Modifs) /\ proxy.new_rows \in Seq(Modifs)
    /\ proxy.cached_modifs \in Seq(Modifs) /\ proxy.cached_inserts \in Seq(Modifs)
    /\ DOMAIN proxy.modify_rows \subseteq 0 .. MaxRows
    /\ \A r \in DOMAIN proxy.modify_rows : proxy.modify_rows[r] \in Modifs

Empty == <<>>
Nothing == [all_modifs |-> <<>>, new_rows |-> <<>>, modify_rows |-> Empty,
            cached_modifs |-> <<>>, cached_inserts |-> <<>>]
Idle == [on |-> FALSE, expected |-> EmptyBag]

Init ==
    /\ model \in Models
    /\ proxy = Nothing /\ modif = Empty
    /\ told = TRUE
    /\ applying = Idle

-----------------------------------------------------------------------------
(* Rows.  m is the model's content, p the proxy's lists, f the RowModifs.  *)
NRows(m, p) == Len(m) + Len(p.new_rows)

ModifAt(m, p, r) ==
    IF r < Len(m) THEN IF r \in DOMAIN p.modify_rows THEN p.modify_rows[r] ELSE NONE
    ELSE p.new_rows[r - Len(m) + 1]

ValueAt(m, p, f, r, c) ==
    LET i == ModifAt(m, p, r)
    IN IF i # NONE /\ c \in DOMAIN f[i].modify_values
       THEN IF f[i].modify_values[c] = Default THEN Null ELSE f[i].modify_values[c]
       ELSE IF r < Len(m) THEN m[r + 1][c] ELSE NONE

Deleted(m, p, f, r) == LET i == ModifAt(m, p, r) IN i # NONE /\ f[i].to_be_deleted

Display(m, p, f) == [k \in 1 .. NRows(m, p) |->
    [values |-> [c \in Cols |-> ValueAt(m, p, f, k - 1, c)], deleted |-> Deleted(m, p, f, k - 1)]]

(* The signals emitted to who displays the rows, and what it then has:     *)
(* it reads the rows it is told of again.                                  *)
Signal(k, r) == [kind |-> k, row |-> r]
Replayed(old, new, s) ==
    LET shown[k \in 0 .. Len(s)] ==
            IF k = 0 THEN old
            ELSE LET d == shown[k - 1]
                     x == s[k].row + 1
                 IN CASE s[k].kind = "reset" -> new
                      [] s[k].kind = "removed" /\ x \in DOMAIN d -> RemoveAt(d, x)
                      [] s[k].kind = "updated" /\ x \in DOMAIN d \cap DOMAIN new ->
                            [d EXCEPT ![x] = new[x]]
                      [] s[k].kind = "inserted" /\ x \in 1 .. Len(d) + 1 /\ x \in DOMAIN new ->
                            InsertAt(d, x, new[x])
                      [] OTHER -> d
    IN shown[Len(s)]

Becomes(m, p, f, s) ==
    /\ model' = m /\ proxy' = p /\ modif' = f
    /\ LET new == Display(m, p, f)
       IN told' = (Replayed(Display(model, proxy, modif), new, s) = new)

-----------------------------------------------------------------------------
(* RowModif structures.                                                    *)
Keep(g, D) == [x \in D |-> g[x]]
Unmapped(rows, r) == Keep(rows, DOMAIN rows \ {r})
Mapped(rows, r, i) == [x \in DOMAIN rows \cup {r} |-> IF x = r THEN i ELSE rows[x]]

Fresh == Modifs \ DOMAIN modif
(* A RowModif out of the lists and of the table, and freed.                *)
Unlisted(p, i, r) ==
    [p EXCEPT !.all_modifs = Without(@, {i}), !.new_rows = Without(@, {i}),
              !.modify_rows = Unmapped(@, r)]
Freed(f, i) == Keep(f, DOMAIN f \ {i})

(* One for row r of the model, where there is none.                        *)
NewModif(r) == [
    model_row |-> r, to_be_deleted |-> FALSE, modify_values |-> Empty,
    orig_values |-> model[r + 1]]
Created(p, i, r) ==
    [p EXCEPT !.all_modifs = <<i>> \o @, !.modify_rows = Mapped(@, r, i)]

(* The callbacks of the model's signals that insert and remove rows move   *)
(* every RowModif after row r by d, one after the other in the order of    *)
(* all_modifs: it is taken out of the table, changed, and put in again.    *)
(* One already moved to the row of a later one is then in the way, and     *)
(* leaves the table with it.                                               *)
After(f, r, i) == f[i].model_row > r
Displaced(p, f, r, d, i) ==
    \E x, y \in DOMAIN p.all_modifs :
        /\ x < y /\ p.all_modifs[x] = i /\ After(f, r, p.all_modifs[y])
        /\ f[p.all_modifs[y]].model_row \in {f[i].model_row, f[i].model_row + d}
Moved(p, f, r, d) ==
    [i \in DOMAIN f |-> IF i \in Range(p.all_modifs) /\ After(f, r, i)
                        THEN [f[i] EXCEPT !.model_row = @ + d] ELSE f[i]]
Lasting(p, f, r, d) ==
    {i \in Range(p.all_modifs) : After(f, r, i) /\ ~Displaced(p, f, r, d, i)}
MovedRows(p, f, r, d) ==
    LET left == {x \in DOMAIN p.modify_rows : x <= r}
        moved == Lasting(p, f, r, d)
    IN [x \in left \cup {f[i].model_row + d : i \in moved} |->
            IF x \in left THEN p.modify_rows[x]
            ELSE CHOOSE i \in moved : f[i].model_row + d = x]

(* proxied_model_row_inserted_cb(), _row_updated_cb(), _row_removed_cb().  *)
RowInserted(p, f, r) == [p |-> [p EXCEPT !.modify_rows = MovedRows(p, f, r, 1)],
                         f |-> Moved(p, f, r, 1)]
RowUpdated(p, f, r) ==
    IF r \notin DOMAIN p.modify_rows THEN [p |-> p, f |-> f]
    ELSE [p |-> Unlisted(p, p.modify_rows[r], r), f |-> Freed(f, p.modify_rows[r])]

(* Seeded fault: the rows after a removed one are not renumbered.          *)
RowRemovedOnly(p, f, r) == RowUpdated(p, f, r)

RowRemoved(p, f, r) ==
    LET u == RowUpdated(p, f, r)
    IN [p |-> [u.p EXCEPT !.modify_rows = MovedRows(u.p, u.f, r, -1)],
        f |-> Moved(u.p, u.f, r, -1)]

-----------------------------------------------------------------------------
(* Calls of the program.                                                   *)
CanCall == ~applying.on
Does(p, f, s) ==
    Becomes(model, p, f, s) /\ UNCHANGED applying

(* The rest of gda_data_proxy_set_value_at(), for a RowModif there is.     *)
SetIn(p, f, i, r, c, v) ==
    LET rm == f[i]
        back == /\ c \in DOMAIN rm.modify_values
                /\ rm.orig_values # NONE /\ rm.orig_values[c] = v
        mv == IF back THEN Keep(rm.modify_values, DOMAIN rm.modify_values \ {c})
              ELSE Mapped(rm.modify_values, c, v)
        useless == ~rm.to_be_deleted /\ mv = Empty /\ rm.model_row >= 0
    IN IF useless THEN Does(Unlisted(p, i, rm.model_row), Freed(f, i), <<Signal("updated", r)>>)
       ELSE Does(p, [f EXCEPT ![i].modify_values = mv], <<Signal("updated", r)>>)

SetValue(r, c, v) ==
    LET i == ModifAt(model, proxy, r)
    IN /\ CanCall /\ ValueAt(model, proxy, modif, r, c) # v
       /\ \/ i # NONE /\ SetIn(proxy, modif, i, r, c, v)
          \/ i = NONE /\ \E j \in Fresh :
                SetIn(Created(proxy, j, r), Mapped(modif, j, NewModif(r)), j, r, c, v)

(* gda_data_proxy_alter_value_attributes()                                 *)
AlterDefault(r, c) ==
    LET i == ModifAt(model, proxy, r)
        set(p, f, j) == Does(p, [f EXCEPT ![j].modify_values = Mapped(@, c, Default)],
                             <<Signal("updated", r)>>)
    IN /\ CanCall /\ c \in Altered
       /\ \/ i # NONE /\ set(proxy, modif, i)
          \/ i = NONE /\ \E j \in Fresh :
                set(Created(proxy, j, r), Mapped(modif, j, NewModif(r)), j)

AlterUnchanged(r, c) ==
    LET i == ModifAt(model, proxy, r)
        v == modif[i].orig_values[c]
    IN /\ CanCall /\ c \in Altered
       /\ \/ /\ i # NONE /\ modif[i].orig_values # NONE
             /\ ValueAt(model, proxy, modif, r, c) # v
             /\ SetIn(proxy, modif, i, r, c, v)
          \/ /\ i = NONE
             /\ \E j \in Fresh :
                   Does(Created(proxy, j, r), Mapped(modif, j, NewModif(r)), <<>>)

(* gda_data_proxy_delete(), also remove_row().                             *)
Delete(r) ==
    LET i == ModifAt(model, proxy, r)
        marked == <<Signal("updated", r)>>
    IN /\ CanCall
       /\ \/ /\ i # NONE /\ modif[i].model_row = -1
             /\ Does(Unlisted(proxy, i, -1), Freed(modif, i), <<Signal("removed", r)>>)
          \/ /\ i # NONE /\ modif[i].model_row >= 0 /\ ~modif[i].to_be_deleted
             /\ Does(proxy, [modif EXCEPT ![i].to_be_deleted = TRUE], marked)
          \/ /\ i = NONE
             /\ \E j \in Fresh :
                   Does(Created(proxy, j, r),
                        Mapped(modif, j, [NewModif(r) EXCEPT !.to_be_deleted = TRUE]), marked)

(* Seeded fault: no signal when nothing is left of the RowModif.           *)
UndeleteUntold(r) ==
    LET i == ModifAt(model, proxy, r)
    IN /\ CanCall /\ i # NONE
       /\ IF modif[i].modify_values = Empty
          THEN Does(Unlisted(proxy, i, r), Freed(modif, i), <<>>)
          ELSE Does(proxy, [modif EXCEPT ![i].to_be_deleted = FALSE], <<Signal("updated", r)>>)

Undelete(r) ==
    LET i == ModifAt(model, proxy, r)
    IN /\ CanCall /\ i # NONE
       /\ IF modif[i].modify_values = Empty
          THEN Does(Unlisted(proxy, i, r), Freed(modif, i), <<Signal("updated", r)>>)
          ELSE Does(proxy, [modif EXCEPT ![i].to_be_deleted = FALSE], <<Signal("updated", r)>>)

(* gda_data_proxy_append(), of columns without a default value.            *)
AppendRow(i) ==
    /\ CanCall /\ NRows(model, proxy) < MaxRows
    /\ Does([proxy EXCEPT !.all_modifs = <<i>> \o @, !.new_rows = Append(@, i)],
            Mapped(modif, i, [model_row |-> -1, to_be_deleted |-> FALSE,
                              modify_values |-> [c \in Cols |-> Null],
                              orig_values |-> NONE]),
            <<Signal("inserted", NRows(model, proxy))>>)

(* gda_data_proxy_cancel_row_changes(), of a column or of all of them.     *)
CancelRow(r, cols) ==
    LET i == ModifAt(model, proxy, r)
        gone == DOMAIN modif[i].modify_values \cap cols
        left == Keep(modif[i].modify_values, DOMAIN modif[i].modify_values \ cols)
        new == modif[i].model_row < 0
        last == left = Empty /\ ~modif[i].to_be_deleted
        updated == ~last \/ Cardinality(gone) > 1
    IN /\ CanCall /\ i # NONE /\ gone # {}
       /\ IF last THEN Does(Unlisted(proxy, i, modif[i].model_row), Freed(modif, i),
                            IF new THEN <<Signal("removed", r)>>
                            ELSE IF updated THEN <<Signal("updated", r)>> ELSE <<>>)
          ELSE Does(proxy, [modif EXCEPT ![i].modify_values = left], <<Signal("updated", r)>>)

(* gda_data_proxy_cancel_all_changes()                                     *)
CancelAll ==
    LET n == NRows(model, proxy)
        old == SelectSeq(proxy.all_modifs, LAMBDA i : modif[i].model_row \in 0 .. Len(model) - 1)
    IN /\ CanCall /\ proxy.all_modifs # <<>>
       /\ Does([proxy EXCEPT !.all_modifs = <<>>, !.new_rows = <<>>,
                    !.modify_rows = Keep(@, DOMAIN @ \ {modif[i].model_row : i \in Range(proxy.all_modifs)})],
               Keep(modif, DOMAIN modif \ Range(proxy.all_modifs)),
               [k \in 1 .. Len(proxy.new_rows) |-> Signal("removed", n - k)]
               \o [k \in DOMAIN old |-> Signal("updated", modif[old[k]].model_row)])

-----------------------------------------------------------------------------
(* commit_row_modif(): the values given to the model, NONE (a NULL        *)
(* GValue) for what it decides.  In an updated row it leaves that value as *)
(* it is, in a new one it stores its default, NULL here.                   *)
Given(v) == IF v = Default THEN NONE ELSE v

(* Seeded fault: the original value is looked for first.                   *)
CommittedOriginal(rm) == [c \in Cols |->
    IF rm.orig_values # NONE THEN rm.orig_values[c]
    ELSE IF c \in DOMAIN rm.modify_values THEN Given(rm.modify_values[c]) ELSE NONE]

Committed(rm) == [c \in Cols |->
    IF c \in DOMAIN rm.modify_values THEN Given(rm.modify_values[c])
    ELSE IF rm.orig_values # NONE THEN rm.orig_values[c] ELSE NONE]

Stored(values, row) == [c \in Cols |-> IF values[c] = NONE THEN row[c] ELSE values[c]]
DefaultRow == [c \in Cols |-> Null]

(* What is left of the RowModif after the model's signal: nothing, when    *)
(* the callback found it in the table.                                     *)
Finished(u, i) ==
    IF i \in Range(u.p.all_modifs)
    THEN [p |-> Unlisted(u.p, i, u.f[i].model_row), f |-> Freed(u.f, i)] ELSE u

Commits(m, u, s) == Becomes(m, u.p, u.f, s)

CommitDelete(i) ==
    LET r == modif[i].model_row
    IN /\ modif[i].to_be_deleted /\ r < Len(model)
       /\ Commits(RemoveAt(model, r + 1), Finished(RowRemoved(proxy, modif, r), i),
                  <<Signal("removed", r)>>)

CommitUpdate(i) ==
    LET r == modif[i].model_row
    IN /\ ~modif[i].to_be_deleted /\ r \in 0 .. Len(model) - 1
       /\ modif[i].modify_values # Empty          \* asserted
       /\ Commits([model EXCEPT ![r + 1] = Stored(Committed(modif[i]), @)],
                  Finished(RowUpdated(proxy, modif, r), i), <<Signal("updated", r)>>)

CommitInsert(i) ==
    LET row == Len(model)
        k == CHOOSE x \in DOMAIN proxy.new_rows : proxy.new_rows[x] = i
        u == RowInserted(proxy, modif, row)
    IN /\ modif[i].model_row = -1
       /\ modif[i].modify_values # Empty          \* asserted
       /\ Commits(Append(model, Stored(Committed(modif[i]), DefaultRow)),
                  [p |-> Unlisted(u.p, i, -1), f |-> Freed(u.f, i)],
                  <<Signal("updated", row + k - 1)>>)

Commit(i) == CommitDelete(i) \/ CommitUpdate(i) \/ CommitInsert(i)

(* gda_data_proxy_apply_row_changes()                                      *)
ApplyRow(r) ==
    LET i == ModifAt(model, proxy, r)
    IN CanCall /\ i # NONE /\ Commit(i) /\ UNCHANGED applying

(* What the proxy has to know: the table finds each modification of a row  *)
(* of the model (222), at its row, and its original values are the row's.  *)
Listed == Range(proxy.all_modifs)
Indexed(i) == /\ modif[i].model_row \in DOMAIN proxy.modify_rows
              /\ proxy.modify_rows[modif[i].model_row] = i
OnItsRow(i) ==
    /\ modif[i].model_row < Len(model)
    /\ model[modif[i].model_row + 1] = modif[i].orig_values
AllIndexed == \A i \in Listed : modif[i].model_row >= 0 => Indexed(i)
Sound == AllIndexed /\ \A i \in Listed : modif[i].model_row >= 0 => OnItsRow(i)

(* gda_data_proxy_apply_all_changes(): the first of all_modifs until there *)
(* are none or one is refused, by the model or "validate-row-changes".     *)
AsBag(s) == [x \in Range(s) |-> Cardinality({k \in DOMAIN s : s[k] = x})]
(* The rows shown and not to be deleted, with their values; but a value    *)
(* that is Default is shown as NULL and stays what it is.                  *)
Remaining(m, p, f) ==
    LET rows == SelectSeq([k \in 1 .. NRows(m, p) |-> k - 1], LAMBDA r : ~Deleted(m, p, f, r))
        default(r, c) == LET i == ModifAt(m, p, r) IN
            /\ i # NONE /\ c \in DOMAIN f[i].modify_values
            /\ f[i].modify_values[c] = Default
        value(r, c) == IF default(r, c) /\ r < Len(m) THEN m[r + 1][c] ELSE ValueAt(m, p, f, r, c)
    IN [k \in DOMAIN rows |-> [c \in Cols |->
            IF value(rows[k], c) = NONE THEN Null ELSE value(rows[k], c)]]

ApplyAll ==
    /\ CanCall /\ proxy.all_modifs # <<>>
    /\ applying' = [on |-> TRUE, expected |-> IF Sound THEN AsBag(Remaining(model, proxy, modif)) ELSE NONE]
    /\ told' = TRUE
    /\ UNCHANGED <<model, proxy, modif>>

ApplyNext ==
    /\ applying.on /\ proxy.all_modifs # <<>>
    /\ Commit(Head(proxy.all_modifs)) /\ UNCHANGED applying

ApplyRefused ==
    /\ applying.on /\ proxy.all_modifs # <<>>
    /\ applying' = Idle /\ told' = TRUE
    /\ UNCHANGED <<model, proxy, modif>>

ApplyEnds ==
    /\ applying.on /\ proxy.all_modifs = <<>>
    /\ applying' = Idle /\ told' = TRUE
    /\ UNCHANGED <<model, proxy, modif>>

-----------------------------------------------------------------------------
(* Changes of the model that are not the proxy's.                          *)
ModelInserts(r, v) ==
    /\ CanCall /\ r \in 0 .. Len(model) /\ NRows(model, proxy) < MaxRows
    /\ Commits(InsertAt(model, r + 1, v), RowInserted(proxy, modif, r),
               <<Signal("inserted", r)>>)
    /\ UNCHANGED applying

ModelUpdates(r, c, v) ==
    /\ CanCall /\ r < Len(model) /\ model[r + 1][c] # v
    /\ Commits([model EXCEPT ![r + 1][c] = v], RowUpdated(proxy, modif, r),
               <<Signal("updated", r)>>)
    /\ UNCHANGED applying

ModelRemoves(r) ==
    /\ CanCall /\ r < Len(model)
    /\ Commits(RemoveAt(model, r + 1), RowRemoved(proxy, modif, r), <<Signal("removed", r)>>)
    /\ UNCHANGED applying

(* The model emits "reset": every change is cancelled, and what was cached *)
(* is looked for in its rows.  Or the property "model" is set: with        *)
(* cache-changes the changes are cached first, without it the cache is     *)
(* empty.                                                                  *)
Cancelled == Keep(modif, DOMAIN modif \ Range(proxy.all_modifs))

(* Seeded fault: what is in the cache is left there.                       *)
CacheForgotten == Keep(modif, Range(proxy.cached_modifs))

CacheCleaned == Empty
Migrated ==
    LET inserts == {i \in Listed : modif[i].model_row = -1}
        new == Without(proxy.all_modifs, Listed \ inserts)
        old == Without(proxy.all_modifs, inserts)
    IN [Nothing EXCEPT !.cached_inserts = Reverse(new) \o proxy.cached_inserts,
                       !.cached_modifs = Reverse(old) \o proxy.cached_modifs]

(* fetch_current_cached_changes(): the inserts; then, row after row, the   *)
(* first cached modification of a row with the same values: the n-th row   *)
(* with some values gets the n-th one.                                     *)
Nth(m, x) == Cardinality({y \in 1 .. x : m[y] = m[x]})
Matches(p, f, v) == Without(p.cached_modifs, {i \in DOMAIN f : f[i].orig_values # v})
Fetched(m, p, f) ==
    LET found == {x \in DOMAIN m : Nth(m, x) <= Len(Matches(p, f, m[x]))}
        at(x) == Matches(p, f, m[x])[Nth(m, x)]
        rows == Without([x \in DOMAIN m |-> x], DOMAIN m \ found)
        of(i) == CHOOSE x \in found : at(x) = i
        taken == {at(x) : x \in found}
    IN [p |-> [all_modifs |-> Reverse([k \in DOMAIN rows |-> at(rows[k])])
                              \o Reverse(p.cached_inserts),
               new_rows |-> p.cached_inserts,
               modify_rows |-> [r \in {x - 1 : x \in found} |-> at(r + 1)],
               cached_modifs |-> Without(p.cached_modifs, taken),
               cached_inserts |-> <<>>],
        f |-> [i \in DOMAIN f |-> IF i \in taken
               THEN [f[i] EXCEPT !.model_row = of(i) - 1] ELSE f[i]]]

ModelReset(m) ==
    /\ CanCall /\ Len(m) + Len(proxy.cached_inserts) <= MaxRows
    /\ Commits(m, Fetched(m, [Nothing EXCEPT !.cached_modifs = proxy.cached_modifs,
                                             !.cached_inserts = proxy.cached_inserts], Cancelled),
               <<Signal("reset", 0)>>)
    /\ UNCHANGED applying

SetModel(m, cache_changes) ==
    LET u == IF cache_changes THEN Fetched(m, Migrated, modif)
             ELSE [p |-> Nothing, f |-> CacheCleaned]
    IN /\ CanCall /\ Len(m) + Len(u.p.new_rows) <= MaxRows
       /\ Commits(m, u, <<Signal("reset", 0)>>)
       /\ UNCHANGED applying

Row(r) ==
    \/ \E c \in Cols :
          \/ \E v \in Domain[c] \cup {Null} : SetValue(r, c, v)
          \/ AlterDefault(r, c) \/ AlterUnchanged(r, c) \/ CancelRow(r, {c})
    \/ CancelRow(r, Cols) \/ Delete(r) \/ Undelete(r) \/ ApplyRow(r)

Model ==
    \/ \E r \in 0 .. Len(model), v \in Content : ModelInserts(r, v)
    \/ \E r \in 0 .. Len(model), c \in Cols : \E v \in Domain[c] \cup {Null} : ModelUpdates(r, c, v)
    \/ \E r \in 0 .. Len(model) : ModelRemoves(r)
    \/ \E m \in Models : ModelReset(m) \/ SetModel(m, TRUE) \/ SetModel(m, FALSE)

Next ==
    \/ \E r \in 0 .. NRows(model, proxy) - 1 : Row(r)
    \/ \E i \in Fresh : AppendRow(i)
    \/ CancelAll \/ ApplyAll \/ ApplyNext \/ ApplyRefused \/ ApplyEnds
    \/ Model

Spec == Init /\ [][Next]_vars

-----------------------------------------------------------------------------
(* Properties.                                                             *)
(* No RowModif that was freed is left in a list or in the table, where a   *)
(* lookup would find it; each that exists is in one list, current or       *)
(* cached; the table has them at their rows, and no new row.               *)
NothingDangles ==
    /\ \A r \in DOMAIN proxy.modify_rows : LET i == proxy.modify_rows[r] IN
          i \in Listed /\ modif[i].model_row = r
    /\ \A i \in Range(proxy.new_rows) : i \in Listed /\ modif[i].model_row = -1
    /\ Len(proxy.all_modifs) + Len(proxy.cached_modifs) + Len(proxy.cached_inserts)
          = Cardinality(DOMAIN modif)
    /\ DOMAIN modif = Listed \cup Range(proxy.cached_modifs) \cup Range(proxy.cached_inserts)

(* "It is not possible to have ((model_row < 0) && !modify_values)" (140); *)
(* nor is a new row ever marked to be deleted (2099).                      *)
NewRowHasValues == \A i \in DOMAIN modif :
    modif[i].model_row = -1 => modif[i].modify_values # Empty /\ ~modif[i].to_be_deleted

(* The lists of changes of the proxy are consistent with each other and    *)
(* with the data model.                                                    *)
ModifsSound == TypeOK /\ NothingDangles /\ NewRowHasValues

(* The assertion of commit_row_modif(): what is to be applied is the       *)
(* deletion of the row or has values (2109).                               *)
HasValues == \A i \in DOMAIN modif :
    modif[i].to_be_deleted \/ modif[i].modify_values # Empty

(* The assertion fails after one call only, which makes a RowModif of a    *)
(* row that is unchanged.                                                  *)
HasValuesUnless == [][
    HasValues => HasValues' \/ \E r \in 0 .. Len(model) - 1, c \in Cols :
                                  r \notin DOMAIN proxy.modify_rows /\ AlterUnchanged(r, c)]_vars

(* Rows are inserted, removed, updated and applied, and the model replaced *)
(* and its rows matched with the cached changes: a modification stays with *)
(* its row and with what the row was, and the table finds it.  But when    *)
(* the model inserts a row where a modified one was (1165), and when a     *)
(* RowModif is moved in the table over one that is still to be moved.      *)
InsertedAtModified == \E r \in DOMAIN proxy.modify_rows, v \in Content : ModelInserts(r, v)
Displaces ==
    \E i \in Listed, r \in 0 .. Len(model), d \in {-1, 1} :
        /\ After(modif, r, i) /\ Displaced(proxy, modif, r, d, i)
        /\ Len(model') = Len(model) + d
StaysSound == [][Sound => Sound' \/ InsertedAtModified \/ Displaces]_vars

(* But for the named steps, modifications keep to their rows and have      *)
(* something to apply.                                                     *)
ModifsKeep == HasValuesUnless /\ StaysSound

(* Who displays the rows and follows the signals has what the proxy has.   *)
(* But when the only value of a row is cancelled (1999), and when a new    *)
(* row that is not the first is applied, before the others (2204).         *)
CancelledOnly == \E r \in 0 .. Len(model) - 1, cols \in {{c} : c \in Cols} \cup {Cols} :
    CancelRow(r, cols) /\ ~ModifAt(model, proxy, r) \in DOMAIN modif'
InsertedOutOfOrder == \E i \in Range(proxy.new_rows) :
    i # Head(proxy.new_rows) /\ i \notin DOMAIN modif' /\ Len(model') > Len(model)
ToldUnless == [][
    Sound => told' \/ CancelledOnly \/ InsertedOutOfOrder \/ InsertedAtModified \/ Displaces]_vars

(* While gda_data_proxy_apply_all_changes() goes on, and when it ends or   *)
(* is refused half-way, the rows shown and not to be deleted are, with     *)
(* their values, those shown before, but for values made Default; when     *)
(* nothing is left to apply they are the model's, though a modification    *)
(* was lost from the table meanwhile.                                      *)
AppliedIsShown ==
    applying.on /\ applying.expected # NONE /\ (Sound \/ proxy.all_modifs = <<>>)
        => AsBag(Remaining(model, proxy, modif)) = applying.expected
=============================================================================
