------------------------------- MODULE GdaHolder -------------------------------
(***************************************************************************)
(* Value holders (gda-holder-vs10.c): the value a holder has, its default  *)
(* value and what makes it invalid, and the holders that change when       *)
(* another one does, because they are bound to it (simple_bind) or are an  *)
(* alias of it (full_bind).                                                *)
(*                                                                         *)
(* One thread.  Emitting "changed" runs handlers, those of the holders     *)
(* bound and those of a program, which may call any function again: the    *)
(* emissions that are under way are a stack.  The type is set, and the     *)
(* same for all holders.                                                   *)
(***************************************************************************)
EXTENDS Integers, Sequences, FiniteSets

CONSTANTS
    Holders,
    Values,         \* values of the type of the holders
    Other,          \* a value of another type
    Null,           \* a GDA_TYPE_NULL value; a NULL value in a holder is one
    NONE,           \* no value, no holder
    Defaults,       \* the default values given to a holder
    NotNullable,    \* holders whose property not-null is set
    Statics,        \* holders given static values
    SimpleBinds,    \* pairs: the first may be bound to the second
    FullBinds,      \* pairs: the first may be made an alias of the second
    Refused,        \* pairs of a holder and a value "validate-change" refuses
    MaxDepth        \* bound on the emissions in which a program calls again

ASSUME HoldersAssumption == NONE \notin Holders
ASSUME ValuesAssumption ==
    /\ Null # NONE /\ Null # Other /\ Other # NONE
    /\ {Null, NONE, Other} \cap Values = {}
ASSUME DefaultsAssumption == Defaults \in [Holders -> SUBSET (Values \cup {Null, Other})]
ASSUME BindsAssumption ==
    /\ SimpleBinds \subseteq Holders \X Holders
    /\ FullBinds \subseteq Holders \X Holders
    /\ \A p, q \in FullBinds : p[2] # q[1]      \* no alias of an alias

VARIABLES
    holder,     \* the private data of each holder
    stack,      \* emissions of "changed" under way, innermost first
    strayed     \* history: holders that differ from what they are bound to

vars == <<holder, stack, strayed>>

Private == [
    value : Values \cup {Null}, default_value : Values \cup {Null, Other, NONE},
    valid : BOOLEAN, invalid_forced : BOOLEAN, default_forced : BOOLEAN,
    is_freeable : BOOLEAN, not_null : BOOLEAN,
    simple_bind : Holders \cup {NONE}, full_bind : Holders \cup {NONE}]

(* The handlers an emission has still to call, or what                     *)
(* gda_holder_set_default_value() does when its emission is over.          *)
Frame == [
    kind : {"changed", "set_default"}, holder : Holders,
    todo : SUBSET ({"simple_bind", "full_bind"} \X Holders),
    default : Values \cup {Null, Other, NONE}]

TypeOK ==
    /\ holder \in [Holders -> Private]
    /\ stack \in Seq(Frame)
    /\ strayed \subseteq Holders

Blank == [
    value |-> Null, default_value |-> NONE,
    valid |-> TRUE, invalid_forced |-> FALSE, default_forced |-> FALSE,
    is_freeable |-> TRUE, not_null |-> FALSE,
    simple_bind |-> NONE, full_bind |-> NONE]

Init ==
    /\ holder = [h \in Holders |-> Blank]
    /\ stack = <<>>
    /\ strayed = {}

-----------------------------------------------------------------------------
(* What a holder says of itself; an alias asks the holder it is one of.    *)
Master(st, h) == IF st[h].full_bind = NONE THEN h ELSE st[h].full_bind

GetValue(st, h) ==
    LET m == st[Master(st, h)]
    IN CASE ~m.valid -> NONE
         [] m.valid /\ m.default_forced ->
                IF m.default_value \in Values THEN m.default_value ELSE NONE
         [] OTHER -> m.value

IsValid(st, h) ==
    LET m == st[Master(st, h)]
    IN ~m.invalid_forced
       /\ IF m.default_forced THEN m.default_value # NONE ELSE m.valid

(* real_gda_holder_set_value(), for one holder.                            *)
Nothing == {Null, NONE}
Same(v, w) == v = w \/ {v, w} \subseteq Nothing
Accepts(r, v) == ~(v \in Nothing /\ r.not_null) /\ v # Other
IsDefault(r, v) ==
    \/ r.default_value = Null /\ v \in Nothing
    \/ r.default_value \in Values /\ v = r.default_value

Outcome(st, h, v) ==
    IF ~st[h].is_freeable THEN "static"
    ELSE IF /\ Same(v, GetValue(st, h)) /\ Accepts(st[h], v)
            /\ IsValid(st, h)
    THEN "same"
    ELSE IF <<h, v>> \in Refused THEN "refused"
    ELSE "set"

(* Seeded fault: a value that is set leaves invalid_forced.                *)
AssignedStillForced(st, h, v) ==
    LET r == st[h]
    IN CASE Outcome(st, h, v) = "same" -> [r EXCEPT !.valid = TRUE]
         [] Outcome(st, h, v) = "set" ->
                [r EXCEPT !.valid = Accepts(r, v),
                          !.default_forced = IsDefault(r, v),
                          !.value = IF r.full_bind = NONE /\ v \in Values THEN v ELSE Null]
         [] OTHER -> r

Assigned(st, h, v) ==
    LET r == st[h]
    IN CASE Outcome(st, h, v) = "same" ->
                [r EXCEPT !.invalid_forced = FALSE, !.valid = TRUE]
         [] Outcome(st, h, v) = "set" ->
                [r EXCEPT !.invalid_forced = FALSE, !.valid = Accepts(r, v),
                          !.default_forced = IsDefault(r, v),
                          !.value = IF r.full_bind = NONE /\ v \in Values THEN v ELSE Null]
         [] OTHER -> r

(* And for an alias, the holder it is one of after it.                     *)
Written(st, h, v) ==
    LET m == Master(st, h)
        one == [st EXCEPT ![h] = Assigned(st, h, v)]
    IN IF Outcome(st, h, v) = "set" /\ m # h
       THEN [one EXCEPT ![m] = Assigned(st, m, v)] ELSE one

(* The holder whose "changed" is emitted.  Seeded fault: the one called.   *)
EmitterCalled(st, h, v) == IF Outcome(st, h, v) = "set" THEN h ELSE NONE
Emitter(st, h, v) ==
    LET m == Master(st, h)
    IN IF Outcome(st, h, v) = "set" /\ Outcome(st, m, v) = "set" THEN m ELSE NONE

(* The call returns TRUE.                                                  *)
Returns(st, h, v) ==
    LET m == Master(st, h)
    IN \/ Outcome(st, h, v) = "same"
       \/ Outcome(st, h, v) = "set" /\ Outcome(st, m, v) = "same"
       \/ Outcome(st, h, v) = "set" /\ Outcome(st, m, v) = "set" /\ Accepts(st[m], v)

-----------------------------------------------------------------------------
(* Emissions.                                                              *)
Connected(st, h) ==
    {<<"simple_bind", g>> : g \in {g \in Holders : st[g].simple_bind = h}} \cup
    {<<"full_bind", g>> : g \in {g \in Holders : st[g].full_bind = h}}

Emission(st, h) ==
    IF h = NONE THEN <<>>
    ELSE <<[kind |-> "changed", holder |-> h, todo |-> Connected(st, h), default |-> NONE]>>

(* A handler that is disconnected is not called any more.                  *)
Without(s, k, g) == [i \in DOMAIN s |-> [s[i] EXCEPT !.todo = @ \ {<<k, g>>}]]

CanCall ==
    \/ stack = <<>>
    \/ stack # <<>> /\ Head(stack).kind = "changed" /\ Len(stack) <= MaxDepth

(* A holder contradicts itself when it is valid without the value it has   *)
(* to have, or its default, or has a value that is not valid, which it     *)
(* gives or hides.                                                         *)
Contradicts(st, h) ==
    LET m == st[Master(st, h)]
        v == GetValue(st, h)
    IN \/ IsValid(st, h) /\ m.not_null /\ v \in Nothing
       \/ IsValid(st, h) /\ m.default_forced /\ m.default_value \in Values /\ v # m.default_value
       \/ ~IsValid(st, h) /\ v # NONE
       \/ ~m.valid /\ m.value # Null

(* Who need not have the value of the holder it is bound to after a call   *)
(* for holder h: it and its aliases; and, where they are not told of the   *)
(* change, those bound to it or to them.                                   *)
Family(h) == {g \in Holders : Master(holder, g) = Master(holder, h)}
Followers(h) == {g \in Holders : holder[g].simple_bind \in Family(h)}
Touched(h) == {g \in Family(h) : holder[g].simple_bind # NONE}
              \cup IF Contradicts(holder, h) THEN Followers(h) ELSE {}

(* gda_holder_set_value(), _set_value_str(), _take_value().                *)
SetValue(h, v) ==
    /\ CanCall
    /\ holder' = Written(holder, h, v)
    /\ stack' = Emission(holder, Emitter(holder, h, v)) \o stack
    /\ strayed' = strayed \cup Touched(h)

(* gda_holder_take_static_value().  It does not stop at a value that is    *)
(* the same.                                                               *)
StaticAssigned(st, h, v) ==
    LET r == st[h]
        same == Same(v, GetValue(st, h)) /\ Accepts(r, v)
    IN IF <<h, v>> \in Refused
       THEN IF same THEN [r EXCEPT !.invalid_forced = FALSE, !.valid = TRUE] ELSE r
       ELSE [r EXCEPT !.invalid_forced = FALSE, !.valid = Accepts(r, v),
                      !.is_freeable = FALSE, !.default_forced = IsDefault(r, v),
                      !.value = IF r.full_bind = NONE /\ v \in Values THEN v ELSE Null]

(* A NULL that is refused makes the holder valid all the same: the default *)
(* it used before it was forced to be invalid is its value again.          *)
Revives(h, v) ==
    LET m == Master(holder, h)
    IN /\ v = Null /\ {<<h, v>>, <<m, v>>} \cap Refused # {}
       /\ holder[m].default_forced /\ ~holder[m].valid

TakeStaticValue(h, v) ==
    LET m == Master(holder, h)
        one == [holder EXCEPT ![h] = StaticAssigned(holder, h, v)]
        through == <<h, v>> \notin Refused
    IN /\ CanCall /\ h \in Statics
       /\ holder' = IF through /\ m # h
                    THEN [one EXCEPT ![m] = StaticAssigned(one, m, v)] ELSE one
       /\ stack' = (IF through /\ <<m, v>> \notin Refused THEN Emission(holder, m) ELSE <<>>)
                   \o stack
       /\ strayed' = strayed \cup Touched(h) \cup IF Revives(h, v) THEN Followers(h) ELSE {}

(* gda_holder_force_invalid()                                              *)
Forced(r) == [r EXCEPT !.invalid_forced = TRUE, !.valid = FALSE, !.value = Null]
ForceInvalidUntold(h) ==     \* seeded fault: "changed" is not emitted
    LET m == Master(holder, h)
    IN /\ CanCall /\ ~holder[h].invalid_forced
       /\ holder' = [holder EXCEPT ![h] = Forced(@), ![m] = Forced(@)]
       /\ strayed' = strayed \cup Touched(h)
       /\ UNCHANGED stack

ForceInvalid(h) ==
    LET m == Master(holder, h)
    IN /\ CanCall /\ ~holder[h].invalid_forced
       /\ holder' = [holder EXCEPT ![h] = Forced(@), ![m] = Forced(@)]
       /\ stack' = (IF holder[m].invalid_forced THEN <<>> ELSE Emission(holder, m)) \o stack
       /\ strayed' = strayed \cup Touched(h)

(* gda_holder_set_value_to_default()                                       *)
SetValueToDefault(h) ==
    /\ CanCall /\ ~holder[h].default_forced /\ holder[h].default_value # NONE
    /\ holder' = [holder EXCEPT ![h].default_forced = TRUE,
                                ![h].invalid_forced = FALSE, ![h].value = Null]
    /\ stack' = Emission(holder, h) \o stack
    /\ strayed' = strayed \cup Touched(h)

(* gda_holder_set_default_value(): a default that is the value becomes the *)
(* value first, which may emit "changed", before it is replaced.           *)
SetDefaultValue(h, d) ==
    LET r == holder[h]
        keep == r.default_value # NONE /\ r.default_forced
        rest == [kind |-> "set_default", holder |-> h, todo |-> {}, default |-> d]
    IN /\ CanCall
       /\ holder' = IF keep THEN Written(holder, h, r.default_value) ELSE holder
       /\ stack' = (IF keep THEN Emission(holder, Emitter(holder, h, r.default_value))
                    ELSE <<>>) \o (<<rest>> \o stack)
       /\ strayed' = strayed \cup Touched(h)

SetDefaultValueEnds ==
    /\ stack # <<>> /\ Head(stack).kind = "set_default"
    /\ LET h == Head(stack).holder
           d == Head(stack).default
           without == [holder EXCEPT ![h].default_forced = FALSE, ![h].default_value = NONE]
           current == GetValue(without, h)
       IN holder' = [without EXCEPT ![h].default_value = d,
                         ![h].default_forced = IsDefault([holder[h] EXCEPT !.default_value = d], current)]
    /\ stack' = Tail(stack)
    /\ strayed' = strayed \cup Touched(Head(stack).holder) \cup Followers(Head(stack).holder)

(* The property not-null, gda_holder_set_not_null().                       *)
SetNotNullUnchecked(h, b) ==     \* seeded fault: the value is not looked at
    /\ CanCall /\ h \in NotNullable /\ holder[h].not_null # b
    /\ holder' = [holder EXCEPT ![h].not_null = b]
    /\ stack' = Emission(holder, h) \o stack
    /\ strayed' = strayed \cup Touched(h)

SetNotNull(h, b) ==
    /\ CanCall /\ h \in NotNullable /\ holder[h].not_null # b
    /\ holder' = [holder EXCEPT ![h].not_null = b,
                      ![h].valid = IF holder[h].value = Null THEN ~b ELSE @]
    /\ stack' = Emission(holder, h) \o stack
    /\ strayed' = strayed \cup Touched(h)

(* gda_holder_set_bind(): the holder takes the value of the one it is      *)
(* bound to from now on, or what had been its value.                       *)
SetBind(h, b) ==
    LET v == IF b = NONE THEN GetValue(holder, h) ELSE GetValue(holder, b)
        bound == [holder EXCEPT ![h].simple_bind = b]
    IN /\ CanCall /\ holder[h].simple_bind # b
       /\ b = NONE \/ <<h, b>> \in SimpleBinds
       /\ holder' = Written(bound, h, v)
       /\ stack' = Emission(bound, Emitter(bound, h, v)) \o Without(stack, "simple_bind", h)
       /\ strayed' = IF b = NONE \/ Same(v, GetValue(holder', h))
                     THEN (strayed \cup Touched(h)) \ {h} ELSE strayed \cup Touched(h) \cup {h}

(* gda_holder_set_full_bind(), of the property full-bind.                  *)
SetFullBind(h, a) ==
    LET own == GetValue(holder, h)
        differs == ~Same(own, GetValue(holder, a))
    IN /\ CanCall /\ holder[h].full_bind # a
       /\ a = NONE \/ <<h, a>> \in FullBinds
       /\ holder' = [holder EXCEPT ![h].full_bind = a,
                         ![h].value = IF a = NONE /\ own \in Values THEN own ELSE Null]
       /\ stack' = (IF a # NONE /\ differs THEN Emission(holder', h) ELSE <<>>)
                   \o Without(stack, "full_bind", h)
       /\ strayed' = strayed \cup Touched(h) \cup
                     (IF a = NONE \/ holder[h].full_bind # NONE THEN Followers(h) ELSE {})

(* Handlers: bound_holder_changed_cb() and full_bound_holder_changed_cb(). *)
Called(k, g) == [stack EXCEPT ![1].todo = @ \ {<<k, g>>}]
Emitting == stack # <<>> /\ Head(stack).kind = "changed"

BoundHolderChanged(g) ==
    /\ Emitting /\ <<"simple_bind", g>> \in Head(stack).todo
    /\ LET v == GetValue(holder, Head(stack).holder)
       IN /\ holder' = Written(holder, g, v)
          /\ stack' = Emission(holder, Emitter(holder, g, v)) \o Called("simple_bind", g)
          /\ strayed' = IF Returns(holder, g, v) /\ ~Contradicts(holder, g)
                        THEN (strayed \cup Touched(g)) \ {g} ELSE strayed \cup Touched(g)

FullBoundHolderChanged(g) ==
    /\ Emitting /\ <<"full_bind", g>> \in Head(stack).todo
    /\ stack' = Emission(holder, g) \o Called("full_bind", g)
    /\ UNCHANGED <<holder, strayed>>

EmissionEnds ==
    /\ Emitting /\ Head(stack).todo = {}
    /\ stack' = Tail(stack)
    /\ UNCHANGED <<holder, strayed>>

Call(h) ==
    \/ \E v \in Values \cup {Null, Other} : SetValue(h, v) \/ TakeStaticValue(h, v)
    \/ ForceInvalid(h) \/ SetValueToDefault(h)
    \/ \E d \in Defaults[h] \cup {NONE} : SetDefaultValue(h, d)
    \/ \E b \in BOOLEAN : SetNotNull(h, b)
    \/ \E b \in Holders \cup {NONE} : SetBind(h, b) \/ SetFullBind(h, b)

Handlers == \E g \in Holders : BoundHolderChanged(g) \/ FullBoundHolderChanged(g)

Next == (\E h \in Holders : Call(h)) \/ Handlers \/ EmissionEnds \/ SetDefaultValueEnds

Spec == Init /\ [][Next]_vars

-----------------------------------------------------------------------------
(* Properties.                                                             *)

(* The assertions of gda_holder_get_value() (812) and of                   *)
(* gda_holder_set_full_bind() (1920): a holder that uses its default has   *)
(* one, an alias has no value of its own.  Those of the handlers (1937,    *)
(* 1951): whatever was bound, released and bound again since the emission  *)
(* began, a handler that is still to be called belongs to a holder that is *)
(* bound to the one that emits, or is an alias of it.                      *)
AssertHolds ==
    /\ \A h \in Holders :
          /\ holder[h].default_forced => holder[h].default_value # NONE
          /\ holder[h].full_bind # NONE => holder[h].value = Null
    /\ \A i \in 1..Len(stack), g \in Holders :
          /\ <<"simple_bind", g>> \in stack[i].todo => holder[g].simple_bind = stack[i].holder
          /\ <<"full_bind", g>> \in stack[i].todo => holder[g].full_bind = stack[i].holder

(* A holder that says it is valid can be used (the comment of              *)
(* gda_holder_is_valid(), 1397): it has the value it has to have, and its  *)
(* default if it uses it; one that is not valid has no value to give.      *)
(* Where the code does let a holder contradict itself: using a default     *)
(* does not set valid (1468); a default that replaces the one in use       *)
(* loses the value (1550); a default that is NULL or of another type, on a *)
(* holder that must not be NULL; and the property not-null looks at the    *)
(* value only (657).                                                       *)
DefaultOfInvalid(h) == SetValueToDefault(h) /\ ~holder[h].valid
DefaultInUseReplaced(h) == SetDefaultValueEnds /\ holder[h].default_forced
NullDefault(h) == holder'[h].not_null /\ holder'[h].default_value \in {Null, Other}
NotNullOfHidden(h) ==
    /\ \E b \in BOOLEAN : SetNotNull(h, b)
    /\ holder[h].default_forced \/ holder[h].invalid_forced

StaysSound(h) ==
    /\ Master(holder, h) = h /\ Master(holder', h) = h
    /\ ~Contradicts(holder, h) /\ Contradicts(holder', h)
    => \/ DefaultOfInvalid(h) \/ DefaultInUseReplaced(h)
       \/ NullDefault(h) \/ NotNullOfHidden(h)

(* No other step of any holder, bound to it or an alias of it, from        *)
(* inside a handler or not, makes a holder contradict itself.              *)
SoundUnless == [][\A h \in Holders : StaysSound(h)]_holder

(* When gda_holder_set_value() returns TRUE, on a holder or on an alias    *)
(* of it, the holder is valid and gives that value, whatever it was: its   *)
(* default, forced to be invalid, NULL.                                    *)
ValueIsSet == CanCall => \A h \in Holders : ~Contradicts(holder, h) =>
    \A v \in Values \cup {Null} : Returns(holder, h, v) =>
        LET after == Written(holder, h, v)
        IN IsValid(after, h) /\ Same(v, GetValue(after, h))

(* The value of a holder is consistent in itself, and is the last one set. *)
HoldersSound == TypeOK /\ AssertHolds /\ ValueIsSet

(* Between two calls, a holder has the value of the one it is bound to,    *)
(* unless it was itself given another one, refused it, or was not told     *)
(* (strayed): however the other one got its value, through an alias too,   *)
(* and whatever the handlers of "changed" called meanwhile.                *)
Follows == stack = <<>> => \A h \in Holders :
    holder[h].simple_bind # NONE /\ h \notin strayed
        => Same(GetValue(holder, h), GetValue(holder, holder[h].simple_bind))

Told(h) ==
    /\ Len(stack') > Len(stack) /\ Head(stack').kind = "changed"
    /\ Head(stack').holder \in {h, Master(holder, h)}
ChangeIsTold(h) ==
    /\ ~Same(GetValue(holder', h), GetValue(holder, h))
    /\ ~Contradicts(holder, h)
    => \/ Told(h)
       \/ SetDefaultValueEnds \/ SetFullBind(h, NONE)
       \/ \E g \in Family(h) : TakeStaticValue(g, Null) /\ Revives(g, Null)

(* A step that changes what a holder gives as its value emits "changed"    *)
(* on the holder the value is in.  The end of a change of default and the  *)
(* end of a full bind tell nobody; nor does a static NULL that is refused  *)
(* (1205), with which a default is the value again.                        *)
ChangesAreTold == [][\A h \in Holders : ChangeIsTold(h)]_holder
=============================================================================
