-------------------------- MODULE GdaConnectionEvents --------------------------
(***************************************************************************)
(* The events of a GdaConnection (gda-connection-vs10.c): a circular array *)
(* of the last ones, whose objects are reused for new events, the list     *)
(* gda_connection_get_events() makes of them, and the change of the        *)
(* array's size by a batch or a property.                                  *)
(*                                                                         *)
(* A batch, the setter of the size, a statement's clearing and add_event() *)
(* hold the connection's lock, which is recursive; an operation does not:  *)
(* it begins and ends whatever else runs.  What the handlers of "error" do *)
(* that add_event() calls at its end (2719), with the lock held, are the   *)
(* steps after it.  point_available_event() and get_events() take no lock  *)
(* either; each is one step, and their overlaps with what another thread   *)
(* does to the array are left out.  An event is an object; what it says is *)
(* left out.                                                               *)
(***************************************************************************)
EXTENDS Integers, Sequences, FiniteSets, SequencesExt

CONSTANTS
    Users,              \* threads that use the connection
    Objects,            \* event objects
    EVENTS_ARRAY_SIZE,
    Sizes,              \* values the property events-history-size is set to
    Lengths,            \* numbers of statements of batches
    MaxSize,            \* bound on events_array_size
    MaxHands,           \* bound on the events being prepared at a time
    MaxRunning,         \* bound on the batches and operations running at a time
    NULL

ASSUME SizesAssumption ==
    /\ EVENTS_ARRAY_SIZE \in 1..MaxSize /\ MaxSize \in Nat /\ MaxHands \in Nat /\ MaxRunning \in Nat
    /\ Sizes \subseteq EVENTS_ARRAY_SIZE..(MaxSize - 1)
    /\ Lengths \subseteq Nat /\ \A n \in Lengths : 2 * n + 1 <= MaxSize
ASSUME NullAssumption == NULL \notin Objects

VARIABLES
    events_array,       \* the slots allocated, those after size included
    events_array_size,
    events_array_full,
    events_array_next,
    events_list,
    auto_clear_events,
    hands,      \* events callers of point_available_event() have
    running,    \* each user's batches and operations, the innermost last
    undisturbed, \* history: the statements of the batch begun last, <<n>>, until
                \* anything ends or changes the size; then <<>>
    since,      \* history: events since that batch began
    lost,       \* history: events no pointer leads to
    small       \* history: the size has been less than EVENTS_ARRAY_SIZE

array == <<events_array, events_array_size, events_array_full, events_array_next>>
history == <<undisturbed, since, lost, small>>
vars == <<array, events_list, auto_clear_events, hands, running, history>>

Slots == 0..(MaxSize - 1)
Allocated == {events_array[i] : i \in Slots} \ {NULL}

TypeOK ==
    /\ events_array \in [Slots -> Objects \cup {NULL}]
    /\ events_array_size \in 1..MaxSize
    /\ events_array_full \in BOOLEAN
    /\ events_array_next \in 0..(events_array_size - 1)
    /\ events_list \in Seq(Objects)
    /\ auto_clear_events \in BOOLEAN
    /\ hands \subseteq Objects /\ lost \subseteq Objects
    /\ running \in [Users -> Seq({"batch", "operation"})]
    /\ undisturbed = <<>> \/ \E n \in Lengths : undisturbed = <<n>>
    /\ since \in Seq(Objects) /\ small \in BOOLEAN

Init ==
    /\ events_array = [i \in Slots |-> NULL]
    /\ events_array_size = EVENTS_ARRAY_SIZE
    /\ events_array_full = FALSE /\ events_array_next = 0
    /\ events_list = <<>> /\ auto_clear_events = TRUE
    /\ hands = {} /\ running = [u \in Users |-> <<>>]
    /\ undisturbed = <<>> /\ since = <<>> /\ lost = {} /\ small = FALSE

-----------------------------------------------------------------------------
InUse == Allocated \cup ToSet(events_list) \cup hands \cup lost
New(o) == o \notin InUse

(* The slot that comes after slot i.                                       *)
WrapLate(i) == IF i > events_array_size THEN i - events_array_size ELSE i
Wrap(i) == IF i >= events_array_size THEN i - events_array_size ELSE i

(* The events get_events() would make a list of.  When the array is full,  *)
(* the slot at events_array_next holds the oldest one, or none if that is  *)
(* being reused, and is skipped.                                           *)
Visible ==
    IF events_array_full
    THEN [k \in 1..(events_array_size - 1) |-> events_array[Wrap(events_array_next + k)]]
    ELSE [k \in 1..events_array_next |-> events_array[k - 1]]

(* gda_connection_point_available_event(): the object of the slot the next *)
(* event goes to, or a new one.                                            *)
Point ==
    /\ Cardinality(hands) < MaxHands
    /\ LET eev == events_array[events_array_next]
       IN IF eev = NULL
          THEN \E o \in Objects : New(o) /\ hands' = hands \cup {o} /\ UNCHANGED events_array
          ELSE /\ hands' = hands \cup {eev}
               /\ events_array' = [events_array EXCEPT ![events_array_next] = NULL]
    /\ UNCHANGED <<events_array_size, events_array_full, events_array_next,
                   events_list, auto_clear_events, running, history>>

Advance ==
    IF events_array_next + 1 = events_array_size
    THEN events_array_next' = 0 /\ events_array_full' = TRUE
    ELSE events_array_next' = events_array_next + 1 /\ UNCHANGED events_array_full

StartOverFull == UNCHANGED events_array_full /\ events_array_next' = 0
StartOver == events_array_full' = FALSE /\ events_array_next' = 0

(* gda_connection_add_event(), which owns the event from then on.          *)
AddEvent(o) ==
    /\ events_list' = <<>>
    /\ events_array' = [events_array EXCEPT ![events_array_next] = o]
    /\ Advance
    /\ since' = IF undisturbed # <<>> /\ Len(since) <= 2 * undisturbed[1]
                THEN Append(since, o) ELSE since
    /\ UNCHANGED <<events_array_size, auto_clear_events, running, undisturbed, lost, small>>

(* Of an event that was prepared, or of another connection's, when a       *)
(* wrapped connection fails.                                               *)
AddPointed == \E o \in hands : AddEvent(o) /\ hands' = hands \ {o}
AddOther == \E o \in Objects : New(o) /\ AddEvent(o) /\ UNCHANGED hands

(* A caller has no use for the event it prepared.                          *)
Drop == \E o \in hands :
    /\ hands' = hands \ {o}
    /\ UNCHANGED <<array, events_list, auto_clear_events, running, history>>

(* _clear_connection_events(), which every statement begins with.          *)
Clear ==
    /\ auto_clear_events
    /\ StartOver
    /\ UNCHANGED <<events_array, events_array_size, events_list, auto_clear_events,
                   hands, running, history>>

(* gda_connection_get_events(), when there is no list left from the last.  *)
TakenAll == UNCHANGED events_array
Taken ==
    events_array' = [i \in Slots |->
        IF \/ events_array_full /\ i < events_array_size /\ i # events_array_next
           \/ ~events_array_full /\ i < events_array_next
        THEN NULL ELSE events_array[i]]

GetEvents ==
    /\ events_list = <<>>
    /\ events_list' = Visible
    /\ Taken
    /\ StartOver
    /\ since' = <<>>
    /\ UNCHANGED <<events_array_size, auto_clear_events, hands, running,
                   undisturbed, lost, small>>

(* change_events_array_max_size(): a larger array has new slots; a smaller *)
(* one is rid of the last ones, unless it is smaller than at first: then   *)
(* they stay allocated, with what is in them.                              *)
Gained(size) == events_array_size..(size - 1)
Removed(size) == IF size >= EVENTS_ARRAY_SIZE THEN size..(events_array_size - 1) ELSE {}

ResizedTo(size) ==
    /\ events_array_size' = size
    /\ events_array' = [i \in Slots |->
           IF i \in Gained(size) \cup Removed(size) THEN NULL ELSE events_array[i]]
    /\ lost' = lost \cup ({events_array[i] : i \in Gained(size)} \ {NULL})
    /\ small' = (small \/ size < EVENTS_ARRAY_SIZE)
    /\ StartOver

ChangeSizeExactly(n) ==
    IF n \in {0, events_array_size} THEN UNCHANGED <<array, lost, small>>
    ELSE ResizedTo(n)
ChangeSize(n) ==
    IF n + 1 = events_array_size THEN UNCHANGED <<array, lost, small>>
    ELSE ResizedTo(n + 1)

(* Also from a handler during a batch, in its thread.                      *)
SetHistorySize == \E n \in Sizes :
    /\ ChangeSize(n)
    /\ IF n + 1 = events_array_size THEN UNCHANGED <<undisturbed, since>>
       ELSE undisturbed' = <<>> /\ since' = <<>>
    /\ UNCHANGED <<events_list, auto_clear_events, hands, running>>

MayBegin ==
    Cardinality({c \in Users \X (1..MaxRunning) : c[2] <= Len(running[c[1]])}) < MaxRunning
Begins(u, kind) ==
    /\ MayBegin
    /\ running' = [running EXCEPT ![u] = Append(@, kind)]
    /\ auto_clear_events' = FALSE
    /\ UNCHANGED <<events_list, hands>>

(* gda_connection_batch_execute(): its statements do not clear the events. *)
(* Nobody else's batch runs, whose thread would hold the lock.             *)
BatchBegins(u) == \E n \in Lengths :
    /\ \A w \in Users \ {u} : "batch" \notin ToSet(running[w])
    /\ Begins(u, "batch")
    /\ ChangeSize(2 * n)
    /\ undisturbed' = <<n>> /\ since' = <<>>

(* gda_connection_perform_operation(), which does not ask for the lock.    *)
OperationBegins(u) == Begins(u, "operation") /\ UNCHANGED <<array, history>>

(* Statements clear the events again, whatever else is running.            *)
Ends(u) ==
    /\ running[u] # <<>> /\ running' = [running EXCEPT ![u] = Front(@)]
    /\ auto_clear_events' = TRUE
    /\ undisturbed' = <<>> /\ since' = <<>>
    /\ UNCHANGED <<array, events_list, hands, lost, small>>

Next ==
    \/ Point \/ AddPointed \/ AddOther \/ Drop
    \/ Clear \/ GetEvents
    \/ SetHistorySize
    \/ \E u \in Users : BatchBegins(u) \/ OperationBegins(u) \/ Ends(u)

Spec == Init /\ [][Next]_vars

-----------------------------------------------------------------------------
(* Properties.                                                             *)

(* An event is in one slot, or in the list, or in the hands of who         *)
(* prepares it, and there once: it is not reused while it is in a list,    *)
(* nor released twice.                                                     *)
OneOwner ==
    /\ \A i, j \in Slots : events_array[i] = events_array[j] => i = j \/ events_array[i] = NULL
    /\ IsInjective(events_list)
    /\ Allocated \cap ToSet(events_list) = {}
    /\ (Allocated \cup ToSet(events_list)) \cap hands = {}
    /\ (Allocated \cup ToSet(events_list) \cup hands) \cap lost = {}

(* No event is leaked unless the array was made smaller than at first.     *)
LeaksWhenSmall == lost # {} => small

(* The clearing is not left off when the last batch or operation is over,  *)
(* in whatever order they end.                                             *)
ClearedAgain == (\A u \in Users : running[u] = <<>>) => auto_clear_events

(* The events are neither freed twice, nor used after that, nor forgotten, *)
(* nor kept for good.                                                      *)
EventsSound == TypeOK /\ OneOwner /\ LeaksWhenSmall /\ ClearedAgain

(* The assertions of get_events() that there is an event in each slot it   *)
(* takes (5933, 5942) hold, with events in preparation and after every     *)
(* change of the size.                                                     *)
AssertHolds == \A k \in DOMAIN Visible : Visible[k] # NULL

(* Of a batch that reports no more than two events for each statement      *)
(* nothing is lost, as the comment at 2926 intends, for as long as no      *)
(* other batch or operation ends, which switches the clearing on under it  *)
(* (2841, 2938), and neither a batch within it nor the property changes    *)
(* the size (2928, 958).  Operations may begin meanwhile.                  *)
BatchKeepsEvents ==
    undisturbed # <<>> /\ Len(since) <= 2 * undisturbed[1] => IsSuffix(since, Visible)

(* The array with its three indices is a log of the newest events.         *)
Log == INSTANCE EventLog WITH Events <- Objects,
    log <- Visible, room <- events_array_size - 1, list <- events_list
ImplementsLog == Log!Spec
=============================================================================
