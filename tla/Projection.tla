------------------------------ MODULE Projection ------------------------------
(***************************************************************************)
(* The adapters that show a state, a field, a form or an array in a UI     *)
(* framework: packages/{react,vue,angular}, packages/form/src/adapters and *)
(* research/form/adapters.                                                 *)
(*                                                                         *)
(* Every adapter is a record of wiring: the signals it SHOWS, the signals  *)
(* it HEARS (subscribes to), whether it copies what it hears into refs of  *)
(* its own or reads everything anew when it hears anything, and how it is  *)
(* tied to the life of its component.  The node it shows is the set of its *)
(* signals: an operation moves some of them, and the notifications are     *)
(* delivered one by one, at once or when the batch ends, while more        *)
(* operations, handles and component deaths come in between.               *)
(*                                                                         *)
(* A signal is told about when it is set to a value that is not identical; *)
(* a computed flag, when the value it is left with differs from the one    *)
(* last told.  Values are kept as "differs from what the handle shows".    *)
(***************************************************************************)
EXTENDS Naturals, Sequences

CONSTANT MaxMoves   \* operations on the node in a behaviour

ASSUME MaxMovesAssumption == MaxMoves \in Nat

VARIABLES node,     \* what is shown: "store", "field", "form" or "array"
          batching, \* a batch is open
          untold,   \* signals whose notification is due, in the order they were set
          moved,    \* operations so far
          handle    \* the handle of the adapter, see NoHandle

pvars == <<node, batching, untold, moved, handle>>

(***************************************************************************)
(* The wiring of each adapter                                              *)
(***************************************************************************)
FieldSignals == {"value", "rawValue", "dirty", "touched", "pending", "valid", "invalid",
                 "parseStatus", "parseIssue", "validationStatus", "issues", "serverIssues"}
FormSignals  == {"value", "rawValue", "dirty", "touched", "pending", "valid", "invalid",
                 "issues", "serverIssues", "submissionStatus", "submitting"}
ArraySignals == {"items", "value", "rawValue", "dirty", "touched", "pending", "valid",
                 "invalid", "issues", "serverIssues"}
ResearchFormSignals  == (FormSignals \ {"rawValue"}) \cup {"output", "validationStatus"}
ResearchArraySignals == (ArraySignals \ {"rawValue"}) \cup {"output", "validationStatus"}

\* Refs that copy each signal they hear, disposed with the scope around them.
Refs(of, signals) ==
  [of |-> of, shows |-> signals, hears |-> signals, copies |-> TRUE, late |-> "never",
   effect |-> FALSE]
\* Signals that copy, tied to a DestroyRef that may have been destroyed before.
Bridged(of, signals, late) == [Refs(of, signals) EXCEPT !.late = late]
\* A snapshot, read as a whole whenever something is heard; React's hooks subscribe in
\* an effect after the first render.
Snapshot(of, signals, heard) ==
  [Refs(of, signals) EXCEPT !.hears = heard, !.copies = FALSE, !.effect = TRUE]

\* research: useField, useForm and useFieldArray listen to some of what they show.
ResearchHearsLess(signals, derived) == signals \ (derived \cup {"issues"})  \* a mutant
ResearchHears(signals, derived) == signals \ derived

VueStore      == Refs("store", {"state"})
VueField      == Refs("field", FieldSignals)
VueForm       == Refs("form", FormSignals)
VueArray      == Refs("array", ArraySignals)
AngularStore  == Bridged("store", {"state"}, "disposed")
AngularField  == Bridged("field", FieldSignals, "kept")
AngularForm   == Bridged("form", FormSignals, "kept")
AngularArray  == Bridged("array", ArraySignals, "kept")
ReactStore    == Snapshot("store", {"state"}, {"state"})
ReactField    == Snapshot("field", FieldSignals, FieldSignals)
ReactForm     == Snapshot("form", FormSignals, FormSignals)
ReactArray    == Snapshot("array", ArraySignals, ArraySignals)

ResearchVueField     == Refs("field", FieldSignals \cup {"output"})
ResearchVueForm      == Refs("form", ResearchFormSignals)
ResearchVueArray     == Refs("array", ResearchArraySignals)
ResearchAngularField == Bridged("field", FieldSignals \cup {"output"}, "disposed")
ResearchAngularForm  == Bridged("form", ResearchFormSignals, "disposed")
ResearchAngularArray == Bridged("array", ResearchArraySignals, "disposed")
ResearchReactField   == Snapshot("field", FieldSignals \cup {"output"},
                          ResearchHears(FieldSignals, {"dirty", "valid", "invalid"}))
ResearchReactForm    == Snapshot("form", ResearchFormSignals,
                          ResearchHears(FormSignals, {"rawValue", "invalid", "submitting"}))
ResearchReactArray   == Snapshot("array", ResearchArraySignals,
                          ResearchHears(ArraySignals, {"rawValue", "invalid"}))
ResearchVanillaField == [ResearchReactField EXCEPT !.effect = FALSE]

Adapters ==
  {VueStore, VueField, VueForm, VueArray, AngularStore, AngularField, AngularForm,
   AngularArray, ReactStore, ReactField, ReactForm, ReactArray, ResearchVueField,
   ResearchVueForm, ResearchVueArray, ResearchAngularField, ResearchAngularForm,
   ResearchAngularArray, ResearchReactField, ResearchReactForm, ResearchReactArray,
   ResearchVanillaField}

(***************************************************************************)
(* What the operations of a node move, in the smallest sets they can       *)
(***************************************************************************)
Verdict == {"valid", "invalid", "validationStatus"}

\* The signals of a node computed from others and told only when they differ.
Flags(of) ==
  CASE of = "store" -> {}
    [] of = "field" -> {"dirty", "valid", "invalid"}
    [] OTHER -> {"dirty", "touched", "pending", "submitting"} \cup Verdict

\* Writing a value, writing a raw value, touching, validating, server issues, reset.
ValueMoves  == {{"value", "output", "serverIssues"} \cup g :
                  g \in {{}, {"dirty"}, {"issues", "parseStatus", "parseIssue"} \cup Verdict}}
RawMoves    == {{"rawValue"}} \cup
               {{"issues", "serverIssues"} \cup g :
                  g \in {{"value", "output", "dirty"}, {"value", "output", "rawValue"},
                         {"pending", "parseStatus", "parseIssue"} \cup Verdict}}
TouchMoves  == {{"touched"}}
SettleMoves == {{"pending"}} \cup
               {{"issues"} \cup g : g \in {{}, {"validationStatus", "pending"}, Verdict}}
ServerMoves == {{"issues", "serverIssues"} \cup g : g \in {{}, Verdict}}
ResetMoves  == {{"issues", "serverIssues"} \cup g :
                  g \in {{"dirty"}, {"touched"}, {"pending"}, FieldSignals \cup {"output"}}}

FieldMoves == UNION {ValueMoves, RawMoves, TouchMoves, SettleMoves, ServerMoves, ResetMoves}

\* What a form or an array sees of a move of a child: its own server issues stay.
Seen(m) == m \ {"serverIssues", "parseStatus", "parseIssue"}
Lifted == {Seen(m) : m \in FieldMoves}

FormMoves == UNION {Lifted, ServerMoves, {{"submissionStatus"}, {"submissionStatus", "submitting"}}}
ArrayMoves == UNION {Lifted, ServerMoves,
                     {{"items", "value", "rawValue", "output", "issues"} \cup g :
                        g \in {{}, {"dirty"}, {"touched"}, {"pending"}, Verdict}}}

Moves(of) == CASE of = "store" -> {{"state"}}
               [] of = "field" -> FieldMoves
               [] of = "form" -> FormMoves
               [] of = "array" -> ArrayMoves

(***************************************************************************)
(* The handle                                                              *)
(***************************************************************************)
\* stale: signals shown with another value than the node's; early: flags read while
\* their last change was untold; woken: a render is due.
NoHandle == [adapter |-> VueStore, life |-> "none", attached |-> FALSE, host |-> "none",
             bornLate |-> FALSE, stale |-> {}, early |-> {}, woken |-> FALSE]

Elements(queue) == {queue[i] : i \in DOMAIN queue}

\* The flags a reader of the node sees before their change is told.
EarlyRead(signals) == Elements(untold) \cap Flags(node) \cap signals

\* Reading everything the handle shows.
Read(h) == [h EXCEPT !.stale = {}, !.early = EarlyRead(h.adapter.shows), !.woken = FALSE]

ProjectionInit ==
  /\ node \in {"store", "field", "form", "array"}
  /\ batching = FALSE
  /\ untold = <<>>
  /\ moved = 0
  /\ handle = NoHandle

\* state.batch opens.
OpenBatch == ~batching /\ batching' = TRUE /\ UNCHANGED <<node, untold, moved, handle>>
CloseBatch == batching /\ batching' = FALSE /\ UNCHANGED <<node, untold, moved, handle>>

Toggle(set, s) == (set \ s) \cup (s \ set)

\* The order in which an operation sets its signals; computed flags follow the states.
SetOrder == <<"state", "items", "value", "rawValue", "touched", "pending", "parseIssue",
              "parseStatus", "serverIssues", "issues", "validationStatus", "output",
              "submissionStatus", "submitting", "dirty", "valid", "invalid">>

\* What a queue has of a set, in its order.
Kept(queue, S) ==
  LET kept[i \in 0 .. Len(queue)] ==
        IF i = 0 THEN <<>>
        ELSE IF queue[i] \in S THEN Append(kept[i - 1], queue[i]) ELSE kept[i - 1]
  IN  kept[Len(queue)]

\* A signal that is due is not queued again, and a flag that is back is not told of.
Queued(m, flags) ==
  LET due == Elements(untold)
  IN  Kept(untold, due \ flags) \o Kept(SetOrder, m \ due)

\* An operation of the node, also one called by a listener in the middle of a delivery.
Move ==
  /\ moved < MaxMoves
  /\ moved' = moved + 1
  /\ \E m \in Moves(node) :
       LET flags == m \cap Flags(node) IN
       /\ untold' = Queued(m, flags)
       /\ handle' = [handle EXCEPT
            !.stale = IF handle.life = "live"
                        THEN Toggle(@ \cup ((m \ flags) \cap handle.adapter.shows),
                                    flags \cap handle.adapter.shows)
                        ELSE @]
  /\ UNCHANGED <<node, batching>>

\* The effect of one notification on a handle.
Heard(h, s) ==
  IF h.adapter.copies
    THEN [h EXCEPT !.stale = @ \ {s}, !.early = @ \ {s}]
    ELSE [h EXCEPT !.woken = @ \/ h.stale # {}]

Deliver ==
  /\ ~batching /\ untold # <<>>
  /\ untold' = Tail(untold)
  /\ handle' = IF handle.attached /\ handle.life = "live" /\ Head(untold) \in handle.adapter.hears
                 THEN Heard(handle, Head(untold)) ELSE handle
  /\ UNCHANGED <<node, batching, moved>>

\* The component renders what it was woken for; useSyncExternalStore reads the snapshot.
Render ==
  /\ handle.life = "live" /\ ~handle.adapter.copies /\ handle.woken
  /\ handle' = Read(handle)
  /\ UNCHANGED <<node, batching, untold, moved>>

\* Making a handle in a component (host "open"), outside of one ("none"), or in one
\* that is already destroyed ("gone").
Fresh(k, host) ==
  Read([NoHandle EXCEPT !.adapter = k, !.life = "live", !.attached = ~k.effect, !.host = host])

\* createTeardown disposes before anything is subscribed: what is subscribed then stays.
BornLate(k) ==
  [Fresh(k, "gone") EXCEPT !.life = "disposed", !.bornLate = TRUE, !.attached = k.late = "kept"]

Make ==
  /\ handle.life = "none"
  /\ \E k \in Adapters :
       /\ k.of = node
       /\ handle' \in {Fresh(k, host) : host \in {"open", "none"}}
                      \cup (IF k.late = "never" THEN {} ELSE {BornLate(k)})
  /\ UNCHANGED <<node, batching, untold, moved>>

\* React subscribes after the render is committed, and compares the snapshot again: it is
\* another one, or this was a read like any other.
SubscribeEffect ==
  /\ handle.life = "live" /\ handle.adapter.effect /\ ~handle.attached
  /\ LET seen == IF handle.stale = {} THEN Read(handle) ELSE [handle EXCEPT !.woken = TRUE]
     IN  handle' = [seen EXCEPT !.attached = TRUE]
  /\ UNCHANGED <<node, batching, untold, moved>>

\* dispose() of the handle, or the cleanup of the effect; nothing is shown any more.
Dark(h) == [h EXCEPT !.life = "disposed", !.stale = {}, !.early = {}, !.woken = FALSE]
DisposedOnly(h) == IF h.life = "disposed" THEN h ELSE Dark(h)  \* a mutant
Disposed(h) == IF h.life = "disposed" THEN h ELSE [Dark(h) EXCEPT !.attached = FALSE]

DisposeProjection ==
  /\ handle.life # "none" /\ handle' = Disposed(handle)
  /\ UNCHANGED <<node, batching, untold, moved>>

\* The component goes: onScopeDispose, DestroyRef.onDestroy, or React's unmount.
HostGone ==
  /\ handle.host = "open"
  /\ handle' = [Disposed(handle) EXCEPT !.host = "gone"]
  /\ UNCHANGED <<node, batching, untold, moved>>

ProjectionNext == OpenBatch \/ CloseBatch \/ Move \/ Deliver \/ Render \/ Make \/ SubscribeEffect
                  \/ DisposeProjection \/ HostGone

ProjectionSpec == ProjectionInit /\ [][ProjectionNext]_pvars

-------------------------------------------------------------------------------
PTypeOK ==
  /\ node \in {"store", "field", "form", "array"} /\ batching \in BOOLEAN
  /\ Elements(untold) \subseteq FieldSignals \cup ResearchFormSignals \cup {"items", "state"}
  /\ moved \in 0 .. MaxMoves
  /\ handle.life \in {"none", "live", "disposed"}

\* When everything is delivered, a live handle shows what the node has: an adapter that
\* listens to only some of what it shows hears of every change by the others, and a
\* change between React's render and its subscription is seen.  Only a flag read while
\* its change was untold may be wrong: it can change back without a notification.
ScreensAreCurrent ==
  (~batching /\ untold = <<>> /\ handle.life = "live" /\ handle.attached /\ ~handle.woken)
    => handle.stale \subseteq handle.early

\* A handle keeps its subscriptions exactly while it may use them: not after it is
\* disposed, not after its component is gone.  createTeardown (angular/destroy.ts), called
\* with a destroyed DestroyRef, disposes first and subscribes after: those stay for ever.
NothingStaysSubscribed ==
  handle.attached =>
    \/ handle.life = "live" /\ handle.host # "gone"
    \/ handle.bornLate /\ handle.adapter \in {AngularField, AngularForm, AngularArray}

\* A handle listens to enough while it is shown, and to nothing afterwards.
ScreensAreSound == PTypeOK /\ ScreensAreCurrent /\ NothingStaysSubscribed
===============================================================================
