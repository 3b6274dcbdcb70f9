-------------------------------- MODULE Controls --------------------------------
(***************************************************************************)
(* The two-way bindings between a field and a control of the page: the     *)
(* vanilla bindField of packages/form and of the research, the Vue         *)
(* directive v-vii-field, the Angular directive [viiField] and the Angular *)
(* ControlValueAccessor.                                                   *)
(*                                                                         *)
(* A binding writes what the field holds into the control when the field   *)
(* tells it, and what the control shows into the field when the control    *)
(* fires the event the binding listens to.  The notifications of a field   *)
(* reach its bindings one by one, later when a batch is open; in between   *)
(* the user types, components rebind and unbind, and the page may change   *)
(* the type of a control.                                                  *)
(*                                                                         *)
(* What a control shows and what a field holds is one of Texts; a box that *)
(* is ticked or not shows one of the two that stand for true and false.    *)
(* The type of the element when it is bound, the kind of the binding,      *)
(* decides which of the field's two values it follows and writes.          *)
(***************************************************************************)
EXTENDS Naturals, FiniteSets

CONSTANTS Fields,
          Parsed,         \* the fields with a parser
          Inputs, Bindings, Texts,
          Blank, Ticked,  \* the texts for false and for true
          Choice          \* element -> the value attribute it has as a radio

ASSUME ControlsAssumption ==
  Parsed \subseteq Fields /\ {Blank, Ticked} \subseteq Texts /\ Choice \in [Inputs -> Texts]

VARIABLES style,    \* the adapter at work
          raw,      \* field -> its rawValue
          value,    \* field -> its value
          text,     \* element -> what the control shows (for the accessor: Angular's value)
          type,     \* element -> its type
          unheard,  \* elements that show an input their binding let pass
          binding,  \* see NoBinding
          due       \* bindings whose notification of a change is still to come

cvars == <<style, raw, value, text, type, unheard, binding, due>>

Styles == {"vanilla", "prototype", "vue", "angular", "accessor"}
TypesOf(s) ==
  CASE s = "vanilla" -> {"text", "checkbox", "radio", "select-one", "file"}
    [] s = "prototype" -> {"text", "checkbox", "select-one"}
    [] s \in {"vue", "angular"} -> {"text", "checkbox"}
    [] s = "accessor" -> {"text"}

\* life: "none", "live", "gone"; ear: the events of the element its listener is on;
\* retyped: the element has changed its type since.
NoBinding == [life |-> "none", ear |-> {}]

Live(b) == binding[b].life = "live"
BindingsAt(e) == {b \in Bindings : Live(b) /\ binding[b].el = e}
BindingsOf(f) == {b \in Bindings : Live(b) /\ binding[b].field = f}

\* The one event a binding commits on, and the events the browser fires for an input.
CommitEvent(t) == IF t = "text" THEN "input" ELSE "change"
EventsOf(t) == IF t = "text" THEN {"input"} ELSE {"input", "change"}

ControlsInit ==
  /\ style \in Styles
  /\ raw \in [Fields -> Texts]
  /\ value \in {v \in [Fields -> Texts] : \A f \in Fields \ Parsed : v[f] = raw[f]}
  /\ text \in [Inputs -> Texts]
  /\ type \in [Inputs -> TypesOf(style)]
  /\ unheard = {}
  /\ binding = [b \in Bindings |-> NoBinding]
  /\ due = {}

(***************************************************************************)
(* What a binding shows, and when it is told                               *)
(***************************************************************************)
\* A field with a parser shows its raw value, where the control can hold it; the
\* directives and the accessor know only the raw value.
FollowsRaw(k, f) ==
  f \in Parsed /\ (k \in {"text", "select-one"} \/ style \notin {"vanilla", "prototype"})
Source(k, f) == IF FollowsRaw(k, f) THEN raw[f] ELSE value[f]

Truth(v) == IF v = Blank THEN Blank ELSE Ticked
Look(k, e, f) ==
  IF k = "checkbox" THEN Truth(Source(k, f))
  ELSE IF k = "radio" THEN IF Source(k, f) = Choice[e] THEN Ticked ELSE Blank
  ELSE Source(k, f)

\* No subscription of the vanilla binding writes into a file control, or into a select
\* whose field has a parser.
Deaf(k, f) == k = "file" \/ (style = "vanilla" /\ k = "select-one" /\ f \in Parsed)

\* The bindings to be told of the step: what they follow changes in it.
Told ==
  {b \in Bindings :
     /\ Live(b) /\ ~Deaf(binding[b].kind, binding[b].field)
     /\ IF FollowsRaw(binding[b].kind, binding[b].field)
        THEN raw'[binding[b].field] # raw[binding[b].field]
        ELSE value'[binding[b].field] # value[binding[b].field]}

\* setRawValue(w[f]) of the fields F: a parser makes something of it, or fails and the
\* value stays.
PutRaw(F, w) ==
  /\ raw' = [f \in Fields |-> IF f \in F THEN w[f] ELSE raw[f]]
  /\ value' \in {v \in [Fields -> Texts] :
                   \A f \in Fields : IF f \notin F THEN v[f] = value[f] ELSE f \in Parsed \/ v[f] = w[f]}

\* setValue(w[f]): without a parser the raw value goes along, in packages/form.
PutValue(F, w) ==
  /\ value' = [f \in Fields |-> IF f \in F THEN w[f] ELSE value[f]]
  /\ raw' = [f \in Fields |-> IF f \in F \ Parsed /\ style # "prototype" THEN w[f] ELSE raw[f]]

Everywhere(v) == [f \in Fields |-> v]

(***************************************************************************)
(* Binding and unbinding                                                   *)
(***************************************************************************)
\* The binding made of field f at element e; the accessor has no element events.
Bound(f, e) ==
  [life |-> "live", field |-> f, el |-> e, kind |-> type[e], retyped |-> FALSE,
   ear |-> IF style = "accessor" THEN {} ELSE {CommitEvent(type[e])}]

\* The control shows the field from the start; a file control cannot.
Mirrored(f, e) ==
  IF type[e] = "file" THEN UNCHANGED <<text, unheard>>
  ELSE text' = [text EXCEPT ![e] = Look(type[e], e, f)] /\ unheard' = unheard \ {e}

\* bindField projects the field into the control and listens; one field per control, bound
\* for one type.
BindField(b, f, e) ==
  /\ style \in {"vanilla", "prototype"}
  /\ binding[b].life = "none"
  /\ \A c \in BindingsAt(e) : binding[c].field = f /\ binding[c].kind = type[e]
  /\ binding' = [binding EXCEPT ![b] = Bound(f, e)]
  /\ Mirrored(f, e)
  /\ UNCHANGED <<style, raw, value, type, due>>

\* bindElement of the Vue directive, when the element is mounted.
VueMounted(b, f, e) ==
  /\ style = "vue"
  /\ binding[b].life = "none" /\ BindingsAt(e) = {}
  /\ binding' = [binding EXCEPT ![b] = Bound(f, e)]
  /\ Mirrored(f, e)
  /\ UNCHANGED <<style, raw, value, type, due>>

\* ngOnChanges of the Angular directive: bind() with a field for the element.
AngularBind(b, f, e) ==
  /\ style = "angular"
  /\ binding[b].life = "none" /\ BindingsAt(e) = {}
  /\ binding' = [binding EXCEPT ![b] = Bound(f, e)]
  /\ Mirrored(f, e)
  /\ UNCHANGED <<style, raw, value, type, due>>

\* The accessor is made for a control of Angular's, which writes its value first.
AccessorMade(b, f, e) ==
  /\ style = "accessor"
  /\ binding[b].life = "none" /\ BindingsAt(e) = {}
  /\ binding' = [binding EXCEPT ![b] = Bound(f, e)]
  /\ PutRaw({f}, Everywhere(text[e]))
  /\ due' = due \cup Told
  /\ UNCHANGED <<style, text, type, unheard>>

Ghost(b) == [binding[b] EXCEPT !.life = "gone"]

\* dispose() removes the listener of the event it was added for: nothing is left of it.
Silenced(b) == NoBinding

DisposeBinding(b) ==
  /\ style \in {"vanilla", "prototype", "accessor"} /\ Live(b)
  /\ binding' = [binding EXCEPT ![b] = Silenced(b)]
  /\ due' = due \ {b}
  /\ UNCHANGED <<style, raw, value, text, type, unheard>>

\* unbindElement removes the listener of the event that fits the type the element has NOW.
VueSilenced(b) ==
  IF CommitEvent(type[binding[b].el]) \in binding[b].ear THEN NoBinding ELSE Ghost(b)

VueUnmounted(b) ==
  /\ style = "vue" /\ Live(b)
  /\ binding' = [binding EXCEPT ![b] = VueSilenced(b)]
  /\ due' = due \ {b}
  /\ UNCHANGED <<style, raw, value, text, type, unheard>>

\* ngOnDestroy: unbind() calls the cleanup that bind() made.
AngularUnbind(b) ==
  /\ style = "angular" /\ Live(b)
  /\ binding' = [binding EXCEPT ![b] = Silenced(b)]
  /\ due' = due \ {b}
  /\ UNCHANGED <<style, raw, value, text, type, unheard>>

\* The component passes another field for the element: unbind and bind in one step.
\* The new binding is c.
Rebind(b, c, f) ==
  /\ style \in {"vue", "angular"} /\ Live(b) /\ binding[b].field # f
  /\ binding[c].life = "none"
  /\ LET e == binding[b].el
         old == IF style = "vue" THEN VueSilenced(b) ELSE Silenced(b) IN
     /\ binding' = [binding EXCEPT ![b] = old, ![c] = Bound(f, e)]
     /\ Mirrored(f, e)
  /\ due' = due \ {b}
  /\ UNCHANGED <<style, raw, value, type>>

(***************************************************************************)
(* Changes                                                                 *)
(***************************************************************************)
\* The application writes the field, or resets it.
SetRawValue(f, v) ==
  /\ PutRaw({f}, Everywhere(v)) /\ due' = due \cup Told
  /\ UNCHANGED <<style, text, type, unheard, binding>>

SetValue(f, v) ==
  /\ PutValue({f}, Everywhere(v)) /\ due' = due \cup Told
  /\ UNCHANGED <<style, text, type, unheard, binding>>

\* The notification reaches a binding: the control is given what the field holds.
Notify(b) ==
  /\ b \in due
  /\ due' = due \ {b}
  /\ LET e == binding[b].el IN
     /\ text' = [text EXCEPT ![e] = Look(binding[b].kind, e, binding[b].field)]
     /\ unheard' = unheard \ {e}
  /\ UNCHANGED <<style, raw, value, type, binding>>

\* The bindings whose listener runs for an input at e, a disposed one included when its
\* listener was left on the element (its handler checks nothing).
Hearing(e) == {b \in Bindings : binding[b].life # "none" /\ binding[b].ear # {}
                                 /\ binding[b].el = e
                                 /\ binding[b].ear \subseteq EventsOf(type[e])}
Written(e) == {binding[b].field : b \in Hearing(e)}

\* What the user can make of a control: a radio is only ever ticked (the browser unticks
\* the others of its group, and tells nobody).
Entries(t) == CASE t = "checkbox" -> {Blank, Ticked}
                [] t = "radio" -> {Ticked}
                [] OTHER -> Texts

\* What the handlers read of it: the choice a radio stands for, and of a control that is
\* no longer of the type they were made for, anything.
Misread(e) == {f \in Written(e) : \A b \in Hearing(e) : binding[b].field = f => binding[b].retyped}
Readings(e, v) ==
  {w \in [Fields -> Texts] :
     \A f \in Fields \ Misread(e) : w[f] = IF type[e] = "radio" THEN Choice[e] ELSE v}

\* Kinds that commit with setValue(), which checkboxes spare where it changes nothing; the
\* others commit with setRawValue(), which bindField spares where the field has that raw
\* value already.
Valued(e) ==
  \E b \in Hearing(e) : \/ style = "vanilla" /\ binding[b].kind # "text"
                        \/ style = "prototype" /\ binding[b].kind = "checkbox"
Committed(e, w) ==
  IF Valued(e)
  THEN PutValue({f \in Written(e) :
                   ~\E b \in Hearing(e) : binding[b].kind = "checkbox" /\ Truth(value[f]) = w[f]}, w)
  ELSE PutRaw({f \in Written(e) : style \in {"vue", "angular"} \/ raw[f] # w[f]}, w)

\* In the prototype setValue() leaves the raw value behind, and an input that equals it is
\* taken for one the field has.
TakenForKnown(e, v) ==
  style = "prototype" /\ ~Valued(e) /\ \E f \in Written(e) \ Parsed : raw[f] = v /\ value[f] # v

\* handleCommit, onInput: the user puts v into the control and its event fires, or the
\* event that follows a composition does.
Input(e, v) ==
  /\ style # "accessor" /\ v \in Entries(type[e])
  /\ text[e] # v \/ e \in unheard
  /\ text' = [text EXCEPT ![e] = v]
  /\ unheard' = IF TakenForKnown(e, v) THEN unheard \cup {e} ELSE unheard \ {e}
  /\ \E w \in Readings(e, v) : Committed(e, w)
  /\ due' = due \cup Told
  /\ UNCHANGED <<style, type, binding>>

\* The vanilla binding lets the inputs of a composition pass, and nothing listens to the
\* end of it: the field has the text when an input that is not part of it follows, if one
\* does.
ComposingInput(e, v) ==
  /\ style = "vanilla" /\ type[e] = "text" /\ text[e] # v
  /\ unheard' = unheard \cup {e}
  /\ text' = [text EXCEPT ![e] = v]
  /\ UNCHANGED <<style, raw, value, type, binding, due>>

\* writeValue of the accessor: Angular's control has a new value.  Its own notification is
\* kept from Angular only when it comes before writeValue returns, not in a batch.
WriteValue(b, v) ==
  /\ style = "accessor" /\ Live(b) /\ text[binding[b].el] # v
  /\ text' = [text EXCEPT ![binding[b].el] = v]
  /\ PutRaw({binding[b].field}, Everywhere(v))
  /\ \E itself \in {{}, {b}} :
       due' = IF raw[binding[b].field] = v THEN due ELSE (due \ {b}) \cup (Told \ {b}) \cup itself
  /\ UNCHANGED <<style, type, unheard, binding>>

\* The page changes the type of an <input>; no binding looks at it again.
Retype(e, t) ==
  /\ {type[e], t} \subseteq TypesOf(style) \ {"select-one"} /\ t # type[e]
  /\ type' = [type EXCEPT ![e] = t]
  /\ binding' = [b \in Bindings |-> IF b \in BindingsAt(e) THEN [binding[b] EXCEPT !.retyped = TRUE]
                                    ELSE binding[b]]
  /\ UNCHANGED <<style, raw, value, text, unheard, due>>

ControlsNext ==
  \/ \E b \in Bindings, f \in Fields, e \in Inputs :
       BindField(b, f, e) \/ VueMounted(b, f, e) \/ AngularBind(b, f, e) \/ AccessorMade(b, f, e)
  \/ \E b \in Bindings : DisposeBinding(b) \/ VueUnmounted(b) \/ AngularUnbind(b) \/ Notify(b)
  \/ \E b, c \in Bindings, f \in Fields : Rebind(b, c, f)
  \/ \E f \in Fields, v \in Texts : SetRawValue(f, v) \/ SetValue(f, v)
  \/ \E e \in Inputs, v \in Texts : Input(e, v) \/ ComposingInput(e, v)
  \/ \E e \in Inputs, t \in TypesOf(style) : Retype(e, t)
  \/ \E b \in Bindings, v \in Texts : WriteValue(b, v)

ControlsSpec == ControlsInit /\ [][ControlsNext]_cvars

-------------------------------------------------------------------------------
\* When every notification is delivered, a control shows what the field bound to it holds:
\* no order of typing, composing, programmatic writes, rebinding and late notifications
\* leaves them apart.  Excepted are the controls the code does not keep up (Deaf), an input
\* that was let pass and that nothing followed, and a control that changed its type.
ControlsShowTheirField ==
  due = {} => \A b \in Bindings :
    Live(b) /\ ~binding[b].retyped /\ binding[b].el \notin unheard
            /\ ~Deaf(binding[b].kind, binding[b].field)
      => text[binding[b].el] = Look(binding[b].kind, binding[b].el, binding[b].field)

\* The elements the user acts on in a step.
ActedOn == {e \in Inputs : \/ e \in unheard \ unheard'
                           \/ text'[e] # text[e] /\ <<raw, value>>' # <<raw, value>>}

\* What the user puts into a control reaches the fields bound to that control and no
\* other, however often it was bound, rebound and unbound.  The Vue directive forgets a
\* listener on a control whose type was changed in between (vue/directive.ts:109).
NoGhostWrites ==
  [][ActedOn # {} /\ style # "vue"
       => \A f \in Fields : raw'[f] # raw[f] \/ value'[f] # value[f]
            => \E e \in ActedOn, b \in BindingsOf(f) : binding[b].el = e]_cvars

\* Both directions of a binding: what the field says is shown, what the user enters is
\* heard by the fields of that control.
ControlsAreSound == []ControlsShowTheirField /\ NoGhostWrites
===============================================================================
