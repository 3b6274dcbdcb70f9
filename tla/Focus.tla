---------------------------------- MODULE Focus ----------------------------------
(***************************************************************************)
(* The registry of bound controls by which a form moves the focus to its   *)
(* first invalid control (focus.ts), and the submission a form binding     *)
(* starts (bind-form.ts).                                                  *)
(*                                                                         *)
(* Several links (bindings of a field to a control) may share a control,   *)
(* fields leave the form and come back (items of an array), and the answer *)
(* of a submission may come after the form binding is disposed.            *)
(***************************************************************************)
EXTENDS Naturals, FiniteSets, Sequences

CONSTANTS Watched,    \* fields of the form
          Places,     \* controls, numbered in document order
          Links,      \* links made in a behaviour
          MaxRequests \* requests to move the focus

ASSUME PlacesAssumption == Places \subseteq Nat \ {0} /\ MaxRequests \in Nat

VARIABLES bad,         \* fields with issues, server issues or a failed parse
          inTree,      \* fields that are in the form's tree
          strayed,     \* history: fields that have ever left it
          usable,      \* controls that are connected, enabled and visible
          link,        \* see NoLink
          formBinding, \* "none", "bound" or "disposed"
          setOf,       \* the registry's map: field -> number of its set, or 0
          sets,        \* the sets of controls it has made
          submits,     \* submissions under way
          callbacks,   \* number of callbacks the application had
          request      \* [n, at]: requests to move the focus, the control that has it

page == <<bad, inTree, strayed, usable>>
registry == <<setOf, sets>>
outcome == <<submits, callbacks, request>>
focusVars == <<page, link, formBinding, registry, outcome>>

\* life: "none", "live", "gone"; set: the number of the registry's set it joined, or 0.
NoLink == [life |-> "none", set |-> 0]
Linked(b) == link[b].life = "live"

FocusInit ==
  /\ bad = {}
  /\ inTree = Watched /\ strayed = {}
  /\ usable \in SUBSET Places \ {{}}
  /\ link = [b \in Links |-> NoLink]
  /\ formBinding = "none"
  /\ setOf = [f \in Watched |-> 0]
  /\ sets = <<>>
  /\ submits = 0 /\ callbacks = 0
  /\ request = [n |-> 0, at |-> 0]

(***************************************************************************)
(* The registry                                                            *)
(***************************************************************************)
\* register: the control joins the set of the field, which is made when the map has none.
Register(f, e) ==
  IF setOf[f] = 0
    THEN /\ sets' = Append(sets, {e})
         /\ setOf' = [setOf EXCEPT ![f] = Len(sets) + 1]
    ELSE /\ sets' = [sets EXCEPT ![setOf[f]] = @ \cup {e}]
         /\ UNCHANGED setOf

SetToJoin(f) == IF setOf[f] = 0 THEN Len(sets) + 1 ELSE setOf[f]

UnregisterField(b) ==  \* a mutant
  /\ sets' = [sets EXCEPT ![link[b].set] = @ \ {link[b].el}]
  /\ setOf' = [setOf EXCEPT ![link[b].field] = 0]

\* What register() returned: the control leaves the set it joined, and the field leaves
\* the map when THAT set is empty, whichever set the map has for it by then.
Unregister(b) ==
  LET left == sets[link[b].set] \ {link[b].el} IN
  /\ sets' = [sets EXCEPT ![link[b].set] = left]
  /\ setOf' = IF left = {} THEN [setOf EXCEPT ![link[b].field] = 0] ELSE setOf

\* bindField and the registry of its form binding; a control outside a bound form has none.
LinkField ==
  \E b \in Links, f \in Watched, e \in Places :
    /\ link[b].life = "none"
    /\ LET listed == formBinding = "bound" IN
       /\ link' = [link EXCEPT ![b] = [life |-> "live", field |-> f, el |-> e,
                                       set |-> IF listed THEN SetToJoin(f) ELSE 0]]
       /\ IF listed THEN Register(f, e) ELSE UNCHANGED registry
    /\ UNCHANGED <<page, formBinding, outcome>>

DisposeLink(b) ==
  /\ Linked(b)
  /\ link' = [link EXCEPT ![b].life = "gone"]
  /\ IF link[b].set # 0 THEN Unregister(b) ELSE UNCHANGED registry
  /\ UNCHANGED <<page, formBinding, outcome>>

\* The issues of a field come or go (isFieldInvalid reads them when asked).
Turn(f) ==
  /\ bad' = IF f \in bad THEN bad \ {f} ELSE bad \cup {f}
  /\ UNCHANGED <<inTree, strayed, usable, link, formBinding, registry, outcome>>

\* A field leaves the form (its array item is removed) or comes back (the array is reset).
LeaveOrReturn(f) ==
  /\ inTree' = IF f \in inTree THEN inTree \ {f} ELSE inTree \cup {f}
  /\ strayed' = strayed \cup {f}
  /\ UNCHANGED <<bad, usable, link, formBinding, registry, outcome>>

(***************************************************************************)
(* Moving the focus                                                        *)
(***************************************************************************)
First(S) == CHOOSE e \in S : \A d \in S : e <= d

\* resolveFieldTarget: the first usable control of the field (no radio groups here).
Targets(f) ==
  LET usables == sets[setOf[f]] \cap usable IN IF usables = {} THEN {} ELSE {First(usables)}

Candidates == UNION {Targets(f) : f \in {g \in inTree \cap bad : setOf[g] # 0}}

\* Registered fields that left the tree are dropped; the first candidate takes the focus.
OrchestrateFocusInvalid ==
  /\ setOf' = [f \in Watched |-> IF f \in inTree THEN setOf[f] ELSE 0]
  /\ request' = [n |-> request.n + 1,
                 at |-> IF Candidates = {} THEN request.at ELSE First(Candidates)]
  /\ UNCHANGED sets

(***************************************************************************)
(* bindForm                                                                *)
(***************************************************************************)
BindForm ==
  /\ formBinding = "none" /\ formBinding' = "bound"
  /\ UNCHANGED <<page, link, registry, outcome>>

\* focusInvalid() of the form binding.
FocusInvalid ==
  /\ formBinding = "bound" /\ request.n < MaxRequests
  /\ OrchestrateFocusInvalid
  /\ UNCHANGED <<page, link, formBinding, submits, callbacks>>

\* handleSubmit, at the submit event of the form element.
HandleSubmit ==
  /\ formBinding = "bound" /\ submits = 0 /\ callbacks = 0 /\ request.n < MaxRequests
  /\ submits' = 1
  /\ UNCHANGED <<page, link, formBinding, registry, callbacks, request>>

AlwaysBound == TRUE  \* a mutant
StillBound == formBinding = "bound"

\* The answer of the submission.  Once the binding is disposed nothing happens; before,
\* the callback of the outcome is called, after the focus moved when the form is invalid.
Submitted ==
  /\ submits = 1 /\ submits' = 0
  /\ IF StillBound
       THEN /\ callbacks' = callbacks + 1
            /\ \/ OrchestrateFocusInvalid
               \/ UNCHANGED <<registry, request>>
       ELSE UNCHANGED <<callbacks, registry, request>>
  /\ UNCHANGED <<page, link, formBinding>>

\* dispose() of the form binding clears the registry.
DisposeForm ==
  /\ formBinding = "bound" /\ formBinding' = "disposed"
  /\ setOf' = [f \in Watched |-> 0]
  /\ UNCHANGED <<page, link, sets, outcome>>

FocusNext ==
  \/ LinkField
  \/ \E b \in Links : DisposeLink(b)
  \/ \E f \in Watched : Turn(f) \/ LeaveOrReturn(f)
  \/ BindForm \/ FocusInvalid \/ HandleSubmit \/ Submitted \/ DisposeForm

FocusSpec == FocusInit /\ [][FocusNext]_focusVars

-------------------------------------------------------------------------------
\* The links a request has to choose from: bad field in the tree, usable control.
Invalid(b) == Linked(b) /\ link[b].field \in bad \cap inTree /\ link[b].el \in usable

\* Two links of a field at one control in one set of the registry: when the first goes the
\* set forgets the control, and when the second goes it may take the field's next set out of
\* the map (focus.ts:30-33).
Doubled(f) ==
  \E c, d \in Links : /\ c # d /\ link[c].set # 0 /\ link[c].set = link[d].set
                      /\ link[c].field = f /\ link[c].el = link[d].el

\* The links the registry is sure to know: it may also forget a field that left the form
\* and returned, because a request in between drops it (focus.ts:220).
Known(b) ==
  Invalid(b) /\ link[b].set # 0 /\ link[b].field \notin strayed /\ ~Doubled(link[b].field)

\* A request moves the focus to an invalid control, and to the first one in document order
\* whatever the order of linking, unlinking and validating was (packages/form/README.md:
\* "focus orchestration gracefully transfers focus to the first invalid control").
FocusFindsFirst ==
  [][request'.n # request.n =>
       /\ request'.at # request.at => \E b \in Links : Invalid(b) /\ link[b].el = request'.at
       /\ \A b \in Links : Known(b) => request'.at \in 1 .. link[b].el]_focusVars

\* After its disposal a form binding moves no focus and calls no callback, also when the
\* answer of a submission comes later.
SilentAfterDispose ==
  [][formBinding = "disposed" => UNCHANGED <<callbacks, request>>]_focusVars

\* The focus goes where it should, and no more after disposal.
FocusIsSound == FocusFindsFirst /\ SilentAfterDispose
===============================================================================
