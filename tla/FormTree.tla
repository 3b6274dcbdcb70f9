------------------------------ MODULE FormTree ------------------------------
(***************************************************************************)
(* Fields of @vii-labs/form that depend on each other and belong to forms: *)
(* adoption and its checks (core/internal.ts), registration and disposal   *)
(* (form.ts, group.ts, field-parserless.ts), the symmetric graph of        *)
(* declared dependencies and the wave of validations a change starts       *)
(* (validation/dependencies.ts).                                           *)
(*                                                                         *)
(* A rule of a field reads the field and its dependencies; what a verdict  *)
(* was about is all that is kept of it.  Rules here answer at once or      *)
(* after the debounce; FieldValidation.tla has the asynchronous ones.      *)
(***************************************************************************)
EXTENDS Integers, Sequences, FiniteSets, SequencesExt

CONSTANTS
    Fields,    \* the fields a program makes
    Forms,     \* the forms (or groups) that adopt them
    OnChange,  \* fields validated when they change; the others when they blur
    Debounced, \* fields with debounceMs
    NoForm

ASSUME FieldsAssumption == IsFiniteSet(Fields) /\ OnChange \subseteq Fields
                           /\ Debounced \subseteq Fields /\ NoForm \notin Forms

VARIABLES
    ownership,  \* of a field: "unmade", "standalone", "tree", "disposed"
    treeRoot,   \* the form whose scope adopted it
    form,       \* of a form: "unmade", "live", "disposed", or "threw": its creation did
    deps,       \* dependencies of each field
    dependents, \* and the other way, kept by other code
    late,       \* fields whose dependencies function has returned [] so far
    lately,     \* fields it gave dependencies to later (history)
    judged,     \* fields that have a verdict
    behind,     \* the dependencies that changed since the verdict of each field
    scheduled,  \* fields with a debounced validation
    abandoned   \* fields whose verdict the code left behind (history)

fvars == <<ownership, treeRoot, form, deps, dependents, late, lately,
           judged, behind, scheduled, abandoned>>
graph == <<deps, dependents, late, lately>>
trees == <<ownership, treeRoot, form>>
verdicts == <<judged, behind, scheduled, abandoned>>

Made(f) == ownership[f] \in {"standalone", "tree"}
AdoptedBy(m) == {f \in Fields : treeRoot[f] = m}

TreeInit ==
    /\ ownership = [f \in Fields |-> "unmade"] /\ treeRoot = [f \in Fields |-> NoForm]
    /\ form = [m \in Forms |-> "unmade"]
    /\ deps = [f \in Fields |-> {}] /\ dependents = [f \in Fields |-> {}]
    /\ late = {} /\ lately = {}
    /\ judged = {} /\ behind = [f \in Fields |-> {}]
    /\ scheduled = {} /\ abandoned = {}

-----------------------------------------------------------------------------
(* Everything below a field, as isReachable() and collectValidationWave()  *)
(* find it.                                                                *)
Downstream(f) ==
    LET Below[n \in 0..Cardinality(Fields)] ==
            IF n = 0 THEN dependents[f]
            ELSE LET S == Below[n - 1] IN S \cup UNION {dependents[g] : g \in S}
    IN  Below[Cardinality(Fields)]

(* validateAndDeduplicateDependencies(): else the call throws.             *)
MayDependOnMade(f, D) == \A d \in D : d # f /\ Made(d)  \* mutated: cycles are not looked for
MayDepend(f, D) == \A d \in D : d # f /\ Made(d) /\ d \notin Downstream(f)

(* registerValidated(): both directions.                                   *)
Linked(f, D) ==
    /\ deps' = [deps EXCEPT ![f] = D]
    /\ dependents' = [g \in Fields |-> IF g \in D THEN dependents[g] \cup {f} ELSE dependents[g]]

(* createField(): its dependencies are a list, or a function called once   *)
(* here and, when it returned [], once more by the first validation.       *)
Create(f, D) ==
    /\ ownership[f] = "unmade" /\ MayDepend(f, D)
    /\ ownership' = [ownership EXCEPT ![f] = "standalone"]
    /\ Linked(f, D)
    /\ late' \in IF D = {} THEN {late, late \cup {f}} ELSE {late}
    /\ UNCHANGED <<treeRoot, form, lately, verdicts>>

-----------------------------------------------------------------------------
(* commitChildAdoption() throws where an edge would join two trees.        *)
ForeignUp(f, m) ==  \* mutated: the dependents are not asked
    \E d \in deps[f] : treeRoot[d] \notin {NoForm, m}
Foreign(f, m) == \E d \in deps[f] \cup dependents[f] : treeRoot[d] \notin {NoForm, m}

Owned(S, m) ==
    /\ ownership' = [f \in Fields |-> IF f \in S THEN "tree" ELSE ownership[f]]
    /\ treeRoot' = [f \in Fields |-> IF f \in S THEN m ELSE treeRoot[f]]

(* createForm(): adoptChildNodes() checks all children and then commits one*)
(* by one; those before a child that throws stay adopted by a form nobody  *)
(* has.                                                                    *)
CreateForm(m, fields) ==
    LET refused == {i \in DOMAIN fields : Foreign(fields[i], m)}
        adopted == {fields[i] : i \in {j \in DOMAIN fields : \A r \in refused : j < r}}
    IN  /\ form[m] = "unmade"
        /\ \A i \in DOMAIN fields : ownership[fields[i]] = "standalone"
        /\ Owned(adopted, m)
        /\ form' = [form EXCEPT ![m] = IF refused = {} THEN "live" ELSE "threw"]
        /\ UNCHANGED <<graph, verdicts>>

Register(m, f) ==
    /\ form[m] = "live" /\ ownership[f] = "standalone" /\ ~Foreign(f, m)
    /\ Owned({f}, m)
    /\ UNCHANGED <<form, graph, verdicts>>

(* performDisposal() of fields: detachAll() takes their edges away on both *)
(* sides and cancels the validations of what depended on them.             *)
DetachedOwn(S) ==  \* mutated: the fields it depends on keep it as a dependent
    /\ deps' = [f \in Fields |-> IF f \in S THEN {} ELSE deps[f] \ S]
    /\ dependents' = [f \in Fields |-> IF f \in S THEN {} ELSE dependents[f]]
DetachAll(S) ==
    /\ deps' = [f \in Fields |-> IF f \in S THEN {} ELSE deps[f] \ S]
    /\ dependents' = [f \in Fields |-> IF f \in S THEN {} ELSE dependents[f] \ S]

Disposed(S) ==
    LET cancelled == (UNION {dependents[f] : f \in S}) \cap scheduled
    IN  /\ ownership' = [f \in Fields |-> IF f \in S THEN "disposed" ELSE ownership[f]]
        /\ treeRoot' = [f \in Fields |-> IF f \in S THEN NoForm ELSE treeRoot[f]]
        /\ DetachAll(S) /\ late' = late \ S /\ lately' = lately \ S
        /\ judged' = judged \ S
        /\ behind' = [f \in Fields |-> IF f \in S THEN {} ELSE behind[f] \ S]
        /\ scheduled' = scheduled \ (S \cup cancelled)
        /\ abandoned' = (abandoned \cup (cancelled \cap judged)) \ S

(* dispose() of an adopted field throws; its form's operations do it.      *)
DisposeField(f) == ownership[f] = "standalone" /\ Disposed({f}) /\ UNCHANGED form
Unregister(m, f) == form[m] = "live" /\ treeRoot[f] = m /\ Disposed({f}) /\ UNCHANGED form
DisposeForm(m) ==
    /\ form[m] = "live" /\ form' = [form EXCEPT ![m] = "disposed"]
    /\ Disposed(AdoptedBy(m))

-----------------------------------------------------------------------------
(* A manual validation, or the one of a blur: it takes the place of one    *)
(* scheduled, and its verdict is about the values of now.                  *)
Judged(S) ==
    /\ judged' = judged \cup S
    /\ behind' = [f \in Fields |-> IF f \in S THEN {} ELSE behind[f]]
    /\ scheduled' = scheduled \ S /\ abandoned' = abandoned \ S

Validate(f) == Made(f) /\ f \notin late /\ Judged({f}) /\ UNCHANGED <<trees, graph>>
DebounceTimer(f) == f \in scheduled /\ Judged({f}) /\ UNCHANGED <<trees, graph>>

(* The first validation calls a late dependencies function again.          *)
Resolve(f, D) ==
    /\ Made(f) /\ f \in late /\ MayDepend(f, D)
    /\ late' = late \ {f} /\ Linked(f, D)
    /\ lately' = IF D = {} THEN lately ELSE lately \cup {f}
    /\ Judged({f})
    /\ UNCHANGED trees

(* executeDependencyWave(): what is downstream and validates on change, or *)
(* has been validated.  What a late function would do then is in Resolve.  *)
WaveOfChange(f) ==  \* mutated: a dependent validated on blur is left out
    {g \in Downstream(f) \ late : g \in OnChange}
Wave(f) == {g \in Downstream(f) \ late : g \in OnChange \cup judged}

(* collectValidationWave(): Kahn's algorithm on what is downstream, from   *)
(* the fields that depend on nothing else there.                           *)
KahnFromAll(below) ==  \* mutated: fields are taken in the order they are found
    [order |-> SetToSeq(below), ready |-> <<>>, degree |-> [g \in below |-> 0]]
KahnStart(below) ==
    LET degree == [g \in below |-> Cardinality(deps[g] \cap below)]
    IN  [order |-> <<>>, ready |-> SetToSeq({g \in below : degree[g] = 0}), degree |-> degree]
KahnStep(k) ==
    LET g == Head(k.ready)
        degree == [h \in DOMAIN k.degree |-> k.degree[h] - (IF h \in dependents[g] THEN 1 ELSE 0)]
    IN  [order |-> Append(k.order, g), degree |-> degree,
         ready |-> Tail(k.ready)
                   \o SetToSeq({h \in dependents[g] \cap DOMAIN degree : degree[h] = 0})]
WaveOrder(f) ==
    LET below == Downstream(f)
        Steps[n \in 0..Cardinality(below)] ==
            IF n = 0 THEN KahnStart(below)
            ELSE LET k == Steps[n - 1] IN IF k.ready = <<>> THEN k ELSE KahnStep(k)
    IN  Steps[Cardinality(below)].order

(* What a new value of the fields S leaves behind.                         *)
Outdated(S) == [g \in Fields |-> IF g \in judged THEN behind[g] \cup (deps[g] \cap S) ELSE {}]

(* setValue(), also to the value it has: the running validation of f is    *)
(* cancelled, a verdict without issues is dropped (keeps: it had issues),  *)
(* f is validated if it is on change, and the wave follows.                *)
Edit(f, changed, keeps) ==
    LET run == Wave(f) \cup (IF f \in OnChange \ late THEN {f} ELSE {})
        now == run \ Debounced
    IN  /\ Made(f)
        /\ judged' = (IF keeps THEN judged ELSE judged \ {f}) \cup now
        /\ behind' = [g \in Fields |-> IF g \notin judged' \/ g \in now THEN {}
                                      ELSE Outdated(IF changed THEN {f} ELSE {})[g]]
        /\ scheduled' = (scheduled \ ({f} \cup now)) \cup (run \cap Debounced)
        /\ abandoned' = ((abandoned \cup ({f} \cap scheduled)) \ run) \cap judged'
        /\ UNCHANGED <<trees, graph>>

(* reset(), of the field or of its form: no validation and no wave.        *)
ResetFields(S) ==
    /\ \A f \in S : Made(f)
    /\ judged' = judged \ S
    /\ behind' = [g \in Fields |-> IF g \in S THEN {} ELSE Outdated(S)[g]]
    /\ scheduled' = scheduled \ S
    /\ abandoned' = (abandoned \cup (judged \cap UNION {dependents[f] : f \in S})) \ S
    /\ UNCHANGED <<trees, graph>>

TreeNext ==
    \/ \E f \in Fields :
        \/ \E D \in SUBSET Fields : Create(f, D) \/ Resolve(f, D)
        \/ DisposeField(f) \/ Validate(f) \/ DebounceTimer(f)
        \/ \E changed, keeps \in BOOLEAN : (keeps => f \in judged) /\ Edit(f, changed, keeps)
        \/ ResetFields({f})
        \/ \E m \in Forms : Register(m, f) \/ Unregister(m, f)
    \/ \E m \in Forms :
        \/ /\ form[m] = "unmade"
           /\ \E S \in SUBSET {f \in Fields : ownership[f] = "standalone"} :
                \E s \in SetToSeqs(S) : CreateForm(m, s)
        \/ DisposeForm(m)
        \/ form[m] = "live" /\ ResetFields(AdoptedBy(m))

TreeSpec == TreeInit /\ [][TreeNext]_fvars
-----------------------------------------------------------------------------
(* The graph has each edge on both sides, no cycle, and nothing disposed.  *)
GraphIsSound ==
    /\ \A f, g \in Fields : g \in deps[f] <=> f \in dependents[g]
    /\ \A f \in Fields : f \notin Downstream(f)
    /\ \A f \in Fields : (deps[f] \cup dependents[f] # {}) => Made(f)

(* Each field below a changed one is in its wave once, after the fields it *)
(* depends on itself.                                                      *)
WavesAreOrdered == \A f \in Fields :
    LET w == WaveOrder(f)
    IN  /\ ToSet(w) = Downstream(f) /\ Len(w) = Cardinality(Downstream(f))
        /\ \A i, j \in DOMAIN w : i < j => w[j] \notin deps[w[i]]

(* Fields of two forms do not depend on each other, but for what a late    *)
(* dependencies function gave; a form that is disposed owns nothing.       *)
TreesAreApart ==
    /\ \A f \in Fields \ lately : treeRoot[f] # NoForm =>
          \A d \in deps[f] : treeRoot[d] \in {NoForm, treeRoot[f]}
    /\ \A f \in Fields : ownership[f] = "tree" <=> treeRoot[f] # NoForm
    /\ \A m \in Forms : form[m] \in {"unmade", "disposed"} => AdoptedBy(m) = {}

(* The dependency graph, the waves it gives and the ownership of the trees *)
(* agree, whatever was made, adopted, made late, unregistered and disposed.*)
TreesAreSound == GraphIsSound /\ WavesAreOrdered /\ TreesAreApart

(* A verdict on a former value of a dependency is going to be replaced,    *)
(* unless the code abandoned it: a reset of the dependency, or a cancelled *)
(* validation that nothing took the place of.                              *)
VerdictsKnowDependencies == \A f \in Fields : behind[f] # {} => f \in scheduled \cup abandoned

(* Expected to fail: "If any child validation fails, zero child ownership  *)
(* mutations occur" (internal.ts).                                         *)
AdoptionIsAtomic == \A m \in Forms : form[m] = "threw" => AdoptedBy(m) = {}
=============================================================================
