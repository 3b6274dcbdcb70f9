------------------------------ MODULE FormArray ------------------------------
(***************************************************************************)
(* A field array of @vii-labs/form: createFieldArray() (core/array.ts),    *)
(* the adoption of its items (array-adoption.ts), what it keeps for a      *)
(* reset (array-baseline.ts), and the server issues of a submission that   *)
(* find their item by the identity it was submitted with                   *)
(* (submission/server-issues.ts, array-snapshot.ts).                       *)
(*                                                                         *)
(* Every operation runs to its end in one batch.  The dirty state of the   *)
(* array is a computed somebody listens to: it is evaluated again when an  *)
(* input it read is set, and keeps its value otherwise.                    *)
(***************************************************************************)
EXTENDS Integers, Sequences, FiniteSets, SequencesExt

CONSTANTS
    Nodes,    \* the field nodes a program makes
    Id,       \* [Nodes -> ids]: what keyExtractor returns; injective without one
    Nothing,  \* no issue
    Beyond    \* an issue for an index the submitted array did not have

ASSUME IdAssumption == IsFiniteSet(Nodes) /\ DOMAIN Id = Nodes
                       /\ {Nothing, Beyond} \cap {Id[n] : n \in Nodes} = {}

Ids == {Id[n] : n \in Nodes}

VARIABLES
    items,     \* itemsState
    scopes,    \* scopesMap: the node each id has a live scope for
    baseline,  \* ArrayBaselineTracker: the items of the baseline, in order
    standing,  \* of each node: "standalone", "tree" or "disposed"
    edited,    \* the nodes whose value is not their baseline
    shown,     \* dirtyComputed: the value a listener sees, and the nodes it read
    submitted, \* the ids of the array at the last submission
    issue,     \* the submitted id a node's server issue is about
    alive      \* the array is not disposed

avars == <<items, scopes, baseline, standing, edited, shown, submitted, issue, alive>>

IdsOf(nodes) == [i \in DOMAIN nodes |-> Id[nodes[i]]]
IsBaseline(n) == Id[n] \in ToSet(IdsOf(baseline))

(* isDirty(): other ids, or the same ids and an edited item.  It reads the *)
(* items one by one and stops at the first edited one.                     *)
IsDirty(its, base, eds) == IdsOf(its) # IdsOf(base) \/ \E i \in DOMAIN its : its[i] \in eds
ReadsNothing(its, base, eds) == {}  \* mutated: the items are read untracked
DirtyReads(its, base, eds) ==
    IF IdsOf(its) # IdsOf(base) THEN {}
    ELSE {its[i] : i \in {j \in DOMAIN its : \A k \in 1..(j - 1) : its[k] \notin eds}}

Evaluated(its, base, eds) ==
    [dirty |-> IsDirty(its, base, eds), read |-> DirtyReads(its, base, eds)]

(* When the batch ends: "set" says that itemsState was.                    *)
Show(set) ==
    IF set \/ (shown.read \cap edited) # (shown.read \cap edited')
    THEN shown' = Evaluated(items', baseline', edited')
    ELSE UNCHANGED shown

(* preflightArrayItems(): all candidates before any is adopted.            *)
Adoptable(nodes, taken) ==
    /\ \A i \in DOMAIN nodes : standing[nodes[i]] = "standalone" /\ Id[nodes[i]] \notin taken
    /\ \A i, j \in DOMAIN nodes : i # j => Id[nodes[i]] # Id[nodes[j]]

OwnersOf(nodes) == [id \in ToSet(IdsOf(nodes)) |-> CHOOSE n \in ToSet(nodes) : Id[n] = id]

ArrayInit ==
    \E start \in {s \in SeqOf(Nodes, 2) : \A i, j \in DOMAIN s : i # j => Id[s[i]] # Id[s[j]]} :
        /\ items = start /\ baseline = start
        /\ scopes = OwnersOf(start)
        /\ standing = [n \in Nodes |-> IF n \in ToSet(start) THEN "tree" ELSE "standalone"]
        /\ edited = {} /\ shown = Evaluated(start, start, {})
        /\ submitted = <<>> /\ issue = [n \in Nodes |-> Nothing] /\ alive = TRUE

(* insert(), append(), prepend(): the keys of retained items are taken too.*)
InsertItem(index, n) ==
    /\ Adoptable(<<n>>, DOMAIN scopes)
    /\ standing' = [standing EXCEPT ![n] = "tree"]
    /\ scopes' = [id \in DOMAIN scopes \cup {Id[n]} |-> IF id = Id[n] THEN n ELSE scopes[id]]
    /\ items' = InsertAt(items, index, n)
    /\ UNCHANGED <<baseline, edited, submitted, issue, alive>>
    /\ Show(TRUE)

(* handleItemRemoval(): an item of the baseline is reset and kept, another *)
(* is disposed with its scope.                                             *)
HandleItemRemoval(gone) ==
    LET dropped == {n \in gone : ~IsBaseline(n)}
    IN  /\ scopes' = [id \in DOMAIN scopes \ {Id[n] : n \in dropped} |-> scopes[id]]
        /\ standing' = [n \in Nodes |-> IF n \in dropped THEN "disposed" ELSE standing[n]]
        /\ edited' = edited \ gone
        /\ issue' = [n \in Nodes |-> IF n \in gone THEN Nothing ELSE issue[n]]

RemoveItem(index) ==
    /\ items' = RemoveAt(items, index)
    /\ HandleItemRemoval({items[index]})
    /\ UNCHANGED <<baseline, submitted, alive>>
    /\ Show(TRUE)

ClearItems ==
    /\ items # <<>> /\ items' = <<>>
    /\ HandleItemRemoval(ToSet(items))
    /\ UNCHANGED <<baseline, submitted, alive>>
    /\ Show(TRUE)

MoveItem(from, to) ==
    /\ from # to
    /\ items' = InsertAt(RemoveAt(items, from), to, items[from])
    /\ UNCHANGED <<scopes, baseline, standing, edited, submitted, issue, alive>>
    /\ Show(TRUE)

SwapItems(i, j) ==
    /\ i # j
    /\ items' = [items EXCEPT ![i] = items[j], ![j] = items[i]]
    /\ UNCHANGED <<scopes, baseline, standing, edited, submitted, issue, alive>>
    /\ Show(TRUE)

(* The program sets the value of a node it holds, also of one the array    *)
(* has removed and keeps: the node's server issues are cleared.            *)
EditItem(n) ==
    /\ standing[n] # "disposed"
    /\ edited' = IF n \in edited THEN edited \ {n} ELSE edited \cup {n}
    /\ issue' = [issue EXCEPT ![n] = Nothing]
    /\ UNCHANGED <<items, scopes, baseline, standing, submitted, alive>>
    /\ Show(FALSE)

(* performReset(): items that are not of the baseline are disposed, those  *)
(* of it that still have a scope come back in its order and are reset.     *)
Restorable(base, live) ==
    LET Restored[i \in 0..Len(base)] ==
            IF i = 0 THEN <<>>
            ELSE IF Id[base[i]] \in live THEN Append(Restored[i - 1], base[i]) ELSE Restored[i - 1]
    IN  Restored[Len(base)]

ResetArray ==
    LET dropped == {n \in ToSet(items) : ~IsBaseline(n)}
        restored == Restorable(baseline, DOMAIN scopes)
    IN  /\ alive
        /\ items' = restored
        /\ scopes' = [id \in DOMAIN scopes \ {Id[n] : n \in dropped} |-> scopes[id]]
        /\ standing' = [n \in Nodes |-> IF n \in dropped THEN "disposed" ELSE standing[n]]
        /\ edited' = edited \ (dropped \cup ToSet(restored))
        /\ issue' = [n \in Nodes |-> IF n \in dropped \cup ToSet(restored) THEN Nothing ELSE issue[n]]
        /\ submitted' = <<>>
        /\ UNCHANGED <<baseline, alive>>
        /\ Show(TRUE)

ReinitializeArrayKept ==  \* mutated: scopes kept for the former baseline stay
    /\ alive /\ baseline' = items
    /\ edited' = edited \ ToSet(items)
    /\ issue' = [n \in Nodes |-> IF n \in ToSet(items) THEN Nothing ELSE issue[n]]
    /\ submitted' = <<>> /\ UNCHANGED <<items, scopes, standing, alive>>
    /\ Show(FALSE)
(* form.reinitialize(): each active item gets its new baseline, then       *)
(* performReinitialize() makes the active items the baseline and disposes  *)
(* what was kept for the former one.  itemsState is not set.               *)
ReinitializeArray ==
    LET obsolete == {scopes[id] : id \in DOMAIN scopes \ ToSet(IdsOf(items))}
    IN  /\ alive
        /\ baseline' = items
        /\ scopes' = [id \in ToSet(IdsOf(items)) |-> scopes[id]]
        /\ standing' = [n \in Nodes |-> IF n \in obsolete THEN "disposed" ELSE standing[n]]
        /\ edited' = edited \ (ToSet(items) \cup obsolete)
        /\ issue' = [n \in Nodes |-> IF n \in ToSet(items) \cup obsolete THEN Nothing ELSE issue[n]]
        /\ submitted' = <<>>
        /\ UNCHANGED <<items, alive>>
        /\ Show(FALSE)

(* submit() clears the server issues of the tree and takes the ids of the  *)
(* array with the snapshot of its values.                                  *)
SubmitArray ==
    /\ alive /\ submitted' = IdsOf(items)
    /\ issue' = [n \in Nodes |-> IF n \in ToSet(items) THEN Nothing ELSE issue[n]]
    /\ UNCHANGED <<items, scopes, baseline, standing, edited, shown, alive>>

(* routeServerIssuesToTree(): index -> the submitted id -> the item that   *)
(* has it now; an index the snapshot does not have means the position now. *)
TargetByPlace(index) == IF index \in DOMAIN items THEN {items[index]} ELSE {}
Target(index) ==
    IF index \in DOMAIN submitted
    THEN {n \in ToSet(items) : Id[n] = submitted[index]}
    ELSE IF index \in DOMAIN items THEN {items[index]} ELSE {}

Respond(index) ==
    /\ alive
    /\ LET about == IF index \in DOMAIN submitted THEN submitted[index] ELSE Beyond
       IN  issue' = [n \in Nodes |-> IF n \in Target(index) THEN about ELSE issue[n]]
    /\ UNCHANGED <<items, scopes, baseline, standing, edited, shown, submitted, alive>>

(* performDisposal(), from the owner of the array: every item's scope.     *)
DisposeArray ==
    /\ alive /\ alive' = FALSE
    /\ scopes' = <<>>
    /\ standing' = [n \in Nodes |-> IF n \in ToSet(items) \cup ToSet(baseline)
                                     THEN "disposed" ELSE standing[n]]
    /\ UNCHANGED <<items, baseline, edited, shown, submitted, issue>>

Arrange ==
    /\ alive
    /\ \/ \E n \in Nodes, i \in 1..(Len(items) + 1) : InsertItem(i, n)
       \/ \E i \in DOMAIN items : RemoveItem(i)
       \/ \E i, j \in DOMAIN items : MoveItem(i, j) \/ SwapItems(i, j)
       \/ ClearItems

ArrayNext ==
    \/ Arrange \/ ResetArray \/ ReinitializeArray \/ DisposeArray
    \/ \E n \in Nodes : EditItem(n)
    \/ SubmitArray
    \/ \E i \in 1..Cardinality(Nodes) : Respond(i)

ArraySpec == ArrayInit /\ [][ArrayNext]_avars
-----------------------------------------------------------------------------
(* A node is owned by the array exactly as long as it is an item or is kept*)
(* for a reset, it has then one scope, and nothing that was dropped stays  *)
(* alive; every item of the baseline can be restored.                      *)
ItemsAreOwned ==
    LET kept == IF alive THEN ToSet(items) \cup ToSet(baseline) ELSE {}
    IN  /\ {n \in Nodes : standing[n] = "tree"} = kept
        /\ scopes = OwnersOf(SetToSeq(kept))
        /\ Cardinality(ToSet(IdsOf(items))) = Len(items)

(* A listener is never told that an array is pristine while it is not.     *)
ChangesAreShown == alive /\ ~shown.dirty => ~IsDirty(items, baseline, edited)

(* What the array owns and what it shows follow its items.                 *)
ArraysAreSound == ItemsAreOwned /\ ChangesAreShown

(* A server issue on an item is about the item with the same identity that *)
(* was submitted, however the items moved before the answer; an index the  *)
(* submitted array did not have is the exception.                          *)
IssuesKeepIdentity == \A n \in Nodes : issue[n] \in {Nothing, Beyond, Id[n]}

(* Expected to fail: after form.reinitialize() the form is pristine        *)
(* (FORM_ARCHITECTURE.md), so its array shows no change.                   *)
PristineAfterReinitialize == [][ReinitializeArray => ~shown'.dirty]_avars
=============================================================================
