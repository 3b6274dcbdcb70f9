--------------------------- MODULE PrototypeArray ---------------------------
(***************************************************************************)
(* createFieldArray() of the form prototype (research/form/form-core.ts):  *)
(* items with an identity, a node and a scope of their own, kept over      *)
(* every way of changing the list.                                         *)
(*                                                                         *)
(* A value is abstracted to the key keyExtractor finds in it; NoKey stands *)
(* for a value in which it finds none. Nodes are numbered as they are      *)
(* created, and a node stands for its scope as well.                       *)
(***************************************************************************)
EXTENDS Naturals, FiniteSets, SequencesExt

CONSTANTS
    Keys,         \* keys of values
    NoKey,        \* keyExtractor returns undefined
    ArraySetups,  \* the options of the array, and its initial values
    MaxItems,     \* bound: items of a list
    MaxNodes      \* bound: nodes created

ASSUME NoKeyAssumption == NoKey \notin Keys
\* generateInternalId() gives no key of the application
ASSUME KeysAssumption == (Keys \cup {NoKey}) \cap Nat = {}
ASSUME ArrayBounds == MaxItems \in Nat /\ MaxNodes \in Nat /\ MaxItems <= MaxNodes

Lists == UNION {[1..n -> Keys \cup {NoKey}] : n \in 0..MaxItems}
ArraySetupType ==
    [keyed : BOOLEAN,     \* a keyExtractor is given
     fragile : BOOLEAN,   \* the application gave the scope of each item a disposer that fails
     initial : Lists]
ASSUME ArraySetupsAssumption == ArraySetups \subseteq ArraySetupType

VARIABLES
    options,  \* the options of this array
    items,    \* itemsState: identity and node of each item, and the key in its present value
    made,     \* nodes created so far
    scopes,   \* activeScopes: nodes whose scope has not been disposed
    arrayUp   \* ~isDisposed

arrayvars == <<options, items, made, scopes, arrayUp>>

NodesOf(list) == {list[i].node : i \in DOMAIN list}
IdsOf(list) == {list[i].id : i \in DOMAIN list}

(* validateUniqueKeys(): two places of a list have the same of these keys. *)
Repeats(list, keys) == \E i, j \in DOMAIN list : i < j /\ list[i] = list[j] /\ list[i] \in keys

(* createItem(): the key, or an identity nobody else has.                  *)
Id(key, node) == IF options.keyed /\ key # NoKey THEN key ELSE node
Created(list, from) == [i \in DOMAIN list |-> [id |-> Id(list[i], from + i), node |-> from + i, key |-> list[i]]]

(* Creation throws where two values of the list have one key.              *)
ArrayInit ==
    /\ options \in {o \in ArraySetups : o.keyed => ~Repeats(o.initial, Keys)}
    /\ items = Created(options.initial, 0)
    /\ made = Len(options.initial)
    /\ scopes = NodesOf(items)
    /\ arrayUp = TRUE
-----------------------------------------------------------------------------
(* New items come first, then disposal of the dropped ones, then the list. *)
(* A disposer that fails throws out of the operation between the last two: *)
(* one scope is gone, the list still holds its item, and the new items have*)
(* no place. The nodes both lists have hold their new values by then.      *)
New(list) == NodesOf(list) \ NodesOf(items)
KeyIn(list, item) ==
    IF item.node \in NodesOf(list)
    THEN (CHOOSE it \in ToSet(list) : it.node = item.node).key
    ELSE item.key
ReplaceKeeping(list, dropped) == scopes' = scopes \cup New(list) /\ items' = list
Replace(list, dropped) ==
    IF options.fragile /\ dropped \cap scopes # {}
    THEN /\ \E n \in dropped \cap scopes : scopes' = (scopes \cup New(list)) \ {n}
         /\ items' = [i \in DOMAIN items |-> [items[i] EXCEPT !.key = KeyIn(list, items[i])]]
    ELSE scopes' = (scopes \cup New(list)) \ dropped /\ items' = list

(* push() and insert(): refuse a key that is there. The scope of a new     *)
(* item is a child of the array's, which throws when that is disposed.     *)
Insert(i, key) ==
    /\ arrayUp /\ made < MaxNodes /\ Len(items) < MaxItems
    /\ i \in 1..(Len(items) + 1)
    /\ ~(options.keyed /\ key # NoKey /\ key \in IdsOf(items))
    /\ Replace(InsertAt(items, i, Created(<<key>>, made)[1]), {})
    /\ made' = made + 1
    /\ UNCHANGED <<options, arrayUp>>

RemoveItem(i) ==
    /\ i \in DOMAIN items
    /\ Replace(RemoveAt(items, i), {items[i].node})
    /\ UNCHANGED <<options, made, arrayUp>>

Swap(i, j) ==
    /\ i \in DOMAIN items /\ j \in DOMAIN items /\ i # j
    /\ items' = [items EXCEPT ![i] = items[j], ![j] = items[i]]
    /\ UNCHANGED <<options, made, scopes, arrayUp>>

Move(i, j) ==
    /\ i \in DOMAIN items /\ j \in DOMAIN items /\ i # j
    /\ items' = InsertAt(RemoveAt(items, i), j, items[i])
    /\ UNCHANGED <<options, made, scopes, arrayUp>>

(* A field of an item is edited, the one that holds its key.               *)
EditKey(i, key) ==
    /\ i \in DOMAIN items
    /\ items' = [items EXCEPT ![i].key = key]
    /\ UNCHANGED <<options, made, scopes, arrayUp>>

(* setValues(next), keyed: an item whose value has a key of the next list  *)
(* is kept, under that key; of several the last one.                       *)
Matching(key) == {i \in DOMAIN items : items[i].key = key}
Match(key) == items[CHOOSE i \in Matching(key) : \A j \in Matching(key) : j <= i].node
Newcomers(next, i) == Cardinality({j \in 1..i : Matching(next[j]) = {}})
KeyedList(next) ==
    [i \in DOMAIN next |->
        IF Matching(next[i]) # {} THEN [id |-> next[i], node |-> Match(next[i]), key |-> next[i]]
        ELSE Created(<<next[i]>>, made + Newcomers(next, i) - 1)[1]]
Unused(next) == {Match(it.key) : it \in {i \in ToSet(items) : i.key \notin ToSet(next)}}

SetKeyed(next) ==
    /\ ~Repeats(next, Keys \cup {NoKey})
    /\ made' = made + Newcomers(next, Len(next))
    /\ Replace(KeyedList(next), Unused(next))

(* Without keys items are kept by place.                                   *)
Common(next) == IF Len(next) < Len(items) THEN Len(next) ELSE Len(items)
SetPlaced(next) ==
    /\ made' = made + Len(next) - Common(next)
    /\ Replace([i \in 1..Common(next) |-> [items[i] EXCEPT !.key = next[i]]]
                   \o Created(SubSeq(next, Len(items) + 1, Len(next)), made),
               NodesOf(SubSeq(items, Len(next) + 1, Len(items))))

SetArrayValues(next) ==
    /\ arrayUp
    /\ IF options.keyed THEN SetKeyed(next) ELSE SetPlaced(next)
    /\ made' <= MaxNodes
    /\ UNCHANGED <<options, arrayUp>>

(* reset(): new items for the initial values or the ones given; the old    *)
(* ones go.                                                                *)
ResetArray(values) ==
    /\ arrayUp /\ made' = made + Len(values) /\ made' <= MaxNodes
    /\ ~(options.keyed /\ Repeats(values, Keys))
    /\ Replace(Created(values, made), NodesOf(items))
    /\ UNCHANGED <<options, arrayUp>>

(* The scope of the array is disposed, with those of the items.            *)
DisposeArray ==
    /\ arrayUp /\ arrayUp' = FALSE /\ scopes' = {}
    /\ UNCHANGED <<options, items, made>>

ArrayNext ==
    \/ \E key \in Keys \cup {NoKey}, i \in 1..(MaxItems + 1) : Insert(i, key)
    \/ \E i \in 1..MaxItems : RemoveItem(i)
    \/ \E i, j \in 1..MaxItems : Swap(i, j) \/ Move(i, j)
    \/ \E i \in 1..MaxItems, key \in Keys \cup {NoKey} : EditKey(i, key)
    \/ \E next \in Lists : SetArrayValues(next) \/ ResetArray(next)
    \/ DisposeArray

ArraySpec == ArrayInit /\ [][ArrayNext]_arrayvars
-----------------------------------------------------------------------------
(* Properties.                                                             *)

(* Every item of the list has an identity of its own and a scope that      *)
(* lives, however the list came about: by keys edited after they were      *)
(* given, by values without one, by sorting, resetting and replacing (the  *)
(* bookkeeping of activeScopes in setValues() and reset()).                *)
ItemsAreAlive ==
    /\ Cardinality(IdsOf(items)) = Len(items)
    /\ (arrayUp /\ ~options.fragile) => NodesOf(items) \subseteq scopes

(* An item dropped from the list is disposed, in the same step. Where two  *)
(* items were edited to one key, setValues() loses one of them: those are  *)
(* the only scopes left behind.                                            *)
Clashing == \E i, j \in DOMAIN items : i # j /\ items[i].key = items[j].key
DroppedAreDisposed ==
    [][(~options.fragile /\ ~(options.keyed /\ Clashing)) =>
            (NodesOf(items) \ NodesOf(items')) \cap scopes' = {}]_arrayvars

(* Items and their scopes come and go together.                            *)
ArrayIsSound == []ItemsAreAlive /\ DroppedAreDisposed
=============================================================================
