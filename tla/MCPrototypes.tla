---------------------------- MODULE MCPrototypes ----------------------------
(* Finite instances of PrototypeField, PrototypeArray and PrototypeForm for*)
(* TLC.  The three are checked side by side: a behaviour is one of them,   *)
(* the others rest.  The form has a small array without keys; KeyedArray is*)
(* the larger one, with keys that clash.                                   *)
EXTENDS PrototypeField, PrototypeForm

CONSTANTS a, b, none, c1, c2

VARIABLE part

AllSetups == {s \in SetupType : s.debounce => "change" \in s.triggers}
Unkeyed == {[keyed |-> FALSE, fragile |-> FALSE, initial |-> <<none>>]}

KeyedArray == INSTANCE PrototypeArray WITH
    Keys <- {a, b}, MaxItems <- 3, MaxNodes <- 3,
    ArraySetups <- [keyed : BOOLEAN, fragile : BOOLEAN, initial : {<<a, b>>}]

PrototypesInit ==
    /\ part \in {"field", "array", "form"}
    /\ FieldInit
    /\ part # "field" => setup = CHOOSE s \in AllSetups : TRUE
    /\ IF part = "array" THEN KeyedArray!ArrayInit ELSE ArrayInit
    /\ FormOnlyInit
PrototypesNext ==
    /\ UNCHANGED part
    /\ \/ part = "field" /\ FieldNext /\ UNCHANGED formvars
       \/ part = "array" /\ KeyedArray!ArrayNext /\ UNCHANGED <<fieldvars, formonly>>
       \/ part = "form" /\ FormNext /\ UNCHANGED fieldvars
PrototypesSpec == PrototypesInit /\ [][PrototypesNext]_<<fieldvars, formvars, part>>

Symmetric == Permutations(Calls)
=============================================================================
