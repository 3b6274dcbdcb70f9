----------------------------- MODULE MCPackages -----------------------------
(* Finite instances of Scope, FormArray and FormValues for TLC.  The three *)
(* are checked side by side: a behaviour is one of them, the others rest.  *)
EXTENDS Scope, FormArray, FormValues

CONSTANTS root, c1, c2, p, q, a, b, d, none

VARIABLE part

(* a and d are keyed alike: an array can have one of them at a time.       *)
Keys == [n \in Nodes |-> IF n \in {a, d} THEN "ka" ELSE "kb"]

Indices == <<"0", "1">>

PackagesInit ==
    /\ part \in {"scope", "array", "values"}
    /\ ScopeInit
    /\ ArrayInit /\ (part # "array" => items = <<>>)
    /\ ValuesInit /\ (part # "values" => row = <<>> /\ optional /\ leaf["a"].value = "x")
PackagesNext ==
    /\ UNCHANGED part
    /\ \/ part = "scope" /\ ScopeNext /\ UNCHANGED <<avars, formVars>>
       \/ part = "array" /\ ArrayNext /\ UNCHANGED <<cvars, formVars>>
       \/ part = "values" /\ ValuesNext /\ UNCHANGED <<cvars, avars>>
PackagesSpec == PackagesInit /\ [][PackagesNext]_<<cvars, avars, formVars, part>>

Symmetric == Permutations(Plain)
=============================================================================
