----------------------------- MODULE MCAdapters -----------------------------
(* Finite instances of Projection, Controls, Attributes and Focus for TLC. *)
(* The four are checked side by side: a behaviour is one of them, the      *)
(* others rest in an initial state of theirs.                              *)
EXTENDS Projection, Controls, Attributes, Focus, TLC

CONSTANTS f1, f2, e1, e2, b1, b2, h1, h2, x, y

Alike == Permutations(Bindings)

VARIABLE part

Choices == (e1 :> x @@ e2 :> y)

(* Of two controls the second is a text, or of the kind of the first.      *)
PairOfKinds == type[e2] \in {"text", type[e1]}

AdaptersInit ==
    /\ part \in {"projection", "controls", "attributes", "focus"}
    /\ ProjectionInit /\ (part # "projection" => node = "store")
    /\ ControlsInit /\ PairOfKinds
    /\ part # "controls" =>
         /\ style = CHOOSE s \in Styles : TRUE
         /\ raw = [f \in Fields |-> x] /\ value = raw /\ text = [e \in Inputs |-> x]
         /\ type = [e \in Inputs |-> "text"]
    /\ AttributesInit
    /\ part # "attributes" =>
         faulty = [f \in Judged |-> FALSE] /\ own = [aria |-> "absent", tokens |-> {"hint"}]
    /\ FocusInit /\ (part # "focus" => usable = Places)
AdaptersNext ==
    /\ UNCHANGED part
    /\ \/ part = "projection" /\ ProjectionNext /\ UNCHANGED <<cvars, attributeVars, focusVars>>
       \/ part = "controls" /\ ControlsNext /\ PairOfKinds' /\ UNCHANGED <<pvars, attributeVars, focusVars>>
       \/ part = "attributes" /\ AttributesNext /\ UNCHANGED <<pvars, cvars, focusVars>>
       \/ part = "focus" /\ FocusNext /\ UNCHANGED <<pvars, cvars, attributeVars>>
AdaptersSpec == AdaptersInit /\ [][AdaptersNext]_<<pvars, cvars, attributeVars, focusVars, part>>
=============================================================================
