------------------------- MODULE MCFieldValidation -------------------------
(* Finite instances of FieldValidation for TLC: a field p, a field q whose *)
(* rules read p as well, and values of which 1 fails at once, 2 is refused *)
(* by the asynchronous rule and 3 is accepted by it.                       *)
EXTENDS FieldValidation

CONSTANTS p, q

QReadsP == [f \in Fields |-> IF f = q THEN {p} ELSE {}]

Refused(f, vals) == vals[f] = 1 \/ (f = q /\ vals[q] = 0 /\ vals[p] = 0)
Promised(f, vals) == vals[f] >= 2
RefusedLate(f, vals) == vals[f] = 2 \/ (f = q /\ vals[p] = 2)
=============================================================================
