---------------------------- MODULE MCSubmission ----------------------------
(* Finite instances of Submission for TLC: one or two fields with values   *)
(* that are refused at once (1), refused late (2), accepted late (3) or    *)
(* accepted at once (0); q also reads p.                                   *)
EXTENDS Submission, TLC

CONSTANTS p, q, a, b, c

QReadsP == [f \in Fields |-> IF f = q THEN {p} ELSE {}]
PBeforeQ == [f \in Fields |-> IF f = p THEN 1 ELSE 2]

Refused(f, vals) == vals[f] = 1 \/ (f = q /\ vals[q] = 0 /\ vals[p] = 0)
Promised(f, vals) == vals[f] >= 2
RefusedLate(f, vals) == vals[f] = 2 \/ (f = q /\ vals[p] = 2)

CallSymmetry == Permutations(Submissions)
=============================================================================
