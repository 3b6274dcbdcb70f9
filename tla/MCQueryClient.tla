---------------------------- MODULE MCQueryClient ----------------------------
(* Finite instances of QueryClient for TLC: a key and one in its family.   *)
EXTENDS QueryClient, TLC

CONSTANTS h1, h2, e1, e2

Users == <<1>>
User == <<1, 2>>
BothKeys == {Users, User}
OneKey == {User}
QuerySymmetry == Permutations(Handles) \cup Permutations(Executions)
=============================================================================
