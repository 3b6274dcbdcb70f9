----------------------------- MODULE MCComputed -----------------------------
(* Finite instances of Computed for TLC: cells a, b, r and computeds c..f. *)
EXTENDS Computed, TLC

CONSTANTS a, b, c, d, r, e, f, u1, u2, u3, MaxValue, LastVersion

Range0 == 0..MaxValue

(* Sums wrap, so that read functions are total; no value of a run does.    *)
Wrapped(v) == v % (MaxValue + 1)

(* No definition tells one user subscription from another.                 *)
UserSymmetry == Permutations(UserSubs)

(* The cells of the chain are written new versions and return to no earlier*)
(* value; the cell of the relay goes back and forth.                       *)
NextVersion(v) == IF v < LastVersion THEN {v + 1} ELSE {}
Toggle(v) == IF v \in {0, 2} THEN {2 - v} ELSE {}
Either(v) == NextVersion(v) \cup Toggle(v)

(* c follows a; d reads b and then a while b is 0, c after that: a change  *)
(* of b makes d leave one dependency and take up another.                  *)
ChainProgram(n, reads) ==
    CASE n = c -> IF reads = <<>> THEN Reading(a) ELSE Returning(reads[1])
      [] n = d -> IF reads = <<>> THEN Reading(b)
                  ELSE IF Len(reads) = 1 THEN Reading(IF reads[1] = 0 THEN a ELSE c)
                  ELSE Returning(Wrapped(2 * reads[1] + reads[2]))

ChainMeaning(n, v) == IF n = c THEN v[a] ELSE Wrapped(2 * v[b] + v[a])

(* e follows r, f follows e.                                               *)
RelayProgram(n, reads) ==
    IF reads # <<>> THEN Returning(reads[1])
    ELSE IF n = e THEN Reading(r) ELSE Reading(e)

RelayMeaning(n, v) == v[r]

BothProgram(n, reads) ==
    IF n \in {c, d} THEN ChainProgram(n, reads) ELSE RelayProgram(n, reads)
BothMeaning(n, v) == IF n \in {c, d} THEN ChainMeaning(n, v) ELSE RelayMeaning(n, v)

(* c follows a, e follows c, and d reads a and then e.                     *)
MixProgram(n, reads) ==
    CASE n = c -> IF reads = <<>> THEN Reading(a) ELSE Returning(reads[1])
      [] n = e -> IF reads = <<>> THEN Reading(c) ELSE Returning(reads[1])
      [] n = d -> IF reads = <<>> THEN Reading(a)
                  ELSE IF Len(reads) = 1 THEN Reading(e)
                  ELSE Returning(Wrapped(2 * reads[1] + reads[2]))

MixMeaning(n, v) == IF n = d THEN Wrapped(3 * v[a]) ELSE v[a]

(* d reads b and a.                                                        *)
LateProgram(n, reads) ==
    IF Len(reads) < 2 THEN Reading(IF reads = <<>> THEN b ELSE a)
    ELSE Returning(Wrapped(3 * reads[1] + reads[2]))
LateMeaning(n, v) == Wrapped(3 * v[b] + v[a])

(* All of them are what the theorems take read functions for; none reads   *)
(* more than two nodes.                                                    *)
ShortReads == UNION {[1..k -> Values] : k \in 0..2}
ASSUME ReadFunctions == TypedOn(ShortReads) /\ GroundedOn(ShortReads, 0..2)
-----------------------------------------------------------------------------
(* The chain and the relay side by side: part says which of them a         *)
(* behaviour is about, the other rests.                                    *)
VARIABLE part

Resting(nodes) ==
    /\ \A n \in nodes : subs[n] = <<>>
    /\ \A n \in nodes \cap Cells : value[n] = InitValue
    /\ \A n \in nodes \cap Computeds : dirty[n] /\ ~disposed[n] /\ n \notin Evaluating

(* A listener of the chain makes one call and opens no batch, and users    *)
(* follow the cell that both computeds come to read, not the other.        *)
InChain ==
    /\ Resting({r, e, f}) /\ \A n \in {a, b} : value[n] < 2
    /\ running # None => fuel > 0 /\ batchDepth = 0
    /\ Subscribed(b) \subseteq {d}

(* Users come and go outside of its batches.                               *)
NobodyMoves == \A n \in Nodes : Subscribed(n)' \cap UserSubs = Subscribed(n) \cap UserSubs

(* A listener of the relay calls no get(), and there is one listener.      *)
InRelay ==
    /\ Resting({a, b, c, d}) /\ value[r] # 1
    /\ running # None => evalStack = <<>> \/ observer # None
    /\ \E s \in UserSubs : \A t \in UserSubs \ {s} :
          t \notin notified /\ seen[t] = InitValue /\ \A n \in Nodes : t \notin Subscribed(n)

BothInit == CInit /\ part \in {"chain", "relay"}
BothNext ==
    /\ CNext /\ UNCHANGED part
    /\ part = "chain" => InChain' /\ (batchDepth > 0 => NobodyMoves)
    /\ part = "relay" => InRelay'
BothSpec == BothInit /\ [][BothNext]_<<cvars, part>>

(* A single program on its own.                                            *)
AloneSpec == CInit /\ part = "alone" /\ [][CNext /\ UNCHANGED part]_<<cvars, part>>

(* Each listener stays with one node and only that of a changes who        *)
(* listens.                                                                *)

InLate ==
    /\ Subscribed(b) \subseteq {d, u1} /\ Subscribed(a) \subseteq {d, u2}
    /\ Subscribed(d) \subseteq {u3} /\ value[b] < 2
LateNext ==
    /\ running = u1 => subs' = subs
    /\ running = u3 => fuel' \in {fuel, 0}
    /\ CNext /\ InLate' /\ UNCHANGED part
LateSpec == CInit /\ part = "late" /\ [][LateNext]_<<cvars, part>>
=============================================================================
