--------------------------- MODULE MCNotification ---------------------------
(* Finite instances of Notification for TLC.                               *)
EXTENDS Notification

CONSTANT MaxValue   \* bound: the writes a cell takes

(* Every write is a new version, so that order and staleness can be told.  *)
Versions == 0..MaxValue
NextVersion(v) == IF v < MaxValue THEN {v + 1} ELSE {}

(* A listener may write for ever: two values that replace each other.      *)
Toggle(v) == {1 - v}
=============================================================================
