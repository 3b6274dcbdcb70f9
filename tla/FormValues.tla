------------------------------ MODULE FormValues ------------------------------
(***************************************************************************)
(* What a form of @vii-labs/form says of its whole tree, and the           *)
(* operations that reach all of it: the aggregates of groups, arrays and   *)
(* the form (core/group.ts, array.ts, form.ts), reset(), reinitialize()    *)
(* with its two phases (core/reinitialize-tree.ts), register() and         *)
(* unregister() of an optional child, and the routing of server issues by  *)
(* path (submission/server-issues.ts).                                     *)
(*                                                                         *)
(* The tree is a form with a field "a", a group "g" (a field "b" and an    *)
(* optional field "c") and an array "r" of fields.  Every operation is one *)
(* batch.  The dirty state of an array is FormArray's subject.             *)
(***************************************************************************)
EXTENDS Naturals, Sequences, FiniteSets, Functions

CONSTANTS Items,    \* the field nodes of the array
          Position, \* the indices of the array, written as text
          Values,   \* what a field can hold
          MaxOps    \* operations in a behaviour

Leaves == {"a", "b", "c"} \cup Items
Inner  == {"form", "g", "r"}

ASSUME ItemsAssumption ==
  /\ IsFiniteSet(Items) /\ Items \subseteq STRING \ ({"a", "b", "c"} \cup Inner)
  /\ Position \in Seq(STRING) /\ Cardinality(Items) <= Len(Position)
  /\ \A i, j \in DOMAIN Position : Position[i] = Position[j] => i = j
  /\ MaxOps \in Nat

VARIABLES leaf,     \* [Leaves -> [value, base, touched, verdict]]
          server,   \* nodes with a server issue of their own
          stray,    \* paths of the form's own server issues: no node was found for them
          optional, \* "c" is registered in "g"
          row,      \* the items of "r"
          rowBase,  \* and those of its baseline
          ops       \* operations so far

valuesVars == <<leaf, server, stray, optional, row, rowBase>>
formVars == <<valuesVars, ops>>

(***************************************************************************)
(* The tree                                                                *)
(***************************************************************************)
\* The segments below a node with the nodes they lead to.
Members(n) ==
  CASE n = "form" -> {<<"a", "a">>, <<"g", "g">>, <<"r", "r">>}
    [] n = "g"    -> {<<"b", "b">>} \cup IF optional THEN {<<"c", "c">>} ELSE {}
    [] n = "r"    -> {<<Position[i], row[i]>> : i \in DOMAIN row}
    [] OTHER      -> {}

Below(n) == {c[2] : c \in Members(n)}
LeavesUnder(n) == (Below(n) \cup UNION {Below(m) : m \in Below(n)}) \cap Leaves
InTree == {"form"} \cup Below("form") \cup LeavesUnder("form")

\* The issues of a field come first, prefixed on their way up; a node's own follow.
Unprefixed(seg, path) == path  \* a mutant
Prefixed(seg, path) == <<seg>> \o path

OwnIssues(n) == (IF n \in server THEN {[of |-> n, path |-> <<>>]} ELSE {})
                \cup (IF n = "form" THEN {[of |-> n, path |-> p] : p \in stray} ELSE {})
LeafIssues(n) == IF leaf[n].verdict THEN {[of |-> n, path |-> <<>>]} ELSE {}

Issues[n \in Leaves \cup Inner] ==
  OwnIssues(n) \cup
    IF n \in Leaves THEN LeafIssues(n)
    ELSE UNION {{[of |-> x.of, path |-> Prefixed(c[1], x.path)] : x \in Issues[c[2]]} :
                  c \in Members(n)}

QuietExceptArray(n) == n = "r" \/ OwnIssues(n) = {}  \* a mutant
Quiet(n) == OwnIssues(n) = {}
Valid[n \in Leaves \cup Inner] ==
  IF n \in Leaves THEN Issues[n] = {} ELSE Quiet(n) /\ \A m \in Below(n) : Valid[m]

Fresh(v) == [value |-> v, base |-> v, touched |-> FALSE, verdict |-> FALSE]

ValuesInit ==
  \E v \in Values :
    /\ leaf = [f \in Leaves |-> Fresh(v)]
    /\ server = {} /\ stray = {}
    /\ optional \in BOOLEAN
    /\ row \in {<<i>> : i \in Items} \cup {<<>>}
    /\ rowBase = row
    /\ ops = 0

(***************************************************************************)
(* One field                                                               *)
(***************************************************************************)
EditLeaf(f, v) ==
  /\ f \in InTree
  /\ leaf' = [leaf EXCEPT ![f].value = v]
  /\ server' = server \ {f}
  /\ UNCHANGED <<stray, optional, row, rowBase>>

TouchLeaf(f) ==
  /\ f \in InTree
  /\ leaf' = [leaf EXCEPT ![f].touched = TRUE]
  /\ UNCHANGED <<server, stray, optional, row, rowBase>>

\* A validation commits: the field is invalid or valid.
JudgeLeaf(f) ==
  /\ f \in InTree
  /\ leaf' = [leaf EXCEPT ![f].verdict = ~@]
  /\ UNCHANGED <<server, stray, optional, row, rowBase>>

(***************************************************************************)
(* The shape                                                               *)
(***************************************************************************)
\* register("c", node) and unregister("c"): the node leaves with all it held, and another
\* one comes.
RegisterOptional(v) ==
  /\ ~optional /\ optional' = TRUE
  /\ leaf' = [leaf EXCEPT !["c"] = Fresh(v)]
  /\ UNCHANGED <<server, stray, row, rowBase>>

UnregisterOptional ==
  /\ optional /\ optional' = FALSE
  /\ server' = server \ {"c"}
  /\ UNCHANGED <<leaf, stray, row, rowBase>>

AppendItem(i, v) ==
  /\ i \notin Range(row) \cup Range(rowBase) /\ row' = Append(row, i)
  /\ leaf' = [leaf EXCEPT ![i] = Fresh(v)]
  /\ UNCHANGED <<server, stray, optional, rowBase>>

ResetOf(f) == Fresh(leaf[f].base)

\* remove(k): an item of the baseline is kept and reset, another is disposed.
DropItem(k) ==
  /\ row' = [j \in 1 .. Len(row) - 1 |-> row[IF j < k THEN j ELSE j + 1]]
  /\ leaf' = [leaf EXCEPT ![row[k]] = ResetOf(row[k])]
  /\ server' = server \ {row[k]}
  /\ UNCHANGED <<stray, optional, rowBase>>

(***************************************************************************)
(* reset and reinitialize                                                  *)
(***************************************************************************)
\* reset() of a group, of the array (its baseline returns) or of the form, which drops
\* every server issue first.
ResetNode(n) ==
  LET back == IF n \in {"r", "form"} THEN rowBase ELSE row
      reset == LeavesUnder(n) \cup (IF n = "g" THEN {} ELSE Range(rowBase)) IN
  /\ row' = back
  /\ leaf' = [f \in Leaves |-> IF f \in reset THEN ResetOf(f) ELSE leaf[f]]
  /\ server' = server \ (reset \cup {n} \cup Below(n) \cup LeavesUnder(n))
  /\ stray' = IF n = "form" THEN {} ELSE stray
  /\ UNCHANGED <<optional, rowBase>>

\* What is passed to reinitialize(): values for the leaves it has, the nodes it has no
\* property for, those where it has no object or no list, and the length of its list.
Inputs ==
  LET sound == [value : {[f \in Leaves |-> v] : v \in Values}, missing : {{}}, shapeless : {{}},
                length : {Len(row)}] IN
  sound \cup {[x EXCEPT !.length = k] : x \in sound, k \in 0 .. Cardinality(Items)}
        \cup {[x EXCEPT !.missing = {n}] : x \in sound, n \in {"a", "g", "r", "b", "c"}}
        \cup {[x EXCEPT !.shapeless = {n}] : x \in sound, n \in {"g", "r"}}

\* prevalidateChildNode: every key of the tree is there, a slice of a group is an object, of
\* an array a list with one entry for each item there is now.
FitsNode(n, input) ==
  /\ Below(n) \cap input.missing = {}
  /\ n \notin input.shapeless
  /\ n = "r" => input.length = Len(row)

FitsTop(input) == FitsNode("form", input)  \* a mutant
Fits(input) == \A n \in {"form", "g", "r"} : FitsNode(n, input)

\* Phase 2, commitPreparedNode: what a field is given where the input has nothing for it.
Undefined == "undefined"
Given(f, input) ==
  IF \/ f \in input.missing
     \/ f \in {"b", "c"} /\ input.shapeless \cap {"g"} # {}
     \/ f \in Items /\ \E k \in DOMAIN row : row[k] = f /\ ("r" \in input.shapeless \/ k > input.length)
  THEN Undefined ELSE input.value[f]

\* reinitialize() of the form: an input that does not fit throws before anything is set;
\* then every server issue is dropped, every field of the tree has its new baseline, and
\* the items of the moment are the array's baseline.
Reinitialize(input) ==
  IF ~Fits(input) THEN UNCHANGED valuesVars
  ELSE /\ leaf' = [f \in Leaves |-> IF f \in LeavesUnder("form") THEN Fresh(Given(f, input))
                                    ELSE leaf[f]]
       /\ rowBase' = row
       /\ server' = {} /\ stray' = {}
       /\ UNCHANGED <<optional, row>>

(***************************************************************************)
(* Server issues                                                           *)
(***************************************************************************)
\* Where a path leads from a node; {} when there is no such node.
Step(n, seg) == {c[2] : c \in {d \in Members(n) : d[1] = seg}}
Route(path) ==
  IF path = <<>> THEN {}
  ELSE LET reach[k \in 0 .. Len(path)] ==
             IF k = 0 THEN {"form"} ELSE UNION {Step(n, path[k]) : n \in reach[k - 1]}
       IN  reach[Len(path)]

Paths == {<<"a">>, <<"a", "z">>, <<"g">>, <<"g", "c">>, <<"r">>, <<"r", "0">>, <<"r", "1">>, <<>>}

\* The issues of an answer are routed one by one; the form keeps those that lead nowhere.
RouteServerIssues(paths) ==
  /\ server' = server \cup UNION {Route(p) : p \in paths}
  /\ stray' = {p \in paths : Route(p) = {}}
  /\ UNCHANGED <<leaf, optional, row, rowBase>>

Operation ==
  \/ \E f \in Leaves : TouchLeaf(f) \/ JudgeLeaf(f) \/ \E v \in Values : EditLeaf(f, v)
  \/ \E v \in Values : RegisterOptional(v) \/ \E i \in Items : AppendItem(i, v)
  \/ UnregisterOptional
  \/ \E k \in DOMAIN row : DropItem(k)
  \/ \E n \in Inner : ResetNode(n)
  \/ \E input \in Inputs : Reinitialize(input)
  \/ \E p \in Paths : RouteServerIssues({p}) \/ RouteServerIssues({p, <<"g">>})

ValuesNext == ops < MaxOps /\ ops' = ops + 1 /\ Operation

ValuesSpec == ValuesInit /\ [][ValuesNext]_formVars

-------------------------------------------------------------------------------
\* A node is valid exactly when it reports no issue, at every level of the tree, whatever
\* was registered, removed, routed and reset in between.
ValidMeansNoIssues == \A n \in InTree : Valid[n] <=> Issues[n] = {}

\* The path the form reports with an issue leads the server's routing back to the node the
\* issue is about: issues() and routeServerIssuesToTree agree on paths.
IssuesLeadBack == \A x \in Issues["form"] : x.of # "form" => Route(x.path) = {x.of}

\* The issues of the tree agree upwards with the validity of its nodes and downwards with
\* the routing of server issues.
IssuesAgreeInTree == ValidMeansNoIssues /\ IssuesLeadBack

\* form.reinitialize() takes all or nothing: when the baseline of one field in the tree has
\* changed, every field of the tree has the value it was given for it, untouched, and no
\* node has an issue left.
ReinitializesWhole ==
  [][(\E f \in InTree : f \in Leaves /\ f \in InTree' /\ leaf'[f].base # leaf[f].base) =>
       /\ \E v \in Values : \A f \in LeavesUnder("form")' : leaf'[f] = Fresh(v)
       /\ Issues["form"]' = {}]_valuesVars
===============================================================================
