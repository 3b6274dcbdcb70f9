--------------------------- MODULE FormTree_proofs ---------------------------
(***************************************************************************)
(* Theorems about FormTree, for every set of fields and forms, whatever is *)
(* validated on change and debounced, and all dependencies; about Scope,   *)
(* for all resources and children; about FormArray, for all nodes and keys;*)
(* about FormValues, for all items, values and lengths of an array.        *)
(***************************************************************************)
EXTENDS FormTree, Scope, FormArray, FormValues, FiniteSetTheorems, SequenceTheorems, WellFoundedInduction, TLAPS

-----------------------------------------------------------------------------
(* Of the natural numbers of a set one is the least: strict inclusion of   *)
(* intervals is well-founded.  The inductions below take a least           *)
(* counterexample.                                                         *)
LEMMA LeastNatural ==
    ASSUME NEW T \in SUBSET Nat, T # {}
    PROVE  \E n \in T : \A m \in T : n <= m
<1> DEFINE U == {0..n : n \in T}
           R == StrictSubsetOrdering(Nat)
           S == FiniteSubsetsOf(Nat)
<1>1. IsWellFoundedOn(R, S)
  BY FS_StrictSubsetOrderingWellFounded
<1>2. U \subseteq S /\ U # {}
  <2>1. ASSUME NEW n \in T PROVE 0..n \in S
    <3>1. 0..n \subseteq Nat
      BY SMT
    <3>2. IsFiniteSet(0..n)
      BY FS_Interval
    <3> QED BY <3>1, <3>2 DEF FiniteSubsetsOf
  <2> QED BY <2>1
<1>3. PICK u \in U : \A v \in U : ~(<<v, u>> \in R)
  <2> HIDE DEF U, R, S
  <2> QED BY <1>1, <1>2, WFMin
<1>4. PICK n \in T : u = 0..n
  OBVIOUS
<1>5. ASSUME NEW m \in T, m < n PROVE FALSE
  <2>1. 0..m \subseteq 0..n /\ 0..m # 0..n /\ 0..n \subseteq Nat
    BY <1>5, SMT
  <2>2. <<0..m, 0..n>> \in R
    BY <2>1 DEF StrictSubsetOrdering
  <2> QED BY <1>3, <1>4, <2>2
<1> QED BY <1>5, SMT

(* A step taken n times from a start: the function exists.                 *)
Iterates(g, N, T, a, step) ==
    g \in [0..N -> T] /\ g[0] = a /\ \A n \in 1..N : g[n] = step[g[n - 1]]

LEMMA Iteration ==
    ASSUME NEW N \in Nat, NEW T, NEW a \in T, NEW step \in [T -> T]
    PROVE  \E g : Iterates(g, N, T, a, step)
<1> DEFINE Upto(k, g) == Iterates(g, k, T, a, step)
           Fails == {k \in 0..N : ~ \E g : Upto(k, g)}
<1>1. \E g : Upto(N, g)
  <2> SUFFICES ASSUME Fails # {} PROVE FALSE
    OBVIOUS
  <2>1. PICK k \in Fails : \A m \in Fails : k <= m
    BY LeastNatural, Fails \in SUBSET Nat
  <2>2. CASE k = 0
    <3>1. Upto(0, [i \in 0..0 |-> a])
      BY DEF Iterates
    <3> QED BY <2>1, <2>2, <3>1
  <2>3. CASE k # 0
    <3>1. k - 1 \in 0..N /\ k \in Nat
      BY <2>3
    <3>2. PICK g : Upto(k - 1, g)
      <4>1. k - 1 \notin Fails
        <5> HIDE DEF Fails
        <5>1. ~(k <= k - 1)
          BY <3>1
        <5> QED BY <2>1, <5>1
      <4> QED BY <3>1, <4>1
    <3> DEFINE h == [i \in 0..k |-> IF i = k THEN step[g[k - 1]] ELSE g[i]]
    <3>3. h \in [0..k -> T] /\ h[0] = a
      <4>1. g \in [0..(k - 1) -> T] /\ g[0] = a
        BY <3>2 DEF Iterates
      <4>2. \A i \in 0..k : i = k \/ i \in 0..(k - 1)
        BY <3>1
      <4>3. k - 1 \in 0..(k - 1) /\ 0 \in 0..k /\ k # 0
        BY <2>3, <3>1
      <4> QED BY <4>1, <4>2, <4>3
    <3>4. ASSUME NEW n \in 1..k PROVE h[n] = step[h[n - 1]]
      <4>1. n - 1 \in 0..k /\ n - 1 # k /\ n \in 0..k
        BY <3>1
      <4>2. h[n - 1] = g[n - 1]
        BY <4>1
      <4>3. CASE n = k
        BY <4>1, <4>2, <4>3
      <4>4. CASE n # k
        <5>1. n \in 1..(k - 1)
          BY <3>1, <4>4
        <5> QED BY <3>2, <4>1, <4>2, <4>4, <5>1 DEF Iterates
      <4> QED BY <4>3, <4>4
    <3> HIDE DEF h
    <3>5. Upto(k, h)
      BY <3>3, <3>4 DEF Iterates
    <3> QED BY <2>1, <3>5
  <2> QED BY <2>2, <2>3
<1> QED BY <1>1

-----------------------------------------------------------------------------
(* What is below a field.                                                  *)
EdgesType == deps \in [Fields -> SUBSET Fields] /\ dependents \in [Fields -> SUBSET Fields]

(* Below a field are its dependents, and what is below these: the search   *)
(* goes on for as many rounds as there are fields, and each of them finds  *)
(* a new one or is the last that is needed.                                *)
LEMMA DownstreamClosed ==
    ASSUME EdgesType, NEW f \in Fields
    PROVE  /\ Downstream(f) \subseteq Fields /\ dependents[f] \subseteq Downstream(f)
           /\ \A g \in Downstream(f) : dependents[g] \subseteq Downstream(f)
           /\ \A X \in SUBSET Fields :
                dependents[f] \subseteq X /\ (\A g \in X : dependents[g] \subseteq X)
                  => Downstream(f) \subseteq X
<1> DEFINE N == Cardinality(Fields)
           T == SUBSET Fields
           step == [S \in T |-> S \cup UNION {dependents[g] : g \in S}]
           B == CHOOSE Reach : Reach = [n \in 0..N |-> IF n = 0 THEN dependents[f]
                                 ELSE LET S == Reach[n - 1] IN S \cup UNION {dependents[g] : g \in S}]
<1>0. IsFiniteSet(Fields) /\ N \in Nat
  BY FieldsAssumption, FS_CardinalityType
<1>1. step \in [T -> T] /\ dependents[f] \in T
  BY DEF EdgesType
<1>2. PICK b : Iterates(b, N, T, dependents[f], step)
  <2> HIDE DEF N, T, step
  <2> QED BY <1>0, <1>1, Iteration
<1>3. b = [n \in 0..N |-> IF n = 0 THEN dependents[f]
                          ELSE LET S == b[n - 1] IN S \cup UNION {dependents[g] : g \in S}]
  <2>1. ASSUME NEW n \in 0..N, n # 0
        PROVE  step[b[n - 1]] = LET S == b[n - 1] IN S \cup UNION {dependents[g] : g \in S}
    <3>1. n - 1 \in 0..N
      BY <1>0, <2>1
    <3>2. b[n - 1] \in T
      BY <1>2, <3>1 DEF Iterates
    <3> QED BY <3>2
  <2>2. \A n \in 1..N : n \in 0..N /\ n # 0
    BY <1>0
  <2>3. \A n \in 0..N : n # 0 => n \in 1..N
    BY <1>0
  <2> HIDE DEF N, step
  <2> QED BY <1>2, <2>1, <2>2, <2>3 DEF Iterates
<1>4. B = [n \in 0..N |-> IF n = 0 THEN dependents[f]
                          ELSE LET S == B[n - 1] IN S \cup UNION {dependents[g] : g \in S}]
  BY <1>3
<1>5. B[0] = dependents[f] /\ \A n \in 1..N : B[n] = B[n - 1] \cup UNION {dependents[g] : g \in B[n - 1]}
  <2> HIDE DEF B, N
  <2> QED BY <1>0, <1>4
<1>6. Downstream(f) = B[N]
  BY DEF Downstream
<1> HIDE DEF B, N, step
<1> DEFINE Closed(S) == \A g \in S : dependents[g] \subseteq S
           Sound(n) == /\ B[n] \in T /\ dependents[f] \subseteq B[n]
                       /\ Closed(B[n]) \/ Cardinality(B[n]) >= n
                       /\ \A X \in T : dependents[f] \subseteq X /\ Closed(X) => B[n] \subseteq X
           Fails == {n \in 0..N : ~ Sound(n)}
<1>7. Sound(N)
  <2> SUFFICES ASSUME Fails # {} PROVE FALSE
    BY <1>0
  <2>1. PICK n \in Fails : \A m \in Fails : n <= m
    BY LeastNatural, Fails \in SUBSET Nat
  <2>2. CASE n = 0
    <3>1. Cardinality(B[0]) >= 0
      BY <1>0, <1>1, <1>5, FS_Subset, FS_CardinalityType
    <3> QED BY <1>1, <1>5, <2>1, <2>2, <3>1
  <2>3. CASE n # 0
    <3>1. n - 1 \in 0..N /\ n \in 1..N
      BY <1>0, <2>3
    <3>2. Sound(n - 1)
      BY <2>1, <3>1
    <3>3. B[n] = B[n - 1] \cup UNION {dependents[g] : g \in B[n - 1]}
      BY <1>5, <3>1
    <3>4. B[n] \in T /\ dependents[f] \subseteq B[n]
      BY <3>2, <3>3 DEF EdgesType
    <3>5. \A X \in T : dependents[f] \subseteq X /\ Closed(X) => B[n] \subseteq X
      BY <3>2, <3>3
    <3>6. CASE Closed(B[n - 1])
      <4>1. B[n] = B[n - 1]
        BY <3>3, <3>6
      <4> QED BY <2>1, <3>2, <3>4, <3>5, <3>6, <4>1
    <3>7. CASE ~ Closed(B[n - 1])
      <4>1. B[n - 1] \subseteq B[n] /\ B[n - 1] # B[n]
        BY <3>3, <3>7
      <4>2. IsFiniteSet(B[n])
        BY <1>0, <3>4, FS_Subset
      <4>3. /\ IsFiniteSet(B[n - 1]) /\ Cardinality(B[n - 1]) <= Cardinality(B[n])
            /\ Cardinality(B[n - 1]) # Cardinality(B[n])
        BY <4>1, <4>2, FS_Subset
      <4>4. Cardinality(B[n - 1]) \in Nat /\ Cardinality(B[n]) \in Nat
        BY <4>2, <4>3, FS_CardinalityType
      <4>5. Cardinality(B[n]) >= n
        BY <3>1, <3>2, <3>7, <4>3, <4>4
      <4> QED BY <2>1, <3>4, <3>5, <4>5
    <3> QED BY <3>6, <3>7
  <2> QED BY <2>2, <2>3
<1>8. Closed(B[N])
  <2>1. CASE Cardinality(B[N]) >= N
    <3>1. IsFiniteSet(B[N]) /\ Cardinality(B[N]) <= N /\ (Cardinality(B[N]) = N => B[N] = Fields)
      BY <1>0, <1>7, FS_Subset DEF N
    <3>2. B[N] = Fields
      BY <1>0, <2>1, <3>1, FS_CardinalityType
    <3> QED BY <3>2 DEF EdgesType
  <2> QED BY <1>7, <2>1
<1> QED BY <1>6, <1>7, <1>8

-----------------------------------------------------------------------------
(* The graph.                                                              *)
TreeTypeOK ==
    /\ ownership \in [Fields -> {"unmade", "standalone", "tree", "disposed"}]
    /\ treeRoot \in [Fields -> Forms \cup {NoForm}]
    /\ form \in [Forms -> {"unmade", "live", "disposed", "threw"}]
    /\ EdgesType
    /\ late \in SUBSET Fields /\ lately \in SUBSET Fields
    /\ judged \in SUBSET Fields /\ behind \in [Fields -> SUBSET Fields]
    /\ scheduled \in SUBSET Fields /\ abandoned \in SUBSET Fields

(* A field can be given a rank above those of all its dependencies: there  *)
(* is no cycle.                                                            *)
Ranked(b, r) ==
    /\ b \in Nat /\ r \in [Fields -> 0..b]
    /\ \A f \in Fields : \A g \in dependents[f] : r[f] < r[g]

GraphInv ==
    /\ \A f, g \in Fields : g \in deps[f] <=> f \in dependents[g]
    /\ \E b, r : Ranked(b, r)
    /\ \A f \in Fields : deps[f] \cup dependents[f] # {} => Made(f)
    /\ \A f \in late : deps[f] = {} /\ Made(f)

(* Verdicts: one that is behind is the last one, and to be replaced or     *)
(* abandoned.                                                              *)
VerdictInv == \A f \in Fields :
    behind[f] # {} => f \in judged /\ f \in scheduled \cup abandoned

TreeInv == TreeTypeOK /\ GraphInv /\ TreesAreApart /\ VerdictInv

(* A rank is above those below it: nothing is downstream of itself.        *)
LEMMA NothingIsBelowItself ==
    ASSUME EdgesType, NEW b, NEW r, Ranked(b, r), NEW f \in Fields
    PROVE  \A g \in Downstream(f) : r[f] < r[g]
<1> DEFINE X == {g \in Fields : r[f] < r[g]}
<1>1. X \in SUBSET Fields /\ dependents[f] \subseteq X
  BY DEF EdgesType, Ranked
<1>2. ASSUME NEW g \in X PROVE dependents[g] \subseteq X
  <2>1. ASSUME NEW h \in dependents[g] PROVE h \in X
    <3>1. h \in Fields /\ r[g] < r[h] /\ r[f] < r[g]
      BY DEF EdgesType, Ranked
    <3>2. r[f] \in Int /\ r[g] \in Int /\ r[h] \in Int
      BY <3>1 DEF Ranked
    <3> QED BY <3>1, <3>2
  <2> QED BY <2>1
<1>3. Downstream(f) \subseteq X
  <2> HIDE DEF X
  <2> QED BY <1>1, <1>2, DownstreamClosed
<1> QED BY <1>3

(* The edges of a field that has none yet, to fields that are not below    *)
(* it: it and all that is below it are ranked anew, above everything.      *)
LEMMA LinkedInv ==
    ASSUME TreeTypeOK, GraphInv, NEW f \in Fields, NEW D \in SUBSET Fields,
           MayDepend(f, D), deps[f] = {}, Linked(f, D)
    PROVE  /\ EdgesType'
           /\ \A x, y \in Fields : y \in deps'[x] <=> x \in dependents'[y]
           /\ \E b, r : Ranked(b, r)'
           /\ \A x \in Fields : deps'[x] = IF x = f THEN D ELSE deps[x]
           /\ \A x \in Fields : deps'[x] \cup dependents'[x] # {}
                => deps[x] \cup dependents[x] # {} \/ x = f \/ x \in D
<1>1. \A x \in Fields : deps'[x] = IF x = f THEN D ELSE deps[x]
  BY DEF Linked, TreeTypeOK, EdgesType
<1>2. \A x \in Fields : dependents'[x] = IF x \in D THEN dependents[x] \cup {f} ELSE dependents[x]
  BY DEF Linked
<1>3. EdgesType'
  BY DEF Linked, TreeTypeOK, EdgesType
<1>4. \A x \in Fields : f \notin dependents[x]
  BY DEF GraphInv, TreeTypeOK, EdgesType
<1>5. \A x, y \in Fields : y \in deps'[x] <=> x \in dependents'[y]
  <2>1. \A x, y \in Fields : y \in deps[x] <=> x \in dependents[y]
    BY DEF GraphInv
  <2> SUFFICES ASSUME NEW x \in Fields, NEW y \in Fields
               PROVE  y \in deps'[x] <=> x \in dependents'[y]
    OBVIOUS
  <2>2. CASE x = f
    <3>1. deps'[x] = D /\ x \notin dependents[y]
      BY <1>1, <1>4, <2>2
    <3>2. CASE y \in D
      BY <1>2, <2>2, <3>1, <3>2
    <3>3. CASE y \notin D
      BY <1>2, <3>1, <3>3
    <3> QED BY <3>2, <3>3
  <2>3. CASE x # f
    <3>1. deps'[x] = deps[x]
      BY <1>1, <2>3
    <3>2. x \in dependents'[y] <=> x \in dependents[y]
      BY <1>2, <2>3
    <3> QED BY <2>1, <3>1, <3>2
  <2> QED BY <2>2, <2>3
<1>6. PICK b, r : Ranked(b, r)
  BY DEF GraphInv
<1> DEFINE up == {f} \cup Downstream(f)
<1>7. \A x \in up \cap Fields : dependents[x] \subseteq up
  BY DownstreamClosed DEF TreeTypeOK
<1>8. D \cap up = {}
  BY DEF MayDepend
<1>9. \A x \in Fields : r[x] \in 0..b /\ b \in Nat
  BY <1>6 DEF Ranked
<1>10. \A x \in Fields : \A y \in dependents[x] : r[x] < r[y] /\ y \in Fields
  BY <1>6 DEF Ranked, TreeTypeOK, EdgesType
<1>11. PICK s : s = [x \in Fields |-> IF x \in up THEN r[x] + b + 1 ELSE r[x]]
  OBVIOUS
<1>12. s \in [Fields -> 0..(2 * b + 1)]
  BY <1>9, <1>11
<1>13. f \in up
  OBVIOUS
<1> HIDE DEF up
<1>14. ASSUME NEW x \in Fields, NEW y, y \in dependents'[x] PROVE s[x] < s[y]
  <2>1. CASE y \in dependents[x]
    <3>1. r[x] < r[y] /\ y \in Fields /\ (x \in up => y \in up)
      BY <1>7, <1>10, <2>1
    <3> QED BY <1>9, <1>11, <3>1
  <2>2. CASE x \in D /\ y = f
    <3>1. x \notin up /\ y \in up
      BY <1>8, <1>13, <2>2
    <3> QED BY <1>9, <1>11, <2>2, <3>1
  <2> QED BY <1>2, <1>14, <2>1, <2>2
<1>15. Ranked(2 * b + 1, s)'
  <2>1. 2 * b + 1 \in Nat
    BY <1>6 DEF Ranked
  <2>2. \A x \in Fields : \A y \in dependents'[x] : s[x] < s[y]
    BY <1>14
  <2> QED BY <1>12, <2>1, <2>2, Zenon DEF Ranked
<1> QED BY <1>1, <1>2, <1>3, <1>5, <1>15

(* Disposal takes edges away, on both sides.                               *)
LEMMA DetachedInv ==
    ASSUME TreeTypeOK, GraphInv, NEW S \in SUBSET Fields, DetachAll(S)
    PROVE  /\ EdgesType'
           /\ \A x, y \in Fields : y \in deps'[x] <=> x \in dependents'[y]
           /\ \E b, r : Ranked(b, r)'
           /\ \A x \in Fields : deps'[x] \subseteq deps[x] /\ dependents'[x] \subseteq dependents[x]
           /\ \A x \in S : deps'[x] = {} /\ dependents'[x] = {}
<1>1. /\ \A x \in Fields : deps'[x] = IF x \in S THEN {} ELSE deps[x] \ S
      /\ \A x \in Fields : dependents'[x] = IF x \in S THEN {} ELSE dependents[x] \ S
  BY DEF DetachAll
<1>2. EdgesType'
  BY DEF DetachAll, TreeTypeOK, EdgesType
<1>3. \A x, y \in Fields : y \in deps'[x] <=> x \in dependents'[y]
  <2>1. \A x, y \in Fields : y \in deps[x] <=> x \in dependents[y]
    BY DEF GraphInv
  <2> SUFFICES ASSUME NEW x \in Fields, NEW y \in Fields
               PROVE  y \in deps'[x] <=> x \in dependents'[y]
    OBVIOUS
  <2>2. y \in deps'[x] <=> x \notin S /\ y \notin S /\ y \in deps[x]
    BY <1>1
  <2>3. x \in dependents'[y] <=> x \notin S /\ y \notin S /\ x \in dependents[y]
    BY <1>1
  <2> QED BY <2>1, <2>2, <2>3
<1>4. PICK b, r : Ranked(b, r)
  BY DEF GraphInv
<1>5. Ranked(b, r)'
  BY <1>1, <1>4 DEF Ranked
<1> QED BY <1>1, <1>2, <1>3, <1>5

-----------------------------------------------------------------------------
(* The steps.                                                              *)
LEMMA TreeInitInv == TreeInit => TreeInv
<1> SUFFICES ASSUME TreeInit PROVE TreeInv
  OBVIOUS
<1>1. TreeTypeOK
  BY FieldsAssumption DEF TreeInit, TreeTypeOK, EdgesType
<1>2. GraphInv
  <2>1. Ranked(0, [f \in Fields |-> 0])
    BY DEF TreeInit, Ranked
  <2> QED BY <2>1 DEF TreeInit, GraphInv
<1>3. TreesAreApart /\ VerdictInv
  BY FieldsAssumption DEF TreeInit, TreesAreApart, AdoptedBy, VerdictInv
<1> QED BY <1>1, <1>2, <1>3 DEF TreeInv

LEMMA CreateInv ==
    ASSUME TreeInv, NEW f \in Fields, NEW D \in SUBSET Fields, Create(f, D)
    PROVE  TreeInv'
<1>1. /\ TreeTypeOK /\ GraphInv /\ TreesAreApart /\ VerdictInv
      /\ MayDepend(f, D) /\ Linked(f, D)
      /\ ownership[f] = "unmade" /\ ownership' = [ownership EXCEPT ![f] = "standalone"]
      /\ UNCHANGED <<treeRoot, form, lately, judged, behind, scheduled, abandoned>>
      /\ late' \in IF D = {} THEN {late, late \cup {f}} ELSE {late}
  BY DEF TreeInv, Create, trees, verdicts
<1>2. deps[f] = {} /\ dependents[f] = {} /\ treeRoot[f] = NoForm
  BY <1>1 DEF GraphInv, Made, TreesAreApart
<1>3. /\ EdgesType'
      /\ \A x, y \in Fields : y \in deps'[x] <=> x \in dependents'[y]
      /\ \E b, r : Ranked(b, r)'
      /\ \A x \in Fields : deps'[x] = IF x = f THEN D ELSE deps[x]
      /\ \A x \in Fields : deps'[x] \cup dependents'[x] # {}
           => deps[x] \cup dependents[x] # {} \/ x = f \/ x \in D
  BY <1>1, <1>2, LinkedInv
<1>4. TreeTypeOK'
  BY <1>1, <1>3 DEF TreeTypeOK
<1>5. \A x \in Fields : ownership'[x] = IF x = f THEN "standalone" ELSE ownership[x]
  BY <1>1 DEF TreeTypeOK
<1>6. GraphInv'
  <2>1. \A x \in Fields : deps'[x] \cup dependents'[x] # {} => Made(x)'
    BY <1>1, <1>3, <1>5 DEF GraphInv, Made, MayDepend
  <2>2. \A x \in late' : deps'[x] = {} /\ Made(x)'
    BY <1>1, <1>3, <1>5 DEF GraphInv, TreeTypeOK, Made
  <2> QED BY <1>3, <2>1, <2>2 DEF GraphInv
<1>7. TreesAreApart'
  BY <1>1, <1>2, <1>3, <1>5 DEF TreesAreApart, AdoptedBy
<1>8. VerdictInv'
  BY <1>1 DEF VerdictInv
<1> QED BY <1>4, <1>6, <1>7, <1>8 DEF TreeInv

(* The graph and the trees do not see a verdict.                           *)
LEMMA VerdictsOnly ==
    ASSUME TreeInv, UNCHANGED <<trees, graph>>, VerdictInv',
           judged' \in SUBSET Fields, behind' \in [Fields -> SUBSET Fields],
           scheduled' \in SUBSET Fields, abandoned' \in SUBSET Fields
    PROVE  TreeInv'
<1>1. UNCHANGED <<ownership, treeRoot, form, deps, dependents, late, lately>>
  BY DEF trees, graph
<1>2. TreeTypeOK'
  BY <1>1 DEF TreeInv, TreeTypeOK, EdgesType
<1>3. GraphInv'
  BY <1>1 DEF TreeInv, GraphInv, Ranked, Made
<1>4. TreesAreApart'
  BY <1>1 DEF TreeInv, TreesAreApart, AdoptedBy
<1> QED BY <1>2, <1>3, <1>4 DEF TreeInv

LEMMA JudgedInv ==
    ASSUME TreeTypeOK, VerdictInv, NEW S \in SUBSET Fields, Judged(S)
    PROVE  /\ VerdictInv' /\ judged' \in SUBSET Fields
           /\ behind' \in [Fields -> SUBSET Fields]
           /\ scheduled' \in SUBSET Fields /\ abandoned' \in SUBSET Fields
BY DEF TreeTypeOK, VerdictInv, Judged

LEMMA ResolveInv ==
    ASSUME TreeInv, NEW f \in Fields, NEW D \in SUBSET Fields, Resolve(f, D)
    PROVE  TreeInv'
<1>1. /\ TreeTypeOK /\ GraphInv /\ TreesAreApart /\ VerdictInv
      /\ MayDepend(f, D) /\ Linked(f, D) /\ Judged({f})
      /\ UNCHANGED <<ownership, treeRoot, form>> /\ Made(f)
      /\ f \in late /\ late' = late \ {f}
      /\ lately' = IF D = {} THEN lately ELSE lately \cup {f}
  BY DEF TreeInv, Resolve, trees
<1>2. deps[f] = {}
  BY <1>1 DEF GraphInv
<1>3. /\ EdgesType'
      /\ \A x, y \in Fields : y \in deps'[x] <=> x \in dependents'[y]
      /\ \E b, r : Ranked(b, r)'
      /\ \A x \in Fields : deps'[x] = IF x = f THEN D ELSE deps[x]
      /\ \A x \in Fields : deps'[x] \cup dependents'[x] # {}
           => deps[x] \cup dependents[x] # {} \/ x = f \/ x \in D
  BY <1>1, <1>2, LinkedInv
<1>4. /\ VerdictInv' /\ judged' \in SUBSET Fields
      /\ behind' \in [Fields -> SUBSET Fields]
      /\ scheduled' \in SUBSET Fields /\ abandoned' \in SUBSET Fields
  BY <1>1, JudgedInv
<1>5. TreeTypeOK'
  BY <1>1, <1>3, <1>4 DEF TreeTypeOK
<1>6. GraphInv'
  <2>1. \A x \in Fields : deps'[x] \cup dependents'[x] # {} => Made(x)'
    BY <1>1, <1>3 DEF GraphInv, Made, MayDepend
  <2>2. \A x \in late' : deps'[x] = {} /\ Made(x)'
    BY <1>1, <1>3 DEF GraphInv, TreeTypeOK, Made
  <2> QED BY <1>3, <2>1, <2>2 DEF GraphInv
<1>7. TreesAreApart'
  BY <1>1, <1>2, <1>3 DEF TreesAreApart, AdoptedBy
<1> QED BY <1>4, <1>5, <1>6, <1>7 DEF TreeInv

(* Adoption: what is adopted is next to no other tree.                     *)
LEMMA OwnedInv ==
    ASSUME TreeInv, NEW m \in Forms, NEW S \in SUBSET Fields, Owned(S, m),
           \A f \in S : ownership[f] = "standalone" /\ ~Foreign(f, m),
           UNCHANGED <<graph, verdicts>>,
           form' \in [Forms -> {"unmade", "live", "disposed", "threw"}],
           \A n \in Forms : form'[n] = IF n = m THEN form'[m] ELSE form[n],
           form'[m] \in {"live", "threw"}
    PROVE  TreeInv'
<1>1. /\ UNCHANGED <<deps, dependents, late, lately, judged, behind, scheduled, abandoned>>
      /\ TreeTypeOK /\ GraphInv /\ TreesAreApart /\ VerdictInv
  BY DEF TreeInv, graph, verdicts
<1>2. /\ \A x \in Fields : ownership'[x] = IF x \in S THEN "tree" ELSE ownership[x]
      /\ \A x \in Fields : treeRoot'[x] = IF x \in S THEN m ELSE treeRoot[x]
  BY DEF Owned
<1>3. TreeTypeOK'
  BY <1>1 DEF TreeTypeOK, EdgesType, Owned
<1>4. GraphInv'
  <2>1. \A x \in Fields : Made(x) => Made(x)'
    BY <1>2 DEF Made
  <2> QED BY <1>1, <2>1 DEF GraphInv, Ranked, TreeTypeOK
<1>5. TreesAreApart'
  <2>1. ASSUME NEW f \in Fields, f \notin lately, treeRoot'[f] # NoForm, NEW d, d \in deps[f]
        PROVE  treeRoot'[d] \in {NoForm, treeRoot'[f]}
    <3>1. d \in Fields /\ f \in dependents[d]
      BY <1>1, <2>1 DEF TreeTypeOK, EdgesType, GraphInv
    <3>2. CASE f \in S
      BY <1>2, <2>1, <3>1, <3>2 DEF Foreign
    <3>3. CASE f \notin S /\ d \in S
      BY <1>2, <2>1, <3>1, <3>3 DEF Foreign
    <3>4. CASE f \notin S /\ d \notin S
      BY <1>1, <1>2, <2>1, <3>1, <3>4 DEF TreesAreApart
    <3> QED BY <3>2, <3>3, <3>4
  <2>2. \A f \in Fields : ownership'[f] = "tree" <=> treeRoot'[f] # NoForm
    BY <1>1, <1>2, FieldsAssumption DEF TreesAreApart
  <2>3. \A n \in Forms : form'[n] \in {"unmade", "disposed"} => AdoptedBy(n)' = {}
    BY <1>1, <1>2 DEF TreesAreApart, AdoptedBy
  <2> QED BY <1>1, <2>1, <2>2, <2>3 DEF TreesAreApart
<1>6. VerdictInv'
  BY <1>1 DEF VerdictInv
<1> QED BY <1>3, <1>4, <1>5, <1>6 DEF TreeInv

LEMMA RegisterInv ==
    ASSUME TreeInv, NEW m \in Forms, NEW f \in Fields, Register(m, f)
    PROVE  TreeInv'
BY OwnedInv DEF Register, TreeInv, TreeTypeOK

LEMMA CreateFormInv ==
    ASSUME TreeInv, NEW m \in Forms, NEW s, DOMAIN s \subseteq Nat, \A i \in DOMAIN s : s[i] \in Fields,
           CreateForm(m, s)
    PROVE  TreeInv'
<1> DEFINE refused == {i \in DOMAIN s : Foreign(s[i], m)}
           adopted == {s[i] : i \in {j \in DOMAIN s : \A r \in refused : j < r}}
<1>1. /\ \A i \in DOMAIN s : ownership[s[i]] = "standalone"
      /\ Owned(adopted, m) /\ UNCHANGED <<graph, verdicts>>
      /\ form' = [form EXCEPT ![m] = IF refused = {} THEN "live" ELSE "threw"]
  BY DEF CreateForm
<1>2. adopted \in SUBSET Fields
  OBVIOUS
<1>3. ASSUME NEW f \in adopted PROVE ownership[f] = "standalone" /\ ~Foreign(f, m)
  <2>1. PICK i \in DOMAIN s : f = s[i] /\ \A r \in refused : i < r
    BY <1>3
  <2>2. ownership[f] = "standalone"
    BY <1>1, <2>1
  <2>3. ASSUME Foreign(f, m) PROVE FALSE
    <3>1. i \in refused /\ i < i
      BY <2>1, <2>3
    <3> QED BY <3>1
  <2> QED BY <2>2, <2>3
<1>4. form \in [Forms -> {"unmade", "live", "disposed", "threw"}]
  BY DEF TreeInv, TreeTypeOK
<1> HIDE DEF adopted, refused
<1>5. /\ form' \in [Forms -> {"unmade", "live", "disposed", "threw"}]
      /\ \A n \in Forms : form'[n] = IF n = m THEN form'[m] ELSE form[n]
      /\ form'[m] \in {"live", "threw"}
  BY <1>1, <1>4
<1> QED BY <1>1, <1>2, <1>3, <1>5, OwnedInv

LEMMA DisposedInv ==
    ASSUME TreeInv, NEW S \in SUBSET Fields, Disposed(S),
           \A f \in S : Made(f),
           form' \in [Forms -> {"unmade", "live", "disposed", "threw"}],
           \A n \in Forms : form'[n] # form[n] => AdoptedBy(n) \subseteq S
    PROVE  TreeInv'
<1> DEFINE cancelled == (UNION {dependents[f] : f \in S}) \cap scheduled
<1>1. /\ TreeTypeOK /\ GraphInv /\ TreesAreApart /\ VerdictInv /\ DetachAll(S)
      /\ late' = late \ S /\ lately' = lately \ S /\ judged' = judged \ S
      /\ ownership' = [f \in Fields |-> IF f \in S THEN "disposed" ELSE ownership[f]]
      /\ treeRoot' = [f \in Fields |-> IF f \in S THEN NoForm ELSE treeRoot[f]]
      /\ behind' = [f \in Fields |-> IF f \in S THEN {} ELSE behind[f] \ S]
      /\ scheduled' = scheduled \ (S \cup cancelled)
      /\ abandoned' = (abandoned \cup (cancelled \cap judged)) \ S
  BY DEF TreeInv, Disposed
<1>2. cancelled \subseteq scheduled
  OBVIOUS
<1> HIDE DEF cancelled
<1>3. /\ EdgesType'
      /\ \A x, y \in Fields : y \in deps'[x] <=> x \in dependents'[y]
      /\ \E b, r : Ranked(b, r)'
      /\ \A x \in Fields : deps'[x] \subseteq deps[x] /\ dependents'[x] \subseteq dependents[x]
      /\ \A x \in S : deps'[x] = {} /\ dependents'[x] = {}
  BY <1>1, DetachedInv
<1>4. TreeTypeOK'
  BY <1>1, <1>2, <1>3 DEF TreeTypeOK
<1>5. \A x \in Fields \ S : ownership'[x] = ownership[x] /\ treeRoot'[x] = treeRoot[x]
  BY <1>1
<1>6. \A x \in S : ownership'[x] = "disposed" /\ treeRoot'[x] = NoForm
  BY <1>1
<1>7. GraphInv'
  <2>1. \A x \in Fields : deps'[x] \cup dependents'[x] # {} => Made(x)'
    BY <1>1, <1>3, <1>5 DEF GraphInv, Made
  <2>2. \A x \in late' : deps'[x] = {} /\ Made(x)'
    BY <1>1, <1>3, <1>5 DEF GraphInv, TreeTypeOK, Made
  <2> QED BY <1>3, <2>1, <2>2 DEF GraphInv
<1>8. TreesAreApart'
  <2>1. ASSUME NEW f \in Fields, f \notin lately', treeRoot'[f] # NoForm, NEW d, d \in deps'[f]
        PROVE  treeRoot'[d] \in {NoForm, treeRoot'[f]}
    <3>1. f \notin S /\ d \in deps[f] /\ f \notin lately /\ d \in Fields
      BY <1>1, <1>3, <1>6, <2>1 DEF TreeTypeOK, EdgesType
    <3> QED BY <1>1, <1>5, <1>6, <2>1, <3>1 DEF TreesAreApart
  <2>2. \A f \in Fields : ownership'[f] = "tree" <=> treeRoot'[f] # NoForm
    BY <1>1, <1>5, <1>6 DEF TreesAreApart
  <2>3. ASSUME NEW n \in Forms, form'[n] \in {"unmade", "disposed"} PROVE AdoptedBy(n)' = {}
    <3>1. AdoptedBy(n) \subseteq S
      BY <1>1, <2>3 DEF TreesAreApart
    <3>2. n # NoForm
      BY FieldsAssumption
    <3> QED BY <1>5, <1>6, <3>1, <3>2 DEF AdoptedBy
  <2> QED BY <2>1, <2>2, <2>3 DEF TreesAreApart
<1>9. VerdictInv'
  BY <1>1, <1>2 DEF VerdictInv, TreeTypeOK
<1> QED BY <1>4, <1>7, <1>8, <1>9 DEF TreeInv

LEMMA DisposalsInv ==
    ASSUME TreeInv,
           \/ \E f \in Fields : DisposeField(f) \/ \E m \in Forms : Unregister(m, f)
           \/ \E m \in Forms : DisposeForm(m)
    PROVE  TreeInv'
<1>1. TreeTypeOK /\ TreesAreApart
  BY DEF TreeInv
<1>2. CASE \E f \in Fields : DisposeField(f) \/ \E m \in Forms : Unregister(m, f)
  <2>1. PICK f \in Fields : DisposeField(f) \/ \E m \in Forms : Unregister(m, f)
    BY <1>2
  <2>2. Disposed({f}) /\ UNCHANGED form /\ Made(f)
    BY <1>1, <2>1, FieldsAssumption DEF DisposeField, Unregister, Made, TreesAreApart
  <2> QED BY <1>1, <2>2, DisposedInv DEF TreeTypeOK
<1>3. CASE \E m \in Forms : DisposeForm(m)
  <2>1. PICK m \in Forms : DisposeForm(m)
    BY <1>3
  <2>2. \A f \in AdoptedBy(m) : f \in Fields /\ Made(f)
    BY <1>1, FieldsAssumption DEF AdoptedBy, TreesAreApart, Made
  <2>3. /\ form' \in [Forms -> {"unmade", "live", "disposed", "threw"}]
        /\ \A n \in Forms : form'[n] # form[n] => n = m
    BY <1>1, <2>1 DEF DisposeForm, TreeTypeOK
  <2> QED BY <2>1, <2>2, <2>3, DisposedInv DEF DisposeForm
<1> QED BY <1>2, <1>3

(* Edit: what the change left behind is in the wave, for it is downstream, *)
(* has a verdict and is not late.                                          *)
LEMMA EditInv ==
    ASSUME TreeInv, NEW f \in Fields, NEW changed \in BOOLEAN, NEW keeps \in BOOLEAN,
           Edit(f, changed, keeps)
    PROVE  TreeInv'
<1> DEFINE run == Wave(f) \cup (IF f \in OnChange \ late THEN {f} ELSE {})
           now == run \ Debounced
           O == Outdated(IF changed THEN {f} ELSE {})
<1>1. /\ TreeTypeOK /\ GraphInv /\ VerdictInv /\ EdgesType
      /\ UNCHANGED <<trees, graph>>
      /\ judged' = (IF keeps THEN judged ELSE judged \ {f}) \cup now
      /\ behind' = [g \in Fields |-> IF g \notin judged' \/ g \in now THEN {} ELSE O[g]]
      /\ scheduled' = (scheduled \ ({f} \cup now)) \cup (run \cap Debounced)
      /\ abandoned' = ((abandoned \cup ({f} \cap scheduled)) \ run) \cap judged'
  BY DEF TreeInv, Edit, TreeTypeOK
<1>2. run \in SUBSET Fields /\ now \subseteq run /\ run \ now \subseteq Debounced
  BY <1>1, DownstreamClosed DEF Wave
<1>3. \A g \in Fields : O[g] # {} => g \in judged /\ (behind[g] # {} \/ f \in deps[g])
  BY DEF Outdated
<1>4. \A g \in Fields : g \in judged /\ f \in deps[g] => g \in run
  <2>1. ASSUME NEW g \in Fields, g \in judged, f \in deps[g] PROVE g \in run
    <3>1. g \in dependents[f] /\ g \notin late
      BY <1>1, <2>1 DEF GraphInv
    <3>2. g \in Downstream(f)
      BY <1>1, <3>1, DownstreamClosed
    <3> QED BY <2>1, <3>1, <3>2 DEF Wave
  <2> QED BY <2>1
<1>5. O \in [Fields -> SUBSET Fields]
  BY <1>1 DEF Outdated, TreeTypeOK, EdgesType
<1> HIDE DEF run, now, O
<1>6. /\ judged' \in SUBSET Fields /\ behind' \in [Fields -> SUBSET Fields]
      /\ scheduled' \in SUBSET Fields /\ abandoned' \in SUBSET Fields
  BY <1>1, <1>2, <1>5 DEF TreeTypeOK
<1>7. VerdictInv'
  <2>1. ASSUME NEW g \in Fields, behind'[g] # {}
        PROVE  g \in judged' /\ g \in scheduled' \cup abandoned'
    <3>1. g \in judged' /\ g \notin now /\ O[g] # {}
      BY <1>1, <2>1
    <3>2. CASE g \in run
      BY <1>1, <1>2, <3>1, <3>2
    <3>3. CASE g \notin run
      <4>1. behind[g] # {}
        BY <1>3, <1>4, <3>1, <3>3
      <4>2. g \in scheduled \cup abandoned
        BY <1>1, <4>1 DEF VerdictInv
      <4> QED BY <1>1, <1>2, <3>1, <3>3, <4>2
    <3> QED BY <3>2, <3>3
  <2> QED BY <2>1 DEF VerdictInv
<1> QED BY <1>1, <1>6, <1>7, VerdictsOnly

LEMMA ResetInv ==
    ASSUME TreeInv, NEW S \in SUBSET Fields, ResetFields(S)
    PROVE  TreeInv'
<1>1. /\ TreeTypeOK /\ GraphInv /\ VerdictInv /\ EdgesType
      /\ UNCHANGED <<trees, graph>> /\ judged' = judged \ S
      /\ behind' = [g \in Fields |-> IF g \in S THEN {} ELSE Outdated(S)[g]]
      /\ scheduled' = scheduled \ S
      /\ abandoned' = (abandoned \cup (judged \cap UNION {dependents[f] : f \in S})) \ S
  BY DEF TreeInv, ResetFields, TreeTypeOK
<1>2. Outdated(S) \in [Fields -> SUBSET Fields]
  BY <1>1 DEF Outdated, TreeTypeOK, EdgesType
<1>3. \A g \in Fields : Outdated(S)[g] # {} => g \in judged /\ (behind[g] # {} \/ deps[g] \cap S # {})
  BY DEF Outdated
<1>4. /\ judged' \in SUBSET Fields /\ behind' \in [Fields -> SUBSET Fields]
      /\ scheduled' \in SUBSET Fields /\ abandoned' \in SUBSET Fields
  BY <1>1, <1>2 DEF TreeTypeOK
<1>5. VerdictInv'
  <2>1. ASSUME NEW g \in Fields, behind'[g] # {}
        PROVE  g \in judged' /\ g \in scheduled' \cup abandoned'
    <3>1. g \notin S /\ Outdated(S)[g] # {}
      BY <1>1, <2>1
    <3>2. CASE behind[g] # {}
      BY <1>1, <1>3, <3>1, <3>2 DEF VerdictInv
    <3>3. CASE deps[g] \cap S # {}
      <4>1. PICK d \in S : d \in deps[g]
        BY <3>3
      <4>2. g \in dependents[d]
        BY <1>1, <4>1 DEF GraphInv
      <4> QED BY <1>1, <1>3, <3>1, <4>2
    <3> QED BY <1>3, <3>1, <3>2, <3>3
  <2> QED BY <2>1 DEF VerdictInv
<1> QED BY <1>1, <1>4, <1>5, VerdictsOnly

LEMMA TreeNextInv == TreeInv /\ [TreeNext]_fvars => TreeInv'
<1> SUFFICES ASSUME TreeInv, [TreeNext]_fvars PROVE TreeInv'
  OBVIOUS
<1>1. ASSUME NEW f \in Fields, NEW D \in SUBSET Fields, Create(f, D) \/ Resolve(f, D) PROVE TreeInv'
  BY <1>1, CreateInv, ResolveInv
<1>2. ASSUME NEW f \in Fields, Validate(f) \/ DebounceTimer(f) PROVE TreeInv'
  <2>1. Judged({f}) /\ UNCHANGED <<trees, graph>>
    BY <1>2 DEF Validate, DebounceTimer
  <2> QED BY <2>1, JudgedInv, VerdictsOnly DEF TreeInv
<1>3. ASSUME NEW f \in Fields, NEW changed \in BOOLEAN, NEW keeps \in BOOLEAN,
             Edit(f, changed, keeps)
      PROVE  TreeInv'
  BY <1>3, EditInv
<1>4. ASSUME NEW f \in Fields, ResetFields({f}) PROVE TreeInv'
  BY <1>4, ResetInv
<1>5. ASSUME NEW f \in Fields, NEW m \in Forms, Register(m, f) PROVE TreeInv'
  BY <1>5, RegisterInv
<1>6. ASSUME NEW m \in Forms, NEW S \in SUBSET {f \in Fields : ownership[f] = "standalone"},
             NEW s \in SetToSeqs(S), CreateForm(m, s)
      PROVE  TreeInv'
  <2>1. DOMAIN s \subseteq Nat /\ \A i \in DOMAIN s : s[i] \in Fields
    <3>1. IsFiniteSet(S) /\ Cardinality(S) \in Nat
      BY FieldsAssumption, FS_Subset, FS_CardinalityType
    <3>2. s \in [1..Cardinality(S) -> S]
      BY DEF SetToSeqs
    <3> QED BY <3>1, <3>2
  <2> QED BY <1>6, <2>1, CreateFormInv
<1>7. ASSUME NEW m \in Forms, ResetFields(AdoptedBy(m)) PROVE TreeInv'
  BY <1>7, ResetInv DEF AdoptedBy
<1>8. ASSUME \/ \E f \in Fields : DisposeField(f) \/ \E m \in Forms : Unregister(m, f)
             \/ \E m \in Forms : DisposeForm(m)
      PROVE  TreeInv'
  BY <1>8, DisposalsInv
<1>9. CASE UNCHANGED fvars
  BY <1>9, VerdictsOnly DEF fvars, trees, graph, TreeInv, VerdictInv, TreeTypeOK
<1> QED BY <1>1, <1>2, <1>3, <1>4, <1>5, <1>6, <1>7, <1>8, <1>9 DEF TreeNext

LEMMA TreeInvariance == TreeSpec => []TreeInv
BY TreeInitInv, TreeNextInv, PTL DEF TreeSpec

-----------------------------------------------------------------------------
(* The waves.  A list of a set has each of its members once.               *)
Once(s) == \A i, j \in 1..Len(s) : s[i] = s[j] => i = j
Lists(s, S) == s \in Seq(S) /\ Once(s) /\ ToSet(s) = S

LEMMA ToSetOfSeq ==
    ASSUME NEW S, NEW s \in Seq(S)
    PROVE  /\ \A x : x \in ToSet(s) <=> \E i \in 1..Len(s) : s[i] = x
           /\ ToSet(s) \subseteq S /\ Len(s) \in Nat
BY LenProperties DEF ToSet

LEMMA SetToSeqLists ==
    ASSUME NEW S, IsFiniteSet(S)
    PROVE  Lists(SetToSeq(S), S)
<1> DEFINE n == Cardinality(S)
           s == SetToSeq(S)
<1>1. n \in Nat /\ ExistsBijection(1..n, S)
  BY FS_CardinalityType
<1>2. PICK b : b \in [1..n -> S] /\ IsInjective(b)
  BY <1>1 DEF ExistsBijection, Bijection, Injection
<1>3. s \in [1..n -> S] /\ IsInjective(s)
  BY <1>2 DEF SetToSeq
<1>4. s \in Injection(1..n, S)
  BY <1>3 DEF Injection
<1>5. Cardinality(1..n) = n
  BY <1>1, FS_Interval
<1> HIDE DEF n, s
<1>6. s \in Surjection(1..n, S)
  BY <1>4, <1>5, FS_Injection DEF n
<1>7. s \in Seq(S) /\ Len(s) = n
  BY <1>1, <1>3
<1>8. ToSet(s) = S
  <2>1. \A x \in S : \E i \in 1..n : s[i] = x
    BY <1>6 DEF Surjection
  <2>2. ToSet(s) \subseteq S /\ \A x : x \in ToSet(s) <=> \E i \in 1..n : s[i] = x
    BY <1>7, ToSetOfSeq
  <2> QED BY <2>1, <2>2
<1>9. Once(s)
  BY <1>3, <1>7 DEF Once, IsInjective
<1> QED BY <1>7, <1>8, <1>9 DEF Lists, s

LEMMA OnceCounts ==
    ASSUME NEW S, NEW s \in Seq(S), Once(s)
    PROVE  IsFiniteSet(ToSet(s)) /\ Cardinality(ToSet(s)) = Len(s)
<1>1. Len(s) \in Nat /\ s \in [1..Len(s) -> ToSet(s)]
  BY ToSetOfSeq, LenProperties
<1>2. s \in Surjection(1..Len(s), ToSet(s))
  BY <1>1, ToSetOfSeq DEF Surjection
<1>3. s \in Injection(1..Len(s), ToSet(s))
  BY <1>1 DEF Injection, IsInjective, Once
<1>4. IsFiniteSet(1..Len(s)) /\ Cardinality(1..Len(s)) = Len(s)
  BY <1>1, FS_Interval
<1> QED BY <1>2, <1>3, <1>4, FS_Surjection

(* What is left of a list without its first, and with another behind it.   *)
LEMMA OnceTail ==
    ASSUME NEW S, NEW s \in Seq(S), Once(s), s # <<>>
    PROVE  /\ Tail(s) \in Seq(S) /\ Once(Tail(s)) /\ Head(s) \in ToSet(s)
           /\ ToSet(Tail(s)) = ToSet(s) \ {Head(s)}
<1>1. /\ Tail(s) \in Seq(S) /\ Len(Tail(s)) = Len(s) - 1 /\ Head(s) = s[1]
      /\ \A i \in 1..Len(Tail(s)) : Tail(s)[i] = s[i + 1]
      /\ Len(s) \in Nat /\ Len(s) # 0
  BY HeadTailProperties, EmptySeq
<1>2. Once(Tail(s))
  BY <1>1 DEF Once
<1>3. Head(s) \in ToSet(s)
  BY <1>1, ToSetOfSeq
<1>4. ToSet(Tail(s)) = ToSet(s) \ {Head(s)}
  <2>1. ASSUME NEW x \in ToSet(Tail(s)) PROVE x \in ToSet(s) /\ x # Head(s)
    <3>1. PICK i \in 1..Len(Tail(s)) : Tail(s)[i] = x
      <4> DEFINE t == Tail(s)
      <4>1. t \in Seq(S) /\ x \in ToSet(t)
        BY <1>1
      <4> HIDE DEF t
      <4>2. \E i \in 1..Len(t) : t[i] = x
        BY <4>1, ToSetOfSeq
      <4> QED BY <4>2 DEF t
    <3>2. i + 1 \in 1..Len(s) /\ i + 1 # 1 /\ 1 \in 1..Len(s) /\ x = s[i + 1]
      BY <1>1, <3>1
    <3> QED BY <1>1, <3>2, ToSetOfSeq DEF Once
  <2>2. ASSUME NEW x \in ToSet(s), x # Head(s) PROVE x \in ToSet(Tail(s))
    <3>1. PICK i \in 1..Len(s) : x = s[i]
      BY ToSetOfSeq
    <3>2. i - 1 \in 1..Len(Tail(s)) /\ (i - 1) + 1 = i
      BY <1>1, <2>2, <3>1
    <3>3. \E k \in 1..Len(Tail(s)) : Tail(s)[k] = x
      BY <1>1, <3>1, <3>2
    <3> QED BY <1>1, <3>3, ToSetOfSeq
  <2> QED BY <2>1, <2>2
<1> QED BY <1>1, <1>2, <1>3, <1>4

LEMMA OnceConcat ==
    ASSUME NEW S, NEW s \in Seq(S), NEW t \in Seq(S), Once(s), Once(t),
           ToSet(s) \cap ToSet(t) = {}
    PROVE  s \o t \in Seq(S) /\ Once(s \o t) /\ ToSet(s \o t) = ToSet(s) \cup ToSet(t)
<1> DEFINE u == s \o t
<1>1. /\ u \in Seq(S) /\ Len(u) = Len(s) + Len(t) /\ Len(s) \in Nat /\ Len(t) \in Nat
      /\ \A i \in 1..Len(u) : u[i] = IF i <= Len(s) THEN s[i] ELSE t[i - Len(s)]
  BY ConcatProperties, LenProperties
<1> HIDE DEF u
<1>2. \A i \in 1..Len(u) : /\ i <= Len(s) => i \in 1..Len(s) /\ u[i] = s[i] /\ u[i] \in ToSet(s)
                           /\ ~(i <= Len(s)) => /\ i - Len(s) \in 1..Len(t) /\ u[i] = t[i - Len(s)]
                                                /\ u[i] \in ToSet(t)
  BY <1>1, ToSetOfSeq
<1>3. Once(u)
  <2> SUFFICES ASSUME NEW i \in 1..Len(u), NEW j \in 1..Len(u), u[i] = u[j] PROVE i = j
    BY DEF Once
  <2>1. (i <= Len(s)) <=> (j <= Len(s))
    BY <1>2
  <2>2. CASE i <= Len(s)
    BY <1>2, <2>1, <2>2 DEF Once
  <2>3. CASE ~(i <= Len(s))
    <3>1. i - Len(s) = j - Len(s)
      BY <1>2, <2>1, <2>3 DEF Once
    <3> QED BY <1>1, <3>1
  <2> QED BY <2>2, <2>3
<1>4. ToSet(u) = ToSet(s) \cup ToSet(t)
  <2>1. ToSet(u) \subseteq ToSet(s) \cup ToSet(t)
    BY <1>1, <1>2, ToSetOfSeq
  <2>2. ASSUME NEW x \in ToSet(s) PROVE x \in ToSet(u)
    <3>1. PICK i \in 1..Len(s) : x = s[i]
      BY ToSetOfSeq
    <3>2. i \in 1..Len(u) /\ u[i] = x
      BY <1>1, <3>1
    <3> QED BY <1>1, <3>2, ToSetOfSeq
  <2>3. ASSUME NEW x \in ToSet(t) PROVE x \in ToSet(u)
    <3>1. PICK i \in 1..Len(t) : x = t[i]
      BY ToSetOfSeq
    <3>2. i + Len(s) \in 1..Len(u) /\ ~(i + Len(s) <= Len(s)) /\ (i + Len(s)) - Len(s) = i
      BY <1>1
    <3>3. u[i + Len(s)] = x
      BY <1>1, <3>1, <3>2
    <3> QED BY <1>1, <3>2, <3>3, ToSetOfSeq
  <2> QED BY <2>1, <2>2, <2>3
<1> QED BY <1>1, <1>3, <1>4 DEF u

-----------------------------------------------------------------------------
(* Kahn's algorithm.                                                       *)
Kahns(below) == [order : Seq(below), ready : Seq(below), degree : [below -> Int]]

Awaits(g, below, done) == (deps[g] \cap below) \ done

(* After n steps: n fields are taken, each after those it depends on; the  *)
(* fields that wait for none but these are ready; and the degrees count    *)
(* what the others wait for.                                               *)
KahnInv(k, below, n) ==
    /\ k \in Kahns(below) /\ Len(k.order) = n /\ Once(k.order) /\ Once(k.ready)
    /\ ToSet(k.ready) = {g \in below \ ToSet(k.order) : Awaits(g, below, ToSet(k.order)) = {}}
    /\ \A g \in below : k.degree[g] = Cardinality(Awaits(g, below, ToSet(k.order)))
    /\ \A g \in ToSet(k.order) : Awaits(g, below, ToSet(k.order)) = {}
    /\ \A i, j \in 1..n : i <= j => k.order[j] \notin deps[k.order[i]]

LEMMA AwaitsCounts ==
    ASSUME NEW below, IsFiniteSet(below), NEW g, NEW done
    PROVE  /\ IsFiniteSet(Awaits(g, below, done)) /\ Cardinality(Awaits(g, below, done)) \in Nat
           /\ Cardinality(Awaits(g, below, done)) = 0 <=> Awaits(g, below, done) = {}
<1>1. Awaits(g, below, done) \in SUBSET below
  BY DEF Awaits
<1>2. IsFiniteSet(Awaits(g, below, done))
  BY <1>1, FS_Subset
<1> QED BY <1>2, FS_CardinalityType, FS_EmptySet

LEMMA KahnStarts ==
    ASSUME NEW below, IsFiniteSet(below)
    PROVE  KahnInv(KahnStart(below), below, 0)
<1> DEFINE degree == [g \in below |-> Cardinality(deps[g] \cap below)]
           Z == {g \in below : degree[g] = 0}
           k == KahnStart(below)
<1>1. \A g \in below : Awaits(g, below, {}) = deps[g] \cap below
  BY DEF Awaits
<1>2. /\ degree \in [below -> Int]
      /\ \A g \in below : degree[g] = Cardinality(Awaits(g, below, {}))
      /\ Z = {g \in below : Awaits(g, below, {}) = {}}
  <2>1. ASSUME NEW g \in below
        PROVE  /\ degree[g] = Cardinality(Awaits(g, below, {})) /\ degree[g] \in Int
               /\ degree[g] = 0 <=> Awaits(g, below, {}) = {}
    <3>1. degree[g] = Cardinality(Awaits(g, below, {}))
      BY <1>1
    <3>2. /\ Cardinality(Awaits(g, below, {})) \in Nat
          /\ Cardinality(Awaits(g, below, {})) = 0 <=> Awaits(g, below, {}) = {}
      BY AwaitsCounts
    <3> QED BY <3>1, <3>2
  <2>2. degree \in [below -> Int]
    BY <2>1
  <2> HIDE DEF degree
  <2> QED BY <2>1, <2>2
<1>3. IsFiniteSet(Z) /\ Lists(SetToSeq(Z), Z)
  <2>1. Z \in SUBSET below
    OBVIOUS
  <2> HIDE DEF Z
  <2>2. IsFiniteSet(Z)
    BY <2>1, FS_Subset
  <2> QED BY <2>2, SetToSeqLists
<1>4. k = [order |-> <<>>, ready |-> SetToSeq(Z), degree |-> degree]
  BY DEF KahnStart
<1>5. ToSet(<<>>) = {} /\ Len(<<>>) = 0 /\ Once(<<>>) /\ <<>> \in Seq(below)
  BY EmptySeq DEF ToSet, Once
<1>6. SetToSeq(Z) \in Seq(below)
  BY <1>3, SeqMonotonic DEF Lists
<1> HIDE DEF degree, Z, k
<1>7. k.order = <<>> /\ k.ready = SetToSeq(Z) /\ k.degree = degree /\ k \in Kahns(below)
  BY <1>2, <1>4, <1>5, <1>6 DEF Kahns
<1>8. Once(k.ready) /\ ToSet(k.ready) = {g \in below \ ToSet(k.order) : Awaits(g, below, ToSet(k.order)) = {}}
  BY <1>2, <1>3, <1>5, <1>7 DEF Lists
<1>9. \A g \in below : k.degree[g] = Cardinality(Awaits(g, below, ToSet(k.order)))
  BY <1>2, <1>5, <1>7
<1> QED BY <1>5, <1>7, <1>8, <1>9 DEF KahnInv, k

LEMMA KahnSteps ==
    ASSUME EdgesType, \A x, y \in Fields : y \in deps[x] <=> x \in dependents[y],
           NEW below \in SUBSET Fields, IsFiniteSet(below), NEW k, NEW n \in Nat,
           KahnInv(k, below, n), k.ready # <<>>
    PROVE  KahnInv(KahnStep(k), below, n + 1)
<1> DEFINE g == Head(k.ready)
           done == ToSet(k.order)
           degree == [h \in DOMAIN k.degree |-> k.degree[h] - (IF h \in dependents[g] THEN 1 ELSE 0)]
           Z == {h \in dependents[g] \cap DOMAIN degree : degree[h] = 0}
           m == KahnStep(k)
           order == Append(k.order, g)
           ready == Tail(k.ready) \o SetToSeq(Z)
<1>1. /\ k.order \in Seq(below) /\ k.ready \in Seq(below) /\ k.degree \in [below -> Int]
      /\ Once(k.order) /\ Once(k.ready) /\ Len(k.order) = n
      /\ ToSet(k.ready) = {h \in below \ done : Awaits(h, below, done) = {}}
      /\ \A h \in below : k.degree[h] = Cardinality(Awaits(h, below, done))
      /\ \A h \in done : Awaits(h, below, done) = {}
      /\ \A i, j \in 1..n : i <= j => k.order[j] \notin deps[k.order[i]]
  BY DEF KahnInv, Kahns
<1>2. /\ Tail(k.ready) \in Seq(below) /\ Once(Tail(k.ready)) /\ g \in ToSet(k.ready)
      /\ ToSet(Tail(k.ready)) = ToSet(k.ready) \ {g}
  BY <1>1, OnceTail
<1>3. g \in below /\ g \notin done /\ Awaits(g, below, done) = {} /\ g \in Fields
  BY <1>1, <1>2
<1>4. m = [order |-> order, ready |-> ready, degree |-> degree]
  BY DEF KahnStep
<1>5. /\ DOMAIN degree = below /\ degree \in [below -> Int]
      /\ \A h \in below : degree[h] = k.degree[h] - (IF h \in dependents[g] THEN 1 ELSE 0)
  BY <1>1
<1>6. Z \in SUBSET below /\ \A h : h \in Z <=> h \in below /\ h \in dependents[g] /\ degree[h] = 0
  BY <1>5
<1>7. IsFiniteSet(Z) /\ Lists(SetToSeq(Z), Z) /\ SetToSeq(Z) \in Seq(below)
  <2> HIDE DEF Z
  <2>1. IsFiniteSet(Z)
    BY <1>6, FS_Subset
  <2>2. Lists(SetToSeq(Z), Z)
    BY <2>1, SetToSeqLists
  <2> QED BY <1>6, <2>1, <2>2, SeqMonotonic DEF Lists
<1>8. \A h \in below : g \in deps[h] <=> h \in dependents[g]
  BY <1>3
<1>9. /\ order \in Seq(below) /\ Len(order) = n + 1
      /\ \A i \in 1..n : order[i] = k.order[i] /\ order[n + 1] = g
  BY <1>1, <1>3, AppendProperties
<1> HIDE DEF g, degree, Z, m, order, ready
<1>10. order[n + 1] = g
  BY <1>1, <1>3, AppendProperties DEF order
<1>11. \A i \in 1..n : k.order[i] \in done
  BY <1>1, ToSetOfSeq
<1>12. ToSet(order) = done \cup {g}
  <2>1. ASSUME NEW x \in ToSet(order) PROVE x \in done \cup {g}
    <3>1. PICK i \in 1..(n + 1) : order[i] = x
      BY <1>9, ToSetOfSeq
    <3>2. CASE i = n + 1
      BY <1>10, <3>1, <3>2
    <3>3. CASE i # n + 1
      BY <1>9, <1>11, <3>1, <3>3
    <3> QED BY <3>2, <3>3
  <2>2. ASSUME NEW x \in done PROVE x \in ToSet(order)
    <3>1. PICK i \in 1..n : k.order[i] = x
      BY <1>1, ToSetOfSeq
    <3>2. i \in 1..Len(order) /\ order[i] = x
      BY <1>9, <3>1
    <3> QED BY <1>9, <3>2, ToSetOfSeq
  <2>3. g \in ToSet(order)
    BY <1>9, <1>10, ToSetOfSeq
  <2> QED BY <2>1, <2>2, <2>3
<1>13. Once(order)
  <2> SUFFICES ASSUME NEW i \in 1..(n + 1), NEW j \in 1..(n + 1), order[i] = order[j] PROVE i = j
    BY <1>9 DEF Once
  <2>1. CASE i = n + 1 \/ j = n + 1
    BY <1>3, <1>9, <1>10, <1>11, <2>1
  <2>2. CASE i \in 1..n /\ j \in 1..n
    BY <1>1, <1>9, <2>2 DEF Once
  <2> QED BY <2>1, <2>2
<1>14. \A h \in below : /\ Awaits(h, below, done \cup {g}) = Awaits(h, below, done) \ {g}
                        /\ g \in Awaits(h, below, done) <=> h \in dependents[g]
  BY <1>3, <1>8 DEF Awaits
<1>15. \A h \in below : degree[h] = Cardinality(Awaits(h, below, done \cup {g}))
  <2> SUFFICES ASSUME NEW h \in below PROVE degree[h] = Cardinality(Awaits(h, below, done \cup {g}))
    OBVIOUS
  <2> DEFINE A == Awaits(h, below, done)
  <2>1. IsFiniteSet(A) /\ Cardinality(A) \in Nat
    BY AwaitsCounts
  <2>2. Awaits(h, below, done \cup {g}) = A \ {g} /\ (g \in A <=> h \in dependents[g])
    BY <1>14
  <2>3. k.degree[h] = Cardinality(A)
    BY <1>1
  <2> HIDE DEF A
  <2>4. Cardinality(A \ {g}) = IF g \in A THEN Cardinality(A) - 1 ELSE Cardinality(A)
    BY <2>1, FS_RemoveElement
  <2>5. degree[h] = k.degree[h] - (IF h \in dependents[g] THEN 1 ELSE 0)
    BY <1>5
  <2>6. CASE h \in dependents[g]
    <3>1. degree[h] = Cardinality(A) - 1 /\ Cardinality(A \ {g}) = Cardinality(A) - 1
      BY <2>2, <2>3, <2>4, <2>5, <2>6
    <3> QED BY <2>2, <3>1
  <2>7. CASE h \notin dependents[g]
    <3>1. degree[h] = Cardinality(A) - 0 /\ Cardinality(A \ {g}) = Cardinality(A)
      BY <2>2, <2>3, <2>4, <2>5, <2>7
    <3>2. Cardinality(A) - 0 = Cardinality(A)
      BY <2>1
    <3> QED BY <2>2, <3>1, <3>2
  <2> QED BY <2>6, <2>7
<1>16. \A h : h \in Z <=> h \in below /\ h \in dependents[g] /\ Awaits(h, below, done \cup {g}) = {}
  <2> SUFFICES ASSUME NEW h \in below
               PROVE  degree[h] = 0 <=> Awaits(h, below, done \cup {g}) = {}
    BY <1>6
  <2>1. degree[h] = Cardinality(Awaits(h, below, done \cup {g}))
    BY <1>15
  <2>2. Cardinality(Awaits(h, below, done \cup {g})) = 0 <=> Awaits(h, below, done \cup {g}) = {}
    BY AwaitsCounts
  <2> QED BY <2>1, <2>2
<1>17. ToSet(Tail(k.ready)) \cap Z = {}
  <2> SUFFICES ASSUME NEW h \in Z, h \in ToSet(k.ready) PROVE FALSE
    BY <1>2
  <2>1. Awaits(h, below, done) = {} /\ h \in below /\ h \in dependents[g]
    BY <1>1, <1>16
  <2> QED BY <1>14, <2>1
<1>18. ready \in Seq(below) /\ Once(ready) /\ ToSet(ready) = (ToSet(k.ready) \ {g}) \cup Z
  <2> DEFINE z == SetToSeq(Z)
             t == Tail(k.ready)
  <2>1. z \in Seq(below) /\ Once(z) /\ ToSet(z) = Z
    BY <1>7 DEF Lists
  <2>2. ready = t \o z
    BY DEF ready
  <2>3. /\ t \in Seq(below) /\ Once(t) /\ ToSet(t) = ToSet(k.ready) \ {g}
        /\ ToSet(t) \cap ToSet(z) = {}
    BY <1>2, <1>17, <2>1
  <2> HIDE DEF z, t
  <2>4. t \o z \in Seq(below) /\ Once(t \o z) /\ ToSet(t \o z) = ToSet(t) \cup ToSet(z)
    BY <2>1, <2>3, OnceConcat
  <2> QED BY <2>1, <2>2, <2>3, <2>4
<1>19. \A h \in done \cup {g} : Awaits(h, below, done \cup {g}) = {}
  BY <1>1, <1>3 DEF Awaits
<1>20. ToSet(ready) = {h \in below \ (done \cup {g}) : Awaits(h, below, done \cup {g}) = {}}
  <2>1. ASSUME NEW h \in ToSet(k.ready), h # g
        PROVE  h \in below \ (done \cup {g}) /\ Awaits(h, below, done \cup {g}) = {}
    <3>1. h \in below \ done /\ Awaits(h, below, done) = {}
      BY <1>1, <2>1
    <3> QED BY <1>14, <2>1, <3>1
  <2>2. ASSUME NEW h \in Z
        PROVE  h \in below \ (done \cup {g}) /\ Awaits(h, below, done \cup {g}) = {}
    <3>1. h \in below /\ g \in Awaits(h, below, done) /\ Awaits(h, below, done \cup {g}) = {}
      BY <1>14, <1>16, <2>2
    <3> QED BY <1>1, <1>3, <3>1
  <2>3. ASSUME NEW h \in below, h \notin done, h # g, Awaits(h, below, done \cup {g}) = {}
        PROVE  h \in (ToSet(k.ready) \ {g}) \cup Z
    <3>1. CASE h \in dependents[g]
      BY <1>16, <2>3, <3>1
    <3>2. CASE h \notin dependents[g]
      <4>1. Awaits(h, below, done) = {}
        BY <1>14, <2>3, <3>2
      <4> QED BY <1>1, <2>3, <4>1
    <3> QED BY <3>1, <3>2
  <2> QED BY <1>18, <2>1, <2>2, <2>3
<1>21. \A i, j \in 1..(n + 1) : i <= j => order[j] \notin deps[order[i]]
  <2> SUFFICES ASSUME NEW i \in 1..(n + 1), NEW j \in 1..(n + 1), i <= j
               PROVE  order[j] \notin deps[order[i]]
    OBVIOUS
  <2>1. CASE j \in 1..n
    <3>1. i \in 1..n
      BY <2>1
    <3> QED BY <1>1, <1>9, <2>1, <3>1
  <2>2. CASE j = n + 1
    <3>1. CASE i = n + 1
      BY <1>3, <1>10, <2>2, <3>1 DEF Awaits
    <3>2. CASE i \in 1..n
      BY <1>1, <1>3, <1>9, <1>10, <1>11, <2>2, <3>2 DEF Awaits
    <3> QED BY <3>1, <3>2
  <2> QED BY <2>1, <2>2
<1>22. m.order = order /\ m.ready = ready /\ m.degree = degree /\ m \in Kahns(below)
  BY <1>4, <1>5, <1>9, <1>18 DEF Kahns
<1>23. n + 1 \in Nat
  OBVIOUS
<1>24. KahnInv(m, below, n + 1)
  <2>1. ToSet(m.order) = done \cup {g}
    BY <1>12, <1>22
  <2>2. /\ m \in Kahns(below) /\ Len(m.order) = n + 1 /\ Once(m.order) /\ Once(m.ready)
    BY <1>9, <1>13, <1>18, <1>22
  <2>3. ToSet(m.ready) = {h \in below \ ToSet(m.order) : Awaits(h, below, ToSet(m.order)) = {}}
    BY <1>20, <1>22, <2>1
  <2>4. \A h \in below : m.degree[h] = Cardinality(Awaits(h, below, ToSet(m.order)))
    BY <1>15, <1>22, <2>1
  <2>5. \A h \in ToSet(m.order) : Awaits(h, below, ToSet(m.order)) = {}
    BY <1>19, <2>1
  <2>6. \A i, j \in 1..(n + 1) : i <= j => m.order[j] \notin deps[m.order[i]]
    BY <1>21, <1>22
  <2> QED BY <2>2, <2>3, <2>4, <2>5, <2>6 DEF KahnInv
<1> QED BY <1>24 DEF m

(* As long as fields are missing one is ready: of those missing, one with  *)
(* the least rank.                                                         *)
LEMMA KahnProgress ==
    ASSUME EdgesType, \A x, y \in Fields : y \in deps[x] <=> x \in dependents[y],
           NEW b, NEW r, Ranked(b, r), NEW below \in SUBSET Fields, IsFiniteSet(below),
           NEW k, NEW n \in Nat, KahnInv(k, below, n), n < Cardinality(below)
    PROVE  k.ready # <<>>
<1> DEFINE done == ToSet(k.order)
           T == {r[g] : g \in below \ done}
<1>1. /\ k.order \in Seq(below) /\ Once(k.order) /\ Len(k.order) = n
      /\ ToSet(k.ready) = {g \in below \ done : Awaits(g, below, done) = {}}
  BY DEF KahnInv, Kahns
<1>2. done \subseteq below /\ Cardinality(done) = n
  BY <1>1, OnceCounts, ToSetOfSeq
<1>3. done # below
  BY <1>2
<1>4. r \in [Fields -> 0..b] /\ b \in Nat /\ \A x \in Fields : \A y \in dependents[x] : r[x] < r[y]
  BY DEF Ranked
<1>5. T \in SUBSET Nat /\ T # {}
  <2>1. \A g \in below : r[g] \in 0..b
    BY <1>4
  <2>2. \A g \in below : r[g] \in Nat
    BY <1>4, <2>1
  <2>3. below \ done # {}
    BY <1>2, <1>3
  <2> HIDE DEF done
  <2> QED BY <2>2, <2>3
<1>6. PICK t \in T : \A u \in T : t <= u
  <2> HIDE DEF T
  <2> QED BY <1>5, LeastNatural
<1>7. PICK g \in below \ done : t = r[g]
  BY <1>6
<1>8. Awaits(g, below, done) = {}
  <2> SUFFICES ASSUME NEW d \in Awaits(g, below, done) PROVE FALSE
    OBVIOUS
  <2>1. d \in deps[g] /\ d \in below \ done
    BY DEF Awaits
  <2>2. g \in dependents[d]
    BY <2>1
  <2>3. r[d] < r[g] /\ r[d] \in T
    BY <1>4, <2>1, <2>2
  <2>4. r[d] \in Int /\ r[g] \in Int
    BY <1>4, <2>1
  <2> HIDE DEF T
  <2> QED BY <1>6, <1>7, <2>3, <2>4
<1>9. g \in ToSet(k.ready)
  BY <1>1, <1>8
<1> QED BY <1>9 DEF ToSet

LEMMA WaveIsKahns ==
    ASSUME EdgesType, \A x, y \in Fields : y \in deps[x] <=> x \in dependents[y],
           NEW b, NEW r, Ranked(b, r), NEW f \in Fields
    PROVE  \E k : /\ KahnInv(k, Downstream(f), Cardinality(Downstream(f)))
                  /\ WaveOrder(f) = k.order
<1> DEFINE below == Downstream(f)
           N == Cardinality(below)
           T == {k \in Kahns(below) : \E n \in Nat : KahnInv(k, below, n)}
           step == [k \in T |-> IF k.ready = <<>> THEN k ELSE KahnStep(k)]
           start == KahnStart(below)
           S == CHOOSE Steps : Steps = [n \in 0..N |-> IF n = 0 THEN KahnStart(below)
                  ELSE LET k == Steps[n - 1] IN IF k.ready = <<>> THEN k ELSE KahnStep(k)]
<1>1. below \in SUBSET Fields /\ IsFiniteSet(below) /\ N \in Nat
  <2>1. below \in SUBSET Fields
    BY DownstreamClosed
  <2> HIDE DEF below
  <2> QED BY <2>1, FieldsAssumption, FS_Subset, FS_CardinalityType
<1>2. WaveOrder(f) = S[N].order
  BY DEF WaveOrder
<1> HIDE DEF below, N
<1>3. KahnInv(start, below, 0) /\ start \in T
  <2>1. KahnInv(start, below, 0)
    BY <1>1, KahnStarts
  <2> QED BY <2>1 DEF KahnInv
<1>4. ASSUME NEW k \in T, k.ready # <<>>, NEW n \in Nat, KahnInv(k, below, n)
      PROVE  KahnInv(KahnStep(k), below, n + 1) /\ KahnStep(k) \in T
  <2>1. KahnInv(KahnStep(k), below, n + 1) /\ n + 1 \in Nat
    BY <1>1, <1>4, KahnSteps
  <2> QED BY <2>1 DEF KahnInv
<1>5. step \in [T -> T]
  <2>1. ASSUME NEW k \in T PROVE (IF k.ready = <<>> THEN k ELSE KahnStep(k)) \in T
    <3>1. PICK n \in Nat : KahnInv(k, below, n)
      OBVIOUS
    <3> HIDE DEF T
    <3> QED BY <1>4, <3>1
  <2> HIDE DEF T
  <2> QED BY <2>1
<1>6. PICK s : Iterates(s, N, T, start, step)
  <2>1. start \in T /\ step \in [T -> T] /\ N \in Nat
    BY <1>1, <1>3, <1>5
  <2> HIDE DEF T, step, start
  <2> QED BY <2>1, Iteration
<1> HIDE DEF T
<1>7. \A n \in 1..N : n - 1 \in 0..N /\ s[n - 1] \in T
                      /\ s[n] = IF s[n - 1].ready = <<>> THEN s[n - 1] ELSE KahnStep(s[n - 1])
  <2> SUFFICES ASSUME NEW n \in 1..N
               PROVE  n - 1 \in 0..N /\ s[n - 1] \in T
                      /\ s[n] = IF s[n - 1].ready = <<>> THEN s[n - 1] ELSE KahnStep(s[n - 1])
    OBVIOUS
  <2>1. n - 1 \in 0..N
    BY <1>1
  <2>2. s[n - 1] \in T
    BY <1>6, <2>1 DEF Iterates
  <2> QED BY <1>6, <2>1, <2>2 DEF Iterates
<1> HIDE DEF step
<1>8. s = [n \in 0..N |-> IF n = 0 THEN KahnStart(below)
             ELSE LET k == s[n - 1] IN IF k.ready = <<>> THEN k ELSE KahnStep(k)]
  <2>1. \A n \in 0..N : n # 0 => n \in 1..N
    BY <1>1
  <2> QED BY <1>6, <1>7, <2>1 DEF Iterates
<1>9. S = [n \in 0..N |-> IF n = 0 THEN KahnStart(below)
             ELSE LET k == S[n - 1] IN IF k.ready = <<>> THEN k ELSE KahnStep(k)]
  BY <1>8
<1> HIDE DEF S
<1>10. S[0] = start
  BY <1>1, <1>9
<1>11. \A n \in 1..N : S[n] = IF S[n - 1].ready = <<>> THEN S[n - 1] ELSE KahnStep(S[n - 1])
  BY <1>1, <1>9
<1> DEFINE Fails == {n \in 0..N : ~ KahnInv(S[n], below, n)}
<1>12. KahnInv(S[N], below, N)
  <2> SUFFICES ASSUME Fails # {} PROVE FALSE
    BY <1>1
  <2>1. PICK n \in Fails : \A m \in Fails : n <= m
    BY LeastNatural, Fails \in SUBSET Nat
  <2>2. CASE n = 0
    BY <1>3, <1>10, <2>1, <2>2
  <2>3. CASE n # 0
    <3>1. n \in 1..N /\ n - 1 \in 0..N /\ n - 1 \in Nat /\ n - 1 < N /\ (n - 1) + 1 = n
      BY <1>1, <2>3
    <3>2. KahnInv(S[n - 1], below, n - 1)
      BY <2>1, <3>1
    <3>3. S[n - 1].ready # <<>>
      BY <1>1, <3>1, <3>2, KahnProgress DEF N
    <3>4. S[n] = KahnStep(S[n - 1])
      BY <1>11, <3>1, <3>3
    <3>5. KahnInv(KahnStep(S[n - 1]), below, (n - 1) + 1)
      BY <1>1, <3>1, <3>2, <3>3, KahnSteps
    <3> QED BY <2>1, <3>1, <3>4, <3>5
  <2> QED BY <2>2, <2>3
<1> QED BY <1>2, <1>12 DEF N, below

(* The order of a wave: everything below, once, and nothing before what it *)
(* depends on.                                                             *)
LEMMA WavesFollow ==
    ASSUME TreeTypeOK, GraphInv
    PROVE  WavesAreOrdered
<1>1. EdgesType /\ \A x, y \in Fields : y \in deps[x] <=> x \in dependents[y]
  BY DEF TreeTypeOK, GraphInv
<1>2. PICK b, r : Ranked(b, r)
  BY DEF GraphInv
<1>3. ASSUME NEW f \in Fields
      PROVE  LET w == WaveOrder(f)
             IN  /\ ToSet(w) = Downstream(f) /\ Len(w) = Cardinality(Downstream(f))
                 /\ \A i, j \in DOMAIN w : i < j => w[j] \notin deps[w[i]]
  <2> DEFINE below == Downstream(f)
             w == WaveOrder(f)
  <2>1. PICK k : KahnInv(k, below, Cardinality(below)) /\ w = k.order
    BY <1>1, <1>2, WaveIsKahns
  <2>2. IsFiniteSet(below) /\ Cardinality(below) \in Nat
    <3>1. below \in SUBSET Fields
      BY <1>1, DownstreamClosed
    <3> HIDE DEF below
    <3> QED BY <3>1, FieldsAssumption, FS_Subset, FS_CardinalityType
  <2> HIDE DEF below, w
  <2>3. /\ w \in Seq(below) /\ Once(w) /\ Len(w) = Cardinality(below)
        /\ \A i, j \in 1..Len(w) : i <= j => w[j] \notin deps[w[i]]
    BY <2>1 DEF KahnInv, Kahns
  <2>4. ToSet(w) \subseteq below /\ Cardinality(ToSet(w)) = Cardinality(below)
    BY <2>3, OnceCounts, ToSetOfSeq
  <2>5. ToSet(w) = below
    BY <2>2, <2>4, FS_Subset
  <2>6. DOMAIN w = 1..Len(w)
    BY <2>3, LenProperties
  <2>7. \A i, j \in DOMAIN w : i < j => w[j] \notin deps[w[i]]
    BY <2>3, <2>6
  <2> QED BY <2>3, <2>5, <2>7 DEF below, w
<1> QED BY <1>3 DEF WavesAreOrdered

-----------------------------------------------------------------------------
(* The dependency graph of a form has each edge on both sides, no cycle    *)
(* and nothing disposed; a wave has each field below the changed one once, *)
(* after those it depends on (Kahn's algorithm, validation/                *)
(* dependencies.ts); and the fields of two forms do not depend on each     *)
(* other, but for what a late dependencies function gave (internal.ts):    *)
(* for any fields, forms and dependencies.                                 *)
THEOREM TreesStaySound == TreeSpec => []TreesAreSound
<1>1. TreeInv => TreesAreSound
  <2> SUFFICES ASSUME TreeInv PROVE TreesAreSound
    OBVIOUS
  <2>1. TreeTypeOK /\ GraphInv /\ TreesAreApart /\ EdgesType
    BY DEF TreeInv, TreeTypeOK
  <2>2. PICK b, r : Ranked(b, r)
    BY <2>1 DEF GraphInv
  <2>3. ASSUME NEW f \in Fields PROVE f \notin Downstream(f)
    <3>1. f \in Downstream(f) => r[f] < r[f]
      BY <2>1, <2>2, NothingIsBelowItself
    <3>2. r[f] \in Int
      BY <2>2 DEF Ranked
    <3> QED BY <3>1, <3>2
  <2>4. GraphIsSound
    BY <2>1, <2>3 DEF GraphIsSound, GraphInv
  <2> QED BY <2>1, <2>4, WavesFollow DEF TreesAreSound
<1> QED BY <1>1, TreeInvariance, PTL

(* A verdict that is behind a dependency is going to be replaced, or the   *)
(* code has abandoned it: a reset, or a validation that was cancelled and  *)
(* had nothing to take its place (executeDependencyWave(), setValue() and  *)
(* detachAll()).                                                           *)
THEOREM VerdictsAreReplaced == TreeSpec => []VerdictsKnowDependencies
<1>1. TreeInv => VerdictsKnowDependencies
  BY DEF TreeInv, VerdictInv, VerdictsKnowDependencies
<1> QED BY <1>1, TreeInvariance, PTL

-----------------------------------------------------------------------------
(* The list of a scope (Scope).                                            *)
(* Scope: the links of a list, whatever state o (owner), t (tail), p (prev)*)
(* n (next) and d (detached) they are in.                                  *)
In(o, d, r) == o[r] # Null /\ r \notin d

LinkTypes(o, t, p, n, d) ==
    /\ o \in [Resources -> Scopes \cup {Null}] /\ t \in [Scopes -> Resources \cup {Null}]
    /\ p \in [Resources -> Resources \cup {Null}] /\ n \in [Resources -> Resources \cup {Null}]
    /\ d \subseteq Resources /\ \A r \in d : o[r] # Null

LinkOf(o, t, p, n, d, r) ==
    /\ ~In(o, d, r) => p[r] = Null /\ n[r] = Null
    /\ In(o, d, r) =>
        /\ p[r] # Null => In(o, d, p[r]) /\ o[p[r]] = o[r] /\ n[p[r]] = r
        /\ n[r] # Null => In(o, d, n[r]) /\ o[n[r]] = o[r] /\ p[n[r]] = r
        /\ n[r] = Null => t[o[r]] = r

TailOf(o, t, n, d, s) == t[s] # Null => In(o, d, t[s]) /\ o[t[s]] = s /\ n[t[s]] = Null

(* A list leads back to ever lower ranks, and on to ever higher ones up to *)
(* a highest: it has two ends.                                             *)
Ranks(p, k, top) ==
    /\ k \in [Resources -> 0..top]
    /\ \A r \in Resources : p[r] # Null => k[p[r]] < k[r]

WellLinked(o, t, p, n, d) ==
    /\ LinkTypes(o, t, p, n, d)
    /\ \A r \in Resources : LinkOf(o, t, p, n, d, r)
    /\ \A s \in Scopes : TailOf(o, t, n, d, s)
    /\ \E k, top : top \in Nat /\ Ranks(p, k, top)

LEMMA NullIsNothing == Null \notin Resources /\ Null \notin Scopes
BY ScopeAssumption DEF Scopes, Resources

(* A resource added behind the tail.                                       *)
NextWith(t, n, s, r) == IF t[s] = Null THEN n ELSE [n EXCEPT ![t[s]] = r]

LEMMA Appending ==
    ASSUME NEW o, NEW t, NEW p, NEW n, NEW d, WellLinked(o, t, p, n, d),
           NEW s \in Scopes, NEW r \in Resources, o[r] = Null
    PROVE  WellLinked([o EXCEPT ![r] = s], [t EXCEPT ![s] = r], [p EXCEPT ![r] = t[s]],
                  NextWith(t, n, s, r), d)
<1> DEFINE o2 == [o EXCEPT ![r] = s]
           t2 == [t EXCEPT ![s] = r]
           p2 == [p EXCEPT ![r] = t[s]]
           n2 == NextWith(t, n, s, r)
<1>1. LinkTypes(o, t, p, n, d) /\ r \notin d /\ s # Null /\ r # Null
  BY NullIsNothing DEF WellLinked, LinkTypes
<1>2. LinkTypes(o2, t2, p2, n2, d)
  BY <1>1 DEF LinkTypes, NextWith
<1>3. /\ \A x \in Resources : o2[x] = IF x = r THEN s ELSE o[x]
      /\ \A x \in Scopes : t2[x] = IF x = s THEN r ELSE t[x]
      /\ \A x \in Resources : p2[x] = IF x = r THEN t[s] ELSE p[x]
      /\ \A x \in Resources : n2[x] = IF x = t[s] THEN r ELSE n[x]
  BY <1>1, NullIsNothing DEF LinkTypes, NextWith
<1>4. \A x \in Resources : p[x] # r /\ n[x] # r
  BY <1>1 DEF WellLinked, LinkOf, In, LinkTypes
<1>5. p[r] = Null /\ n[r] = Null /\ \A x \in Scopes : t[x] # r
  BY <1>1 DEF WellLinked, LinkOf, TailOf, In, LinkTypes
<1> HIDE DEF o2, t2, p2, n2
<1>6. ASSUME NEW x \in Resources PROVE LinkOf(o2, t2, p2, n2, d, x)
  <2>1. LinkOf(o, t, p, n, d, x) /\ TailOf(o, t, n, d, s)
    BY DEF WellLinked
  <2>2. /\ o[x] \in Scopes \cup {Null} /\ p[x] \in Resources \cup {Null}
        /\ n[x] \in Resources \cup {Null} /\ t[s] \in Resources \cup {Null}
    BY <1>1 DEF LinkTypes
  <2>3. CASE x = r
    BY <1>1, <1>3, <1>4, <1>5, <2>1, <2>2, <2>3 DEF LinkOf, TailOf, In
  <2>4. CASE x # r
    <3>1. In(o2, d, x) <=> In(o, d, x)
      BY <1>3, <2>4 DEF In
    <3>2. o2[x] = o[x] /\ p2[x] = p[x] /\ n2[x] = IF x = t[s] THEN r ELSE n[x]
      BY <1>3, <2>4
    <3>3. ~In(o, d, x) => x # t[s]
      BY <2>1, NullIsNothing DEF TailOf
    <3>4. ASSUME In(o, d, x), p[x] # Null
          PROVE  In(o2, d, p[x]) /\ o2[p[x]] = o[x] /\ n2[p[x]] = x
      <4>1. p[x] \in Resources /\ p[x] # r /\ In(o, d, p[x]) /\ o[p[x]] = o[x] /\ n[p[x]] = x
        BY <1>4, <2>1, <2>2, <3>4 DEF LinkOf
      <4>2. p[x] # t[s]
        BY <2>1, <3>4, <4>1, NullIsNothing DEF TailOf
      <4> QED BY <1>3, <4>1, <4>2 DEF In
    <3>5. ASSUME In(o, d, x), x = t[s]
          PROVE  In(o2, d, r) /\ o2[r] = o[x] /\ p2[r] = x
      BY <1>1, <1>3, <2>1, <3>5, NullIsNothing DEF TailOf, In
    <3>6. ASSUME In(o, d, x), x # t[s], n[x] # Null
          PROVE  In(o2, d, n[x]) /\ o2[n[x]] = o[x] /\ p2[n[x]] = x
      BY <1>3, <1>4, <2>1, <2>2, <3>6 DEF LinkOf, In
    <3>7. ASSUME In(o, d, x), x # t[s], n[x] = Null PROVE t2[o[x]] = x
      BY <1>3, <2>1, <2>2, <3>7 DEF LinkOf, In
    <3> QED BY <1>1, <2>1, <3>1, <3>2, <3>3, <3>4, <3>5, <3>6, <3>7 DEF LinkOf
  <2> QED BY <2>3, <2>4
<1>7. ASSUME NEW x \in Scopes PROVE TailOf(o2, t2, n2, d, x)
  <2>1. TailOf(o, t, n, d, x) /\ TailOf(o, t, n, d, s) /\ t[x] \in Resources \cup {Null}
    BY <1>1 DEF WellLinked, LinkTypes
  <2>2. CASE x = s
    BY <1>1, <1>3, <1>5, <2>1, <2>2 DEF TailOf, In
  <2>3. CASE x # s
    BY <1>1, <1>3, <1>5, <2>1, <2>3 DEF TailOf, In
  <2> QED BY <2>2, <2>3
<1>8. \E k, top : top \in Nat /\ Ranks(p2, k, top)
  <2>1. PICK k, top : top \in Nat /\ Ranks(p, k, top)
    BY DEF WellLinked
  <2> DEFINE b == IF t[s] = Null THEN 0 ELSE k[t[s]] + 1
             k2 == [k EXCEPT ![r] = b]
  <2>2. k \in [Resources -> 0..top] /\ b \in 0..(top + 1) /\ top \in Nat
    BY <1>1, <2>1 DEF Ranks, LinkTypes
  <2>3. k2 \in [Resources -> 0..(top + 1)] /\ \A x \in Resources : k2[x] = IF x = r THEN b ELSE k[x]
    BY <2>2
  <2>4. t[s] # Null => b = k[t[s]] + 1
    OBVIOUS
  <2>5. p \in [Resources -> Resources \cup {Null}] /\ t[s] \in Resources \cup {Null}
    BY <1>1 DEF LinkTypes
  <2> HIDE DEF b, k2
  <2>6. ASSUME NEW x \in Resources, p2[x] # Null PROVE k2[p2[x]] < k2[x]
    <3>1. CASE x = r
      <4>1. p2[x] = t[s] /\ t[s] # r /\ t[s] \in Resources /\ b = k[t[s]] + 1
        BY <1>3, <1>5, <2>4, <2>5, <2>6, <3>1
      <4>2. k2[x] = b /\ k2[t[s]] = k[t[s]] /\ k[t[s]] \in 0..top
        BY <2>2, <2>3, <3>1, <4>1
      <4> QED BY <4>1, <4>2
    <3>2. CASE x # r
      <4>1. p2[x] = p[x] /\ p[x] \in Resources /\ p[x] # r
        BY <1>3, <1>4, <2>5, <2>6, <3>2
      <4> QED BY <2>1, <2>3, <2>6, <3>2, <4>1 DEF Ranks
    <3> QED BY <3>1, <3>2
  <2>7. top + 1 \in Nat /\ Ranks(p2, k2, top + 1)
    BY <2>2, <2>3, <2>6 DEF Ranks
  <2> QED BY <2>7
<1>9. WellLinked(o2, t2, p2, n2, d)
  BY <1>2, <1>6, <1>7, <1>8 DEF WellLinked
<1> QED BY <1>9 DEF o2, t2, p2, n2

(* A resource taken out of its list.                                       *)
TailWithout(o, t, p, n, r) == IF n[r] = Null THEN [t EXCEPT ![o[r]] = p[r]] ELSE t
PrevWithout(p, n, r) ==
    [[x \in Resources |-> IF x = n[r] THEN p[r] ELSE p[x]] EXCEPT ![r] = Null]
NextWithout(p, n, r) ==
    [[x \in Resources |-> IF x = p[r] THEN n[r] ELSE n[x]] EXCEPT ![r] = Null]

LEMMA Removing ==
    ASSUME NEW o, NEW t, NEW p, NEW n, NEW d, WellLinked(o, t, p, n, d),
           NEW r \in Resources, In(o, d, r)
    PROVE  WellLinked(o, TailWithout(o, t, p, n, r), PrevWithout(p, n, r), NextWithout(p, n, r),
                  d \cup {r})
<1> DEFINE t2 == TailWithout(o, t, p, n, r)
           p2 == PrevWithout(p, n, r)
           n2 == NextWithout(p, n, r)
           d2 == d \cup {r}
<1>1. LinkTypes(o, t, p, n, d) /\ LinkOf(o, t, p, n, d, r) /\ r # Null
  BY NullIsNothing DEF WellLinked
<1>2. /\ o[r] \in Scopes /\ o[r] # Null
      /\ p[r] \in Resources \cup {Null} /\ n[r] \in Resources \cup {Null}
      /\ \A x \in Resources : p[x] \in Resources \cup {Null} /\ n[x] \in Resources \cup {Null}
      /\ \A s \in Scopes : t[s] \in Resources \cup {Null}
  BY <1>1 DEF LinkTypes, In
<1>3. LinkTypes(o, t2, p2, n2, d2)
  BY <1>1, <1>2 DEF LinkTypes, TailWithout, PrevWithout, NextWithout
<1>4. /\ \A x \in Resources : p2[x] = IF x = r THEN Null ELSE IF x = n[r] THEN p[r] ELSE p[x]
      /\ \A x \in Resources : n2[x] = IF x = r THEN Null ELSE IF x = p[r] THEN n[r] ELSE n[x]
      /\ \A s \in Scopes : t2[s] = IF n[r] = Null /\ s = o[r] THEN p[r] ELSE t[s]
  BY <1>1, <1>2 DEF LinkTypes, TailWithout, PrevWithout, NextWithout
<1>5. \A x : In(o, d2, x) <=> In(o, d, x) /\ x # r
  BY DEF In
<1>6. PICK k, top : top \in Nat /\ Ranks(p, k, top)
  BY DEF WellLinked
<1>7. p[r] # r /\ n[r] # r
  <2>1. \A x \in Resources : p[x] # x
    BY <1>6, NullIsNothing DEF Ranks
  <2> QED BY <1>1, <2>1 DEF LinkOf
<1>8. \A x \in Resources : LinkOf(o, t, p, n, d, x)
  BY DEF WellLinked
<1> HIDE DEF t2, p2, n2, d2
<1>9. ASSUME NEW x \in Resources PROVE LinkOf(o, t2, p2, n2, d2, x)
  <2>1. LinkOf(o, t, p, n, d, x)
    BY <1>8
  <2>2. CASE x = r
    BY <1>4, <1>5, <2>2 DEF LinkOf
  <2>3. CASE x # r /\ ~In(o, d, x)
    <3>1. x # p[r] /\ x # n[r]
      BY <1>1, <2>3, NullIsNothing DEF LinkOf
    <3> QED BY <1>4, <1>5, <2>1, <2>3, <3>1 DEF LinkOf
  <2>4. CASE x # r /\ In(o, d, x)
    <3>1. ASSUME p2[x] # Null PROVE In(o, d2, p2[x]) /\ o[p2[x]] = o[x] /\ n2[p2[x]] = x
      <4>1. CASE x = n[r]
        <5>1. p2[x] = p[r] /\ p[r] \in Resources /\ p[r] # r
          BY <1>2, <1>4, <1>7, <2>4, <3>1, <4>1
        <5>2. In(o, d, p[r]) /\ o[p[r]] = o[r] /\ o[x] = o[r]
          BY <1>1, <3>1, <4>1, <5>1, NullIsNothing DEF LinkOf
        <5>3. n2[p[r]] = n[r]
          BY <1>4, <5>1
        <5> QED BY <1>5, <4>1, <5>1, <5>2, <5>3
      <4>2. CASE x # n[r]
        <5>1. p2[x] = p[x] /\ p[x] \in Resources
          BY <1>2, <1>4, <2>4, <3>1, <4>2
        <5>2. In(o, d, p[x]) /\ o[p[x]] = o[x] /\ n[p[x]] = x
          BY <2>1, <2>4, <3>1, <5>1 DEF LinkOf
        <5>3. p[x] # r /\ p[x] # p[r]
          <6>1. p[x] # r
            BY <4>2, <5>2
          <6>2. p[x] = p[r] => x = r
            BY <1>1, <5>1, <5>2, NullIsNothing DEF LinkOf
          <6> QED BY <2>4, <6>1, <6>2
        <5> QED BY <1>4, <1>5, <5>1, <5>2, <5>3
      <4> QED BY <4>1, <4>2
    <3>2. ASSUME n2[x] # Null PROVE In(o, d2, n2[x]) /\ o[n2[x]] = o[x] /\ p2[n2[x]] = x
      <4>1. CASE x = p[r]
        <5>1. n2[x] = n[r] /\ n[r] \in Resources /\ n[r] # r
          BY <1>2, <1>4, <1>7, <2>4, <3>2, <4>1
        <5>2. In(o, d, n[r]) /\ o[n[r]] = o[r] /\ o[x] = o[r]
          BY <1>1, <3>2, <4>1, <5>1, NullIsNothing DEF LinkOf
        <5>3. p2[n[r]] = p[r]
          BY <1>4, <5>1
        <5> QED BY <1>5, <4>1, <5>1, <5>2, <5>3
      <4>2. CASE x # p[r]
        <5>1. n2[x] = n[x] /\ n[x] \in Resources
          BY <1>2, <1>4, <2>4, <3>2, <4>2
        <5>2. In(o, d, n[x]) /\ o[n[x]] = o[x] /\ p[n[x]] = x
          BY <2>1, <2>4, <3>2, <5>1 DEF LinkOf
        <5>3. n[x] # r /\ n[x] # n[r]
          <6>1. n[x] # r
            BY <4>2, <5>2
          <6>2. n[x] = n[r] => x = r
            BY <1>1, <5>1, <5>2, NullIsNothing DEF LinkOf
          <6> QED BY <2>4, <6>1, <6>2
        <5> QED BY <1>4, <1>5, <5>1, <5>2, <5>3
      <4> QED BY <4>1, <4>2
    <3>3. ASSUME n2[x] = Null PROVE t2[o[x]] = x
      <4>1. o[x] \in Scopes
        BY <1>1, <2>4 DEF LinkTypes, In
      <4>2. CASE x = p[r]
        <5>1. n[r] = Null /\ o[x] = o[r]
          BY <1>1, <1>4, <2>4, <3>3, <4>2, NullIsNothing DEF LinkOf
        <5> QED BY <1>4, <4>1, <4>2, <5>1
      <4>3. CASE x # p[r]
        <5>1. n[x] = Null
          BY <1>4, <2>4, <3>3, <4>3
        <5>2. t[o[x]] = x
          BY <2>1, <2>4, <5>1 DEF LinkOf
        <5>3. ~(n[r] = Null /\ o[x] = o[r])
          BY <1>1, <2>4, <5>2 DEF LinkOf
        <5> QED BY <1>4, <4>1, <5>2, <5>3
      <4> QED BY <4>2, <4>3
    <3> QED BY <1>5, <2>4, <3>1, <3>2, <3>3 DEF LinkOf
  <2> QED BY <2>2, <2>3, <2>4
<1>10. ASSUME NEW s \in Scopes PROVE TailOf(o, t2, n2, d2, s)
  <2>1. TailOf(o, t, n, d, s) /\ TailOf(o, t, n, d, o[r])
    BY <1>2 DEF WellLinked
  <2>2. CASE n[r] = Null /\ s = o[r]
    <3>1. t2[s] = p[r]
      BY <1>4, <2>2
    <3>2. ASSUME p[r] # Null PROVE In(o, d2, p[r]) /\ o[p[r]] = s /\ n2[p[r]] = Null
      <4>1. p[r] \in Resources /\ In(o, d, p[r]) /\ o[p[r]] = o[r]
        BY <1>1, <1>2, <3>2 DEF LinkOf
      <4> QED BY <1>4, <1>5, <1>7, <2>2, <4>1
    <3> QED BY <3>1, <3>2 DEF TailOf
  <2>3. CASE ~(n[r] = Null /\ s = o[r])
    <3>1. t2[s] = t[s] /\ t[s] \in Resources \cup {Null}
      BY <1>2, <1>4, <2>3
    <3>2. ASSUME t[s] # Null PROVE In(o, d2, t[s]) /\ o[t[s]] = s /\ n2[t[s]] = Null
      <4>1. t[s] \in Resources /\ In(o, d, t[s]) /\ o[t[s]] = s /\ n[t[s]] = Null
        BY <2>1, <3>1, <3>2 DEF TailOf
      <4>2. t[s] # r /\ t[s] # p[r]
        BY <1>1, <2>3, <4>1, NullIsNothing DEF LinkOf
      <4> QED BY <1>4, <1>5, <4>1, <4>2
    <3> QED BY <3>1, <3>2 DEF TailOf
  <2> QED BY <2>2, <2>3
<1>11. Ranks(p2, k, top)
  <2>1. ASSUME NEW x \in Resources, p2[x] # Null PROVE k[p2[x]] < k[x]
    <3>1. CASE x = n[r]
      <4>1. p2[x] = p[r] /\ p[r] \in Resources /\ p[x] = r
        BY <1>1, <1>2, <1>4, <2>1, <3>1, NullIsNothing DEF LinkOf
      <4>2. k[p[r]] < k[r] /\ k[r] < k[x]
        BY <1>1, <1>6, <2>1, <4>1 DEF Ranks
      <4>3. k[p[r]] \in 0..top /\ k[r] \in 0..top /\ k[x] \in 0..top
        BY <1>6, <4>1 DEF Ranks
      <4> QED BY <4>1, <4>2, <4>3
    <3>2. CASE x # n[r]
      BY <1>4, <1>6, <2>1, <3>2 DEF Ranks
    <3> QED BY <3>1, <3>2
  <2> QED BY <1>6, <2>1 DEF Ranks
<1>12. WellLinked(o, t2, p2, n2, d2)
  BY <1>3, <1>6, <1>9, <1>10, <1>11 DEF WellLinked
<1> QED BY <1>12 DEF t2, p2, n2, d2

-----------------------------------------------------------------------------
(* A stack of calls whose last is replaced, or taken away.                 *)
LEMMA StackTop ==
    ASSUME NEW T, NEW q \in Seq(T), q # <<>>
    PROVE  /\ Len(q) \in Nat \ {0} /\ Len(q) \in DOMAIN q /\ DOMAIN q = 1..Len(q)
           /\ Last(q) = q[Len(q)] /\ Last(q) \in T
           /\ Front(q) \in Seq(T) /\ DOMAIN Front(q) = 1..(Len(q) - 1)
           /\ \A i \in 1..(Len(q) - 1) : Front(q)[i] = q[i]
           /\ Len(Front(q)) = Len(q) - 1
<1>1. Len(q) \in Nat \ {0} /\ DOMAIN q = 1..Len(q)
  BY EmptySeq
<1>2. Front(q) = SubSeq(q, 1, Len(q) - 1) /\ Last(q) = q[Len(q)]
  BY DEF Front, Last
<1>3. /\ SubSeq(q, 1, Len(q) - 1) \in Seq(T) /\ Len(SubSeq(q, 1, Len(q) - 1)) = Len(q) - 1
      /\ \A i \in 1..(Len(q) - 1) : SubSeq(q, 1, Len(q) - 1)[i] = q[i]
  <2>1. \A i \in 1..(Len(q) - 1) : q[i] \in T
    BY <1>1, ElementOfSeq
  <2> QED BY <1>1, <2>1, SubSeqProperties
<1> QED BY <1>1, <1>2, <1>3, ElementOfSeq

(* A scope has at most one call.                                           *)
OneEach(q) == \A i, j \in DOMAIN q : q[i].scope = q[j].scope => i = j

LEMMA Pushed ==
    ASSUME NEW T, NEW q \in Seq(T), OneEach(q), NEW x \in T,
           \A y \in ToSet(q) : y.scope # x.scope
    PROVE  /\ Append(q, x) \in Seq(T) /\ OneEach(Append(q, x))
           /\ ToSet(Append(q, x)) = ToSet(q) \cup {x}
<1>1. /\ Append(q, x) \in Seq(T) /\ Len(Append(q, x)) = Len(q) + 1 /\ Len(q) \in Nat
      /\ \A i \in 1..Len(q) : Append(q, x)[i] = q[i]
      /\ Append(q, x)[Len(q) + 1] = x
      /\ DOMAIN Append(q, x) = 1..(Len(q) + 1) /\ DOMAIN q = 1..Len(q)
  BY AppendProperties
<1>2. ToSet(q) = {q[i] : i \in 1..Len(q)}
  BY <1>1 DEF ToSet
<1>3. ToSet(Append(q, x)) = {Append(q, x)[i] : i \in 1..(Len(q) + 1)}
  BY <1>1 DEF ToSet
<1> DEFINE z == Append(q, x)
<1> HIDE DEF z
<1>4. \A i \in 1..(Len(q) + 1) : z[i] = IF i = Len(q) + 1 THEN x ELSE q[i]
  BY <1>1 DEF z
<1>5. \A i \in 1..(Len(q) + 1) : i # Len(q) + 1 => i \in 1..Len(q)
  BY <1>1
<1>6. Len(q) + 1 \in 1..(Len(q) + 1) /\ \A i \in 1..Len(q) : i \in 1..(Len(q) + 1) /\ i # Len(q) + 1
  BY <1>1
<1>7. {z[i] : i \in 1..(Len(q) + 1)} = ToSet(q) \cup {x}
  <2> DEFINE D == 1..(Len(q) + 1)
             E == 1..Len(q)
             m == Len(q) + 1
  <2>1. /\ \A i \in D : z[i] = IF i = m THEN x ELSE q[i]
        /\ \A i \in D : i # m => i \in E
        /\ m \in D /\ \A i \in E : i \in D /\ i # m
    BY <1>4, <1>5, <1>6
  <2>2. ToSet(q) = {q[i] : i \in E}
    BY <1>2
  <2> HIDE DEF D, E, m
  <2>3. {z[i] : i \in D} = ToSet(q) \cup {x}
    BY <2>1, <2>2
  <2> QED BY <2>3 DEF D
<1>8. \A i, j \in 1..(Len(q) + 1) : z[i].scope = z[j].scope => i = j
  <2>1. \A i \in 1..Len(q) : q[i] \in ToSet(q)
    BY <1>2
  <2>2. \A i, j \in 1..Len(q) : q[i].scope = q[j].scope => i = j
    BY <1>1 DEF OneEach
  <2> QED BY <1>4, <1>5, <2>1, <2>2
<1>9. OneEach(z)
  BY <1>1, <1>8 DEF OneEach, z
<1> QED BY <1>1, <1>3, <1>7, <1>9 DEF z

LEMMA Popped ==
    ASSUME NEW T, NEW q \in Seq(T), OneEach(q), q # <<>>
    PROVE  /\ Front(q) \in Seq(T) /\ OneEach(Front(q)) /\ Last(q) \in ToSet(q)
           /\ ToSet(Front(q)) = ToSet(q) \ {Last(q)}
           /\ \A y \in ToSet(Front(q)) : y.scope # Last(q).scope
<1> DEFINE z == Front(q)
           m == Len(q)
           D == 1..m
           E == 1..(m - 1)
<1>1. /\ m \in Nat \ {0} /\ DOMAIN q = D /\ Last(q) = q[m]
      /\ z \in Seq(T) /\ DOMAIN z = E
      /\ \A i \in E : z[i] = q[i]
  BY StackTop
<1> HIDE DEF m, z
<1>2. ToSet(q) = {q[i] : i \in D} /\ ToSet(z) = {z[i] : i \in E}
  BY <1>1 DEF ToSet
<1>3. \A i, j \in D : q[i].scope = q[j].scope => i = j
  BY <1>1 DEF OneEach
<1>4. (\A i \in E : i \in D /\ i # m) /\ (\A i \in D : i # m => i \in E) /\ m \in D
  BY <1>1
<1> HIDE DEF D, E
<1>5. OneEach(z)
  BY <1>1, <1>3, <1>4 DEF OneEach
<1>6. \A i \in E : z[i].scope # q[m].scope
  BY <1>1, <1>3, <1>4
<1>7. {z[i] : i \in E} = {q[i] : i \in D} \ {q[m]}
  BY <1>1, <1>4, <1>6
<1>8. \A y \in ToSet(z) : y.scope # Last(q).scope
  BY <1>1, <1>2, <1>6
<1>9. Last(q) \in ToSet(q) /\ ToSet(z) = ToSet(q) \ {Last(q)}
  BY <1>1, <1>2, <1>4, <1>7
<1> QED BY <1>1, <1>5, <1>8, <1>9 DEF z

LEMMA Replaced ==
    ASSUME NEW T, NEW q \in Seq(T), OneEach(q), q # <<>>, NEW x \in T, x.scope = Last(q).scope
    PROVE  /\ Append(Front(q), x) \in Seq(T) /\ OneEach(Append(Front(q), x))
           /\ Last(q) \in ToSet(q)
           /\ ToSet(Append(Front(q), x)) = (ToSet(q) \ {Last(q)}) \cup {x}
BY Popped, Pushed

-----------------------------------------------------------------------------
(* The inductive invariant of the scopes.                                  *)
CallType == [scope : Scopes, running : Resources \cup {Null}, failed : BOOLEAN]

ScopeTypeOK ==
    /\ disposed \subseteq Scopes /\ calls \in Seq(CallType) /\ ended \in Seq(Resources)
    /\ failing \subseteq Plain /\ threw \subseteq Scopes

(* What is owned is owned by what exists, and a child from the first has   *)
(* what takes it out of its parent.                                        *)
Owners ==
    /\ \A r \in Resources : owner[r] # Null => Exists(owner[r])
    /\ \A c \in Children : owner[Unlink(c)] = IF owner[c] = Null THEN Null ELSE c
    /\ \A s \in disposed : Exists(s)

(* A scope is disposed in one call, and what a call disposes is out of the *)
(* list of its scope.                                                      *)
Stack ==
    /\ OneEach(calls)
    /\ \A x \in ToSet(calls) :
        /\ x.scope \in disposed
        /\ x.running # Null => owner[x.running] = x.scope /\ x.running \in detached

Emptied == \A s \in disposed : (\A x \in ToSet(calls) : x.scope # s) => Attached(s) = {}

Endings ==
    /\ IsInjective(ended) /\ ToSet(ended) \subseteq detached
    /\ \A c \in Children : c \in ToSet(ended) => c \in disposed

(* A child whose unlinking is done is out of its parent, or its parent is  *)
(* disposed.                                                               *)
Unlinking == \A c \in Children : Unlink(c) \in detached =>
    \/ c \in detached \/ owner[c] \in disposed
    \/ \E x \in ToSet(calls) : x.running = Unlink(c)

(* A failure is with the call that met it, and then with its scope.        *)
Blames(s) == \E r \in failing \cup (threw \cap Children) : owner[r] = s
Errors ==
    /\ \A r \in failing : /\ owner[r] # Null
                          /\ \/ owner[r] \in threw
                             \/ \E x \in ToSet(calls) : x.scope = owner[r] /\ x.failed
    /\ \A x \in ToSet(calls) : x.failed => Blames(x.scope)
    /\ \A s \in threw : Blames(s)

ScopeInv ==
    /\ ScopeTypeOK /\ WellLinked(owner, tail, prev, next, detached)
    /\ Owners /\ Stack /\ Emptied /\ Endings /\ Unlinking /\ Errors
-----------------------------------------------------------------------------
(* The state and each action.                                              *)
LEMMA ScopeTypes ==
    ASSUME ScopeInv
    PROVE  /\ owner \in [Resources -> Scopes \cup {Null}]
           /\ tail \in [Scopes -> Resources \cup {Null}]
           /\ prev \in [Resources -> Resources \cup {Null}]
           /\ next \in [Resources -> Resources \cup {Null}]
           /\ detached \subseteq Resources /\ \A r \in detached : owner[r] # Null
           /\ \A c \in Children : Unlink(c) \in Resources /\ c \in Resources /\ c \in Scopes
           /\ Plain \subseteq Resources /\ Root \in Scopes
BY DEF ScopeInv, WellLinked, LinkTypes, Resources, Scopes

LEMMA TailTaken ==
    ASSUME ScopeInv, NEW s \in Scopes, tail[s] # Null
    PROVE  /\ tail[s] \in Resources /\ owner[tail[s]] = s /\ tail[s] \notin detached
           /\ next[tail[s]] = Null /\ In(owner, detached, tail[s])
BY ScopeTypes DEF ScopeInv, WellLinked, TailOf, In

(* Only what a child put in itself unlinks.                                *)
LEMMA UnlinksChild ==
    ASSUME NEW x \in CallType, x.running = Unlink(x.scope)
    PROVE  x.scope \in Children /\ x.running \notin Plain \cup Children \cup {Null}
<1>1. x.scope \in Scopes /\ x.running \in Resources \cup {Null}
  BY DEF CallType
<1>2. Unlink(x.scope) \notin Children \cup Plain \cup {Null}
  BY <1>1, ScopeAssumption
<1>3. PICK c \in Children : Unlink(x.scope) = Unlink(c)
  BY <1>1, <1>2 DEF Resources
<1>4. x.scope = c
  BY <1>3 DEF Unlink
<1> QED BY <1>2, <1>4

LEMMA RemovedLinks ==
    ASSUME ScopeInv, NEW r \in Resources, In(owner, detached, r), Removed(r), UNCHANGED owner
    PROVE  WellLinked(owner, tail, prev, next, detached)'
<1>1. WellLinked(owner, tail, prev, next, detached)
  BY DEF ScopeInv
<1>2. WellLinked(owner, TailWithout(owner, tail, prev, next, r), PrevWithout(prev, next, r),
             NextWithout(prev, next, r), detached \cup {r})
  BY <1>1, Removing
<1>3. /\ tail' = TailWithout(owner, tail, prev, next, r) /\ prev' = PrevWithout(prev, next, r)
      /\ next' = NextWithout(prev, next, r) /\ detached' = detached \cup {r} /\ owner' = owner
  BY DEF Removed, TailWithout, PrevWithout, NextWithout
<1> QED BY <1>2, <1>3

LEMMA TakeTailRemoves ==
    ASSUME ScopeInv, TakeTail
    PROVE  /\ Last(calls).scope \in Scopes
           /\ tail[Last(calls).scope] \in Resources
           /\ In(owner, detached, tail[Last(calls).scope])
           /\ owner[tail[Last(calls).scope]] = Last(calls).scope
           /\ Removed(tail[Last(calls).scope]) /\ owner' = owner
<1> DEFINE s == Last(calls).scope
           r == tail[s]
<1>1. calls # <<>> /\ r # Null
  BY DEF TakeTail
<1>2. Last(calls) \in CallType
  BY <1>1, StackTop DEF ScopeInv, ScopeTypeOK
<1>3. s \in Scopes
  BY <1>2 DEF CallType
<1>4. /\ r \in Resources /\ owner[r] = s /\ r \notin detached /\ next[r] = Null
      /\ In(owner, detached, r)
  BY <1>1, <1>3, TailTaken
<1>5. /\ tail' = [tail EXCEPT ![s] = prev[r]]
      /\ next' = [[x \in Resources |-> IF x = prev[r] THEN Null ELSE next[x]] EXCEPT ![r] = Null]
      /\ prev' = [prev EXCEPT ![r] = Null]
      /\ detached' = detached \cup {r} /\ owner' = owner
  BY DEF TakeTail
<1>6. prev' = [[x \in Resources |-> IF x = next[r] THEN prev[r] ELSE prev[x]] EXCEPT ![r] = Null]
  <2>1. \A x \in Resources : x # next[r]
    BY <1>4, NullIsNothing
  <2>2. prev = [x \in Resources |-> IF x = next[r] THEN prev[r] ELSE prev[x]]
    BY <2>1, ScopeTypes
  <2> QED BY <1>5, <2>2
<1> QED BY <1>3, <1>4, <1>5, <1>6 DEF Removed

LEMMA LinksKept ==
    ASSUME ScopeInv, [ScopeNext]_cvars
    PROVE  WellLinked(owner, tail, prev, next, detached)'
<1>0. WellLinked(owner, tail, prev, next, detached)
  BY DEF ScopeInv
<1>1. ASSUME NEW s \in Scopes, NEW r \in Plain, Use(s, r)
      PROVE  WellLinked(owner, tail, prev, next, detached)'
  <2>1. r \in Resources /\ owner[r] = Null
    BY <1>1, ScopeTypes DEF Use
  <2>2. WellLinked([owner EXCEPT ![r] = s], [tail EXCEPT ![s] = r], [prev EXCEPT ![r] = tail[s]],
               NextWith(tail, next, s, r), detached)
    BY <1>0, <2>1, Appending
  <2>3. /\ owner' = [owner EXCEPT ![r] = s] /\ tail' = [tail EXCEPT ![s] = r]
        /\ prev' = [prev EXCEPT ![r] = tail[s]] /\ next' = NextWith(tail, next, s, r)
        /\ detached' = detached
    BY <1>1 DEF Use, Appended, NextWith
  <2> QED BY <2>2, <2>3
<1>2. ASSUME NEW s \in Scopes, NEW c \in Children, s # c, CreateChild(s, c)
      PROVE  WellLinked(owner, tail, prev, next, detached)'
  <2> DEFINE u == Unlink(c)
             o1 == [owner EXCEPT ![c] = s]
             t1 == [tail EXCEPT ![s] = c]
             p1 == [prev EXCEPT ![c] = tail[s]]
             n1 == NextWith(tail, next, s, c)
  <2>1. c \in Resources /\ u \in Resources /\ c \in Scopes /\ u # c /\ owner[c] = Null
    BY <1>2, ScopeTypes, ScopeAssumption DEF CreateChild
  <2>2. WellLinked(o1, t1, p1, n1, detached)
    BY <1>0, <2>1, Appending
  <2>3. owner[u] = Null
    BY <2>1 DEF ScopeInv, Owners
  <2>4. tail[c] = Null
    <3>1. SUFFICES ASSUME tail[c] # Null PROVE FALSE
      OBVIOUS
    <3>2. tail[c] \in Resources /\ owner[tail[c]] = c
      BY <2>1, <3>1, TailTaken
    <3>3. Exists(c)
      BY <2>1, <3>2, NullIsNothing DEF ScopeInv, Owners
    <3> QED BY <2>1, <3>3, ScopeAssumption DEF Exists
  <2>5. o1[u] = Null /\ t1[c] = Null /\ u # Null
    BY <1>2, <2>1, <2>3, <2>4, ScopeTypes, NullIsNothing
  <2>6. p1[u] = Null
    BY <2>1, <2>2, <2>5 DEF WellLinked, LinkOf, In
  <2>7. WellLinked([o1 EXCEPT ![u] = c], [t1 EXCEPT ![c] = u], [p1 EXCEPT ![u] = t1[c]], n1, detached)
    <3> HIDE DEF o1, t1, p1, n1, u
    <3>1. WellLinked([o1 EXCEPT ![u] = c], [t1 EXCEPT ![c] = u], [p1 EXCEPT ![u] = t1[c]],
                 NextWith(t1, n1, c, u), detached)
      BY <2>1, <2>2, <2>5, Appending
    <3>2. NextWith(t1, n1, c, u) = n1
      BY <2>5 DEF NextWith
    <3> QED BY <3>1, <3>2
  <2>8. [p1 EXCEPT ![u] = t1[c]] = p1
    <3>1. p1 \in [Resources -> Resources \cup {Null}]
      BY <2>2 DEF WellLinked, LinkTypes
    <3> HIDE DEF o1, t1, p1, n1, u
    <3> QED BY <2>1, <2>5, <2>6, <3>1
  <2>9. /\ owner' = [o1 EXCEPT ![u] = c] /\ tail' = [t1 EXCEPT ![c] = u] /\ prev' = p1
        /\ next' = n1 /\ detached' = detached
    BY <1>2 DEF CreateChild, NextWith
  <2> HIDE DEF o1, t1, p1, n1, u
  <2> QED BY <2>7, <2>8, <2>9
<1>3. ASSUME NEW r \in Resources, Detach(r) PROVE WellLinked(owner, tail, prev, next, detached)'
  <2>1. In(owner, detached, r)
    BY <1>3 DEF Detach, Detachable, In
  <2> QED BY <1>3, <2>1, RemovedLinks DEF Detach
<1>4. ASSUME TakeTail PROVE WellLinked(owner, tail, prev, next, detached)'
  BY <1>4, TakeTailRemoves, RemovedLinks
<1>5. ASSUME ReturnUnlink PROVE WellLinked(owner, tail, prev, next, detached)'
  <2>1. CASE Detachable(Last(calls).scope)
    <3>1. Last(calls).scope \in Children
      <4>1. calls # <<>> /\ Last(calls).running = Unlink(Last(calls).scope)
        BY <1>5 DEF ReturnUnlink
      <4>2. Last(calls) \in CallType
        BY <4>1, StackTop DEF ScopeInv, ScopeTypeOK
      <4> QED BY <4>1, <4>2, UnlinksChild
    <3>2. Last(calls).scope \in Resources /\ In(owner, detached, Last(calls).scope)
      BY <2>1, <3>1, ScopeTypes DEF Detachable, In
    <3> QED BY <1>5, <2>1, <3>2, RemovedLinks DEF ReturnUnlink
  <2>2. CASE ~Detachable(Last(calls).scope)
    BY <1>0, <1>5, <2>2 DEF ReturnUnlink, list
  <2> QED BY <2>1, <2>2
<1>6. ASSUME \/ (\E s \in Scopes : Dispose(s)) \/ \E fails \in BOOLEAN : Return(fails)
             \/ ReturnChild \/ EndOfDispose \/ UNCHANGED cvars
      PROVE  WellLinked(owner, tail, prev, next, detached)'
  BY <1>0, <1>6 DEF Dispose, Return, ReturnChild, EndOfDispose, cvars, list
<1> QED BY <1>1, <1>2, <1>3, <1>4, <1>5, <1>6 DEF ScopeNext
-----------------------------------------------------------------------------
(* All of the invariant but the links.                                     *)
RestInv == ScopeTypeOK /\ Owners /\ Stack /\ Emptied /\ Endings /\ Unlinking /\ Errors

(* What calls hold, in the words of the proofs below.                      *)
LEMMA CallsHold ==
    ASSUME ScopeInv
    PROVE  /\ calls \in Seq(CallType) /\ OneEach(calls)
           /\ \A x \in ToSet(calls) :
                /\ x \in CallType /\ x.scope \in Scopes /\ x.scope # Null
                /\ x.running \in Resources \cup {Null} /\ x.failed \in BOOLEAN
                /\ x.scope \in disposed
                /\ x.running # Null => owner[x.running] = x.scope /\ x.running \in detached
<1>1. calls \in Seq(CallType) /\ OneEach(calls)
  BY DEF ScopeInv, ScopeTypeOK, Stack
<1>2. ASSUME NEW x \in ToSet(calls) PROVE x \in CallType
  BY <1>1, <1>2, ElementOfSeq DEF ToSet
<1> QED BY <1>1, <1>2, NullIsNothing DEF ScopeInv, Stack, CallType

(* New owners, when resources are added.                                   *)
LEMMA OwnersGrow ==
    ASSUME ScopeInv, UNCHANGED <<detached, disposed, calls, ended, failing, threw>>, Owners',
           \A r \in Resources : owner[r] # Null => owner'[r] = owner[r],
           \A r \in Resources : owner[r] = Null /\ owner'[r] # Null => owner'[r] \notin disposed
    PROVE  RestInv'
<1> USE DEF ScopeInv
<1>1. ScopeTypeOK' /\ Endings'
  BY DEF ScopeTypeOK, Endings
<1>2. Stack'
  BY CallsHold, NullIsNothing DEF Stack
<1>3. Emptied'
  <2>1. ASSUME NEW s \in disposed, NEW r \in Resources, owner'[r] = s PROVE owner[r] = s
    BY <2>1, NullIsNothing DEF ScopeTypeOK
  <2> QED BY <2>1 DEF Emptied, Attached
<1>4. Unlinking'
  BY ScopeTypes, NullIsNothing DEF Unlinking, ScopeTypeOK
<1>5. Errors'
  <2>1. \A r \in failing \cup (threw \cap Children) : r \in Resources
    BY ScopeTypes DEF ScopeTypeOK
  <2>2. ASSUME NEW s \in Scopes, Blames(s) PROVE Blames(s)'
    BY <2>1, <2>2, NullIsNothing DEF Blames
  <2>3. \A r \in failing : owner'[r] = owner[r]
    BY <2>1 DEF Errors
  <2>4. \A x \in ToSet(calls) : x.scope \in Scopes
    BY CallsHold
  <2>5. \A s \in threw : s \in Scopes
    BY DEF ScopeTypeOK
  <2>6. \A x \in ToSet(calls) : x.failed => Blames(x.scope)'
    BY <2>2, <2>4 DEF Errors
  <2>7. \A s \in threw : Blames(s)'
    BY <2>2, <2>5 DEF Errors
  <2> QED BY <2>3, <2>6, <2>7 DEF Errors
<1> QED BY <1>1, <1>2, <1>3, <1>4, <1>5 DEF RestInv

LEMMA UseKeeps == ASSUME ScopeInv, NEW s \in Scopes, NEW r \in Plain, Use(s, r) PROVE RestInv'
<1>1. /\ r \in Resources /\ owner[r] = Null /\ Exists(s) /\ s \notin disposed /\ s # Null
      /\ owner' = [owner EXCEPT ![r] = s]
      /\ UNCHANGED <<detached, disposed, calls, ended, failing, threw>>
  BY ScopeTypes, NullIsNothing DEF Use, Active
<1>2. \A x \in Resources : owner'[x] = IF x = r THEN s ELSE owner[x]
  BY <1>1, ScopeTypes
<1>3. \A x \in Scopes : Exists(x) => Exists(x)'
  BY <1>1, <1>2, ScopeTypes DEF Exists, Scopes
<1>4. Owners'
  <2>1. Owners
    BY DEF ScopeInv
  <2>2. \A c \in Children : c # r /\ Unlink(c) # r /\ c \in Scopes
    BY ScopeAssumption DEF Scopes
  <2>3. \A x \in Resources : owner[x] \in Scopes \cup {Null}
    BY ScopeTypes
  <2>4. \A x \in Resources, y \in Scopes : owner'[x] = y => Exists(y)'
    BY <1>1, <1>2, <1>3, <2>1, <2>3, NullIsNothing DEF Owners
  <2>7. \A x \in Resources : owner'[x] \in Scopes \cup {Null}
    BY <1>2, <2>3
  <2>5. \A c \in Children : owner'[Unlink(c)] = IF owner'[c] = Null THEN Null ELSE c
    BY <1>2, <2>1, <2>2, ScopeTypes DEF Owners
  <2>6. \A x \in disposed' : Exists(x)'
    BY <1>1, <1>3, <2>1 DEF Owners, ScopeInv, ScopeTypeOK
  <2> QED BY <2>4, <2>5, <2>6, <2>7 DEF Owners
<1>5. /\ \A x \in Resources : owner[x] # Null => owner'[x] = owner[x]
      /\ \A x \in Resources : owner[x] = Null /\ owner'[x] # Null => owner'[x] \notin disposed
  BY <1>1, <1>2
<1> QED BY <1>1, <1>4, <1>5, OwnersGrow

LEMMA CreateKeeps ==
    ASSUME ScopeInv, NEW s \in Scopes, NEW c \in Children, s # c, CreateChild(s, c)
    PROVE  RestInv'
<1> DEFINE u == Unlink(c)
<1>1. /\ c \in Resources /\ u \in Resources /\ c \in Scopes /\ u # c /\ s # Null /\ c # Null
      /\ owner[c] = Null /\ Exists(s) /\ s \notin disposed
      /\ owner' = [owner EXCEPT ![c] = s, ![u] = c]
      /\ UNCHANGED <<detached, disposed, calls, ended, failing, threw>>
  BY ScopeTypes, NullIsNothing, ScopeAssumption DEF CreateChild, Active
<1>2. \A x \in Resources : owner'[x] = IF x = u THEN c ELSE IF x = c THEN s ELSE owner[x]
  BY <1>1, ScopeTypes
<1>3. owner[u] = Null /\ c \notin disposed
  BY <1>1, ScopeAssumption DEF ScopeInv, Owners, Exists
<1>4. \A x \in Scopes : Exists(x) => Exists(x)'
  BY <1>1, <1>2, <1>3, ScopeTypes DEF Exists, Scopes
<1>5. Owners'
  <2>1. Owners /\ Exists(c)'
    BY <1>1, <1>2 DEF ScopeInv, Exists
  <2>2. \A b \in Children : b # u /\ b \in Resources /\ Unlink(b) \in Resources /\ Unlink(b) # c
                            /\ (Unlink(b) = u => b = c)
    <3>1. \A b \in Children : b \in Resources /\ Unlink(b) \in Resources /\ b \in Scopes
      BY ScopeTypes
    <3>2. \A b \in Children : Unlink(b) \notin Children
      BY <3>1, ScopeAssumption
    <3>3. \A b \in Children : Unlink(b) = u => b = c
      BY DEF Unlink
    <3> QED BY <3>1, <3>2, <3>3
  <2>3. \A x \in Resources : owner[x] \in Scopes \cup {Null}
    BY ScopeTypes
  <2>4. \A x \in Resources, y \in Scopes : owner'[x] = y => Exists(y)'
    BY <1>1, <1>2, <1>4, <2>1, <2>3, NullIsNothing DEF Owners
  <2>7. \A x \in Resources : owner'[x] \in Scopes \cup {Null}
    BY <1>1, <1>2, <2>3
  <2>5. \A b \in Children : owner'[Unlink(b)] = IF owner'[b] = Null THEN Null ELSE b
    BY <1>1, <1>2, <2>1, <2>2 DEF Owners
  <2>6. \A x \in disposed' : Exists(x)'
    BY <1>1, <1>4, <2>1 DEF Owners, ScopeInv, ScopeTypeOK
  <2> QED BY <2>4, <2>5, <2>6, <2>7 DEF Owners
<1>6. /\ \A x \in Resources : owner[x] # Null => owner'[x] = owner[x]
      /\ \A x \in Resources : owner[x] = Null /\ owner'[x] # Null => owner'[x] \notin disposed
  BY <1>1, <1>2, <1>3
<1> QED BY <1>1, <1>5, <1>6, OwnersGrow

LEMMA DetachKeeps == ASSUME ScopeInv, NEW r \in Resources, Detach(r) PROVE RestInv'
<1>1. /\ UNCHANGED <<owner, disposed, calls, ended, failing, threw>> /\ detached' = detached \cup {r}
      /\ r \in Plain \cup Children
  BY DEF Detach, Removed
<1>2. \A c \in Children : Unlink(c) # r
  BY <1>1, ScopeAssumption DEF Scopes
<1> USE DEF ScopeInv
<1>3. ScopeTypeOK' /\ Owners' /\ Endings' /\ Errors'
  BY <1>1 DEF ScopeTypeOK, Owners, Exists, Endings, Errors, Blames
<1>4. Stack' /\ Emptied'
  BY <1>1 DEF Stack, Emptied, Attached
<1>5. Unlinking'
  BY <1>1, <1>2 DEF Unlinking
<1> QED BY <1>3, <1>4, <1>5 DEF RestInv

LEMMA DisposeKeeps == ASSUME ScopeInv, NEW s \in Scopes, Dispose(s) PROVE RestInv'
<1> DEFINE new == [scope |-> s, running |-> Null, failed |-> FALSE]
<1>1. /\ UNCHANGED <<owner, detached, ended, failing, threw>> /\ disposed' = disposed \cup {s}
      /\ Exists(s) /\ s \notin disposed /\ calls' = Append(calls, new)
  BY DEF Dispose, Active, Call
<1>2. new \in CallType /\ new.scope = s /\ new.running = Null /\ new.failed = FALSE
  BY DEF CallType
<1>3. \A y \in ToSet(calls) : y.scope # new.scope
  BY <1>1, <1>2, CallsHold
<1> HIDE DEF new
<1>4. calls' \in Seq(CallType) /\ OneEach(calls') /\ ToSet(calls') = ToSet(calls) \cup {new}
  BY <1>1, <1>2, <1>3, CallsHold, Pushed
<1> USE DEF ScopeInv
<1>5. ScopeTypeOK' /\ Owners' /\ Endings'
  BY <1>1, <1>4 DEF ScopeTypeOK, Owners, Exists, Endings
<1>6. Stack' /\ Unlinking'
  BY <1>1, <1>2, <1>4 DEF Stack, Unlinking
<1>7. Emptied' /\ Errors'
  BY <1>1, <1>2, <1>4 DEF Emptied, Attached, Errors, Blames
<1> QED BY <1>5, <1>6, <1>7 DEF RestInv

(* The calls after the loop took the tail of the scope of the last.      *)
LastCall == Last(calls)
Taken == tail[LastCall.scope]

LEMMA TakeTailCalls ==
    ASSUME ScopeInv, TakeTail
    PROVE  /\ calls' \in Seq(CallType) /\ OneEach(calls') /\ LastCall \in ToSet(calls)
           /\ LastCall.running = Null
           /\ \A x \in ToSet(calls) : x # LastCall => x \in ToSet(calls')
           /\ \E y \in ToSet(calls') : y.scope = LastCall.scope /\ y.failed = LastCall.failed
           /\ \A y \in ToSet(calls') :
                \/ y \in ToSet(calls)
                \/ y.scope = LastCall.scope /\ y.running = Taken /\ y.failed = LastCall.failed
                \/ y.scope = Taken /\ Taken \in disposed' /\ y.running = Null /\ y.failed = FALSE
           /\ Taken \notin Children => \E y \in ToSet(calls') : y.running = Taken
           /\ disposed' = IF Taken \in Children THEN disposed \cup {Taken} ELSE disposed
           /\ Taken \in Children \ disposed => \E y \in ToSet(calls') : y.scope = Taken
<1> DEFINE two == [LastCall EXCEPT !.running = Taken]
           new == [scope |-> Taken, running |-> Null, failed |-> FALSE]
           q == Append(Front(calls), two)
<1>1. calls # <<>> /\ LastCall.running = Null /\ Taken \in Resources /\ LastCall.scope \in Scopes
  BY TakeTailRemoves DEF TakeTail, LastCall, Taken
<1>2. calls \in Seq(CallType) /\ OneEach(calls)
  BY CallsHold
<1>3. LastCall \in ToSet(calls) /\ LastCall \in CallType /\ LastCall.scope \in disposed
  BY <1>1, <1>2, Popped, CallsHold DEF LastCall
<1>4. two \in CallType /\ two.scope = LastCall.scope /\ two.running = Taken /\ two.failed = LastCall.failed
  BY <1>1, <1>3 DEF CallType
<1>5. new.scope = Taken /\ new.running = Null /\ new.failed = FALSE
  OBVIOUS
<1>6. Taken \in Children => new \in CallType
  BY DEF CallType, Scopes
<1>7. /\ IF Taken \in Children /\ Taken \notin disposed
         THEN disposed' = disposed \cup {Taken} /\ calls' = Append(q, new)
         ELSE disposed' = disposed /\ calls' = IF Taken \in Children THEN calls ELSE q
  BY DEF TakeTail, LastCall, Taken
<1> HIDE DEF two, new
<1>8. q \in Seq(CallType) /\ OneEach(q) /\ ToSet(q) = (ToSet(calls) \ {LastCall}) \cup {two}
  BY <1>1, <1>2, <1>4, Replaced DEF LastCall
<1> HIDE DEF q
<1>9. CASE Taken \in Children /\ Taken \notin disposed
  <2>1. \A y \in ToSet(q) : y.scope # new.scope
    BY <1>3, <1>4, <1>5, <1>8, <1>9, CallsHold
  <2>2. /\ Append(q, new) \in Seq(CallType) /\ OneEach(Append(q, new))
        /\ ToSet(Append(q, new)) = ToSet(q) \cup {new}
    BY <1>6, <1>8, <1>9, <2>1, Pushed
  <2>3. ToSet(calls') = (ToSet(calls) \ {LastCall}) \cup {two, new} /\ disposed' = disposed \cup {Taken}
    BY <1>7, <1>8, <1>9, <2>2
  <2>4. \A y \in ToSet(calls') : y \in ToSet(calls) \/ y = two \/ y = new
    BY <2>3
  <2> QED BY <1>1, <1>3, <1>4, <1>5, <1>7, <1>9, <2>2, <2>3, <2>4
<1>10. CASE Taken \in Children /\ Taken \in disposed
  BY <1>1, <1>2, <1>3, <1>7, <1>10
<1>11. CASE Taken \notin Children
  BY <1>1, <1>3, <1>4, <1>7, <1>8, <1>11
<1> QED BY <1>9, <1>10, <1>11

LEMMA InjectiveAppend ==
    ASSUME NEW T, NEW q \in Seq(T), IsInjective(q), NEW x \in T, x \notin ToSet(q)
    PROVE  IsInjective(Append(q, x)) /\ ToSet(Append(q, x)) = ToSet(q) \cup {x}
<1> DEFINE z == Append(q, x)
           m == Len(q)
           E == 1..m
           D == 1..(m + 1)
<1>1. /\ DOMAIN z = D /\ DOMAIN q = E
      /\ \A i \in E : z[i] = q[i]
      /\ z[m + 1] = x
  BY AppendProperties
<1>2. /\ \A i \in D : i # m + 1 => i \in E
      /\ m + 1 \in D /\ \A i \in E : i \in D /\ i # m + 1
  OBVIOUS
<1>3. ToSet(q) = {q[i] : i \in E} /\ ToSet(z) = {z[i] : i \in D}
  BY <1>1 DEF ToSet
<1>4. \A i, j \in E : q[i] = q[j] => i = j
  BY <1>1 DEF IsInjective
<1> DEFINE n == m + 1
<1>5. /\ \A i \in D : i # n => i \in E
      /\ n \in D /\ \A i \in E : i \in D /\ i # n
      /\ z[n] = x
  BY <1>1, <1>2
<1> HIDE DEF z, m, n, D, E
<1>6. \A i, j \in D : z[i] = z[j] => i = j
  BY <1>1, <1>3, <1>4, <1>5
<1>7. {z[i] : i \in D} = {q[i] : i \in E} \cup {x}
  BY <1>1, <1>5
<1> QED BY <1>1, <1>3, <1>6, <1>7 DEF IsInjective, z

LEMMA TakeTailKeeps == ASSUME ScopeInv, TakeTail PROVE RestInv'
<1>1. /\ LastCall.scope \in Scopes /\ Taken \in Resources /\ Taken \notin detached
      /\ owner[Taken] = LastCall.scope
      /\ owner' = owner
  BY TakeTailRemoves DEF In, LastCall, Taken
<1>2. /\ UNCHANGED <<owner, failing, threw>> /\ detached' = detached \cup {Taken}
      /\ ended' = Append(ended, Taken)
  BY DEF TakeTail, LastCall, Taken
<1>3. /\ calls' \in Seq(CallType) /\ OneEach(calls') /\ LastCall \in ToSet(calls)
      /\ LastCall.running = Null
      /\ \A x \in ToSet(calls) : x # LastCall => x \in ToSet(calls')
      /\ \E y \in ToSet(calls') : y.scope = LastCall.scope /\ y.failed = LastCall.failed
      /\ \A y \in ToSet(calls') :
           \/ y \in ToSet(calls)
           \/ y.scope = LastCall.scope /\ y.running = Taken /\ y.failed = LastCall.failed
           \/ y.scope = Taken /\ Taken \in disposed' /\ y.running = Null /\ y.failed = FALSE
      /\ Taken \notin Children => \E y \in ToSet(calls') : y.running = Taken
      /\ disposed' = IF Taken \in Children THEN disposed \cup {Taken} ELSE disposed
      /\ Taken \in Children \ disposed => \E y \in ToSet(calls') : y.scope = Taken
  BY TakeTailCalls
<1>4. LastCall.scope \in disposed
  BY <1>3, CallsHold
<1> USE DEF ScopeInv
<1>5. Endings' /\ ended' \in Seq(Resources)
  <2>1. ended \in Seq(Resources) /\ IsInjective(ended) /\ Taken \notin ToSet(ended)
    BY <1>1 DEF ScopeTypeOK, Endings
  <2>2. IsInjective(ended') /\ ToSet(ended') = ToSet(ended) \cup {Taken}
    BY <1>1, <1>2, <2>1, InjectiveAppend
  <2> QED BY <1>1, <1>2, <1>3, <2>1, <2>2 DEF Endings
<1>6. ScopeTypeOK' /\ disposed \subseteq disposed'
  BY <1>2, <1>3, <1>5 DEF ScopeTypeOK, Scopes
<1>7. Owners'
  <2>1. Taken \in Children => Exists(Taken)
    BY <1>1, NullIsNothing DEF Exists
  <2> QED BY <1>2, <1>3, <2>1 DEF Owners, Exists
<1>8. Stack'
  BY <1>1, <1>2, <1>3, <1>4, <1>6, NullIsNothing DEF Stack
<1>9. Emptied'
  <2>1. \A x \in ToSet(calls) : \E y \in ToSet(calls') : y.scope = x.scope
    BY <1>3
  <2>2. ASSUME NEW s \in disposed', \A y \in ToSet(calls') : y.scope # s PROVE Attached(s)' = {}
    <3>1. s \in disposed /\ \A x \in ToSet(calls) : x.scope # s
      BY <1>3, <2>1, <2>2
    <3> QED BY <1>2, <3>1 DEF Emptied, Attached
  <2> QED BY <2>2 DEF Emptied
<1>10. Unlinking'
  <2>1. ASSUME NEW c \in Children, Unlink(c) = Taken PROVE \E y \in ToSet(calls') : y.running = Unlink(c)
    BY <1>3, <2>1, ScopeAssumption DEF Scopes
  <2>2. ASSUME NEW c \in Children, Unlink(c) # Taken, Unlink(c) \in detached'
        PROVE  \/ c \in detached' \/ owner'[c] \in disposed'
               \/ \E y \in ToSet(calls') : y.running = Unlink(c)
    <3>1. Unlink(c) \in detached /\ Unlink(c) # Null
      BY <1>2, <2>2, ScopeTypes, NullIsNothing
    <3> QED BY <1>2, <1>3, <1>6, <3>1 DEF Unlinking
  <2> QED BY <2>1, <2>2 DEF Unlinking
<1>11. Errors'
  <2>1. \A s : Blames(s)' <=> Blames(s)
    BY <1>2 DEF Blames
  <2>2. \A x \in ToSet(calls) : \E y \in ToSet(calls') : y.scope = x.scope /\ y.failed = x.failed
    BY <1>3
  <2>3. \A y \in ToSet(calls') : y.failed => \E x \in ToSet(calls) : y.scope = x.scope /\ x.failed
    BY <1>3
  <2>4. \A x \in ToSet(calls) : x.failed \in BOOLEAN
    BY CallsHold
  <2>5. \A x \in failing : /\ owner'[x] # Null
                           /\ \/ owner'[x] \in threw
                              \/ \E y \in ToSet(calls') : y.scope = owner'[x] /\ y.failed
    BY <1>2, <2>2, <2>4 DEF Errors
  <2>6. \A y \in ToSet(calls') : y.failed => Blames(y.scope)'
    BY <2>1, <2>3 DEF Errors
  <2> QED BY <1>2, <2>1, <2>5, <2>6 DEF Errors
<1> QED BY <1>5, <1>6, <1>7, <1>8, <1>9, <1>10, <1>11 DEF RestInv

(* A disposer is done, and what it did is noted with the call.             *)
LEMMA FinishKeeps ==
    ASSUME ScopeInv, calls # <<>>, UNCHANGED <<owner, disposed, ended, threw>>,
           NEW fails \in BOOLEAN,
           calls' = Append(Front(calls), [LastCall EXCEPT !.running = Null,
                                                          !.failed = @ \/ fails]),
           detached \subseteq detached', \A r \in detached' \ detached : r \in Children,
           \A r \in detached' : owner[r] # Null,
           failing \subseteq failing', failing' \subseteq Plain,
           \A r \in failing' \ failing : owner[r] = LastCall.scope /\ fails,
           fails => \E r \in failing' \cup (threw \cap Children) : owner[r] = LastCall.scope,
           \A c \in Children : LastCall.running = Unlink(c) => c \in detached' \/ owner[c] \in disposed
    PROVE  RestInv'
<1> DEFINE new == [LastCall EXCEPT !.running = Null, !.failed = @ \/ fails]
<1>1. LastCall \in ToSet(calls) /\ LastCall \in CallType
  BY Popped, CallsHold DEF LastCall
<1>2. /\ new \in CallType /\ new.scope = LastCall.scope /\ new.running = Null
      /\ (new.failed <=> LastCall.failed \/ fails)
  BY <1>1 DEF CallType
<1>3. calls' = Append(Front(calls), new)
  OBVIOUS
<1> HIDE DEF new
<1>4. /\ calls' \in Seq(CallType) /\ OneEach(calls')
      /\ ToSet(calls') = (ToSet(calls) \ {LastCall}) \cup {new}
  BY <1>1, <1>2, <1>3, CallsHold, Replaced DEF LastCall
<1> USE DEF ScopeInv
<1>5. ScopeTypeOK' /\ Owners' /\ Endings'
  BY <1>4 DEF ScopeTypeOK, Owners, Exists, Endings
<1>6. Stack'
  BY <1>1, <1>2, <1>4 DEF Stack
<1>7. Emptied'
  <2>1. \A x \in ToSet(calls) : \E y \in ToSet(calls') : y.scope = x.scope
    BY <1>2, <1>4
  <2>2. \A s \in Scopes : Attached(s)' \subseteq Attached(s)
    BY DEF Attached
  <2> QED BY <2>1, <2>2 DEF Emptied, ScopeTypeOK
<1>8. Unlinking'
  <2>1. ASSUME NEW c \in Children, Unlink(c) \in detached'
        PROVE  \/ c \in detached' \/ owner[c] \in disposed
               \/ \E y \in ToSet(calls') : y.running = Unlink(c)
    <3>1. Unlink(c) \in detached
      BY <2>1, ScopeAssumption DEF Scopes
    <3> QED BY <1>4, <2>1, <3>1 DEF Unlinking
  <2> QED BY <2>1 DEF Unlinking
<1>9. Errors'
  <2>1. ASSUME NEW s, Blames(s) PROVE Blames(s)'
    BY <2>1 DEF Blames
  <2>2. \A s : fails /\ s = LastCall.scope => Blames(s)'
    BY DEF Blames
  <2>3. \A x \in failing' : /\ owner'[x] # Null
                            /\ \/ owner'[x] \in threw'
                               \/ \E y \in ToSet(calls') : y.scope = owner'[x] /\ y.failed
    <3>1. ASSUME NEW x \in failing'
          PROVE  /\ owner[x] # Null
                 /\ \/ owner[x] \in threw
                    \/ \E y \in ToSet(calls') : y.scope = owner[x] /\ y.failed
      <4>1. CASE x \in failing
        BY <1>2, <1>4, <4>1 DEF Errors
      <4>2. CASE x \notin failing
        <5>1. owner[x] = LastCall.scope /\ fails /\ LastCall.scope # Null
          BY <1>1, <3>1, <4>2, CallsHold
        <5> QED BY <1>2, <1>4, <5>1
      <4> QED BY <4>1, <4>2
    <3> QED BY <3>1
  <2>4. \A y \in ToSet(calls') : y.failed => Blames(y.scope)'
    <3>1. \A x \in ToSet(calls) : x.failed => Blames(x.scope)'
      BY <2>1 DEF Errors
    <3> QED BY <1>1, <1>2, <1>4, <2>2, <3>1
  <2>5. \A s \in threw' : Blames(s)'
    BY <2>1 DEF Errors
  <2> QED BY <2>3, <2>4, <2>5 DEF Errors
<1> QED BY <1>5, <1>6, <1>7, <1>8, <1>9 DEF RestInv

LEMMA ReturnKeeps == ASSUME ScopeInv, NEW fails \in BOOLEAN, Return(fails) PROVE RestInv'
<1>1. /\ calls # <<>> /\ LastCall.running \in Plain
      /\ UNCHANGED <<owner, detached, disposed, ended, threw>>
      /\ calls' = Append(Front(calls), [LastCall EXCEPT !.running = Null, !.failed = @ \/ fails])
      /\ failing' = IF fails THEN failing \cup {LastCall.running} ELSE failing
  BY DEF Return, Finished, LastCall
<1>2. LastCall \in ToSet(calls)
  BY <1>1, Popped, CallsHold DEF LastCall
<1>3. owner[LastCall.running] = LastCall.scope
  BY <1>1, <1>2, ScopeTypes, NullIsNothing, CallsHold
<1>4. /\ detached \subseteq detached' /\ \A r \in detached' \ detached : r \in Children
      /\ \A r \in detached' : owner[r] # Null
  BY <1>1, ScopeTypes
<1>5. /\ failing \subseteq failing' /\ failing' \subseteq Plain
      /\ \A r \in failing' \ failing : owner[r] = LastCall.scope /\ fails
      /\ fails => \E r \in failing' \cup (threw \cap Children) : owner[r] = LastCall.scope
  BY <1>1, <1>3 DEF ScopeInv, ScopeTypeOK
<1>6. \A c \in Children : LastCall.running # Unlink(c)
  BY <1>1, ScopeAssumption DEF Scopes
<1> QED BY <1>1, <1>4, <1>5, <1>6, FinishKeeps

LEMMA ReturnChildKeeps == ASSUME ScopeInv, ReturnChild PROVE RestInv'
<1> DEFINE fails == LastCall.running \in threw
<1>1. /\ calls # <<>> /\ LastCall.running \in Children
      /\ UNCHANGED <<owner, detached, disposed, ended, failing, threw>>
      /\ calls' = Append(Front(calls), [LastCall EXCEPT !.running = Null, !.failed = @ \/ fails])
  BY DEF ReturnChild, Finished, LastCall
<1>2. LastCall \in ToSet(calls)
  BY <1>1, Popped, CallsHold DEF LastCall
<1>3. owner[LastCall.running] = LastCall.scope
  BY <1>1, <1>2, ScopeTypes, NullIsNothing, CallsHold
<1>4. /\ detached \subseteq detached' /\ \A r \in detached' \ detached : r \in Children
      /\ \A r \in detached' : owner[r] # Null
  BY <1>1, ScopeTypes
<1>5. /\ failing \subseteq failing' /\ failing' \subseteq Plain
      /\ \A r \in failing' \ failing : owner[r] = LastCall.scope /\ fails
      /\ fails => \E r \in failing' \cup (threw \cap Children) : owner[r] = LastCall.scope
  BY <1>1, <1>3 DEF ScopeInv, ScopeTypeOK
<1>6. \A c \in Children : LastCall.running # Unlink(c)
  BY <1>1, ScopeAssumption DEF Scopes
<1>7. fails \in BOOLEAN
  OBVIOUS
<1> HIDE DEF fails
<1> QED BY <1>1, <1>4, <1>5, <1>6, <1>7, FinishKeeps

LEMMA ReturnUnlinkKeeps == ASSUME ScopeInv, ReturnUnlink PROVE RestInv'
<1> DEFINE c == LastCall.scope
<1>1. /\ calls # <<>> /\ LastCall.running = Unlink(c)
      /\ UNCHANGED <<owner, disposed, ended, failing, threw>>
      /\ detached' = IF Detachable(c) THEN detached \cup {c} ELSE detached
      /\ calls' = Append(Front(calls), [LastCall EXCEPT !.running = Null, !.failed = @ \/ FALSE])
  BY DEF ReturnUnlink, Finished, LastCall, Removed
<1>2. LastCall \in ToSet(calls) /\ LastCall \in CallType
  BY <1>1, Popped, CallsHold DEF LastCall
<1>3. c \in Children /\ LastCall.running # Null
  BY <1>1, <1>2, UnlinksChild
<1>4. owner[Unlink(c)] = c /\ c # Null
  BY <1>1, <1>2, <1>3, CallsHold
<1>5. owner[c] # Null
  BY <1>3, <1>4 DEF ScopeInv, Owners
<1>6. c \in detached' \/ owner[c] \in disposed
  BY <1>1, <1>5 DEF Detachable
<1> HIDE DEF c
<1>7. /\ detached \subseteq detached' /\ \A r \in detached' \ detached : r \in Children
      /\ \A r \in detached' : owner[r] # Null
  BY <1>1, <1>3, <1>5, ScopeTypes
<1>8. failing \subseteq failing' /\ failing' \subseteq Plain /\ failing' \ failing = {}
  BY <1>1 DEF ScopeInv, ScopeTypeOK
<1>9. \A b \in Children : LastCall.running = Unlink(b) => b \in detached' \/ owner[b] \in disposed
  BY <1>1, <1>6 DEF Unlink
<1> QED BY <1>1, <1>7, <1>8, <1>9, FinishKeeps

(* The resources of a scope, or those of them that a list leads to, hold   *)
(* its tail: what has the highest rank has nothing after it.               *)
LEMMA TailIsAmong ==
    ASSUME WellLinked(owner, tail, prev, next, detached), NEW s \in Scopes,
           NEW A \in SUBSET Attached(s), A # {}, \A r \in A : next[r] # Null => next[r] \in A
    PROVE  tail[s] \in A
<1>1. PICK k, top : top \in Nat /\ Ranks(prev, k, top)
  BY DEF WellLinked
<1>2. A \subseteq Resources /\ \A r \in A : In(owner, detached, r) /\ owner[r] = s
  BY NullIsNothing DEF Attached, In
<1>3. \A r \in A : LinkOf(owner, tail, prev, next, detached, r)
  BY <1>2 DEF WellLinked
<1> DEFINE G == {g \in Nat : \E r \in A : g = top - k[r]}
<1>4. \A r \in A : k[r] \in 0..top
  BY <1>1, <1>2 DEF Ranks
<1>5. G \in SUBSET Nat /\ G # {}
  BY <1>1, <1>4
<1>6. PICK g \in G : \A h \in G : g <= h
  <2> HIDE DEF G
  <2> QED BY <1>5, LeastNatural
<1>7. PICK r \in A : g = top - k[r]
  BY <1>6
<1>8. next[r] = Null
  <2>1. SUFFICES ASSUME next[r] # Null PROVE FALSE
    OBVIOUS
  <2>2. next[r] \in A /\ prev[next[r]] = r
    BY <1>2, <1>3, <2>1 DEF LinkOf
  <2>3. k[r] < k[next[r]]
    BY <1>1, <1>2, <2>2, NullIsNothing DEF Ranks
  <2>4. top - k[next[r]] \in G
    BY <1>1, <1>4, <2>2
  <2>5. g <= top - k[next[r]]
    BY <1>6, <2>4
  <2> HIDE DEF G
  <2> QED BY <1>1, <1>4, <1>7, <2>2, <2>3, <2>5
<1> QED BY <1>2, <1>3, <1>7, <1>8 DEF LinkOf

LEMMA EndKeeps == ASSUME ScopeInv, EndOfDispose PROVE RestInv'
<1> DEFINE s == LastCall.scope
<1>1. /\ calls # <<>> /\ LastCall.running = Null /\ tail[s] = Null
      /\ calls' = Front(calls) /\ threw' = IF LastCall.failed THEN threw \cup {s} ELSE threw
      /\ UNCHANGED <<owner, detached, disposed, ended, failing>>
  BY DEF EndOfDispose, LastCall
<1>2. LastCall \in ToSet(calls) /\ LastCall \in CallType /\ s \in Scopes
  BY <1>1, Popped, CallsHold DEF LastCall
<1>3. /\ calls' \in Seq(CallType) /\ OneEach(calls') /\ ToSet(calls') = ToSet(calls) \ {LastCall}
  BY <1>1, Popped, CallsHold DEF LastCall
<1>4. Attached(s) = {}
  <2>1. SUFFICES ASSUME Attached(s) # {} PROVE FALSE
    OBVIOUS
  <2>2. WellLinked(owner, tail, prev, next, detached)
    BY DEF ScopeInv
  <2>3. \A r \in Attached(s) : next[r] # Null => next[r] \in Attached(s)
    <3>1. ASSUME NEW r \in Attached(s), next[r] # Null PROVE next[r] \in Attached(s)
      <4>1. In(owner, detached, r) /\ owner[r] = s /\ r \in Resources
        BY <1>2, <3>1, NullIsNothing DEF Attached, In
      <4>2. LinkOf(owner, tail, prev, next, detached, r)
        BY <2>2, <4>1 DEF WellLinked
      <4> QED BY <3>1, <4>1, <4>2, ScopeTypes DEF LinkOf, Attached, In
    <3> QED BY <3>1
  <2>4. tail[s] \in Attached(s)
    <3> HIDE DEF s
    <3> QED BY <1>2, <2>1, <2>2, <2>3, TailIsAmong
  <2> QED BY <1>1, <2>4, NullIsNothing DEF Attached
<1>5. LastCall.failed \in BOOLEAN
  BY <1>2 DEF CallType
<1> HIDE DEF s
<1> USE DEF ScopeInv
<1>6. ScopeTypeOK' /\ Owners' /\ Endings'
  BY <1>1, <1>2, <1>3 DEF ScopeTypeOK, Owners, Exists, Endings
<1>7. Stack'
  BY <1>1, <1>3 DEF Stack
<1>8. Emptied'
  <2>1. ASSUME NEW x \in disposed', \A y \in ToSet(calls') : y.scope # x PROVE Attached(x)' = {}
    <3>1. Attached(x)' = Attached(x) /\ x \in disposed
      BY <1>1 DEF Attached
    <3>2. CASE x = s
      BY <1>4, <3>1, <3>2
    <3>3. CASE x # s
      BY <1>3, <2>1, <3>1, <3>3 DEF Emptied, s
    <3> QED BY <3>2, <3>3
  <2> QED BY <2>1 DEF Emptied
<1>9. Unlinking'
  BY <1>1, <1>3, NullIsNothing, ScopeTypes DEF Unlinking
<1>10. Errors'
  <2>1. ASSUME NEW x, Blames(x) PROVE Blames(x)'
    BY <1>1, <2>1 DEF Blames
  <2>2. LastCall.failed => Blames(s)
    BY <1>2 DEF Errors, s
  <2>3. \A x \in failing' : /\ owner'[x] # Null
                            /\ \/ owner'[x] \in threw'
                               \/ \E y \in ToSet(calls') : y.scope = owner'[x] /\ y.failed
    BY <1>1, <1>3 DEF Errors, s
  <2>4. \A y \in ToSet(calls') : y.failed => Blames(y.scope)'
    BY <1>3, <2>1 DEF Errors
  <2>5. \A x \in threw' : Blames(x)'
    BY <1>1, <2>1, <2>2 DEF Errors
  <2> QED BY <2>3, <2>4, <2>5 DEF Errors
<1> QED BY <1>6, <1>7, <1>8, <1>9, <1>10 DEF RestInv

(* The invariant holds of the first state, and every step keeps it.        *)
LEMMA ScopeInvInit == ScopeInit => ScopeInv
<1> SUFFICES ASSUME ScopeInit PROVE ScopeInv
  OBVIOUS
<1>1. /\ \A r \in Resources : owner[r] = Null /\ prev[r] = Null /\ next[r] = Null
      /\ \A s \in Scopes : tail[s] = Null
      /\ detached = {} /\ disposed = {} /\ calls = <<>> /\ ended = <<>> /\ failing = {} /\ threw = {}
  BY DEF ScopeInit
<1>2. LinkTypes(owner, tail, prev, next, detached)
  BY DEF ScopeInit, LinkTypes
<1>3. Ranks(prev, [r \in Resources |-> 0], 0)
  BY <1>1 DEF Ranks
<1>4. WellLinked(owner, tail, prev, next, detached)
  <2>1. \E k, top : top \in Nat /\ Ranks(prev, k, top)
    BY <1>3
  <2> QED BY <1>1, <1>2, <2>1 DEF WellLinked, LinkOf, TailOf, In
<1>5. ToSet(calls) = {} /\ ToSet(ended) = {} /\ calls \in Seq(CallType) /\ ended \in Seq(Resources)
  BY <1>1 DEF ToSet
<1>6. OneEach(calls) /\ IsInjective(ended)
  BY <1>1 DEF OneEach, IsInjective
<1>7. \A c \in Children : c \in Resources /\ Unlink(c) \in Resources
  BY DEF Resources
<1> QED BY <1>1, <1>4, <1>5, <1>6, <1>7
        DEF ScopeInv, ScopeTypeOK, Owners, Stack, Emptied, Endings, Unlinking, Errors

LEMMA ScopeInvStep == ScopeInv /\ [ScopeNext]_cvars => ScopeInv'
<1> SUFFICES ASSUME ScopeInv, [ScopeNext]_cvars PROVE ScopeInv'
  OBVIOUS
<1>1. WellLinked(owner, tail, prev, next, detached)'
  BY LinksKept
<1>2. ASSUME UNCHANGED cvars PROVE RestInv'
  BY <1>2 DEF cvars, list, RestInv, ScopeInv, ScopeTypeOK, Owners, Exists, Stack, Emptied, Attached,
              Endings, Unlinking, Errors, Blames
<1>3. RestInv'
  BY <1>2, UseKeeps, CreateKeeps, DetachKeeps, DisposeKeeps, TakeTailKeeps, ReturnKeeps,
     ReturnChildKeeps, ReturnUnlinkKeeps, EndKeeps DEF ScopeNext
<1> QED BY <1>1, <1>3 DEF ScopeInv, RestInv

-----------------------------------------------------------------------------
(* What the list of a scope reads as, from its tail back.                  *)
LEMMA ResourcesFinite == IsFiniteSet(Resources) /\ Cardinality(Resources) \in Nat
<1> DEFINE U == {Unlink(c) : c \in Children}
           f == [c \in Children |-> Unlink(c)]
<1>1. IsFiniteSet(Children) /\ IsFiniteSet(Children \cup Plain)
  BY ScopeAssumption, FS_Subset
<1>2. f \in Surjection(Children, U)
  BY DEF Surjection
<1>3. IsFiniteSet(U)
  <2> HIDE DEF f, U
  <2> QED BY <1>1, <1>2, FS_Surjection
<1>4. IsFiniteSet((Children \cup Plain) \cup U)
  <2> HIDE DEF U
  <2> QED BY <1>1, <1>3, FS_Union
<1>5. Resources = (Children \cup Plain) \cup U
  BY DEF Resources
<1> QED BY <1>4, <1>5, FS_CardinalityType

(* What is read of the list of s after some steps: k ranks.                *)
Read(q, s, k) ==
    /\ q \in Seq(Resources \cup {Null}) /\ q # <<>> /\ q[1] = tail[s]
    /\ \A i \in 1..Len(q) : q[i] # Null => q[i] \in Attached(s)
    /\ \A i \in 1..(Len(q) - 1) : q[i] # Null /\ q[i + 1] = prev[q[i]]
    /\ \A i, j \in 1..Len(q) : i < j /\ q[j] # Null => k[q[j]] < k[q[i]]

LEMMA AttachedLinks ==
    ASSUME WellLinked(owner, tail, prev, next, detached), NEW s \in Scopes, NEW r \in Attached(s)
    PROVE  /\ r \in Resources /\ r # Null
           /\ prev[r] # Null => prev[r] \in Attached(s) /\ next[prev[r]] = r
           /\ next[r] # Null => next[r] \in Attached(s) /\ prev[next[r]] = r
<1>1. In(owner, detached, r) /\ owner[r] = s /\ r \in Resources
  BY NullIsNothing DEF Attached, In
<1>2. LinkOf(owner, tail, prev, next, detached, r) /\ LinkTypes(owner, tail, prev, next, detached)
  BY <1>1 DEF WellLinked
<1> QED BY <1>1, <1>2, NullIsNothing DEF LinkOf, LinkTypes, Attached, In

LEMMA ReadOn ==
    ASSUME WellLinked(owner, tail, prev, next, detached), NEW s \in Scopes, NEW k, NEW top \in Nat,
           Ranks(prev, k, top), NEW q, Read(q, s, k), Last(q) # Null
    PROVE  Read(Append(q, prev[Last(q)]), s, k)
<1> DEFINE T == Resources \cup {Null}
           m == Len(q)
           x == prev[Last(q)]
           z == Append(q, x)
<1>1. q \in Seq(T) /\ m \in Nat \ {0} /\ Last(q) = q[m]
  BY StackTop DEF Read
<1>2. q[m] \in Attached(s) /\ m \in 1..m
  BY <1>1 DEF Read
<1>3. x \in T /\ (x # Null => x \in Attached(s) /\ k[x] < k[q[m]])
  <2>1. q[m] \in Resources /\ prev \in [Resources -> T]
    BY <1>2, AttachedLinks DEF WellLinked, LinkTypes
  <2> QED BY <1>1, <1>2, <2>1, AttachedLinks DEF Ranks
<1>4. /\ z \in Seq(T) /\ Len(z) = m + 1 /\ z # <<>>
      /\ \A i \in 1..m : z[i] = q[i]
      /\ z[m + 1] = x
  <2> HIDE DEF x
  <2> QED BY <1>1, <1>3, AppendProperties
<1>5. \A i \in 1..m : q[i] # Null => k[q[i]] \in 0..top
  <2>1. \A r \in Attached(s) : k[r] \in 0..top
    BY AttachedLinks DEF Ranks
  <2> QED BY <2>1 DEF Read
<1>6. x # Null => k[x] \in 0..top
  BY <1>3, AttachedLinks DEF Ranks
<1>7. x = prev[q[m]]
  BY <1>1
<1> HIDE DEF x, z, m
<1>8. \A i \in 1..(m + 1) : z[i] # Null => z[i] \in Attached(s)
  <2>1. \A i \in 1..(m + 1) : i \in 1..m \/ i = m + 1
    BY <1>1
  <2> QED BY <1>3, <1>4, <2>1 DEF Read, m
<1>9. \A i \in 1..m : z[i] # Null /\ z[i + 1] = prev[z[i]]
  <2>1. \A i \in 1..m : i # m => i \in 1..(m - 1) /\ i + 1 \in 1..m
    BY <1>1
  <2>2. \A i \in 1..(m - 1) : q[i] # Null /\ q[i + 1] = prev[q[i]]
    BY DEF Read, m
  <2>3. q[m] # Null
    BY <1>2, AttachedLinks
  <2> QED BY <1>4, <1>7, <2>1, <2>2, <2>3
<1>10. ASSUME NEW i \in 1..(m + 1), NEW j \in 1..(m + 1), i < j, z[j] # Null PROVE k[z[j]] < k[z[i]]
  <2>1. i \in 1..m /\ z[i] = q[i]
    BY <1>1, <1>4, <1>10
  <2>2. CASE j \in 1..m
    BY <1>4, <1>10, <2>1, <2>2 DEF Read, m
  <2>3. CASE j = m + 1
    <3>1. k[x] < k[q[m]] /\ z[j] = x
      BY <1>3, <1>4, <1>10, <2>3
    <3>2. CASE i = m
      BY <2>1, <3>1, <3>2
    <3>3. CASE i # m
      <4>1. i < m /\ m \in 1..m /\ q[m] # Null
        BY <1>1, <1>2, <2>1, <3>3, AttachedLinks
      <4>2. k[q[m]] < k[q[i]] /\ q[i] # Null
        <5>1. i \in 1..(m - 1)
          BY <1>1, <2>1, <4>1
        <5> QED BY <2>1, <4>1, <5>1 DEF Read, m
      <4>3. k[q[m]] \in 0..top /\ k[q[i]] \in 0..top /\ k[x] \in 0..top
        BY <1>3, <1>4, <1>5, <1>6, <1>10, <2>1, <3>1, <4>1, <4>2
      <4> QED BY <2>1, <3>1, <4>2, <4>3
    <3> QED BY <3>2, <3>3
  <2> QED BY <1>1, <2>2, <2>3
<1>11. z[1] = tail[s] /\ (m + 1) - 1 = m
  BY <1>1, <1>4 DEF Read
<1>12. Read(z, s, k)
  BY <1>4, <1>8, <1>9, <1>10, <1>11 DEF Read
<1> QED BY <1>12 DEF z, x

(* One step of reading.                                                    *)
ReadStep(q) == IF Last(q) = Null THEN q ELSE Append(q, prev[Last(q)])

(* The reading ends, and it holds what is attached, each once.             *)
LEMMA ChainReads ==
    ASSUME WellLinked(owner, tail, prev, next, detached), NEW s \in Scopes
    PROVE  /\ Chain(s) \in Seq(Resources) /\ IsInjective(Chain(s))
           /\ ToSet(Chain(s)) = Attached(s)
           /\ \A i \in 1..(Len(Chain(s)) - 1) : next[Chain(s)[i + 1]] = Chain(s)[i]
<1> DEFINE N == Cardinality(Resources)
           T == Seq(Resources \cup {Null}) \ {<<>>}
           step == [q \in T |-> IF Last(q) = Null THEN q ELSE Append(q, prev[Last(q)])]
           B == CHOOSE Back : Back = [n \in 0..N |-> IF n = 0 THEN <<tail[s]>>
                                        ELSE IF Last(Back[n - 1]) = Null THEN Back[n - 1]
                                        ELSE Append(Back[n - 1], prev[Last(Back[n - 1])])]
<1>1. PICK k, top : top \in Nat /\ Ranks(prev, k, top)
  BY DEF WellLinked
<1>2. /\ prev \in [Resources -> Resources \cup {Null}] /\ tail[s] \in Resources \cup {Null}
      /\ tail[s] # Null => tail[s] \in Attached(s) /\ next[tail[s]] = Null
  BY NullIsNothing DEF WellLinked, LinkTypes, TailOf, Attached, In
<1>3. N \in Nat
  BY ResourcesFinite
<1>4. <<tail[s]>> \in T
  BY <1>2
<1>5. step \in [T -> T]
  <2>1. ASSUME NEW q \in T PROVE step[q] \in T
    <3>1. q \in Seq(Resources \cup {Null}) /\ q # <<>>
      OBVIOUS
    <3>2. Last(q) \in Resources \cup {Null}
      BY <3>1, StackTop
    <3>3. Last(q) # Null => prev[Last(q)] \in Resources \cup {Null}
      BY <1>2, <3>2
    <3>4. Last(q) # Null => Append(q, prev[Last(q)]) \in T
      <4>1. SUFFICES ASSUME Last(q) # Null PROVE Append(q, prev[Last(q)]) \in T
        OBVIOUS
      <4>2. /\ Append(q, prev[Last(q)]) \in Seq(Resources \cup {Null})
            /\ Len(Append(q, prev[Last(q)])) = Len(q) + 1 /\ Len(q) \in Nat
        BY <3>1, <3>3, <4>1, AppendProperties
      <4> QED BY <4>2
    <3> QED BY <3>4
  <2> QED BY <2>1
<1>6. PICK b : Iterates(b, N, T, <<tail[s]>>, step)
  <2> HIDE DEF N, T, step
  <2> QED BY <1>3, <1>4, <1>5, Iteration
<1>7. b = [n \in 0..N |-> IF n = 0 THEN <<tail[s]>>
                          ELSE IF Last(b[n - 1]) = Null THEN b[n - 1]
                          ELSE Append(b[n - 1], prev[Last(b[n - 1])])]
  <2>1. ASSUME NEW n \in 0..N, n # 0
        PROVE  step[b[n - 1]] = IF Last(b[n - 1]) = Null THEN b[n - 1]
                                ELSE Append(b[n - 1], prev[Last(b[n - 1])])
    <3>1. n - 1 \in 0..N
      BY <1>3, <2>1
    <3>2. b[n - 1] \in T
      BY <1>6, <3>1 DEF Iterates
    <3> HIDE DEF T
    <3> QED BY <3>2
  <2>2. \A n \in 1..N : n \in 0..N /\ n # 0
    BY <1>3
  <2>3. \A n \in 0..N : n # 0 => n \in 1..N
    BY <1>3
  <2> HIDE DEF N, step, T
  <2> QED BY <1>6, <2>1, <2>2, <2>3 DEF Iterates
<1>8. B = [n \in 0..N |-> IF n = 0 THEN <<tail[s]>>
                          ELSE IF Last(B[n - 1]) = Null THEN B[n - 1]
                          ELSE Append(B[n - 1], prev[Last(B[n - 1])])]
  BY <1>7
<1>9. B[0] = <<tail[s]>> /\ \A n \in 1..N : B[n] = ReadStep(B[n - 1])
  <2>1. B = [n \in 0..N |-> IF n = 0 THEN <<tail[s]>> ELSE ReadStep(B[n - 1])]
    <3> HIDE DEF B, N
    <3> QED BY <1>8 DEF ReadStep
  <2>2. 0 \in 0..N /\ \A n \in 1..N : n \in 0..N /\ n # 0
    BY <1>3
  <2> HIDE DEF B, N
  <2> QED BY <2>1, <2>2
<1>10. Chain(s) = Front(B[N])
  BY DEF Chain
<1> HIDE DEF B, N, step, T
<1> DEFINE Good(n) == Read(B[n], s, k) /\ (Last(B[n]) = Null \/ Len(B[n]) = n + 1)
           Fails == {n \in 0..N : ~ Good(n)}
<1>11. Good(N)
  <2> SUFFICES ASSUME Fails # {} PROVE FALSE
    BY <1>3
  <2>1. PICK n \in Fails : \A m \in Fails : n <= m
    BY LeastNatural, Fails \in SUBSET Nat
  <2>2. CASE n = 0
    <3>1. B[0] \in Seq(Resources \cup {Null}) /\ B[0] # <<>> /\ Len(B[0]) = 1 /\ B[0][1] = tail[s]
      BY <1>2, <1>9
    <3>2. Read(B[0], s, k)
      BY <1>2, <3>1 DEF Read
    <3> QED BY <2>1, <2>2, <3>1, <3>2
  <2>3. CASE n # 0
    <3>1. n - 1 \in 0..N /\ n \in 1..N /\ n \in Nat
      BY <1>3, <2>3
    <3>2. Good(n - 1)
      BY <2>1, <3>1
    <3>3. CASE Last(B[n - 1]) = Null
      <4>1. B[n] = B[n - 1]
        BY <1>9, <3>1, <3>3 DEF ReadStep
      <4> QED BY <2>1, <3>2, <3>3, <4>1
    <3>4. CASE Last(B[n - 1]) # Null
      <4>0. n - 1 + 1 = n
        BY <3>1
      <4>1. B[n] = Append(B[n - 1], prev[Last(B[n - 1])])
        BY <1>9, <3>1, <3>4 DEF ReadStep
      <4>4. Len(B[n - 1]) = n
        BY <3>2, <3>4, <4>0
      <4>2. Read(B[n], s, k)
        BY <1>1, <3>2, <3>4, <4>1, ReadOn
      <4>3. Len(B[n]) = n + 1
        BY <3>2, <4>1, <4>4 DEF Read
      <4> QED BY <2>1, <4>2, <4>3
    <3> QED BY <3>3, <3>4
  <2> QED BY <2>2, <2>3
<1> DEFINE q == B[N]
           m == Len(q)
<1>12. /\ q \in Seq(Resources \cup {Null}) /\ q # <<>> /\ m \in Nat \ {0} /\ Last(q) = q[m]
       /\ Len(Front(q)) = m - 1 /\ DOMAIN Front(q) = 1..(m - 1) /\ Front(q) \in Seq(Resources \cup {Null})
       /\ \A i \in 1..(m - 1) : Front(q)[i] = q[i]
  BY <1>11, StackTop DEF Read
<1>13. Read(q, s, k) /\ (Last(q) = Null \/ m = N + 1)
  BY <1>11
<1> HIDE DEF q, m, Good
<1>14. \A i \in 1..m : q[i] # Null => q[i] \in Resources /\ k[q[i]] \in 0..top
  BY <1>1, <1>13 DEF Read, Attached, Ranks, m
<1>15. \A i, j \in 1..m : q[i] = q[j] /\ q[i] # Null => i = j
  <2>1. ASSUME NEW i \in 1..m, NEW j \in 1..m, q[i] = q[j], q[i] # Null, i < j PROVE FALSE
    <3>1. k[q[j]] < k[q[i]]
      BY <1>13, <2>1 DEF Read, m
    <3> QED BY <1>14, <2>1, <3>1
  <2> QED BY <2>1
<1>16. Last(q) = Null
  <2>1. SUFFICES ASSUME Last(q) # Null PROVE FALSE
    OBVIOUS
  <2>2. \A i \in 1..m : q[i] # Null
    <3>1. \A i \in 1..m : i # m => i \in 1..(m - 1)
      BY <1>12
    <3> QED BY <1>12, <1>13, <2>1, <3>1 DEF Read, m
  <2> DEFINE f == [i \in 1..m |-> q[i]]
  <2>3. f \in Injection(1..m, Resources)
    BY <1>14, <1>15, <2>2 DEF Injection, IsInjective
  <2>4. Cardinality(1..m) <= Cardinality(Resources)
    BY <2>3, ResourcesFinite, FS_Injection
  <2>5. Cardinality(1..m) = m
    BY <1>12, FS_Interval
  <2> QED BY <1>3, <1>13, <2>1, <2>4, <2>5 DEF N
<1>17. \A i \in 1..(m - 1) : q[i] # Null /\ q[i] \in Attached(s) /\ i \in 1..m /\ i + 1 \in 1..m
  BY <1>12, <1>13 DEF Read, m
<1> DEFINE c == Front(q)
<1>18. c \in Seq(Resources)
  <2>1. \A i \in 1..(m - 1) : c[i] \in Resources
    BY <1>12, <1>14, <1>17
  <2>2. c = [i \in 1..(m - 1) |-> c[i]]
    BY <1>12
  <2>3. m - 1 \in Nat
    BY <1>12
  <2> HIDE DEF c
  <2>4. c \in [1..(m - 1) -> Resources]
    BY <2>1, <2>2
  <2> QED BY <2>3, <2>4
<1>19. IsInjective(c)
  <2>1. \A i, j \in 1..(m - 1) : c[i] = c[j] => i = j
    BY <1>12, <1>15, <1>17
  <2> QED BY <1>12, <2>1 DEF IsInjective
<1>20. ASSUME NEW i \in 1..(Len(c) - 1) PROVE next[c[i + 1]] = c[i]
  <2>1. i \in 1..(m - 1) /\ i + 1 \in 1..(m - 1)
    BY <1>12, <1>20
  <2>2. c[i] = q[i] /\ c[i + 1] = q[i + 1] /\ q[i + 1] = prev[q[i]] /\ q[i] \in Attached(s)
        /\ q[i + 1] # Null
    BY <1>12, <1>13, <1>17, <2>1 DEF Read, m
  <2> QED BY <2>2, AttachedLinks
<1>21. ToSet(c) = Attached(s)
  <2>1. ToSet(c) = {q[i] : i \in 1..(m - 1)}
    BY <1>12 DEF ToSet
  <2>2. ToSet(c) \subseteq Attached(s)
    BY <1>17, <2>1
  <2> DEFINE A == Attached(s) \ ToSet(c)
  <2>3. SUFFICES ASSUME A # {} PROVE FALSE
    BY <2>2
  <2>4. \A r \in ToSet(c) : prev[r] # Null => prev[r] \in ToSet(c)
    <3>1. ASSUME NEW i \in 1..(m - 1), prev[q[i]] # Null PROVE prev[q[i]] \in ToSet(c)
      <4>1. q[i + 1] = prev[q[i]]
        BY <1>13 DEF Read, m
      <4>2. i + 1 # m
        BY <1>12, <1>16, <3>1, <4>1
      <4>3. i + 1 \in 1..(m - 1)
        BY <1>12, <4>2
      <4> QED BY <2>1, <4>1, <4>3
    <3> QED BY <2>1, <3>1
  <2>5. \A r \in A : next[r] # Null => next[r] \in A
    <3>1. \A r \in Attached(s) : next[r] # Null => next[r] \in Attached(s) /\ prev[next[r]] = r /\ r # Null
      BY AttachedLinks
    <3> QED BY <2>4, <3>1
  <2>6. A \in SUBSET Attached(s)
    OBVIOUS
  <2> HIDE DEF A
  <2>7. tail[s] \in A
    BY <2>3, <2>5, <2>6, TailIsAmong
  <2>8. tail[s] \in Attached(s) /\ tail[s] # Null
    BY <2>6, <2>7, AttachedLinks
  <2>9. tail[s] = q[1] /\ q[1] # q[m]
    BY <1>12, <1>13, <1>16, <2>8 DEF Read
  <2>10. 1 \in 1..(m - 1)
    BY <1>12, <2>9
  <2>11. tail[s] \in ToSet(c)
    BY <2>1, <2>9, <2>10
  <2> QED BY <2>7, <2>11 DEF A
<1> QED BY <1>10, <1>18, <1>19, <1>20, <1>21 DEF q

(* Scopes in whose dispose() the program is are those of the calls.        *)
LEMMA RunningScopes ==
    ASSUME ScopeInv, NEW s, s \notin Running PROVE \A x \in ToSet(calls) : x.scope # s
BY DEF Running, ToSet

LEMMA InvIsSound == ScopeInv => ScopesAreSound
<1> SUFFICES ASSUME ScopeInv PROVE ScopesAreSound
  OBVIOUS
<1>1. NothingIsForgotten
  <2>1. ASSUME NEW s \in Scopes
        PROVE  /\ ToSet(Chain(s)) = Attached(s) /\ Len(Chain(s)) = Cardinality(Attached(s))
               /\ \A i \in 1..(Len(Chain(s)) - 1) : next[Chain(s)[i + 1]] = Chain(s)[i]
    <3>1. /\ Chain(s) \in Seq(Resources) /\ IsInjective(Chain(s)) /\ ToSet(Chain(s)) = Attached(s)
          /\ \A i \in 1..(Len(Chain(s)) - 1) : next[Chain(s)[i + 1]] = Chain(s)[i]
      BY ChainReads DEF ScopeInv
    <3> DEFINE c == Chain(s)
               n == Len(c)
               f == [i \in 1..n |-> c[i]]
    <3> HIDE DEF c
    <3>2. c \in Seq(Resources) /\ IsInjective(c) /\ ToSet(c) = Attached(s) /\ n \in Nat /\ DOMAIN c = 1..n
      BY <3>1 DEF c
    <3>3. /\ \A i, j \in 1..n : c[i] = c[j] => i = j
          /\ \A i \in 1..n : c[i] \in Attached(s)
          /\ \A r \in Attached(s) : \E i \in 1..n : r = c[i]
      BY <3>2 DEF IsInjective, ToSet
    <3> HIDE DEF n
    <3>4. f \in Bijection(1..n, Attached(s))
      BY <3>3 DEF Bijection, Injection, Surjection, IsInjective
    <3>5. ExistsBijection(1..n, Attached(s))
      BY <3>4 DEF ExistsBijection
    <3>6. Cardinality(Attached(s)) = n
      BY <3>2, <3>5, FS_CountingElements
    <3> QED BY <3>1, <3>6 DEF c, n
  <2>2. ASSUME NEW s \in Scopes, s \in disposed \ Running PROVE Attached(s) = {}
    BY <2>2, RunningScopes DEF ScopeInv, Emptied
  <2>3. IsInjective(ended) /\ ToSet(ended) \subseteq detached
    BY DEF ScopeInv, Endings
  <2> QED BY <2>1, <2>2, <2>3 DEF NothingIsForgotten
<1>2. ChildrenFollow
  <2>1. ASSUME NEW c \in Children, owner[c] # Null, c \in disposed \ Running, c \notin detached
        PROVE  owner[c] \in Running
    <3>1. /\ Unlink(c) \in Resources /\ owner[Unlink(c)] = c /\ c \in Scopes /\ c \in Resources
          /\ owner[c] \in Scopes /\ c # Null
      BY <2>1, ScopeTypes, NullIsNothing DEF ScopeInv, Owners
    <3>2. \A x \in ToSet(calls) : x.scope # c
      BY <2>1, RunningScopes
    <3>3. Unlink(c) \in detached
      BY <2>1, <3>1, <3>2 DEF ScopeInv, Emptied, Attached
    <3>4. \A x \in ToSet(calls) : x.running # Unlink(c)
      BY <3>1, <3>2, CallsHold, NullIsNothing
    <3>5. owner[c] \in disposed
      BY <2>1, <3>3, <3>4 DEF ScopeInv, Unlinking
    <3>6. Attached(owner[c]) # {}
      BY <2>1, <3>1 DEF Attached
    <3> QED BY <3>5, <3>6, RunningScopes DEF ScopeInv, Emptied
  <2> QED BY <2>1 DEF ChildrenFollow, ScopeInv, Endings
<1>3. ErrorsAreThrown
  <2>1. ASSUME NEW s \in disposed \ Running
        PROVE  (\E r \in failing : owner[r] = s) => s \in threw
    BY <2>1, RunningScopes DEF ScopeInv, Errors
  <2>2. \A s \in threw : \E r \in failing \cup (threw \cap Children) : owner[r] = s
    BY DEF ScopeInv, Errors, Blames
  <2> QED BY <2>1, <2>2 DEF ErrorsAreThrown
<1> QED BY <1>1, <1>2, <1>3 DEF ScopesAreSound

(* Whatever is attached, detached and disposed, by the program and by the  *)
(* disposers: the list of a scope holds what it owns, each once and with   *)
(* links that agree; a disposed scope owns nothing any more, its children  *)
(* are disposed with it, and what failed in it is thrown (scope.ts).       *)
THEOREM ScopesStaySound == ScopeSpec => []ScopesAreSound
<1>1. ScopeInit => ScopeInv
  BY ScopeInvInit
<1>2. ScopeInv /\ [ScopeNext]_cvars => ScopeInv'
  BY ScopeInvStep
<1>3. ScopeInv => ScopesAreSound
  BY InvIsSound
<1> QED BY <1>1, <1>2, <1>3, PTL DEF ScopeSpec

-----------------------------------------------------------------------------
(* The items of an array (FormArray): sequences without repetition.        *)
LEMMA InjectiveSet ==
    ASSUME NEW T, NEW q \in Seq(T), IsInjective(q)
    PROVE  /\ Len(q) \in Nat /\ DOMAIN q = 1..Len(q) /\ ToSet(q) = {q[i] : i \in 1..Len(q)}
           /\ ToSet(q) \subseteq T
           /\ \A i, j \in 1..Len(q) : q[i] = q[j] => i = j
BY DEF ToSet, IsInjective

LEMMA InsertedAt ==
    ASSUME NEW T, NEW s \in Seq(T), IsInjective(s), NEW e \in T, e \notin ToSet(s),
           NEW i \in 1..(Len(s) + 1)
    PROVE  /\ InsertAt(s, i, e) \in Seq(T) /\ IsInjective(InsertAt(s, i, e))
           /\ ToSet(InsertAt(s, i, e)) = ToSet(s) \cup {e}
           /\ Len(InsertAt(s, i, e)) = Len(s) + 1
<1> DEFINE m == Len(s)
           a == SubSeq(s, 1, i - 1)
           b == SubSeq(s, i, m)
           y == a \o <<e>>
           z == InsertAt(s, i, e)
<1>1. m \in Nat /\ DOMAIN s = 1..m /\ (\A j \in 1..m : s[j] \in T) /\ i \in Int
  BY ElementOfSeq
<1>2. /\ a \in Seq(T) /\ Len(a) = i - 1 /\ \A j \in 1..(i - 1) : a[j] = s[j]
  BY <1>1, SubSeqProperties
<1>3. /\ b \in Seq(T) /\ Len(b) = m - i + 1 /\ \A j \in 1..(m - i + 1) : b[j] = s[i + j - 1]
  BY <1>1, SubSeqProperties
<1>4. z = y \o b
  BY DEF InsertAt
<1> HIDE DEF a, b, z, m
<1>5. /\ y \in Seq(T) /\ Len(y) = i
      /\ \A j \in 1..i : y[j] = IF j <= i - 1 THEN s[j] ELSE e
  BY <1>1, <1>2, ConcatProperties
<1> HIDE DEF y
<1>6. /\ z \in Seq(T) /\ Len(z) = m + 1
      /\ \A j \in 1..(m + 1) : z[j] = IF j <= i THEN y[j] ELSE b[j - i]
  <2>1. y \in Seq(T) /\ Len(y) = i /\ i + (m - i + 1) = m + 1
    BY <1>1, <1>5
  <2>2. /\ y \o b \in Seq(T) /\ Len(y \o b) = Len(y) + Len(b)
        /\ \A j \in 1..(Len(y) + Len(b)) : (y \o b)[j] = IF j <= Len(y) THEN y[j] ELSE b[j - Len(y)]
    BY <1>3, <2>1, ConcatProperties
  <2> DEFINE w == y \o b
  <2> HIDE DEF w
  <2>3. /\ w \in Seq(T) /\ Len(w) = Len(y) + Len(b) /\ z = w
        /\ \A j \in 1..(Len(y) + Len(b)) : w[j] = IF j <= Len(y) THEN y[j] ELSE b[j - Len(y)]
    BY <1>4, <2>2 DEF w
  <2>4. Len(y) = i /\ Len(y) + Len(b) = m + 1
    BY <1>3, <2>1
  <2> QED BY <2>3, <2>4
<1>7. \A j \in 1..(m + 1) : z[j] = IF j < i THEN s[j] ELSE IF j = i THEN e ELSE s[j - 1]
  <2>1. ASSUME NEW j \in 1..(m + 1), j < i PROVE z[j] = s[j]
    <3>1. j \in 1..i /\ j <= i /\ j <= i - 1
      BY <1>1, <2>1
    <3>2. z[j] = y[j]
      BY <1>6, <3>1
    <3>3. y[j] = s[j]
      BY <1>5, <3>1
    <3> QED BY <3>2, <3>3
  <2>2. ASSUME NEW j \in 1..(m + 1), j = i PROVE z[j] = e
    BY <1>1, <1>5, <1>6, <2>2
  <2>3. ASSUME NEW j \in 1..(m + 1), j > i PROVE z[j] = s[j - 1]
    <3>1. j - i \in 1..(m - i + 1) /\ i + (j - i) - 1 = j - 1 /\ ~(j <= i)
      BY <1>1, <2>3
    <3>2. z[j] = b[j - i]
      BY <1>6, <3>1
    <3>3. b[j - i] = s[i + (j - i) - 1]
      BY <1>3, <3>1
    <3> QED BY <3>1, <3>2, <3>3
  <2> QED BY <1>1, <2>1, <2>2, <2>3
<1>8. ToSet(s) = {s[j] : j \in 1..m} /\ \A j, k \in 1..m : s[j] = s[k] => j = k
  BY InjectiveSet DEF m
<1>9. DOMAIN z = 1..(m + 1)
  BY <1>6
<1>10. \A j, k \in 1..(m + 1) : z[j] = z[k] => j = k
  <2>1. ASSUME NEW j \in 1..(m + 1), j # i PROVE z[j] # e
    <3>1. (j < i => j \in 1..m) /\ (j > i => j - 1 \in 1..m)
      BY <1>1, <2>1
    <3> QED BY <1>1, <1>7, <1>8, <2>1, <3>1
  <2>2. ASSUME NEW j \in 1..(m + 1), NEW k \in 1..(m + 1), j # i, k # i, z[j] = z[k] PROVE j = k
    <3> DEFINE J == IF j < i THEN j ELSE j - 1
               K == IF k < i THEN k ELSE k - 1
    <3>1. J \in 1..m /\ K \in 1..m /\ (J = K => j = k)
      BY <1>1, <2>2
    <3>2. z[j] = s[J] /\ z[k] = s[K]
      BY <1>1, <1>7, <2>2
    <3> QED BY <1>8, <2>2, <3>1, <3>2
  <2> QED BY <1>7, <2>1, <2>2
<1>11. ToSet(z) = ToSet(s) \cup {e}
  <2>1. ToSet(z) = {z[j] : j \in 1..(m + 1)}
    BY <1>9 DEF ToSet
  <2>2. \A j \in 1..(m + 1) : z[j] = e \/ \E k \in 1..m : z[j] = s[k]
    <3>1. \A j \in 1..(m + 1) : (j < i => j \in 1..m) /\ (j > i => j - 1 \in 1..m)
      BY <1>1
    <3> QED BY <1>1, <1>7, <3>1
  <2>3. \A k \in 1..m : \E j \in 1..(m + 1) : z[j] = s[k]
    <3>1. ASSUME NEW k \in 1..m PROVE \E j \in 1..(m + 1) : z[j] = s[k]
      <4>1. CASE k < i
        <5>1. k \in 1..(m + 1)
          BY <1>1
        <5> QED BY <1>7, <4>1, <5>1
      <4>2. CASE ~(k < i)
        <5>1. k + 1 \in 1..(m + 1) /\ ~(k + 1 < i) /\ k + 1 # i /\ k + 1 - 1 = k
          BY <1>1, <4>2
        <5> QED BY <1>7, <5>1
      <4> QED BY <4>1, <4>2
    <3> QED BY <3>1
  <2>4. z[i] = e /\ i \in 1..(m + 1)
    BY <1>1, <1>7 DEF m
  <2> DEFINE D == 1..(m + 1)
             E == 1..m
  <2> HIDE DEF D, E
  <2> QED BY <1>8, <2>1, <2>2, <2>3, <2>4 DEF D, E
<1> QED BY <1>6, <1>9, <1>10, <1>11 DEF IsInjective, z, m

LEMMA RemovedAt ==
    ASSUME NEW T, NEW s \in Seq(T), IsInjective(s), NEW i \in 1..Len(s)
    PROVE  /\ RemoveAt(s, i) \in Seq(T) /\ IsInjective(RemoveAt(s, i))
           /\ ToSet(RemoveAt(s, i)) = ToSet(s) \ {s[i]}
           /\ Len(RemoveAt(s, i)) = Len(s) - 1 /\ s[i] \in T
<1> DEFINE m == Len(s)
           a == SubSeq(s, 1, i - 1)
           b == SubSeq(s, i + 1, m)
           z == RemoveAt(s, i)
<1>1. m \in Nat /\ DOMAIN s = 1..m /\ (\A j \in 1..m : s[j] \in T) /\ i \in Int
  BY ElementOfSeq
<1>2. /\ a \in Seq(T) /\ Len(a) = i - 1 /\ \A j \in 1..(i - 1) : a[j] = s[j]
  BY <1>1, SubSeqProperties
<1>3. /\ b \in Seq(T) /\ Len(b) = m - i /\ \A j \in 1..(m - i) : b[j] = s[i + j]
  <2>1. /\ b \in Seq(T) /\ Len(b) = IF i + 1 <= m THEN m - (i + 1) + 1 ELSE 0
        /\ \A j \in 1..(m - (i + 1) + 1) : b[j] = s[(i + 1) + j - 1]
    BY <1>1, SubSeqProperties
  <2> HIDE DEF b, m
  <2>2. m - (i + 1) + 1 = m - i /\ i <= m
    BY <1>1 DEF m
  <2>3. \A j \in 1..(m - i) : (i + 1) + j - 1 = i + j
    BY <1>1
  <2>4. Len(b) = m - i
    BY <1>1, <2>1, <2>2
  <2>5. \A j \in 1..(m - i) : b[j] = s[i + j]
    <3> SUFFICES ASSUME NEW j \in 1..(m - i) PROVE b[j] = s[i + j]
      OBVIOUS
    <3>1. b[j] = s[(i + 1) + j - 1]
      BY <2>1, <2>2
    <3> QED BY <2>3, <3>1
  <2> QED BY <2>1, <2>4, <2>5
<1>4. z = a \o b
  BY DEF RemoveAt
<1> HIDE DEF a, b, z, m
<1>5. /\ z \in Seq(T) /\ Len(z) = m - 1
      /\ \A j \in 1..(m - 1) : z[j] = IF j <= i - 1 THEN a[j] ELSE b[j - (i - 1)]
  <2>1. (i - 1) + (m - i) = m - 1
    BY <1>1
  <2>2. /\ a \o b \in Seq(T) /\ Len(a \o b) = Len(a) + Len(b)
        /\ \A j \in 1..(Len(a) + Len(b)) : (a \o b)[j] = IF j <= Len(a) THEN a[j] ELSE b[j - Len(a)]
    BY <1>2, <1>3, ConcatProperties
  <2> DEFINE w == a \o b
  <2> HIDE DEF w
  <2>3. /\ w \in Seq(T) /\ Len(w) = Len(a) + Len(b) /\ z = w
        /\ \A j \in 1..(Len(a) + Len(b)) : w[j] = IF j <= Len(a) THEN a[j] ELSE b[j - Len(a)]
    BY <1>4, <2>2 DEF w
  <2>4. Len(a) = i - 1 /\ Len(a) + Len(b) = m - 1
    BY <1>2, <1>3, <2>1
  <2> QED BY <2>3, <2>4
<1>6. \A j \in 1..(m - 1) : z[j] = IF j < i THEN s[j] ELSE s[j + 1]
  <2>1. ASSUME NEW j \in 1..(m - 1), j < i PROVE z[j] = s[j]
    BY <1>1, <1>2, <1>5, <2>1
  <2>2. ASSUME NEW j \in 1..(m - 1), ~(j < i) PROVE z[j] = s[j + 1]
    <3>1. j - (i - 1) \in 1..(m - i) /\ i + (j - (i - 1)) = j + 1 /\ ~(j <= i - 1)
      BY <1>1, <2>2
    <3> QED BY <1>3, <1>5, <2>2, <3>1
  <2> QED BY <1>1, <2>1, <2>2
<1>7. ToSet(s) = {s[j] : j \in 1..m} /\ (\A j, k \in 1..m : s[j] = s[k] => j = k) /\ i \in 1..m
  BY InjectiveSet DEF m
<1>8. DOMAIN z = 1..(m - 1)
  BY <1>5
<1> DEFINE At(j) == IF j < i THEN j ELSE j + 1
<1>9. \A j \in 1..(m - 1) : z[j] = s[At(j)] /\ At(j) \in 1..m /\ At(j) # i
  BY <1>1, <1>6
<1>10. \A j, k \in 1..(m - 1) : At(j) = At(k) => j = k
  BY <1>1
<1>11. \A k \in 1..m : k # i => \E j \in 1..(m - 1) : At(j) = k
  <2>1. ASSUME NEW k \in 1..m, k # i PROVE \E j \in 1..(m - 1) : At(j) = k
    <3>1. CASE k < i
      <4>1. k \in 1..(m - 1) /\ At(k) = k
        BY <1>1, <1>7, <3>1
      <4> QED BY <4>1
    <3>2. CASE k > i
      <4>1. k - 1 \in 1..(m - 1) /\ At(k - 1) = k
        BY <1>1, <1>7, <3>2
      <4> QED BY <4>1
    <3> QED BY <1>1, <2>1, <3>1, <3>2
  <2> QED BY <2>1
<1> HIDE DEF At
<1>12. ToSet(z) = {z[j] : j \in 1..(m - 1)}
  BY <1>8 DEF ToSet
<1>13. \A j, k \in 1..(m - 1) : z[j] = z[k] => j = k
  BY <1>7, <1>9, <1>10
<1>14. ToSet(z) = ToSet(s) \ {s[i]}
  <2> DEFINE D == 1..(m - 1)
             E == 1..m
  <2> HIDE DEF D, E
  <2> QED BY <1>7, <1>9, <1>11, <1>12 DEF D, E
<1> QED BY <1>1, <1>5, <1>7, <1>8, <1>13, <1>14 DEF IsInjective, z, m

Swapped(s, i, j) == [s EXCEPT ![i] = s[j], ![j] = s[i]]

LEMMA SwappedAt ==
    ASSUME NEW T, NEW s \in Seq(T), IsInjective(s), NEW i \in 1..Len(s), NEW j \in 1..Len(s)
    PROVE  Swapped(s, i, j) \in Seq(T) /\ IsInjective(Swapped(s, i, j))
           /\ ToSet(Swapped(s, i, j)) = ToSet(s)
<1> DEFINE m == Len(s)
           D == 1..m
           z == Swapped(s, i, j)
<1>1. m \in Nat /\ DOMAIN s = D /\ (\A k \in D : s[k] \in T) /\ s = [k \in D |-> s[k]]
  BY ElementOfSeq
<1>2. /\ z = [k \in D |-> z[k]]
      /\ \A k \in D : z[k] = IF k = j THEN s[i] ELSE IF k = i THEN s[j] ELSE s[k]
  BY <1>1 DEF Swapped
<1> HIDE DEF z
<1>3. z \in Seq(T) /\ Len(z) = m /\ DOMAIN z = D
  <2>1. z \in [D -> T]
    BY <1>1, <1>2
  <2> HIDE DEF m
  <2> QED BY <1>1, <2>1
<1>4. ToSet(s) = {s[k] : k \in D} /\ (\A k, l \in D : s[k] = s[l] => k = l) /\ ToSet(z) = {z[k] : k \in D}
  BY <1>3, InjectiveSet DEF ToSet
<1> HIDE DEF D, m
<1>5. \A k, l \in D : z[k] = z[l] => k = l
  BY <1>2, <1>4 DEF D, m
<1>6. {z[k] : k \in D} = {s[k] : k \in D}
  BY <1>2, <1>4 DEF D, m
<1> QED BY <1>3, <1>4, <1>5, <1>6 DEF IsInjective, m, z

-----------------------------------------------------------------------------
(* Scopes by the key of what they belong to.                               *)
ScopesOf(K) == [id \in {Id[n] : n \in K} |-> CHOOSE n \in K : Id[n] = id]
KeyedApart(K) == \A n, m \in K : Id[n] = Id[m] => n = m

LEMMA ScopesOfKeys ==
    ASSUME NEW K, KeyedApart(K)
    PROVE  /\ DOMAIN ScopesOf(K) = {Id[n] : n \in K}
           /\ \A n \in K : ScopesOf(K)[Id[n]] = n
BY DEF ScopesOf, KeyedApart

LEMMA OwnersOfKept ==
    ASSUME NEW K \in SUBSET Nodes PROVE OwnersOf(SetToSeq(K)) = ScopesOf(K)
<1> DEFINE q == SetToSeq(K)
           N == Cardinality(K)
<1>1. N \in Nat /\ ExistsBijection(1..N, K)
  BY IdAssumption, FS_Subset, FS_CardinalityType
<1>2. q \in [1..N -> K] /\ IsInjective(q)
  <2>1. PICK f : f \in Bijection(1..N, K)
    BY <1>1 DEF ExistsBijection
  <2>2. f \in [1..N -> K] /\ IsInjective(f)
    BY <2>1 DEF Bijection, Injection, IsInjective
  <2> QED BY <2>2 DEF SetToSeq
<1> HIDE DEF q
<1>3. q \in Surjection(1..N, K)
  <2>1. q \in Injection(1..N, K)
    BY <1>2 DEF Injection, IsInjective
  <2>2. Cardinality(1..N) = N
    BY <1>1, FS_Interval
  <2>3. IsFiniteSet(K)
    BY IdAssumption, FS_Subset
  <2> HIDE DEF N
  <2> QED BY <2>1, <2>2, <2>3, FS_Injection DEF N
<1>4. DOMAIN q = 1..N /\ ToSet(q) = K
  BY <1>2, <1>3 DEF ToSet, Surjection
<1>5. ToSet(IdsOf(q)) = {Id[n] : n \in K}
  <2>1. IdsOf(q) = [i \in 1..N |-> Id[q[i]]]
    BY <1>4 DEF IdsOf
  <2>2. ToSet(IdsOf(q)) = {Id[q[i]] : i \in 1..N}
    BY <2>1 DEF ToSet
  <2>3. K = {q[i] : i \in 1..N}
    BY <1>4 DEF ToSet
  <2> HIDE DEF N
  <2> QED BY <2>2, <2>3
<1> QED BY <1>4, <1>5 DEF OwnersOf, ScopesOf, q

LEMMA IdsOfItems ==
    ASSUME NEW q \in Seq(Nodes)
    PROVE  /\ Len(IdsOf(q)) = Len(q) /\ DOMAIN IdsOf(q) = 1..Len(q)
           /\ \A i \in 1..Len(q) : IdsOf(q)[i] = Id[q[i]]
           /\ ToSet(IdsOf(q)) = {Id[n] : n \in ToSet(q)}
<1> DEFINE m == Len(q)
<1>1. m \in Nat /\ DOMAIN q = 1..m
  OBVIOUS
<1>2. IdsOf(q) = [i \in 1..m |-> Id[q[i]]]
  BY <1>1 DEF IdsOf
<1>3. Len(IdsOf(q)) = m /\ DOMAIN IdsOf(q) = 1..m
  <2> DEFINE f == [i \in 1..m |-> Id[q[i]]]
  <2>1. DOMAIN f = 1..m
    OBVIOUS
  <2>2. f \in Seq({f[i] : i \in 1..m})
    <3>1. f \in [1..m -> {f[i] : i \in 1..m}]
      OBVIOUS
    <3> HIDE DEF f, m
    <3> QED BY <1>1, <3>1
  <2>3. Len(f) = m
    <3> HIDE DEF f, m
    <3> QED BY <1>1, <2>1, <2>2, LenProperties
  <2> QED BY <1>2, <2>1, <2>3
<1>4. ToSet(q) = {q[i] : i \in 1..m} /\ ToSet(IdsOf(q)) = {IdsOf(q)[i] : i \in 1..m}
  BY <1>1, <1>3 DEF ToSet
<1> QED BY <1>2, <1>3, <1>4

LEMMA ScopesAre ==
    ASSUME NEW K, KeyedApart(K), NEW f \in [{Id[n] : n \in K} -> Nodes], \A n \in K : f[Id[n]] = n
    PROVE  f = ScopesOf(K)
<1> DEFINE D == {Id[n] : n \in K}
           g == ScopesOf(K)
<1>1. \A n \in K : g[Id[n]] = n
  BY ScopesOfKeys
<1>2. g = [id \in D |-> g[id]]
  BY DEF ScopesOf
<1> HIDE DEF g
<1>3. \A id \in D : f[id] = g[id]
  BY <1>1
<1> HIDE DEF D
<1>4. f \in [D -> Nodes]
  BY DEF D
<1> QED BY <1>2, <1>3, <1>4 DEF g

-----------------------------------------------------------------------------
(* The inductive invariant of the array.                                   *)
Kept == ToSet(items) \cup ToSet(baseline)

ArrayTypeOK ==
    /\ items \in Seq(Nodes) /\ baseline \in Seq(Nodes) /\ alive \in BOOLEAN
    /\ standing \in [Nodes -> {"standalone", "tree", "disposed"}]
    /\ edited \subseteq Nodes /\ issue \in [Nodes -> {Nothing, Beyond} \cup Ids]

ItemsOwned ==
    /\ IsInjective(items) /\ IsInjective(baseline) /\ KeyedApart(Kept)
    /\ \A n \in Nodes : standing[n] = "tree" <=> alive /\ n \in Kept
    /\ scopes = ScopesOf(IF alive THEN Kept ELSE {})

(* A listener that was told of no change watches every item.               *)
Watches == alive /\ ~shown.dirty =>
    ~IsDirty(items, baseline, edited) /\ shown.read = ToSet(items)

ArrayInv == ArrayTypeOK /\ ItemsOwned /\ Watches /\ IssuesKeepIdentity

LEMMA KeptAreNodes ==
    ASSUME ArrayTypeOK
    PROVE  ToSet(items) \subseteq Nodes /\ ToSet(baseline) \subseteq Nodes /\ Kept \subseteq Nodes
<1>1. ToSet(items) = {items[i] : i \in 1..Len(items)} /\ ToSet(baseline) = {baseline[i] : i \in 1..Len(baseline)}
  BY DEF ArrayTypeOK, ToSet
<1>2. (\A i \in 1..Len(items) : items[i] \in Nodes) /\ (\A i \in 1..Len(baseline) : baseline[i] \in Nodes)
  BY ElementOfSeq DEF ArrayTypeOK
<1> QED BY <1>1, <1>2 DEF Kept

LEMMA PristineReads ==
    ASSUME NEW its \in Seq(Nodes), NEW base, NEW eds, ~IsDirty(its, base, eds)
    PROVE  DirtyReads(its, base, eds) = ToSet(its)
<1>1. DOMAIN its = 1..Len(its) /\ \A i \in 1..Len(its) : its[i] \notin eds
  BY DEF IsDirty
<1>2. {j \in DOMAIN its : \A k \in 1..(j - 1) : its[k] \notin eds} = DOMAIN its
  <2>1. ASSUME NEW j \in 1..Len(its), NEW k \in 1..(j - 1) PROVE k \in 1..Len(its)
    OBVIOUS
  <2> QED BY <1>1, <2>1
<1>3. DirtyReads(its, base, eds) = {its[i] : i \in DOMAIN its}
  BY <1>2 DEF DirtyReads, IsDirty
<1> QED BY <1>3 DEF ToSet

LEMMA ShowKeeps ==
    ASSUME ArrayInv, NEW set \in BOOLEAN, Show(set), items' \in Seq(Nodes),
           ~set => /\ items' = items /\ alive' = alive
                   /\ baseline' = baseline \/ baseline' = items
    PROVE  Watches'
<1>1. CASE set \/ (shown.read \cap edited) # (shown.read \cap edited')
  <2>1. shown' = Evaluated(items', baseline', edited')
    BY <1>1 DEF Show
  <2>2. /\ shown'.dirty = IsDirty(items', baseline', edited')
        /\ shown'.read = DirtyReads(items', baseline', edited')
    BY <2>1 DEF Evaluated
  <2>3. ~IsDirty(items', baseline', edited') => shown'.read = ToSet(items')
    BY <2>2, PristineReads
  <2> QED BY <2>2, <2>3 DEF Watches
<1>2. CASE ~set /\ (shown.read \cap edited) = (shown.read \cap edited')
  <2>1. shown' = shown /\ items' = items /\ alive' = alive /\ (baseline' = baseline \/ baseline' = items)
    BY <1>2 DEF Show
  <2>2. SUFFICES ASSUME alive, ~shown.dirty
                 PROVE  ~IsDirty(items', baseline', edited') /\ shown.read = ToSet(items)
    BY <2>1 DEF Watches
  <2>3. ~IsDirty(items, baseline, edited) /\ shown.read = ToSet(items)
    BY <2>2 DEF ArrayInv, Watches
  <2>4. \A i \in DOMAIN items : items[i] \notin edited'
    BY <1>2, <2>3 DEF IsDirty, ToSet
  <2>5. IdsOf(items) = IdsOf(baseline')
    BY <2>1, <2>3 DEF IsDirty
  <2> QED BY <2>1, <2>3, <2>4, <2>5 DEF IsDirty
<1> QED BY <1>1, <1>2

LEMMA InsertKeeps ==
    ASSUME ArrayInv, alive, NEW n \in Nodes, NEW i \in 1..(Len(items) + 1), InsertItem(i, n)
    PROVE  ArrayInv'
<1>0. standing[n] = "standalone" /\ Id[n] \notin DOMAIN scopes
  <2>1. 1 \in DOMAIN <<n>> /\ <<n>>[1] = n
    OBVIOUS
  <2>2. \A j \in DOMAIN <<n>> : standing[<<n>>[j]] = "standalone" /\ Id[<<n>>[j]] \notin DOMAIN scopes
    BY DEF InsertItem, Adoptable
  <2> QED BY <2>1, <2>2
<1>1. /\ standing' = [standing EXCEPT ![n] = "tree"]
      /\ scopes' = [id \in DOMAIN scopes \cup {Id[n]} |-> IF id = Id[n] THEN n ELSE scopes[id]]
      /\ items' = InsertAt(items, i, n) /\ Show(TRUE)
      /\ UNCHANGED <<baseline, edited, submitted, issue, alive>>
  BY DEF InsertItem
<1>2. n \notin Kept
  BY <1>0 DEF ArrayInv, ItemsOwned
<1>3. items' \in Seq(Nodes) /\ IsInjective(items') /\ ToSet(items') = ToSet(items) \cup {n}
  <2>1. items \in Seq(Nodes) /\ IsInjective(items) /\ n \notin ToSet(items)
    BY <1>2 DEF ArrayInv, ArrayTypeOK, ItemsOwned, Kept
  <2>2. /\ InsertAt(items, i, n) \in Seq(Nodes) /\ IsInjective(InsertAt(items, i, n))
        /\ ToSet(InsertAt(items, i, n)) = ToSet(items) \cup {n}
    BY <2>1, InsertedAt
  <2> QED BY <1>1, <2>2
<1>4. Kept' = Kept \cup {n}
  BY <1>1, <1>3 DEF Kept
<1>5. scopes = ScopesOf(Kept) /\ KeyedApart(Kept)
  BY DEF ArrayInv, ItemsOwned
<1>6. DOMAIN scopes = {Id[m] : m \in Kept} /\ \A m \in Kept : scopes[Id[m]] = m
  BY <1>5, ScopesOfKeys
<1>7. KeyedApart(Kept \cup {n})
  BY <1>0, <1>5, <1>6 DEF KeyedApart
<1>8. scopes' = ScopesOf(Kept \cup {n})
  <2>1. \A m \in Kept : Id[m] # Id[n] /\ m \in Nodes
    BY <1>0, <1>6, KeptAreNodes DEF ArrayInv
  <2>2. \A m \in Kept \cup {n} : Id[m] \in DOMAIN scopes \cup {Id[n]} /\ scopes'[Id[m]] = m
    BY <1>1, <1>6, <2>1
  <2>3. DOMAIN scopes \cup {Id[n]} = {Id[m] : m \in Kept \cup {n}}
    BY <1>6
  <2>4. scopes' \in [{Id[m] : m \in Kept \cup {n}} -> Nodes]
    BY <1>1, <1>6, <2>1, <2>3
  <2> QED BY <1>7, <2>2, <2>4, ScopesAre
<1>9. ArrayTypeOK' /\ IssuesKeepIdentity'
  BY <1>1, <1>3 DEF ArrayInv, ArrayTypeOK, IssuesKeepIdentity
<1>10. ItemsOwned'
  <2>1. \A m \in Nodes : standing'[m] = "tree" <=> alive' /\ m \in Kept'
    BY <1>1, <1>4 DEF ArrayInv, ArrayTypeOK, ItemsOwned
  <2> QED BY <1>1, <1>3, <1>4, <1>7, <1>8, <2>1 DEF ArrayInv, ItemsOwned
<1>11. Watches'
  BY <1>1, <1>3, ShowKeeps
<1> QED BY <1>9, <1>10, <1>11 DEF ArrayInv

LEMMA ScopesOfKept ==
    ASSUME ArrayInv, alive
    PROVE  /\ scopes = ScopesOf(Kept) /\ KeyedApart(Kept) /\ Kept \subseteq Nodes
           /\ DOMAIN scopes = {Id[m] : m \in Kept} /\ \A m \in Kept : scopes[Id[m]] = m
           /\ \A m \in Kept : IsBaseline(m) <=> m \in ToSet(baseline)
<1>1. scopes = ScopesOf(Kept) /\ KeyedApart(Kept) /\ Kept \subseteq Nodes
  BY KeptAreNodes DEF ArrayInv, ItemsOwned
<1>2. DOMAIN scopes = {Id[m] : m \in Kept} /\ \A m \in Kept : scopes[Id[m]] = m
  BY <1>1, ScopesOfKeys
<1>3. ToSet(IdsOf(baseline)) = {Id[m] : m \in ToSet(baseline)}
  BY IdsOfItems DEF ArrayInv, ArrayTypeOK
<1>4. ToSet(baseline) \subseteq Kept
  BY DEF Kept
<1>5. \A m \in Kept : IsBaseline(m) <=> m \in ToSet(baseline)
  BY <1>1, <1>3, <1>4 DEF IsBaseline, KeyedApart
<1> QED BY <1>1, <1>2, <1>5

(* Scopes of what is kept but some of it.                                  *)
LEMMA ScopesWithout ==
    ASSUME ArrayInv, alive, NEW G \in SUBSET Kept
    PROVE  /\ KeyedApart(Kept \ G)
           /\ [id \in DOMAIN scopes \ {Id[n] : n \in G} |-> scopes[id]] = ScopesOf(Kept \ G)
<1> DEFINE K == Kept \ G
           f == [id \in DOMAIN scopes \ {Id[n] : n \in G} |-> scopes[id]]
<1>1. KeyedApart(K) /\ K \subseteq Nodes
  BY ScopesOfKept DEF KeyedApart
<1>2. DOMAIN scopes \ {Id[n] : n \in G} = {Id[m] : m \in K}
  BY ScopesOfKept DEF KeyedApart
<1>3. \A m \in K : f[Id[m]] = m
  BY <1>2, ScopesOfKept
<1>4. f \in [{Id[m] : m \in K} -> Nodes]
  BY <1>1, <1>2, <1>3
<1> HIDE DEF K, f
<1>5. f = ScopesOf(K)
  BY <1>1, <1>3, <1>4, ScopesAre
<1> QED BY <1>1, <1>5 DEF K, f

(* Items are taken out of an array.                                        *)
LEMMA RemovalKeeps ==
    ASSUME ArrayInv, alive, NEW gone \in SUBSET ToSet(items), HandleItemRemoval(gone),
           items' \in Seq(Nodes), IsInjective(items'), ToSet(items') = ToSet(items) \ gone,
           UNCHANGED <<baseline, submitted, alive>>, Show(TRUE)
    PROVE  ArrayInv'
<1> DEFINE dropped == {n \in gone : ~IsBaseline(n)}
<1>1. /\ scopes' = [id \in DOMAIN scopes \ {Id[n] : n \in dropped} |-> scopes[id]]
      /\ standing' = [n \in Nodes |-> IF n \in dropped THEN "disposed" ELSE standing[n]]
      /\ edited' = edited \ gone
      /\ issue' = [n \in Nodes |-> IF n \in gone THEN Nothing ELSE issue[n]]
  BY DEF HandleItemRemoval
<1>2. dropped = gone \ ToSet(baseline) /\ dropped \subseteq Kept
  BY ScopesOfKept DEF Kept
<1> HIDE DEF dropped
<1>3. Kept' = Kept \ dropped
  BY <1>2 DEF Kept
<1>4. KeyedApart(Kept \ dropped) /\ scopes' = ScopesOf(Kept \ dropped)
  BY <1>1, <1>2, ScopesWithout
<1>5. ArrayTypeOK' /\ IssuesKeepIdentity'
  BY <1>1 DEF ArrayInv, ArrayTypeOK, IssuesKeepIdentity
<1>6. \A m \in Nodes : standing'[m] = "tree" <=> alive' /\ m \in Kept'
  BY <1>1, <1>3 DEF ArrayInv, ArrayTypeOK, ItemsOwned
<1>7. ItemsOwned'
  BY <1>3, <1>4, <1>6 DEF ArrayInv, ItemsOwned
<1>8. Watches'
  BY ShowKeeps
<1> QED BY <1>5, <1>7, <1>8 DEF ArrayInv

(* Items change places.                                                    *)
LEMMA ArrangedKeeps ==
    ASSUME ArrayInv, items' \in Seq(Nodes), IsInjective(items'), ToSet(items') = ToSet(items),
           UNCHANGED <<scopes, baseline, standing, edited, submitted, issue, alive>>, Show(TRUE)
    PROVE  ArrayInv'
<1>1. Kept' = Kept
  BY DEF Kept
<1>2. ArrayTypeOK' /\ IssuesKeepIdentity'
  BY DEF ArrayInv, ArrayTypeOK, IssuesKeepIdentity
<1>3. ItemsOwned'
  BY <1>1 DEF ArrayInv, ItemsOwned
<1>4. Watches'
  BY ShowKeeps
<1> QED BY <1>2, <1>3, <1>4 DEF ArrayInv

LEMMA ArrangeKeeps == ASSUME ArrayInv, Arrange PROVE ArrayInv'
<1>0. items \in Seq(Nodes) /\ IsInjective(items) /\ DOMAIN items = 1..Len(items) /\ Len(items) \in Nat
  BY DEF ArrayInv, ArrayTypeOK, ItemsOwned
<1>1. ASSUME alive, NEW n \in Nodes, NEW i \in 1..(Len(items) + 1), InsertItem(i, n) PROVE ArrayInv'
  BY <1>1, InsertKeeps
<1>2. ASSUME alive, NEW i \in 1..Len(items), RemoveItem(i) PROVE ArrayInv'
  <2>1. /\ items' = RemoveAt(items, i) /\ HandleItemRemoval({items[i]}) /\ Show(TRUE)
        /\ UNCHANGED <<baseline, submitted, alive>>
    BY <1>2 DEF RemoveItem
  <2>2. items[i] \in ToSet(items)
    BY <1>0, InjectiveSet
  <2>3. items' \in Seq(Nodes) /\ IsInjective(items') /\ ToSet(items') = ToSet(items) \ {items[i]}
    BY <1>0, <2>1, RemovedAt
  <2> QED BY <1>2, <2>1, <2>2, <2>3, RemovalKeeps
<1>3. ASSUME alive, NEW i \in 1..Len(items), NEW j \in 1..Len(items), MoveItem(i, j) PROVE ArrayInv'
  <2> DEFINE x == items[i]
             q == RemoveAt(items, i)
  <2>1. /\ items' = InsertAt(q, j, x) /\ Show(TRUE)
        /\ UNCHANGED <<scopes, baseline, standing, edited, submitted, issue, alive>>
    BY <1>3 DEF MoveItem
  <2>2. /\ q \in Seq(Nodes) /\ IsInjective(q) /\ ToSet(q) = ToSet(items) \ {x} /\ Len(q) = Len(items) - 1
        /\ x \in Nodes
    BY <1>0, RemovedAt
  <2>3. x \in ToSet(items)
    BY <1>0, InjectiveSet
  <2>4. j \in 1..(Len(q) + 1) /\ x \notin ToSet(q)
    BY <1>0, <2>2
  <2> HIDE DEF q, x
  <2>5. InsertAt(q, j, x) \in Seq(Nodes) /\ IsInjective(InsertAt(q, j, x))
        /\ ToSet(InsertAt(q, j, x)) = ToSet(q) \cup {x}
    BY <2>2, <2>4, InsertedAt
  <2>6. items' \in Seq(Nodes) /\ IsInjective(items') /\ ToSet(items') = ToSet(items)
    BY <2>1, <2>2, <2>3, <2>5
  <2> QED BY <2>1, <2>6, ArrangedKeeps
<1>4. ASSUME alive, NEW i \in 1..Len(items), NEW j \in 1..Len(items), SwapItems(i, j) PROVE ArrayInv'
  <2>1. /\ items' = [items EXCEPT ![i] = items[j], ![j] = items[i]] /\ Show(TRUE)
        /\ UNCHANGED <<scopes, baseline, standing, edited, submitted, issue, alive>>
    BY <1>4 DEF SwapItems
  <2>2. items' = Swapped(items, i, j)
    BY <2>1 DEF Swapped
  <2>3. items' \in Seq(Nodes) /\ IsInjective(items') /\ ToSet(items') = ToSet(items)
    BY <1>0, <2>2, SwappedAt
  <2> QED BY <2>1, <2>3, ArrangedKeeps
<1>5. ASSUME alive, ClearItems PROVE ArrayInv'
  <2>1. /\ items' = <<>> /\ HandleItemRemoval(ToSet(items)) /\ Show(TRUE)
        /\ UNCHANGED <<baseline, submitted, alive>>
    BY <1>5 DEF ClearItems
  <2>2. items' \in Seq(Nodes) /\ IsInjective(items') /\ ToSet(items') = ToSet(items) \ ToSet(items)
    BY <2>1 DEF IsInjective, ToSet
  <2> QED BY <1>5, <2>1, <2>2, RemovalKeeps
<1> QED BY <1>0, <1>1, <1>2, <1>3, <1>4, <1>5 DEF Arrange

LEMMA EditKeeps == ASSUME ArrayInv, NEW n \in Nodes, EditItem(n) PROVE ArrayInv'
<1>1. /\ edited' = IF n \in edited THEN edited \ {n} ELSE edited \cup {n}
      /\ issue' = [issue EXCEPT ![n] = Nothing] /\ Show(FALSE)
      /\ UNCHANGED <<items, scopes, baseline, standing, submitted, alive>>
  BY DEF EditItem
<1>2. ArrayTypeOK' /\ IssuesKeepIdentity'
  BY <1>1 DEF ArrayInv, ArrayTypeOK, IssuesKeepIdentity
<1>3. ItemsOwned'
  BY <1>1 DEF ArrayInv, ItemsOwned, Kept
<1>4. items' \in Seq(Nodes)
  BY <1>1 DEF ArrayInv, ArrayTypeOK
<1>5. Watches'
  BY <1>1, <1>4, ShowKeeps
<1> QED BY <1>2, <1>3, <1>5 DEF ArrayInv

(* All of the baseline can be restored.                                    *)
LEMMA AllRestorable ==
    ASSUME NEW base \in Seq(Nodes), NEW live, \A i \in 1..Len(base) : Id[base[i]] \in live
    PROVE  Restorable(base, live) = base
<1> DEFINE m == Len(base)
           R == CHOOSE Restored : Restored = [i \in 0..m |->
                    IF i = 0 THEN <<>>
                    ELSE IF Id[base[i]] \in live THEN Append(Restored[i - 1], base[i]) ELSE Restored[i - 1]]
           b == [i \in 0..m |-> SubSeq(base, 1, i)]
<1>0. m \in Nat /\ DOMAIN base = 1..m /\ \A i \in 1..m : base[i] \in Nodes
  BY ElementOfSeq
<1>1. \A i \in 1..m : SubSeq(base, 1, i) = Append(SubSeq(base, 1, i - 1), base[i])
  <2>1. ASSUME NEW i \in 1..m PROVE SubSeq(base, 1, i) = Append(SubSeq(base, 1, i - 1), base[i])
    <3> DEFINE x == SubSeq(base, 1, i)
               y == SubSeq(base, 1, i - 1)
    <3>1. x \in Seq(Nodes) /\ Len(x) = i /\ \A j \in 1..i : x[j] = base[j]
      BY <1>0, SubSeqProperties
    <3>2. y \in Seq(Nodes) /\ Len(y) = i - 1 /\ \A j \in 1..(i - 1) : y[j] = base[j]
      BY <1>0, SubSeqProperties
    <3> HIDE DEF x, y, m
    <3>3. /\ Append(y, base[i]) \in Seq(Nodes) /\ Len(Append(y, base[i])) = i
          /\ \A j \in 1..i : Append(y, base[i])[j] = base[j]
      BY <1>0, <3>2
    <3>4. x = Append(y, base[i])
      BY <3>1, <3>3, SeqEqual
    <3> QED BY <3>4 DEF x, y
  <2> QED BY <2>1
<1>2. SubSeq(base, 1, 0) = <<>> /\ SubSeq(base, 1, m) = base
  BY <1>0
<1>3. b = [i \in 0..m |->
             IF i = 0 THEN <<>>
             ELSE IF Id[base[i]] \in live THEN Append(b[i - 1], base[i]) ELSE b[i - 1]]
  <2>1. ASSUME NEW i \in 0..m, i # 0 PROVE i \in 1..m /\ i - 1 \in 0..m
    BY <1>0, <2>1
  <2> QED BY <1>1, <1>2, <2>1
<1>4. R = [i \in 0..m |->
             IF i = 0 THEN <<>>
             ELSE IF Id[base[i]] \in live THEN Append(R[i - 1], base[i]) ELSE R[i - 1]]
  BY <1>3
<1>5. R[0] = <<>> /\ \A i \in 1..m : R[i] = Append(R[i - 1], base[i])
  <2>1. 0 \in 0..m /\ \A i \in 1..m : i \in 0..m /\ i # 0 /\ Id[base[i]] \in live
    BY <1>0
  <2> HIDE DEF R, m
  <2> QED BY <1>4, <2>1
<1> HIDE DEF R
<1> DEFINE Fails == {i \in 0..m : R[i] # SubSeq(base, 1, i)}
<1>6. R[m] = base
  <2> SUFFICES ASSUME Fails # {} PROVE FALSE
    BY <1>0, <1>2
  <2>1. PICK i \in Fails : \A j \in Fails : i <= j
    BY LeastNatural, Fails \in SUBSET Nat
  <2>2. i # 0
    BY <1>2, <1>5
  <2>3. i \in 1..m /\ i - 1 \in 0..m /\ i - 1 < i
    BY <1>0, <2>2
  <2>4. R[i - 1] = SubSeq(base, 1, i - 1)
    BY <1>0, <2>1, <2>3
  <2> QED BY <1>1, <1>5, <2>3, <2>4
<1> QED BY <1>6 DEF Restorable, R

LEMMA ResetKeeps == ASSUME ArrayInv, ResetArray PROVE ArrayInv'
<1> DEFINE dropped == {n \in ToSet(items) : ~IsBaseline(n)}
<1>1. /\ alive /\ items' = Restorable(baseline, DOMAIN scopes)
      /\ scopes' = [id \in DOMAIN scopes \ {Id[n] : n \in dropped} |-> scopes[id]]
      /\ standing' = [n \in Nodes |-> IF n \in dropped THEN "disposed" ELSE standing[n]]
      /\ edited' = edited \ (dropped \cup ToSet(items'))
      /\ issue' = [n \in Nodes |-> IF n \in dropped \cup ToSet(items') THEN Nothing ELSE issue[n]]
      /\ UNCHANGED <<baseline, alive>> /\ Show(TRUE)
  BY DEF ResetArray
<1>2. dropped = ToSet(items) \ ToSet(baseline) /\ dropped \subseteq Kept
  BY <1>1, ScopesOfKept DEF Kept
<1>3. baseline \in Seq(Nodes) /\ IsInjective(baseline)
  BY DEF ArrayInv, ArrayTypeOK, ItemsOwned
<1>4. items' = baseline
  <2>1. \A i \in 1..Len(baseline) : baseline[i] \in Kept
    BY <1>3, InjectiveSet DEF Kept
  <2>2. \A i \in 1..Len(baseline) : Id[baseline[i]] \in DOMAIN scopes
    BY <1>1, <2>1, ScopesOfKept
  <2> QED BY <1>1, <1>3, <2>2, AllRestorable
<1> HIDE DEF dropped
<1>5. Kept' = Kept \ dropped
  BY <1>1, <1>2, <1>4 DEF Kept
<1>6. KeyedApart(Kept \ dropped) /\ scopes' = ScopesOf(Kept \ dropped)
  BY <1>1, <1>2, ScopesWithout
<1>7. ArrayTypeOK' /\ IssuesKeepIdentity'
  BY <1>1, <1>3, <1>4 DEF ArrayInv, ArrayTypeOK, IssuesKeepIdentity
<1>8. \A m \in Nodes : standing'[m] = "tree" <=> alive' /\ m \in Kept'
  BY <1>1, <1>5 DEF ArrayInv, ArrayTypeOK, ItemsOwned
<1>9. ItemsOwned'
  BY <1>1, <1>3, <1>4, <1>5, <1>6, <1>8 DEF ItemsOwned
<1>10. Watches'
  BY <1>1, <1>3, <1>4, ShowKeeps
<1> QED BY <1>7, <1>9, <1>10 DEF ArrayInv

LEMMA ReinitializeKeeps == ASSUME ArrayInv, ReinitializeArray PROVE ArrayInv'
<1> DEFINE obsolete == {scopes[id] : id \in DOMAIN scopes \ ToSet(IdsOf(items))}
<1>1. /\ alive /\ baseline' = items
      /\ scopes' = [id \in ToSet(IdsOf(items)) |-> scopes[id]]
      /\ standing' = [n \in Nodes |-> IF n \in obsolete THEN "disposed" ELSE standing[n]]
      /\ edited' = edited \ (ToSet(items) \cup obsolete)
      /\ issue' = [n \in Nodes |-> IF n \in ToSet(items) \cup obsolete THEN Nothing ELSE issue[n]]
      /\ UNCHANGED <<items, alive>> /\ Show(FALSE)
  BY DEF ReinitializeArray
<1>2. items \in Seq(Nodes) /\ IsInjective(items) /\ ToSet(items) \subseteq Kept
  BY DEF ArrayInv, ArrayTypeOK, ItemsOwned, Kept
<1>3. ToSet(IdsOf(items)) = {Id[m] : m \in ToSet(items)}
  BY <1>2, IdsOfItems
<1>4. obsolete = Kept \ ToSet(items)
  <2>1. \A m \in Kept : Id[m] \in ToSet(IdsOf(items)) <=> m \in ToSet(items)
    BY <1>1, <1>2, <1>3, ScopesOfKept DEF KeyedApart
  <2>2. DOMAIN scopes = {Id[m] : m \in Kept} /\ \A m \in Kept : scopes[Id[m]] = m
    BY <1>1, ScopesOfKept
  <2>3. ASSUME NEW id \in DOMAIN scopes \ ToSet(IdsOf(items)) PROVE scopes[id] \in Kept \ ToSet(items)
    BY <2>1, <2>2
  <2>4. ASSUME NEW m \in Kept \ ToSet(items)
        PROVE  \E id \in DOMAIN scopes \ ToSet(IdsOf(items)) : m = scopes[id]
    BY <2>1, <2>2
  <2> QED BY <2>3, <2>4
<1> HIDE DEF obsolete
<1>5. Kept' = ToSet(items)
  BY <1>1 DEF Kept
<1>6. KeyedApart(ToSet(items))
  BY <1>1, <1>2, ScopesOfKept DEF KeyedApart
<1>7. scopes' = ScopesOf(ToSet(items))
  <2>1. /\ \A m \in ToSet(items) : scopes[Id[m]] = m /\ m \in Nodes
    BY <1>1, <1>2, ScopesOfKept
  <2>2. \A m \in ToSet(items) : scopes'[Id[m]] = m
    BY <1>1, <1>3, <2>1
  <2>3. scopes' \in [{Id[m] : m \in ToSet(items)} -> Nodes]
    BY <1>1, <1>3, <2>1
  <2> QED BY <1>6, <2>2, <2>3, ScopesAre
<1>8. ArrayTypeOK' /\ IssuesKeepIdentity'
  BY <1>1 DEF ArrayInv, ArrayTypeOK, IssuesKeepIdentity
<1>9. \A m \in Nodes : standing'[m] = "tree" <=> alive' /\ m \in Kept'
  BY <1>1, <1>2, <1>4, <1>5 DEF ArrayInv, ArrayTypeOK, ItemsOwned
<1>10. ItemsOwned'
  BY <1>1, <1>2, <1>5, <1>6, <1>7, <1>9 DEF ItemsOwned
<1>11. Watches'
  BY <1>1, <1>2, ShowKeeps
<1> QED BY <1>8, <1>10, <1>11 DEF ArrayInv

LEMMA SubmitKeeps == ASSUME ArrayInv, SubmitArray PROVE ArrayInv'
<1>1. /\ issue' = [n \in Nodes |-> IF n \in ToSet(items) THEN Nothing ELSE issue[n]]
      /\ UNCHANGED <<items, scopes, baseline, standing, edited, shown, alive>>
  BY DEF SubmitArray
<1> QED BY <1>1 DEF ArrayInv, ArrayTypeOK, ItemsOwned, Kept, Watches, IssuesKeepIdentity

(* The item an answer is about is found by the identity it was sent with.  *)
LEMMA RespondKeeps == ASSUME ArrayInv, NEW i \in Nat, Respond(i) PROVE ArrayInv'
<1> DEFINE about == IF i \in DOMAIN submitted THEN submitted[i] ELSE Beyond
<1>1. /\ issue' = [n \in Nodes |-> IF n \in Target(i) THEN about ELSE issue[n]]
      /\ UNCHANGED <<items, scopes, baseline, standing, edited, shown, submitted, alive>>
  BY DEF Respond
<1>2. \A n \in Nodes : n \in Target(i) => about \in {Beyond, Id[n]}
  BY DEF Target
<1>3. IssuesKeepIdentity'
  BY <1>1, <1>2 DEF ArrayInv, IssuesKeepIdentity
<1>4. ArrayTypeOK'
  BY <1>1, <1>2 DEF ArrayInv, ArrayTypeOK, Ids
<1>5. ItemsOwned' /\ Watches'
  BY <1>1 DEF ArrayInv, ItemsOwned, Kept, Watches
<1> QED BY <1>3, <1>4, <1>5 DEF ArrayInv

LEMMA DisposeArrayKeeps == ASSUME ArrayInv, DisposeArray PROVE ArrayInv'
<1>1. /\ alive' = FALSE /\ scopes' = <<>>
      /\ standing' = [n \in Nodes |-> IF n \in ToSet(items) \cup ToSet(baseline)
                                      THEN "disposed" ELSE standing[n]]
      /\ UNCHANGED <<items, baseline, edited, shown, submitted, issue>>
  BY DEF DisposeArray
<1>2. ScopesOf({}) = <<>>
  BY DEF ScopesOf
<1>3. \A n \in Nodes : standing'[n] # "tree"
  BY <1>1 DEF ArrayInv, ItemsOwned, Kept
<1> QED BY <1>1, <1>2, <1>3 DEF ArrayInv, ArrayTypeOK, ItemsOwned, Kept, Watches, IssuesKeepIdentity

LEMMA ArrayInvInit == ArrayInit => ArrayInv
<1> SUFFICES ASSUME ArrayInit PROVE ArrayInv
  OBVIOUS
<1>1. PICK start \in {s \in SeqOf(Nodes, 2) : \A i, j \in DOMAIN s : i # j => Id[s[i]] # Id[s[j]]} :
        /\ items = start /\ baseline = start
        /\ scopes = OwnersOf(start)
        /\ standing = [n \in Nodes |-> IF n \in ToSet(start) THEN "tree" ELSE "standalone"]
        /\ edited = {} /\ shown = Evaluated(start, start, {})
        /\ submitted = <<>> /\ issue = [n \in Nodes |-> Nothing] /\ alive = TRUE
  BY DEF ArrayInit
<1>2. start \in Seq(Nodes) /\ IsInjective(start)
  <2>1. start \in UNION {[1..m -> Nodes] : m \in 0..2}
    BY DEF SeqOf
  <2>2. PICK m \in 0..2 : start \in [1..m -> Nodes]
    BY <2>1
  <2> QED BY <1>1, <2>2 DEF IsInjective
<1>3. Kept = ToSet(start) /\ ToSet(start) = {start[i] : i \in DOMAIN start}
  BY <1>1 DEF Kept, ToSet
<1>4. KeyedApart(Kept)
  BY <1>1, <1>3 DEF KeyedApart
<1>5. scopes = ScopesOf(Kept)
  BY <1>1, <1>2, <1>3, IdsOfItems DEF OwnersOf, ScopesOf
<1>6. ArrayTypeOK /\ IssuesKeepIdentity
  BY <1>1, <1>2 DEF ArrayTypeOK, IssuesKeepIdentity
<1>7. ItemsOwned
  BY <1>1, <1>2, <1>3, <1>4, <1>5 DEF ItemsOwned
<1>8. Watches
  <2>1. ~IsDirty(items, baseline, edited)
    BY <1>1 DEF IsDirty
  <2>2. DirtyReads(items, baseline, edited) = ToSet(items)
    BY <1>1, <1>2, <2>1, PristineReads
  <2> QED BY <1>1, <2>1, <2>2 DEF Watches, Evaluated
<1> QED BY <1>6, <1>7, <1>8 DEF ArrayInv

LEMMA ArrayInvStep == ArrayInv /\ [ArrayNext]_avars => ArrayInv'
<1> SUFFICES ASSUME ArrayInv, [ArrayNext]_avars PROVE ArrayInv'
  OBVIOUS
<1>1. CASE UNCHANGED avars
  BY <1>1 DEF avars, ArrayInv, ArrayTypeOK, ItemsOwned, Kept, Watches, IssuesKeepIdentity
<1>2. ASSUME NEW i \in 1..Cardinality(Nodes), Respond(i) PROVE ArrayInv'
  <2>1. i \in Nat
    BY IdAssumption, FS_CardinalityType
  <2> QED BY <1>2, <2>1, RespondKeeps
<1> QED BY <1>1, <1>2, ArrangeKeeps, ResetKeeps, ReinitializeKeeps, DisposeArrayKeeps, EditKeeps, SubmitKeeps
        DEF ArrayNext

LEMMA ArrayInvIsSound == ArrayInv => ArraysAreSound
<1> SUFFICES ASSUME ArrayInv PROVE ArraysAreSound
  OBVIOUS
<1> DEFINE kept == IF alive THEN ToSet(items) \cup ToSet(baseline) ELSE {}
<1>1. kept \subseteq Nodes /\ kept = IF alive THEN Kept ELSE {}
  BY KeptAreNodes DEF ArrayInv, Kept
<1>2. {n \in Nodes : standing[n] = "tree"} = kept
  BY <1>1 DEF ArrayInv, ItemsOwned
<1>3. scopes = OwnersOf(SetToSeq(kept))
  <2>1. scopes = ScopesOf(kept)
    BY <1>1 DEF ArrayInv, ItemsOwned
  <2> HIDE DEF kept
  <2> QED BY <1>1, <2>1, OwnersOfKept
<1>4. Cardinality(ToSet(IdsOf(items))) = Len(items)
  <2> DEFINE m == Len(items)
             S == ToSet(IdsOf(items))
             f == [i \in 1..m |-> Id[items[i]]]
  <2>1. items \in Seq(Nodes) /\ IsInjective(items) /\ KeyedApart(Kept)
    BY DEF ArrayInv, ArrayTypeOK, ItemsOwned
  <2>2. /\ m \in Nat /\ ToSet(items) = {items[i] : i \in 1..m}
        /\ \A i, j \in 1..m : items[i] = items[j] => i = j
    BY <2>1, InjectiveSet
  <2>3. S = {Id[n] : n \in ToSet(items)}
    BY <2>1, IdsOfItems
  <2>4. \A i, j \in 1..m : Id[items[i]] = Id[items[j]] => i = j
    BY <2>1, <2>2 DEF KeyedApart, Kept
  <2> HIDE DEF m, S
  <2>5. f \in Bijection(1..m, S)
    BY <2>2, <2>3, <2>4 DEF Bijection, Injection, Surjection, IsInjective
  <2>6. ExistsBijection(1..m, S)
    BY <2>5 DEF ExistsBijection
  <2> QED BY <2>2, <2>6, FS_CountingElements DEF m, S
<1>5. ChangesAreShown
  BY DEF ArrayInv, Watches, ChangesAreShown
<1> QED BY <1>2, <1>3, <1>4, <1>5 DEF ItemsAreOwned, ArraysAreSound

(* However items are inserted, moved, removed, edited, reset and made the  *)
(* baseline: the array owns exactly its items and what it can restore, each*)
(* under its own key, and no listener is told that a changed array is      *)
(* pristine (array.ts, array-adoption.ts, array-baseline.ts).              *)
THEOREM ArraysStaySound == ArraySpec => []ArraysAreSound
<1>1. ArrayInit => ArrayInv
  BY ArrayInvInit
<1>2. ArrayInv /\ [ArrayNext]_avars => ArrayInv'
  BY ArrayInvStep
<1>3. ArrayInv => ArraysAreSound
  BY ArrayInvIsSound
<1> QED BY <1>1, <1>2, <1>3, PTL DEF ArraySpec

(* An answer finds its item by the key it was submitted with, however the  *)
(* items have moved since (server-issues.ts).                              *)
THEOREM IssuesAlwaysKeepIdentity == ArraySpec => []IssuesKeepIdentity
<1>1. ArrayInit => ArrayInv
  BY ArrayInvInit
<1>2. ArrayInv /\ [ArrayNext]_avars => ArrayInv'
  BY ArrayInvStep
<1>3. ArrayInv => IssuesKeepIdentity
  BY DEF ArrayInv
<1> QED BY <1>1, <1>2, <1>3, PTL DEF ArraySpec

-----------------------------------------------------------------------------
(* FormValues: the array of a form holds no item twice, nor does its       *)
(* baseline, so that a segment leads to one node.                          *)
NoneTwice(nodes) == nodes \in Seq(Items) /\ \A i, j \in DOMAIN nodes : nodes[i] = nodes[j] => i = j
RowsInv == NoneTwice(row) /\ NoneTwice(rowBase)

LEMMA Indexed ==
    ASSUME NEW nodes, NoneTwice(nodes)
    PROVE  DOMAIN nodes \subseteq DOMAIN Position
<1>1. nodes \in Seq(Items) /\ Len(nodes) \in Nat /\ DOMAIN nodes = 1..Len(nodes)
  BY DEF NoneTwice
<1>2. IsFiniteSet(1..Len(nodes)) /\ Cardinality(1..Len(nodes)) = Len(nodes)
  BY <1>1, FS_Interval
<1>3. nodes \in Injection(1..Len(nodes), Items)
  BY <1>1 DEF NoneTwice, Injection, IsInjective
<1>4. Len(nodes) <= Cardinality(Items)
  BY <1>2, <1>3, FS_Injection, ItemsAssumption
<1>5. Len(nodes) <= Len(Position) /\ DOMAIN Position = 1..Len(Position) /\ Len(Position) \in Nat
  BY <1>1, <1>4, ItemsAssumption, FS_CardinalityType
<1> QED BY <1>1, <1>5

(* What the nodes are, and what is below them.                             *)
LEMMA TheTree ==
    ASSUME RowsInv
    PROVE  /\ Below("form") = {"a", "g", "r"}
           /\ Below("g") \subseteq {"b", "c"} /\ Below("r") \subseteq Items
           /\ \A n \in {"g", "r"} : Below(n) \subseteq Leaves
           /\ Leaves \cap Inner = {}
           /\ \A n \in Inner : \A c \in Members(n) : c[2] \in Below(n)
<1>1. Leaves \cap Inner = {}
  BY ItemsAssumption DEF Leaves, Inner
<1>2. Members("form") = {<<"a", "a">>, <<"g", "g">>, <<"r", "r">>}
  BY DEF Members
<1>3. /\ Members("g") \subseteq {<<"b", "b">>, <<"c", "c">>}
      /\ Members("r") = {<<Position[i], row[i]>> : i \in DOMAIN row}
  BY DEF Members
<1>4. \A i \in DOMAIN row : row[i] \in Items
  BY DEF RowsInv, NoneTwice
<1>5. Below("form") = {"a", "g", "r"}
  <2>1. <<"a", "a">>[2] = "a" /\ <<"g", "g">>[2] = "g" /\ <<"r", "r">>[2] = "r"
    OBVIOUS
  <2>2. Below("form") = {c[2] : c \in {<<"a", "a">>, <<"g", "g">>, <<"r", "r">>}}
    BY <1>2, Zenon DEF Below
  <2> QED BY <2>1, <2>2, Zenon
<1>6. Below("g") \subseteq {"b", "c"}
  BY <1>3 DEF Below
<1>7. Below("r") \subseteq Items
  BY <1>3, <1>4 DEF Below
<1>8. \A n \in Inner : \A c \in Members(n) : c[2] \in Below(n)
  BY DEF Below
<1> QED BY <1>1, <1>5, <1>6, <1>7, <1>8 DEF Leaves

-----------------------------------------------------------------------------
(* Issues and validity are defined by recursion over the tree, which is    *)
(* two levels deep: there are such functions.                              *)
Lifted(n, given) ==
    OwnIssues(n) \cup UNION {{[of |-> x.of, path |-> Prefixed(c[1], x.path)] : x \in given[c[2]]} :
                               c \in Members(n)}
OfLeaf(n) == OwnIssues(n) \cup LeafIssues(n)

LEMMA LiftedAlike ==
    ASSUME NEW n, NEW F, NEW G, \A c \in Members(n) : F[c[2]] = G[c[2]]
    PROVE  Lifted(n, F) = Lifted(n, G)
<1>1. ASSUME NEW c \in Members(n)
      PROVE  {[of |-> x.of, path |-> Prefixed(c[1], x.path)] : x \in F[c[2]]}
               = {[of |-> x.of, path |-> Prefixed(c[1], x.path)] : x \in G[c[2]]}
  <2>1. F[c[2]] = G[c[2]]
    OBVIOUS
  <2> QED BY <2>1
<1> DEFINE A == {{[of |-> x.of, path |-> Prefixed(c[1], x.path)] : x \in F[c[2]]} : c \in Members(n)}
           B == {{[of |-> x.of, path |-> Prefixed(c[1], x.path)] : x \in G[c[2]]} : c \in Members(n)}
<1>2. A \subseteq B
  <2> SUFFICES ASSUME NEW c \in Members(n)
               PROVE  {[of |-> x.of, path |-> Prefixed(c[1], x.path)] : x \in F[c[2]]} \in B
    BY Zenon
  <2> QED BY <1>1, Zenon
<1>3. B \subseteq A
  <2> SUFFICES ASSUME NEW c \in Members(n)
               PROVE  {[of |-> x.of, path |-> Prefixed(c[1], x.path)] : x \in G[c[2]]} \in A
    BY Zenon
  <2> QED BY <1>1, Zenon
<1>4. A = B
  <2> HIDE DEF A, B
  <2> QED BY <1>2, <1>3
<1> QED BY <1>4, Zenon DEF Lifted

LEMMA IssuesUnfold ==
    ASSUME RowsInv
    PROVE  \A n \in Leaves \cup Inner :
             Issues[n] = IF n \in Leaves THEN OfLeaf(n) ELSE Lifted(n, Issues)
<1> DEFINE N == Leaves \cup Inner
           Low == [n \in Leaves |-> OfLeaf(n)]
           Mid == [n \in N |-> IF n \in Leaves THEN OfLeaf(n) ELSE Lifted(n, Low)]
           Top == [n \in N |-> IF n \in Leaves THEN OfLeaf(n) ELSE Lifted(n, Mid)]
           Rule(F) == F = [n \in N |-> OwnIssues(n) \cup
                             IF n \in Leaves THEN LeafIssues(n)
                             ELSE UNION {{[of |-> x.of, path |-> Prefixed(c[1], x.path)] : x \in F[c[2]]} :
                                           c \in Members(n)}]
<1>1. ASSUME NEW n \in {"g", "r"}, NEW c \in Members(n) PROVE c[2] \in Leaves
  BY TheTree, <1>1 DEF Inner
<1>2. ASSUME NEW c \in Members("form") PROVE c[2] \in {"a", "g", "r"}
  BY TheTree, <1>2 DEF Inner
<1>3. \A n \in {"g", "r"} : Lifted(n, Low) = Lifted(n, Mid) /\ Lifted(n, Mid) = Lifted(n, Top)
  <2> SUFFICES ASSUME NEW n \in {"g", "r"}
               PROVE  Lifted(n, Low) = Lifted(n, Mid) /\ Lifted(n, Mid) = Lifted(n, Top)
    OBVIOUS
  <2>1. \A c \in Members(n) : Low[c[2]] = Mid[c[2]] /\ Mid[c[2]] = Top[c[2]]
    BY <1>1
  <2> HIDE DEF Low, Mid, Top
  <2> QED BY <2>1, LiftedAlike
<1>4. Lifted("form", Mid) = Lifted("form", Top)
  <2>1. "a" \in Leaves /\ {"g", "r"} \subseteq N /\ "a" \in N /\ {"g", "r"} \cap Leaves = {}
    BY TheTree DEF Leaves, Inner
  <2>2. Mid["a"] = Top["a"]
    BY <2>1
  <2>3. ASSUME NEW n \in {"g", "r"} PROVE Mid[n] = Top[n]
    <3>1. Mid[n] = Lifted(n, Low)
      BY <2>1
    <3>2. Top[n] = Lifted(n, Mid)
      <4> HIDE DEF Mid
      <4> QED BY <2>1
    <3> HIDE DEF Low, Mid, Top
    <3> QED BY <1>3, <3>1, <3>2
  <2> HIDE DEF Mid, Top
  <2>4. \A c \in Members("form") : Mid[c[2]] = Top[c[2]]
    BY <1>2, <2>2, <2>3
  <2> QED BY <2>4, LiftedAlike
<1>5. Rule(Top)
  <2>1. \A n \in N \ Leaves : Lifted(n, Mid) = Lifted(n, Top)
    <3> HIDE DEF Low, Mid, Top
    <3> QED BY <1>3, <1>4 DEF Inner
  <2>2. Top = [n \in N |-> IF n \in Leaves THEN OfLeaf(n) ELSE Lifted(n, Mid)]
    OBVIOUS
  <2> HIDE DEF Low, Mid, Top
  <2>3. Top = [n \in N |-> IF n \in Leaves THEN OfLeaf(n) ELSE Lifted(n, Top)]
    BY <2>1, <2>2
  <2>4. \A n \in N : (IF n \in Leaves THEN OfLeaf(n) ELSE Lifted(n, Top))
                       = OwnIssues(n) \cup
                           IF n \in Leaves THEN LeafIssues(n)
                           ELSE UNION {{[of |-> x.of, path |-> Prefixed(c[1], x.path)] : x \in Top[c[2]]} :
                                         c \in Members(n)}
    BY Zenon DEF OfLeaf, Lifted
  <2> QED BY <2>3, <2>4
<1>6. Issues = CHOOSE F : Rule(F)
  BY DEF Issues
<1>7. Rule(Issues)
  <2> HIDE DEF Rule, Top
  <2> QED BY <1>5, <1>6
<1>8. ASSUME NEW n \in N
      PROVE  Issues[n] = OwnIssues(n) \cup
                             IF n \in Leaves THEN LeafIssues(n)
                             ELSE UNION {{[of |-> x.of, path |-> Prefixed(c[1], x.path)] : x \in Issues[c[2]]} :
                                           c \in Members(n)}
  BY <1>7, Zenon
<1> HIDE DEF Rule, N
<1> QED BY <1>8, Zenon DEF OfLeaf, Lifted, N

(* A branch reports no issue when it has none of its own and the nodes     *)
(* below it report none.                                                   *)
LEMMA QuietBranch ==
    ASSUME RowsInv, NEW n \in Inner
    PROVE  Issues[n] = {} <=> OwnIssues(n) = {} /\ \A m \in Below(n) : Issues[m] = {}
<1>1. Issues[n] = Lifted(n, Issues)
  BY IssuesUnfold, TheTree
<1>2. \A c \in Members(n) : {[of |-> x.of, path |-> Prefixed(c[1], x.path)] : x \in Issues[c[2]]} = {}
                              <=> Issues[c[2]] = {}
  OBVIOUS
<1>3. UNION {{[of |-> x.of, path |-> Prefixed(c[1], x.path)] : x \in Issues[c[2]]} : c \in Members(n)} = {}
        <=> \A c \in Members(n) : Issues[c[2]] = {}
  BY <1>2
<1>4. (\A c \in Members(n) : Issues[c[2]] = {}) <=> \A m \in Below(n) : Issues[m] = {}
  BY DEF Below
<1> QED BY <1>1, <1>3, <1>4 DEF Lifted

LEMMA ValidUnfold ==
    ASSUME RowsInv
    PROVE  \A n \in Leaves \cup Inner :
             Valid[n] = IF n \in Leaves THEN Issues[n] = {} ELSE Quiet(n) /\ \A m \in Below(n) : Valid[m]
<1> DEFINE N == Leaves \cup Inner
           Low == [n \in Leaves |-> Issues[n] = {}]
           Mid == [n \in N |-> IF n \in Leaves THEN Issues[n] = {} ELSE Quiet(n) /\ \A m \in Below(n) : Low[m]]
           Top == [n \in N |-> IF n \in Leaves THEN Issues[n] = {} ELSE Quiet(n) /\ \A m \in Below(n) : Mid[m]]
           Rule(F) == F = [n \in N |-> IF n \in Leaves THEN Issues[n] = {}
                                       ELSE Quiet(n) /\ \A m \in Below(n) : F[m]]
<1>1. /\ "a" \in Leaves /\ {"g", "r"} \subseteq N /\ {"g", "r"} \cap Leaves = {}
      /\ N \ Leaves = {"form", "g", "r"} /\ Below("form") = {"a", "g", "r"}
      /\ \A n \in {"g", "r"} : Below(n) \subseteq Leaves
  BY TheTree DEF Leaves, Inner
<1>2. \A m \in Leaves : Low[m] = Mid[m] /\ Mid[m] = Top[m]
  OBVIOUS
<1>3. ASSUME NEW n \in {"g", "r"} PROVE Mid[n] = Top[n]
  <2>1. Mid[n] = (Quiet(n) /\ \A m \in Below(n) : Low[m])
    BY <1>1
  <2>2. Top[n] = (Quiet(n) /\ \A m \in Below(n) : Mid[m])
    <3> HIDE DEF Mid
    <3> QED BY <1>1
  <2> HIDE DEF Low, Mid, Top
  <2> QED BY <1>1, <1>2, <2>1, <2>2
<1>4. ASSUME NEW n \in N \ Leaves
      PROVE  (Quiet(n) /\ \A m \in Below(n) : Mid[m]) = (Quiet(n) /\ \A m \in Below(n) : Top[m])
  <2> HIDE DEF Low, Mid, Top, N
  <2> QED BY <1>1, <1>2, <1>3
<1>5. Rule(Top)
  <2>1. Top = [n \in N |-> IF n \in Leaves THEN Issues[n] = {} ELSE Quiet(n) /\ \A m \in Below(n) : Mid[m]]
    OBVIOUS
  <2> HIDE DEF Low, Mid, Top, N
  <2> QED BY <1>4, <2>1
<1>6. Valid = CHOOSE F : Rule(F)
  BY DEF Valid
<1>7. Rule(Valid)
  <2> HIDE DEF Rule, Top
  <2> QED BY <1>5, <1>6
<1> QED BY <1>7, Zenon

(* Validity and the issues reported agree level by level.                  *)
LEMMA ValidWithoutIssues ==
    ASSUME RowsInv
    PROVE  ValidMeansNoIssues
<1>1. \A n \in Leaves : Valid[n] <=> Issues[n] = {}
  BY ValidUnfold
<1>2. ASSUME NEW n \in Inner, \A m \in Below(n) : Valid[m] <=> Issues[m] = {}
      PROVE  Valid[n] <=> Issues[n] = {}
  <2>1. Valid[n] = (Quiet(n) /\ \A m \in Below(n) : Valid[m])
    BY ValidUnfold, TheTree
  <2> QED BY <1>2, <2>1, QuietBranch DEF Quiet
<1>3. \A n \in {"g", "r"} : Valid[n] <=> Issues[n] = {}
  BY <1>1, <1>2, TheTree DEF Inner
<1>4. Valid["form"] <=> Issues["form"] = {}
  <2>1. "form" \in Inner /\ "a" \in Leaves
    BY DEF Inner, Leaves
  <2>2. \A m \in Below("form") : Valid[m] <=> Issues[m] = {}
    BY <1>1, <1>3, <2>1, TheTree
  <2> QED BY <1>2, <2>1, <2>2
<1>5. InTree \subseteq Leaves \cup {"form", "g", "r"}
  BY TheTree DEF InTree, LeavesUnder, Leaves
<1> QED BY <1>1, <1>3, <1>4, <1>5 DEF ValidMeansNoIssues

-----------------------------------------------------------------------------
(* Where a path of one or two segments leads.                              *)
LEMMA RouteOne ==
    ASSUME NEW s
    PROVE  Route(<<s>>) = Step("form", s)
<1> DEFINE p == <<s>>
           Rule(F) == F = [k \in 0..Len(p) |-> IF k = 0 THEN {"form"}
                                               ELSE UNION {Step(n, p[k]) : n \in F[k - 1]}]
           R == CHOOSE F : Rule(F)
           W == [k \in 0..1 |-> IF k = 0 THEN {"form"} ELSE Step("form", s)]
<1>1. Len(p) = 1 /\ p # <<>> /\ p[1] = s /\ 0..1 = {0, 1}
  OBVIOUS
<1>2. W[0] = {"form"} /\ W[1] = Step("form", s)
  OBVIOUS
<1>3. UNION {Step(n, p[1]) : n \in W[0]} = Step("form", s)
  <2> HIDE DEF W, p
  <2> QED BY <1>1, <1>2
<1>4. Rule(W)
  <2> HIDE DEF p
  <2>1. W = [k \in 0..1 |-> IF k = 0 THEN {"form"} ELSE Step("form", s)]
    OBVIOUS
  <2> HIDE DEF W
  <2>2. \A k \in 0..1 : k # 0 => UNION {Step(n, p[k]) : n \in W[k - 1]} = Step("form", s)
    BY <1>1, <1>3
  <2> QED BY <1>1, <2>1, <2>2
<1>5. Rule(R)
  <2> HIDE DEF Rule, W
  <2> QED BY <1>4
<1>6. Route(p) = R[1]
  <2>1. Route(p) = R[Len(p)]
    BY <1>1, Zenon DEF Route
  <2> HIDE DEF R, p
  <2> QED BY <1>1, <2>1
<1>7. R[0] = {"form"} /\ R[1] = UNION {Step(n, p[1]) : n \in R[0]}
  <2> HIDE DEF R, p
  <2> QED BY <1>1, <1>5
<1>8. R[1] = Step("form", s)
  <2> HIDE DEF R, p
  <2> QED BY <1>1, <1>7
<1> QED BY <1>6, <1>8

LEMMA TwoSegments ==
    ASSUME NEW s, NEW t
    PROVE  <<s>> \o <<t>> = <<s, t>>
<1>1. <<s>> \in Seq({s, t}) /\ <<t>> \in Seq({s, t}) /\ <<s, t>> \in Seq({s, t})
  OBVIOUS
<1>2. Len(<<s>> \o <<t>>) = 2 /\ (<<s>> \o <<t>>)[1] = s /\ (<<s>> \o <<t>>)[2] = t
  BY <1>1
<1>3. <<s>> \o <<t>> \in Seq({s, t}) /\ Len(<<s, t>>) = 2 /\ <<s, t>>[1] = s /\ <<s, t>>[2] = t
  BY <1>1
<1> DEFINE left == <<s>> \o <<t>>
           right == <<s, t>>
           S == {s, t}
<1>4. left \in Seq(S) /\ right \in Seq(S) /\ Len(left) = 2 /\ Len(right) = 2
  BY <1>1, <1>2, <1>3
<1>5. left[1] = right[1] /\ left[2] = right[2]
  BY <1>2, <1>3
<1>6. \A i \in 1..2 : left[i] = right[i]
  <2> HIDE DEF left, right
  <2> QED BY <1>5
<1>7. left = right
  <2> HIDE DEF left, right, S
  <2> QED BY <1>4, <1>6, SeqEqual
<1> QED BY <1>7

LEMMA RouteTwo ==
    ASSUME NEW s, NEW t
    PROVE  Route(<<s, t>>) = UNION {Step(n, t) : n \in Step("form", s)}
<1> DEFINE p == <<s, t>>
           First == Step("form", s)
           Second == UNION {Step(n, t) : n \in First}
           Rule(F) == F = [k \in 0..Len(p) |-> IF k = 0 THEN {"form"}
                                               ELSE UNION {Step(n, p[k]) : n \in F[k - 1]}]
           R == CHOOSE F : Rule(F)
           W == [k \in 0..2 |-> IF k = 0 THEN {"form"} ELSE IF k = 1 THEN First ELSE Second]
<1>1. Len(p) = 2 /\ p # <<>> /\ p[1] = s /\ p[2] = t /\ 0..2 = {0, 1, 2}
  OBVIOUS
<1>2. W[0] = {"form"} /\ W[1] = First /\ W[2] = Second
  OBVIOUS
<1>3. UNION {Step(n, p[1]) : n \in W[0]} = First /\ UNION {Step(n, p[2]) : n \in W[1]} = Second
  <2> HIDE DEF W, p
  <2>1. UNION {Step(n, p[1]) : n \in W[0]} = First
    BY <1>1, <1>2
  <2>2. UNION {Step(n, p[2]) : n \in W[1]} = Second
    <3> HIDE DEF First
    <3> QED BY <1>1, <1>2
  <2> QED BY <2>1, <2>2
<1>4. Rule(W)
  <2>1. W = [k \in 0..2 |-> IF k = 0 THEN {"form"} ELSE IF k = 1 THEN First ELSE Second]
    OBVIOUS
  <2> HIDE DEF W, p, First, Second
  <2>2. ASSUME NEW k \in 0..2, k # 0
        PROVE  UNION {Step(n, p[k]) : n \in W[k - 1]} = IF k = 1 THEN First ELSE Second
    <3>1. CASE k = 1
      BY <1>3, <3>1
    <3>2. CASE k = 2
      BY <1>3, <3>2
    <3> QED BY <2>2, <3>1, <3>2
  <2> QED BY <1>1, <2>1, <2>2
<1>5. Rule(R)
  <2> HIDE DEF Rule, W
  <2> QED BY <1>4
<1>6. Route(p) = R[2]
  <2>1. Route(p) = R[Len(p)]
    BY <1>1, Zenon DEF Route
  <2> HIDE DEF R, p
  <2> QED BY <1>1, <2>1
<1>7. /\ R[0] = {"form"} /\ R[1] = UNION {Step(n, p[1]) : n \in R[0]}
      /\ R[2] = UNION {Step(n, p[2]) : n \in R[1]}
  <2> HIDE DEF R, p
  <2> QED BY <1>1, <1>5
<1>8. R[1] = First
  <2> HIDE DEF R, p
  <2> QED BY <1>1, <1>7
<1>9. R[2] = Second
  <2> HIDE DEF R, p, First
  <2> QED BY <1>1, <1>7, <1>8
<1> QED BY <1>6, <1>9

(* No two nodes below a node have the same segment.                        *)
LEMMA SegmentsApart ==
    ASSUME RowsInv, NEW n \in Inner, NEW c \in Members(n)
    PROVE  Step(n, c[1]) = {c[2]}
<1>1. ASSUME NEW d \in Members(n), d[1] = c[1] PROVE d[2] = c[2]
  <2>1. CASE n = "form"
    <3>1. Members(n) = {<<"a", "a">>, <<"g", "g">>, <<"r", "r">>}
      BY <2>1 DEF Members
    <3>2. \A e \in Members(n) : e[1] = e[2]
      BY <3>1
    <3> QED BY <1>1, <3>2
  <2>2. CASE n = "g"
    <3>1. Members(n) \subseteq {<<"b", "b">>, <<"c", "c">>}
      BY <2>2 DEF Members
    <3>2. \A e \in Members(n) : e[1] = e[2]
      BY <3>1
    <3> QED BY <1>1, <3>2
  <2>3. CASE n = "r"
    <3>1. Members(n) = {<<Position[i], row[i]>> : i \in DOMAIN row}
      BY <2>3 DEF Members
    <3>2. PICK i \in DOMAIN row : c = <<Position[i], row[i]>>
      BY <3>1
    <3>3. PICK j \in DOMAIN row : d = <<Position[j], row[j]>>
      BY <3>1
    <3>4. c[1] = Position[i] /\ c[2] = row[i] /\ d[1] = Position[j] /\ d[2] = row[j]
      BY <3>2, <3>3
    <3>5. i \in DOMAIN Position /\ j \in DOMAIN Position
      BY Indexed DEF RowsInv
    <3> QED BY <1>1, <3>4, <3>5, ItemsAssumption
  <2> QED BY <2>1, <2>2, <2>3 DEF Inner
<1> QED BY <1>1 DEF Step

(* What a field reports is about itself.                                   *)
LEMMA LeafReports ==
    ASSUME RowsInv, NEW n \in Leaves, NEW x \in Issues[n]
    PROVE  x = [of |-> n, path |-> <<>>]
<1>1. Issues[n] = OfLeaf(n) /\ n # "form"
  BY IssuesUnfold, TheTree DEF Inner
<1> QED BY <1>1 DEF OfLeaf, OwnIssues, LeafIssues

(* What a branch reports is its own, or that of a node below it with one   *)
(* segment more.                                                           *)
LEMMA BranchReports ==
    ASSUME RowsInv, NEW n \in Inner, NEW x \in Issues[n], n = "form" => x.of # "form"
    PROVE  \/ n # "form" /\ x = [of |-> n, path |-> <<>>]
           \/ \E c \in Members(n) : \E y \in Issues[c[2]] : x = [of |-> y.of, path |-> <<c[1]>> \o y.path]
<1>1. x \in Lifted(n, Issues)
  BY IssuesUnfold, TheTree
<1>2. CASE x \in OwnIssues(n)
  BY <1>2 DEF OwnIssues
<1>3. CASE x \notin OwnIssues(n)
  <2>1. PICK c \in Members(n) :
          x \in {[of |-> y.of, path |-> Prefixed(c[1], y.path)] : y \in Issues[c[2]]}
    BY <1>1, <1>3 DEF Lifted
  <2>2. PICK y \in Issues[c[2]] : x = [of |-> y.of, path |-> Prefixed(c[1], y.path)]
    BY <2>1
  <2> QED BY <2>2 DEF Prefixed
<1> QED BY <1>2, <1>3

(* The path of an issue leads back to its node.                            *)
LEMMA LeadsBack ==
    ASSUME RowsInv
    PROVE  IssuesLeadBack
<1> SUFFICES ASSUME NEW x \in Issues["form"], x.of # "form" PROVE Route(x.path) = {x.of}
  BY DEF IssuesLeadBack
<1>1. "form" \in Inner
  BY DEF Inner
<1>2. PICK c \in Members("form") : \E y \in Issues[c[2]] : x = [of |-> y.of, path |-> <<c[1]>> \o y.path]
  BY <1>1, BranchReports
<1>3. PICK y \in Issues[c[2]] : x = [of |-> y.of, path |-> <<c[1]>> \o y.path]
  BY <1>2
<1>4. c[2] \in {"a", "g", "r"} /\ Step("form", c[1]) = {c[2]}
  BY <1>1, TheTree, SegmentsApart
<1>5. CASE y = [of |-> c[2], path |-> <<>>]
  <2>1. x.of = c[2] /\ x.path = <<c[1]>>
    BY <1>3, <1>5
  <2> QED BY <1>4, <2>1, RouteOne
<1>6. CASE y # [of |-> c[2], path |-> <<>>]
  <2>1. c[2] \in Inner /\ c[2] # "form"
    <3>1. c[2] \notin Leaves
      BY <1>6, LeafReports
    <3> QED BY <1>4, <3>1 DEF Leaves, Inner
  <2>2. PICK d \in Members(c[2]) : \E z \in Issues[d[2]] : y = [of |-> z.of, path |-> <<d[1]>> \o z.path]
    BY <1>6, <2>1, BranchReports
  <2>3. PICK z \in Issues[d[2]] : y = [of |-> z.of, path |-> <<d[1]>> \o z.path]
    BY <2>2
  <2>4. d[2] \in Leaves /\ Step(c[2], d[1]) = {d[2]}
    <3>1. c[2] \in {"g", "r"}
      BY <1>4, <2>1 DEF Inner
    <3>2. d[2] \in Below(c[2]) /\ Below(c[2]) \subseteq Leaves
      BY <2>1, <3>1, TheTree
    <3> QED BY <2>1, <3>2, SegmentsApart
  <2>5. z = [of |-> d[2], path |-> <<>>]
    BY <2>4, LeafReports
  <2>6. y.of = d[2] /\ y.path = <<d[1]>>
    BY <2>3, <2>5
  <2>7. x.of = d[2] /\ x.path = <<c[1], d[1]>>
    BY <1>3, <2>6, TwoSegments
  <2>8. Route(<<c[1], d[1]>>) = UNION {Step(n, d[1]) : n \in Step("form", c[1])}
    BY RouteTwo
  <2>9. UNION {Step(n, d[1]) : n \in {c[2]}} = Step(c[2], d[1])
    OBVIOUS
  <2> QED BY <1>4, <2>4, <2>7, <2>8, <2>9
<1> QED BY <1>5, <1>6

-----------------------------------------------------------------------------
(* No operation puts an item into the array twice.                         *)
LEMMA RowsKept ==
    ASSUME RowsInv, [ValuesNext]_formVars
    PROVE  RowsInv'
<1>1. CASE UNCHANGED <<row, rowBase>>
  BY <1>1 DEF RowsInv, NoneTwice
<1>2. ASSUME NEW i \in Items, NEW v \in Values, AppendItem(i, v) PROVE RowsInv'
  <2>1. i \notin Range(row) /\ row' = Append(row, i) /\ rowBase' = rowBase
    BY <1>2 DEF AppendItem
  <2>2. row \in Seq(Items) /\ DOMAIN row = 1..Len(row) /\ Len(row) \in Nat
    BY DEF RowsInv, NoneTwice
  <2>3. /\ row' \in Seq(Items) /\ DOMAIN row' = 1..(Len(row) + 1)
        /\ row'[Len(row) + 1] = i /\ \A k \in 1..Len(row) : row'[k] = row[k]
    BY <2>1, <2>2
  <2>4. \A k \in 1..Len(row) : row[k] # i
    BY <2>1, <2>2 DEF Range
  <2>5. NoneTwice(row')
    BY <2>2, <2>3, <2>4 DEF RowsInv, NoneTwice
  <2> QED BY <2>1, <2>5 DEF RowsInv, NoneTwice
<1>3. ASSUME NEW k \in DOMAIN row, DropItem(k) PROVE RowsInv'
  <2>1. row \in Seq(Items) /\ DOMAIN row = 1..Len(row) /\ Len(row) \in Nat /\ k \in 1..Len(row)
    BY DEF RowsInv, NoneTwice
  <2>2. /\ row' = [j \in 1..Len(row) - 1 |-> row[IF j < k THEN j ELSE j + 1]]
        /\ rowBase' = rowBase
    BY <1>3 DEF DropItem
  <2>3. row' \in Seq(Items) /\ DOMAIN row' = 1..Len(row) - 1
    BY <2>1, <2>2
  <2>4. \A i, j \in DOMAIN row' : row'[i] = row'[j] => i = j
    <3> DEFINE at == [j \in 1..Len(row) - 1 |-> IF j < k THEN j ELSE j + 1]
    <3>1. \A j \in DOMAIN row' : at[j] \in DOMAIN row /\ row'[j] = row[at[j]]
      BY <2>1, <2>2, <2>3
    <3>2. \A i, j \in DOMAIN row' : at[i] = at[j] => i = j
      BY <2>1, <2>3
    <3>3. \A i, j \in DOMAIN row : row[i] = row[j] => i = j
      BY DEF RowsInv, NoneTwice
    <3> HIDE DEF at
    <3> QED BY <3>1, <3>2, <3>3
  <2> QED BY <2>2, <2>3, <2>4 DEF RowsInv, NoneTwice
<1>4. ASSUME NEW n \in Inner, ResetNode(n) PROVE RowsInv'
  BY <1>4 DEF ResetNode, RowsInv, NoneTwice
<1>5. ASSUME NEW input \in Inputs, Reinitialize(input) PROVE RowsInv'
  BY <1>5 DEF Reinitialize, RowsInv, NoneTwice, valuesVars
<1>6. ASSUME Operation, ~UNCHANGED <<row, rowBase>> PROVE RowsInv'
  <2>1. \/ \E v \in Values, i \in Items : AppendItem(i, v)
        \/ \E k \in DOMAIN row : DropItem(k)
        \/ \E n \in Inner : ResetNode(n)
        \/ \E input \in Inputs : Reinitialize(input)
    BY <1>6 DEF Operation, TouchLeaf, JudgeLeaf, EditLeaf, RegisterOptional, UnregisterOptional, RouteServerIssues
  <2> QED BY <1>2, <1>3, <1>4, <1>5, <2>1
<1> QED BY <1>1, <1>6 DEF ValuesNext, formVars, valuesVars

(* An array begins with at most one item.                                 *)
LEMMA RowsStart == ValuesInit => RowsInv
<1> SUFFICES ASSUME ValuesInit PROVE RowsInv
  OBVIOUS
<1>1. rowBase = row /\ row \in {<<i>> : i \in Items} \cup {<<>>}
  BY DEF ValuesInit
<1>2. CASE row = <<>>
  BY <1>1, <1>2 DEF RowsInv, NoneTwice
<1>3. ASSUME NEW i \in Items, row = <<i>> PROVE RowsInv
  <2>1. row \in Seq(Items) /\ DOMAIN row = {1}
    BY <1>3
  <2> QED BY <1>1, <2>1 DEF RowsInv, NoneTwice
<1> QED BY <1>1, <1>2, <1>3

(* A node is valid when it reports no issue, and the path the form reports *)
(* with an issue leads its routing back to the node.                       *)
THEOREM IssuesAlwaysAgreeInTree == ValuesSpec => []IssuesAgreeInTree
<1>1. ValuesInit => RowsInv
  BY RowsStart
<1>2. RowsInv => IssuesAgreeInTree
  BY ValidWithoutIssues, LeadsBack DEF IssuesAgreeInTree
<1> QED BY <1>1, <1>2, RowsKept, PTL DEF ValuesSpec

-----------------------------------------------------------------------------
(* The fields of the tree.                                                 *)
FieldRecord == [value : Values, base : Values, touched : BOOLEAN, verdict : BOOLEAN]
LeavesInv == leaf \in [Leaves -> FieldRecord]

LEMMA LeavesOfTree ==
    ASSUME RowsInv
    PROVE  /\ LeavesUnder("form") = {"a", "b"} \cup (IF optional THEN {"c"} ELSE {}) \cup Range(row)
           /\ LeavesUnder("form") = (Below("form") \cap Leaves) \cup Below("g") \cup Below("r")
           /\ InTree \cap Leaves = LeavesUnder("form")
<1>1. Members("a") = {}
  BY DEF Members
<1>2. Below("a") = {}
  BY <1>1 DEF Below
<1>3. Below("g") = {"b"} \cup IF optional THEN {"c"} ELSE {}
  <2>1. <<"b", "b">>[2] = "b" /\ <<"c", "c">>[2] = "c"
    OBVIOUS
  <2>2. Members("g") = {<<"b", "b">>} \cup IF optional THEN {<<"c", "c">>} ELSE {}
    BY DEF Members
  <2>3. Below("g") = {c[2] : c \in {<<"b", "b">>} \cup IF optional THEN {<<"c", "c">>} ELSE {}}
    BY <2>2, Zenon DEF Below
  <2>4. CASE optional
    <3>1. Below("g") = {c[2] : c \in {<<"b", "b">>, <<"c", "c">>}}
      BY <2>3, <2>4
    <3>2. Below("g") = {"b", "c"}
      BY <2>1, <3>1, Zenon
    <3> QED BY <2>4, <3>2
  <2>5. CASE ~optional
    <3>1. Below("g") = {c[2] : c \in {<<"b", "b">>}}
      BY <2>3, <2>5
    <3>2. Below("g") = {"b"}
      BY <2>1, <3>1, Zenon
    <3> QED BY <2>5, <3>2
  <2> QED BY <2>4, <2>5
<1>4. Below("r") = Range(row)
  <2>1. Members("r") = {<<Position[i], row[i]>> : i \in DOMAIN row}
    BY DEF Members
  <2>2. \A i \in DOMAIN row : <<Position[i], row[i]>>[2] = row[i]
    OBVIOUS
  <2>3. Below("r") = {row[i] : i \in DOMAIN row}
    <3>1. \A m : m \in Below("r") <=> \E i \in DOMAIN row : m = <<Position[i], row[i]>>[2]
      BY <2>1, Zenon DEF Below
    <3> QED BY <2>2, <3>1
  <2> QED BY <2>3 DEF Range
<1>5. LeavesUnder("form") = {"a"} \cup Below("g") \cup Below("r")
  <2>1. {Below(m) : m \in Below("form")} = {Below("a"), Below("g"), Below("r")}
    BY TheTree
  <2>2. LeavesUnder("form") = ({"a", "g", "r"} \cup (Below("a") \cup Below("g") \cup Below("r"))) \cap Leaves
    BY <2>1, TheTree DEF LeavesUnder
  <2> QED BY <1>2, <2>2, TheTree DEF Leaves, Inner
<1>6. Below("form") \cap Leaves = {"a"} /\ "form" \notin Leaves
  BY TheTree DEF Leaves, Inner
<1>7. InTree \cap Leaves = LeavesUnder("form")
  BY <1>5, <1>6, TheTree DEF InTree
<1> QED BY <1>3, <1>4, <1>5, <1>6, <1>7

(* What an input gives: one value for all fields.                          *)
LEMMA OneValue ==
    ASSUME NEW input \in Inputs
    PROVE  \E v \in Values : input.value = [f \in Leaves |-> v]
<1> DEFINE sound == [value : {[f \in Leaves |-> v] : v \in Values}, missing : {{}}, shapeless : {{}},
                     length : {Len(row)}]
<1>1. \/ input \in sound
      \/ \E x \in sound, k \in 0..Cardinality(Items) : input = [x EXCEPT !.length = k]
      \/ \E x \in sound, n \in {"a", "g", "r", "b", "c"} : input = [x EXCEPT !.missing = {n}]
      \/ \E x \in sound, n \in {"g", "r"} : input = [x EXCEPT !.shapeless = {n}]
  <2>1. Inputs = sound \cup {[x EXCEPT !.length = k] : x \in sound, k \in 0 .. Cardinality(Items)}
                       \cup {[x EXCEPT !.missing = {n}] : x \in sound, n \in {"a", "g", "r", "b", "c"}}
                       \cup {[x EXCEPT !.shapeless = {n}] : x \in sound, n \in {"g", "r"}}
    BY DEF Inputs
  <2> HIDE DEF sound
  <2> QED BY <2>1
<1>2. \A x \in sound : /\ \A k : [x EXCEPT !.length = k].value = x.value
                       /\ \A k : [x EXCEPT !.missing = k].value = x.value
                       /\ \A k : [x EXCEPT !.shapeless = k].value = x.value
                       /\ x.value \in {[f \in Leaves |-> v] : v \in Values}
  OBVIOUS
<1> HIDE DEF sound
<1>3. input.value \in {[f \in Leaves |-> v] : v \in Values}
  BY <1>1, <1>2
<1> QED BY <1>3

(* An input that fits has a value for every field.                         *)
LEMMA FittingGives ==
    ASSUME RowsInv, NEW input \in Inputs, Fits(input), NEW f \in LeavesUnder("form")
    PROVE  Given(f, input) = input.value[f]
<1>1. FitsNode("form", input) /\ FitsNode("g", input) /\ FitsNode("r", input)
  BY DEF Fits
<1>2. f \notin input.missing /\ input.shapeless \cap {"g"} = {} /\ "r" \notin input.shapeless
      /\ input.length = Len(row)
  BY <1>1, LeavesOfTree DEF FitsNode
<1>3. \A k \in DOMAIN row : ~(k > input.length)
  BY <1>2 DEF RowsInv, NoneTwice
<1> QED BY <1>2, <1>3 DEF Given

LEMMA LeavesKept ==
    ASSUME RowsInv, LeavesInv, [ValuesNext]_formVars
    PROVE  LeavesInv'
<1>1. CASE UNCHANGED leaf
  BY <1>1 DEF LeavesInv
<1>2. \A v \in Values : Fresh(v) \in FieldRecord
  BY DEF Fresh, FieldRecord
<1>3. \A f \in Leaves : leaf[f] \in FieldRecord /\ ResetOf(f) \in FieldRecord /\ ResetOf(f).base = leaf[f].base
  <2> SUFFICES ASSUME NEW f \in Leaves
               PROVE  leaf[f] \in FieldRecord /\ ResetOf(f) \in FieldRecord /\ ResetOf(f).base = leaf[f].base
    OBVIOUS
  <2>1. leaf[f] \in FieldRecord
    BY DEF LeavesInv
  <2>2. leaf[f].base \in Values
    BY <2>1 DEF FieldRecord
  <2> QED BY <1>2, <2>1, <2>2 DEF ResetOf, Fresh
<1>4. ASSUME NEW f \in Leaves, TouchLeaf(f) \/ JudgeLeaf(f) \/ \E v \in Values : EditLeaf(f, v)
      PROVE  LeavesInv'
  <2>1. leaf \in [Leaves -> FieldRecord] /\ leaf[f] \in FieldRecord
    BY <1>3 DEF LeavesInv
  <2>2. PICK x : x \in FieldRecord /\ leaf' = [leaf EXCEPT ![f] = x]
    <3>1. CASE TouchLeaf(f)
      <4>1. [leaf[f] EXCEPT !.touched = TRUE] \in FieldRecord
        BY <2>1 DEF FieldRecord
      <4> QED BY <3>1, <4>1 DEF TouchLeaf
    <3>2. CASE JudgeLeaf(f)
      <4>1. [leaf[f] EXCEPT !.verdict = ~@] \in FieldRecord
        BY <2>1 DEF FieldRecord
      <4> QED BY <3>2, <4>1 DEF JudgeLeaf
    <3>3. ASSUME NEW v \in Values, EditLeaf(f, v)
          PROVE  \E x : x \in FieldRecord /\ leaf' = [leaf EXCEPT ![f] = x]
      <4>1. [leaf[f] EXCEPT !.value = v] \in FieldRecord
        BY <2>1 DEF FieldRecord
      <4> QED BY <3>3, <4>1 DEF EditLeaf
    <3> QED BY <1>4, <3>1, <3>2, <3>3
  <2> QED BY <2>1, <2>2 DEF LeavesInv
<1>5. ASSUME NEW v \in Values, RegisterOptional(v) \/ \E i \in Items : AppendItem(i, v)
      PROVE  LeavesInv'
  BY <1>2, <1>5 DEF RegisterOptional, AppendItem, LeavesInv, Leaves
<1>6. ASSUME NEW k \in DOMAIN row, DropItem(k) PROVE LeavesInv'
  BY <1>3, <1>6 DEF DropItem, LeavesInv, RowsInv, NoneTwice, Leaves
<1>7. ASSUME NEW n \in Inner, ResetNode(n) PROVE LeavesInv'
  <2>1. leaf' \in [Leaves -> {ResetOf(f) : f \in Leaves} \cup {leaf[f] : f \in Leaves}]
    BY <1>7 DEF ResetNode
  <2> QED BY <1>3, <2>1 DEF LeavesInv
<1>8. ASSUME NEW input \in Inputs, Reinitialize(input), Fits(input) PROVE LeavesInv'
  <2>1. leaf' = [f \in Leaves |-> IF f \in LeavesUnder("form") THEN Fresh(Given(f, input)) ELSE leaf[f]]
    BY <1>8 DEF Reinitialize
  <2>2. ASSUME NEW f \in LeavesUnder("form") \cap Leaves PROVE Fresh(Given(f, input)) \in FieldRecord
    <3>1. Given(f, input) = input.value[f]
      BY <1>8, FittingGives
    <3>2. input.value[f] \in Values
      BY OneValue
    <3> QED BY <1>2, <3>1, <3>2
  <2> QED BY <1>3, <2>1, <2>2 DEF LeavesInv
<1>9. ASSUME Operation, ~UNCHANGED leaf PROVE LeavesInv'
  <2>1. \/ \E f \in Leaves : TouchLeaf(f) \/ JudgeLeaf(f) \/ \E v \in Values : EditLeaf(f, v)
        \/ \E v \in Values : RegisterOptional(v) \/ \E i \in Items : AppendItem(i, v)
        \/ \E k \in DOMAIN row : DropItem(k)
        \/ \E n \in Inner : ResetNode(n)
        \/ \E input \in Inputs : Reinitialize(input) /\ Fits(input)
    BY <1>9 DEF Operation, UnregisterOptional, RouteServerIssues, Reinitialize, valuesVars
  <2> QED BY <1>4, <1>5, <1>6, <1>7, <1>8, <2>1
<1> QED BY <1>1, <1>9 DEF ValuesNext, formVars, valuesVars

(* Only reinitialize() changes the baseline of a field that stays.         *)
LEMMA BaselinesMove ==
    ASSUME RowsInv, LeavesInv, ValuesNext,
           NEW f \in Leaves, f \in InTree, f \in InTree', leaf'[f].base # leaf[f].base
    PROVE  \E input \in Inputs : Reinitialize(input) /\ Fits(input)
<1>1. f \in LeavesUnder("form")
  BY LeavesOfTree
<1>2. \A g \in Leaves : leaf[g] \in FieldRecord /\ ResetOf(g).base = leaf[g].base
  BY DEF LeavesInv, ResetOf, Fresh
<1>3. ASSUME NEW g \in Leaves, TouchLeaf(g) \/ JudgeLeaf(g) \/ \E v \in Values : EditLeaf(g, v)
      PROVE  FALSE
  BY <1>2, <1>3 DEF TouchLeaf, JudgeLeaf, EditLeaf, LeavesInv, FieldRecord
<1>4. ASSUME NEW v \in Values, RegisterOptional(v) PROVE FALSE
  <2>1. f # "c"
    BY <1>1, <1>4, LeavesOfTree, ItemsAssumption DEF RegisterOptional, RowsInv, NoneTwice, Range
  <2> QED BY <1>4, <2>1 DEF RegisterOptional, LeavesInv
<1>5. ASSUME NEW v \in Values, NEW i \in Items, AppendItem(i, v) PROVE FALSE
  <2>1. f # i
    BY <1>1, <1>5, LeavesOfTree, ItemsAssumption DEF AppendItem
  <2> QED BY <1>5, <2>1 DEF AppendItem, LeavesInv
<1>6. ASSUME NEW k \in DOMAIN row, DropItem(k) PROVE FALSE
  BY <1>2, <1>6 DEF DropItem, LeavesInv
<1>7. ASSUME NEW n \in Inner, ResetNode(n) PROVE FALSE
  <2>1. leaf'[f] = ResetOf(f) \/ leaf'[f] = leaf[f]
    BY <1>7 DEF ResetNode
  <2> QED BY <1>2, <2>1
<1>8. \/ \E g \in Leaves : TouchLeaf(g) \/ JudgeLeaf(g) \/ \E v \in Values : EditLeaf(g, v)
      \/ \E v \in Values : RegisterOptional(v) \/ \E i \in Items : AppendItem(i, v)
      \/ \E k \in DOMAIN row : DropItem(k)
      \/ \E n \in Inner : ResetNode(n)
      \/ \E input \in Inputs : Reinitialize(input) /\ Fits(input)
  <2>1. Operation /\ ~UNCHANGED leaf
    BY DEF ValuesNext
  <2> QED BY <2>1 DEF Operation, UnregisterOptional, RouteServerIssues, Reinitialize, valuesVars
<1> QED BY <1>3, <1>4, <1>5, <1>6, <1>7, <1>8

(* A tree in which nothing was found and the server said nothing.          *)
NothingFound ==
    /\ server = {} /\ stray = {}
    /\ \A f \in LeavesUnder("form") : ~leaf[f].verdict

NoIssue == Issues["form"] = {}

LEMMA NoIssueLeft ==
    ASSUME RowsInv, NothingFound
    PROVE  Issues["form"] = {}
<1>1. \A n : OwnIssues(n) = {}
  BY DEF NothingFound, OwnIssues
<1>2. ASSUME NEW f \in LeavesUnder("form") PROVE Issues[f] = {}
  <2>1. f \in Leaves
    BY DEF LeavesUnder
  <2> QED BY <1>1, <2>1, IssuesUnfold DEF OfLeaf, LeafIssues, NothingFound
<1>3. \A n \in {"g", "r"} : Issues[n] = {}
  BY <1>1, <1>2, QuietBranch, LeavesOfTree DEF Inner
<1>4. "a" \in LeavesUnder("form") /\ Below("form") = {"a", "g", "r"} /\ "form" \in Inner
  BY LeavesOfTree, TheTree DEF Inner
<1> QED BY <1>1, <1>2, <1>3, <1>4, QuietBranch

(* form.reinitialize() takes all of its input or nothing.                  *)
THEOREM AlwaysReinitializesWhole == ValuesSpec => ReinitializesWhole
<1>1. ValuesInit => RowsInv /\ LeavesInv
  <2> SUFFICES ASSUME ValuesInit PROVE RowsInv /\ LeavesInv
    OBVIOUS
  <2>1. RowsInv
    BY RowsStart
  <2>2. LeavesInv
    BY DEF ValuesInit, LeavesInv, FieldRecord, Fresh
  <2> QED BY <2>1, <2>2
<1>2. RowsInv /\ LeavesInv /\ [ValuesNext]_formVars => (RowsInv /\ LeavesInv)'
  BY RowsKept, LeavesKept
<1>3. RowsInv /\ NothingFound => NoIssue
  BY NoIssueLeft DEF NoIssue
<1>4. RowsInv' /\ NothingFound' => NoIssue'
  BY <1>3, PTL
<1>5. RowsInv /\ LeavesInv /\ RowsInv' /\ [ValuesNext]_formVars =>
        [(\E f \in InTree : f \in Leaves /\ f \in InTree' /\ leaf'[f].base # leaf[f].base) =>
           /\ \E v \in Values : \A f \in LeavesUnder("form")' : leaf'[f] = Fresh(v)
           /\ Issues["form"]' = {}]_valuesVars
  <2> SUFFICES ASSUME RowsInv, LeavesInv, RowsInv', ValuesNext,
                      NEW f \in InTree, f \in Leaves, f \in InTree', leaf'[f].base # leaf[f].base
               PROVE  /\ \E v \in Values : \A g \in LeavesUnder("form")' : leaf'[g] = Fresh(v)
                      /\ Issues["form"]' = {}
    BY DEF formVars, valuesVars
  <2>1. PICK input \in Inputs : Reinitialize(input) /\ Fits(input)
    BY BaselinesMove
  <2>2. PICK v \in Values : input.value = [g \in Leaves |-> v]
    BY OneValue
  <2>3. /\ leaf' = [g \in Leaves |-> IF g \in LeavesUnder("form") THEN Fresh(Given(g, input)) ELSE leaf[g]]
        /\ server' = {} /\ stray' = {} /\ UNCHANGED <<optional, row>>
    BY <2>1 DEF Reinitialize
  <2>4. LeavesUnder("form")' = LeavesUnder("form")
    BY <2>3 DEF LeavesUnder, Below, Members
  <2>5. \A g \in LeavesUnder("form") : g \in Leaves /\ leaf'[g] = Fresh(v)
    BY <2>1, <2>2, <2>3, FittingGives DEF LeavesUnder
  <2>6. NothingFound'
    BY <2>3, <2>4, <2>5 DEF NothingFound, Fresh
  <2> QED BY <1>4, <2>4, <2>5, <2>6 DEF NoIssue
<1> QED BY <1>1, <1>2, <1>5, PTL DEF ValuesSpec, ReinitializesWhole
=============================================================================
