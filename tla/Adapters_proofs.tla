--------------------------- MODULE Adapters_proofs ---------------------------
(* Proofs about the adapters and the listeners of a form: the aria       *)
(* attributes shared by several bindings of a control (Attributes), the  *)
(* handles that show a node (Projection), the bindings of controls       *)
(* (Controls), the registry that the first bad field is looked for in    *)
(* (Focus), and submit() with listeners that act while a status is       *)
(* delivered (SubmissionListeners).                                      *)
EXTENDS Projection, Attributes, Controls, Focus, SubmissionListeners,
        FiniteSetTheorems, SequenceTheorems, WellFoundedInduction, TLAPS

-----------------------------------------------------------------------------
(* Attributes.                                                           *)

(* What a holder is: not made, live, or gone.                            *)
HolderType ==
    {NoHolder, [life |-> "gone"]}
    \cup [life : {"live"}, field : Judged, el : Spots, aria : BOOLEAN, says : BOOLEAN,
          adds : BOOLEAN]

AttributesTypeOK ==
    /\ faulty \in [Judged -> BOOLEAN]
    /\ holder \in [Holders -> HolderType]
    /\ aria = Projected(holder)
    /\ stale \subseteq {h \in Holders : Holds(h)}

(* A holder that is not to be told says what its field is.               *)
ToldIsTrue ==
    \A h \in Holders : Holds(h) =>
        h \in stale \/ holder[h].says = faulty[holder[h].field]

(* The token is on a control that has it of its own, or while the one    *)
(* holder that added it is live; nobody adds what is there.              *)
TokensAreOwned ==
    /\ tokens \in [Spots -> SUBSET {"hint", "issue"}]
    /\ \A e \in Spots :
        IF \E h \in Holders : Holds(h) /\ holder[h].el = e /\ holder[h].adds
        THEN tokens[e] = own.tokens \cup {"issue"} /\ "issue" \notin own.tokens
        ELSE tokens[e] = own.tokens
    /\ \A g, h \in Holders :
        Holds(g) /\ Holds(h) /\ holder[g].adds /\ holder[h].adds /\ holder[g].el = holder[h].el
            => g = h

AttributesInv == AttributesTypeOK /\ ToldIsTrue /\ TokensAreOwned
-----------------------------------------------------------------------------
LEMMA AttributesInitInv == AttributesInit => AttributesInv
<1> SUFFICES ASSUME AttributesInit PROVE AttributesInv
  OBVIOUS
<1>1. \A h \in Holders : ~Holds(h)
  BY DEF AttributesInit, Holds, NoHolder
<1>2. aria = Projected(holder)
  BY <1>1 DEF AttributesInit, Projected, Participants, Holds
<1>3. own.tokens \in SUBSET {"hint", "issue"}
  BY DEF AttributesInit
<1> QED
  BY <1>1, <1>2, <1>3
  DEF AttributesInit, AttributesInv, AttributesTypeOK, HolderType, ToldIsTrue, TokensAreOwned

(* Hold: the token is added by a holder that does not find it.           *)
LEMMA HoldInv == AttributesInv /\ Hold => AttributesInv'
<1> SUFFICES ASSUME AttributesInv, Hold PROVE AttributesInv'
  OBVIOUS
<1>1. PICK h \in Holders, f \in Judged, e \in Spots, withAria \in BOOLEAN, withIssue \in BOOLEAN :
        /\ holder[h].life = "none"
        /\ LET adds == withIssue /\ "issue" \notin tokens[e] IN
           /\ holder' = [holder EXCEPT ![h] = [life |-> "live", field |-> f, el |-> e,
                                               aria |-> withAria, says |-> Says(f), adds |-> adds]]
           /\ tokens' = IF adds THEN [tokens EXCEPT ![e] = @ \cup {"issue"}] ELSE tokens
        /\ aria' = Projected(holder')
        /\ UNCHANGED <<faulty, own, stale>>
  BY Zenon DEF Hold
<1> DEFINE adds == withIssue /\ "issue" \notin tokens[e]
           new == [life |-> "live", field |-> f, el |-> e,
                   aria |-> withAria, says |-> faulty[f], adds |-> adds]
<1>2. adds \in BOOLEAN /\ faulty[f] \in BOOLEAN
  BY DEF AttributesInv, AttributesTypeOK
<1>3. /\ holder' = [holder EXCEPT ![h] = new]
      /\ tokens' = IF adds THEN [tokens EXCEPT ![e] = @ \cup {"issue"}] ELSE tokens
  BY <1>1 DEF Says
<1>4. adds => "issue" \notin tokens[e]
  OBVIOUS
<1> HIDE DEF adds
<1>5. /\ new \in HolderType /\ new.life = "live" /\ new.field = f /\ new.el = e
      /\ new.says = faulty[f] /\ new.adds = adds
  BY <1>2 DEF HolderType
<1> HIDE DEF new
<1>6. /\ holder'[h] = new /\ \A g \in Holders \ {h} : holder'[g] = holder[g]
      /\ holder' \in [Holders -> HolderType] /\ ~Holds(h)
  BY <1>1, <1>3, <1>5 DEF AttributesInv, AttributesTypeOK, Holds
<1>7. AttributesTypeOK'
  <2>1. stale' \subseteq {g \in Holders : Holds(g)'}
    BY <1>1, <1>6 DEF AttributesInv, AttributesTypeOK, Holds
  <2> QED BY <1>1, <1>6, <2>1 DEF AttributesInv, AttributesTypeOK, Projected
<1>8. ToldIsTrue'
  BY <1>1, <1>5, <1>6 DEF AttributesInv, ToldIsTrue, Holds
<1>9. TokensAreOwned'
  <2>1. tokens' \in [Spots -> SUBSET {"hint", "issue"}]
    BY <1>3 DEF AttributesInv, TokensAreOwned
  <2>2. adds => /\ "issue" \notin tokens[e]
                /\ ~\E g \in Holders : Holds(g) /\ holder[g].el = e /\ holder[g].adds
    BY <1>4 DEF AttributesInv, TokensAreOwned
  <2>3. ASSUME NEW g \in Holders
        PROVE  Holds(g)' /\ holder'[g].adds
                 <=> IF g = h THEN adds ELSE Holds(g) /\ holder[g].adds
    BY <1>5, <1>6 DEF Holds
  <2>4. ASSUME NEW s \in Spots
        PROVE  IF \E g \in Holders : Holds(g)' /\ holder'[g].el = s /\ holder'[g].adds
               THEN tokens'[s] = own.tokens \cup {"issue"} /\ "issue" \notin own.tokens
               ELSE tokens'[s] = own.tokens
    BY <1>3, <1>5, <1>6, <2>2, <2>3 DEF AttributesInv, TokensAreOwned
  <2>5. ASSUME NEW g \in Holders, NEW k \in Holders, Holds(g)', Holds(k)',
               holder'[g].adds, holder'[k].adds, holder'[g].el = holder'[k].el
        PROVE  g = k
    BY <1>5, <1>6, <2>2, <2>3, <2>5 DEF AttributesInv, TokensAreOwned
  <2> QED BY <1>1, <2>1, <2>4, <2>5 DEF TokensAreOwned
<1> QED BY <1>7, <1>8, <1>9 DEF AttributesInv

(* Release: the token goes with the holder that added it.                *)
LEMMA ReleaseInv ==
    ASSUME AttributesInv, NEW h \in Holders, Release(h)
    PROVE  AttributesInv'
<1> DEFINE gone == [life |-> "gone"]
<1>1. /\ Holds(h) /\ holder' = [holder EXCEPT ![h] = gone]
      /\ aria' = Projected(holder') /\ stale' = stale \ {h} /\ UNCHANGED <<faulty, own>>
      /\ tokens' = IF holder[h].adds THEN [tokens EXCEPT ![holder[h].el] = @ \ {"issue"}]
                   ELSE tokens
  BY DEF Release
<1>2. gone \in HolderType /\ gone.life # "live"
  BY DEF HolderType
<1> HIDE DEF gone
<1>3. /\ holder'[h] = gone /\ \A g \in Holders \ {h} : holder'[g] = holder[g]
      /\ holder' \in [Holders -> HolderType] /\ ~Holds(h)'
  BY <1>1, <1>2 DEF AttributesInv, AttributesTypeOK, Holds
<1>4. AttributesTypeOK'
  <2>1. stale' \subseteq {g \in Holders : Holds(g)'}
    BY <1>1, <1>3 DEF AttributesInv, AttributesTypeOK, Holds
  <2> QED BY <1>1, <1>3, <2>1 DEF AttributesInv, AttributesTypeOK, Projected
<1>5. ToldIsTrue'
  BY <1>1, <1>3 DEF AttributesInv, ToldIsTrue, Holds
<1>6. TokensAreOwned'
  <2>1. tokens' \in [Spots -> SUBSET {"hint", "issue"}] /\ holder[h].el \in Spots
    BY <1>1 DEF AttributesInv, TokensAreOwned, AttributesTypeOK, HolderType, Holds, NoHolder
  <2>2. ASSUME NEW g \in Holders
        PROVE  Holds(g)' <=> g # h /\ Holds(g)
    BY <1>3 DEF Holds
  <2>3. ASSUME NEW s \in Spots
        PROVE  IF \E g \in Holders : Holds(g)' /\ holder'[g].el = s /\ holder'[g].adds
               THEN tokens'[s] = own.tokens \cup {"issue"} /\ "issue" \notin own.tokens
               ELSE tokens'[s] = own.tokens
    <3>1. CASE holder[h].adds /\ holder[h].el = s
      <4>1. /\ tokens[s] = own.tokens \cup {"issue"} /\ "issue" \notin own.tokens
            /\ tokens'[s] = tokens[s] \ {"issue"}
        BY <1>1, <3>1 DEF AttributesInv, TokensAreOwned
      <4>2. ~\E g \in Holders : Holds(g)' /\ holder'[g].el = s /\ holder'[g].adds
        BY <1>1, <1>3, <2>2, <3>1 DEF AttributesInv, TokensAreOwned
      <4> QED BY <4>1, <4>2
    <3>2. CASE ~(holder[h].adds /\ holder[h].el = s)
      <4>1. tokens'[s] = tokens[s]
        BY <1>1, <2>1, <3>2 DEF AttributesInv, TokensAreOwned
      <4>2. (\E g \in Holders : Holds(g)' /\ holder'[g].el = s /\ holder'[g].adds)
              <=> \E g \in Holders : Holds(g) /\ holder[g].el = s /\ holder[g].adds
        <5>1. ASSUME NEW g \in Holders
              PROVE  (Holds(g)' /\ holder'[g].el = s /\ holder'[g].adds)
                       <=> (Holds(g) /\ holder[g].el = s /\ holder[g].adds)
          BY <1>3, <2>2, <3>2
        <5> QED BY <5>1
      <4> QED BY <4>1, <4>2 DEF AttributesInv, TokensAreOwned
    <3> QED BY <3>1, <3>2
  <2>4. ASSUME NEW g \in Holders, NEW k \in Holders, Holds(g)', Holds(k)',
               holder'[g].adds, holder'[k].adds, holder'[g].el = holder'[k].el
        PROVE  g = k
    BY <1>3, <2>2, <2>4 DEF AttributesInv, TokensAreOwned
  <2> QED BY <1>1, <2>1, <2>3, <2>4 DEF TokensAreOwned
<1> QED BY <1>4, <1>5, <1>6 DEF AttributesInv

(* Judge: all holders of the field are to be told.                       *)
LEMMA JudgeInv ==
    ASSUME AttributesInv, NEW f \in Judged, Judge(f)
    PROVE  AttributesInv'
<1>1. AttributesTypeOK' /\ TokensAreOwned'
  BY DEF AttributesInv, AttributesTypeOK, TokensAreOwned, Judge, Projected, Participants, Holds
<1>2. ToldIsTrue'
  BY DEF AttributesInv, AttributesTypeOK, ToldIsTrue, Judge, Holds
<1> QED BY <1>1, <1>2 DEF AttributesInv

(* UpdateAria: what a holder says is read when it is told.               *)
LEMMA UpdateAriaInv ==
    ASSUME AttributesInv, NEW h \in Holders, UpdateAria(h)
    PROVE  AttributesInv'
<1> DEFINE x == holder[h]
           says == faulty[x.field]
           now == [x EXCEPT !.says = says]
<1>1. /\ h \in stale /\ stale' = stale \ {h} /\ holder' = [holder EXCEPT ![h] = now]
      /\ aria' = Projected(holder') /\ UNCHANGED <<faulty, own, tokens>>
  BY DEF UpdateAria, Says, AttributesInv, AttributesTypeOK
<1>2. /\ x.life = "live" /\ x \in HolderType /\ x.field \in Judged
      /\ says \in BOOLEAN
  BY <1>1 DEF AttributesInv, AttributesTypeOK, Holds, HolderType, NoHolder
<1>3. x \in [life : {"live"}, field : Judged, el : Spots, aria : BOOLEAN, says : BOOLEAN,
             adds : BOOLEAN]
  BY <1>2 DEF HolderType, NoHolder
<1> HIDE DEF says, x
<1>4. now \in [life : {"live"}, field : Judged, el : Spots, aria : BOOLEAN, says : BOOLEAN,
               adds : BOOLEAN]
  BY <1>2, <1>3
<1>5. /\ now.life = "live" /\ now.field = x.field /\ now.el = x.el
      /\ now.says = says /\ now.adds = x.adds
  BY <1>3
<1> HIDE DEF now
<1>6. /\ holder'[h] = now /\ \A g \in Holders \ {h} : holder'[g] = holder[g]
      /\ holder' \in [Holders -> HolderType] /\ now \in HolderType
  BY <1>1, <1>4 DEF AttributesInv, AttributesTypeOK, HolderType
<1>7. \A g \in Holders : /\ Holds(g)' <=> Holds(g)
                         /\ holder'[g].field = holder[g].field /\ holder'[g].el = holder[g].el
                         /\ holder'[g].adds = holder[g].adds
  BY <1>2, <1>5, <1>6 DEF Holds, x
<1>8. AttributesTypeOK'
  BY <1>1, <1>6, <1>7 DEF AttributesInv, AttributesTypeOK, Projected, Holds
<1>9. ToldIsTrue'
  BY <1>1, <1>5, <1>6, <1>7 DEF AttributesInv, ToldIsTrue, Holds, x, says
<1>10. TokensAreOwned'
  <2>1. \A s \in Spots : (\E g \in Holders : Holds(g)' /\ holder'[g].el = s /\ holder'[g].adds)
                          <=> \E g \in Holders : Holds(g) /\ holder[g].el = s /\ holder[g].adds
    BY <1>7
  <2>2. \A g, k \in Holders :
           Holds(g)' /\ Holds(k)' /\ holder'[g].adds /\ holder'[k].adds
             /\ holder'[g].el = holder'[k].el => g = k
    BY <1>7 DEF AttributesInv, TokensAreOwned
  <2> QED BY <1>1, <2>1, <2>2 DEF AttributesInv, TokensAreOwned
<1> QED BY <1>8, <1>9, <1>10 DEF AttributesInv

(* The invariant gives what the attributes must say: what the live holders *)
(* of a control say together is what their fields are, once all are told.  *)
LEMMA InvFollows == AttributesInv => AttributesFollowFields
<1> SUFFICES ASSUME AttributesInv, stale = {}, NEW e \in Spots
             PROVE  LET here == {h \in Holders : Holds(h) /\ holder[h].el = e} IN
                    /\ aria[e] = IF \E h \in here : holder[h].aria /\ faulty[holder[h].field]
                                 THEN "true" ELSE own.aria
                    /\ here = {} => tokens[e] = own.tokens
  BY DEF AttributesFollowFields
<1> DEFINE here == {h \in Holders : Holds(h) /\ holder[h].el = e}
<1>1. \A h \in Holders : Holds(h) => holder[h].says = faulty[holder[h].field]
  BY DEF AttributesInv, ToldIsTrue
<1>2. aria[e] = IF \E h \in Participants(holder, e) : holder[h].says THEN "true" ELSE own.aria
  BY DEF AttributesInv, AttributesTypeOK, Projected
<1>3. (\E h \in Participants(holder, e) : holder[h].says)
        <=> \E h \in here : holder[h].aria /\ faulty[holder[h].field]
  BY <1>1 DEF Participants, Holds
<1>4. here = {} => tokens[e] = own.tokens
  BY DEF AttributesInv, TokensAreOwned
<1> QED BY <1>2, <1>3, <1>4

(* However bindings that share a control are made, told and disposed of, *)
(* aria-invalid and aria-describedby say what the live ones and the      *)
(* application say (a11y.ts).                                            *)
THEOREM AttributesAlwaysFollowFields == AttributesSpec => []AttributesFollowFields
<1>1. AttributesInv /\ [AttributesNext]_attributeVars => AttributesInv'
  <2> SUFFICES ASSUME AttributesInv, [AttributesNext]_attributeVars PROVE AttributesInv'
    OBVIOUS
  <2>1. CASE UNCHANGED attributeVars
    BY <2>1 DEF attributeVars, AttributesInv, AttributesTypeOK, ToldIsTrue, TokensAreOwned,
                Projected, Participants, Holds
  <2> QED
    BY <2>1, HoldInv, ReleaseInv, JudgeInv, UpdateAriaInv DEF AttributesNext
<1> QED BY <1>1, AttributesInitInv, InvFollows, PTL DEF AttributesSpec
-----------------------------------------------------------------------------
(* Projection: the inductive invariant.                                  *)
(* What a handle shows is either up to date with the node, or what makes *)
(* it so is due and the handle will hear of it.                          *)

AllSignals == FieldSignals \cup ResearchFormSignals \cup {"items", "state"}

Distinct(q) == \A i, j \in 1 .. Len(q) : q[i] = q[j] => i = j

HandleType ==
    [adapter : Adapters, life : {"none", "live", "disposed"}, attached : BOOLEAN,
     host : {"none", "open", "gone"}, bornLate : BOOLEAN,
     stale : SUBSET AllSignals, early : SUBSET AllSignals, woken : BOOLEAN]

ProjectionTypeOK ==
    /\ node \in {"store", "field", "form", "array"} /\ batching \in BOOLEAN
    /\ moved \in 0 .. MaxMoves
    /\ handle \in HandleType
    /\ untold \in Seq(AllSignals) /\ Distinct(untold)

(* Who is live belongs to the node and to a component that is not gone.  *)
HandleOK(h) ==
    /\ h.life = "none" => h.host = "none"
    /\ h.life = "live" =>
         h.adapter.of = node /\ h.host # "gone" /\ h.stale \subseteq h.adapter.shows
    /\ h.attached =>
         \/ h.life = "live"
         \/ h.bornLate /\ h.adapter \in {AngularField, AngularForm, AngularArray}

(* A flag whose change was told when it was last read is stale exactly   *)
(* while a change of it is due.                                          *)
FlagsFollow(h, owed) ==
    \A s \in (Flags(node) \cap h.adapter.hears) \ h.early : s \in h.stale <=> s \in owed

(* One that copies what it hears: whatever else is stale is due.         *)
CopyFollows(h, owed) ==
    /\ FlagsFollow(h, owed)
    /\ \A s \in h.stale \ Flags(node) : s \in owed

(* One that reads everything when it hears anything: when something other *)
(* than a flag is stale, it has yet to hear of something; and it is when  *)
(* anything it does not listen to is.                                     *)
SnapshotFollows(h, owed) ==
    /\ FlagsFollow(h, owed)
    /\ h.stale \ Flags(node) # {} => (owed \cap h.adapter.hears) \ Flags(node) # {}
    /\ h.stale \ h.adapter.hears # {} => h.stale \ Flags(node) # {}

Follows(h, owed) ==
    h.life = "live" /\ h.attached =>
        IF h.adapter.copies THEN CopyFollows(h, owed)
        ELSE h.woken \/ SnapshotFollows(h, owed)

ProjectionInv == ProjectionTypeOK /\ HandleOK(handle) /\ Follows(handle, Elements(untold))
-----------------------------------------------------------------------------
(* Of the natural numbers of a set one is the least: strict inclusion of *)
(* intervals is well-founded.  Inductions below take a least             *)
(* counterexample.                                                       *)
LEMMA LeastNatural ==
    ASSUME NEW T \in SUBSET Nat, T # {}
    PROVE  \E n \in T : \A m \in T : n <= m
<1> DEFINE U == {0..n : n \in T}
           R == StrictSubsetOrdering(Nat)
           S == FiniteSubsetsOf(Nat)
<1>1. IsWellFoundedOn(R, S)
  BY FS_StrictSubsetOrderingWellFounded
<1>2. U \subseteq S /\ U # {}
  <2>1. ASSUME NEW n \in T PROVE 0..n \in S
    <3>1. 0..n \subseteq Nat
      BY SMT
    <3>2. IsFiniteSet(0..n)
      BY FS_Interval
    <3> QED BY <3>1, <3>2 DEF FiniteSubsetsOf
  <2> QED BY <2>1
<1>3. PICK u \in U : \A v \in U : ~(<<v, u>> \in R)
  <2> HIDE DEF U, R, S
  <2> QED BY <1>1, <1>2, WFMin
<1>4. PICK n \in T : u = 0..n
  OBVIOUS
<1>5. ASSUME NEW m \in T, m < n PROVE FALSE
  <2>1. 0..m \subseteq 0..n /\ 0..m # 0..n /\ 0..n \subseteq Nat
    BY <1>5, SMT
  <2>2. <<0..m, 0..n>> \in R
    BY <2>1 DEF StrictSubsetOrdering
  <2> QED BY <1>3, <1>4, <2>2
<1> QED BY <1>5, SMT

(* What a queue has of a set are the elements of both, none twice.       *)
LEMMA KeptElements ==
    ASSUME NEW U, NEW q \in Seq(U), Distinct(q), NEW S
    PROVE  /\ Kept(q, S) \in Seq(U) /\ Distinct(Kept(q, S))
           /\ Elements(Kept(q, S)) = Elements(q) \cap S
<1> DEFINE n == Len(q)
           Next(before, i) == IF q[i] \in S THEN Append(before, q[i]) ELSE before
           Upto(k, g) == g = [i \in 0..k |-> IF i = 0 THEN <<>> ELSE Next(g[i - 1], i)]
           K == CHOOSE g : Upto(n, g)
           Fails == {k \in 0..n : ~ \E g : Upto(k, g)}
<1>0. n \in Nat
  OBVIOUS
<1>1. \E g : Upto(n, g)
  <2> SUFFICES ASSUME Fails # {} PROVE FALSE
    BY <1>0
  <2> HIDE DEF Next
  <2>1. PICK k \in Fails : \A m \in Fails : k <= m
    BY LeastNatural, Fails \in SUBSET Nat
  <2>2. CASE k = 0
    <3>1. Upto(0, [i \in 0..0 |-> <<>>])
      OBVIOUS
    <3> QED BY <2>1, <2>2, <3>1
  <2>3. CASE k # 0
    <3>1. PICK g : Upto(k - 1, g)
      <4> HIDE DEF Upto, n
      <4>1. k \in 0..n /\ k - 1 \in 0..n
        BY <1>0, <2>3
      <4>2. k - 1 \notin Fails
        <5> HIDE DEF Fails
        <5>1. ~(k <= k - 1)
          BY <4>1
        <5> QED BY <2>1, <5>1
      <4> QED BY <4>1, <4>2
    <3> DEFINE h == [i \in 0..k |-> IF i = 0 THEN <<>> ELSE Next(g[i - 1], i)]
    <3>2. \A i \in 0..k-1 : h[i] = g[i]
      BY <2>1, <2>3, <3>1
    <3>3. \A i \in 0..k : (IF i = 0 THEN <<>> ELSE Next(g[i - 1], i))
                           = (IF i = 0 THEN <<>> ELSE Next(h[i - 1], i))
      <4>1. ASSUME NEW i \in 0..k, i # 0 PROVE h[i - 1] = g[i - 1]
        <5>1. k \in Nat
          BY <2>1
        <5> HIDE DEF h, Fails
        <5>2. i - 1 \in 0..k-1
          BY <4>1, <5>1
        <5> QED BY <3>2, <5>2
      <4> HIDE DEF h
      <4> QED BY <4>1
    <3>4. Upto(k, h)
      BY <3>3
    <3> QED BY <2>1, <3>4
  <2> QED BY <2>2, <2>3
<1>2. K[0] = <<>> /\ \A k \in 1..n : K[k] = Next(K[k - 1], k)
  <2>1. Upto(n, K)
    <3> HIDE DEF Upto
    <3> QED BY <1>1
  <2> HIDE DEF K, Next
  <2>2. K[0] = <<>>
    BY <1>0, <2>1
  <2>3. ASSUME NEW k \in 1..n PROVE K[k] = Next(K[k - 1], k)
    BY <1>0, <2>1
  <2> QED BY <2>2, <2>3
<1>3. Kept(q, S) = K[n]
  BY DEF Kept
<1> HIDE DEF K
<1> DEFINE Right(k) == /\ K[k] \in Seq(U) /\ Distinct(K[k])
                       /\ \A x : (\E j \in 1..Len(K[k]) : K[k][j] = x)
                                   <=> \E j \in 1..k : q[j] = x /\ x \in S
           Wrong == {k \in 0..n : ~Right(k)}
<1>4. ASSUME Wrong # {} PROVE FALSE
  <2>1. PICK k \in Wrong : \A m \in Wrong : k <= m
    BY <1>4, LeastNatural, Wrong \in SUBSET Nat
  <2>2. CASE k = 0
    <3>1. Right(0)
      BY <1>2 DEF Distinct
    <3> QED BY <2>1, <2>2, <3>1
  <2>3. CASE k # 0
    <3>1. Right(k - 1) /\ k \in 1..n
      <4> HIDE DEF Right
      <4> QED BY <1>0, <2>1, <2>3
    <3>2. K[k] = Next(K[k - 1], k) /\ q[k] \in U
      BY <1>2, <3>1
    <3> DEFINE B == K[k - 1]
    <3>3. CASE q[k] \notin S
      <4>1. K[k] = B
        BY <3>2, <3>3
      <4>2. \A x : (\E j \in 1..k : q[j] = x /\ x \in S) <=> (\E j \in 1..k-1 : q[j] = x /\ x \in S)
        BY <3>1, <3>3
      <4>3. Right(k)
        BY <3>1, <4>1, <4>2
      <4> QED BY <2>1, <4>3
    <3>4. CASE q[k] \in S
      <4>1. K[k] = Append(B, q[k])
        BY <3>2, <3>4
      <4> HIDE DEF B
      <4>2. /\ B \in Seq(U) /\ Distinct(B)
            /\ \A x : (\E j \in 1..Len(B) : B[j] = x) <=> \E j \in 1..k-1 : q[j] = x /\ x \in S
        BY <3>1 DEF B
      <4>3. /\ K[k] \in Seq(U) /\ Len(K[k]) = Len(B) + 1 /\ Len(B) \in Nat
            /\ K[k][Len(B) + 1] = q[k] /\ \A j \in 1..Len(B) : K[k][j] = B[j]
        <5>1. /\ Append(B, q[k]) \in Seq(U) /\ Len(Append(B, q[k])) = Len(B) + 1
              /\ Len(B) \in Nat /\ Append(B, q[k])[Len(B) + 1] = q[k]
              /\ \A j \in 1..Len(B) : Append(B, q[k])[j] = B[j]
          BY <3>2, <4>2
        <5> QED BY <4>1, <5>1
      <4>4. ~\E j \in 1..Len(B) : B[j] = q[k]
        <5>1. \A j \in 1..k-1 : q[j] # q[k]
          BY <1>0, <3>1 DEF Distinct
        <5> QED BY <4>2, <5>1
      <4>5. Distinct(K[k])
        <5>1. \A j \in 1..Len(K[k]) : j \in 1..Len(B) \/ j = Len(B) + 1
          BY <4>3
        <5>2. \A i, j \in 1..Len(B) : K[k][i] = K[k][j] => i = j
          BY <4>2, <4>3 DEF Distinct
        <5>3. \A j \in 1..Len(B) : K[k][j] # K[k][Len(B) + 1]
          BY <4>3, <4>4
        <5> QED BY <5>1, <5>2, <5>3 DEF Distinct
      <4>6. ASSUME NEW x PROVE (\E j \in 1..Len(K[k]) : K[k][j] = x)
                                 <=> \E j \in 1..k : q[j] = x /\ x \in S
        <5>1. (\E j \in 1..Len(K[k]) : K[k][j] = x)
                <=> (\E j \in 1..Len(B) : B[j] = x) \/ q[k] = x
          <6>1. /\ \A j \in 1..Len(K[k]) : j \in 1..Len(B) \/ j = Len(B) + 1
                /\ \A j \in 1..Len(B) : j \in 1..Len(K[k])
                /\ Len(B) + 1 \in 1..Len(K[k])
            BY <4>3
          <6> QED BY <4>3, <6>1
        <5>2. (\E j \in 1..k : q[j] = x /\ x \in S)
                <=> (\E j \in 1..k-1 : q[j] = x /\ x \in S) \/ q[k] = x
          BY <3>1, <3>4
        <5> QED BY <4>2, <5>1, <5>2
      <4>7. Right(k)
        BY <4>3, <4>5, <4>6
      <4> QED BY <2>1, <4>7
    <3> QED BY <3>3, <3>4
  <2> QED BY <2>2, <2>3
<1>5. Right(n)
  <2> HIDE DEF Right
  <2> QED BY <1>0, <1>4
<1>6. ASSUME NEW x PROVE x \in Elements(K[n]) <=> x \in Elements(q) \cap S
  <2>1. x \in Elements(K[n]) <=> \E j \in 1..Len(K[n]) : K[n][j] = x
    BY <1>5 DEF Elements
  <2>2. x \in Elements(q) <=> \E j \in 1..n : q[j] = x
    BY DEF Elements
  <2> QED BY <1>5, <2>1, <2>2
<1> QED BY <1>3, <1>5, <1>6
-----------------------------------------------------------------------------
(* Projection: what the moves and the wiring are.                        *)
Swayed == {"value", "issues"}
Alone == {{"rawValue"}, {"touched"}, {"pending"}, {"submissionStatus"},
          {"submissionStatus", "submitting"}}

LEMMA FieldMovesSignals ==
    \A m \in FieldMoves : m \subseteq AllSignals \ {"state", "items", "submissionStatus", "submitting"}
                          /\ (m \in Alone \/ m \cap Swayed # {})
<1>1. \A m \in ValueMoves : m \subseteq AllSignals \ {"state", "items", "submissionStatus", "submitting"}
                            /\ "value" \in m
  BY DEF ValueMoves, AllSignals, FieldSignals, ResearchFormSignals, FormSignals, Verdict
<1>2. \A m \in RawMoves : m \subseteq AllSignals \ {"state", "items", "submissionStatus", "submitting"}
                            /\ (m = {"rawValue"} \/ "issues" \in m)
  BY DEF RawMoves, AllSignals, FieldSignals, ResearchFormSignals, FormSignals, Verdict
<1>3. \A m \in TouchMoves : m \subseteq AllSignals \ {"state", "items", "submissionStatus", "submitting"}
                            /\ m = {"touched"}
  BY DEF TouchMoves, AllSignals, FieldSignals, ResearchFormSignals, FormSignals
<1>4. \A m \in SettleMoves : m \subseteq AllSignals \ {"state", "items", "submissionStatus", "submitting"}
                            /\ (m = {"pending"} \/ "issues" \in m)
  BY DEF SettleMoves, AllSignals, FieldSignals, ResearchFormSignals, FormSignals, Verdict
<1>5. \A m \in ServerMoves : m \subseteq AllSignals \ {"state", "items", "submissionStatus", "submitting"}
                            /\ "issues" \in m
  BY DEF ServerMoves, AllSignals, FieldSignals, ResearchFormSignals, FormSignals, Verdict
<1>6. \A m \in ResetMoves : m \subseteq AllSignals \ {"state", "items", "submissionStatus", "submitting"}
                            /\ "issues" \in m
  BY DEF ResetMoves, AllSignals, FieldSignals, ResearchFormSignals, FormSignals
<1> HIDE DEF ValueMoves, RawMoves, TouchMoves, SettleMoves, ServerMoves, ResetMoves
<1> QED BY <1>1, <1>2, <1>3, <1>4, <1>5, <1>6 DEF FieldMoves, Alone, Swayed

(* What moves anything but one signal of its own moves the value or the  *)
(* issues too.                                                           *)
LEMMA MovesSignals ==
    ASSUME NEW of \in {"store", "field", "form", "array"}, NEW m \in Moves(of)
    PROVE  /\ m \subseteq AllSignals
           /\ of # "store" => m \in Alone \/ m \cap Swayed # {}
<1>1. \A l \in Lifted : l \subseteq AllSignals /\ (l \in Alone \/ l \cap Swayed # {})
  <2> SUFFICES ASSUME NEW f \in FieldMoves
               PROVE  Seen(f) \subseteq AllSignals /\ (Seen(f) \in Alone \/ Seen(f) \cap Swayed # {})
    BY DEF Lifted
  <2>1. f \subseteq AllSignals /\ (f \in Alone \/ f \cap Swayed # {})
    BY FieldMovesSignals
  <2>2. f \in Alone => Seen(f) = f
    BY DEF Alone, Seen
  <2>3. f \cap Swayed \subseteq Seen(f)
    BY DEF Swayed, Seen
  <2> QED BY <2>1, <2>2, <2>3 DEF Seen
<1>2. \A l \in ServerMoves : l \subseteq AllSignals /\ "issues" \in l
  BY DEF ServerMoves, AllSignals, FieldSignals, ResearchFormSignals, FormSignals, Verdict
<1>3. CASE of = "store"
  BY <1>3 DEF Moves, AllSignals
<1>4. CASE of = "field"
  BY <1>4, FieldMovesSignals DEF Moves
<1>5. CASE of = "form"
  <2>1. m \in Lifted \/ m \in ServerMoves
        \/ m \in {{"submissionStatus"}, {"submissionStatus", "submitting"}}
    BY <1>5 DEF Moves, FormMoves
  <2>2. {"submissionStatus", "submitting"} \subseteq AllSignals
    BY DEF AllSignals, ResearchFormSignals, FormSignals
  <2> QED BY <1>1, <1>2, <2>1, <2>2 DEF Alone, Swayed
<1>6. CASE of = "array"
  <2>1. m \in Lifted \/ m \in ServerMoves
        \/ m \in {{"items", "value", "rawValue", "output", "issues"} \cup g :
                        g \in {{}, {"dirty"}, {"touched"}, {"pending"}, Verdict}}
    BY <1>6 DEF Moves, ArrayMoves
  <2>2. \A l \in {{"items", "value", "rawValue", "output", "issues"} \cup g :
                        g \in {{}, {"dirty"}, {"touched"}, {"pending"}, Verdict}} :
           l \subseteq AllSignals /\ "value" \in l
    BY DEF AllSignals, FieldSignals, ResearchFormSignals, FormSignals, Verdict
  <2> QED BY <1>1, <1>2, <2>1, <2>2 DEF Swayed
<1> QED BY <1>3, <1>4, <1>5, <1>6

(* The adapters that listen to less than they show hear of every move that *)
(* they do not listen to for itself, by something else that is told.       *)
HearsEnough(k) ==
    /\ k.hears \subseteq k.shows /\ k.shows \subseteq AllSignals
    /\ k.copies => k.hears = k.shows
    /\ k.effect => ~k.copies
    /\ \/ k.hears = k.shows
       \/ /\ k.of # "store" /\ Swayed \subseteq k.hears \ Flags(k.of)
          /\ \A m \in Alone : m \cap (k.shows \ k.hears) # {} => (m \ Flags(k.of)) \cap k.hears # {}

AdapterType ==
    [of : {"store", "field", "form", "array"}, shows : SUBSET AllSignals, hears : SUBSET AllSignals,
     copies : BOOLEAN, late : {"never", "kept", "disposed"}, effect : BOOLEAN]

(* The wiring of an adapter, part by part.                               *)
Wired(of, shows, hears, copies, late, effect) ==
    [of |-> of, shows |-> shows, hears |-> hears, copies |-> copies, late |-> late,
     effect |-> effect]

(* One, with some of its parts changed.                                  *)
LEMMA Rewired ==
    ASSUME NEW a \in AdapterType, NEW h \in SUBSET AllSignals,
           NEW late \in {"never", "kept", "disposed"}
    PROVE  /\ [a EXCEPT !.late = late]
                = Wired(a.of, a.shows, a.hears, a.copies, late, a.effect)
           /\ [a EXCEPT !.hears = h, !.copies = FALSE, !.effect = TRUE]
                = Wired(a.of, a.shows, h, FALSE, a.late, TRUE)
           /\ [a EXCEPT !.effect = FALSE]
                = Wired(a.of, a.shows, a.hears, a.copies, a.late, FALSE)
<1>1. \A b \in AdapterType : b = Wired(b.of, b.shows, b.hears, b.copies, b.late, b.effect)
  BY DEF Wired, AdapterType
<1> DEFINE x == [a EXCEPT !.late = late]
           y == [a EXCEPT !.hears = h, !.copies = FALSE, !.effect = TRUE]
           z == [a EXCEPT !.effect = FALSE]
<1>2. /\ x \in AdapterType /\ x.of = a.of /\ x.shows = a.shows /\ x.hears = a.hears
      /\ x.copies = a.copies /\ x.late = late /\ x.effect = a.effect
  BY DEF AdapterType
<1>3. /\ y \in AdapterType /\ y.of = a.of /\ y.shows = a.shows /\ y.hears = h
      /\ y.copies = FALSE /\ y.late = a.late /\ y.effect = TRUE
  BY DEF AdapterType
<1>4. /\ z \in AdapterType /\ z.of = a.of /\ z.shows = a.shows /\ z.hears = a.hears
      /\ z.copies = a.copies /\ z.late = a.late /\ z.effect = FALSE
  BY DEF AdapterType
<1> HIDE DEF x, y, z
<1>5. /\ x = Wired(a.of, a.shows, a.hears, a.copies, late, a.effect)
      /\ y = Wired(a.of, a.shows, h, FALSE, a.late, TRUE)
      /\ z = Wired(a.of, a.shows, a.hears, a.copies, a.late, FALSE)
  BY <1>1, <1>2, <1>3, <1>4, Zenon
<1> QED BY <1>5 DEF x, y, z

(* The three ways of wiring.                                             *)
LEMMA WaysOfWiring ==
    ASSUME NEW of \in {"store", "field", "form", "array"}, NEW S \in SUBSET AllSignals,
           NEW h \in SUBSET AllSignals, NEW late \in {"never", "kept", "disposed"}
    PROVE  /\ Refs(of, S) = Wired(of, S, S, TRUE, "never", FALSE)
           /\ Bridged(of, S, late) = Wired(of, S, S, TRUE, late, FALSE)
           /\ Snapshot(of, S, h) = Wired(of, S, h, FALSE, "never", TRUE)
<1>1. Refs(of, S) = Wired(of, S, S, TRUE, "never", FALSE)
  BY DEF Refs, Wired
<1>2. /\ Refs(of, S) \in AdapterType /\ Refs(of, S).of = of /\ Refs(of, S).shows = S
      /\ Refs(of, S).hears = S /\ Refs(of, S).copies = TRUE /\ Refs(of, S).late = "never"
      /\ Refs(of, S).effect = FALSE
  BY <1>1 DEF Wired, AdapterType
<1>3. /\ [Refs(of, S) EXCEPT !.late = late] = Wired(of, S, S, TRUE, late, FALSE)
      /\ [Refs(of, S) EXCEPT !.hears = h, !.copies = FALSE, !.effect = TRUE]
           = Wired(of, S, h, FALSE, "never", TRUE)
  <2> DEFINE r == Refs(of, S)
  <2>1. /\ [r EXCEPT !.late = late]
             = Wired(r.of, r.shows, r.hears, r.copies, late, r.effect)
        /\ [r EXCEPT !.hears = h, !.copies = FALSE, !.effect = TRUE]
             = Wired(r.of, r.shows, h, FALSE, r.late, TRUE)
    <3>1. r \in AdapterType
      BY <1>2
    <3> HIDE DEF r
    <3> QED BY <3>1, Rewired, Zenon
  <2> QED BY <1>2, <2>1, Zenon
<1> QED BY <1>1, <1>3, Zenon DEF Bridged, Snapshot

LEMMA AdaptersHear ==
    ASSUME NEW k \in Adapters
    PROVE  /\ HearsEnough(k) /\ k \in AdapterType
           /\ k.late = "kept" => k \in {AngularField, AngularForm, AngularArray}
<1> DEFINE Fits(a) == HearsEnough(a) /\ a \in AdapterType
           Same(a) == Fits(a) /\ a.late # "kept"
           rField == FieldSignals \cup {"output"}
<1>1. /\ {"state"} \in SUBSET AllSignals /\ FieldSignals \in SUBSET AllSignals
      /\ FormSignals \in SUBSET AllSignals /\ ArraySignals \in SUBSET AllSignals
      /\ rField \in SUBSET AllSignals
      /\ ResearchFormSignals \in SUBSET AllSignals /\ ResearchArraySignals \in SUBSET AllSignals
  BY DEF AllSignals, FieldSignals, FormSignals, ArraySignals, ResearchFormSignals, ResearchArraySignals
<1>2. \A of \in {"store", "field", "form", "array"}, S \in SUBSET AllSignals :
        /\ Same(Refs(of, S)) /\ Same(Bridged(of, S, "disposed")) /\ Fits(Bridged(of, S, "kept"))
        /\ Same(Snapshot(of, S, S))
  <2> SUFFICES ASSUME NEW of \in {"store", "field", "form", "array"}, NEW S \in SUBSET AllSignals
               PROVE  /\ Same(Refs(of, S)) /\ Same(Bridged(of, S, "disposed"))
                      /\ Fits(Bridged(of, S, "kept")) /\ Same(Snapshot(of, S, S))
    OBVIOUS
  <2>1. /\ Refs(of, S) = Wired(of, S, S, TRUE, "never", FALSE)
        /\ \A late \in {"kept", "disposed"} :
             Bridged(of, S, late) = Wired(of, S, S, TRUE, late, FALSE)
        /\ Snapshot(of, S, S) = Wired(of, S, S, FALSE, "never", TRUE)
    BY WaysOfWiring
  <2>2. ASSUME NEW late \in {"never", "kept", "disposed"}, NEW c \in BOOLEAN, NEW e \in BOOLEAN,
               e => ~c
        PROVE  Fits(Wired(of, S, S, c, late, e)) /\ Wired(of, S, S, c, late, e).late = late
    BY <2>2 DEF HearsEnough, AdapterType, Wired
  <2> HIDE DEF Fits
  <2>3. /\ Fits(Refs(of, S)) /\ Refs(of, S).late = "never"
        /\ \A late \in {"kept", "disposed"} :
             Fits(Bridged(of, S, late)) /\ Bridged(of, S, late).late = late
        /\ Fits(Snapshot(of, S, S)) /\ Snapshot(of, S, S).late = "never"
    BY <2>1, <2>2, Zenon
  <2> QED BY <2>3
<1> DEFINE fieldHeard == FieldSignals \ {"dirty", "valid", "invalid"}
           formHeard == FormSignals \ {"rawValue", "invalid", "submitting"}
           arrayHeard == ArraySignals \ {"rawValue", "invalid"}
<1>3. ASSUME NEW e \in BOOLEAN
      PROVE  Same(Wired("field", rField, fieldHeard, FALSE, "never", e))
  BY <1>1 DEF HearsEnough, AdapterType, Wired, Swayed, Alone, Flags, FieldSignals
<1>4. ASSUME NEW e \in BOOLEAN
      PROVE  Same(Wired("form", ResearchFormSignals, formHeard, FALSE, "never", e))
  BY <1>1 DEF HearsEnough, AdapterType, Wired, Swayed, Alone, Flags, FormSignals,
              ResearchFormSignals, Verdict
<1>5. ASSUME NEW e \in BOOLEAN
      PROVE  Same(Wired("array", ResearchArraySignals, arrayHeard, FALSE, "never", e))
  BY <1>1 DEF HearsEnough, AdapterType, Wired, Swayed, Alone, Flags, ArraySignals,
              ResearchArraySignals, Verdict
<1> HIDE DEF Same, Fits
<1>6. /\ Same(VueStore) /\ Same(VueField) /\ Same(VueForm) /\ Same(VueArray)
      /\ Same(AngularStore) /\ Fits(AngularField) /\ Fits(AngularForm) /\ Fits(AngularArray)
      /\ Same(ReactStore) /\ Same(ReactField) /\ Same(ReactForm) /\ Same(ReactArray)
  BY <1>1, <1>2, Zenon
  DEF VueStore, VueField, VueForm, VueArray, AngularStore, AngularField, AngularForm, AngularArray,
      ReactStore, ReactField, ReactForm, ReactArray
<1>7. /\ Same(ResearchVueField) /\ Same(ResearchVueForm) /\ Same(ResearchVueArray)
      /\ Same(ResearchAngularField) /\ Same(ResearchAngularForm) /\ Same(ResearchAngularArray)
  BY <1>1, <1>2, Zenon
  DEF ResearchVueField, ResearchVueForm, ResearchVueArray,
      ResearchAngularField, ResearchAngularForm, ResearchAngularArray
<1>8. /\ ResearchReactField = Wired("field", rField, fieldHeard, FALSE, "never", TRUE)
      /\ ResearchReactForm = Wired("form", ResearchFormSignals, formHeard, FALSE, "never", TRUE)
      /\ ResearchReactArray = Wired("array", ResearchArraySignals, arrayHeard, FALSE, "never", TRUE)
  <2>1. /\ fieldHeard \in SUBSET AllSignals /\ formHeard \in SUBSET AllSignals
        /\ arrayHeard \in SUBSET AllSignals
    BY <1>1
  <2>2. /\ ResearchReactField = Snapshot("field", rField, fieldHeard)
        /\ ResearchReactForm = Snapshot("form", ResearchFormSignals, formHeard)
        /\ ResearchReactArray = Snapshot("array", ResearchArraySignals, arrayHeard)
    BY Zenon DEF ResearchReactField, ResearchReactForm, ResearchReactArray, ResearchHears
  <2> HIDE DEF rField, fieldHeard, formHeard, arrayHeard
  <2> QED BY <1>1, <2>1, <2>2, WaysOfWiring
<1>9. ResearchVanillaField = Wired("field", rField, fieldHeard, FALSE, "never", FALSE)
  <2> DEFINE r == Wired("field", rField, fieldHeard, FALSE, "never", TRUE)
  <2>1. /\ r \in AdapterType /\ r.of = "field" /\ r.shows = rField /\ r.hears = fieldHeard
        /\ r.copies = FALSE /\ r.late = "never"
    BY <1>1 DEF Wired, AdapterType
  <2> HIDE DEF r, rField, fieldHeard
  <2>2. [r EXCEPT !.effect = FALSE]
          = Wired("field", rField, fieldHeard, FALSE, "never", FALSE)
    BY <2>1, Rewired, Zenon
  <2> QED BY <1>8, <2>2, Zenon DEF ResearchVanillaField, r
<1>10. /\ Same(ResearchReactField) /\ Same(ResearchReactForm)
       /\ Same(ResearchReactArray) /\ Same(ResearchVanillaField)
  <2> HIDE DEF rField, fieldHeard, formHeard, arrayHeard
  <2> QED BY <1>3, <1>4, <1>5, <1>8, <1>9, Zenon
<1>11. Same(k) \/ (Fits(k) /\ k \in {AngularField, AngularForm, AngularArray})
  BY <1>6, <1>7, <1>10, Zenon DEF Adapters
<1> QED BY <1>11 DEF Same, Fits

(* What a handle shows and a move leaves stale, it hears of.             *)
LEMMA MovesAreHeard ==
    ASSUME NEW k \in Adapters, NEW m \in Moves(k.of)
    PROVE  /\ m \cap (k.shows \ k.hears) # {} => (m \ Flags(k.of)) \cap k.hears # {}
           /\ (m \ Flags(k.of)) \cap k.shows # {} => (m \ Flags(k.of)) \cap k.hears # {}
<1>1. HearsEnough(k) /\ k.of \in {"store", "field", "form", "array"}
  BY AdaptersHear DEF AdapterType
<1>2. k.of # "store" => m \in Alone \/ m \cap Swayed # {}
  BY <1>1, MovesSignals
<1>3. m \cap (k.shows \ k.hears) # {} => (m \ Flags(k.of)) \cap k.hears # {}
  BY <1>1, <1>2 DEF HearsEnough
<1> QED BY <1>3
-----------------------------------------------------------------------------
(* Projection: the queue.                                                *)
LEMMA ElementsAt ==
    ASSUME NEW U, NEW q \in Seq(U)
    PROVE  \A x : x \in Elements(q) <=> \E i \in 1 .. Len(q) : q[i] = x
  BY DEF Elements

LEMMA ConcatElements ==
    ASSUME NEW U, NEW p \in Seq(U), NEW q \in Seq(U), Distinct(p), Distinct(q),
           Elements(p) \cap Elements(q) = {}
    PROVE  /\ p \o q \in Seq(U) /\ Distinct(p \o q)
           /\ Elements(p \o q) = Elements(p) \cup Elements(q)
<1>1. /\ p \o q \in Seq(U) /\ Len(p) \in Nat /\ Len(q) \in Nat
      /\ Len(p \o q) = Len(p) + Len(q)
      /\ \A i \in 1 .. Len(p) + Len(q) :
           (p \o q)[i] = IF i <= Len(p) THEN p[i] ELSE q[i - Len(p)]
  OBVIOUS
<1>2. \A i \in 1 .. Len(p), j \in 1 .. Len(q) : p[i] # q[j]
  BY DEF Elements
<1> DEFINE r == p \o q
<1> HIDE DEF r
<1>3. /\ \A i \in 1 .. Len(p) : r[i] = p[i]
      /\ \A i \in (Len(p) + 1) .. (Len(p) + Len(q)) :
           i - Len(p) \in 1 .. Len(q) /\ r[i] = q[i - Len(p)]
      /\ \A j \in 1 .. Len(q) : r[j + Len(p)] = q[j]
      /\ Len(r) = Len(p) + Len(q) /\ r \in Seq(U)
  BY <1>1 DEF r
<1>4. Distinct(r)
  <2> SUFFICES ASSUME NEW i \in 1 .. Len(r), NEW j \in 1 .. Len(r), r[i] = r[j] PROVE i = j
    BY DEF Distinct
  <2>1. CASE i <= Len(p) /\ j <= Len(p)
    BY <1>1, <1>3, <2>1 DEF Distinct
  <2>2. CASE i > Len(p) /\ j > Len(p)
    <3>1. i \in (Len(p) + 1) .. (Len(p) + Len(q)) /\ j \in (Len(p) + 1) .. (Len(p) + Len(q))
      BY <1>1, <1>3, <2>2
    <3>2. /\ i - Len(p) \in 1 .. Len(q) /\ j - Len(p) \in 1 .. Len(q)
          /\ q[i - Len(p)] = q[j - Len(p)]
      BY <1>3, <3>1
    <3>3. i - Len(p) = j - Len(p)
      BY <3>2 DEF Distinct
    <3> QED BY <1>1, <1>3, <3>3
  <2>3. CASE i <= Len(p) /\ j > Len(p)
    BY <1>1, <1>2, <1>3, <2>3
  <2>4. CASE i > Len(p) /\ j <= Len(p)
    BY <1>1, <1>2, <1>3, <2>4
  <2> QED BY <1>1, <1>3, <2>1, <2>2, <2>3, <2>4
<1>5. ASSUME NEW x PROVE x \in Elements(r) <=> x \in Elements(p) \cup Elements(q)
  <2>1. x \in Elements(r) <=> \E i \in 1 .. Len(r) : r[i] = x
    <3>1. r \in Seq(U)
      BY <1>3
    <3> QED BY <3>1, ElementsAt, Zenon
  <2>2. x \in Elements(p) <=> \E i \in 1 .. Len(p) : p[i] = x
    BY DEF Elements
  <2>3. x \in Elements(q) <=> \E i \in 1 .. Len(q) : q[i] = x
    BY DEF Elements
  <2>4. (\E i \in 1 .. Len(r) : r[i] = x)
          => (\E i \in 1 .. Len(p) : p[i] = x) \/ (\E i \in 1 .. Len(q) : q[i] = x)
    BY <1>1, <1>3
  <2>5. (\E i \in 1 .. Len(p) : p[i] = x) => \E i \in 1 .. Len(r) : r[i] = x
    BY <1>1, <1>3
  <2>6. (\E i \in 1 .. Len(q) : q[i] = x) => \E i \in 1 .. Len(r) : r[i] = x
    BY <1>1, <1>3
  <2> QED BY <2>1, <2>2, <2>3, <2>4, <2>5, <2>6
<1> QED BY <1>3, <1>4, <1>5 DEF r

LEMMA TailElements ==
    ASSUME NEW U, NEW q \in Seq(U), Distinct(q), q # <<>>
    PROVE  /\ Head(q) \in U /\ Tail(q) \in Seq(U) /\ Distinct(Tail(q))
           /\ Elements(Tail(q)) = Elements(q) \ {Head(q)}
<1>1. /\ Len(q) \in Nat \ {0} /\ Head(q) = q[1] /\ Head(q) \in U
      /\ Tail(q) \in Seq(U) /\ Len(Tail(q)) = Len(q) - 1
      /\ \A i \in 1 .. Len(q) - 1 : Tail(q)[i] = q[i + 1]
  OBVIOUS
<1> DEFINE t == Tail(q)
<1> HIDE DEF t
<1>2. /\ t \in Seq(U) /\ Len(t) = Len(q) - 1
      /\ \A i \in 1 .. Len(q) - 1 : t[i] = q[i + 1]
  BY <1>1 DEF t
<1>3. Distinct(t)
  BY <1>1, <1>2 DEF Distinct
<1>4. ASSUME NEW x PROVE x \in Elements(t) <=> x \in Elements(q) \ {Head(q)}
  <2>1. x \in Elements(t) <=> \E i \in 1 .. Len(q) - 1 : q[i + 1] = x
    <3>1. x \in Elements(t) <=> \E i \in 1 .. Len(t) : t[i] = x
      BY <1>2, ElementsAt
    <3> QED BY <1>2, <3>1
  <2>2. x \in Elements(q) <=> \E i \in 1 .. Len(q) : q[i] = x
    BY DEF Elements
  <2>3. ASSUME NEW i \in 1 .. Len(q), q[i] = x, x # Head(q)
        PROVE  \E j \in 1 .. Len(q) - 1 : q[j + 1] = x
    <3>1. i - 1 \in 1 .. Len(q) - 1 /\ (i - 1) + 1 = i
      BY <1>1, <2>3
    <3> QED BY <2>3, <3>1
  <2>4. ASSUME NEW i \in 1 .. Len(q) - 1, q[i + 1] = x
        PROVE  x # Head(q) /\ \E j \in 1 .. Len(q) : q[j] = x
    BY <1>1, <2>4 DEF Distinct
  <2> QED BY <2>1, <2>2, <2>3, <2>4
<1> QED BY <1>1, <1>2, <1>3, <1>4 DEF t

LEMMA SetOrderComplete ==
    SetOrder \in Seq(AllSignals) /\ Distinct(SetOrder) /\ AllSignals \subseteq Elements(SetOrder)
<1>1. SetOrder \in Seq(AllSignals) /\ Len(SetOrder) = 17
  BY DEF SetOrder, AllSignals, FieldSignals, ResearchFormSignals, FormSignals
<1>2. /\ SetOrder[1] = "state" /\ SetOrder[2] = "items" /\ SetOrder[3] = "value"
      /\ SetOrder[4] = "rawValue" /\ SetOrder[5] = "touched" /\ SetOrder[6] = "pending"
      /\ SetOrder[7] = "parseIssue" /\ SetOrder[8] = "parseStatus"
      /\ SetOrder[9] = "serverIssues" /\ SetOrder[10] = "issues"
      /\ SetOrder[11] = "validationStatus" /\ SetOrder[12] = "output"
      /\ SetOrder[13] = "submissionStatus" /\ SetOrder[14] = "submitting"
      /\ SetOrder[15] = "dirty" /\ SetOrder[16] = "valid" /\ SetOrder[17] = "invalid"
  BY DEF SetOrder
<1>3. \A i \in 1 .. 17 : \/ i = 1 \/ i = 2 \/ i = 3 \/ i = 4 \/ i = 5 \/ i = 6 \/ i = 7 \/ i = 8
                        \/ i = 9 \/ i = 10 \/ i = 11 \/ i = 12 \/ i = 13 \/ i = 14 \/ i = 15
                        \/ i = 16 \/ i = 17
  OBVIOUS
<1>4. Distinct(SetOrder)
  BY <1>1, <1>2, <1>3, SMTT(60) DEF Distinct
<1>5. \A x \in AllSignals : \E i \in 1 .. 17 : SetOrder[i] = x
  BY <1>2 DEF AllSignals, FieldSignals, ResearchFormSignals, FormSignals
<1>6. AllSignals \subseteq Elements(SetOrder)
  BY <1>1, <1>5 DEF Elements
<1> QED BY <1>1, <1>4, <1>6

(* What is due after an operation.                                       *)
LEMMA QueuedElements ==
    ASSUME untold \in Seq(AllSignals), Distinct(untold), NEW m \in SUBSET AllSignals, NEW flags
    PROVE  /\ Queued(m, flags) \in Seq(AllSignals) /\ Distinct(Queued(m, flags))
           /\ Elements(Queued(m, flags)) = (Elements(untold) \ flags) \cup (m \ Elements(untold))
<1> DEFINE owed == Elements(untold)
           p == Kept(untold, owed \ flags)
           q == Kept(SetOrder, m \ owed)
<1>1. p \in Seq(AllSignals) /\ Distinct(p) /\ Elements(p) = owed \ flags
  BY KeptElements
<1>2. q \in Seq(AllSignals) /\ Distinct(q) /\ Elements(q) = m \ owed
  BY KeptElements, SetOrderComplete
<1>3. Queued(m, flags) = p \o q
  BY DEF Queued
<1> HIDE DEF p, q
<1>4. Elements(p) \cap Elements(q) = {}
  BY <1>1, <1>2
<1>5. /\ p \o q \in Seq(AllSignals) /\ Distinct(p \o q)
      /\ Elements(p \o q) = Elements(p) \cup Elements(q)
  BY <1>1, <1>2, <1>4, ConcatElements
<1> QED BY <1>1, <1>2, <1>3, <1>5
-----------------------------------------------------------------------------
(* Projection: the steps.                                                *)

(* What is shown as it is read now follows what is due.                  *)
LEMMA ReadFollows ==
    ASSUME NEW h \in HandleType, NEW owed, h.stale = {},
           h.early = owed \cap Flags(node) \cap h.adapter.shows
    PROVE  Follows(h, owed)
<1>1. h.adapter.hears \subseteq h.adapter.shows
  BY AdaptersHear DEF HandleType, HearsEnough
<1> QED BY <1>1 DEF Follows, CopyFollows, SnapshotFollows, FlagsFollow

LEMMA ReadOf ==
    ASSUME ProjectionTypeOK, NEW h \in HandleType
    PROVE  /\ Read(h) \in HandleType
           /\ Read(h).stale = {} /\ Read(h).woken = FALSE
           /\ Read(h).early = Elements(untold) \cap Flags(node) \cap h.adapter.shows
           /\ Read(h).adapter = h.adapter /\ Read(h).life = h.life
           /\ Read(h).attached = h.attached /\ Read(h).host = h.host
           /\ Read(h).bornLate = h.bornLate
<1> DEFINE early == Elements(untold) \cap Flags(node) \cap h.adapter.shows
<1>1. h.adapter \in Adapters
  BY DEF HandleType
<1>2. h.adapter.shows \subseteq AllSignals
  BY <1>1, AdaptersHear DEF HearsEnough
<1>3. early \in SUBSET AllSignals /\ Read(h) = [h EXCEPT !.stale = {}, !.early = early, !.woken = FALSE]
  BY <1>2 DEF Read, EarlyRead
<1> HIDE DEF early
<1>4. /\ Read(h) \in HandleType
      /\ Read(h).stale = {} /\ Read(h).woken = FALSE /\ Read(h).early = early
      /\ Read(h).adapter = h.adapter /\ Read(h).life = h.life
      /\ Read(h).attached = h.attached /\ Read(h).host = h.host
      /\ Read(h).bornLate = h.bornLate
  BY <1>3 DEF HandleType
<1> QED BY <1>4 DEF early

LEMMA ProjectionInitInv == ProjectionInit => ProjectionInv
<1> SUFFICES ASSUME ProjectionInit PROVE ProjectionInv
  OBVIOUS
<1>1. VueStore \in Adapters
  BY Zenon DEF Adapters
<1>2. /\ NoHandle \in HandleType /\ NoHandle.life = "none" /\ NoHandle.host = "none"
      /\ ~NoHandle.attached
  BY <1>1 DEF NoHandle, HandleType
<1>3. <<>> \in Seq(AllSignals) /\ Distinct(<<>>)
  BY DEF Distinct
<1>4. 0 \in 0 .. MaxMoves
  BY MaxMovesAssumption
<1>5. ProjectionTypeOK
  BY <1>2, <1>3, <1>4 DEF ProjectionInit, ProjectionTypeOK
<1>6. HandleOK(handle) /\ Follows(handle, Elements(untold))
  BY <1>2 DEF ProjectionInit, HandleOK, Follows
<1> QED BY <1>5, <1>6 DEF ProjectionInv

(* Move: what a handle is left to show is due, or it will hear of it.    *)
LEMMA MoveInv == ProjectionInv /\ Move => ProjectionInv'
<1> SUFFICES ASSUME ProjectionInv, Move PROVE ProjectionInv'
  OBVIOUS
<1> DEFINE F == Flags(node)
           owed == Elements(untold)
           shows == handle.adapter.shows
           hears == handle.adapter.hears
<1>1. PICK m \in Moves(node) :
        /\ untold' = Queued(m, m \cap F)
        /\ handle' = [handle EXCEPT
             !.stale = IF handle.life = "live"
                         THEN Toggle(handle.stale \cup ((m \ (m \cap F)) \cap shows),
                                     (m \cap F) \cap shows)
                         ELSE handle.stale]
  BY DEF Move
<1> DEFINE staleNow == IF handle.life = "live"
                    THEN Toggle(handle.stale \cup ((m \ (m \cap F)) \cap shows),
                                (m \cap F) \cap shows)
                    ELSE handle.stale
<1>2. /\ handle \in HandleType /\ handle.adapter \in Adapters
      /\ node \in {"store", "field", "form", "array"}
      /\ untold \in Seq(AllSignals) /\ Distinct(untold)
  BY DEF ProjectionInv, ProjectionTypeOK, HandleType
<1>3. m \in SUBSET AllSignals
  BY <1>2, MovesSignals
<1>4. /\ hears \subseteq shows /\ shows \subseteq AllSignals
      /\ handle.adapter.copies => hears = shows
  BY <1>2, AdaptersHear DEF HearsEnough
<1>5. /\ untold' \in Seq(AllSignals) /\ Distinct(untold')
      /\ Elements(untold') = (owed \ (m \cap F)) \cup (m \ owed)
  BY <1>1, <1>2, <1>3, QueuedElements
<1>6. handle' = [handle EXCEPT !.stale = staleNow] /\ staleNow \in SUBSET AllSignals
  BY <1>1, <1>2, <1>3, <1>4 DEF Toggle, HandleType
<1> HIDE DEF staleNow
<1>7. /\ handle' \in HandleType /\ handle'.stale = staleNow
      /\ handle'.adapter = handle.adapter /\ handle'.life = handle.life
      /\ handle'.attached = handle.attached /\ handle'.host = handle.host
      /\ handle'.bornLate = handle.bornLate /\ handle'.early = handle.early
      /\ handle'.woken = handle.woken
  BY <1>2, <1>6 DEF HandleType
<1>8. node' = node /\ batching' = batching /\ moved' \in 0 .. MaxMoves
  BY MaxMovesAssumption DEF Move, ProjectionInv, ProjectionTypeOK
<1>9. ProjectionTypeOK'
  BY <1>5, <1>7, <1>8 DEF ProjectionInv, ProjectionTypeOK
<1>10. handle.life = "live" =>
         /\ handle.adapter.of = node /\ handle.stale \subseteq shows
         /\ \A s \in F : s \in staleNow <=> (s \in handle.stale) # (s \in m \cap shows)
         /\ \A s : s \notin F => (s \in staleNow <=> s \in handle.stale \/ s \in m \cap shows)
  BY DEF ProjectionInv, HandleOK, staleNow, Toggle
<1>11. HandleOK(handle)'
  <2>1. handle.life = "live" => staleNow \subseteq shows
    BY <1>10
  <2> QED BY <1>7, <1>8, <2>1 DEF ProjectionInv, HandleOK
<1>12. Follows(handle, Elements(untold))'
  <2> SUFFICES ASSUME handle.life = "live", handle.attached, ~(~handle.adapter.copies /\ handle.woken)
               PROVE  IF handle.adapter.copies THEN CopyFollows(handle, Elements(untold))'
                      ELSE SnapshotFollows(handle, Elements(untold))'
    BY <1>7 DEF Follows
  <2>1. FlagsFollow(handle, owed)
    BY DEF ProjectionInv, Follows, CopyFollows, SnapshotFollows
  <2>2. FlagsFollow(handle, Elements(untold))'
    BY <1>4, <1>5, <1>7, <1>8, <1>10, <2>1 DEF FlagsFollow
  <2>3. CASE handle.adapter.copies
    <3>1. \A s \in handle.stale \ F : s \in owed
      BY <2>3 DEF ProjectionInv, Follows, CopyFollows
    <3>2. \A s \in staleNow \ F : s \in Elements(untold')
      BY <1>5, <1>10, <3>1
    <3> QED BY <1>7, <1>8, <2>2, <2>3, <3>2 DEF CopyFollows
  <2>4. CASE ~handle.adapter.copies
    <3>1. /\ handle.stale \ F # {} => (owed \cap hears) \ F # {}
          /\ handle.stale \ hears # {} => handle.stale \ F # {}
      BY <2>4 DEF ProjectionInv, Follows, SnapshotFollows
    <3>2. /\ m \cap (shows \ hears) # {} => (m \ F) \cap hears # {}
          /\ (m \ F) \cap shows # {} => (m \ F) \cap hears # {}
      BY <1>2, <1>10, MovesAreHeard
    <3>3. staleNow \ F # {} => (Elements(untold') \cap hears) \ F # {}
      BY <1>5, <1>10, <3>1, <3>2
    <3>4. staleNow \ hears # {} => staleNow \ F # {}
      BY <1>4, <1>10, <3>1, <3>2
    <3> QED BY <1>7, <1>8, <2>2, <2>4, <3>3, <3>4 DEF SnapshotFollows
  <2> QED BY <2>3, <2>4
<1> QED BY <1>9, <1>11, <1>12 DEF ProjectionInv

(* Deliver: what was heard is shown, or the handle is woken.             *)
LEMMA DeliverInv == ProjectionInv /\ Deliver => ProjectionInv'
<1> SUFFICES ASSUME ProjectionInv, Deliver PROVE ProjectionInv'
  OBVIOUS
<1> DEFINE F == Flags(node)
           owed == Elements(untold)
           s == Head(untold)
           shows == handle.adapter.shows
           hears == handle.adapter.hears
<1>1. /\ untold # <<>> /\ untold' = Tail(untold)
      /\ handle' = IF handle.attached /\ handle.life = "live" /\ s \in hears
                   THEN Heard(handle, s) ELSE handle
      /\ node' = node /\ batching' = batching /\ moved' = moved
  BY DEF Deliver
<1>2. /\ handle \in HandleType /\ handle.adapter \in Adapters
      /\ untold \in Seq(AllSignals) /\ Distinct(untold)
  BY DEF ProjectionInv, ProjectionTypeOK, HandleType
<1>3. /\ untold' \in Seq(AllSignals) /\ Distinct(untold')
      /\ Elements(untold') = owed \ {s}
  BY <1>1, <1>2, TailElements
<1>4. hears \subseteq shows /\ (handle.adapter.copies => hears = shows)
  BY <1>2, AdaptersHear DEF HearsEnough
<1> HIDE DEF s
<1>5. CASE ~(handle.attached /\ handle.life = "live" /\ s \in hears)
  <2>1. handle' = handle
    BY <1>1, <1>5
  <2>2. ProjectionTypeOK' /\ HandleOK(handle)'
    BY <1>1, <1>3, <2>1 DEF ProjectionInv, ProjectionTypeOK, HandleOK
  <2>3. Follows(handle, Elements(untold'))
    <3> SUFFICES ASSUME handle.life = "live", handle.attached
                 PROVE  IF handle.adapter.copies THEN CopyFollows(handle, owed \ {s})
                        ELSE handle.woken \/ SnapshotFollows(handle, owed \ {s})
      BY <1>3 DEF Follows
    <3>1. s \notin hears /\ handle.stale \subseteq shows
      BY <1>5 DEF ProjectionInv, HandleOK
    <3>2. FlagsFollow(handle, owed) => FlagsFollow(handle, owed \ {s})
      BY <3>1 DEF FlagsFollow
    <3>3. CASE handle.adapter.copies
      <4>1. CopyFollows(handle, owed)
        BY <3>3 DEF ProjectionInv, Follows
      <4>2. CopyFollows(handle, owed \ {s})
        BY <1>4, <3>1, <3>2, <3>3, <4>1 DEF CopyFollows
      <4> QED BY <3>3, <4>2
    <3>4. CASE ~handle.adapter.copies
      <4>1. handle.woken \/ SnapshotFollows(handle, owed)
        BY <3>4 DEF ProjectionInv, Follows
      <4>2. (owed \ {s}) \cap hears = owed \cap hears
        BY <3>1
      <4>3. SnapshotFollows(handle, owed) => SnapshotFollows(handle, owed \ {s})
        BY <3>2, <4>2 DEF SnapshotFollows
      <4> QED BY <3>4, <4>1, <4>3
    <3> QED BY <3>3, <3>4
  <2>4. Follows(handle, Elements(untold))'
    BY <1>1, <2>1, <2>3 DEF Follows, CopyFollows, SnapshotFollows, FlagsFollow
  <2> QED BY <2>2, <2>4 DEF ProjectionInv
<1>6. CASE handle.attached /\ handle.life = "live" /\ s \in hears /\ handle.adapter.copies
  <2>1. handle' = [handle EXCEPT !.stale = handle.stale \ {s}, !.early = handle.early \ {s}]
    BY <1>1, <1>6 DEF Heard
  <2>2. /\ handle' \in HandleType /\ handle'.stale = handle.stale \ {s}
        /\ handle'.early = handle.early \ {s}
        /\ handle'.adapter = handle.adapter /\ handle'.life = handle.life
        /\ handle'.attached = handle.attached /\ handle'.host = handle.host
        /\ handle'.bornLate = handle.bornLate /\ handle'.woken = handle.woken
    BY <1>2, <2>1 DEF HandleType
  <2>3. ProjectionTypeOK' /\ HandleOK(handle)'
    BY <1>1, <1>3, <2>2 DEF ProjectionInv, ProjectionTypeOK, HandleOK
  <2>4. CopyFollows(handle, owed)
    BY <1>6 DEF ProjectionInv, Follows
  <2>5. CopyFollows(handle, Elements(untold))'
    BY <1>1, <1>3, <2>2, <2>4 DEF CopyFollows, FlagsFollow
  <2> QED BY <1>6, <2>2, <2>3, <2>5 DEF ProjectionInv, Follows
<1>7. CASE handle.attached /\ handle.life = "live" /\ s \in hears /\ ~handle.adapter.copies
  <2> DEFINE woken == handle.woken \/ handle.stale # {}
  <2>1. handle' = [handle EXCEPT !.woken = woken]
    BY <1>1, <1>7 DEF Heard
  <2>2. woken \in BOOLEAN
    BY Zenon
  <2>3. ~woken => ~handle.woken /\ handle.stale = {}
    OBVIOUS
  <2> HIDE DEF woken
  <2>4. /\ handle' \in HandleType /\ handle'.woken = woken
        /\ handle'.adapter = handle.adapter /\ handle'.life = handle.life
        /\ handle'.attached = handle.attached /\ handle'.host = handle.host
        /\ handle'.bornLate = handle.bornLate /\ handle'.stale = handle.stale
        /\ handle'.early = handle.early
    BY <1>2, <2>1, <2>2 DEF HandleType
  <2>5. ProjectionTypeOK' /\ HandleOK(handle)'
    BY <1>1, <1>3, <2>4 DEF ProjectionInv, ProjectionTypeOK, HandleOK
  <2>6. ASSUME ~woken PROVE SnapshotFollows(handle, Elements(untold))'
    <3>1. SnapshotFollows(handle, owed) /\ handle.stale = {}
      BY <1>7, <2>3, <2>6 DEF ProjectionInv, Follows
    <3> QED BY <1>1, <1>3, <2>4, <3>1 DEF SnapshotFollows, FlagsFollow
  <2> QED BY <1>7, <2>4, <2>5, <2>6 DEF ProjectionInv, Follows
<1> QED BY <1>5, <1>6, <1>7

(* Render, Make and the effect read; what they leave is as they read it. *)
LEMMA RenderInv == ProjectionInv /\ Render => ProjectionInv'
<1> SUFFICES ASSUME ProjectionInv, Render PROVE ProjectionInv'
  OBVIOUS
<1>1. /\ handle' = Read(handle) /\ node' = node /\ batching' = batching /\ untold' = untold
      /\ moved' = moved
  BY DEF Render
<1>2. ProjectionTypeOK /\ handle \in HandleType
  BY DEF ProjectionInv, ProjectionTypeOK
<1>3. /\ handle' \in HandleType /\ handle'.stale = {}
      /\ handle'.early = Elements(untold) \cap Flags(node) \cap handle.adapter.shows
      /\ handle'.adapter = handle.adapter /\ handle'.life = handle.life
      /\ handle'.attached = handle.attached /\ handle'.host = handle.host
      /\ handle'.bornLate = handle.bornLate
  BY <1>1, <1>2, ReadOf
<1>4. ProjectionTypeOK' /\ HandleOK(handle)'
  BY <1>1, <1>3 DEF ProjectionInv, ProjectionTypeOK, HandleOK
<1>5. Follows(handle', Elements(untold))
  BY <1>3, ReadFollows
<1>6. Follows(handle, Elements(untold))'
  BY <1>1, <1>5 DEF Follows, CopyFollows, SnapshotFollows, FlagsFollow
<1> QED BY <1>4, <1>6 DEF ProjectionInv

LEMMA MakeInv == ProjectionInv /\ Make => ProjectionInv'
<1> SUFFICES ASSUME ProjectionInv, Make PROVE ProjectionInv'
  OBVIOUS
<1>1. PICK k \in Adapters :
        /\ k.of = node
        /\ \/ \E host \in {"open", "none"} : handle' = Fresh(k, host)
           \/ k.late # "never" /\ handle' = BornLate(k)
  BY DEF Make
<1>2. node' = node /\ batching' = batching /\ untold' = untold /\ moved' = moved
  BY DEF Make
<1>3. k.late = "kept" => k \in {AngularField, AngularForm, AngularArray}
  BY AdaptersHear
<1> DEFINE owed == Elements(untold)
<1>4. ASSUME NEW host \in {"none", "open", "gone"}
      PROVE  LET h == Fresh(k, host) IN
             /\ h \in HandleType /\ h.adapter = k /\ h.life = "live" /\ h.host = host
             /\ h.stale = {} /\ h.early = owed \cap Flags(node) \cap k.shows
  <2> DEFINE attached == ~k.effect
             new == [NoHandle EXCEPT !.adapter = k, !.life = "live", !.attached = attached,
                                     !.host = host]
  <2>1. attached \in BOOLEAN
    BY Zenon
  <2>2. VueStore \in Adapters
    BY Zenon DEF Adapters
  <2>3. NoHandle \in HandleType /\ NoHandle.stale = {}
    BY <2>2 DEF NoHandle, HandleType
  <2>4. Fresh(k, host) = Read(new)
    BY DEF Fresh
  <2> HIDE DEF attached
  <2>5. new \in HandleType /\ new.adapter = k /\ new.life = "live" /\ new.host = host
    BY <2>1, <2>3 DEF HandleType
  <2> HIDE DEF new
  <2>6. ProjectionTypeOK
    BY DEF ProjectionInv
  <2> QED BY <2>4, <2>5, <2>6, ReadOf
<1>5. CASE \E host \in {"open", "none"} : handle' = Fresh(k, host)
  <2>1. PICK host \in {"open", "none"} : handle' = Fresh(k, host)
    BY <1>5
  <2>2. /\ handle' \in HandleType /\ handle'.adapter = k /\ handle'.life = "live"
        /\ handle'.host = host /\ handle'.stale = {}
        /\ handle'.early = owed \cap Flags(node) \cap k.shows
    BY <1>4, <2>1
  <2>3. ProjectionTypeOK' /\ HandleOK(handle)'
    BY <1>1, <1>2, <2>2 DEF ProjectionInv, ProjectionTypeOK, HandleOK
  <2>4. Follows(handle', owed)
    BY <2>2, ReadFollows
  <2>5. Follows(handle, Elements(untold))'
    BY <1>2, <2>4 DEF Follows, CopyFollows, SnapshotFollows, FlagsFollow
  <2> QED BY <2>3, <2>5 DEF ProjectionInv
<1>6. CASE k.late # "never" /\ handle' = BornLate(k)
  <2> DEFINE f == Fresh(k, "gone")
             attached == k.late = "kept"
  <2>1. f \in HandleType /\ f.adapter = k
    BY <1>4
  <2>2. attached \in BOOLEAN
    BY Zenon
  <2>3. handle' = [f EXCEPT !.life = "disposed", !.bornLate = TRUE, !.attached = attached]
    BY <1>6 DEF BornLate
  <2>4. attached => k \in {AngularField, AngularForm, AngularArray}
    BY <1>3
  <2> HIDE DEF f, attached
  <2>5. /\ handle' \in HandleType /\ handle'.adapter = k /\ handle'.life = "disposed"
        /\ handle'.bornLate /\ handle'.attached = attached
    BY <2>1, <2>2, <2>3 DEF HandleType
  <2>6. ProjectionTypeOK' /\ HandleOK(handle)'
    BY <1>2, <2>4, <2>5 DEF ProjectionInv, ProjectionTypeOK, HandleOK
  <2> QED BY <2>5, <2>6 DEF ProjectionInv, Follows
<1> QED BY <1>1, <1>5, <1>6

LEMMA SubscribeEffectInv == ProjectionInv /\ SubscribeEffect => ProjectionInv'
<1> SUFFICES ASSUME ProjectionInv, SubscribeEffect PROVE ProjectionInv'
  OBVIOUS
<1> DEFINE seen == IF handle.stale = {} THEN Read(handle) ELSE [handle EXCEPT !.woken = TRUE]
<1>1. /\ handle.life = "live" /\ handle.adapter.effect
      /\ handle' = [seen EXCEPT !.attached = TRUE]
      /\ node' = node /\ batching' = batching /\ untold' = untold /\ moved' = moved
  BY DEF SubscribeEffect
<1>2. ProjectionTypeOK /\ handle \in HandleType
  BY DEF ProjectionInv, ProjectionTypeOK
<1>3. ~handle.adapter.copies
  BY <1>1, <1>2, AdaptersHear DEF HandleType, HearsEnough
<1>4. /\ seen \in HandleType /\ seen.adapter = handle.adapter /\ seen.life = handle.life
      /\ seen.host = handle.host /\ seen.stale = handle.stale
      /\ IF handle.stale = {}
         THEN seen.early = Elements(untold) \cap Flags(node) \cap handle.adapter.shows
         ELSE seen.woken
  <2>1. CASE handle.stale = {}
    BY <1>2, <2>1, ReadOf
  <2>2. CASE handle.stale # {}
    BY <1>2, <2>2 DEF HandleType
  <2> QED BY <2>1, <2>2
<1> HIDE DEF seen
<1>5. /\ handle' \in HandleType /\ handle'.adapter = seen.adapter /\ handle'.life = seen.life
      /\ handle'.host = seen.host /\ handle'.stale = seen.stale
      /\ handle'.early = seen.early /\ handle'.woken = seen.woken
  BY <1>1, <1>4 DEF HandleType
<1>6. ProjectionTypeOK' /\ HandleOK(handle)'
  BY <1>1, <1>4, <1>5 DEF ProjectionInv, ProjectionTypeOK, HandleOK
<1>7. Follows(handle', Elements(untold))
  <2>1. CASE handle.stale = {}
    BY <1>4, <1>5, <2>1, ReadFollows
  <2>2. CASE handle.stale # {}
    BY <1>3, <1>4, <1>5, <2>2 DEF Follows
  <2> QED BY <2>1, <2>2
<1>8. Follows(handle, Elements(untold))'
  BY <1>1, <1>7 DEF Follows, CopyFollows, SnapshotFollows, FlagsFollow
<1> QED BY <1>6, <1>8 DEF ProjectionInv

(* What is disposed of shows nothing; one that was born late keeps what it *)
(* subscribed to.                                                          *)
LEMMA DisposedInv ==
    ASSUME ProjectionInv, NEW host \in {"none", "open", "gone"},
           handle' = [Disposed(handle) EXCEPT !.host = host],
           UNCHANGED <<node, batching, untold, moved>>
    PROVE  ProjectionInv' \/ handle.life = "none"
<1> SUFFICES ASSUME handle.life # "none" PROVE ProjectionInv'
  OBVIOUS
<1> DEFINE d == Disposed(handle)
<1>1. handle \in HandleType
  BY DEF ProjectionInv, ProjectionTypeOK
<1>2. /\ d \in HandleType /\ d.life = "disposed" /\ d.adapter = handle.adapter
      /\ d.bornLate = handle.bornLate
      /\ d.attached => handle.life = "disposed" /\ handle.attached
  <2>1. CASE handle.life = "disposed"
    BY <1>1, <2>1 DEF Disposed
  <2>2. CASE handle.life # "disposed"
    <3> DEFINE k == Dark(handle)
    <3>1. k \in HandleType /\ k.life = "disposed" /\ k.adapter = handle.adapter
          /\ k.bornLate = handle.bornLate
      BY <1>1 DEF HandleType, Dark
    <3>2. d = [k EXCEPT !.attached = FALSE]
      BY <2>2 DEF Disposed
    <3> HIDE DEF k, d
    <3> QED BY <3>1, <3>2 DEF HandleType
  <2> QED BY <2>1, <2>2
<1>3. handle' = [d EXCEPT !.host = host]
  OBVIOUS
<1> HIDE DEF d
<1>4. /\ handle' \in HandleType /\ handle'.life = "disposed" /\ handle'.adapter = d.adapter
      /\ handle'.bornLate = d.bornLate /\ handle'.attached = d.attached
  BY <1>2, <1>3 DEF HandleType
<1>5. ProjectionTypeOK' /\ HandleOK(handle)'
  BY <1>2, <1>4 DEF ProjectionInv, ProjectionTypeOK, HandleOK
<1> QED BY <1>4, <1>5 DEF ProjectionInv, Follows

LEMMA DisposeProjectionInv == ProjectionInv /\ DisposeProjection => ProjectionInv'
<1> SUFFICES ASSUME ProjectionInv, DisposeProjection PROVE ProjectionInv'
  OBVIOUS
<1>1. handle.life # "none" /\ handle' = Disposed(handle) /\ UNCHANGED <<node, batching, untold, moved>>
  BY DEF DisposeProjection
<1>2. /\ handle \in HandleType
      /\ \A h \in HandleType : h = [h EXCEPT !.host = h.host]
  BY DEF ProjectionInv, ProjectionTypeOK, HandleType
<1>3. Disposed(handle) \in HandleType
  BY <1>2 DEF Disposed, Dark, HandleType
<1>4. handle' = [Disposed(handle) EXCEPT !.host = Disposed(handle).host]
      /\ Disposed(handle).host \in {"none", "open", "gone"}
  BY <1>1, <1>2, <1>3 DEF HandleType
<1> QED BY <1>1, <1>4, DisposedInv

LEMMA HostGoneInv == ProjectionInv /\ HostGone => ProjectionInv'
<1> SUFFICES ASSUME ProjectionInv, HostGone PROVE ProjectionInv'
  OBVIOUS
<1>1. /\ handle.host = "open" /\ handle' = [Disposed(handle) EXCEPT !.host = "gone"]
      /\ UNCHANGED <<node, batching, untold, moved>>
  BY DEF HostGone
<1> QED BY <1>1, DisposedInv DEF ProjectionInv, HandleOK

LEMMA BatchInv == ProjectionInv /\ (OpenBatch \/ CloseBatch) => ProjectionInv'
  BY DEF OpenBatch, CloseBatch, ProjectionInv, ProjectionTypeOK, HandleOK, Follows, CopyFollows,
         SnapshotFollows, FlagsFollow, Distinct

(* With nothing due and nothing to render, what follows is current.      *)
LEMMA InvScreensAreSound == ProjectionInv => ScreensAreSound
<1> SUFFICES ASSUME ProjectionInv PROVE ScreensAreSound
  OBVIOUS
<1>1. handle \in HandleType /\ handle.adapter \in Adapters
  BY DEF ProjectionInv, ProjectionTypeOK, HandleType
<1>2. PTypeOK
  <2>1. Elements(untold) \subseteq AllSignals
    BY ElementsAt DEF ProjectionInv, ProjectionTypeOK
  <2> QED BY <1>1, <2>1 DEF ProjectionInv, ProjectionTypeOK, PTypeOK, AllSignals, HandleType
<1>3. ScreensAreCurrent
  <2> SUFFICES ASSUME untold = <<>>, handle.life = "live", handle.attached, ~handle.woken
               PROVE  handle.stale \subseteq handle.early
    BY DEF ScreensAreCurrent
  <2>1. Elements(untold) = {}
    BY DEF Elements
  <2>2. handle.adapter.copies => handle.adapter.hears = handle.adapter.shows
    BY <1>1, AdaptersHear DEF HearsEnough
  <2> QED BY <2>1, <2>2
      DEF ProjectionInv, HandleOK, Follows, CopyFollows, SnapshotFollows, FlagsFollow
<1>4. NothingStaysSubscribed
  BY DEF ProjectionInv, HandleOK, NothingStaysSubscribed
<1> QED BY <1>2, <1>3, <1>4 DEF ScreensAreSound

(* Whichever adapter shows a node, however operations, batches, deliveries *)
(* renders and the ends of components interleave: once all is told and     *)
(* rendered it shows what the node has (but for a flag read before its     *)
(* change was told), and it is subscribed only while it is shown.          *)
THEOREM ScreensAreAlwaysSound == ProjectionSpec => []ScreensAreSound
<1>1. ProjectionInv /\ [ProjectionNext]_pvars => ProjectionInv'
  <2> SUFFICES ASSUME ProjectionInv, [ProjectionNext]_pvars PROVE ProjectionInv'
    OBVIOUS
  <2>1. CASE UNCHANGED pvars
    BY <2>1 DEF pvars, ProjectionInv, ProjectionTypeOK, HandleOK, Follows, CopyFollows,
                SnapshotFollows, FlagsFollow, Distinct
  <2> QED
    BY <2>1, BatchInv, MoveInv, DeliverInv, RenderInv, MakeInv, SubscribeEffectInv,
       DisposeProjectionInv, HostGoneInv
    DEF ProjectionNext
<1> QED BY <1>1, ProjectionInitInv, InvScreensAreSound, PTL DEF ProjectionSpec

-----------------------------------------------------------------------------
(* Controls.                                                             *)

Kinds == {"text", "checkbox", "radio", "select-one", "file"}

Bonds ==
    [life : {"live", "gone"}, field : Fields, el : Inputs, kind : Kinds, retyped : BOOLEAN,
     ear : SUBSET {"input", "change"}]

ControlsTypeOK ==
    /\ style \in Styles
    /\ raw \in [Fields -> Texts] /\ value \in [Fields -> Texts] /\ text \in [Inputs -> Texts]
    /\ type \in [Inputs -> TypesOf(style)]
    /\ unheard \subseteq Inputs
    /\ binding \in [Bindings -> Bonds \cup {NoBinding}]
    /\ \A b \in Bindings : Live(b) => binding[b].kind \in TypesOf(style)
    /\ \A b \in due : b \in Bindings /\ Live(b)

(* Without a parser packages/form holds one value twice.                 *)
ValuesAgree == style # "prototype" => \A f \in Fields \ Parsed : value[f] = raw[f]

(* Only the vanilla bindings share a control; they show one field alike. *)
ControlsApart ==
    \A b, c \in Bindings : Live(b) /\ Live(c) /\ binding[b].el = binding[c].el =>
        /\ binding[b].field = binding[c].field /\ binding[b].kind = binding[c].kind
        /\ b = c \/ style \in {"vanilla", "prototype"}

(* A binding listens to what its control fires, until it is gone.        *)
EarsOpen ==
    \A b \in Bindings :
        /\ Live(b) /\ ~binding[b].retyped =>
            /\ type[binding[b].el] = binding[b].kind
            /\ style # "accessor" => binding[b].ear = {CommitEvent(binding[b].kind)}
        /\ binding[b].life = "gone" => style = "vue"

Shown(b) == Look(binding[b].kind, binding[b].el, binding[b].field)

KeptUp(b) ==
    /\ Live(b) /\ ~binding[b].retyped /\ binding[b].el \notin unheard
    /\ ~Deaf(binding[b].kind, binding[b].field)

(* What differs between a control and its field is still to be told.     *)
DifferenceIsDue ==
    \A b \in Bindings : KeptUp(b) => b \in due \/ text[binding[b].el] = Shown(b)

ControlsInv == ControlsTypeOK /\ ValuesAgree /\ ControlsApart /\ EarsOpen /\ DifferenceIsDue
-----------------------------------------------------------------------------
LEMMA TypesAreKinds == ASSUME NEW s \in Styles PROVE TypesOf(s) \subseteq Kinds
BY DEF Styles, TypesOf, Kinds

LEMMA ControlsInitInv == ControlsInit => ControlsInv
<1> SUFFICES ASSUME ControlsInit PROVE ControlsInv
  OBVIOUS
<1>1. \A b \in Bindings : binding[b].life = "none" /\ ~Live(b)
  BY DEF ControlsInit, NoBinding, Live
<1>2. ControlsTypeOK
  BY <1>1 DEF ControlsInit, ControlsTypeOK
<1>3. ValuesAgree
  BY DEF ControlsInit, ValuesAgree
<1>4. ControlsApart /\ EarsOpen /\ DifferenceIsDue
  BY <1>1 DEF ControlsApart, EarsOpen, DifferenceIsDue, KeptUp
<1> QED BY <1>2, <1>3, <1>4 DEF ControlsInv

LEMMA LiveBinding ==
    ASSUME NEW b \in Bindings, ControlsTypeOK, Live(b)
    PROVE  /\ binding[b] \in Bonds /\ binding[b].el \in Inputs /\ binding[b].field \in Fields
           /\ binding[b].kind \in Kinds
BY DEF ControlsTypeOK, Live, NoBinding, Bonds

LEMMA LookIsText ==
    ASSUME NEW f \in Fields, NEW e \in Inputs, NEW k, ControlsTypeOK PROVE Look(k, e, f) \in Texts
BY ControlsAssumption DEF ControlsTypeOK, Look, Source, Truth

(* Of what it does not follow a binding is not told, and need not be.    *)
LEMMA UntoldSame ==
    ASSUME NEW c \in Bindings, NEW k, NEW f, NEW e, Live(c), binding[c].kind = k,
           binding[c].field = f, ~Deaf(k, f), c \notin Told, style' = style
    PROVE  Look(k, e, f)' = Look(k, e, f)
<1>1. FollowsRaw(k, f)' <=> FollowsRaw(k, f)
  BY DEF FollowsRaw
<1>2. IF FollowsRaw(k, f) THEN raw'[f] = raw[f] ELSE value'[f] = value[f]
  BY DEF Told
<1>3. Source(k, f)' = Source(k, f)
  BY <1>1, <1>2 DEF Source
<1> QED BY <1>3 DEF Look

LEMMA ToldAreLive == ASSUME NEW b \in Told PROVE b \in Bindings /\ Live(b)
BY DEF Told

(* A step that binds nothing keeps the invariant when each control it    *)
(* changes shows its field and the others are told.                      *)
LEMMA FieldsStepInv ==
    ASSUME ControlsInv, UNCHANGED <<style, type, binding>>,
           raw' \in [Fields -> Texts], value' \in [Fields -> Texts], ValuesAgree',
           text' \in [Inputs -> Texts], unheard' \subseteq Inputs,
           \A b \in due' : b \in due \/ b \in Told \/ (b \in Bindings /\ Live(b)),
           \A c \in Bindings : KeptUp(c)' =>
               c \in due' \/ text'[binding[c].el] = Shown(c)'
    PROVE  ControlsInv'
<1>1. \A b : Live(b)' <=> Live(b)
  BY DEF Live
<1>2. ControlsTypeOK'
  BY <1>1, ToldAreLive DEF ControlsInv, ControlsTypeOK
<1>3. ControlsApart' /\ EarsOpen'
  BY <1>1 DEF ControlsInv, ControlsApart, EarsOpen
<1>4. DifferenceIsDue'
  BY DEF DifferenceIsDue
<1> QED BY <1>2, <1>3, <1>4 DEF ControlsInv

(* A control the step leaves alone, whose binding is told if it must be. *)
LEMMA UntouchedIsShown ==
    ASSUME NEW c \in Bindings, ControlsInv, KeptUp(c), UNCHANGED <<style, binding>>,
           text'[binding[c].el] = text[binding[c].el], c \in due => c \in due',
           c \in Told => c \in due'
    PROVE  c \in due' \/ text'[binding[c].el] = Shown(c)'
<1>1. PICK k, f, e : binding[c].kind = k /\ binding[c].field = f /\ binding[c].el = e
  OBVIOUS
<1>2. Live(c) /\ ~Deaf(k, f)
  BY <1>1 DEF KeptUp
<1>3. c \in due \/ text[e] = Look(k, e, f)
  BY <1>1 DEF ControlsInv, DifferenceIsDue, Shown
<1>4. Shown(c)' = Look(k, e, f)'
  BY <1>1 DEF Shown
<1>5. CASE c \in Told
  BY <1>5
<1>6. CASE c \notin Told
  <2>1. Look(k, e, f)' = Look(k, e, f)
    BY <1>1, <1>2, <1>6, UntoldSame
  <2> QED BY <1>1, <1>3, <1>4, <2>1
<1> QED BY <1>5, <1>6

LEMMA PutRawKeeps ==
    ASSUME ControlsInv, NEW F \in SUBSET Fields, NEW w \in [Fields -> Texts], PutRaw(F, w),
           style' = style
    PROVE  /\ raw' \in [Fields -> Texts] /\ value' \in [Fields -> Texts] /\ ValuesAgree'
           /\ \A f \in Fields : raw'[f] = IF f \in F THEN w[f] ELSE raw[f]
           /\ \A f \in Fields : f \notin F => value'[f] = value[f]
           /\ \A f \in F \ Parsed : value'[f] = w[f]
<1>1. /\ raw' = [f \in Fields |-> IF f \in F THEN w[f] ELSE raw[f]]
      /\ value' \in [Fields -> Texts]
      /\ \A f \in Fields : IF f \notin F THEN value'[f] = value[f] ELSE f \in Parsed \/ value'[f] = w[f]
  BY DEF PutRaw
<1>2. \A f \in Fields : raw[f] \in Texts /\ w[f] \in Texts
  BY DEF ControlsInv, ControlsTypeOK
<1> QED BY <1>1, <1>2 DEF ControlsInv, ValuesAgree

LEMMA PutValueKeeps ==
    ASSUME ControlsInv, NEW F \in SUBSET Fields, NEW w \in [Fields -> Texts], PutValue(F, w),
           style' = style
    PROVE  /\ raw' \in [Fields -> Texts] /\ value' \in [Fields -> Texts] /\ ValuesAgree'
           /\ \A f \in Fields : value'[f] = IF f \in F THEN w[f] ELSE value[f]
           /\ \A f \in Fields : f \notin F => raw'[f] = raw[f]
<1>1. /\ value' = [f \in Fields |-> IF f \in F THEN w[f] ELSE value[f]]
      /\ raw' = [f \in Fields |-> IF f \in F \ Parsed /\ style # "prototype" THEN w[f] ELSE raw[f]]
  BY DEF PutValue
<1>2. \A f \in Fields : raw[f] \in Texts /\ value[f] \in Texts /\ w[f] \in Texts
  BY DEF ControlsInv, ControlsTypeOK
<1> QED BY <1>1, <1>2 DEF ControlsInv, ValuesAgree

LEMMA WriteFieldInv ==
    ASSUME NEW f \in Fields, NEW v \in Texts, ControlsInv, SetRawValue(f, v) \/ SetValue(f, v)
    PROVE  ControlsInv'
<1>1. /\ PutRaw({f}, Everywhere(v)) \/ PutValue({f}, Everywhere(v))
      /\ due' = due \cup Told /\ UNCHANGED <<style, text, type, unheard, binding>>
  BY DEF SetRawValue, SetValue
<1>2. Everywhere(v) \in [Fields -> Texts]
  BY DEF Everywhere
<1>3. raw' \in [Fields -> Texts] /\ value' \in [Fields -> Texts] /\ ValuesAgree'
  BY <1>1, <1>2, PutRawKeeps, PutValueKeeps
<1>4. ASSUME NEW c \in Bindings, KeptUp(c)'
      PROVE  c \in due' \/ text'[binding[c].el] = Shown(c)'
  <2>1. KeptUp(c)
    BY <1>1, <1>4 DEF KeptUp, Live, Deaf
  <2> QED BY <1>1, <2>1, UntouchedIsShown
<1> QED BY <1>1, <1>3, <1>4, FieldsStepInv DEF ControlsInv, ControlsTypeOK

(* A binding made for a control that shows no other field.               *)
LEMMA BoundIs ==
    ASSUME NEW f \in Fields, NEW e \in Inputs, ControlsTypeOK
    PROVE  /\ Bound(f, e) \in Bonds /\ Bound(f, e).life = "live" /\ Bound(f, e).field = f
           /\ Bound(f, e).el = e /\ ~Bound(f, e).retyped /\ Bound(f, e).kind = type[e]
           /\ type[e] \in TypesOf(style)
           /\ style # "accessor" => Bound(f, e).ear = {CommitEvent(type[e])}
<1>1. type[e] \in TypesOf(style) /\ type[e] \in Kinds
  BY TypesAreKinds DEF ControlsTypeOK
<1> QED BY <1>1 DEF Bound, Bonds, CommitEvent

(* Mirrored shows the field at e and touches no other control.           *)
LEMMA MirroredIs ==
    ASSUME NEW f \in Fields, NEW e \in Inputs, ControlsTypeOK, Mirrored(f, e)
    PROVE  /\ text' \in [Inputs -> Texts] /\ unheard' \subseteq Inputs
           /\ \A d \in Inputs \ {e} : text'[d] = text[d] /\ (d \in unheard' <=> d \in unheard)
           /\ type[e] = "file" \/ text'[e] = Look(type[e], e, f)
BY LookIsText DEF Mirrored, ControlsTypeOK

(* The bindings before a step that adds c and perhaps loses b.           *)
LEMMA BindingAddedInv ==
    ASSUME NEW B \in SUBSET Bindings, NEW c \in Bindings, NEW f \in Fields, NEW e \in Inputs,
           ControlsInv, Mirrored(f, e), UNCHANGED <<style, raw, value, type>>,
           due' = due \ B, c \notin B, ~Live(c),
           binding' \in [Bindings -> Bonds \cup {NoBinding}], binding'[c] = Bound(f, e),
           \A d \in Bindings \ (B \cup {c}) : binding'[d] = binding[d],
           \A d \in B : binding'[d].life # "live" /\ (binding'[d].life = "gone" => style = "vue"),
           \A d \in Bindings \ B : Live(d) /\ binding[d].el = e =>
               /\ binding[d].field = f /\ binding[d].kind = type[e]
               /\ style \in {"vanilla", "prototype"}
    PROVE  ControlsInv'
<1> DEFINE x == Bound(f, e)
<1>1. /\ x \in Bonds /\ x.life = "live" /\ x.field = f /\ x.el = e /\ ~x.retyped
      /\ x.kind = type[e] /\ type[e] \in TypesOf(style)
      /\ style # "accessor" => x.ear = {CommitEvent(type[e])}
  BY BoundIs DEF ControlsInv
<1>2. binding'[c] = x
  OBVIOUS
<1> HIDE DEF x
<1>3. \A d \in Bindings : Live(d)' <=> d = c \/ (d \notin B /\ Live(d))
  BY <1>1, <1>2 DEF Live
<1>4. \A d \in Bindings : Live(d)' /\ d # c => binding'[d] = binding[d] /\ Live(d) /\ d \notin B
  BY <1>3
<1>5. /\ text' \in [Inputs -> Texts] /\ unheard' \subseteq Inputs
      /\ \A d \in Inputs \ {e} : text'[d] = text[d] /\ (d \in unheard' <=> d \in unheard)
      /\ type[e] = "file" \/ text'[e] = Look(type[e], e, f)
  BY MirroredIs DEF ControlsInv
<1>6. ControlsTypeOK'
  <2>1. \A d \in Bindings : Live(d)' => binding'[d].kind \in TypesOf(style)
    BY <1>1, <1>2, <1>4 DEF ControlsInv, ControlsTypeOK
  <2>2. \A d \in due' : d \in Bindings /\ Live(d)'
    BY <1>3 DEF ControlsInv, ControlsTypeOK
  <2> QED BY <1>5, <2>1, <2>2 DEF ControlsInv, ControlsTypeOK
<1>7. ValuesAgree'
  BY DEF ControlsInv, ValuesAgree
<1>8. ControlsApart'
  BY <1>1, <1>2, <1>4 DEF ControlsInv, ControlsApart
<1>9. EarsOpen'
  <2> SUFFICES ASSUME NEW d \in Bindings
               PROVE  /\ Live(d)' /\ ~binding'[d].retyped =>
                          /\ type[binding'[d].el] = binding'[d].kind
                          /\ style # "accessor" => binding'[d].ear = {CommitEvent(binding'[d].kind)}
                      /\ binding'[d].life = "gone" => style = "vue"
    BY DEF EarsOpen, CommitEvent
  <2>1. CASE d = c
    BY <1>1, <1>2, <2>1
  <2>2. CASE d # c /\ d \notin B
    BY <1>4, <2>2 DEF ControlsInv, EarsOpen
  <2>3. CASE d \in B
    BY <1>3, <2>3
  <2> QED BY <2>1, <2>2, <2>3
<1>10. DifferenceIsDue'
  <2> SUFFICES ASSUME NEW d \in Bindings, KeptUp(d)'
               PROVE  d \in due' \/ text'[binding'[d].el] = Shown(d)'
    BY DEF DifferenceIsDue
  <2>1. PICK k, g, el : binding'[d].kind = k /\ binding'[d].field = g /\ binding'[d].el = el
    OBVIOUS
  <2>2. Live(d)' /\ ~binding'[d].retyped /\ el \notin unheard' /\ ~Deaf(k, g)
    BY <2>1 DEF KeptUp, Deaf
  <2>3. Shown(d)' = Look(k, el, g)
    BY <2>1 DEF Shown, Look, Source, FollowsRaw
  <2>4. CASE el = e
    <3>1. g = f /\ k = type[e]
      BY <1>1, <1>2, <1>4, <2>1, <2>2, <2>4
    <3>2. k # "file"
      BY <2>2 DEF Deaf
    <3> QED BY <1>5, <2>1, <2>3, <2>4, <3>1, <3>2
  <2>5. CASE el # e
    <3>1. d # c
      BY <1>1, <1>2, <2>1, <2>5
    <3>2. binding[d] = binding'[d] /\ Live(d) /\ d \notin B
      BY <1>4, <2>2, <3>1
    <3>3. el \in Inputs
      BY <2>1, <3>2, LiveBinding DEF ControlsInv
    <3>4. KeptUp(d) /\ Shown(d) = Look(k, el, g)
      BY <1>5, <2>1, <2>2, <2>5, <3>2, <3>3 DEF KeptUp, Shown
    <3>5. d \in due \/ text[el] = Look(k, el, g)
      BY <2>1, <3>2, <3>4 DEF ControlsInv, DifferenceIsDue
    <3> QED BY <1>5, <2>1, <2>3, <2>5, <3>2, <3>3, <3>5
  <2> QED BY <2>4, <2>5
<1> QED BY <1>6, <1>7, <1>8, <1>9, <1>10 DEF ControlsInv

LEMMA BindInv ==
    ASSUME NEW b \in Bindings, NEW f \in Fields, NEW e \in Inputs, ControlsInv,
           BindField(b, f, e) \/ VueMounted(b, f, e) \/ AngularBind(b, f, e)
    PROVE  ControlsInv'
<1>1. /\ binding[b].life = "none" /\ Mirrored(f, e)
      /\ binding' = [binding EXCEPT ![b] = Bound(f, e)] /\ UNCHANGED <<style, raw, value, type, due>>
      /\ \A c \in BindingsAt(e) : /\ binding[c].field = f /\ binding[c].kind = type[e]
                                  /\ style \in {"vanilla", "prototype"}
  BY DEF BindField, VueMounted, AngularBind
<1>2. Bound(f, e) \in Bonds
  BY BoundIs DEF ControlsInv
<1>3. /\ binding' \in [Bindings -> Bonds \cup {NoBinding}] /\ binding'[b] = Bound(f, e)
      /\ \A d \in Bindings \ {b} : binding'[d] = binding[d]
  BY <1>1, <1>2 DEF ControlsInv, ControlsTypeOK
<1>4. \A d \in Bindings : Live(d) /\ binding[d].el = e => d \in BindingsAt(e)
  BY DEF BindingsAt
<1>5. PICK B : B = {}
  OBVIOUS
<1>6. /\ B \in SUBSET Bindings /\ b \notin B /\ ~Live(b) /\ due' = due \ B
      /\ UNCHANGED <<style, raw, value, type>>
  BY <1>1, <1>5 DEF Live
<1>7. /\ \A d \in Bindings \ (B \cup {b}) : binding'[d] = binding[d]
      /\ \A d \in B : binding'[d].life # "live" /\ (binding'[d].life = "gone" => style = "vue")
      /\ \A d \in Bindings \ B : Live(d) /\ binding[d].el = e =>
            /\ binding[d].field = f /\ binding[d].kind = type[e]
            /\ style \in {"vanilla", "prototype"}
  BY <1>1, <1>3, <1>4, <1>5
<1> QED BY <1>1, <1>3, <1>6, <1>7, BindingAddedInv

LEMMA AccessorMadeInv ==
    ASSUME NEW b \in Bindings, NEW f \in Fields, NEW e \in Inputs, ControlsInv, AccessorMade(b, f, e)
    PROVE  ControlsInv'
<1> DEFINE x == Bound(f, e)
<1>1. /\ style = "accessor" /\ binding[b].life = "none" /\ BindingsAt(e) = {}
      /\ binding' = [binding EXCEPT ![b] = x]
      /\ PutRaw({f}, Everywhere(text[e])) /\ due' = due \cup Told
      /\ UNCHANGED <<style, text, type, unheard>>
  BY DEF AccessorMade
<1>2. Everywhere(text[e]) \in [Fields -> Texts] /\ Everywhere(text[e])[f] = text[e]
  BY DEF Everywhere, ControlsInv, ControlsTypeOK
<1>3. /\ raw' \in [Fields -> Texts] /\ value' \in [Fields -> Texts] /\ ValuesAgree'
      /\ raw'[f] = text[e] /\ (f \notin Parsed => value'[f] = text[e])
  <2> DEFINE F == {f}
             w == Everywhere(text[e])
  <2>1. /\ F \in SUBSET Fields /\ f \in F /\ w \in [Fields -> Texts] /\ w[f] = text[e]
        /\ PutRaw(F, w) /\ style' = style
    BY <1>1, <1>2
  <2> HIDE DEF F, w
  <2>2. /\ raw' \in [Fields -> Texts] /\ value' \in [Fields -> Texts] /\ ValuesAgree'
        /\ \A g \in Fields : raw'[g] = IF g \in F THEN w[g] ELSE raw[g]
        /\ \A g \in F \ Parsed : value'[g] = w[g]
    BY <2>1, PutRawKeeps
  <2> QED BY <2>1, <2>2
<1>4. /\ x \in Bonds /\ x.life = "live" /\ x.field = f /\ x.el = e /\ x.kind = type[e]
      /\ type[e] = "text"
  BY <1>1, BoundIs DEF ControlsInv, TypesOf
<1> HIDE DEF x
<1>5. /\ binding' \in [Bindings -> Bonds \cup {NoBinding}] /\ binding'[b] = x
      /\ \A d \in Bindings \ {b} : binding'[d] = binding[d]
  BY <1>1, <1>4 DEF ControlsInv, ControlsTypeOK
<1>6. \A d \in Bindings : Live(d)' <=> d = b \/ Live(d)
  BY <1>4, <1>5 DEF Live
<1>7. \A d \in Bindings : Live(d) => d # b /\ binding[d].el # e
  BY <1>1 DEF Live, BindingsAt
<1>8. ControlsTypeOK'
  <2>1. \A d \in Bindings : Live(d)' => binding'[d].kind \in TypesOf(style)
    BY <1>1, <1>4, <1>5, <1>6 DEF ControlsInv, ControlsTypeOK, TypesOf
  <2>2. \A d \in due' : d \in Bindings /\ Live(d)'
    BY <1>1, <1>6, ToldAreLive DEF ControlsInv, ControlsTypeOK
  <2> QED BY <1>1, <1>3, <1>5, <2>1, <2>2 DEF ControlsInv, ControlsTypeOK
<1>9. ControlsApart'
  BY <1>1, <1>4, <1>5, <1>6, <1>7 DEF ControlsInv, ControlsApart
<1>10. EarsOpen'
  BY <1>1, <1>4, <1>5, <1>6 DEF ControlsInv, EarsOpen
<1>11. DifferenceIsDue'
  <2> SUFFICES ASSUME NEW d \in Bindings, KeptUp(d)'
               PROVE  d \in due' \/ text'[binding'[d].el] = Shown(d)'
    BY DEF DifferenceIsDue
  <2>1. CASE d = b
    <3>1. Shown(d)' = Look("text", e, f)'
      BY <1>4, <1>5, <2>1 DEF Shown, Look, Source, FollowsRaw, Truth
    <3>2. Look("text", e, f)' = IF f \in Parsed THEN raw'[f] ELSE value'[f]
      BY <1>1 DEF Look, Source, FollowsRaw
    <3> QED BY <1>1, <1>3, <1>4, <1>5, <2>1, <3>1, <3>2
  <2>2. CASE d # b
    <3>1. PICK k, g, el : binding[d].kind = k /\ binding[d].field = g /\ binding[d].el = el
      OBVIOUS
    <3>2. binding'[d] = binding[d] /\ Live(d)
      BY <1>5, <1>6, <2>2 DEF KeptUp
    <3>3. ~binding[d].retyped /\ el \notin unheard /\ ~Deaf(k, g)
      BY <1>1, <3>1, <3>2 DEF KeptUp, Deaf
    <3>4. d \in due \/ text[el] = Look(k, el, g)
      BY <3>1, <3>2, <3>3 DEF ControlsInv, DifferenceIsDue, KeptUp, Shown
    <3>5. Shown(d)' = Look(k, el, g)'
      BY <3>1, <3>2 DEF Shown, Look, Source, FollowsRaw, Truth
    <3>6. d \in Told \/ Look(k, el, g)' = Look(k, el, g)
      BY <1>1, <3>1, <3>2, <3>3, UntoldSame
    <3> QED BY <1>1, <3>1, <3>2, <3>4, <3>5, <3>6
  <2> QED BY <2>1, <2>2
<1> QED BY <1>3, <1>8, <1>9, <1>10, <1>11 DEF ControlsInv

(* A binding that goes.                                                  *)
LEMMA SilencedIs ==
    ASSUME NEW b \in Bindings, ControlsTypeOK, Live(b), NEW y \in {Silenced(b), VueSilenced(b)}
    PROVE  /\ y \in Bonds \cup {NoBinding} /\ y.life # "live"
           /\ y.life = "gone" => y = VueSilenced(b)
<1>1. binding[b] \in Bonds
  BY LiveBinding
<1>2. Ghost(b) \in Bonds /\ Ghost(b).life = "gone" /\ NoBinding.life = "none"
  BY <1>1 DEF Ghost, Bonds, NoBinding
<1>3. y = NoBinding \/ (y = Ghost(b) /\ y = VueSilenced(b))
  BY DEF Silenced, VueSilenced
<1> QED BY <1>2, <1>3

LEMMA UnbindInv ==
    ASSUME NEW b \in Bindings, NEW y \in Bonds \cup {NoBinding}, ControlsInv, y.life # "live",
           y.life = "gone" => style = "vue", binding' = [binding EXCEPT ![b] = y], due' = due \ {b},
           UNCHANGED <<style, raw, value, text, type, unheard>>
    PROVE  ControlsInv'
<1>1. /\ binding' \in [Bindings -> Bonds \cup {NoBinding}] /\ binding'[b] = y
      /\ \A c \in Bindings \ {b} : binding'[c] = binding[c]
  BY DEF ControlsInv, ControlsTypeOK
<1>2. \A c \in Bindings : Live(c)' <=> c # b /\ Live(c)
  BY <1>1 DEF Live
<1>3. ControlsTypeOK'
  BY <1>1, <1>2 DEF ControlsInv, ControlsTypeOK
<1>4. ValuesAgree' /\ ControlsApart' /\ EarsOpen'
  BY <1>1, <1>2 DEF ControlsInv, ValuesAgree, ControlsApart, EarsOpen
<1>5. DifferenceIsDue'
  <2> SUFFICES ASSUME NEW d \in Bindings, KeptUp(d)'
               PROVE  d \in due' \/ text'[binding'[d].el] = Shown(d)'
    BY DEF DifferenceIsDue
  <2>1. d # b /\ Live(d) /\ binding'[d] = binding[d]
    BY <1>1, <1>2 DEF KeptUp
  <2>2. KeptUp(d) /\ Shown(d)' = Shown(d)
    BY <2>1 DEF KeptUp, Deaf, Shown, Look, Source, FollowsRaw, Truth
  <2> QED BY <2>1, <2>2 DEF ControlsInv, DifferenceIsDue
<1> QED BY <1>3, <1>4, <1>5 DEF ControlsInv

LEMMA GoInv ==
    ASSUME NEW b \in Bindings, ControlsInv, DisposeBinding(b) \/ VueUnmounted(b) \/ AngularUnbind(b)
    PROVE  ControlsInv'
<1>1. /\ Live(b) /\ due' = due \ {b} /\ UNCHANGED <<style, raw, value, text, type, unheard>>
      /\ \/ binding' = [binding EXCEPT ![b] = Silenced(b)]
         \/ binding' = [binding EXCEPT ![b] = VueSilenced(b)] /\ style = "vue"
  BY DEF DisposeBinding, VueUnmounted, AngularUnbind
<1>2. CASE binding' = [binding EXCEPT ![b] = Silenced(b)]
  <2>1. Silenced(b) \in Bonds \cup {NoBinding} /\ Silenced(b).life = "none"
    BY DEF Silenced, NoBinding
  <2> QED BY <1>1, <1>2, <2>1, UnbindInv
<1>3. CASE binding' = [binding EXCEPT ![b] = VueSilenced(b)] /\ style = "vue"
  <2>1. VueSilenced(b) \in Bonds \cup {NoBinding} /\ VueSilenced(b).life # "live"
    BY <1>1, SilencedIs DEF ControlsInv
  <2> QED BY <1>1, <1>3, <2>1, UnbindInv
<1> QED BY <1>1, <1>2, <1>3

LEMMA RebindInv ==
    ASSUME NEW b \in Bindings, NEW c \in Bindings, NEW f \in Fields, ControlsInv, Rebind(b, c, f)
    PROVE  ControlsInv'
<1> DEFINE y == IF style = "vue" THEN VueSilenced(b) ELSE Silenced(b)
<1>1. PICK e : e = binding[b].el
  OBVIOUS
<1>2. /\ Live(b) /\ binding[c].life = "none" /\ b # c /\ style \in {"vue", "angular"}
      /\ binding' = [binding EXCEPT ![b] = y, ![c] = Bound(f, e)] /\ Mirrored(f, e)
      /\ due' = due \ {b} /\ UNCHANGED <<style, raw, value, type>>
  BY <1>1 DEF Rebind, Live
<1>3. /\ y \in Bonds \cup {NoBinding} /\ y.life # "live" /\ (y.life = "gone" => style = "vue")
  <2>1. CASE style = "vue"
    BY <1>2, <2>1, SilencedIs DEF ControlsInv
  <2>2. CASE style # "vue"
    BY <2>2 DEF Silenced, NoBinding
  <2> QED BY <2>1, <2>2
<1>4. e \in Inputs
  BY <1>1, <1>2, LiveBinding DEF ControlsInv
<1>5. \A d \in Bindings \ {b} : Live(d) => binding[d].el # e
  BY <1>1, <1>2 DEF ControlsInv, ControlsApart
<1>6. Bound(f, e) \in Bonds
  BY <1>4, BoundIs DEF ControlsInv
<1> HIDE DEF y
<1>7. /\ binding' \in [Bindings -> Bonds \cup {NoBinding}] /\ binding'[b] = y
      /\ binding'[c] = Bound(f, e)
      /\ \A d \in Bindings \ {b, c} : binding'[d] = binding[d]
  BY <1>2, <1>3, <1>6 DEF ControlsInv, ControlsTypeOK
<1>8. ~Live(c)
  BY <1>2 DEF Live
<1>9. PICK B : B = {b}
  OBVIOUS
<1> QED BY <1>2, <1>3, <1>4, <1>5, <1>7, <1>8, <1>9, BindingAddedInv

LEMMA NotifyInv == ASSUME NEW b \in Bindings, ControlsInv, Notify(b) PROVE ControlsInv'
<1>1. PICK k, f, e : binding[b].kind = k /\ binding[b].field = f /\ binding[b].el = e
  OBVIOUS
<1>2. /\ b \in due /\ due' = due \ {b} /\ text' = [text EXCEPT ![e] = Look(k, e, f)]
      /\ unheard' = unheard \ {e} /\ UNCHANGED <<style, raw, value, type, binding>>
  BY <1>1 DEF Notify
<1>3. Live(b) /\ f \in Fields /\ e \in Inputs
  BY <1>1, <1>2, LiveBinding DEF ControlsInv, ControlsTypeOK
<1>4. Look(k, e, f) \in Texts
  BY <1>3, LookIsText DEF ControlsInv
<1>5. text' \in [Inputs -> Texts] /\ text'[e] = Look(k, e, f)
      /\ \A d \in Inputs \ {e} : text'[d] = text[d]
  BY <1>2, <1>3, <1>4 DEF ControlsInv, ControlsTypeOK
<1>6. ASSUME NEW c \in Bindings, KeptUp(c)'
      PROVE  c \in due' \/ text'[binding[c].el] = Shown(c)'
  <2>1. Live(c) /\ ~binding[c].retyped /\ ~Deaf(binding[c].kind, binding[c].field)
        /\ binding[c].el \notin unheard'
    BY <1>2, <1>6 DEF KeptUp, Live, Deaf
  <2>2. Shown(c)' = Shown(c)
    BY <1>2 DEF Shown, Look, Source, FollowsRaw, Truth
  <2>3. CASE binding[c].el = e
    <3>1. binding[c].field = f /\ binding[c].kind = k
      BY <1>1, <1>3, <2>1, <2>3 DEF ControlsInv, ControlsApart
    <3> QED BY <1>5, <2>2, <2>3, <3>1 DEF Shown
  <2>4. CASE binding[c].el # e
    <3>1. KeptUp(c) /\ binding[c].el \in Inputs /\ c # b
      BY <1>1, <1>2, <2>1, <2>4, LiveBinding DEF KeptUp, ControlsInv
    <3> QED BY <1>2, <1>5, <2>2, <2>4, <3>1 DEF ControlsInv, DifferenceIsDue
  <2> QED BY <2>3, <2>4
<1>7. ValuesAgree' /\ unheard' \subseteq Inputs /\ raw' \in [Fields -> Texts] /\ value' \in [Fields -> Texts]
  BY <1>2 DEF ControlsInv, ControlsTypeOK, ValuesAgree
<1> QED BY <1>2, <1>5, <1>6, <1>7, FieldsStepInv

(* A live binding of a control hears what its control fires.             *)
LEMMA LiveHears ==
    ASSUME NEW b \in Bindings, ControlsInv, Live(b), ~binding[b].retyped, style # "accessor"
    PROVE  b \in Hearing(binding[b].el) /\ type[binding[b].el] = binding[b].kind
<1>1. /\ binding[b].ear = {CommitEvent(type[binding[b].el])} /\ binding[b].life = "live"
      /\ type[binding[b].el] = binding[b].kind
  BY DEF ControlsInv, EarsOpen, Live
<1>2. CommitEvent(type[binding[b].el]) \in EventsOf(type[binding[b].el])
  BY DEF CommitEvent, EventsOf
<1> QED BY <1>1, <1>2 DEF Hearing

(* Only the Vue directive leaves a listener behind.                      *)
LEMMA HeardAreLive ==
    ASSUME NEW e \in Inputs, NEW b \in Hearing(e), ControlsInv, style # "vue"
    PROVE  b \in Bindings /\ Live(b) /\ binding[b].el = e
<1>1. b \in Bindings /\ binding[b].life # "none" /\ binding[b].el = e
  BY DEF Hearing
<1>2. binding[b].life \in {"live", "gone"}
  BY <1>1 DEF ControlsInv, ControlsTypeOK, Bonds, NoBinding
<1> QED BY <1>1, <1>2 DEF ControlsInv, EarsOpen, Live

LEMMA WrittenAreFields ==
    ASSUME NEW e \in Inputs, ControlsInv PROVE Written(e) \subseteq Fields
<1>1. \A b \in Hearing(e) : b \in Bindings /\ binding[b].life # "none"
  BY DEF Hearing
<1>2. \A b \in Hearing(e) : binding[b].field \in Fields
  BY <1>1 DEF ControlsInv, ControlsTypeOK, Bonds, NoBinding
<1> QED BY <1>2 DEF Written

(* What a handler commits goes to the fields that heard it.              *)
LEMMA CommittedKeeps ==
    ASSUME NEW e \in Inputs, NEW w \in [Fields -> Texts], ControlsInv, Committed(e, w), style' = style
    PROVE  /\ raw' \in [Fields -> Texts] /\ value' \in [Fields -> Texts] /\ ValuesAgree'
           /\ \A f \in Fields : raw'[f] # raw[f] \/ value'[f] # value[f] => f \in Written(e)
<1>1. Written(e) \subseteq Fields
  BY WrittenAreFields
<1>2. PICK F \in SUBSET Written(e) : PutRaw(F, w) \/ PutValue(F, w)
  BY DEF Committed
<1>3. F \in SUBSET Fields
  BY <1>1
<1> QED BY <1>2, <1>3, PutRawKeeps, PutValueKeeps

(* A field a live binding commits to holds what its control shows.       *)
LEMMA CommittedShows ==
    ASSUME NEW e \in Inputs, NEW v \in Entries(type[e]), NEW w \in Readings(e, v),
           NEW c \in Bindings, NEW k, NEW f, ControlsInv, Committed(e, w), style' = style,
           style # "accessor", Live(c), ~binding[c].retyped, ~Deaf(k, f), ~TakenForKnown(e, v),
           binding[c].el = e, binding[c].kind = k, binding[c].field = f
    PROVE  Look(k, e, f)' = v
<1>1. c \in Hearing(e) /\ type[e] = k
  BY LiveHears
<1>2. f \in Written(e) /\ f \notin Misread(e)
  BY <1>1 DEF Written, Misread
<1>3. f \in Fields /\ w \in [Fields -> Texts] /\ w[f] = IF k = "radio" THEN Choice[e] ELSE v
  BY <1>1, <1>2, WrittenAreFields DEF Readings
<1>4. Written(e) \subseteq Fields
  BY WrittenAreFields
<1>5. k \in TypesOf(style) /\ style \in Styles
  BY DEF ControlsInv, ControlsTypeOK
<1>6. style # "vue" => \A b \in Hearing(e) : binding[b].kind = k
  BY HeardAreLive DEF ControlsInv, ControlsApart
<1>7. FollowsRaw(k, f)' <=> FollowsRaw(k, f)
  BY DEF FollowsRaw
<1>8. Valued(e) <=> (style = "vanilla" /\ k # "text") \/ (style = "prototype" /\ k = "checkbox")
  BY <1>1, <1>6 DEF Valued
<1>9. CASE Valued(e)
  <2> DEFINE F == {g \in Written(e) :
                     ~\E b \in Hearing(e) : binding[b].kind = "checkbox" /\ Truth(value[g]) = w[g]}
  <2>1. PutValue(F, w) /\ F \in SUBSET Fields
    BY <1>4, <1>9 DEF Committed
  <2>2. value'[f] = IF f \in F THEN w[f] ELSE value[f]
    <3> HIDE DEF F
    <3>1. \A g \in Fields : value'[g] = IF g \in F THEN w[g] ELSE value[g]
      BY <1>3, <2>1, PutValueKeeps
    <3> QED BY <1>3, <3>1
  <2>3. CASE k = "checkbox"
    <3>1. v \in {Blank, Ticked} /\ w[f] = v
      BY <1>1, <1>3, <2>3 DEF Entries
    <3>2. Look(k, e, f)' = Truth(value'[f])
      BY <1>8, <1>9, <2>3 DEF Look, Source, FollowsRaw, Truth
    <3>3. CASE f \in F
      BY <2>2, <3>1, <3>2, <3>3 DEF Truth
    <3>4. CASE f \notin F
      <4>1. Truth(value[f]) = v
        BY <1>2, <3>1, <3>4
      <4> QED BY <2>2, <3>2, <3>4, <4>1
    <3> QED BY <3>3, <3>4
  <2>4. CASE k # "checkbox"
    <3>1. style = "vanilla" /\ k \in {"radio", "select-one"}
      BY <1>5, <1>8, <1>9, <2>4 DEF TypesOf, Deaf
    <3>2. f \in F
      BY <1>2, <1>6, <2>4, <3>1
    <3>3. value'[f] = w[f]
      BY <2>2, <3>2
    <3>4. ~FollowsRaw(k, f)
      BY <3>1 DEF FollowsRaw, Deaf
    <3>5. Source(k, f)' = value'[f]
      BY <1>7, <3>4 DEF Source
    <3>6. CASE k = "radio"
      BY <1>1, <1>3, <3>3, <3>5, <3>6 DEF Entries, Look
    <3>7. CASE k = "select-one"
      BY <1>3, <3>3, <3>5, <3>7 DEF Look
    <3> QED BY <3>1, <3>6, <3>7
  <2> QED BY <2>3, <2>4
<1>10. CASE ~Valued(e)
  <2>1. PICK F : F = {g \in Written(e) : style \in {"vue", "angular"} \/ raw[g] # w[g]}
    OBVIOUS
  <2>2. k # "radio" /\ w[f] = v
    BY <1>3, <1>5, <1>8, <1>10 DEF TypesOf, Styles
  <2>3. /\ raw'[f] = IF f \in F THEN v ELSE raw[f]
        /\ f \notin F => value'[f] = value[f]
        /\ f \in F \ Parsed => value'[f] = v
    <3>1. PutRaw(F, w) /\ F \in SUBSET Fields
      BY <1>4, <1>10, <2>1 DEF Committed
    <3>2. /\ \A g \in Fields : raw'[g] = IF g \in F THEN w[g] ELSE raw[g]
          /\ \A g \in Fields : g \notin F => value'[g] = value[g]
          /\ \A g \in F \ Parsed : value'[g] = w[g]
      BY <1>3, <3>1, PutRawKeeps
    <3> QED BY <1>3, <2>2, <3>2
  <2>4. raw'[f] = v /\ (f \notin Parsed => value'[f] = v)
    <3>1. CASE f \in F
      BY <2>3, <3>1
    <3>2. CASE f \notin F
      <4>1. raw[f] = v /\ style \notin {"vue", "angular"}
        BY <1>2, <2>1, <2>2, <3>2
      <4>2. style = "prototype" /\ f \notin Parsed => value[f] = v
        BY <1>2, <1>10, <4>1 DEF TakenForKnown
      <4>3. style # "prototype" /\ f \notin Parsed => value[f] = v
        BY <1>3, <4>1 DEF ControlsInv, ValuesAgree
      <4> QED BY <2>3, <3>2, <4>1, <4>2, <4>3
    <3> QED BY <3>1, <3>2
  <2>5. CASE FollowsRaw(k, f)
    <3>1. Source(k, f)' = v
      BY <1>7, <2>4, <2>5 DEF Source
    <3>2. k = "checkbox" => Truth(v) = v
      BY <1>1 DEF Entries, Truth
    <3> QED BY <2>2, <3>1, <3>2 DEF Look, Truth
  <2>6. CASE ~FollowsRaw(k, f)
    <3>1. f \notin Parsed
      BY <1>5, <1>8, <1>10, <2>6 DEF FollowsRaw, TypesOf, Styles
    <3>2. Source(k, f)' = v
      BY <1>7, <2>4, <2>6, <3>1 DEF Source
    <3>3. k = "checkbox" => Truth(v) = v
      BY <1>1 DEF Entries, Truth
    <3> QED BY <2>2, <3>2, <3>3 DEF Look, Truth
  <2> QED BY <2>5, <2>6
<1> QED BY <1>9, <1>10

LEMMA EntriesAreTexts == ASSUME NEW t PROVE Entries(t) \subseteq Texts
BY ControlsAssumption DEF Entries

LEMMA InputInv ==
    ASSUME NEW e \in Inputs, NEW v \in Texts, ControlsInv, Input(e, v) PROVE ControlsInv'
<1>1. /\ style # "accessor" /\ v \in Entries(type[e]) /\ text' = [text EXCEPT ![e] = v]
      /\ unheard' = IF TakenForKnown(e, v) THEN unheard \cup {e} ELSE unheard \ {e}
      /\ due' = due \cup Told /\ UNCHANGED <<style, type, binding>>
  BY DEF Input
<1>2. PICK w \in Readings(e, v) : Committed(e, w)
  BY DEF Input
<1>3. w \in [Fields -> Texts]
  BY DEF Readings
<1>4. raw' \in [Fields -> Texts] /\ value' \in [Fields -> Texts] /\ ValuesAgree'
  BY <1>1, <1>2, <1>3, CommittedKeeps
<1>5. /\ text' \in [Inputs -> Texts] /\ unheard' \subseteq Inputs /\ text'[e] = v
      /\ \A d \in Inputs \ {e} : text'[d] = text[d] /\ (d \in unheard' <=> d \in unheard)
  BY <1>1 DEF ControlsInv, ControlsTypeOK
<1>6. ASSUME NEW c \in Bindings, KeptUp(c)'
      PROVE  c \in due' \/ text'[binding[c].el] = Shown(c)'
  <2>1. PICK k, f, el : binding[c].kind = k /\ binding[c].field = f /\ binding[c].el = el
    OBVIOUS
  <2>2. Live(c) /\ ~binding[c].retyped /\ el \notin unheard' /\ ~Deaf(k, f) /\ el \in Inputs
    <3>1. Live(c) /\ ~binding[c].retyped /\ el \notin unheard' /\ ~Deaf(k, f)
      BY <1>1, <1>6, <2>1 DEF KeptUp, Live, Deaf
    <3> QED BY <2>1, <3>1, LiveBinding DEF ControlsInv
  <2>3. CASE el = e
    <3>1. ~TakenForKnown(e, v)
      BY <1>1, <2>2, <2>3
    <3>2. Look(k, e, f)' = v
      BY <1>1, <1>2, <2>1, <2>2, <2>3, <3>1, CommittedShows
    <3>3. Shown(c)' = Look(k, e, f)'
      BY <1>1, <2>1, <2>3 DEF Shown, Look, Source, FollowsRaw, Truth
    <3> QED BY <1>5, <2>1, <2>3, <3>2, <3>3
  <2>4. CASE el # e
    <3>1. KeptUp(c)
      BY <1>5, <2>1, <2>2, <2>4 DEF KeptUp
    <3> QED BY <1>1, <1>5, <2>1, <2>2, <2>4, <3>1, UntouchedIsShown
  <2> QED BY <2>3, <2>4
<1> QED BY <1>1, <1>4, <1>5, <1>6, FieldsStepInv

LEMMA ComposingInputInv ==
    ASSUME NEW e \in Inputs, NEW v \in Texts, ControlsInv, ComposingInput(e, v) PROVE ControlsInv'
<1>1. /\ unheard' = unheard \cup {e} /\ text' = [text EXCEPT ![e] = v]
      /\ UNCHANGED <<style, raw, value, type, binding, due>>
  BY DEF ComposingInput
<1>2. text' \in [Inputs -> Texts] /\ unheard' \subseteq Inputs /\ ValuesAgree'
      /\ \A d \in Inputs \ {e} : text'[d] = text[d]
  BY <1>1 DEF ControlsInv, ControlsTypeOK, ValuesAgree
<1>3. ASSUME NEW c \in Bindings, KeptUp(c)'
      PROVE  c \in due' \/ text'[binding[c].el] = Shown(c)'
  <2>1. KeptUp(c) /\ binding[c].el # e /\ Shown(c)' = Shown(c)
    BY <1>1, <1>3 DEF KeptUp, Live, Deaf, Shown, Look, Source, FollowsRaw, Truth
  <2>2. binding[c].el \in Inputs
    BY <2>1, LiveBinding DEF ControlsInv, KeptUp
  <2> QED BY <1>1, <1>2, <2>1, <2>2 DEF ControlsInv, DifferenceIsDue
<1> QED BY <1>1, <1>2, <1>3, FieldsStepInv DEF ControlsInv, ControlsTypeOK

LEMMA WriteValueInv ==
    ASSUME NEW b \in Bindings, NEW v \in Texts, ControlsInv, WriteValue(b, v) PROVE ControlsInv'
<1>1. PICK f, e : binding[b].field = f /\ binding[b].el = e
  OBVIOUS
<1>2. /\ style = "accessor" /\ Live(b) /\ text' = [text EXCEPT ![e] = v]
      /\ PutRaw({f}, Everywhere(v)) /\ UNCHANGED <<style, type, unheard, binding>>
      /\ \E itself \in {{}, {b}} :
           due' = IF raw[f] = v THEN due ELSE (due \ {b}) \cup (Told \ {b}) \cup itself
  BY <1>1 DEF WriteValue
<1>3. f \in Fields /\ e \in Inputs /\ binding[b].kind = "text"
  BY <1>1, <1>2, LiveBinding DEF ControlsInv, ControlsTypeOK, TypesOf
<1>4. Everywhere(v) \in [Fields -> Texts] /\ Everywhere(v)[f] = v
  BY <1>3 DEF Everywhere
<1>5. /\ raw' \in [Fields -> Texts] /\ value' \in [Fields -> Texts] /\ ValuesAgree'
      /\ raw'[f] = v /\ (f \notin Parsed => value'[f] = v)
      /\ \A g \in Fields \ {f} : raw'[g] = raw[g] /\ value'[g] = value[g]
  <2> DEFINE F == {f}
             w == Everywhere(v)
  <2>1. F \in SUBSET Fields /\ w \in [Fields -> Texts] /\ w[f] = v /\ PutRaw(F, w) /\ style' = style
    BY <1>2, <1>3, <1>4
  <2>2. f \in F /\ \A g \in Fields \ {f} : g \notin F
    OBVIOUS
  <2> HIDE DEF F, w
  <2>3. /\ raw' \in [Fields -> Texts] /\ value' \in [Fields -> Texts] /\ ValuesAgree'
        /\ \A g \in Fields : raw'[g] = IF g \in F THEN w[g] ELSE raw[g]
        /\ \A g \in Fields : g \notin F => value'[g] = value[g]
        /\ \A g \in F \ Parsed : value'[g] = w[g]
    BY <2>1, PutRawKeeps
  <2> QED BY <1>3, <2>1, <2>2, <2>3
<1>6. /\ text' \in [Inputs -> Texts] /\ text'[e] = v /\ \A d \in Inputs \ {e} : text'[d] = text[d]
      /\ unheard' \subseteq Inputs
  BY <1>2, <1>3 DEF ControlsInv, ControlsTypeOK
<1>7. \A d \in due' : d \in due \/ d \in Told \/ (d \in Bindings /\ Live(d))
  BY <1>2
<1>8. ASSUME NEW c \in Bindings, KeptUp(c)'
      PROVE  c \in due' \/ text'[binding[c].el] = Shown(c)'
  <2>1. KeptUp(c) /\ binding[c].el \in Inputs /\ binding[c].field \in Fields /\ Live(c)
    <3>1. KeptUp(c)
      BY <1>2, <1>8 DEF KeptUp, Live, Deaf
    <3> QED BY <3>1, LiveBinding DEF KeptUp, ControlsInv
  <2>2. CASE c = b
    <3>1. Shown(c)' = Look("text", e, f)'
      BY <1>1, <1>2, <1>3, <2>2 DEF Shown, Look, Source, FollowsRaw, Truth
    <3>2. Look("text", e, f)' = IF f \in Parsed THEN raw'[f] ELSE value'[f]
      BY <1>2 DEF Look, Source, FollowsRaw
    <3> QED BY <1>1, <1>5, <1>6, <2>2, <3>1, <3>2
  <2>3. CASE c # b
    <3>1. text'[binding[c].el] = text[binding[c].el]
      BY <1>1, <1>2, <1>6, <2>1, <2>3 DEF ControlsInv, ControlsApart
    <3>2. CASE raw[f] # v
      BY <1>2, <2>1, <2>3, <3>1, <3>2, UntouchedIsShown
    <3>3. CASE raw[f] = v
      <4>1. due' = due
        BY <1>2, <3>3
      <4>2. \A g \in Fields : raw'[g] = raw[g] /\ (g \notin Parsed => value'[g] = value[g])
        BY <1>2, <1>5, <3>3 DEF ControlsInv, ValuesAgree
      <4>3. Source(binding[c].kind, binding[c].field)' = Source(binding[c].kind, binding[c].field)
        <5>1. binding[c].kind = "text"
          BY <1>2, <2>1 DEF ControlsInv, ControlsTypeOK, TypesOf
        <5> QED BY <1>2, <2>1, <4>2, <5>1 DEF Source, FollowsRaw
      <4>4. Shown(c)' = Shown(c)
        BY <1>2, <4>3 DEF Shown, Look, Truth
      <4> QED BY <2>1, <3>1, <4>1, <4>4 DEF ControlsInv, DifferenceIsDue
    <3> QED BY <3>2, <3>3
  <2> QED BY <2>2, <2>3
<1> QED BY <1>2, <1>5, <1>6, <1>7, <1>8, FieldsStepInv

LEMMA RetypeInv ==
    ASSUME NEW e \in Inputs, NEW t, ControlsInv, Retype(e, t) PROVE ControlsInv'
<1>1. /\ t \in TypesOf(style) /\ type' = [type EXCEPT ![e] = t]
      /\ binding' = [b \in Bindings |-> IF b \in BindingsAt(e)
                        THEN [binding[b] EXCEPT !.retyped = TRUE] ELSE binding[b]]
      /\ UNCHANGED <<style, raw, value, text, unheard, due>>
  BY DEF Retype
<1>2. \A b \in Bindings : b \in BindingsAt(e) <=> Live(b) /\ binding[b].el = e
  BY DEF BindingsAt
<1>3. /\ binding' \in [Bindings -> Bonds \cup {NoBinding}]
      /\ \A b \in Bindings :
            /\ ~(Live(b) /\ binding[b].el = e) => binding'[b] = binding[b]
            /\ Live(b) /\ binding[b].el = e =>
                binding'[b] \in Bonds /\ binding'[b].retyped /\ binding'[b].life = "live"
                /\ binding'[b].field = binding[b].field /\ binding'[b].el = e
                /\ binding'[b].kind = binding[b].kind
  <2>1. \A b \in Bindings : Live(b) => binding[b] \in Bonds
    BY LiveBinding DEF ControlsInv
  <2>2. \A b \in Bindings : Live(b) => LET y == [binding[b] EXCEPT !.retyped = TRUE] IN
            y \in Bonds /\ y.retyped /\ y.life = "live" /\ y.field = binding[b].field
            /\ y.el = binding[b].el /\ y.kind = binding[b].kind
    BY <2>1 DEF Bonds, Live
  <2> QED BY <1>1, <1>2, <2>2 DEF ControlsInv, ControlsTypeOK
<1>4. \A b \in Bindings : Live(b)' <=> Live(b)
  BY <1>3 DEF Live
<1>5. ControlsTypeOK'
  <2>1. type' \in [Inputs -> TypesOf(style)]
    BY <1>1 DEF ControlsInv, ControlsTypeOK
  <2>2. \A b \in Bindings : Live(b)' => binding'[b].kind \in TypesOf(style)
    BY <1>3, <1>4 DEF ControlsInv, ControlsTypeOK
  <2> QED BY <1>1, <1>3, <1>4, <2>1, <2>2 DEF ControlsInv, ControlsTypeOK
<1>6. ControlsApart' /\ ValuesAgree'
  BY <1>1, <1>3, <1>4 DEF ControlsInv, ControlsApart, ValuesAgree
<1>7. EarsOpen'
  <2> SUFFICES ASSUME NEW b \in Bindings
               PROVE  /\ Live(b)' /\ ~binding'[b].retyped =>
                          /\ type'[binding'[b].el] = binding'[b].kind
                          /\ style # "accessor" => binding'[b].ear = {CommitEvent(binding'[b].kind)}
                      /\ binding'[b].life = "gone" => style = "vue"
    BY <1>1 DEF EarsOpen, CommitEvent
  <2>1. CASE Live(b) /\ binding[b].el = e
    BY <1>3, <2>1
  <2>2. CASE Live(b) /\ binding[b].el # e
    <3>1. type'[binding[b].el] = type[binding[b].el]
      BY <1>1, <2>2, LiveBinding DEF ControlsInv, ControlsTypeOK
    <3> QED BY <1>1, <1>3, <2>2, <3>1 DEF ControlsInv, EarsOpen, Live
  <2>3. CASE ~Live(b)
    BY <1>1, <1>3, <1>4, <2>3 DEF ControlsInv, EarsOpen
  <2> QED BY <2>1, <2>2, <2>3
<1>8. DifferenceIsDue'
  <2> SUFFICES ASSUME NEW d \in Bindings, KeptUp(d)'
               PROVE  d \in due' \/ text'[binding'[d].el] = Shown(d)'
    BY DEF DifferenceIsDue
  <2>1. Live(d) /\ binding'[d] = binding[d]
    BY <1>3, <1>4 DEF KeptUp
  <2>2. KeptUp(d) /\ Shown(d)' = Shown(d)
    BY <1>1, <2>1 DEF KeptUp, Deaf, Shown, Look, Source, FollowsRaw, Truth
  <2> QED BY <1>1, <2>1, <2>2 DEF ControlsInv, DifferenceIsDue
<1> QED BY <1>5, <1>6, <1>7, <1>8 DEF ControlsInv

LEMMA ControlsNextInv == ControlsInv /\ [ControlsNext]_cvars => ControlsInv'
<1> SUFFICES ASSUME ControlsInv, [ControlsNext]_cvars PROVE ControlsInv'
  OBVIOUS
<1>1. CASE UNCHANGED cvars
  <2>1. ASSUME NEW b PROVE (KeptUp(b)' <=> KeptUp(b)) /\ Shown(b)' = Shown(b)
    BY <1>1 DEF cvars, KeptUp, Live, Deaf, Shown, Look, Source, FollowsRaw, Truth
  <2> QED
    BY <1>1, <2>1 DEF cvars, ControlsInv, ControlsTypeOK, ValuesAgree, ControlsApart, EarsOpen,
                      DifferenceIsDue, Live
<1>2. ASSUME NEW b \in Bindings, NEW f \in Fields, NEW e \in Inputs,
             BindField(b, f, e) \/ VueMounted(b, f, e) \/ AngularBind(b, f, e) \/ AccessorMade(b, f, e)
      PROVE  ControlsInv'
  BY <1>2, BindInv, AccessorMadeInv
<1>3. ASSUME NEW b \in Bindings,
             DisposeBinding(b) \/ VueUnmounted(b) \/ AngularUnbind(b) \/ Notify(b)
      PROVE  ControlsInv'
  BY <1>3, GoInv, NotifyInv
<1>4. ASSUME NEW b \in Bindings, NEW c \in Bindings, NEW f \in Fields, Rebind(b, c, f)
      PROVE  ControlsInv'
  BY <1>4, RebindInv
<1>5. ASSUME NEW f \in Fields, NEW v \in Texts, SetRawValue(f, v) \/ SetValue(f, v)
      PROVE  ControlsInv'
  BY <1>5, WriteFieldInv
<1>6. ASSUME NEW e \in Inputs, NEW v \in Texts, Input(e, v) \/ ComposingInput(e, v)
      PROVE  ControlsInv'
  BY <1>6, InputInv, ComposingInputInv
<1>7. ASSUME NEW e \in Inputs, NEW t \in TypesOf(style), Retype(e, t) PROVE ControlsInv'
  BY <1>7, RetypeInv
<1>8. ASSUME NEW b \in Bindings, NEW v \in Texts, WriteValue(b, v) PROVE ControlsInv'
  BY <1>8, WriteValueInv
<1> QED
  BY <1>1, <1>2, <1>3, <1>4, <1>5, <1>6, <1>7, <1>8 DEF ControlsNext

LEMMA ControlsInvariance == ControlsSpec => []ControlsInv
BY ControlsInitInv, ControlsNextInv, PTL DEF ControlsSpec

(* What a step writes into a field comes from a control the user acted on. *)
GhostFree ==
    ActedOn # {} /\ style # "vue"
       => \A f \in Fields : raw'[f] # raw[f] \/ value'[f] # value[f]
            => \E e \in ActedOn, b \in BindingsOf(f) : binding[b].el = e

LEMMA NothingWritten == ASSUME raw' = raw, value' = value PROVE GhostFree
BY DEF GhostFree

LEMMA NothingActedOn == ASSUME text' = text, unheard' = unheard PROVE GhostFree
BY DEF GhostFree, ActedOn

LEMMA StepIsGhostFree == ControlsInv /\ ControlsNext => GhostFree
<1> SUFFICES ASSUME ControlsInv, ControlsNext PROVE GhostFree
  OBVIOUS
<1>1. ASSUME NEW b \in Bindings, NEW f \in Fields, NEW e \in Inputs,
             BindField(b, f, e) \/ VueMounted(b, f, e) \/ AngularBind(b, f, e) \/ AccessorMade(b, f, e)
      PROVE  GhostFree
  BY <1>1, NothingActedOn, NothingWritten DEF BindField, VueMounted, AngularBind, AccessorMade
<1>2. ASSUME NEW b \in Bindings,
             DisposeBinding(b) \/ VueUnmounted(b) \/ AngularUnbind(b) \/ Notify(b)
      PROVE  GhostFree
  BY <1>2, NothingWritten DEF DisposeBinding, VueUnmounted, AngularUnbind, Notify
<1>3. ASSUME NEW b \in Bindings, NEW c \in Bindings, NEW f \in Fields, Rebind(b, c, f)
      PROVE  GhostFree
  BY <1>3, NothingWritten DEF Rebind
<1>4. ASSUME NEW f \in Fields, NEW v \in Texts, SetRawValue(f, v) \/ SetValue(f, v) PROVE GhostFree
  BY <1>4, NothingActedOn DEF SetRawValue, SetValue
<1>5. ASSUME NEW e \in Inputs, NEW v \in Texts, Input(e, v) PROVE GhostFree
  <2> SUFFICES ASSUME style # "vue", NEW d \in ActedOn, NEW f \in Fields,
                      raw'[f] # raw[f] \/ value'[f] # value[f]
               PROVE  \E a \in ActedOn, b \in BindingsOf(f) : binding[b].el = a
    BY DEF GhostFree
  <2>1. PICK w \in [Fields -> Texts] : Committed(e, w) /\ style' = style
    BY <1>5 DEF Input, Readings
  <2>2. f \in Written(e)
    BY <2>1, CommittedKeeps
  <2>3. d = e
    BY <1>5 DEF Input, ActedOn, ControlsInv, ControlsTypeOK
  <2>4. PICK b \in Hearing(e) : binding[b].field = f
    BY <2>2 DEF Written
  <2>5. b \in BindingsOf(f) /\ binding[b].el = e
    BY <2>4, HeardAreLive DEF BindingsOf
  <2> QED BY <2>3, <2>5
<1>6. ASSUME NEW e \in Inputs, NEW v \in Texts, ComposingInput(e, v) PROVE GhostFree
  BY <1>6, NothingWritten DEF ComposingInput
<1>7. ASSUME NEW e \in Inputs, NEW t \in TypesOf(style), Retype(e, t) PROVE GhostFree
  BY <1>7, NothingWritten DEF Retype
<1>8. ASSUME NEW b \in Bindings, NEW v \in Texts, WriteValue(b, v) PROVE GhostFree
  <2> SUFFICES ASSUME NEW f \in Fields, raw'[f] # raw[f] \/ value'[f] # value[f]
               PROVE  \E d \in ActedOn, c \in BindingsOf(f) : binding[c].el = d
    BY DEF GhostFree
  <2>1. Live(b) /\ binding[b].el \in Inputs /\ binding[b].field \in Fields
    BY <1>8, LiveBinding DEF WriteValue, ControlsInv
  <2>2. PutRaw({binding[b].field}, Everywhere(v)) /\ style' = style
    BY <1>8 DEF WriteValue
  <2>3. f = binding[b].field
    BY <2>2 DEF PutRaw
  <2>4. b \in BindingsOf(f)
    BY <2>1, <2>3 DEF BindingsOf
  <2>5. text'[binding[b].el] # text[binding[b].el]
    BY <1>8, <2>1 DEF WriteValue, ControlsInv, ControlsTypeOK
  <2>6. binding[b].el \in ActedOn
    BY <2>1, <2>5 DEF ActedOn
  <2> QED BY <2>4, <2>6
<1> QED
  BY <1>1, <1>2, <1>3, <1>4, <1>5, <1>6, <1>7, <1>8 DEF ControlsNext

(* When all has been told every control shows its field, and what the user *)
(* puts into a control reaches the fields bound to it and no other.        *)
THEOREM ControlsAreAlwaysSound == ControlsSpec => ControlsAreSound
<1>1. ControlsInv => ControlsShowTheirField
  BY DEF ControlsInv, DifferenceIsDue, KeptUp, Shown, ControlsShowTheirField
<1>2. ControlsInv /\ [ControlsNext]_cvars =>
        [ActedOn # {} /\ style # "vue"
           => \A f \in Fields : raw'[f] # raw[f] \/ value'[f] # value[f]
                => \E e \in ActedOn, b \in BindingsOf(f) : binding[b].el = e]_cvars
  BY StepIsGhostFree DEF GhostFree
<1> QED
  BY <1>1, <1>2, ControlsInvariance, PTL DEF ControlsSpec, ControlsAreSound, NoGhostWrites

-----------------------------------------------------------------------------
(* Focus.                                                                *)

LinkRecords ==
    [life : {"live", "gone"}, field : Watched, el : Places, set : 0..Len(sets)]

FocusTypeOK ==
    /\ bad \subseteq Watched /\ inTree \subseteq Watched /\ Watched \ inTree \subseteq strayed
    /\ usable \subseteq Places
    /\ sets \in Seq(SUBSET Places)
    /\ setOf \in [Watched -> 0..Len(sets)]
    /\ link \in [Links -> LinkRecords \cup {NoLink}]
    /\ formBinding \in {"none", "bound", "disposed"}

(* A set of the registry is of one field, and holds controls of live links.*)
SetsAreOfOneField ==
    /\ \A f, g \in Watched : setOf[f] = setOf[g] /\ setOf[f] # 0 => f = g
    /\ \A c, d \in Links : link[c].set = link[d].set /\ link[c].set # 0 =>
            link[c].field = link[d].field
    /\ \A b \in Links, f \in Watched : link[b].set = setOf[f] /\ setOf[f] # 0 => link[b].field = f
    /\ \A n \in 1..Len(sets) : \A e \in sets[n] :
            \E b \in Links : Linked(b) /\ link[b].set = n /\ link[b].el = e

(* A link that nothing made the registry forget is in the set that the   *)
(* registry has for its field.                                           *)
Remembered(b) ==
    /\ Linked(b) /\ link[b].set # 0
    /\ link[b].field \notin strayed /\ ~Doubled(link[b].field)
LinksAreListed ==
    formBinding # "disposed" => \A b \in Links : Remembered(b) =>
        setOf[link[b].field] = link[b].set /\ link[b].el \in sets[link[b].set]

FocusInv == FocusTypeOK /\ SetsAreOfOneField /\ LinksAreListed
-----------------------------------------------------------------------------
LEMMA FocusInitInv == FocusInit => FocusInv
<1> SUFFICES ASSUME FocusInit PROVE FocusInv
  OBVIOUS
<1>1. Len(sets) = 0 /\ sets \in Seq(SUBSET Places)
  BY DEF FocusInit
<1>2. \A b \in Links : link[b] = NoLink /\ link[b].set = 0 /\ ~Linked(b)
  BY DEF FocusInit, NoLink, Linked
<1>3. FocusTypeOK
  BY <1>1, <1>2 DEF FocusInit, FocusTypeOK
<1>4. SetsAreOfOneField /\ LinksAreListed
  BY <1>1, <1>2 DEF FocusInit, SetsAreOfOneField, LinksAreListed, Remembered
<1> QED BY <1>3, <1>4 DEF FocusInv

(* A link that has been made.                                            *)
LEMMA MadeLink ==
    ASSUME NEW b \in Links, FocusInv, link[b].life # "none"
    PROVE  link[b] \in LinkRecords /\ link[b].field \in Watched /\ link[b].el \in Places
           /\ link[b].set \in 0..Len(sets) /\ link[b].life \in {"live", "gone"}
BY DEF FocusInv, FocusTypeOK, NoLink, LinkRecords

LEMMA UnmadeLink ==
    ASSUME NEW b \in Links, FocusInv, link[b].life = "none"
    PROVE  link[b].set = 0
BY DEF FocusInv, FocusTypeOK, NoLink, LinkRecords

LEMMA SetNumbers ==
    ASSUME NEW b \in Links, FocusInv PROVE link[b].set \in 0..Len(sets) /\ Len(sets) \in Nat
BY DEF FocusInv, FocusTypeOK, NoLink, LinkRecords

(* The form and the page change, links and the registry do not.          *)
LEMMA PageInv ==
    ASSUME FocusInv, UNCHANGED <<link, registry>>,
           bad' \subseteq Watched, inTree' \subseteq Watched, Watched \ inTree' \subseteq strayed',
           strayed \subseteq strayed', usable' \subseteq Places,
           formBinding' \in {"none", "bound", "disposed"},
           formBinding' # "disposed" => formBinding # "disposed"
    PROVE  FocusInv'
<1>1. sets' = sets /\ setOf' = setOf /\ link' = link
  BY DEF registry
<1>2. FocusTypeOK' /\ SetsAreOfOneField'
  BY <1>1 DEF FocusInv, FocusTypeOK, SetsAreOfOneField, LinkRecords, Linked
<1>3. \A b \in Links : Remembered(b)' => Remembered(b)
  BY <1>1 DEF Remembered, Linked, Doubled
<1>4. LinksAreListed'
  BY <1>1, <1>3 DEF FocusInv, LinksAreListed, Remembered
<1> QED BY <1>2, <1>4 DEF FocusInv

(* A control joins the set n of its field.                               *)
LEMMA JoinInv ==
    ASSUME NEW b \in Links, NEW f \in Watched, NEW e \in Places, FocusInv,
           link[b].life = "none", formBinding = "bound",
           link' = [link EXCEPT ![b] = [life |-> "live", field |-> f, el |-> e,
                                        set |-> SetToJoin(f)]],
           Register(f, e), UNCHANGED <<page, formBinding>>
    PROVE  FocusInv'
<1> DEFINE n == SetToJoin(f)
           x == [life |-> "live", field |-> f, el |-> e, set |-> n]
           N == Len(sets')
<1>1. n \in 1..(Len(sets) + 1) /\ Len(sets) \in Nat
  BY SetNumbers DEF SetToJoin, FocusInv, FocusTypeOK
<1>2. /\ sets' \in Seq(SUBSET Places) /\ n \in 1..N /\ N \in Nat /\ Len(sets) <= N
      /\ \A m \in 1..Len(sets) : m # n => sets'[m] = sets[m]
      /\ n \in 1..Len(sets) => sets'[n] = sets[n] \cup {e}
      /\ n \notin 1..Len(sets) => sets'[n] = {e}
      /\ \A m \in 1..N : m \in 1..Len(sets) \/ m = n
  <2>1. CASE setOf[f] = 0
    <3>1. n = Len(sets) + 1 /\ sets' = Append(sets, {e})
      BY <2>1 DEF SetToJoin, Register
    <3> QED BY <3>1, <1>1 DEF FocusInv, FocusTypeOK
  <2>2. CASE setOf[f] # 0
    <3>1. n = setOf[f] /\ n \in 1..Len(sets) /\ sets' = [sets EXCEPT ![n] = @ \cup {e}]
      BY <2>2 DEF SetToJoin, Register, FocusInv, FocusTypeOK
    <3>2. Len(sets') = Len(sets) /\ sets' \in Seq(SUBSET Places)
      BY <3>1 DEF FocusInv, FocusTypeOK
    <3>3. sets'[n] = sets[n] \cup {e} /\ \A m \in 1..Len(sets) : m # n => sets'[m] = sets[m]
      BY <3>1 DEF FocusInv, FocusTypeOK
    <3> HIDE DEF n
    <3> QED BY <1>1, <3>1, <3>2, <3>3
  <2> QED BY <2>1, <2>2
<1>3. /\ setOf' \in [Watched -> 0..N] /\ setOf'[f] = n
      /\ \A g \in Watched : g # f => setOf'[g] = setOf[g]
      /\ setOf[f] = n \/ (setOf[f] = 0 /\ n = Len(sets) + 1)
  <2>1. setOf \in [Watched -> 0..Len(sets)] /\ (setOf[f] # 0 => n = setOf[f])
        /\ (setOf[f] = 0 => n = Len(sets) + 1)
    BY DEF SetToJoin, FocusInv, FocusTypeOK
  <2>2. setOf' = IF setOf[f] = 0 THEN [setOf EXCEPT ![f] = n] ELSE setOf
    BY <2>1 DEF Register
  <2>3. n \in 1..N /\ N \in Nat /\ Len(sets) \in Nat /\ Len(sets) <= N
    BY <1>1, <1>2
  <2> HIDE DEF n, N
  <2> QED BY <2>1, <2>2, <2>3
<1> HIDE DEF N
<1>4. x \in LinkRecords' /\ x.life = "live" /\ x.field = f /\ x.el = e /\ x.set = n
  BY <1>2 DEF LinkRecords, N
<1> HIDE DEF x, n
<1>5. /\ link'[b] = x /\ \A c \in Links \ {b} : link'[c] = link[c]
      /\ link' \in [Links -> LinkRecords' \cup {NoLink}]
  <2>1. LinkRecords \subseteq LinkRecords'
    BY <1>2, <1>1 DEF LinkRecords, N
  <2>2. link' = [link EXCEPT ![b] = x] /\ link \in [Links -> LinkRecords \cup {NoLink}]
    BY DEF x, n, FocusInv, FocusTypeOK
  <2> QED BY <1>4, <2>1, <2>2
<1>6. FocusTypeOK'
  BY <1>2, <1>3, <1>5 DEF FocusInv, FocusTypeOK, page, N
<1>7. link[b].set = 0 /\ ~Linked(b)
  BY UnmadeLink DEF Linked
<1>8. \A c \in Links : /\ Linked(c)' <=> c = b \/ Linked(c)
                       /\ link[c].set \in 0..Len(sets)
  BY <1>4, <1>5, SetNumbers DEF Linked
<1>9. SetsAreOfOneField'
  <2>1. \A g, h \in Watched : setOf'[g] = setOf'[h] /\ setOf'[g] # 0 => g = h
    <3>1. \A g \in Watched \ {f} : setOf[g] # n
      <4>1. \A g \in Watched : setOf[g] \in 0..Len(sets)
        BY DEF FocusInv, FocusTypeOK
      <4>2. \A g, h \in Watched : setOf[g] = setOf[h] /\ setOf[g] # 0 => g = h
        BY DEF FocusInv, SetsAreOfOneField
      <4>3. CASE setOf[f] = n
        BY <1>1, <4>2, <4>3
      <4>4. CASE n = Len(sets) + 1
        BY <1>1, <4>1, <4>4
      <4> QED BY <1>3, <4>3, <4>4
    <3> QED BY <1>3, <3>1 DEF FocusInv, SetsAreOfOneField
  <2>2. \A c \in Links \ {b} : link[c].set = n => link[c].field = f
    BY <1>1, <1>3, <1>8 DEF FocusInv, SetsAreOfOneField
  <2>3. \A c, d \in Links : link'[c].set = link'[d].set /\ link'[c].set # 0 =>
            link'[c].field = link'[d].field
    BY <1>4, <1>5, <2>2 DEF FocusInv, SetsAreOfOneField
  <2>4. \A c \in Links, g \in Watched : link'[c].set = setOf'[g] /\ setOf'[g] # 0 =>
            link'[c].field = g
    <3> SUFFICES ASSUME NEW c \in Links, NEW g \in Watched, link'[c].set = setOf'[g], setOf'[g] # 0
                 PROVE  link'[c].field = g
      OBVIOUS
    <3>1. CASE c = b
      BY <3>1, <1>3, <1>4, <1>5, <2>1
    <3>2. CASE c # b /\ g = f
      BY <3>2, <1>3, <1>5, <2>2
    <3>3. CASE c # b /\ g # f
      BY <3>3, <1>3, <1>5 DEF FocusInv, SetsAreOfOneField
    <3> QED BY <3>1, <3>2, <3>3
  <2>5. ASSUME NEW m \in 1..N, NEW d \in sets'[m]
        PROVE  \E c \in Links : Linked(c)' /\ link'[c].set = m /\ link'[c].el = d
    <3>1. CASE m = n /\ d = e
      BY <1>4, <1>5, <1>8, <3>1
    <3>2. CASE m \in 1..Len(sets) /\ d \in sets[m]
      <4>1. PICK c \in Links : Linked(c) /\ link[c].set = m /\ link[c].el = d
        BY <3>2 DEF FocusInv, SetsAreOfOneField
      <4> QED BY <1>5, <1>7, <1>8, <4>1
    <3> QED BY <1>2, <2>5, <3>1, <3>2
  <2> QED BY <2>1, <2>3, <2>4, <2>5 DEF SetsAreOfOneField, N
<1>10. LinksAreListed'
  <2> SUFFICES ASSUME NEW c \in Links, Remembered(c)'
               PROVE  setOf'[link'[c].field] = link'[c].set /\ link'[c].el \in sets'[link'[c].set]
    BY DEF LinksAreListed
  <2>1. CASE c = b
    BY <2>1, <1>2, <1>3, <1>4, <1>5
  <2>2. CASE c # b
    <3>1. strayed' = strayed /\ link'[c] = link[c]
      BY <1>5, <2>2 DEF page
    <3>2. Doubled(link[c].field) => Doubled(link[c].field)'
      <4> SUFFICES ASSUME Doubled(link[c].field) PROVE Doubled(link[c].field)'
        OBVIOUS
      <4> DEFINE g == link[c].field
      <4>1. PICK i, j \in Links : /\ i # j /\ link[i].set # 0 /\ link[i].set = link[j].set
                                  /\ link[i].field = g /\ link[i].el = link[j].el
        BY DEF Doubled
      <4>2. i # b /\ j # b
        BY <1>7, <4>1
      <4>3. link'[i] = link[i] /\ link'[j] = link[j]
        BY <1>5, <4>2
      <4> HIDE DEF g
      <4>4. g = link'[c].field
        BY <3>1 DEF g
      <4> QED BY <3>1, <4>1, <4>3, <4>4 DEF Doubled, g
    <3>3. Remembered(c)
      BY <2>2, <3>1, <3>2, <1>8 DEF Remembered
    <3>4. setOf[link[c].field] = link[c].set /\ link[c].el \in sets[link[c].set] /\ link[c].set # 0
          /\ link[c].field \in Watched
      BY <3>3, MadeLink DEF FocusInv, LinksAreListed, Remembered, Linked
    <3>5. setOf'[link[c].field] = link[c].set
      BY <1>3, <3>4
    <3>6. link[c].el \in sets'[link[c].set]
      BY <1>2, <1>8, <3>4
    <3> QED BY <3>1, <3>5, <3>6
  <2> QED BY <2>1, <2>2
<1> QED BY <1>6, <1>9, <1>10 DEF FocusInv

(* A link that goes: its control leaves the set it joined.               *)
LEMMA DisposeLinkInv ==
    ASSUME NEW b \in Links, FocusInv, DisposeLink(b) PROVE FocusInv'
<1> DEFINE n == link[b].set
           left == sets[n] \ {link[b].el}
           x == [link[b] EXCEPT !.life = "gone"]
<1>1. /\ Linked(b) /\ link[b] \in LinkRecords /\ link[b].field \in Watched
      /\ n \in 0..Len(sets) /\ Len(sets) \in Nat
  BY MadeLink, SetNumbers DEF DisposeLink, Linked
<1>2. /\ x \in LinkRecords /\ x.life = "gone" /\ x.field = link[b].field /\ x.el = link[b].el
      /\ x.set = n
  BY <1>1 DEF LinkRecords
<1>3. link' = [link EXCEPT ![b] = x] /\ UNCHANGED <<page, formBinding>>
  BY DEF DisposeLink
<1> HIDE DEF x
<1>4. link'[b] = x /\ \A c \in Links \ {b} : link'[c] = link[c]
  BY <1>3, <1>2 DEF FocusInv, FocusTypeOK
<1>5. \A c \in Links : Linked(c)' <=> c # b /\ Linked(c)
  BY <1>2, <1>4 DEF Linked
<1>6. \A c \in Links : link'[c].set = link[c].set
  BY <1>2, <1>4
<1>7. \A c \in Links : Linked(c) => link'[c].field = link[c].field /\ link'[c].el = link[c].el
  BY <1>2, <1>4
<1>8. \A c \in Links : link[c].set # 0 => link'[c].field = link[c].field /\ link'[c].el = link[c].el
  BY <1>2, <1>4
<1>9. /\ sets' \in Seq(SUBSET Places) /\ Len(sets') = Len(sets)
      /\ n # 0 => sets'[n] = left
      /\ n = 0 => sets' = sets
      /\ \A m \in 1..Len(sets) : m # n => sets'[m] = sets[m]
      /\ setOf' \in [Watched -> 0..Len(sets)]
      /\ \A g \in Watched : setOf'[g] = IF n # 0 /\ left = {} /\ g = link[b].field THEN 0 ELSE setOf[g]
  <2>1. CASE n = 0
    BY <2>1 DEF DisposeLink, registry, FocusInv, FocusTypeOK
  <2>2. CASE n # 0
    <3>1. sets' = [sets EXCEPT ![n] = left]
          /\ setOf' = IF left = {} THEN [setOf EXCEPT ![link[b].field] = 0] ELSE setOf
      BY <2>2 DEF DisposeLink, Unregister
    <3>2. sets \in Seq(SUBSET Places) /\ setOf \in [Watched -> 0..Len(sets)] /\ n \in 1..Len(sets)
      BY <1>1, <2>2 DEF FocusInv, FocusTypeOK
    <3>3. left \in SUBSET Places
      BY <3>2
    <3> HIDE DEF n, left
    <3>4. sets' \in Seq(SUBSET Places) /\ Len(sets') = Len(sets) /\ sets'[n] = left
          /\ \A m \in 1..Len(sets) : m # n => sets'[m] = sets[m]
      BY <3>1, <3>2, <3>3
    <3>5. setOf' \in [Watched -> 0..Len(sets)]
          /\ \A g \in Watched : setOf'[g] = IF left = {} /\ g = link[b].field THEN 0 ELSE setOf[g]
      BY <1>1, <3>1, <3>2
    <3> QED BY <2>2, <3>4, <3>5
  <2> QED BY <2>1, <2>2
<1>10. FocusTypeOK'
  <2>1. LinkRecords' = LinkRecords
    BY <1>9 DEF LinkRecords
  <2>2. link' \in [Links -> LinkRecords \cup {NoLink}]
    BY <1>2, <1>3 DEF FocusInv, FocusTypeOK
  <2> QED BY <1>3, <1>9, <2>1, <2>2 DEF FocusInv, FocusTypeOK, page
<1>11. SetsAreOfOneField'
  <2>1. \A g, h \in Watched : setOf'[g] = setOf'[h] /\ setOf'[g] # 0 => g = h
    BY <1>9 DEF FocusInv, SetsAreOfOneField
  <2>2. \A c, d \in Links : link'[c].set = link'[d].set /\ link'[c].set # 0 =>
            link'[c].field = link'[d].field
    BY <1>6, <1>8 DEF FocusInv, SetsAreOfOneField
  <2>3. \A c \in Links, g \in Watched : link'[c].set = setOf'[g] /\ setOf'[g] # 0 =>
            link'[c].field = g
    <3> SUFFICES ASSUME NEW c \in Links, NEW g \in Watched, link'[c].set = setOf'[g], setOf'[g] # 0
                 PROVE  link'[c].field = g
      OBVIOUS
    <3>1. setOf'[g] = setOf[g]
      BY <1>9
    <3>2. link[c].set = setOf[g] /\ setOf[g] # 0
      BY <3>1, <1>6
    <3> QED BY <3>2, <1>8 DEF FocusInv, SetsAreOfOneField
  <2>4. ASSUME NEW m \in 1..Len(sets), NEW d \in sets'[m]
        PROVE  \E c \in Links : Linked(c)' /\ link'[c].set = m /\ link'[c].el = d
    <3>1. d \in sets[m] /\ ~(m = n /\ d = link[b].el)
      BY <1>9, <2>4
    <3>2. PICK c \in Links : Linked(c) /\ link[c].set = m /\ link[c].el = d
      BY <3>1 DEF FocusInv, SetsAreOfOneField
    <3>3. c # b
      BY <3>1, <3>2
    <3> QED BY <1>4, <1>5, <3>2, <3>3
  <2> QED BY <1>9, <2>1, <2>2, <2>3, <2>4 DEF SetsAreOfOneField
<1>12. LinksAreListed'
  <2> SUFFICES ASSUME formBinding # "disposed", NEW c \in Links, Remembered(c)'
               PROVE  setOf'[link'[c].field] = link'[c].set /\ link'[c].el \in sets'[link'[c].set]
    BY <1>3 DEF LinksAreListed
  <2>1. c # b /\ Linked(c) /\ link'[c] = link[c] /\ link[c].set # 0
    BY <1>4, <1>5 DEF Remembered
  <2>2. strayed' = strayed
    BY <1>3 DEF page
  <2>3. \A g : Doubled(g) => Doubled(g)'
    <3> SUFFICES ASSUME NEW g, Doubled(g) PROVE \A h : h = g => Doubled(h)'
      OBVIOUS
    <3>1. PICK i, j \in Links : /\ i # j /\ link[i].set # 0 /\ link[i].set = link[j].set
                                /\ link[i].field = g /\ link[i].el = link[j].el
      BY DEF Doubled
    <3>2. /\ link'[i].set # 0 /\ link'[i].set = link'[j].set
          /\ link'[i].field = g /\ link'[i].el = link'[j].el
      BY <1>6, <1>8, <3>1
    <3> QED BY <3>1, <3>2 DEF Doubled
  <2>4. Remembered(c)
    BY <2>1, <2>2, <2>3 DEF Remembered
  <2>5. setOf[link[c].field] = link[c].set /\ link[c].el \in sets[link[c].set]
        /\ link[c].field \in Watched /\ link[c].set \in 1..Len(sets)
    BY <2>1, <2>4, MadeLink DEF FocusInv, LinksAreListed, Linked
  <2>6. CASE n = link[c].set
    <3>1. link[b].field = link[c].field
      BY <2>1, <2>6 DEF FocusInv, SetsAreOfOneField
    <3>2. link[b].el # link[c].el
      BY <2>1, <2>4, <2>6, <3>1 DEF Remembered, Doubled
    <3>3. link[c].el \in left
      BY <2>5, <2>6, <3>2
    <3>4. n # 0
      BY <2>5, <2>6
    <3> HIDE DEF left, n
    <3> QED BY <1>9, <2>1, <2>5, <2>6, <3>3, <3>4
  <2>7. CASE n # link[c].set
    <3>1. n # 0 => link[b].field # link[c].field
      <4> SUFFICES ASSUME n # 0, link[b].field = link[c].field PROVE FALSE
        OBVIOUS
      <4>1. Remembered(b)
        BY <1>1, <2>4 DEF Remembered
      <4>2. setOf[link[b].field] = n
        BY <4>1 DEF FocusInv, LinksAreListed
      <4> QED BY <2>5, <2>7, <4>2
    <3> HIDE DEF left, n
    <3> QED BY <1>9, <2>1, <2>5, <2>7, <3>1
  <2> QED BY <2>6, <2>7
<1> QED BY <1>10, <1>11, <1>12 DEF FocusInv

(* A request for the focus, and the disposal of the form binding: fields *)
(* leave the registry's map.                                             *)
LEMMA ForgetInv ==
    ASSUME FocusInv, UNCHANGED <<page, link, sets>>,
           setOf' \in [Watched -> 0..Len(sets)],
           \A f \in Watched : setOf'[f] \in {setOf[f], 0},
           formBinding' \in {"bound", "disposed"}, formBinding = "bound",
           formBinding' = "bound" => \A f \in inTree : setOf'[f] = setOf[f]
    PROVE  FocusInv'
<1>1. FocusTypeOK'
  BY DEF FocusInv, FocusTypeOK, page, LinkRecords
<1>2. SetsAreOfOneField'
  BY DEF FocusInv, SetsAreOfOneField, Linked
<1>3. ASSUME formBinding' # "disposed", NEW c \in Links, Remembered(c)'
      PROVE  setOf'[link[c].field] = link[c].set /\ link[c].el \in sets[link[c].set]
  <2>1. Remembered(c) /\ Linked(c) /\ link[c].field \notin strayed
    BY <1>3 DEF Remembered, Doubled, Linked, page
  <2>2. link[c].field \in inTree
    BY <2>1, MadeLink DEF FocusInv, FocusTypeOK, Linked
  <2>3. setOf[link[c].field] = link[c].set /\ link[c].el \in sets[link[c].set]
    BY <2>1 DEF FocusInv, LinksAreListed
  <2> QED BY <1>3, <2>2, <2>3
<1>4. LinksAreListed'
  BY <1>3 DEF LinksAreListed
<1> QED BY <1>1, <1>2, <1>4 DEF FocusInv

LEMMA RequestInv ==
    ASSUME FocusInv, OrchestrateFocusInvalid, formBinding = "bound", UNCHANGED <<page, link, formBinding>>
    PROVE  FocusInv'
<1>1. setOf' = [f \in Watched |-> IF f \in inTree THEN setOf[f] ELSE 0] /\ sets' = sets
  BY DEF OrchestrateFocusInvalid
<1>2. setOf \in [Watched -> 0..Len(sets)] /\ Len(sets) \in Nat /\ inTree \subseteq Watched
  BY DEF FocusInv, FocusTypeOK
<1> QED BY <1>1, <1>2, ForgetInv

LEMMA FocusNextInv == FocusInv /\ [FocusNext]_focusVars => FocusInv'
<1> SUFFICES ASSUME FocusInv, [FocusNext]_focusVars PROVE FocusInv'
  OBVIOUS
<1>1. CASE UNCHANGED focusVars
  BY <1>1, PageInv DEF focusVars, page, registry, FocusInv, FocusTypeOK
<1>2. CASE LinkField
  <2>1. PICK b \in Links, f \in Watched, e \in Places :
        /\ link[b].life = "none"
        /\ LET listed == formBinding = "bound" IN
           /\ link' = [link EXCEPT ![b] = [life |-> "live", field |-> f, el |-> e,
                                           set |-> IF listed THEN SetToJoin(f) ELSE 0]]
           /\ IF listed THEN Register(f, e) ELSE UNCHANGED registry
        /\ UNCHANGED <<page, formBinding, outcome>>
    BY <1>2 DEF LinkField
  <2>2. CASE formBinding = "bound"
    BY <2>1, <2>2, JoinInv
  <2>3. CASE formBinding # "bound"
    <3> DEFINE x == [life |-> "live", field |-> f, el |-> e, set |-> 0]
    <3>1. /\ link' = [link EXCEPT ![b] = x] /\ sets' = sets /\ setOf' = setOf
          /\ UNCHANGED <<page, formBinding>>
      BY <2>1, <2>3 DEF registry
    <3>2. x \in LinkRecords /\ x.set = 0 /\ Len(sets) \in Nat
      BY SetNumbers DEF LinkRecords
    <3> HIDE DEF x
    <3>3. link'[b] = x /\ \A c \in Links \ {b} : link'[c] = link[c]
      BY <3>1, <3>2 DEF FocusInv, FocusTypeOK
    <3>4. link[b].set = 0 /\ ~Linked(b)
      BY <2>1, UnmadeLink DEF Linked
    <3>5. FocusTypeOK'
      BY <3>1, <3>2 DEF FocusInv, FocusTypeOK, page, LinkRecords
    <3>6. SetsAreOfOneField'
      <4>1. \A m \in 1..Len(sets) : \A d \in sets[m] :
                \E c \in Links : Linked(c)' /\ link'[c].set = m /\ link'[c].el = d
        BY <3>3, <3>4 DEF FocusInv, SetsAreOfOneField, Linked
      <4>2. \A c, d \in Links : link'[c].set = link'[d].set /\ link'[c].set # 0 =>
                link'[c].field = link'[d].field
        BY <3>2, <3>3 DEF FocusInv, SetsAreOfOneField
      <4>3. \A c \in Links, g \in Watched : link'[c].set = setOf[g] /\ setOf[g] # 0 =>
                link'[c].field = g
        BY <3>2, <3>3 DEF FocusInv, SetsAreOfOneField
      <4> QED BY <3>1, <4>1, <4>2, <4>3 DEF FocusInv, SetsAreOfOneField
    <3>7. ASSUME NEW c \in Links, Remembered(c)' PROVE Remembered(c) /\ link'[c] = link[c]
      <4>1. c # b /\ link'[c] = link[c]
        BY <3>2, <3>3, <3>7 DEF Remembered
      <4>2. \A g : Doubled(g) => \A h : h = g => Doubled(h)'
        BY <3>3, <3>4 DEF Doubled
      <4>3. strayed' = strayed
        BY <3>1 DEF page
      <4> QED BY <3>7, <4>1, <4>2, <4>3 DEF Remembered, Linked
    <3>8. LinksAreListed'
      BY <3>1, <3>7 DEF FocusInv, LinksAreListed
    <3> QED BY <3>5, <3>6, <3>8 DEF FocusInv
  <2> QED BY <2>2, <2>3
<1>3. ASSUME NEW b \in Links, DisposeLink(b) PROVE FocusInv'
  BY <1>3, DisposeLinkInv
<1>4. ASSUME NEW f \in Watched, Turn(f) \/ LeaveOrReturn(f) PROVE FocusInv'
  BY <1>4, PageInv DEF Turn, LeaveOrReturn, registry, FocusInv, FocusTypeOK
<1>5. CASE BindForm \/ HandleSubmit
  BY <1>5, PageInv DEF BindForm, HandleSubmit, page, registry, FocusInv, FocusTypeOK
<1>6. CASE FocusInvalid
  BY <1>6, RequestInv DEF FocusInvalid
<1>7. CASE Submitted
  <2>1. CASE StillBound /\ OrchestrateFocusInvalid
    BY <1>7, <2>1, RequestInv DEF Submitted, StillBound
  <2>2. CASE UNCHANGED registry
    BY <1>7, <2>2, PageInv DEF Submitted, page, registry, FocusInv, FocusTypeOK
  <2> QED BY <1>7, <2>1, <2>2 DEF Submitted
<1>8. CASE DisposeForm
  <2>1. setOf' = [f \in Watched |-> 0] /\ Len(sets) \in Nat /\ formBinding = "bound"
        /\ formBinding' = "disposed" /\ UNCHANGED <<page, link, sets>>
    BY <1>8 DEF DisposeForm, FocusInv, FocusTypeOK
  <2> QED BY <2>1, ForgetInv
<1> QED
  BY <1>1, <1>2, <1>3, <1>4, <1>5, <1>6, <1>7, <1>8 DEF FocusNext

LEMMA FocusInvariance == FocusSpec => []FocusInv
BY FocusInitInv, FocusNextInv, PTL DEF FocusSpec

LEMMA FirstIsLeast ==
    ASSUME NEW S \in SUBSET Places, S # {}
    PROVE  First(S) \in S /\ \A e \in S : First(S) <= e
<1>1. S \in SUBSET Nat
  BY PlacesAssumption
<1>2. \E e \in S : \A d \in S : e <= d
  BY <1>1, LeastNatural
<1> QED BY <1>2, Zenon DEF First

(* Where a request goes.                                                 *)
FindsFirst ==
    request'.n # request.n =>
       /\ request'.at # request.at => \E b \in Links : Invalid(b) /\ link[b].el = request'.at
       /\ \A b \in Links : Known(b) => request'.at \in 1 .. link[b].el

LEMMA RequestFindsFirst ==
    ASSUME FocusInv, formBinding = "bound", OrchestrateFocusInvalid PROVE FindsFirst
<1>1. \A f \in Watched : setOf[f] # 0 => sets[setOf[f]] \subseteq Places /\ setOf[f] \in 1..Len(sets)
  BY DEF FocusInv, FocusTypeOK
<1>2. \A f \in inTree \cap bad : setOf[f] # 0 =>
        /\ Targets(f) \subseteq sets[setOf[f]] \cap usable
        /\ sets[setOf[f]] \cap usable # {} =>
             \E t \in Targets(f) : \A e \in sets[setOf[f]] \cap usable : t <= e
  <2> SUFFICES ASSUME NEW f \in inTree \cap bad, setOf[f] # 0
               PROVE  /\ Targets(f) \subseteq sets[setOf[f]] \cap usable
                      /\ sets[setOf[f]] \cap usable # {} =>
                           \E t \in Targets(f) : \A e \in sets[setOf[f]] \cap usable : t <= e
    OBVIOUS
  <2> DEFINE S == sets[setOf[f]] \cap usable
  <2>1. S \in SUBSET Places
    BY <1>1 DEF FocusInv, FocusTypeOK
  <2>2. CASE S = {}
    BY <2>2 DEF Targets
  <2>3. CASE S # {}
    <3>1. Targets(f) = {First(S)}
      BY <2>3 DEF Targets
    <3> HIDE DEF S
    <3>2. First(S) \in S /\ \A e \in S : First(S) <= e
      BY <2>1, <2>3, FirstIsLeast
    <3>3. /\ Targets(f) \subseteq S
          /\ \E t \in Targets(f) : \A e \in S : t <= e
      BY <3>1, <3>2
    <3> QED BY <3>3 DEF S
  <2> QED BY <2>2, <2>3
<1>3. \A e \in Candidates : /\ e \in Places
                            /\ \E b \in Links : Invalid(b) /\ link[b].el = e
  <2> SUFFICES ASSUME NEW e \in Candidates
               PROVE  e \in Places /\ \E b \in Links : Invalid(b) /\ link[b].el = e
    OBVIOUS
  <2>1. PICK f \in inTree \cap bad : setOf[f] # 0 /\ e \in Targets(f)
    BY DEF Candidates
  <2>2. f \in Watched /\ e \in sets[setOf[f]] /\ e \in usable
    BY <1>2, <2>1 DEF FocusInv, FocusTypeOK
  <2>3. PICK b \in Links : Linked(b) /\ link[b].set = setOf[f] /\ link[b].el = e
    BY <1>1, <2>1, <2>2 DEF FocusInv, SetsAreOfOneField
  <2>4. link[b].field = f
    BY <2>1, <2>2, <2>3 DEF FocusInv, SetsAreOfOneField
  <2> QED BY <1>1, <2>1, <2>2, <2>3, <2>4 DEF Invalid
<1>4. request'.at = IF Candidates = {} THEN request.at ELSE First(Candidates)
  BY DEF OrchestrateFocusInvalid
<1>5. Candidates # {} =>
        First(Candidates) \in Candidates /\ \A e \in Candidates : First(Candidates) <= e
  BY <1>3, FirstIsLeast
<1>6. ASSUME NEW b \in Links, Known(b) PROVE request'.at \in 1..link[b].el
  <2>1. Remembered(b) /\ link[b].field \in inTree \cap bad /\ link[b].el \in usable
        /\ link[b].el \in Places /\ link[b].field \in Watched
    BY <1>6, MadeLink DEF Known, Invalid, Remembered, Linked
  <2>2. setOf[link[b].field] = link[b].set /\ link[b].el \in sets[link[b].set] /\ link[b].set # 0
    BY <2>1 DEF FocusInv, LinksAreListed, Remembered
  <2>3. PICK t \in Targets(link[b].field) : t <= link[b].el
    BY <1>2, <2>1, <2>2
  <2>4. t \in Candidates
    BY <2>1, <2>2, <2>3 DEF Candidates
  <2>5. First(Candidates) <= t /\ First(Candidates) \in Places /\ t \in Places
    BY <1>3, <1>5, <2>4
  <2> DEFINE k == First(Candidates)
  <2>6. request'.at = k
    BY <1>4, <2>4
  <2> HIDE DEF k
  <2>7. k \in Nat \ {0} /\ t \in Nat /\ link[b].el \in Nat
    BY <2>1, <2>5, PlacesAssumption DEF k
  <2>8. k <= t
    BY <2>5 DEF k
  <2> QED BY <2>3, <2>6, <2>7, <2>8
<1> QED BY <1>3, <1>4, <1>5, <1>6 DEF FindsFirst

(* A request moves the focus to an invalid control, the first of those the *)
(* registry knows; a form binding that is disposed moves none and calls    *)
(* nobody back.                                                            *)
THEOREM FocusIsAlwaysSound == FocusSpec => FocusIsSound
<1>1. FocusInv /\ [FocusNext]_focusVars => [FindsFirst]_focusVars
  <2> SUFFICES ASSUME FocusInv, FocusNext, request'.n # request.n PROVE FindsFirst
    BY DEF FindsFirst
  <2>1. formBinding = "bound" /\ OrchestrateFocusInvalid
    BY DEF FocusNext, LinkField, DisposeLink, Turn, LeaveOrReturn, BindForm, FocusInvalid,
       HandleSubmit, Submitted, StillBound, DisposeForm, outcome
  <2> QED BY <2>1, RequestFindsFirst
<1>2. [FocusNext]_focusVars => [formBinding = "disposed" => UNCHANGED <<callbacks, request>>]_focusVars
  BY DEF FocusNext, LinkField, DisposeLink, Turn, LeaveOrReturn, BindForm, FocusInvalid,
     HandleSubmit, Submitted, StillBound, DisposeForm, outcome
<1>3. FocusSpec => [][FindsFirst]_focusVars
  BY <1>1, FocusInvariance, PTL DEF FocusSpec
<1>4. FocusSpec => SilentAfterDispose
  BY <1>2, PTL DEF FocusSpec, SilentAfterDispose
<1> QED BY <1>3, <1>4 DEF FindsFirst, FocusFindsFirst, FocusIsSound

-----------------------------------------------------------------------------
(* SubmissionListeners.                                                  *)

(* A call is once on the stack, and nobody else's controller is active.  *)
OnceOnStack ==
    /\ \A i, j \in 1..Len(stack) : stack[i] = stack[j] => i = j
    /\ active \in {current, Nobody}

(* A status that says the form is busy is the current call's, which is   *)
(* where the status says, or was thrown out by a listener.               *)
PhasesOf(shown) == IF shown = "validating" THEN Before ELSE {"entered", "acting", "routed"}
BusyIsTrue ==
    /\ \A s \in Attempts : calls[s].left => calls[s].phase = "over"
    /\ status \in Busy /\ ~disposed =>
        current # Nobody /\ (calls[current].left \/ calls[current].phase \in PhasesOf(status))
    /\ current # Nobody /\ calls[current].aborted => status \notin Busy

(* A call under way that nobody has aborted, and whose status nobody has *)
(* replaced, is the current one and the form says so.                    *)
Undisturbed(s) == Underway(s) /\ ~calls[s].aborted /\ ~calls[s].hidden
UndisturbedIsCurrent ==
    \A s \in Attempts : Undisturbed(s) =>
        current = s /\ active = s /\ status \in Busy /\ ~disposed

(* What is written after a gate has been passed is the current call's, or *)
(* it lost its place within one of its own writes.                        *)
CaughtInWrites ==
    \A s \in Attempts : calls[s].phase \in {"entered", "routed"} =>
        current = s \/ calls[s].caught

ListenersInv ==
    LTypeOK /\ OnceOnStack /\ BusyIsTrue /\ UndisturbedIsCurrent /\ CaughtInWrites
-----------------------------------------------------------------------------
LEMMA Pushed ==
    ASSUME NEW A, NEW st \in Seq(A), NEW s \in A, s \notin ToSet(st),
           \A i, j \in 1..Len(st) : st[i] = st[j] => i = j
    PROVE  /\ Append(st, s) \in Seq(A) /\ Len(Append(st, s)) = Len(st) + 1
           /\ ToSet(Append(st, s)) = ToSet(st) \cup {s}
           /\ \A i, j \in 1..(Len(st) + 1) : Append(st, s)[i] = Append(st, s)[j] => i = j
<1> DEFINE new == Append(st, s)
<1>1. new \in Seq(A) /\ Len(new) = Len(st) + 1
      /\ new[Len(st) + 1] = s /\ \A i \in 1..Len(st) : new[i] = st[i]
  OBVIOUS
<1> HIDE DEF new
<1>2. Len(st) \in Nat
  OBVIOUS
<1>3. \A i \in 1..Len(st) : st[i] # s
  BY DEF ToSet
<1>4. ToSet(new) = ToSet(st) \cup {s}
  <2>1. DOMAIN new = 1..(Len(st) + 1) /\ DOMAIN st = 1..Len(st)
    BY <1>1
  <2>2. 1..(Len(st) + 1) = 1..Len(st) \cup {Len(st) + 1}
    BY <1>2
  <2> QED BY <1>1, <2>1, <2>2 DEF ToSet
<1>5. \A i, j \in 1..Len(new) : new[i] = new[j] => i = j
  BY <1>1, <1>2, <1>3
<1> QED BY <1>1, <1>4, <1>5 DEF new

LEMMA Popped ==
    ASSUME NEW A, NEW st \in Seq(A), st # <<>>,
           \A i, j \in 1..Len(st) : st[i] = st[j] => i = j
    PROVE  /\ Front(st) \in Seq(A) /\ Len(Front(st)) = Len(st) - 1
           /\ Last(st) \in ToSet(st) /\ ToSet(Front(st)) = ToSet(st) \ {Last(st)}
           /\ \A i, j \in 1..(Len(st) - 1) : Front(st)[i] = Front(st)[j] => i = j
<1> DEFINE n == Len(st)
           new == Front(st)
<1>1. n \in Nat /\ n > 0 /\ DOMAIN st = 1..n /\ Last(st) = st[n]
  BY DEF Last
<1>2. new \in Seq(A) /\ Len(new) = n - 1 /\ \A i \in 1..(n - 1) : new[i] = st[i]
  BY <1>1 DEF Front
<1>3. DOMAIN new = 1..(n - 1)
  BY <1>2
<1> HIDE DEF new, n
<1>4. 1..n = 1..(n - 1) \cup {n} /\ n \notin 1..(n - 1)
  BY <1>1
<1>5. \A i \in 1..(n - 1) : st[i] # st[n]
  BY <1>1, <1>4 DEF n
<1>6. ToSet(st) = {st[i] : i \in 1..(n - 1)} \cup {st[n]}
  BY <1>1, <1>4 DEF ToSet
<1>7. ToSet(new) = {st[i] : i \in 1..(n - 1)}
  BY <1>2, <1>3 DEF ToSet
<1>8. \A i, j \in 1..Len(new) : new[i] = new[j] => i = j
  BY <1>1, <1>2, <1>4 DEF n
<1> QED BY <1>1, <1>2, <1>5, <1>6, <1>7, <1>8 DEF new, n

-----------------------------------------------------------------------------
(* What one call does to another is to hide its status at most.          *)
Others(s) ==
    \A t \in Attempts \ {s} :
        /\ calls'[t].phase = calls[t].phase /\ calls'[t].left = calls[t].left
        /\ calls'[t].aborted = calls[t].aborted /\ calls'[t].caught = calls[t].caught
        /\ calls[t].hidden => calls'[t].hidden
        /\ status' # status /\ t = current /\ Underway(t) => calls'[t].hidden

(* A step of s that has entered keeps its place or gives it up.          *)
KeepsPlace(s) ==
    \/ stack' = stack /\ (calls[s].phase \in Passing \cup {"leaving"}
                            <=> calls'[s].phase \in Passing \cup {"leaving"})
    \/ stack' = Append(stack, s) /\ stack = <<>> /\ calls'[s].phase \in Passing \cup {"leaving"}
    \/ stack' = Front(stack) /\ stack # <<>> /\ Last(stack) = s
       /\ calls'[s].phase \notin Passing \cup {"leaving"}

StepOf(s) ==
    /\ calls' \in [Attempts -> CallType]
    /\ Others(s) /\ KeepsPlace(s)
    /\ current' = current /\ disposed' = disposed /\ told' \in BOOLEAN
    /\ active' \in {active, Freed(s)}
    /\ server' \in {server, s, Nobody}
    /\ status' \in Busy \cup {"idle", "succeeded", "failed", "cancelled"}
    /\ calls'[s].left => calls'[s].phase = "over"
    /\ status' \in Busy => status' = status \/ current = s
    /\ current = s /\ status' \in Busy /\ ~disposed =>
        calls'[s].left \/ calls'[s].phase \in PhasesOf(status')
    /\ current = s /\ calls'[s].aborted => status' \notin Busy
    /\ Undisturbed(s)' => current = s /\ active' = s /\ status' \in Busy /\ ~disposed
    /\ calls'[s].phase \in {"entered", "routed"} => current = s \/ calls'[s].caught

LEMMA StepOfKeepsInv ==
    ASSUME NEW s \in Attempts, Nobody \notin Attempts, ListenersInv, StepOf(s)
    PROVE  ListenersInv'
<1> DEFINE On == Passing \cup {"leaving"}
<1>1. /\ stack' \in Seq(Attempts) /\ Len(stack') <= 2
      /\ \A i, j \in 1..Len(stack') : stack'[i] = stack'[j] => i = j
      /\ \A t \in Attempts : t \in ToSet(stack') <=> calls'[t].phase \in On
  <2> HIDE DEF On
  <2>1. /\ stack \in Seq(Attempts) /\ Len(stack) <= 2
        /\ \A i, j \in 1..Len(stack) : stack[i] = stack[j] => i = j
        /\ \A t \in Attempts : t \in ToSet(stack) <=> calls[t].phase \in On
        /\ \A t \in Attempts \ {s} : calls'[t].phase = calls[t].phase
    BY DEF ListenersInv, LTypeOK, OnceOnStack, StepOf, Others, On
  <2>2. CASE stack' = stack /\ (calls[s].phase \in On <=> calls'[s].phase \in On)
    BY <2>1, <2>2
  <2>3. CASE stack' = Append(stack, s) /\ stack = <<>> /\ calls'[s].phase \in On
    <3>1. stack' = <<s>> /\ Len(stack') = 1 /\ DOMAIN stack' = {1} /\ stack'[1] = s
      BY <2>3
    <3>2. stack' \in Seq(Attempts) /\ Len(stack') <= 2 /\ ToSet(stack') = {s}
      BY <3>1 DEF ToSet
    <3>3. \A i, j \in 1..Len(stack') : stack'[i] = stack'[j] => i = j
      BY <3>1
    <3>4. ToSet(stack) = {}
      BY <2>3 DEF ToSet
    <3> QED BY <2>1, <2>3, <3>2, <3>3, <3>4
  <2>4. CASE stack' = Front(stack) /\ stack # <<>> /\ Last(stack) = s /\ calls'[s].phase \notin On
    <3> DEFINE new == Front(stack)
    <3>1. /\ new \in Seq(Attempts) /\ Len(new) = Len(stack) - 1
          /\ ToSet(new) = ToSet(stack) \ {Last(stack)}
          /\ \A i, j \in 1..(Len(stack) - 1) : new[i] = new[j] => i = j
      BY <2>1, <2>4, Popped, Zenon
    <3>2. stack' = new
      BY <2>4
    <3>3. Len(stack) \in Nat
      BY <2>1
    <3> HIDE DEF new
    <3>4. stack' \in Seq(Attempts) /\ Len(stack') <= 2
      BY <2>1, <3>1, <3>2, <3>3
    <3>5. \A i, j \in 1..Len(stack') : stack'[i] = stack'[j] => i = j
      BY <3>1, <3>2, <3>3
    <3>6. \A t \in Attempts : t \in ToSet(stack') <=> calls'[t].phase \in On
      BY <2>1, <2>4, <3>1, <3>2
    <3> QED BY <3>4, <3>5, <3>6
  <2> QED BY <2>2, <2>3, <2>4 DEF StepOf, KeepsPlace, On
<1>2. /\ {current', active', server'} \subseteq Attempts \cup {Nobody}
      /\ active' \in {current', Nobody}
  BY DEF StepOf, ListenersInv, LTypeOK, OnceOnStack, Freed
<1>3. LTypeOK' /\ OnceOnStack'
  BY <1>1, <1>2 DEF StepOf, ListenersInv, LTypeOK, OnceOnStack
<1>4. BusyIsTrue'
  BY DEF StepOf, Others, ListenersInv, BusyIsTrue, LTypeOK
<1>5. UndisturbedIsCurrent'
  <2> SUFFICES ASSUME NEW t \in Attempts, Undisturbed(t)', t # s
               PROVE  current' = t /\ active' = t /\ status' \in Busy /\ ~disposed'
    BY DEF UndisturbedIsCurrent, StepOf
  <2>1. Undisturbed(t)
    BY DEF StepOf, Others, Undisturbed, Underway, ListenersInv, LTypeOK, CallType
  <2>2. current = t /\ active = t /\ status \in Busy /\ ~disposed
    BY <2>1 DEF ListenersInv, UndisturbedIsCurrent
  <2>3. status' = status
    BY <2>1, <2>2 DEF StepOf, Others, Undisturbed
  <2> QED BY <2>2, <2>3 DEF StepOf, Freed
<1>6. CaughtInWrites'
  BY DEF StepOf, Others, ListenersInv, CaughtInWrites
<1> QED BY <1>3, <1>4, <1>5, <1>6 DEF ListenersInv

(* A write: what it does to s is x, to the status new.                   *)
LEMMA Writing ==
    ASSUME NEW s \in Attempts, NEW x \in CallType, NEW new, ListenersInv,
           Wrote(s, x, new), current' = current
    PROVE  /\ calls' \in [Attempts -> CallType] /\ calls'[s] = x /\ Others(s)
           /\ status' = new /\ told' \in BOOLEAN
<1>1. calls \in [Attempts -> CallType]
  BY DEF ListenersInv, LTypeOK
<1>2. \A t \in Attempts : [calls[t] EXCEPT !.hidden =
            @ \/ (new # status /\ t = current' /\ Underway(t))] \in CallType
  <2> SUFFICES ASSUME NEW t \in Attempts
               PROVE  [calls[t] EXCEPT !.hidden =
                        @ \/ (new # status /\ t = current' /\ Underway(t))] \in CallType
    OBVIOUS
  <2> DEFINE h == calls[t].hidden \/ (new # status /\ t = current' /\ Underway(t))
  <2>1. h \in BOOLEAN
    BY Zenon
  <2> HIDE DEF h
  <2>2. [calls[t] EXCEPT !.hidden = h] \in CallType
    BY <1>1, <2>1 DEF CallType
  <2> QED BY <2>2 DEF h
<1>3. calls' \in [Attempts -> CallType] /\ calls'[s] = x
  BY <1>1, <1>2 DEF Wrote
<1>4. Others(s)
  <2> SUFFICES ASSUME NEW t \in Attempts \ {s}
               PROVE  /\ calls'[t].phase = calls[t].phase /\ calls'[t].left = calls[t].left
                      /\ calls'[t].aborted = calls[t].aborted /\ calls'[t].caught = calls[t].caught
                      /\ calls[t].hidden => calls'[t].hidden
                      /\ status' # status /\ t = current /\ Underway(t) => calls'[t].hidden
    BY DEF Others
  <2> DEFINE h == calls[t].hidden \/ (new # status /\ t = current' /\ Underway(t))
  <2>1. h \in BOOLEAN
    BY Zenon
  <2>2. calls'[t] = [calls[t] EXCEPT !.hidden = h]
    BY Zenon DEF Wrote
  <2>3. calls[t] \in CallType
    BY <1>1
  <2>4. status' = new
    BY DEF Wrote
  <2>5. (calls[t].hidden => h) /\ (new # status /\ t = current /\ Underway(t) => h)
    BY Zenon
  <2> HIDE DEF h
  <2>6. calls'[t].hidden = h
    BY <2>1, <2>2, <2>3 DEF CallType
  <2>7. /\ calls'[t].phase = calls[t].phase /\ calls'[t].left = calls[t].left
        /\ calls'[t].aborted = calls[t].aborted /\ calls'[t].caught = calls[t].caught
    BY <2>2, <2>3 DEF CallType
  <2> QED BY <2>4, <2>5, <2>6, <2>7
<1>5. told' \in BOOLEAN
  BY Zenon DEF Wrote
<1> QED BY <1>3, <1>4, <1>5 DEF Wrote

(* A step that writes no status.                                         *)
LEMMA Marking ==
    ASSUME NEW s \in Attempts, NEW x \in CallType, ListenersInv,
           calls' = [calls EXCEPT ![s] = x], status' = status
    PROVE  calls' \in [Attempts -> CallType] /\ calls'[s] = x /\ Others(s)
<1>1. calls \in [Attempts -> CallType]
  BY DEF ListenersInv, LTypeOK
<1> QED BY <1>1 DEF Others

(* Records of calls after a step.                                        *)
LEMMA Marks ==
    ASSUME NEW x \in CallType
    PROVE  /\ \A ph \in Passing \cup {"awaiting", "acting", "leaving", "over"} :
                At(x, ph) \in CallType /\ At(x, ph).phase = ph
                /\ At(x, ph).left = x.left /\ At(x, ph).aborted = x.aborted
                /\ At(x, ph).caught = x.caught /\ At(x, ph).hidden = x.hidden
           /\ \A o \in {"cancelled", "invalid", "unvalidated", "threw", "succeeded", "server-invalid"} :
                Leaving(x, o) \in CallType /\ Leaving(x, o).phase = "leaving"
                /\ Leaving(x, o).left = x.left /\ Leaving(x, o).aborted = x.aborted
                /\ Leaving(x, o).caught = x.caught /\ Leaving(x, o).hidden = x.hidden
BY DEF CallType, At, Leaving, Passing

(* What the invariant says of one call.                                  *)
LEMMA CallFacts ==
    ASSUME NEW s \in Attempts, Nobody \notin Attempts, ListenersInv
    PROVE  /\ calls[s] \in CallType
           /\ calls[s].left => calls[s].phase = "over"
           /\ status \in Busy /\ ~disposed /\ current = s =>
                calls[s].left \/ calls[s].phase \in PhasesOf(status)
           /\ current = s /\ calls[s].aborted => status \notin Busy
           /\ Undisturbed(s) => current = s /\ active = s /\ status \in Busy /\ ~disposed
           /\ calls[s].phase \in {"entered", "routed"} => current = s \/ calls[s].caught
           /\ status \in Busy \cup {"idle", "succeeded", "failed", "cancelled"}
           /\ told \in BOOLEAN
BY DEF ListenersInv, LTypeOK, BusyIsTrue, UndisturbedIsCurrent, CaughtInWrites

LEMMA ClearStep ==
    ASSUME NEW s \in Attempts, Nobody \notin Attempts, ListenersInv, Clear(s) PROVE StepOf(s)
<1> DEFINE x == At(calls[s], "cleared")
<1>1. calls[s] \in CallType
  BY CallFacts
<1>2. x \in CallType /\ x.phase = "cleared" /\ x.left = calls[s].left
      /\ x.aborted = calls[s].aborted /\ x.hidden = calls[s].hidden /\ x.caught = calls[s].caught
  BY <1>1, Marks DEF Passing
<1> HIDE DEF x
<1>3. calls' = [calls EXCEPT ![s] = x] /\ status' = status
  BY DEF Clear, x
<1>4. calls' \in [Attempts -> CallType] /\ calls'[s] = x /\ Others(s)
  BY <1>2, <1>3, Marking
<1>5. calls[s].phase = "started" /\ stack' = stack /\ current' = current /\ disposed' = disposed
      /\ active' = active /\ server' = Nobody /\ status' = status /\ told' \in BOOLEAN
  BY DEF Clear, OnTop
<1> QED
  BY <1>2, <1>4, <1>5, CallFacts
  DEF StepOf, KeepsPlace, Passing, Before, PhasesOf, Undisturbed, Underway

LEMMA ValidateFieldsStep ==
    ASSUME NEW s \in Attempts, Nobody \notin Attempts, ListenersInv, ValidateFields(s) PROVE StepOf(s)
<1>1. calls[s] \in CallType
  BY CallFacts
<1> DEFINE x == At(calls[s], "validated")
<1>2. x \in CallType /\ x.phase = "validated" /\ x.left = calls[s].left
      /\ x.aborted = calls[s].aborted /\ x.hidden = calls[s].hidden /\ x.caught = calls[s].caught
  BY <1>1, Marks DEF Passing
<1> HIDE DEF x
<1>3. calls' = [calls EXCEPT ![s] = x] /\ status' = status
  BY DEF ValidateFields, x
<1>4. calls' \in [Attempts -> CallType] /\ calls'[s] = x /\ Others(s)
  BY <1>2, <1>3, Marking
<1>5. calls[s].phase = "cleared" /\ stack' = stack /\ current' = current /\ disposed' = disposed
      /\ active' = active /\ server' = server /\ status' = status /\ told' \in BOOLEAN
  BY CallFacts DEF ValidateFields, OnTop, Resumed, NotWanted
<1> QED
  BY <1>2, <1>4, <1>5, CallFacts
  DEF StepOf, KeepsPlace, Passing, Before, PhasesOf, Undisturbed, Underway

LEMMA AwaitStep ==
    ASSUME NEW s \in Attempts, Nobody \notin Attempts, ListenersInv, Await(s) PROVE StepOf(s)
<1>1. calls[s] \in CallType
  BY CallFacts
<1> DEFINE x == At(calls[s], "awaiting")
<1>2. x \in CallType /\ x.phase = "awaiting" /\ x.left = calls[s].left
      /\ x.aborted = calls[s].aborted /\ x.hidden = calls[s].hidden /\ x.caught = calls[s].caught
  BY <1>1, Marks DEF Passing
<1> HIDE DEF x
<1>3. calls' = [calls EXCEPT ![s] = x] /\ status' = status
  BY DEF Await, x
<1>4. calls' \in [Attempts -> CallType] /\ calls'[s] = x /\ Others(s)
  BY <1>2, <1>3, Marking
<1>5. calls[s].phase = "validated" /\ stack # <<>> /\ Last(stack) = s
      /\ stack' = Front(stack) /\ current' = current /\ disposed' = disposed
      /\ active' = active /\ server' = server /\ status' = status /\ told' \in BOOLEAN
  BY CallFacts DEF Await, OnTop, Resumed, NotWanted
<1> QED
  BY <1>2, <1>4, <1>5, CallFacts
  DEF StepOf, KeepsPlace, Passing, Before, PhasesOf, Undisturbed, Underway

LEMMA CallActionStep ==
    ASSUME NEW s \in Attempts, Nobody \notin Attempts, ListenersInv, CallAction(s) PROVE StepOf(s)
<1>1. calls[s] \in CallType
  BY CallFacts
<1> DEFINE x == At(calls[s], "acting")
<1>2. x \in CallType /\ x.phase = "acting" /\ x.left = calls[s].left
      /\ x.aborted = calls[s].aborted /\ x.hidden = calls[s].hidden /\ x.caught = calls[s].caught
  BY <1>1, Marks DEF Passing
<1> HIDE DEF x
<1>3. calls' = [calls EXCEPT ![s] = x] /\ status' = status
  BY DEF CallAction, x
<1>4. calls' \in [Attempts -> CallType] /\ calls'[s] = x /\ Others(s)
  BY <1>2, <1>3, Marking
<1>5. calls[s].phase = "entered" /\ stack # <<>> /\ Last(stack) = s
      /\ stack' = Front(stack) /\ current' = current /\ disposed' = disposed
      /\ active' = active /\ server' = server /\ status' = status /\ told' \in BOOLEAN
  BY CallFacts DEF CallAction, OnTop, Resumed, NotWanted
<1> QED
  BY <1>2, <1>4, <1>5, CallFacts
  DEF StepOf, KeepsPlace, Passing, Before, PhasesOf, Undisturbed, Underway

LEMMA RouteStep ==
    ASSUME NEW s \in Attempts, Nobody \notin Attempts, ListenersInv, Route(s) PROVE StepOf(s)
<1>1. calls[s] \in CallType
  BY CallFacts
<1> DEFINE x == At(calls[s], "routed")
<1>2. x \in CallType /\ x.phase = "routed" /\ x.left = calls[s].left
      /\ x.aborted = calls[s].aborted /\ x.hidden = calls[s].hidden /\ x.caught = calls[s].caught
  BY <1>1, Marks DEF Passing
<1> HIDE DEF x
<1>3. calls' = [calls EXCEPT ![s] = x] /\ status' = status
  BY DEF Route, x
<1>4. calls' \in [Attempts -> CallType] /\ calls'[s] = x /\ Others(s)
  BY <1>2, <1>3, Marking
<1>5. calls[s].phase = "acting" /\ stack = <<>> /\ stack' = <<s>> /\ current' = current /\ disposed' = disposed
      /\ current = s /\ ~disposed
      /\ active' = active /\ server' = s /\ status' = status /\ told' \in BOOLEAN
  BY CallFacts DEF Route, OnTop, Resumed, NotWanted
<1> QED
  BY <1>2, <1>4, <1>5, CallFacts
  DEF StepOf, KeepsPlace, Passing, Before, PhasesOf, Undisturbed, Underway

(* Every write of s: the record it leaves is x, the status is new.       *)
LEMMA WriteStep ==
    ASSUME NEW s \in Attempts, Nobody \notin Attempts, ListenersInv,
           NEW x \in CallType, NEW new, Wrote(s, x, new),
           \/ stack' = stack /\ stack # <<>> /\ calls[s].phase \in Passing \cup {"leaving"}
           \/ stack' = Append(stack, s) /\ stack = <<>>,
           x.phase \in Passing \cup {"leaving"}, ~x.left,
           current' = current, disposed' = disposed, active' \in {active, Freed(s)},
           server' \in {server, s, Nobody},
           \/ x.phase = "leaving" /\ (current = s /\ ~disposed => new \notin Busy)
              /\ (new = status \/ new \notin Busy)
              /\ (current = s /\ x.aborted => new \notin Busy)
           \/ x.phase = "entered" /\ new = "submitting" /\ current = s /\ ~disposed
              /\ ~x.aborted /\ (x.hidden \/ active' = s),
           new \in Busy \cup {"idle", "succeeded", "failed", "cancelled"}
    PROVE  StepOf(s)
<1>1. calls' \in [Attempts -> CallType] /\ calls'[s] = x /\ Others(s) /\ status' = new
      /\ told' \in BOOLEAN
  BY Writing
<1>2. KeepsPlace(s)
  BY <1>1 DEF KeepsPlace
<1>3. Undisturbed(s)' => current = s /\ active' = s /\ status' \in Busy /\ ~disposed
  BY <1>1 DEF Undisturbed, Underway, Passing, Busy
<1>4. current = s /\ status' \in Busy /\ ~disposed => calls'[s].phase \in PhasesOf(status')
  BY <1>1 DEF PhasesOf, Before, Busy
<1>5. current = s /\ calls'[s].aborted => status' \notin Busy
  BY <1>1
<1>6. calls'[s].phase \in {"entered", "routed"} => current = s
  BY <1>1
<1>7. status' \in Busy => status' = status \/ current = s
  BY <1>1
<1> QED
  BY <1>1, <1>2, <1>3, <1>4, <1>5, <1>6, <1>7 DEF StepOf

LEMMA CaughtStep ==
    ASSUME NEW s \in Attempts, Nobody \notin Attempts, ListenersInv, Caught(s),
           \/ stack # <<>> /\ Last(stack) = s /\ calls[s].phase \in {"cleared", "validated"}
           \/ stack = <<>> /\ calls[s].phase = "awaiting"
    PROVE  StepOf(s)
<1> DEFINE x == Leaving(calls[s], "unvalidated")
           new == IF current = s /\ ~calls[s].aborted /\ ~disposed THEN "failed" ELSE status
<1>1. /\ calls[s] \in CallType /\ ~calls[s].left
      /\ current = s /\ calls[s].aborted => status \notin Busy
      /\ status \in Busy \cup {"idle", "succeeded", "failed", "cancelled"}
  BY CallFacts
<1>2. x \in CallType /\ x.phase = "leaving" /\ x.left = calls[s].left
      /\ x.aborted = calls[s].aborted
  BY <1>1, Marks
<1>3. /\ Wrote(s, x, new) /\ current' = current /\ disposed' = disposed /\ active' = active
      /\ server' = server /\ stack' = Entered(s)
  BY DEF Caught
<1>4. \/ stack' = stack /\ stack # <<>> /\ calls[s].phase \in Passing \cup {"leaving"}
      \/ stack' = Append(stack, s) /\ stack = <<>>
  BY <1>3 DEF Entered, Passing
<1>5. /\ current = s /\ ~disposed => new \notin Busy
      /\ new = status \/ new \notin Busy
      /\ current = s /\ x.aborted => new \notin Busy
      /\ new \in Busy \cup {"idle", "succeeded", "failed", "cancelled"}
  BY <1>1, <1>2 DEF Busy
<1>6. ~x.left
  BY <1>1, <1>2
<1> HIDE DEF x, new
<1> QED BY <1>2, <1>3, <1>4, <1>5, <1>6, WriteStep

LEMMA ValidationThrowsStep ==
    ASSUME NEW s \in Attempts, Nobody \notin Attempts, ListenersInv,
           ValidationThrows(s) \/ ThrownInValidation(s)
    PROVE  StepOf(s)
<1>1. \/ stack # <<>> /\ Last(stack) = s /\ calls[s].phase \in {"cleared", "validated"}
      \/ stack = <<>> /\ calls[s].phase = "awaiting"
  <2>1. CASE ValidationThrows(s)
    BY <2>1 DEF ValidationThrows, OnTop, Resumed
  <2>2. CASE ThrownInValidation(s)
    BY <2>2 DEF ThrownInValidation, Thrown, Last
  <2> QED BY <2>1, <2>2
<1> QED BY <1>1, CaughtStep DEF ValidationThrows, ThrownInValidation

LEMMA PassGateStep ==
    ASSUME NEW s \in Attempts, Nobody \notin Attempts, ListenersInv, PassGate(s) PROVE StepOf(s)
<1>1. /\ calls[s] \in CallType /\ ~calls[s].left
      /\ calls[s].phase \in {"validated", "awaiting"}
      /\ current' = current /\ disposed' = disposed /\ server' = server /\ ~disposed
      /\ Undisturbed(s) => active = s
  BY CallFacts DEF PassGate, OnTop, Resumed
<1>2. \/ stack' = stack /\ stack # <<>> /\ calls[s].phase \in Passing \cup {"leaving"}
      \/ stack' = Append(stack, s) /\ stack = <<>>
  BY DEF PassGate, OnTop, Resumed, Entered, Passing
<1>3. CASE /\ active' = Freed(s)
           /\ Wrote(s, [Leaving(calls[s], "cancelled") EXCEPT !.aborted = @ \/ active = s],
                    "cancelled")
  <2> DEFINE y == Leaving(calls[s], "cancelled")
             given == y.aborted \/ active = s
             x == [y EXCEPT !.aborted = given]
  <2>1. y \in CallType /\ y.phase = "leaving" /\ y.left = calls[s].left
    BY <1>1, Marks
  <2>2. given \in BOOLEAN
    BY Zenon
  <2> HIDE DEF y, given
  <2>3. x \in CallType /\ x.phase = "leaving" /\ x.left = y.left
    BY <2>1, <2>2 DEF CallType
  <2>4. Wrote(s, x, "cancelled")
    BY <1>3 DEF y, given
  <2> HIDE DEF x
  <2> QED BY <1>1, <1>2, <1>3, <2>1, <2>3, <2>4, WriteStep DEF Busy
<1>4. CASE ~Outdated(s) /\ active' = active /\ Wrote(s, Leaving(calls[s], "invalid"), "idle")
  <2> DEFINE x == Leaving(calls[s], "invalid")
  <2>1. x \in CallType /\ x.phase = "leaving" /\ x.left = calls[s].left
    BY <1>1, Marks
  <2> HIDE DEF x
  <2>2. Wrote(s, x, "idle")
    BY <1>4 DEF x
  <2> QED BY <1>1, <1>2, <1>4, <2>1, <2>2, WriteStep DEF Busy
<1>5. CASE ~Outdated(s) /\ active' = active /\ Wrote(s, At(calls[s], "entered"), "submitting")
  <2> DEFINE x == At(calls[s], "entered")
  <2>1. x \in CallType /\ x.phase = "entered" /\ x.left = calls[s].left
        /\ x.aborted = calls[s].aborted /\ x.hidden = calls[s].hidden
    BY <1>1, Marks DEF Passing
  <2> HIDE DEF x
  <2>2. Wrote(s, x, "submitting")
    BY <1>5 DEF x
  <2>3. current = s /\ ~calls[s].aborted
    BY <1>5 DEF Outdated
  <2>4. calls[s].hidden \/ active = s
    BY <1>1, <2>3 DEF Undisturbed, Underway, Passing
  <2> QED BY <1>1, <1>2, <1>5, <2>1, <2>2, <2>3, <2>4, WriteStep DEF Busy, Passing
<1> QED BY <1>3, <1>4, <1>5 DEF PassGate

LEMMA SucceedStep ==
    ASSUME NEW s \in Attempts, Nobody \notin Attempts, ListenersInv, Succeed(s) PROVE StepOf(s)
<1> DEFINE x == Leaving(calls[s], "succeeded")
<1>1. /\ calls[s] \in CallType /\ ~calls[s].left /\ calls[s].phase = "entered"
      /\ current' = current /\ disposed' = disposed /\ server' = server
      /\ stack' = stack /\ stack # <<>> /\ active' \in {active, Freed(s)}
  BY CallFacts DEF Succeed, OnTop
<1>2. x \in CallType /\ x.phase = "leaving" /\ x.left = calls[s].left
  BY <1>1, Marks
<1>3. Wrote(s, x, "succeeded")
  BY DEF Succeed
<1> HIDE DEF x
<1> QED BY <1>1, <1>2, <1>3, WriteStep DEF Passing, Busy

LEMMA RejectedStep ==
    ASSUME NEW s \in Attempts, Nobody \notin Attempts, ListenersInv, Rejected(s) PROVE StepOf(s)
<1> DEFINE x == Leaving(calls[s], "server-invalid")
<1>1. /\ calls[s] \in CallType /\ ~calls[s].left /\ calls[s].phase = "routed"
      /\ current' = current /\ disposed' = disposed /\ server' = server
      /\ stack' = stack /\ stack # <<>> /\ active' \in {active, Freed(s)}
  BY CallFacts DEF Rejected, OnTop
<1>2. x \in CallType /\ x.phase = "leaving" /\ x.left = calls[s].left
  BY <1>1, Marks
<1>3. Wrote(s, x, "failed")
  BY DEF Rejected
<1> HIDE DEF x
<1> QED BY <1>1, <1>2, <1>3, WriteStep DEF Passing, Busy

LEMMA ActionSettlesStep ==
    ASSUME NEW s \in Attempts, Nobody \notin Attempts, ListenersInv, ActionSettles(s)
    PROVE  StepOf(s)
<1>1. /\ calls[s] \in CallType /\ ~calls[s].left /\ calls[s].phase = "acting"
      /\ current' = current /\ disposed' = disposed /\ server' = server
      /\ stack' = Append(stack, s) /\ stack = <<>> /\ active' = active
  BY CallFacts DEF ActionSettles, Resumed
<1>2. PICK o \in {"succeeded", "cancelled", "threw"}, new \in {"succeeded", "cancelled", "failed"} :
        Wrote(s, Leaving(calls[s], o), new)
  BY DEF ActionSettles
<1> DEFINE x == Leaving(calls[s], o)
<1>3. x \in CallType /\ x.phase = "leaving" /\ x.left = calls[s].left
  BY <1>1, Marks
<1>4. Wrote(s, x, new)
  BY <1>2
<1> HIDE DEF x
<1> QED BY <1>1, <1>3, <1>4, WriteStep DEF Passing, Busy

LEMMA ThrownInResultStep ==
    ASSUME NEW s \in Attempts, Nobody \notin Attempts, ListenersInv, ThrownInResult(s)
    PROVE  StepOf(s)
<1>1. /\ calls[s] \in CallType /\ ~calls[s].left /\ calls[s].phase \in {"routed", "leaving"}
      /\ current' = current /\ disposed' = disposed /\ server' = server
      /\ stack' = stack /\ stack # <<>> /\ active' = active
      /\ status \in Busy \cup {"idle", "succeeded", "failed", "cancelled"}
  BY CallFacts DEF ThrownInResult, Thrown
<1>2. CASE (current # s \/ disposed) /\ Wrote(s, Leaving(calls[s], "cancelled"), status)
  <2> DEFINE x == Leaving(calls[s], "cancelled")
  <2>1. x \in CallType /\ x.phase = "leaving" /\ x.left = calls[s].left
        /\ x.aborted = calls[s].aborted
    BY <1>1, Marks
  <2>2. Wrote(s, x, status)
    BY <1>2
  <2>3. current = s /\ calls[s].aborted => status \notin Busy
    BY CallFacts
  <2> HIDE DEF x
  <2> QED BY <1>1, <1>2, <2>1, <2>2, <2>3, WriteStep DEF Passing
<1>3. CASE Wrote(s, Leaving(calls[s], "threw"), "failed")
  <2> DEFINE x == Leaving(calls[s], "threw")
  <2>1. x \in CallType /\ x.phase = "leaving" /\ x.left = calls[s].left
    BY <1>1, Marks
  <2>2. Wrote(s, x, "failed")
    BY <1>3
  <2> HIDE DEF x
  <2> QED BY <1>1, <2>1, <2>2, WriteStep DEF Passing, Busy
<1> QED BY <1>2, <1>3 DEF ThrownInResult

LEMMA LeaveStep ==
    ASSUME NEW s \in Attempts, Nobody \notin Attempts, ListenersInv, Leave(s) PROVE StepOf(s)
<1> DEFINE x == At(calls[s], "over")
<1>1. calls[s] \in CallType
  BY CallFacts
<1>2. x \in CallType /\ x.phase = "over" /\ x.left = calls[s].left
      /\ x.aborted = calls[s].aborted /\ x.hidden = calls[s].hidden /\ x.caught = calls[s].caught
  BY <1>1, Marks DEF Passing
<1>3. calls' = [calls EXCEPT ![s] = x] /\ status' = status
  BY DEF Leave, At
<1> HIDE DEF x
<1>4. calls' \in [Attempts -> CallType] /\ calls'[s] = x /\ Others(s)
  BY <1>2, <1>3, Marking
<1>5. calls[s].phase = "leaving" /\ stack # <<>> /\ Last(stack) = s
      /\ stack' = Front(stack) /\ current' = current /\ disposed' = disposed
      /\ active' = Freed(s) /\ server' = server /\ status' = status /\ told' \in BOOLEAN
  BY CallFacts DEF Leave, OnTop
<1> QED
  BY <1>2, <1>4, <1>5, CallFacts
  DEF StepOf, KeepsPlace, Passing, Before, PhasesOf, Undisturbed, Underway

LEMMA ActionIgnoredStep ==
    ASSUME NEW s \in Attempts, Nobody \notin Attempts, ListenersInv, ActionIgnored(s)
    PROVE  StepOf(s)
<1> DEFINE y == At(calls[s], "over")
           x == [y EXCEPT !.outcome = "cancelled"]
<1>1. calls[s] \in CallType
  BY CallFacts
<1>2. y \in CallType /\ y.phase = "over" /\ y.left = calls[s].left
      /\ y.aborted = calls[s].aborted /\ y.hidden = calls[s].hidden /\ y.caught = calls[s].caught
  BY <1>1, Marks DEF Passing
<1>3. calls' = [calls EXCEPT ![s] = x] /\ status' = status
  BY DEF ActionIgnored
<1> HIDE DEF y
<1>4. x \in CallType /\ x.phase = "over" /\ x.left = calls[s].left
      /\ x.aborted = calls[s].aborted /\ x.hidden = calls[s].hidden /\ x.caught = calls[s].caught
  BY <1>2 DEF CallType
<1> HIDE DEF x
<1>5. calls' \in [Attempts -> CallType] /\ calls'[s] = x /\ Others(s)
  BY <1>3, <1>4, Marking
<1>6. calls[s].phase = "acting" /\ (current # s \/ calls[s].aborted \/ disposed)
      /\ stack' = stack /\ current' = current /\ disposed' = disposed
      /\ active' = Freed(s) /\ server' = server /\ status' = status /\ told' \in BOOLEAN
  BY CallFacts DEF ActionIgnored, Resumed, NotWanted
<1> QED
  BY <1>4, <1>5, <1>6, CallFacts
  DEF StepOf, KeepsPlace, Passing, Before, PhasesOf, Undisturbed, Underway

LEMMA ThrownOutStep ==
    ASSUME NEW s \in Attempts, Nobody \notin Attempts, ListenersInv, ThrownOut(s)
    PROVE  StepOf(s)
<1> DEFINE y == At(calls[s], "over")
           out == calls[s].phase # "leaving"
           x == [y EXCEPT !.outcome = "threw", !.left = out]
<1>1. calls[s] \in CallType
  BY CallFacts
<1>2. y \in CallType /\ y.phase = "over"
      /\ y.aborted = calls[s].aborted /\ y.hidden = calls[s].hidden /\ y.caught = calls[s].caught
  BY <1>1, Marks
<1>3. calls' = [calls EXCEPT ![s] = x] /\ status' = status
  BY DEF ThrownOut
<1>a. out \in BOOLEAN /\ (calls[s].phase # "leaving" => out)
  BY Zenon
<1> HIDE DEF y, out
<1>4. x \in CallType /\ x.phase = "over" /\ x.left = out
      /\ x.aborted = calls[s].aborted /\ x.hidden = calls[s].hidden /\ x.caught = calls[s].caught
  BY <1>2, <1>a DEF CallType
<1> HIDE DEF x
<1>5. calls' \in [Attempts -> CallType] /\ calls'[s] = x /\ Others(s)
  BY <1>3, <1>4, Marking
<1>6. calls[s].phase \in {"started", "cleared", "entered", "leaving"} /\ stack = <<s>>
      /\ stack' = <<>> /\ current' = current /\ disposed' = disposed
      /\ active' \in {active, Freed(s)} /\ server' = server /\ status' = status /\ told' \in BOOLEAN
  BY CallFacts DEF ThrownOut, Thrown
<1>7. stack' = Front(stack) /\ stack # <<>> /\ Last(stack) = s
  BY <1>6 DEF Front, Last
<1> QED
  BY <1>a, <1>4, <1>5, <1>6, <1>7, CallFacts
  DEF StepOf, KeepsPlace, Passing, Before, PhasesOf, Undisturbed, Underway

-----------------------------------------------------------------------------
(* Calls of the form: they abort what Aborted says, and leave the stack. *)
LEMMA Aborting ==
    ASSUME ListenersInv, NEW x
    PROVE  /\ Aborted(x) \in [Attempts -> CallType]
           /\ \A t \in Attempts :
                /\ Aborted(x)[t].phase = calls[t].phase /\ Aborted(x)[t].left = calls[t].left
                /\ Aborted(x)[t].hidden = calls[t].hidden
                /\ calls[t].aborted => Aborted(x)[t].aborted
                /\ t = x => Aborted(x)[t].aborted
                /\ calls[t].caught => Aborted(x)[t].caught
                /\ t \in ToSet(stack) /\ t = current => Aborted(x)[t].caught
<1> DEFINE a(u) == calls[u].aborted \/ u = x
           c(u) == calls[u].caught \/ (u \in ToSet(stack) /\ u = current)
<1>1. \A u \in Attempts : a(u) \in BOOLEAN /\ c(u) \in BOOLEAN
  BY Zenon
<1>2. \A t \in Attempts :
        /\ calls[t].aborted \/ t = x => a(t)
        /\ calls[t].caught => c(t)
        /\ t \in ToSet(stack) /\ t = current => c(t)
  BY Zenon
<1>3. Aborted(x) = [u \in Attempts |-> [calls[u] EXCEPT !.aborted = a(u), !.caught = c(u)]]
  BY Zenon DEF Aborted
<1>4. calls \in [Attempts -> CallType]
  BY DEF ListenersInv, LTypeOK
<1> HIDE DEF a, c
<1>5. \A u \in Attempts : [calls[u] EXCEPT !.aborted = a(u), !.caught = c(u)] \in CallType
  <2> TAKE u \in Attempts
  <2>1. calls[u] \in CallType /\ a(u) \in BOOLEAN /\ c(u) \in BOOLEAN
    BY <1>1, <1>4, Zenon
  <2> QED BY <2>1, Zenon DEF CallType
<1>6. Aborted(x) \in [Attempts -> CallType]
  BY <1>3, <1>5
<1>7. \A t \in Attempts :
        /\ Aborted(x)[t].phase = calls[t].phase /\ Aborted(x)[t].left = calls[t].left
        /\ Aborted(x)[t].hidden = calls[t].hidden
        /\ Aborted(x)[t].aborted = a(t) /\ Aborted(x)[t].caught = c(t)
  <2> SUFFICES ASSUME NEW t \in Attempts
               PROVE  /\ Aborted(x)[t].phase = calls[t].phase
                      /\ Aborted(x)[t].left = calls[t].left
                      /\ Aborted(x)[t].hidden = calls[t].hidden
                      /\ Aborted(x)[t].aborted = a(t) /\ Aborted(x)[t].caught = c(t)
    OBVIOUS
  <2>1. Aborted(x)[t] = [calls[t] EXCEPT !.aborted = a(t), !.caught = c(t)]
    BY <1>3
  <2> QED BY <1>1, <1>4, <2>1 DEF CallType
<1> QED BY <1>2, <1>6, <1>7

LEMMA StopInv ==
    ASSUME Nobody \notin Attempts, ListenersInv, CancelSubmit \/ Reset \/ Dispose
    PROVE  ListenersInv'
<1>1. /\ calls' = Aborted(active) /\ active' = Nobody /\ current' = Nobody
      /\ stack' = stack /\ told' = told /\ server' \in {server, Nobody}
      /\ disposed' \in BOOLEAN /\ ((status' = status /\ disposed') \/ status' \in {"cancelled", "idle"})
  BY DEF CancelSubmit, Reset, Dispose, ListenersInv, LTypeOK
<1>2. calls' \in [Attempts -> CallType] /\ \A t \in Attempts :
        /\ calls'[t].phase = calls[t].phase /\ calls'[t].left = calls[t].left
        /\ calls'[t].hidden = calls[t].hidden
        /\ calls[t].aborted => calls'[t].aborted
        /\ t = active => calls'[t].aborted
        /\ calls[t].caught => calls'[t].caught
        /\ t \in ToSet(stack) /\ t = current => calls'[t].caught
  BY <1>1, Aborting
<1>3. LTypeOK' /\ OnceOnStack'
  BY <1>1, <1>2 DEF ListenersInv, LTypeOK, OnceOnStack, Busy
<1>4. BusyIsTrue'
  BY <1>1, <1>2 DEF ListenersInv, BusyIsTrue, Busy
<1>5. UndisturbedIsCurrent'
  BY <1>1, <1>2 DEF ListenersInv, UndisturbedIsCurrent, Undisturbed, Underway
<1>6. CaughtInWrites'
  BY <1>1, <1>2 DEF ListenersInv, CaughtInWrites, LTypeOK, Passing
<1> QED BY <1>3, <1>4, <1>5, <1>6 DEF ListenersInv

LEMMA EditInv ==
    ASSUME Nobody \notin Attempts, ListenersInv, Edit PROVE ListenersInv'
<1> DEFINE e(t) == calls[t].edited \/ calls[t].phase \in Before
<1>1. \A t \in Attempts : e(t) \in BOOLEAN
  BY Zenon
<1>2. calls' = [t \in Attempts |-> [calls[t] EXCEPT !.edited = e(t)]]
  BY Zenon DEF Edit
<1>3. calls \in [Attempts -> CallType]
  BY DEF ListenersInv, LTypeOK
<1> HIDE DEF e
<1>4. calls' \in [Attempts -> CallType] /\ \A t \in Attempts :
        /\ calls'[t].phase = calls[t].phase /\ calls'[t].left = calls[t].left
        /\ calls'[t].hidden = calls[t].hidden /\ calls'[t].aborted = calls[t].aborted
        /\ calls'[t].caught = calls[t].caught
  BY <1>1, <1>2, <1>3 DEF CallType
<1>5. UNCHANGED <<stack, told, current, active, status, server, disposed>>
  BY DEF Edit
<1> QED
  BY <1>4, <1>5 DEF ListenersInv, LTypeOK, OnceOnStack, BusyIsTrue, UndisturbedIsCurrent,
     Undisturbed, Underway, CaughtInWrites

LEMMA SubmitInv ==
    ASSUME NEW s \in Attempts, NEW way \in {"action", "none"}, Nobody \notin Attempts,
           ListenersInv, Submit(s, way)
    PROVE  ListenersInv'
<1> DEFINE x == [NotMade EXCEPT !.phase = "started", !.way = way]
           On == Passing \cup {"leaving"}
           gone == Supersedes
<1>1. /\ x \in CallType /\ x.phase = "started" /\ ~x.left /\ ~x.aborted /\ ~x.hidden
  BY DEF CallType, NotMade, Passing
<1>2. gone = IF status \in Busy THEN active ELSE Nobody
  BY DEF Supersedes
<1> HIDE DEF x, gone
<1>3. /\ stack' = Append(stack, s) /\ current' = s /\ active' = s
      /\ calls' = [Aborted(gone) EXCEPT ![s] = x]
      /\ status' = "validating" /\ server' = server /\ disposed' = disposed /\ ~disposed
      /\ calls[s].phase = "none"
  BY DEF Submit, x, gone
<1>4. told' \in BOOLEAN
  BY Zenon DEF Submit
<1>5. /\ calls' \in [Attempts -> CallType] /\ calls'[s] = x
      /\ \A t \in Attempts \ {s} :
            /\ calls'[t].phase = calls[t].phase /\ calls'[t].left = calls[t].left
            /\ calls'[t].hidden = calls[t].hidden
            /\ calls[t].aborted => calls'[t].aborted
            /\ t = gone => calls'[t].aborted
            /\ calls[t].caught => calls'[t].caught
            /\ t \in ToSet(stack) /\ t = current => calls'[t].caught
  <2>1. Aborted(gone) \in [Attempts -> CallType]
    BY Aborting
  <2>2. \A t \in Attempts \ {s} : calls'[t] = Aborted(gone)[t]
    BY <1>3, <2>1
  <2> QED BY <1>1, <1>3, <2>1, <2>2, Aborting
<1>6. /\ stack \in Seq(Attempts)
      /\ \A i, j \in 1..Len(stack) : stack[i] = stack[j] => i = j
      /\ \A t \in Attempts : t \in ToSet(stack) <=> calls[t].phase \in On
  BY DEF ListenersInv, LTypeOK, OnceOnStack
<1>7. s \notin ToSet(stack)
  BY <1>3, <1>6 DEF Passing
<1>8. Len(stack) <= 1 /\ Len(stack) \in Nat
  BY <1>6 DEF Submit, MayCall
<1>9. /\ stack' \in Seq(Attempts) /\ Len(stack') = Len(stack) + 1
      /\ ToSet(stack') = ToSet(stack) \cup {s}
      /\ \A i, j \in 1..(Len(stack) + 1) : stack'[i] = stack'[j] => i = j
  <2>1. LET new == Append(stack, s) IN
        /\ new \in Seq(Attempts) /\ Len(new) = Len(stack) + 1
        /\ ToSet(new) = ToSet(stack) \cup {s}
        /\ \A i, j \in 1..(Len(stack) + 1) : new[i] = new[j] => i = j
    BY <1>6, <1>7, Pushed
  <2> QED BY <1>3, <2>1
<1>10. LTypeOK'
  <2>1. \A t \in Attempts : t \in ToSet(stack') <=> calls'[t].phase \in On
    BY <1>1, <1>5, <1>6, <1>9 DEF Passing
  <2>2. server' \in Attempts \cup {Nobody}
    BY <1>3 DEF ListenersInv, LTypeOK
  <2>3. disposed' \in BOOLEAN
    BY <1>3 DEF ListenersInv, LTypeOK
  <2>4. Len(stack') <= 2
    BY <1>8, <1>9
  <2> QED BY <1>3, <1>4, <1>5, <1>9, <2>1, <2>2, <2>3, <2>4 DEF LTypeOK, Busy
<1>11. OnceOnStack'
  BY <1>3, <1>9 DEF OnceOnStack
<1>12. BusyIsTrue'
  BY <1>1, <1>3, <1>5 DEF ListenersInv, BusyIsTrue, Before, PhasesOf, Busy
<1>13. UndisturbedIsCurrent'
  <2>1. \A t \in Attempts \ {s} : ~Undisturbed(t)'
    BY <1>2, <1>5 DEF ListenersInv, UndisturbedIsCurrent, Undisturbed, Underway
  <2> QED BY <1>3, <2>1 DEF UndisturbedIsCurrent, Busy
<1>14. CaughtInWrites'
  BY <1>1, <1>3, <1>5, <1>6 DEF ListenersInv, CaughtInWrites, Passing
<1> QED BY <1>10, <1>11, <1>12, <1>13, <1>14 DEF ListenersInv

LEMMA ListenersInitInv == ASSUME Nobody \notin Attempts, LInit PROVE ListenersInv
<1>1. NotMade \in CallType /\ NotMade.phase = "none" /\ ~NotMade.left /\ ~NotMade.aborted
  BY DEF NotMade, CallType
<1>2. \A s \in Attempts : calls[s].phase = "none"
  BY <1>1 DEF LInit
<1>3. stack \in Seq(Attempts) /\ Len(stack) <= 2 /\ ToSet(stack) = {}
  BY DEF LInit, ToSet
<1>4. calls \in [Attempts -> CallType] /\ told \in BOOLEAN /\ disposed \in BOOLEAN
      /\ {current, active, server} \subseteq Attempts \cup {Nobody} /\ status = "idle"
  BY <1>1 DEF LInit
<1>5. LTypeOK
  BY <1>2, <1>3, <1>4 DEF LTypeOK, Passing
<1> QED
  BY <1>1, <1>5 DEF ListenersInv, LInit, OnceOnStack, BusyIsTrue, Busy, UndisturbedIsCurrent,
     Undisturbed, Underway, Passing, CaughtInWrites

LEMMA CallsStepInv ==
    ASSUME NEW s \in Attempts, Nobody \notin Attempts, ListenersInv,
           \/ Clear(s) \/ ValidateFields(s) \/ Await(s) \/ ValidationThrows(s)
           \/ PassGate(s) \/ Succeed(s) \/ CallAction(s)
           \/ ActionIgnored(s) \/ ActionSettles(s) \/ Route(s) \/ Rejected(s) \/ Leave(s)
           \/ ThrownOut(s) \/ ThrownInValidation(s) \/ ThrownInResult(s)
    PROVE  StepOf(s)
BY ClearStep, ValidateFieldsStep, AwaitStep, ValidationThrowsStep, PassGateStep, SucceedStep,
   CallActionStep, ActionIgnoredStep, ActionSettlesStep, RouteStep, RejectedStep, LeaveStep,
   ThrownOutStep, ThrownInResultStep

LEMMA ListenersNextInv ==
    ASSUME Nobody \notin Attempts, ListenersInv, [LNext]_lvars PROVE ListenersInv'
<1>1. CASE UNCHANGED lvars
  BY <1>1 DEF lvars, ListenersInv, LTypeOK, OnceOnStack, BusyIsTrue, UndisturbedIsCurrent,
     Undisturbed, Underway, CaughtInWrites
<1>2. ASSUME NEW s \in Attempts, NEW way \in {"action", "none"}, Submit(s, way)
      PROVE  ListenersInv'
  BY <1>2, SubmitInv
<1>3. ASSUME NEW s \in Attempts,
             \/ Clear(s) \/ ValidateFields(s) \/ Await(s) \/ ValidationThrows(s)
             \/ PassGate(s) \/ Succeed(s) \/ CallAction(s)
             \/ ActionIgnored(s) \/ ActionSettles(s) \/ Route(s) \/ Rejected(s) \/ Leave(s)
             \/ ThrownOut(s) \/ ThrownInValidation(s) \/ ThrownInResult(s)
      PROVE  ListenersInv'
  BY <1>3, CallsStepInv, StepOfKeepsInv
<1>4. CASE CancelSubmit \/ Reset \/ Dispose
  BY <1>4, StopInv
<1>5. CASE Edit
  BY <1>5, EditInv
<1> QED BY <1>1, <1>2, <1>3, <1>4, <1>5 DEF LNext

LEMMA ListenersInvariance == Nobody \notin Attempts => (LSpec => []ListenersInv)
<1> SUFFICES ASSUME Nobody \notin Attempts PROVE LSpec => []ListenersInv
  OBVIOUS
<1>1. LInit => ListenersInv
  BY ListenersInitInv
<1>2. ListenersInv /\ [LNext]_lvars => ListenersInv'
  BY ListenersNextInv
<1> QED BY <1>1, <1>2, PTL DEF LSpec

(* Whatever listeners do, the form is busy only with a call that will end *)
(* it, unless a listener threw that call out.                             *)
THEOREM NeverLeftBusyByListeners == Nobody \notin Attempts => (LSpec => []NeverLeftBusy)
<1> SUFFICES ASSUME Nobody \notin Attempts PROVE LSpec => []NeverLeftBusy
  OBVIOUS
<1>1. ListenersInv => NeverLeftBusy
  <2> SUFFICES ASSUME ListenersInv, stack = <<>>, status \in Busy, ~disposed
               PROVE  /\ current # Nobody
                      /\ Underway(current) \/ calls[current].left
                      /\ Underway(current) => (status = "submitting" <=> calls[current].phase = "acting")
    BY DEF NeverLeftBusy
  <2>1. /\ current \in Attempts
        /\ calls[current].left \/ calls[current].phase \in PhasesOf(status)
        /\ calls[current].left => calls[current].phase = "over"
    BY DEF ListenersInv, LTypeOK, BusyIsTrue
  <2>2. calls[current].phase \notin Passing \cup {"leaving"}
    <3>1. current \notin ToSet(stack)
      BY DEF ToSet
    <3> QED BY <2>1, <3>1 DEF ListenersInv, LTypeOK
  <2>3. status \in {"validating", "submitting"}
    BY DEF Busy
  <2> QED BY <2>1, <2>2, <2>3 DEF Passing, PhasesOf, Before, Underway
<1> QED BY <1>1, ListenersInvariance, PTL

(* Of two actions under way one has been aborted or lost its status to   *)
(* another call.                                                         *)
THEOREM OneActionAmongListeners == Nobody \notin Attempts => (LSpec => []OneActionWithListeners)
<1> SUFFICES ASSUME Nobody \notin Attempts PROVE LSpec => []OneActionWithListeners
  OBVIOUS
<1>1. ListenersInv => OneActionWithListeners
  BY DEF ListenersInv, UndisturbedIsCurrent, Undisturbed, Underway, OneActionWithListeners
<1> QED BY <1>1, ListenersInvariance, PTL

(* A call that lost its place while it waited writes no status but       *)
(* "cancelled" and serves no issues.                                     *)
THEOREM LateAlwaysWritesNothing == Nobody \notin Attempts => (LSpec => LateWritesNothing)
<1> SUFFICES ASSUME Nobody \notin Attempts PROVE LSpec => LateWritesNothing
  OBVIOUS
<1>1. ListenersInv /\ [LNext]_lvars => [LateWritesNothingInStep]_lvars
  <2> SUFFICES ASSUME ListenersInv, LNext, NEW s \in Attempts, current # s, ~calls[s].caught,
                      calls[s].phase \notin {"none", calls'[s].phase}
               PROVE  /\ status' \in {status, "cancelled"}
                      /\ server' # s \/ server = s
    BY DEF LateWritesNothingInStep
  <2> DEFINE Quiet == status' \in {status, "cancelled"} /\ (server' # s \/ server = s)
  <2>1. ASSUME NEW t \in Attempts, t # s, StepOf(t) PROVE FALSE
    BY <2>1 DEF StepOf, Others
  <2>2. ASSUME NEW t \in Attempts, NEW way \in {"action", "none"}, Submit(t, way) PROVE FALSE
    <3>1. t # s
      BY <2>2 DEF Submit
    <3>2. calls'[s].phase = Aborted(Supersedes)[s].phase
      BY <2>2, <3>1, Aborting DEF Submit
    <3> QED BY <3>2, Aborting
  <2>3. ASSUME CancelSubmit \/ Reset \/ Dispose PROVE FALSE
    <3>1. calls' = Aborted(active)
      BY <2>3 DEF CancelSubmit, Reset, Dispose
    <3> QED BY <3>1, Aborting
  <2>4. ASSUME Edit PROVE FALSE
    <3>1. calls'[s] = [calls[s] EXCEPT !.edited = @ \/ calls[s].phase \in Before]
      BY <2>4, Zenon DEF Edit
    <3>2. calls[s] \in CallType
      BY CallFacts
    <3> QED BY <3>1, <3>2 DEF CallType
  <2>5. CASE Clear(s)
    BY <2>5 DEF Clear, ListenersInv, LTypeOK
  <2>6. CASE ValidateFields(s) \/ Await(s) \/ CallAction(s) \/ ActionIgnored(s) \/ Leave(s)
             \/ ThrownOut(s)
    BY <2>6 DEF ValidateFields, Await, CallAction, ActionIgnored, Leave, ThrownOut
  <2>7. CASE ValidationThrows(s) \/ ThrownInValidation(s)
    BY <2>7 DEF ValidationThrows, ThrownInValidation, Caught, Wrote
  <2>8. CASE PassGate(s)
    BY <2>8 DEF PassGate, Outdated, Wrote
  <2>9. CASE Succeed(s) \/ Rejected(s)
    BY <2>9 DEF Succeed, Rejected, OnTop, ListenersInv, CaughtInWrites
  <2>10. CASE ActionSettles(s) \/ Route(s)
    BY <2>10 DEF ActionSettles, Route, NotWanted
  <2>11. CASE ThrownInResult(s)
    BY <2>11 DEF ThrownInResult, Wrote
  <2>12. ASSUME NEW t \in Attempts, t # s,
             \/ Clear(t) \/ ValidateFields(t) \/ Await(t) \/ ValidationThrows(t)
             \/ PassGate(t) \/ Succeed(t) \/ CallAction(t)
             \/ ActionIgnored(t) \/ ActionSettles(t) \/ Route(t) \/ Rejected(t) \/ Leave(t)
             \/ ThrownOut(t) \/ ThrownInValidation(t) \/ ThrownInResult(t)
         PROVE FALSE
    BY <2>1, <2>12, CallsStepInv
  <2> QED
    BY <2>2, <2>3, <2>4, <2>5, <2>6, <2>7, <2>8, <2>9, <2>10, <2>11, <2>12 DEF LNext
<1> QED BY <1>1, ListenersInvariance, PTL DEF LSpec, LateWritesNothing
=============================================================================
