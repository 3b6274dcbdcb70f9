-------------------------- MODULE Computed_proofs --------------------------
(***************************************************************************)
(* Theorems about Computed, for any cells, computeds, read functions and   *)
(* bounds: what a computed listens to, that no invalidation is lost, and   *)
(* what its subscribers have been told when the library is at rest.        *)
(***************************************************************************)
EXTENDS Computed, Notification_proofs, FiniteSetTheorems

USE DEF FlushJob, RecomputeJob

(* Read functions are what their type says, whatever they have read.       *)
WellTyped == TypedOn(Seq(Values))

Frames == [node : Computeds, reads : Seq(Values), tracked : SUBSET Nodes]

(* A step of the notification core with no read function running.          *)
CoreStep == Idle /\ (CellCall \/ CellFlushStep) /\ UNCHANGED computedVars

(* The steps that touch nothing but the evaluations in progress.           *)
Looks == (\E n \in Cells : ReadCell(n)) \/ (\E n \in Computeds : ReadClean(n) \/ ReadDirty(n))
         \/ Reevaluate
-----------------------------------------------------------------------------
(* The steps by their effect on the notification core.                     *)
LEMMA CoreStepIsNext == CoreStep => Next
BY NodesAssumption, ComputedsAssumption
   DEF CoreStep, CellCall, CellFlushStep, Next, UserCall, FlushStep

LEMMA GiveUpIsNext == GiveUp => Next
BY DEF GiveUp, Next, FlushStep

LEMMA LooksStutters == Looks => UNCHANGED vars
BY DEF Looks, ReadCell, ReadClean, ReadDirty, Reevaluate

(* Every step, for proofs by cases.                                        *)
LEMMA StepCases ==
    ASSUME [CNext]_cvars
    PROVE  \/ CoreStep \/ Looks \/ GiveUp
           \/ \E c \in Computeds : Get(c) \/ Dispose(c)
           \/ \E c \in Computeds, s \in UserSubs : Observe(c, s)
           \/ EvaluateReturn \/ EvaluateThrow
           \/ Invalidate \/ StartRecompute \/ SkipRecompute \/ FinishRecompute
           \/ UNCHANGED cvars
BY DEF CNext, CoreStep, Looks, ComputedCall, Evaluation, ComputedFlushStep

(* Computeds are nodes and subscriptions, and no cells.                    *)
LEMMA ComputedsAreNodes ==
    /\ Computeds \subseteq Nodes /\ Computeds \subseteq Subs /\ Cells \subseteq Nodes
    /\ \A c \in Computeds : c \notin UserSubs /\ c \notin Cells
BY ComputedsAssumption, InvalidatesAssumption

(* The recompute job of a computed is a job, and no flush.                 *)
LEMMA RecomputeJobType ==
    \A c \in Computeds : /\ RecomputeJob(c) \in Jobs /\ RecomputeJob(c) # None
                         /\ \A n : RecomputeJob(c) # FlushJob(n)
BY ComputedsAreNodes, NodesAssumption DEF Jobs

(* Cancelling takes one subscription out of a Set.                         *)
LEMMA DropProperties ==
    ASSUME NEW S, NEW s \in Seq(S), NEW x
    PROVE  /\ Drop(s, x) \in Seq(S) /\ Members(Drop(s, x)) \subseteq Members(s)
           /\ Distinct(s) => /\ Distinct(Drop(s, x))
                             /\ Members(Drop(s, x)) = Members(s) \ {x}
<1>1. CASE x \notin Members(s)
  BY <1>1 DEF Drop
<1>2. CASE x \in Members(s)
  <2> DEFINE i == CHOOSE i \in DOMAIN s : s[i] = x
  <2>1. i \in DOMAIN s /\ s[i] = x
    BY <1>2 DEF Members
  <2>2. Drop(s, x) = Without(s, i)
    BY <1>2 DEF Drop
  <2> HIDE DEF i
  <2> QED BY <2>1, <2>2, WithoutProperties, WithoutDistinct
<1> QED BY <1>1, <1>2

(* A Set of one member.                                                    *)
LEMMA OnlyMember ==
    ASSUME NEW S, NEW s \in Seq(S), Distinct(s)
    PROVE  /\ s = <<>> <=> Members(s) = {}
           /\ \A x : Members(s) = {x} => Len(s) = 1
           /\ \A x : Len(s) = 1 /\ x \in Members(s) => Members(s) = {x}
<1>1. DOMAIN s = 1..Len(s) /\ Len(s) \in Nat /\ (s # <<>> => Len(s) > 0)
  BY LenProperties, EmptySeq
<1>2. s # <<>> => s[1] \in Members(s)
  BY <1>1 DEF Members
<1>3. s = <<>> => Len(s) = 0
  OBVIOUS
<1>4. ASSUME NEW x, Members(s) = {x} PROVE Len(s) = 1
  <2>1. s # <<>>
    BY <1>4, MembersEmpty
  <2>2. \A i, j \in 1..Len(s) : s[i] = s[j]
    BY <1>1, <1>4 DEF Members
  <2>3. \A i, j \in 1..Len(s) : i = j
    BY <1>1, <2>2 DEF Distinct
  <2> QED BY <1>1, <2>1, <2>3
<1>5. ASSUME NEW x, Len(s) = 1, x \in Members(s) PROVE Members(s) = {x}
  BY <1>1, <1>5 DEF Members
<1> QED BY <1>2, <1>4, <1>5, MembersEmpty
-----------------------------------------------------------------------------
(* The stack of evaluations.                                               *)

(* The top of the stack, and what is below it.                             *)
LEMMA StackTop ==
    ASSUME CTypeOK, ~Idle
    PROVE  /\ Len(evalStack) \in Nat \ {0} /\ DOMAIN evalStack = 1..Len(evalStack)
           /\ \A i \in 1..Len(evalStack) : evalStack[i] \in Frames
           /\ Top \in Frames /\ Top = evalStack[Len(evalStack)]
           /\ Callers \in Seq(Frames) /\ Len(Callers) = Len(evalStack) - 1
           /\ \A i \in 1..(Len(evalStack) - 1) : Callers[i] = evalStack[i]
<1>1. evalStack \in Seq(Frames) /\ evalStack # <<>>
  BY DEF CTypeOK, Frames, Idle
<1>2. Len(evalStack) \in Nat \ {0} /\ DOMAIN evalStack = 1..Len(evalStack)
  BY <1>1, EmptySeq, LenProperties
<1>3. \A i \in 1..Len(evalStack) : evalStack[i] \in Frames
  BY <1>1, ElementOfSeq
<1>4. Top \in Frames /\ Top = evalStack[Len(evalStack)]
  BY <1>2, <1>3 DEF Top
<1>5. /\ Callers \in Seq(Frames) /\ Len(Callers) = Len(evalStack) - 1
      /\ \A i \in 1..(Len(evalStack) - 1) : Callers[i] = evalStack[i]
  <2>1. \A i \in 1..(Len(evalStack) - 1) : evalStack[i] \in Frames
    BY <1>2, <1>3
  <2> QED BY <1>2, <2>1, SubSeqProperties DEF Callers
<1> QED BY <1>2, <1>3, <1>4, <1>5

(* What one frame becomes.                                                 *)
LEMMA FrameSteps ==
    ASSUME NEW f \in Frames
    PROVE  /\ \A n \in Nodes : /\ Track(f, n) \in Frames
                               /\ Track(f, n).node = f.node /\ Track(f, n).reads = f.reads
                               /\ Track(f, n).tracked = f.tracked \cup {n}
           /\ \A v \in Values : /\ Receive(f, v) \in Frames
                                /\ Receive(f, v).node = f.node
                                /\ Receive(f, v).reads = Append(f.reads, v)
                                /\ Receive(f, v).tracked = f.tracked
<1>1. f.node \in Computeds /\ f.reads \in Seq(Values) /\ f.tracked \subseteq Nodes
  BY DEF Frames
<1>2. ASSUME NEW n \in Nodes
      PROVE  /\ Track(f, n) \in Frames
             /\ Track(f, n).node = f.node /\ Track(f, n).reads = f.reads
             /\ Track(f, n).tracked = f.tracked \cup {n}
  BY <1>1 DEF Frames, Track
<1>3. ASSUME NEW v \in Values
      PROVE  /\ Receive(f, v) \in Frames
             /\ Receive(f, v).node = f.node
             /\ Receive(f, v).reads = Append(f.reads, v)
             /\ Receive(f, v).tracked = f.tracked
  <2>1. Append(f.reads, v) \in Seq(Values)
    BY <1>1, AppendProperties
  <2> QED BY <1>1, <2>1 DEF Frames, Receive
<1> QED BY <1>2, <1>3

LEMMA NewFrame ==
    ASSUME NEW c \in Computeds
    PROVE  /\ Frame(c) \in Frames /\ Frame(c).node = c
           /\ Frame(c).reads = <<>> /\ Frame(c).tracked = {}
BY EmptySeq DEF Frames, Frame

(* A frame takes the place of the top one.                                 *)
LEMMA TopReplaced ==
    ASSUME CTypeOK, ~Idle, NEW f \in Frames, evalStack' = Append(Callers, f)
    PROVE  /\ evalStack' \in Seq(Frames) /\ Len(evalStack') = Len(evalStack)
           /\ evalStack'[Len(evalStack)] = f
           /\ \A i \in 1..(Len(evalStack) - 1) : evalStack'[i] = evalStack[i]
<1> DEFINE below == Callers
<1>1. /\ below \in Seq(Frames) /\ Len(below) = Len(evalStack) - 1 /\ Len(evalStack) \in Nat
      /\ \A i \in 1..(Len(evalStack) - 1) : below[i] = evalStack[i]
  BY StackTop, Zenon
<1>2. evalStack' = Append(below, f)
  OBVIOUS
<1> HIDE DEF below
<1> QED BY <1>1, <1>2, AppendProperties

(* A frame is put on the top one, which tracks the node it reads.          *)
LEMMA FramePushed ==
    ASSUME CTypeOK, ~Idle, NEW f \in Frames, NEW g \in Frames,
           evalStack' = Callers \o <<f, g>>
    PROVE  /\ evalStack' \in Seq(Frames) /\ Len(evalStack') = Len(evalStack) + 1
           /\ evalStack'[Len(evalStack)] = f /\ evalStack'[Len(evalStack) + 1] = g
           /\ \A i \in 1..(Len(evalStack) - 1) : evalStack'[i] = evalStack[i]
<1> DEFINE below == Callers
           two == <<f, g>>
           k == Len(evalStack)
<1>1. /\ below \in Seq(Frames) /\ Len(below) = k - 1 /\ k \in Nat \ {0}
      /\ \A i \in 1..(k - 1) : below[i] = evalStack[i]
  BY StackTop, Zenon
<1>2. evalStack' = below \o two
  OBVIOUS
<1>3. two \in Seq(Frames) /\ Len(two) = 2 /\ two[1] = f /\ two[2] = g
  OBVIOUS
<1> HIDE DEF below, two, k
<1>4. /\ below \o two \in Seq(Frames) /\ Len(below \o two) = k - 1 + 2
      /\ \A i \in 1..(k - 1 + 2) :
            (below \o two)[i] = IF i <= k - 1 THEN below[i] ELSE two[i - (k - 1)]
  <2>1. /\ below \o two \in Seq(Frames) /\ Len(below \o two) = Len(below) + Len(two)
        /\ \A i \in 1..(Len(below) + Len(two)) :
             (below \o two)[i] = IF i <= Len(below) THEN below[i] ELSE two[i - Len(below)]
    BY <1>1, <1>3, ConcatProperties, ZenonT(30)
  <2> QED BY <1>1, <1>3, <2>1, Zenon
<1>5. evalStack'[k] = f /\ evalStack'[k + 1] = g
  <2> DEFINE both == below \o two
  <2>1. \A i \in 1..(k - 1 + 2) : both[i] = IF i <= k - 1 THEN below[i] ELSE two[i - (k - 1)]
    BY <1>4
  <2>2. evalStack' = both
    BY <1>2
  <2> HIDE DEF both
  <2>3. ASSUME NEW m \in {k, k + 1} PROVE both[m] = two[m - (k - 1)]
    <3>1. m \in 1..(k - 1 + 2) /\ ~(m <= k - 1)
      BY <1>1
    <3> QED BY <2>1, <3>1
  <2>4. k - (k - 1) = 1 /\ k + 1 - (k - 1) = 2
    BY <1>1
  <2>5. both[k] = two[1] /\ both[k + 1] = two[2]
    <3>1. both[k] = two[k - (k - 1)]
      BY <1>1, <2>3
    <3>2. both[k + 1] = two[k + 1 - (k - 1)]
      BY <1>1, <2>3
    <3> QED BY <2>4, <3>1, <3>2
  <2> QED BY <1>3, <2>2, <2>5, Zenon
<1>6. \A i \in 1..(k - 1) : evalStack'[i] = evalStack[i]
  BY <1>1, <1>2, <1>4
<1>7. evalStack' \in Seq(Frames) /\ Len(evalStack') = k + 1
  <2>1. k - 1 + 2 = k + 1
    BY <1>1
  <2>2. Len(evalStack') = Len(below \o two) /\ evalStack' \in Seq(Frames)
    BY <1>2, <1>4
  <2> QED BY <1>4, <2>1, <2>2
<1> QED BY <1>5, <1>6, <1>7, Zenon DEF k

(* The top frame leaves, and the one below receives its value.             *)
LEMMA FramePopped ==
    ASSUME CTypeOK, ~Idle, Len(evalStack) > 1, NEW v \in Values,
           evalStack' = [Callers EXCEPT ![Len(Callers)] = Receive(@, v)]
    PROVE  /\ evalStack' \in Seq(Frames) /\ Len(evalStack') = Len(evalStack) - 1
           /\ evalStack'[Len(evalStack) - 1] = Receive(evalStack[Len(evalStack) - 1], v)
           /\ \A i \in 1..(Len(evalStack) - 2) : evalStack'[i] = evalStack[i]
<1> DEFINE below == Callers
           k == Len(evalStack)
           f == Receive(evalStack[k - 1], v)
<1>1. /\ below \in Seq(Frames) /\ Len(below) = k - 1 /\ k \in Nat \ {0} /\ k > 1
      /\ \A i \in 1..(k - 1) : below[i] = evalStack[i]
  BY StackTop, Zenon
<1>2. evalStack[k - 1] \in Frames
  BY <1>1, StackTop
<1>3. f \in Frames
  BY <1>2, FrameSteps
<1>4. evalStack' = [below EXCEPT ![k - 1] = f]
  <2>1. evalStack' = [below EXCEPT ![Len(below)] = Receive(below[Len(below)], v)]
    OBVIOUS
  <2>2. Len(below) = k - 1 /\ below[k - 1] = evalStack[k - 1]
    BY <1>1
  <2> QED BY <2>1, <2>2
<1> HIDE DEF below, k, f
<1>5. /\ [below EXCEPT ![k - 1] = f] \in Seq(Frames)
      /\ Len([below EXCEPT ![k - 1] = f]) = k - 1
      /\ \A j \in 1..(k - 1) :
            [below EXCEPT ![k - 1] = f][j] = IF j = k - 1 THEN f ELSE below[j]
  BY <1>1, <1>3, ExceptSeq
<1>6. /\ evalStack' \in Seq(Frames) /\ Len(evalStack') = k - 1
      /\ evalStack'[k - 1] = f /\ \A i \in 1..(k - 2) : evalStack'[i] = evalStack[i]
  <2> DEFINE two == [below EXCEPT ![k - 1] = f]
  <2>1. two \in Seq(Frames) /\ Len(two) = k - 1 /\ evalStack' = two
        /\ \A j \in 1..(k - 1) : two[j] = IF j = k - 1 THEN f ELSE below[j]
    BY <1>4, <1>5
  <2> HIDE DEF two
  <2>2. k - 1 \in 1..(k - 1)
        /\ \A j \in 1..(k - 2) : j \in 1..(k - 1) /\ j # k - 1
    BY <1>1
  <2>3. \A j \in 1..(k - 2) : two[j] = evalStack[j]
    BY <1>1, <2>1, <2>2
  <2>4. two[k - 1] = f
    BY <2>1, <2>2
  <2> QED BY <2>1, <2>3, <2>4
<1> QED BY <1>6 DEF k, f

(* What the running read function does next is one of three things.        *)
LEMMA StepTyped ==
    ASSUME WellTyped, CTypeOK, ~Idle
    PROVE  /\ Step.do = "return" => Step.value \in Values
           /\ Step.do = "read" => Step.node \in Nodes
<1>1. Top.node \in Computeds /\ Top.reads \in Seq(Values)
  BY StackTop DEF Frames
<1> QED BY <1>1 DEF WellTyped, TypedOn, Step, Throwing, Reading, Returning
-----------------------------------------------------------------------------
(* The inductive invariant behind RecomputesAreKept.                       *)

(* Only computeds are recomputed, and no listener runs meanwhile.          *)
JobsKnown ==
    /\ \A j \in Members(pendingJobs) : j.kind = "recompute" => j.node \in Computeds
    /\ job # None /\ job.kind = "recompute" =>
         job.node \in Computeds /\ snapshot = <<>> /\ running = None

(* recomputeScheduled and the queue agree.                                 *)
Flags == \A c \in Computeds :
    recomputeScheduled[c] <=> RecomputeJob(c) \in Members(pendingJobs)

(* A disposed computed has no subscribers.                                 *)
Gone == \A c \in Computeds : disposed[c] => Subscribed(c) = {}

(* The evaluations on the stack are of dirty computeds, each once, and what*)
(* they read is clean or the evaluation they wait for.                     *)
Stacked ==
    /\ \A i \in 1..Len(evalStack) : ~disposed[evalStack[i].node] /\ dirty[evalStack[i].node]
    /\ \A i, j \in 1..Len(evalStack) : evalStack[i].node = evalStack[j].node => i = j
    /\ \A i \in 1..Len(evalStack) : \A n \in evalStack[i].tracked \cap Computeds :
         ~disposed[n] /\ (dirty[n] => i < Len(evalStack) /\ n = evalStack[i + 1].node)

(* The subscription whose subscribe() is evaluating has been added.        *)
Observing == observer # None => ~Idle /\ observer \in Subscribed(evalStack[1].node)

(* The subscribers a computed has to be recomputed for: not the one whose  *)
(* subscribe() is evaluating it.                                           *)
Awaiting(c) == IF observer # None /\ evalStack[1].node = c
               THEN Subscribed(c) \ {observer} ELSE Subscribed(c)

(* A dirty computed with subscribers has its recompute queued or running.  *)
Owed == \A c \in Computeds \ abandoned :
    dirty[c] /\ Awaiting(c) # {} => recomputeScheduled[c] \/ job = RecomputeJob(c)

RecomputeInv ==
    /\ CTypeOK /\ NoLostWakeup /\ Phases /\ JobsKnown
    /\ Flags /\ Gone /\ Stacked /\ Observing /\ Owed /\ ListensToDependencies
-----------------------------------------------------------------------------
(* Types.                                                                  *)

(* What listening to dependencies says of one node.                        *)
LEMMA Listening ==
    ASSUME ListensToDependencies, NEW n \in Nodes, NEW c \in Computeds
    PROVE  Distinct(subs[n]) /\ (c \in Subscribed(n) => n \in deps[c])
BY ComputedsAssumption DEF ListensToDependencies

(* Following other dependencies than before.                               *)
LEMMA FollowEffect ==
    ASSUME CTypeOK, ListensToDependencies, NEW c \in Computeds, NEW now \in SUBSET Nodes
    PROVE  /\ Follow(c, now) \in [Nodes -> Seq(Subs)]
           /\ \A n \in Nodes :
                /\ Distinct(Follow(c, now)[n])
                /\ n \in deps[c] \ now =>
                     Members(Follow(c, now)[n]) = Subscribed(n) \ {c}
                /\ n \in now \ deps[c] =>
                     /\ Members(Follow(c, now)[n]) = Subscribed(n) \cup {c}
                     /\ Follow(c, now)[n] = Append(subs[n], c)
                /\ n \notin deps[c] \ now /\ n \notin now \ deps[c] =>
                     Follow(c, now)[n] = subs[n]
<1>1. /\ c \in Subs
      /\ \A n \in Nodes : subs[n] \in Seq(Subs) /\ Distinct(subs[n])
      /\ \A n \in Nodes : c \in Subscribed(n) => n \in deps[c]
  BY ComputedsAreNodes, Listening DEF CTypeOK, TypeOK
<1>2. ASSUME NEW n \in Nodes, n \in deps[c] \ now
      PROVE  /\ Follow(c, now)[n] \in Seq(Subs) /\ Distinct(Follow(c, now)[n])
             /\ Members(Follow(c, now)[n]) = Subscribed(n) \ {c}
  <2>1. Follow(c, now)[n] = Drop(subs[n], c)
    BY <1>2 DEF Follow
  <2> QED BY <1>1, <2>1, DropProperties DEF Subscribed
<1>3. ASSUME NEW n \in Nodes, n \in now \ deps[c]
      PROVE  /\ Follow(c, now)[n] \in Seq(Subs) /\ Distinct(Follow(c, now)[n])
             /\ Members(Follow(c, now)[n]) = Subscribed(n) \cup {c}
             /\ Follow(c, now)[n] = Append(subs[n], c)
  <2>1. Follow(c, now)[n] = Append(subs[n], c)
    BY <1>3 DEF Follow
  <2>2. c \notin Members(subs[n])
    BY <1>1, <1>3 DEF Subscribed
  <2> QED BY <1>1, <2>1, <2>2, MembersAppend, DistinctAppend, AppendProperties DEF Subscribed
<1>4. ASSUME NEW n \in Nodes, n \notin deps[c] \ now, n \notin now \ deps[c]
      PROVE  Follow(c, now)[n] = subs[n]
  BY <1>4 DEF Follow
<1>5. ASSUME NEW n \in Nodes
      PROVE  Follow(c, now)[n] \in Seq(Subs) /\ Distinct(Follow(c, now)[n])
  BY <1>1, <1>2, <1>3, <1>4
<1>6. Follow(c, now) \in [Nodes -> Seq(Subs)]
  <2>1. /\ Follow(c, now) = [n \in DOMAIN Follow(c, now) |-> Follow(c, now)[n]]
        /\ DOMAIN Follow(c, now) = Nodes
    BY DEF Follow
  <2> QED BY <1>5, <2>1
<1> QED BY <1>2, <1>3, <1>4, <1>5, <1>6

(* A snapshot loses at most one subscription.                              *)
LEMMA SnapshotEffect ==
    ASSUME TypeOK, NEW c, NEW dropped
    PROVE  /\ SnapshotWithout(c, dropped) \in Seq(Subs)
           /\ Members(SnapshotWithout(c, dropped)) \subseteq Members(snapshot)
           /\ job = None => SnapshotWithout(c, dropped) = snapshot
           /\ snapshot = <<>> => SnapshotWithout(c, dropped) = <<>>
<1>1. snapshot = <<>> => Drop(snapshot, c) = <<>>
  BY MembersEmpty DEF Drop
<1>2. snapshot \in Seq(Subs)
  BY DEF TypeOK
<1> QED BY <1>1, <1>2, DropProperties DEF SnapshotWithout

(* The core's variables keep their types.                                  *)
LEMMA NextCoreTyped ==
    ASSUME WellTyped, RecomputeInv, [CNext]_cvars PROVE TypeOK'
<1> USE DEF RecomputeInv
<1>t. TypeOK
  BY DEF CTypeOK
<1>call. Call => running' \in UserSubs \cup {None} /\ fuel' \in 0..MaxOps
  BY <1>t, BoundsAssumption DEF TypeOK, Call, listenerVars
<1>1. ASSUME CoreStep \/ Looks \/ GiveUp \/ UNCHANGED cvars PROVE TypeOK'
  BY <1>t, <1>1, CoreStepIsNext, LooksStutters, GiveUpIsNext, NextTypeOK DEF cvars
<1>2. ASSUME NEW c \in Computeds, Get(c) PROVE TypeOK'
  BY <1>t, <1>call, <1>2 DEF Get, TypeOK, schedulerVars, notifierVars, deliveryVars, historyVars
<1>3. ASSUME NEW c \in Computeds, Dispose(c) PROVE TypeOK'
  <2>1. subs' \in [Nodes -> Seq(Subs)]
    <3>1. \A n \in Nodes : Drop(subs[n], c) \in Seq(Subs) /\ subs[n] \in Seq(Subs)
      BY <1>t, DropProperties DEF TypeOK
    <3> QED BY <1>3, <3>1 DEF Dispose
  <2>2. snapshot' \in Seq(Subs)
    BY <1>t, <1>3, SnapshotEffect DEF Dispose
  <2> QED BY <1>t, <1>call, <1>3, <2>1, <2>2
          DEF Dispose, TypeOK, schedulerVars, historyVars
<1>4. ASSUME NEW c \in Computeds, NEW s \in UserSubs, Observe(c, s) PROVE TypeOK'
  <2>1. s \in Subs /\ c \in Nodes /\ cached[c] \in Values
    BY SubsAssumption, ComputedsAreNodes DEF CTypeOK
  <2>2. subs' \in [Nodes -> Seq(Subs)] /\ notified' \subseteq Subs
    BY <1>t, <1>4, <2>1 DEF Observe, TypeOK
  <2>3. seen' \in [Subs -> Values]
    BY <1>t, <1>4, <2>1 DEF Observe, TypeOK
  <2> QED BY <1>t, <1>call, <1>4, <2>2, <2>3
          DEF Observe, TypeOK, schedulerVars, deliveryVars
<1>5. ASSUME EvaluateReturn PROVE TypeOK'
  <2>1. Top.node \in Computeds /\ Top.tracked \in SUBSET Nodes /\ Step.value \in Values
    BY <1>5, StackTop, StepTyped DEF EvaluateReturn, Frames
  <2>2. subs' = Follow(Top.node, Top.tracked)
    BY <1>5 DEF EvaluateReturn
  <2>3. subs' \in [Nodes -> Seq(Subs)]
    BY <2>1, <2>2, FollowEffect
  <2>4. snapshot' \in Seq(Subs)
    BY <1>t, <1>5, SnapshotEffect DEF EvaluateReturn
  <2>5. seen' \in [Subs -> Values]
    <3>1. observer # None => observer \in Subs
      BY SubsAssumption DEF CTypeOK
    <3>2. seen' = seen \/ (observer # None /\ seen' = [seen EXCEPT ![observer] = Step.value])
      BY <1>5 DEF EvaluateReturn
    <3> QED BY <1>t, <2>1, <3>1, <3>2 DEF TypeOK
  <2> QED BY <1>t, <1>5, <2>3, <2>4, <2>5
          DEF EvaluateReturn, TypeOK, schedulerVars, listenerVars
<1>6. ASSUME EvaluateThrow PROVE TypeOK'
  <2>1. subs' \in [Nodes -> Seq(Subs)]
    <3>1. subs' = subs \/ (observer # None /\
            subs' = [subs EXCEPT ![evalStack[1].node] = Drop(subs[evalStack[1].node], observer)])
      BY <1>6 DEF EvaluateThrow
    <3>2. evalStack[1].node \in Nodes
      BY <1>6, StackTop, ComputedsAreNodes DEF EvaluateThrow, Frames
    <3> QED BY <1>t, <3>1, <3>2, DropProperties DEF TypeOK
  <2>2. job' \in Jobs \cup {None}
    BY <1>t, <1>6 DEF EvaluateThrow, TypeOK
  <2>3. failed' \in BOOLEAN /\ raised' \in BOOLEAN
    BY <1>t, <1>6, Zenon DEF EvaluateThrow, TypeOK
  <2> QED BY <1>t, <1>6, <2>1, <2>2, <2>3
          DEF EvaluateThrow, TypeOK, deliveryVars, listenerVars
<1>7. ASSUME Invalidate PROVE TypeOK'
  <2> DEFINE h == Head(snapshot)
  <2>1. h \in Computeds /\ Tail(snapshot) \in Seq(Subs) /\ snapshot' = Tail(snapshot)
    BY <1>t, <1>7, MembersTail DEF Invalidate, TypeOK
  <2>2. Append(pendingJobs, RecomputeJob(h)) \in Seq(Jobs)
    BY <1>t, <2>1, RecomputeJobType, AppendProperties DEF TypeOK
  <2>3. Schedule(RecomputeJob(h)) \/ UNCHANGED <<pendingJobs, isFlushing, jobCount, failed, raised>>
    BY <1>7 DEF Invalidate
  <2> HIDE DEF h
  <2>4. Schedule(RecomputeJob(h)) => pendingJobs' \in Seq(Jobs) /\ jobCount' \in 0..MaxFlush
    BY <1>t, <2>2, Bounds DEF Schedule, BeginFlush, TypeOK
  <2>5. Schedule(RecomputeJob(h)) =>
            isFlushing' \in BOOLEAN /\ failed' \in BOOLEAN /\ raised' \in BOOLEAN
    BY <1>t, Zenon DEF Schedule, BeginFlush, TypeOK
  <2>6. /\ pendingJobs' \in Seq(Jobs) /\ jobCount' \in 0..MaxFlush
        /\ isFlushing' \in BOOLEAN /\ failed' \in BOOLEAN /\ raised' \in BOOLEAN
    BY <1>t, <2>3, <2>4, <2>5, Zenon DEF TypeOK
  <2> QED BY <1>t, <1>7, <2>1, <2>6
          DEF Invalidate, TypeOK, notifierVars, listenerVars
<1>8. ASSUME StartRecompute PROVE TypeOK'
  <2>1. Head(pendingJobs) \in Jobs /\ Tail(pendingJobs) \in Seq(Jobs)
    BY <1>t, <1>8, MembersTail DEF TypeOK, StartRecompute
  <2>2. jobCount' \in 0..MaxFlush
    BY <1>t, <1>8, Bounds DEF TypeOK, StartRecompute
  <2> QED BY <1>t, <1>8, <2>1, <2>2
          DEF StartRecompute, TypeOK, notifierVars, deliveryVars, listenerVars, historyVars
<1>9. ASSUME SkipRecompute PROVE TypeOK'
  BY <1>t, <1>9 DEF SkipRecompute, TypeOK, notifierVars, deliveryVars, listenerVars, historyVars
<1>10. ASSUME FinishRecompute PROVE TypeOK'
  <2>1. job.node \in Nodes /\ cached[job.node] \in Values
    BY <1>10, ComputedsAreNodes DEF FinishRecompute, Recomputing, JobsKnown, CTypeOK
  <2>2. Notify(job.node, cached[job.node])
        \/ UNCHANGED <<pendingValues, flushScheduled, isFlushing, pendingJobs, jobCount,
                       failed, raised>>
    BY <1>10 DEF FinishRecompute
  <2>3. /\ pendingValues' \in [Nodes -> Seq(Values)] /\ flushScheduled' \in [Nodes -> BOOLEAN]
        /\ isFlushing' \in BOOLEAN /\ pendingJobs' \in Seq(Jobs) /\ jobCount' \in 0..MaxFlush
        /\ failed' \in BOOLEAN /\ raised' \in BOOLEAN
    <3>1. CASE Notify(job.node, cached[job.node])
      BY <1>t, <2>1, <3>1, NotifyType
    <3>2. CASE ~Notify(job.node, cached[job.node])
      BY <1>t, <2>2, <3>2 DEF TypeOK
    <3> QED BY <3>1, <3>2
  <2> QED BY <1>t, <1>10, <2>3
          DEF FinishRecompute, TypeOK, deliveryVars, listenerVars
<1> QED BY <1>1, <1>2, <1>3, <1>4, <1>5, <1>6, <1>7, <1>8, <1>9, <1>10, StepCases

(* So do the variables of the computeds.                                   *)
ComputedTypes ==
    /\ cached \in [Computeds -> Values] /\ lastNotified \in [Computeds -> Values]
    /\ dirty \in [Computeds -> BOOLEAN] /\ disposed \in [Computeds -> BOOLEAN]
    /\ recomputeScheduled \in [Computeds -> BOOLEAN]
    /\ deps \in [Computeds -> SUBSET Nodes]
    /\ evalStack \in Seq(Frames)
    /\ observer \in UserSubs \cup {None}
    /\ abandoned \subseteq Computeds /\ slipped \subseteq Computeds

LEMMA TypesTogether == CTypeOK <=> TypeOK /\ ComputedTypes
BY DEF CTypeOK, ComputedTypes, Frames

LEMMA NextComputedTypes ==
    ASSUME WellTyped, RecomputeInv, [CNext]_cvars PROVE ComputedTypes'
<1> USE DEF RecomputeInv
<1>t. TypeOK /\ ComputedTypes
  BY TypesTogether
<1>s. ASSUME NEW c \in Computeds PROVE <<Frame(c)>> \in Seq(Frames)
  BY NewFrame
<1>1. ASSUME CoreStep \/ SkipRecompute \/ UNCHANGED cvars PROVE ComputedTypes'
  BY <1>t, <1>1 DEF CoreStep, SkipRecompute, cvars, computedVars, ComputedTypes
<1>2. ASSUME Looks PROVE ComputedTypes'
  <2>1. evalStack' \in Seq(Frames)
    <3>1. ASSUME NEW n \in Nodes, NEW v \in Values,
                 evalStack' = Append(Callers, Receive(Track(Top, n), v)), ~Idle
          PROVE  evalStack' \in Seq(Frames)
      BY <3>1, StackTop, FrameSteps, TopReplaced
    <3>2. ASSUME NEW n \in Cells, ReadCell(n) PROVE evalStack' \in Seq(Frames)
      BY <1>t, <3>1, <3>2, ComputedsAreNodes DEF ReadCell, ReadsNode, TypeOK
    <3>3. ASSUME NEW n \in Computeds, ReadClean(n) PROVE evalStack' \in Seq(Frames)
      BY <1>t, <3>1, <3>3, ComputedsAreNodes DEF ReadClean, ReadsNode, ComputedTypes
    <3>4. ASSUME NEW n \in Computeds, ReadDirty(n) PROVE evalStack' \in Seq(Frames)
      BY <3>4, ComputedsAreNodes, StackTop, FrameSteps, NewFrame, FramePushed
         DEF ReadDirty, ReadsNode
    <3>5. ASSUME Reevaluate PROVE evalStack' \in Seq(Frames)
      BY <1>s, <3>5 DEF Reevaluate, Recomputing, JobsKnown
    <3> QED BY <1>2, <3>2, <3>3, <3>4, <3>5 DEF Looks
  <2>2. UNCHANGED <<cached, lastNotified, dirty, disposed, recomputeScheduled, deps,
                    observer, abandoned, slipped>>
    BY <1>2 DEF Looks, ReadCell, ReadClean, ReadDirty, Reevaluate
  <2> QED BY <1>t, <2>1, <2>2 DEF ComputedTypes
<1>3. ASSUME NEW c \in Computeds, Get(c) PROVE ComputedTypes'
  BY <1>t, <1>s, <1>3 DEF Get, ComputedTypes
<1>4. ASSUME NEW c \in Computeds, Dispose(c) PROVE ComputedTypes'
  BY <1>t, <1>4 DEF Dispose, ComputedTypes
<1>5. ASSUME NEW c \in Computeds, NEW s \in UserSubs, Observe(c, s) PROVE ComputedTypes'
  <2>1. evalStack' \in Seq(Frames) /\ observer' \in UserSubs \cup {None}
    BY <1>t, <1>s, <1>5 DEF Observe, ComputedTypes
  <2>2. lastNotified' \in [Computeds -> Values] /\ slipped' \subseteq Computeds
    BY <1>t, <1>5 DEF Observe, ComputedTypes
  <2> QED BY <1>t, <1>5, <2>1, <2>2 DEF Observe, ComputedTypes
<1>6. ASSUME EvaluateReturn PROVE ComputedTypes'
  <2> DEFINE x == Top.node
             v == Step.value
  <2>1. x \in Computeds /\ Top.tracked \in SUBSET Nodes /\ v \in Values /\ ~Idle
    BY <1>6, StackTop, StepTyped DEF EvaluateReturn, Frames
  <2>2. /\ deps' = [deps EXCEPT ![x] = Top.tracked] /\ cached' = [cached EXCEPT ![x] = v]
        /\ dirty' = [dirty EXCEPT ![x] = FALSE]
        /\ lastNotified' = IF Rebase(x) THEN [lastNotified EXCEPT ![x] = v] ELSE lastNotified
        /\ slipped' = IF Slips(x, v) THEN slipped \cup {x} ELSE slipped
        /\ observer' \in {observer, None}
        /\ UNCHANGED <<disposed, recomputeScheduled, abandoned>>
    BY <1>6 DEF EvaluateReturn
  <2>3. evalStack' \in Seq(Frames)
    <3>1. CASE Len(evalStack) > 1
      BY <1>6, <2>1, <3>1, FramePopped DEF EvaluateReturn
    <3>2. CASE ~(Len(evalStack) > 1)
      BY <1>6, <3>2, EmptySeq DEF EvaluateReturn
    <3> QED BY <3>1, <3>2
  <2> HIDE DEF x, v
  <2>4. dirty' \in [Computeds -> BOOLEAN]
    BY <1>t, <2>1, <2>2 DEF ComputedTypes
  <2> QED BY <1>t, <2>1, <2>2, <2>3, <2>4 DEF ComputedTypes
<1>7. ASSUME EvaluateThrow PROVE ComputedTypes'
  <2>1. abandoned' \subseteq Computeds
    BY <1>t, <1>7 DEF EvaluateThrow, ComputedTypes, JobsKnown
  <2> QED BY <1>t, <1>7, <2>1, EmptySeq DEF EvaluateThrow, ComputedTypes
<1>8. ASSUME Invalidate PROVE ComputedTypes'
  BY <1>t, <1>8 DEF Invalidate, ComputedTypes
<1>9. ASSUME StartRecompute PROVE ComputedTypes'
  BY <1>t, <1>9 DEF StartRecompute, ComputedTypes
<1>10. ASSUME FinishRecompute PROVE ComputedTypes'
  BY <1>t, <1>10 DEF FinishRecompute, Recomputing, JobsKnown, ComputedTypes
<1>11. ASSUME GiveUp PROVE ComputedTypes'
  <2>1. recomputeScheduled' \in [Computeds -> BOOLEAN]
    BY <1>t, <1>11 DEF GiveUp, DiscardRecomputes, ComputedTypes
  <2> QED BY <1>t, <1>11, <2>1 DEF GiveUp, ComputedTypes
<1> QED BY <1>1, <1>2, <1>3, <1>4, <1>5, <1>6, <1>7, <1>8, <1>9, <1>10, <1>11, StepCases

LEMMA NextTyped == ASSUME WellTyped, RecomputeInv, [CNext]_cvars PROVE CTypeOK'
<1>1. TypeOK' /\ ComputedTypes'
  BY NextCoreTyped, NextComputedTypes
<1> QED BY <1>1 DEF CTypeOK, ComputedTypes, Frames
-----------------------------------------------------------------------------
(* The queue of jobs.                                                      *)

(* A recompute job changes nothing for the flushes.                        *)
LEMMA WakeupOfRecompute ==
    ASSUME NoLostWakeup, Distinct(pendingJobs)',
           \A n \in Nodes : FlushJob(n) \in Members(pendingJobs') <=> FlushJob(n) \in Members(pendingJobs),
           \A n \in Nodes : job = FlushJob(n) => job' = FlushJob(n),
           UNCHANGED <<flushScheduled, pendingValues>>
    PROVE  NoLostWakeup'
BY DEF NoLostWakeup

(* What invalidate() queues.                                               *)
LEMMA InvalidateQueues ==
    ASSUME RecomputeInv, Invalidate
    PROVE  /\ Head(snapshot) \in Computeds
           /\ IF SchedulesRecompute(Head(snapshot))
              THEN /\ pendingJobs' = Append(pendingJobs, RecomputeJob(Head(snapshot)))
                   /\ Members(pendingJobs') =
                        Members(pendingJobs) \cup {RecomputeJob(Head(snapshot))}
                   /\ Distinct(pendingJobs')
                   /\ recomputeScheduled' =
                        [recomputeScheduled EXCEPT ![Head(snapshot)] = TRUE]
              ELSE UNCHANGED <<pendingJobs, recomputeScheduled>>
           /\ UNCHANGED <<isFlushing, job, flushScheduled, pendingValues, batchDepth>>
<1> DEFINE x == Head(snapshot)
<1>1. x \in Computeds /\ isFlushing
  BY DEF Invalidate, Delivering
<1>2. IF SchedulesRecompute(x)
      THEN /\ pendingJobs' = Append(pendingJobs, RecomputeJob(x))
           /\ recomputeScheduled' = [recomputeScheduled EXCEPT ![x] = TRUE]
      ELSE UNCHANGED <<pendingJobs, recomputeScheduled>>
  BY DEF Invalidate, Schedule
<1>3. UNCHANGED <<isFlushing, job, flushScheduled, pendingValues, batchDepth>>
  BY <1>1 DEF Invalidate, Schedule, FlushesNow, notifierVars
<1> DEFINE j == RecomputeJob(x)
<1> HIDE DEF x
<1>4. /\ j \in Jobs /\ pendingJobs \in Seq(Jobs) /\ Distinct(pendingJobs)
      /\ SchedulesRecompute(x) => pendingJobs' = Append(pendingJobs, j)
  BY <1>1, <1>2, RecomputeJobType DEF RecomputeInv, CTypeOK, TypeOK, NoLostWakeup
<1>5. SchedulesRecompute(x) => j \notin Members(pendingJobs)
  BY <1>1 DEF SchedulesRecompute, RecomputeInv, Flags
<1> HIDE DEF j
<1>6. SchedulesRecompute(x) => Distinct(pendingJobs')
  BY <1>4, <1>5, DistinctAppend
<1>7. SchedulesRecompute(x) => Members(pendingJobs') = Members(pendingJobs) \cup {j}
  <2>1. Members(Append(pendingJobs, j)) = Members(pendingJobs) \cup {j}
    BY <1>4, MembersAppend
  <2> QED BY <1>4, <2>1
<1>8. SchedulesRecompute(x) =>
        Members(pendingJobs') = Members(pendingJobs) \cup {RecomputeJob(x)}
  BY <1>7 DEF j
<1>9. IF SchedulesRecompute(x)
      THEN /\ pendingJobs' = Append(pendingJobs, RecomputeJob(x))
           /\ Members(pendingJobs') = Members(pendingJobs) \cup {RecomputeJob(x)}
           /\ Distinct(pendingJobs')
           /\ recomputeScheduled' = [recomputeScheduled EXCEPT ![x] = TRUE]
      ELSE UNCHANGED <<pendingJobs, recomputeScheduled>>
  BY <1>2, <1>6, <1>8
<1> QED BY <1>1, <1>3, <1>9 DEF x

(* What the start of a recompute takes from the queue.                     *)
LEMMA StartTakes ==
    ASSUME RecomputeInv, StartRecompute
    PROVE  \E c \in Computeds :
             /\ job = None /\ job' = RecomputeJob(c)
             /\ Members(pendingJobs) = {RecomputeJob(c)} \cup Members(pendingJobs')
             /\ RecomputeJob(c) \notin Members(pendingJobs') /\ Distinct(pendingJobs')
             /\ recomputeScheduled' = [recomputeScheduled EXCEPT ![c] = FALSE]
<1>1. /\ pendingJobs \in Seq(Jobs) /\ pendingJobs # <<>> /\ Distinct(pendingJobs)
      /\ Head(pendingJobs).kind = "recompute" /\ pendingJobs' = Tail(pendingJobs)
      /\ job' = Head(pendingJobs) /\ job = None
      /\ recomputeScheduled' = [recomputeScheduled EXCEPT ![Head(pendingJobs).node] = FALSE]
  BY DEF StartRecompute, RecomputeInv, CTypeOK, TypeOK, NoLostWakeup
<1>2. /\ Head(pendingJobs) \in Jobs
      /\ Members(pendingJobs) = {Head(pendingJobs)} \cup Members(pendingJobs')
      /\ Head(pendingJobs) \notin Members(pendingJobs') /\ Distinct(pendingJobs')
  BY <1>1, MembersTail, DistinctTail
<1>3. Head(pendingJobs).node \in Computeds
  BY <1>1, <1>2 DEF RecomputeInv, JobsKnown
<1>4. Head(pendingJobs) = RecomputeJob(Head(pendingJobs).node)
  BY <1>1, <1>2 DEF Jobs
<1> QED BY <1>1, <1>2, <1>3, <1>4

(* The flushes' wakeups are kept.                                          *)
LEMMA NextCoreWakeup ==
    ASSUME WellTyped, RecomputeInv, [CNext]_cvars PROVE NoLostWakeup'
<1>t. TypeOK /\ NoLostWakeup /\ Distinct(pendingJobs)
  BY DEF RecomputeInv, CTypeOK, NoLostWakeup
<1>1. ASSUME CoreStep \/ Looks \/ GiveUp \/ UNCHANGED cvars PROVE NoLostWakeup'
  BY <1>t, <1>1, CoreStepIsNext, LooksStutters, GiveUpIsNext, NextWakeup DEF cvars
<1>2. ASSUME UNCHANGED <<pendingJobs, flushScheduled, pendingValues>>,
             job' = job \/ job.kind = "recompute"
      PROVE  NoLostWakeup'
  BY <1>t, <1>2, WakeupOfRecompute
<1>3. ASSUME NEW c \in Computeds, NEW s \in UserSubs, Observe(c, s) PROVE NoLostWakeup'
  BY <1>2, <1>3 DEF Observe, schedulerVars
<1>4. ASSUME NEW c \in Computeds, Get(c) \/ Dispose(c) PROVE NoLostWakeup'
  BY <1>2, <1>4 DEF Get, Dispose, schedulerVars, notifierVars
<1>5. ASSUME EvaluateReturn \/ EvaluateThrow \/ SkipRecompute PROVE NoLostWakeup'
  BY <1>2, <1>5 DEF EvaluateReturn, EvaluateThrow, SkipRecompute, Recomputing,
                    schedulerVars, notifierVars
<1>6. ASSUME Invalidate PROVE NoLostWakeup'
  <2>1. UNCHANGED <<job, flushScheduled, pendingValues>>
    BY <1>6, InvalidateQueues
  <2>2. Distinct(pendingJobs)'
    BY <1>t, <1>6, InvalidateQueues DEF Distinct
  <2>3. \A n \in Nodes : FlushJob(n) \in Members(pendingJobs')
                           <=> FlushJob(n) \in Members(pendingJobs)
    BY <1>6, InvalidateQueues
  <2> QED BY <1>t, <2>1, <2>2, <2>3, WakeupOfRecompute
<1>7. ASSUME StartRecompute PROVE NoLostWakeup'
  <2>1. UNCHANGED <<flushScheduled, pendingValues>>
    BY <1>7 DEF StartRecompute, notifierVars
  <2>2. PICK c \in Computeds :
             /\ job = None /\ Members(pendingJobs) = {RecomputeJob(c)} \cup Members(pendingJobs')
             /\ Distinct(pendingJobs')
    BY <1>7, StartTakes
  <2>3. \A n \in Nodes : FlushJob(n) \in Members(pendingJobs')
                           <=> FlushJob(n) \in Members(pendingJobs)
    BY <2>2
  <2> QED BY <1>t, <2>1, <2>2, <2>3, FlushJobType, WakeupOfRecompute
<1>8. ASSUME FinishRecompute PROVE NoLostWakeup'
  <2>1. job.kind = "recompute" /\ job.node \in Nodes
    BY <1>8, ComputedsAreNodes DEF FinishRecompute, Recomputing, RecomputeInv, JobsKnown
  <2>2. \A n \in Nodes : job # FlushJob(n)
    BY <2>1
  <2>3. CASE Changed(job.node)
    BY <1>t, <1>8, <2>1, <2>2, <2>3, NotifyWakeup DEF FinishRecompute
  <2>4. CASE ~Changed(job.node)
    BY <1>2, <1>8, <2>1, <2>4 DEF FinishRecompute
  <2> QED BY <2>3, <2>4
<1> QED BY <1>1, <1>3, <1>4, <1>5, <1>6, <1>7, <1>8, StepCases

(* What a handed out value does to the scheduler.                          *)
LEMMA FinishNotifies ==
    ASSUME RecomputeInv, FinishRecompute
    PROVE  /\ job.node \in Computeds /\ job = RecomputeJob(job.node) /\ job' = None
           /\ isFlushing /\ isFlushing' /\ batchDepth = 0 /\ batchDepth' = 0
           /\ running = None
           /\ ~dirty[job.node] /\ ~disposed[job.node] /\ subs[job.node] # <<>>
           /\ \/ /\ Changed(job.node) /\ Notify(job.node, cached[job.node])
                 /\ lastNotified' = [lastNotified EXCEPT ![job.node] = cached[job.node]]
                 /\ abandoned' = abandoned \ {job.node}
              \/ /\ ~Changed(job.node)
                 /\ UNCHANGED <<lastNotified, pendingValues, flushScheduled, pendingJobs,
                                abandoned>>
           /\ \A c \in Computeds :
                RecomputeJob(c) \in Members(pendingJobs') <=> RecomputeJob(c) \in Members(pendingJobs)
           /\ \A j \in Members(pendingJobs') :
                j \in Members(pendingJobs) \/ j = FlushJob(job.node)
           /\ UNCHANGED <<value, subs, snapshot, delivering, running, seen, notified, cut,
                          cached, dirty, disposed, recomputeScheduled, deps, evalStack,
                          observer, slipped>>
<1> USE DEF RecomputeInv
<1>1. /\ job \in Jobs /\ job.kind = "recompute" /\ job.node \in Computeds /\ job' = None
      /\ isFlushing /\ running = None /\ ~dirty[job.node] /\ ~disposed[job.node] /\ subs[job.node] # <<>>
  BY DEF FinishRecompute, Recomputing, Unneeded, JobsKnown, CTypeOK, TypeOK
<1>2. job = RecomputeJob(job.node) /\ batchDepth = 0
  BY <1>1 DEF Jobs, Phases
<1>3. \/ /\ Changed(job.node) /\ Notify(job.node, cached[job.node])
         /\ lastNotified' = [lastNotified EXCEPT ![job.node] = cached[job.node]]
         /\ abandoned' = abandoned \ {job.node}
      \/ /\ ~Changed(job.node)
         /\ UNCHANGED <<lastNotified, pendingValues, flushScheduled, isFlushing,
                        pendingJobs, abandoned>>
  BY DEF FinishRecompute
<1>4. UNCHANGED <<batchDepth, value, subs, snapshot, delivering, running, seen, notified, cut,
                  cached, dirty, disposed, recomputeScheduled, deps, evalStack,
                  observer, slipped>>
  BY DEF FinishRecompute, deliveryVars, listenerVars
<1>5. isFlushing' = isFlushing
  BY <1>1, <1>3 DEF Notify, Schedule, FlushesNow
<1> DEFINE j == FlushJob(job.node)
<1>6. \/ pendingJobs' = pendingJobs
      \/ pendingJobs' = Append(pendingJobs, j)
  BY <1>3 DEF Notify, Schedule
<1>7. pendingJobs \in Seq(Jobs) /\ j \in Jobs /\ j.kind = "flush"
  BY <1>1, FlushJobType, ComputedsAreNodes DEF CTypeOK, TypeOK
<1> HIDE DEF j
<1>8. Members(pendingJobs') \in {Members(pendingJobs), Members(pendingJobs) \cup {j}}
  <2>1. Members(Append(pendingJobs, j)) = Members(pendingJobs) \cup {j}
    BY <1>7, MembersAppend
  <2> QED BY <1>6, <2>1
<1>9. \A c \in Computeds : RecomputeJob(c) # j
  BY <1>7
<1>10. /\ \A c \in Computeds :
            RecomputeJob(c) \in Members(pendingJobs') <=> RecomputeJob(c) \in Members(pendingJobs)
       /\ \A k \in Members(pendingJobs') : k \in Members(pendingJobs) \/ k = j
  BY <1>8, <1>9
<1>11. \/ /\ Changed(job.node) /\ Notify(job.node, cached[job.node])
          /\ lastNotified' = [lastNotified EXCEPT ![job.node] = cached[job.node]]
          /\ abandoned' = abandoned \ {job.node}
       \/ /\ ~Changed(job.node)
          /\ UNCHANGED <<lastNotified, pendingValues, flushScheduled, pendingJobs,
                         abandoned>>
  BY <1>3
<1> QED BY <1>1, <1>2, <1>4, <1>5, <1>10, <1>11 DEF j

(* The phases of a flush are kept.                                         *)
LEMMA NextCorePhases ==
    ASSUME WellTyped, RecomputeInv, [CNext]_cvars PROVE Phases'
<1>t. TypeOK /\ Phases /\ JobsKnown
  BY DEF RecomputeInv, CTypeOK
<1>1. ASSUME CoreStep \/ Looks \/ GiveUp \/ UNCHANGED cvars PROVE Phases'
  BY <1>t, <1>1, CoreStepIsNext, LooksStutters, GiveUpIsNext, NextPhases DEF cvars
<1>2. ASSUME UNCHANGED <<isFlushing, batchDepth, pendingJobs, job, snapshot, running>>
      PROVE  Phases'
  BY <1>t, <1>2 DEF Phases, FlushesNow
<1>c. Call => running' = running
  BY DEF Call, listenerVars
<1>3. ASSUME NEW c \in Computeds, Get(c) PROVE Phases'
  BY <1>2, <1>c, <1>3 DEF Get, schedulerVars, deliveryVars
<1>4. ASSUME NEW c \in Computeds, NEW s \in UserSubs, Observe(c, s) PROVE Phases'
  BY <1>2, <1>c, <1>4 DEF Observe, schedulerVars, deliveryVars
<1>5. ASSUME NEW c \in Computeds, Dispose(c) PROVE Phases'
  <2>1. /\ UNCHANGED <<isFlushing, batchDepth, pendingJobs, job, running>>
        /\ job = None => snapshot' = snapshot
    BY <1>t, <1>c, <1>5, SnapshotEffect DEF Dispose, schedulerVars
  <2> QED BY <1>t, <2>1 DEF Phases, FlushesNow
<1>6. ASSUME EvaluateReturn PROVE Phases'
  <2>1. /\ UNCHANGED <<isFlushing, batchDepth, pendingJobs, job, running>>
        /\ job = None => snapshot' = snapshot
    BY <1>t, <1>6, SnapshotEffect DEF EvaluateReturn, schedulerVars, listenerVars
  <2> QED BY <1>t, <2>1 DEF Phases, FlushesNow
<1>7. ASSUME EvaluateThrow PROVE Phases'
  <2>1. UNCHANGED <<isFlushing, batchDepth, pendingJobs, snapshot, running>>
    BY <1>7 DEF EvaluateThrow, deliveryVars, listenerVars
  <2>2. job' = job \/ (job' = None /\ job # None /\ job.kind = "recompute")
    BY <1>7 DEF EvaluateThrow
  <2> QED BY <1>t, <2>1, <2>2 DEF Phases, FlushesNow, JobsKnown
<1>8. ASSUME Invalidate PROVE Phases'
  <2>1. UNCHANGED <<isFlushing, batchDepth, job, running>> /\ isFlushing /\ job # None
    BY <1>8, InvalidateQueues DEF Invalidate, Delivering, listenerVars
  <2> QED BY <1>t, <2>1 DEF Phases, FlushesNow
<1>9. ASSUME StartRecompute PROVE Phases'
  BY <1>t, <1>9 DEF StartRecompute, Phases, FlushesNow, listenerVars, deliveryVars, TypeOK, Jobs
<1>10. ASSUME SkipRecompute PROVE Phases'
  BY <1>t, <1>10 DEF SkipRecompute, Recomputing, Phases, JobsKnown, FlushesNow, listenerVars,
                     deliveryVars
<1>11. ASSUME FinishRecompute PROVE Phases'
  <2>1. /\ isFlushing' /\ batchDepth' = 0 /\ job' = None /\ running' = None
        /\ snapshot' = snapshot /\ snapshot = <<>>
    BY <1>t, <1>11, FinishNotifies DEF JobsKnown, RecomputeInv, CTypeOK, TypeOK, FinishRecompute, Recomputing
  <2> QED BY <2>1 DEF Phases, FlushesNow
<1> QED BY <1>1, <1>3, <1>4, <1>5, <1>6, <1>7, <1>8, <1>9, <1>10, <1>11, StepCases
-----------------------------------------------------------------------------
(* What the steps of the core leave alone.                                 *)

(* They neither queue nor run a recompute, and happen while none runs.     *)
LEMMA CoreJobs ==
    ASSUME RecomputeInv, CoreStep
    PROVE  /\ observer = None /\ ~(job # None /\ job.kind = "recompute")
           /\ ~(job' # None /\ job'.kind = "recompute")
           /\ \A j \in Jobs : j.kind = "recompute" =>
                (j \in Members(pendingJobs') <=> j \in Members(pendingJobs))
<1> USE DEF RecomputeInv
<1>t. TypeOK /\ Phases /\ JobsKnown /\ pendingJobs \in Seq(Jobs)
  BY DEF CTypeOK, TypeOK
<1>0. observer = None
  BY DEF Observing, CoreStep
<1>1. ~(job # None /\ job.kind = "recompute")
  <2> SUFFICES ASSUME job # None, job.kind = "recompute" PROVE FALSE
    OBVIOUS
  <2>1. isFlushing /\ running = None /\ ~Delivering
    BY <1>t DEF Phases, JobsKnown, Delivering
  <2> QED BY <2>1 DEF CoreStep, CellCall, CellFlushStep, Set, Subscribe, Unsubscribe, BatchBegin,
             BatchEnd, Call, UserRuns, StartJob, NextValue, CutOffValues, SkipListener,
             CallListener, Return, EndJob, FlushDone
<1>2. CASE job' = job /\ (pendingJobs' = pendingJobs
                           \/ \E n \in Nodes : pendingJobs' = Append(pendingJobs, FlushJob(n)))
  <2>1. ASSUME NEW n \in Nodes, pendingJobs' = Append(pendingJobs, FlushJob(n)),
               NEW j \in Jobs, j.kind = "recompute"
        PROVE  j \in Members(pendingJobs') <=> j \in Members(pendingJobs)
    <3> DEFINE k == FlushJob(n)
    <3>1. k \in Jobs /\ k.kind = "flush" /\ pendingJobs' = Append(pendingJobs, k)
      BY <2>1, FlushJobType
    <3> HIDE DEF k
    <3>2. Members(Append(pendingJobs, k)) = Members(pendingJobs) \cup {k}
      BY <1>t, <3>1, MembersAppend
    <3> QED BY <2>1, <3>1, <3>2
  <2> QED BY <1>0, <1>1, <1>2, <2>1
<1>3. CASE StartJob
  <2>1. /\ pendingJobs # <<>> /\ Head(pendingJobs).kind = "flush"
        /\ job' = Head(pendingJobs) /\ pendingJobs' = Tail(pendingJobs)
    BY <1>3 DEF StartJob
  <2>2. Members(pendingJobs) = {Head(pendingJobs)} \cup Members(Tail(pendingJobs))
    BY <1>t, <2>1, MembersTail
  <2> QED BY <1>0, <1>1, <2>1, <2>2
<1>4. CASE EndJob
  BY <1>0, <1>1, <1>4 DEF EndJob
<1>5. ASSUME NEW c \in Cells, NEW v \in NextValues(value[c]), Set(c, v)
      PROVE  job' = job /\ (pendingJobs' = pendingJobs
                           \/ \E n \in Nodes : pendingJobs' = Append(pendingJobs, FlushJob(n)))
  BY <1>5, NodesAssumption DEF Set, Notify, Schedule
<1>6. CASE ~StartJob /\ ~EndJob
  <2>1. \/ \E c \in Cells : \E v \in NextValues(value[c]) : Set(c, v)
        \/ UNCHANGED <<job, pendingJobs>>
    BY <1>6 DEF CoreStep, CellCall, CellFlushStep, Subscribe, Unsubscribe, BatchBegin,
       BatchEnd, NextValue, CutOffValues, SkipListener, CallListener, Return, FlushDone,
       schedulerVars
  <2> QED BY <1>2, <1>5, <2>1
<1> QED BY <1>3, <1>4, <1>6

(* They change the subscriptions of user code only, and give a computed no *)
(* new subscriber.                                                         *)
LEMMA CoreSubs ==
    ASSUME RecomputeInv, CoreStep, NEW n \in Nodes
    PROVE  /\ Distinct(subs'[n])
           /\ \A c \in Computeds : c \in Members(subs'[n]) <=> c \in Members(subs[n])
           /\ n \in Computeds => Members(subs'[n]) \subseteq Members(subs[n])
           /\ subs[n] = <<>> /\ n \in Computeds => subs'[n] = <<>>
<1>t. subs \in [Nodes -> Seq(Subs)] /\ subs[n] \in Seq(Subs) /\ Distinct(subs[n])
  BY DEF RecomputeInv, CTypeOK, TypeOK, ListensToDependencies
<1>1. CASE UNCHANGED subs
  BY <1>t, <1>1
<1>2. ASSUME NEW m \in Cells, NEW s \in UserSubs, Subscribe(m, s)
      PROVE  /\ Distinct(subs'[n])
             /\ \A c \in Computeds : c \in Members(subs'[n]) <=> c \in Members(subs[n])
             /\ n \in Computeds => Members(subs'[n]) \subseteq Members(subs[n])
             /\ subs[n] = <<>> /\ n \in Computeds => subs'[n] = <<>>
  <2>1. /\ s \in Subs /\ s \notin Computeds /\ s \notin Members(subs[n])
        /\ m \in Nodes /\ m \notin Computeds
        /\ subs' = [subs EXCEPT ![m] = Append(subs[m], s)]
    BY <1>2, ComputedsAreNodes, SubsAssumption DEF Subscribe, Subscribed
  <2>2. CASE n = m
    <3>1. subs'[n] = Append(subs[n], s)
      BY <1>t, <2>1, <2>2
    <3>2. Members(Append(subs[n], s)) = Members(subs[n]) \cup {s}
      BY <1>t, <2>1, MembersAppend
    <3>3. Distinct(Append(subs[n], s))
      BY <1>t, <2>1, DistinctAppend
    <3> QED BY <2>1, <2>2, <3>1, <3>2, <3>3
  <2>3. CASE n # m
    BY <1>t, <2>1, <2>3
  <2> QED BY <2>2, <2>3
<1>3. ASSUME NEW m \in Nodes, NEW i \in DOMAIN subs[m], subs[m][i] \in UserSubs,
             Unsubscribe(m, i)
      PROVE  /\ Distinct(subs'[n])
             /\ \A c \in Computeds : c \in Members(subs'[n]) <=> c \in Members(subs[n])
             /\ n \in Computeds => Members(subs'[n]) \subseteq Members(subs[n])
             /\ subs[n] = <<>> /\ n \in Computeds => subs'[n] = <<>>
  <2>1. subs' = [subs EXCEPT ![m] = Without(subs[m], i)] /\ subs[m][i] \notin Computeds
    BY <1>3, ComputedsAreNodes DEF Unsubscribe
  <2>2. CASE n = m
    <3>1. subs'[n] = Without(subs[n], i) /\ i \in DOMAIN subs[n] /\ subs[n][i] \notin Computeds
      BY <1>t, <1>3, <2>1, <2>2
    <3>2. /\ Distinct(Without(subs[n], i))
          /\ Members(Without(subs[n], i)) = Members(subs[n]) \ {subs[n][i]}
      BY <1>t, <3>1, WithoutDistinct
    <3>3. subs[n] # <<>>
      BY <3>1, MembersEmpty DEF Members
    <3> QED BY <3>1, <3>2, <3>3
  <2>3. CASE n # m
    BY <1>t, <2>1, <2>3
  <2> QED BY <2>2, <2>3
<1>4. \/ UNCHANGED subs
      \/ \E m \in Cells, s \in UserSubs : Subscribe(m, s)
      \/ \E m \in Nodes : \E i \in DOMAIN subs[m] : subs[m][i] \in UserSubs /\ Unsubscribe(m, i)
  BY DEF CoreStep, CellCall, CellFlushStep, Set, BatchBegin, BatchEnd, StartJob, NextValue,
     CutOffValues, SkipListener, CallListener, Return, EndJob, FlushDone, notifierVars
<1> QED BY <1>1, <1>2, <1>3, <1>4

(* What an evaluation that ends, and a computed disposed, do to the        *)
(* subscriptions.                                                          *)
LEMMA ReturnSubs ==
    ASSUME WellTyped, RecomputeInv, EvaluateReturn
    PROVE  /\ Top.node \in Computeds /\ ~disposed[Top.node] /\ dirty[Top.node]
           /\ Top.tracked \subseteq Nodes
           /\ \A n \in Nodes :
                /\ Distinct(subs'[n])
                /\ Members(subs'[n]) \subseteq Members(subs[n]) \cup {Top.node}
                /\ Members(subs[n]) \subseteq Members(subs'[n]) \cup {Top.node}
           /\ \A n \in Nodes :
                /\ n \in deps[Top.node] \ Top.tracked => Top.node \notin Members(subs'[n])
                /\ n \in Top.tracked \ deps[Top.node] => Top.node \in Members(subs'[n])
                /\ (n \in Top.tracked <=> n \in deps[Top.node]) => subs'[n] = subs[n]
<1>1. /\ Top.node \in Computeds /\ Top.tracked \in SUBSET Nodes
      /\ Top.node = evalStack[Len(evalStack)].node /\ Len(evalStack) \in 1..Len(evalStack)
  BY StackTop DEF EvaluateReturn, RecomputeInv, Frames
<1>2. ~disposed[Top.node] /\ dirty[Top.node]
  BY <1>1 DEF RecomputeInv, Stacked
<1> DEFINE x == Top.node
           now == Top.tracked
<1>3. subs' = Follow(x, now)
  BY DEF EvaluateReturn
<1>4. x \in Computeds /\ now \in SUBSET Nodes
  BY <1>1
<1> HIDE DEF x, now
<1>5. /\ \A n \in Nodes : /\ Distinct(subs'[n])
                          /\ n \in deps[x] \ now => Members(subs'[n]) = Members(subs[n]) \ {x}
                          /\ n \in now \ deps[x] => Members(subs'[n]) = Members(subs[n]) \cup {x}
                          /\ n \notin deps[x] \ now /\ n \notin now \ deps[x] => subs'[n] = subs[n]
  <2>1. \A n \in Nodes :
             /\ Distinct(Follow(x, now)[n])
             /\ n \in deps[x] \ now => Members(Follow(x, now)[n]) = Subscribed(n) \ {x}
             /\ n \in now \ deps[x] => Members(Follow(x, now)[n]) = Subscribed(n) \cup {x}
             /\ n \notin deps[x] \ now /\ n \notin now \ deps[x] => Follow(x, now)[n] = subs[n]
    BY <1>4, FollowEffect DEF RecomputeInv
  <2> QED BY <1>3, <2>1 DEF Subscribed
<1>6. \A n \in Nodes : /\ Members(subs'[n]) \subseteq Members(subs[n]) \cup {x}
                       /\ Members(subs[n]) \subseteq Members(subs'[n]) \cup {x}
                       /\ n \in deps[x] \ now => x \notin Members(subs'[n])
                       /\ n \in now \ deps[x] => x \in Members(subs'[n])
  BY <1>5
<1>7. \A n \in Nodes : (n \in now <=> n \in deps[x]) => subs'[n] = subs[n]
  BY <1>5
<1> QED BY <1>1, <1>2, <1>5, <1>6, <1>7 DEF x, now

LEMMA DisposeSubs ==
    ASSUME RecomputeInv, NEW c \in Computeds, Dispose(c)
    PROVE  /\ subs'[c] = <<>>
           /\ \A n \in Nodes :
                /\ Distinct(subs'[n]) /\ Members(subs'[n]) \subseteq Members(subs[n])
                /\ c \notin Members(subs'[n])
                /\ n # c => Members(subs[n]) \subseteq Members(subs'[n]) \cup {c}
                /\ subs[n] = <<>> => subs'[n] = <<>>
<1>1. /\ c \in Nodes
      /\ \A n \in Nodes : /\ subs[n] \in Seq(Subs) /\ Distinct(subs[n])
                          /\ c \in Members(subs[n]) => n \in deps[c]
      /\ subs' = [n \in Nodes |-> IF n = c THEN <<>>
                                  ELSE IF n \in deps[c] THEN Drop(subs[n], c)
                                  ELSE subs[n]]
  BY Listening, ComputedsAreNodes DEF RecomputeInv, CTypeOK, TypeOK, Dispose, Subscribed
<1>2. \A n \in Nodes : /\ Distinct(Drop(subs[n], c))
                       /\ Members(Drop(subs[n], c)) = Members(subs[n]) \ {c}
  BY <1>1, DropProperties
<1>3. \A n \in Nodes : subs[n] = <<>> => Drop(subs[n], c) = <<>>
  BY MembersEmpty DEF Drop
<1>4. Distinct(<<>>) /\ Members(<<>>) = {}
  BY MembersEmpty DEF Distinct
<1> QED BY <1>1, <1>2, <1>3, <1>4
-----------------------------------------------------------------------------
(* The evaluations on the stack.                                           *)

(* What the innermost evaluation has read is clean.                        *)
LEMMA TopTracked ==
    ASSUME RecomputeInv, ~Idle
    PROVE  \A n \in Top.tracked \cap Computeds : ~disposed[n] /\ ~dirty[n]
<1>1. Len(evalStack) \in 1..Len(evalStack) /\ ~(Len(evalStack) < Len(evalStack))
  BY StackTop DEF RecomputeInv
<1> QED BY <1>1, StackTop DEF RecomputeInv, Stacked

(* An empty stack, and a stack of one new evaluation.                      *)
LEMMA StackedEmpty == ASSUME evalStack' = <<>> PROVE Stacked'
BY DEF Stacked

LEMMA StackedOne ==
    ASSUME NEW c \in Computeds, evalStack' = <<Frame(c)>>, ~disposed'[c], dirty'[c]
    PROVE  Stacked'
<1>1. Len(evalStack') = 1 /\ evalStack'[1] = Frame(c)
  OBVIOUS
<1>2. Frame(c).node = c /\ Frame(c).tracked = {}
  BY NewFrame
<1> QED BY <1>1, <1>2 DEF Stacked

(* The innermost evaluation has read a cell or a clean computed.           *)
LEMMA StackedRead ==
    ASSUME RecomputeInv, ~Idle, NEW n \in Nodes, NEW v \in Values,
           evalStack' = Append(Callers, Receive(Track(Top, n), v)),
           n \in Computeds => ~disposed[n] /\ ~dirty[n],
           UNCHANGED <<disposed, dirty>>
    PROVE  Stacked'
<1> DEFINE k == Len(evalStack)
           f == Receive(Track(Top, n), v)
<1>1. /\ k \in Nat \ {0} /\ Top = evalStack[k] /\ Top \in Frames
  BY StackTop DEF RecomputeInv
<1>2. f \in Frames /\ f.node = evalStack[k].node /\ f.tracked = evalStack[k].tracked \cup {n}
  <2> DEFINE g == Track(Top, n)
  <2>1. g \in Frames /\ g.node = Top.node /\ g.tracked = Top.tracked \cup {n}
    BY <1>1, FrameSteps
  <2>2. f = Receive(g, v)
    OBVIOUS
  <2> HIDE DEF g, f
  <2>3. f \in Frames /\ f.node = g.node /\ f.tracked = g.tracked
    BY <2>1, <2>2, FrameSteps
  <2> QED BY <1>1, <2>1, <2>3
<1>3. /\ Len(evalStack') = k /\ evalStack'[k] = f
      /\ \A i \in 1..(k - 1) : evalStack'[i] = evalStack[i]
  BY <1>2, TopReplaced DEF RecomputeInv
<1> HIDE DEF k, f
<1>4. /\ \A i \in 1..k : ~disposed[evalStack[i].node] /\ dirty[evalStack[i].node]
      /\ \A i, j \in 1..k : evalStack[i].node = evalStack[j].node => i = j
      /\ \A i \in 1..k : \A m \in evalStack[i].tracked \cap Computeds :
           ~disposed[m] /\ (dirty[m] => i < k /\ m = evalStack[i + 1].node)
  BY DEF RecomputeInv, Stacked, k
<1>5. /\ \A i \in 1..k : i = k \/ i \in 1..(k - 1)
      /\ \A i \in 1..k : i < k => i + 1 \in 1..k
  BY <1>1
<1>6. \A i \in 1..k : evalStack'[i].node = evalStack[i].node
  BY <1>2, <1>3, <1>5
<1>7. \A i \in 1..k : \A m \in evalStack'[i].tracked \cap Computeds :
         ~disposed[m] /\ (dirty[m] => i < k /\ m = evalStack'[i + 1].node)
  <2> SUFFICES ASSUME NEW i \in 1..k, NEW m \in evalStack'[i].tracked \cap Computeds
               PROVE  ~disposed[m] /\ (dirty[m] => i < k /\ m = evalStack'[i + 1].node)
    OBVIOUS
  <2>1. CASE m \in evalStack[i].tracked
    BY <1>4, <1>5, <1>6, <2>1
  <2>2. CASE m \notin evalStack[i].tracked
    <3>1. i = k /\ m = n
      BY <1>2, <1>3, <1>5, <2>2
    <3> QED BY <3>1
  <2> QED BY <2>1, <2>2
<1> QED BY <1>3, <1>4, <1>6, <1>7 DEF Stacked

(* The innermost evaluation waits for one of a dirty computed.             *)
LEMMA StackedNested ==
    ASSUME RecomputeInv, NEW n \in Computeds, ReadDirty(n) PROVE Stacked'
<1> DEFINE k == Len(evalStack)
           f == Track(Top, n)
           g == Frame(n)
<1>1. /\ k \in Nat \ {0} /\ Top = evalStack[k] /\ Top \in Frames /\ n \in Nodes
      /\ ~Idle /\ ~disposed[n] /\ dirty[n] /\ UNCHANGED <<disposed, dirty>>
      /\ DOMAIN evalStack = 1..k /\ n \notin Evaluating
      /\ evalStack' = Callers \o <<f, g>>
  BY StackTop, ComputedsAreNodes DEF RecomputeInv, ReadDirty, ReadsNode
<1>2. /\ f \in Frames /\ f.node = evalStack[k].node /\ f.tracked = evalStack[k].tracked \cup {n}
      /\ g \in Frames /\ g.node = n /\ g.tracked = {}
  BY <1>1, FrameSteps, NewFrame
<1> HIDE DEF f, g
<1>3. /\ Len(evalStack') = k + 1 /\ evalStack'[k] = f /\ evalStack'[k + 1] = g
      /\ \A i \in 1..(k - 1) : evalStack'[i] = evalStack[i]
  <2>1. CTypeOK
    BY DEF RecomputeInv
  <2> QED BY ONLY <1>1, <1>2, <2>1, FramePushed
<1> HIDE DEF k
<1>4. /\ \A i \in 1..k : ~disposed[evalStack[i].node] /\ dirty[evalStack[i].node]
      /\ \A i, j \in 1..k : evalStack[i].node = evalStack[j].node => i = j
      /\ \A i \in 1..k : \A m \in evalStack[i].tracked \cap Computeds :
           ~disposed[m] /\ (dirty[m] => i < k /\ m = evalStack[i + 1].node)
  BY DEF RecomputeInv, Stacked, k
<1>5. /\ \A i \in 1..(k + 1) : i \in 1..k \/ i = k + 1
      /\ \A i \in 1..k : i = k \/ i \in 1..(k - 1)
      /\ \A i \in 1..k : i < k + 1 /\ i # k + 1 /\ (i < k => i + 1 \in 1..k)
  BY <1>1
<1>6. \A i \in 1..k : evalStack'[i].node = evalStack[i].node /\ evalStack[i].node # n
  BY <1>1, <1>2, <1>3, <1>5 DEF Evaluating
<1>7. /\ \A i \in 1..(k + 1) : ~disposed'[evalStack'[i].node] /\ dirty'[evalStack'[i].node]
      /\ \A i, j \in 1..(k + 1) : evalStack'[i].node = evalStack'[j].node => i = j
  <2>1. evalStack'[k + 1].node = n
    BY <1>2, <1>3
  <2>2. \A i \in 1..(k + 1) : ~disposed'[evalStack'[i].node] /\ dirty'[evalStack'[i].node]
    BY <1>1, <1>4, <1>5, <1>6, <2>1
  <2>3. ASSUME NEW i \in 1..(k + 1), NEW j \in 1..(k + 1), evalStack'[i].node = evalStack'[j].node
        PROVE  i = j
    BY <1>4, <1>5, <1>6, <2>1, <2>3
  <2> QED BY <2>2, <2>3
<1>8. \A i \in 1..(k + 1) : \A m \in evalStack'[i].tracked \cap Computeds :
         ~disposed'[m] /\ (dirty'[m] => i < k + 1 /\ m = evalStack'[i + 1].node)
  <2> SUFFICES ASSUME NEW i \in 1..(k + 1), NEW m \in evalStack'[i].tracked \cap Computeds
               PROVE  ~disposed[m] /\ (dirty[m] => i < k + 1 /\ m = evalStack'[i + 1].node)
    BY <1>1
  <2>1. i \in 1..k
    BY <1>2, <1>3, <1>5
  <2>2. CASE m \in evalStack[i].tracked
    BY <1>4, <1>5, <1>6, <2>1, <2>2
  <2>3. CASE m \notin evalStack[i].tracked
    <3>1. i = k /\ m = n
      BY <1>2, <1>3, <1>5, <2>1, <2>3
    <3> QED BY <1>1, <1>2, <1>3, <1>5, <2>1, <3>1
  <2> QED BY <2>2, <2>3
<1> QED BY <1>3, <1>7, <1>8 DEF Stacked

(* The innermost evaluation returns to the one that waits for it.          *)
LEMMA StackedReturn == ASSUME WellTyped, RecomputeInv, EvaluateReturn PROVE Stacked'
<1>1. CASE ~(Len(evalStack) > 1)
  BY <1>1, StackedEmpty DEF EvaluateReturn
<1>2. CASE Len(evalStack) > 1
  <2> DEFINE k == Len(evalStack)
             x == Top.node
             f == Receive(evalStack[k - 1], Step.value)
  <2>1. /\ k \in Nat /\ k > 1 /\ x = evalStack[k].node /\ x \in Computeds /\ ~Idle
        /\ evalStack[k - 1] \in Frames /\ Step.value \in Values
        /\ UNCHANGED disposed
    BY <1>2, StackTop, StepTyped DEF RecomputeInv, EvaluateReturn, Frames
  <2>2. f.node = evalStack[k - 1].node /\ f.tracked = evalStack[k - 1].tracked
    BY <2>1, FrameSteps
  <2>3. /\ Len(evalStack') = k - 1 /\ evalStack'[k - 1] = f
        /\ \A i \in 1..(k - 2) : evalStack'[i] = evalStack[i]
    BY <1>2, <2>1, FramePopped DEF RecomputeInv, EvaluateReturn
  <2>4. ~dirty'[x] /\ \A c \in Computeds : c # x => dirty'[c] = dirty[c]
    BY <2>1 DEF EvaluateReturn, RecomputeInv, CTypeOK
  <2>5. \A i \in 1..k : evalStack[i].node \in Computeds
    BY <2>1, StackTop DEF RecomputeInv, Frames
  <2> HIDE DEF k, x, f
  <2>6. /\ \A i \in 1..k : ~disposed[evalStack[i].node] /\ dirty[evalStack[i].node]
        /\ \A i, j \in 1..k : evalStack[i].node = evalStack[j].node => i = j
        /\ \A i \in 1..k : \A m \in evalStack[i].tracked \cap Computeds :
             ~disposed[m] /\ (dirty[m] => i < k /\ m = evalStack[i + 1].node)
    BY DEF RecomputeInv, Stacked, k
  <2>7. /\ \A i \in 1..(k - 1) : i \in 1..k /\ i # k /\ (i = k - 1 \/ i \in 1..(k - 2))
        /\ \A i \in 1..(k - 1) : i < k - 1 \/ i + 1 = k
        /\ \A i \in 1..(k - 1) : i < k - 1 => i + 1 \in 1..(k - 1)
        /\ k \in 1..k
    BY <2>1
  <2>8. \A i \in 1..(k - 1) : /\ evalStack'[i].node = evalStack[i].node
                              /\ evalStack'[i].tracked = evalStack[i].tracked
                              /\ evalStack[i].node # x /\ evalStack[i].node \in Computeds
    BY <2>1, <2>2, <2>3, <2>5, <2>6, <2>7
  <2>9. /\ \A i \in 1..(k - 1) : ~disposed'[evalStack'[i].node] /\ dirty'[evalStack'[i].node]
        /\ \A i, j \in 1..(k - 1) : evalStack'[i].node = evalStack'[j].node => i = j
    BY <2>1, <2>4, <2>6, <2>7, <2>8
  <2>10. \A i \in 1..(k - 1) : \A m \in evalStack'[i].tracked \cap Computeds :
            ~disposed'[m] /\ (dirty'[m] => i < k - 1 /\ m = evalStack'[i + 1].node)
    <3> SUFFICES ASSUME NEW i \in 1..(k - 1), NEW m \in evalStack'[i].tracked \cap Computeds
                 PROVE  ~disposed[m] /\ (dirty'[m] => i < k - 1 /\ m = evalStack'[i + 1].node)
      BY <2>1
    <3>1. ~disposed[m] /\ (dirty[m] => m = evalStack[i + 1].node)
      BY <2>6, <2>7, <2>8
    <3>2. CASE i + 1 = k
      BY <2>1, <2>4, <3>1, <3>2
    <3>3. CASE i < k - 1
      BY <2>4, <2>7, <2>8, <3>1, <3>3
    <3> QED BY <2>7, <3>2, <3>3
  <2> QED BY <2>3, <2>9, <2>10 DEF Stacked
<1> QED BY <1>1, <1>2

(* Every step keeps the stack in order.                                    *)
LEMMA NextStacked == ASSUME WellTyped, RecomputeInv, [CNext]_cvars PROVE Stacked'
<1> USE DEF RecomputeInv
<1>1. ASSUME UNCHANGED <<evalStack, disposed, dirty>> PROVE Stacked'
  BY <1>1 DEF Stacked
<1>2. CASE Looks
  <2>1. ASSUME NEW n \in Cells, ReadCell(n) PROVE Stacked'
    BY <2>1, ComputedsAreNodes, StackedRead DEF ReadCell, ReadsNode, CTypeOK, TypeOK
  <2>2. ASSUME NEW n \in Computeds, ReadClean(n) PROVE Stacked'
    BY <2>2, ComputedsAreNodes, StackedRead DEF ReadClean, ReadsNode, CTypeOK
  <2>3. ASSUME Reevaluate PROVE Stacked'
    BY <2>3, StackedOne DEF Reevaluate, Recomputing, Unneeded, JobsKnown
  <2> QED BY <1>2, <2>1, <2>2, <2>3, StackedNested DEF Looks
<1>3. ASSUME NEW c \in Computeds, Get(c) PROVE Stacked'
  BY <1>3, StackedOne DEF Get
<1>4. ASSUME NEW c \in Computeds, NEW s \in UserSubs, Observe(c, s) PROVE Stacked'
  BY <1>4, StackedOne, StackedEmpty DEF Observe, Idle
<1>5. ASSUME NEW c \in Computeds, Dispose(c) PROVE Stacked'
  BY <1>5, StackedEmpty DEF Dispose, Idle
<1>6. CASE EvaluateThrow
  BY <1>6, StackedEmpty DEF EvaluateThrow
<1>7. CASE CoreStep \/ GiveUp \/ Invalidate \/ StartRecompute \/ SkipRecompute \/ FinishRecompute
           \/ UNCHANGED cvars
  <2>1. evalStack' = <<>> \/ UNCHANGED <<evalStack, disposed, dirty>>
    BY <1>7 DEF CoreStep, GiveUp, Invalidate, StartRecompute, SkipRecompute, FinishRecompute,
                Recomputing, cvars, computedVars, Idle
  <2> QED BY <1>1, <2>1, StackedEmpty
<1> QED BY <1>2, <1>3, <1>4, <1>5, <1>6, <1>7, StackedReturn, StepCases
-----------------------------------------------------------------------------
(* The remaining parts of the invariant.                                   *)

(* Every step keeps JobsKnown and Flags.                                   *)
LEMMA NextJobs == ASSUME WellTyped, RecomputeInv, [CNext]_cvars PROVE JobsKnown' /\ Flags'
<1> USE DEF RecomputeInv
<1>t. /\ pendingJobs \in Seq(Jobs) /\ Members(pendingJobs) \subseteq Jobs
      /\ recomputeScheduled \in [Computeds -> BOOLEAN]
      /\ job \in Jobs \cup {None} /\ pendingJobs' \in Seq(Jobs) /\ Members(pendingJobs') \subseteq Jobs
  BY NextCoreTyped, MembersIn DEF CTypeOK, TypeOK
<1>1. CASE CoreStep
  <2>1. ~(job' # None /\ job'.kind = "recompute")
        /\ \A j \in Jobs : j.kind = "recompute" =>
             (j \in Members(pendingJobs') <=> j \in Members(pendingJobs))
        /\ UNCHANGED recomputeScheduled
    BY <1>1, CoreJobs DEF CoreStep, computedVars
  <2>2. JobsKnown'
    BY <1>t, <2>1 DEF JobsKnown
  <2>3. Flags'
    BY <2>1, RecomputeJobType DEF Flags
  <2> QED BY <2>2, <2>3
<1>2. ASSUME UNCHANGED <<pendingJobs, recomputeScheduled>>,
             job' # None /\ job'.kind = "recompute" =>
                job' = job /\ running' = running /\ (snapshot = <<>> => snapshot' = <<>>)
      PROVE  JobsKnown' /\ Flags'
  BY <1>2 DEF JobsKnown, Flags
<1>c. Call => running' = running
  BY DEF Call, listenerVars
<1>3. CASE Looks
  BY <1>2, <1>3 DEF Looks, ReadCell, ReadClean, ReadDirty, Reevaluate, vars, schedulerVars,
                    deliveryVars, listenerVars
<1>4. ASSUME NEW c \in Computeds, Get(c) PROVE JobsKnown' /\ Flags'
  BY <1>2, <1>c, <1>4 DEF Get, schedulerVars, deliveryVars
<1>5. ASSUME NEW c \in Computeds, Dispose(c) PROVE JobsKnown' /\ Flags'
  <2>1. snapshot = <<>> => snapshot' = <<>>
    BY <1>5, SnapshotEffect DEF Dispose, CTypeOK
  <2> QED BY <1>2, <1>c, <1>5, <2>1 DEF Dispose, schedulerVars
<1>6. ASSUME NEW c \in Computeds, NEW s \in UserSubs, Observe(c, s) PROVE JobsKnown' /\ Flags'
  BY <1>2, <1>c, <1>6 DEF Observe, schedulerVars, deliveryVars
<1>7. CASE EvaluateReturn
  <2>1. snapshot = <<>> => snapshot' = <<>>
    BY <1>7, SnapshotEffect DEF EvaluateReturn, CTypeOK
  <2> QED BY <1>2, <1>7, <2>1 DEF EvaluateReturn, schedulerVars, listenerVars
<1>8. CASE EvaluateThrow
  BY <1>2, <1>8 DEF EvaluateThrow, deliveryVars, listenerVars
<1>9. CASE Invalidate
  <2>1. job' = job /\ ~(job # None /\ job.kind = "recompute")
    BY <1>9, InvalidateQueues DEF Invalidate, Delivering
  <2>2. CASE SchedulesRecompute(Head(snapshot))
    <3> PICK x \in Computeds :
            /\ Members(pendingJobs') = Members(pendingJobs) \cup {RecomputeJob(x)}
            /\ recomputeScheduled' = [recomputeScheduled EXCEPT ![x] = TRUE]
      BY <1>9, <2>2, InvalidateQueues
    <3>1. JobsKnown'
      BY <2>1 DEF JobsKnown
    <3>2. Flags'
      BY <1>t DEF Flags
    <3> QED BY <3>1, <3>2
  <2>3. CASE ~SchedulesRecompute(Head(snapshot))
    BY <1>2, <1>9, <2>1, <2>3, InvalidateQueues
  <2> QED BY <2>2, <2>3
<1>10. CASE StartRecompute
  <2> PICK c \in Computeds :
             /\ job = None /\ job' = RecomputeJob(c)
             /\ Members(pendingJobs) = {RecomputeJob(c)} \cup Members(pendingJobs')
             /\ RecomputeJob(c) \notin Members(pendingJobs')
             /\ recomputeScheduled' = [recomputeScheduled EXCEPT ![c] = FALSE]
    BY <1>10, StartTakes
  <2>1. snapshot' = <<>> /\ running' = None
    BY <1>10 DEF Phases, StartRecompute, deliveryVars, listenerVars
  <2>2. JobsKnown'
    BY <2>1 DEF JobsKnown
  <2>3. Flags'
    BY <1>t DEF Flags
  <2> QED BY <2>2, <2>3
<1>11. CASE SkipRecompute
  BY <1>2, <1>11 DEF SkipRecompute, computedVars
<1>12. CASE FinishRecompute
  <2>1. /\ job' = None /\ UNCHANGED recomputeScheduled
        /\ \A c \in Computeds :
             RecomputeJob(c) \in Members(pendingJobs') <=> RecomputeJob(c) \in Members(pendingJobs)
        /\ \A j \in Members(pendingJobs') :
             j \in Members(pendingJobs) \/ j = FlushJob(job.node)
    BY <1>12, FinishNotifies
  <2>2. JobsKnown'
    BY <2>1 DEF JobsKnown
  <2>3. Flags'
    BY <2>1 DEF Flags
  <2> QED BY <2>2, <2>3
<1>13. CASE GiveUp
  <2>1. pendingJobs' = <<>> /\ job' = None
    BY <1>13 DEF GiveUp, CutOffJobs
  <2>2. \A c \in Computeds : ~recomputeScheduled'[c]
    BY <1>13 DEF GiveUp, DiscardRecomputes, Flags
  <2> QED BY <2>1, <2>2, MembersEmpty DEF JobsKnown, Flags
<1>14. CASE UNCHANGED cvars
  BY <1>2, <1>14 DEF cvars, computedVars, vars, schedulerVars, deliveryVars, listenerVars
<1> QED BY <1>1, <1>3, <1>4, <1>5, <1>6, <1>7, <1>8, <1>9, <1>10, <1>11, <1>12, <1>13, <1>14,
           StepCases

(* What one step does to the subscriptions, case by case.                  *)
LEMMA ThrowSubs ==
    ASSUME RecomputeInv, EvaluateThrow
    PROVE  /\ \A n \in Nodes : /\ Distinct(subs'[n])
                               /\ Members(subs'[n]) \subseteq Members(subs[n])
                               /\ \A c \in Computeds : c \in Members(subs'[n]) <=> c \in Members(subs[n])
           /\ observer # None =>
                /\ evalStack[1].node \in Computeds
                /\ Members(subs'[evalStack[1].node]) = Members(subs[evalStack[1].node]) \ {observer}
                /\ \A n \in Nodes : n # evalStack[1].node => subs'[n] = subs[n]
           /\ observer = None => subs' = subs
<1>1. /\ \A n \in Nodes : subs[n] \in Seq(Subs) /\ Distinct(subs[n])
      /\ subs \in [Nodes -> Seq(Subs)]
  BY DEF RecomputeInv, CTypeOK, TypeOK, ListensToDependencies
<1>2. CASE observer = None
  BY <1>1, <1>2 DEF EvaluateThrow
<1>3. CASE observer # None
  <2> DEFINE b == evalStack[1].node
  <2>1. b \in Computeds /\ b \in Nodes /\ observer \notin Computeds
    <3>1. b \in Computeds
      BY <1>3, StackTop DEF EvaluateThrow, RecomputeInv, Frames
    <3>2. observer \in UserSubs
      BY <1>3 DEF RecomputeInv, CTypeOK
    <3> QED BY <3>1, <3>2, ComputedsAreNodes
  <2>2. subs' = [subs EXCEPT ![b] = Drop(subs[b], observer)]
    BY <1>3 DEF EvaluateThrow
  <2> HIDE DEF b
  <2>3. /\ Distinct(Drop(subs[b], observer))
        /\ Members(Drop(subs[b], observer)) = Members(subs[b]) \ {observer}
    BY <1>1, <2>1, DropProperties
  <2>4. subs'[b] = Drop(subs[b], observer) /\ \A n \in Nodes : n # b => subs'[n] = subs[n]
    BY <1>1, <2>1, <2>2
  <2>5. /\ \A n \in Nodes : /\ Distinct(subs'[n])
                            /\ Members(subs'[n]) \subseteq Members(subs[n])
                            /\ \A c \in Computeds : c \in Members(subs'[n]) <=> c \in Members(subs[n])
        /\ b \in Computeds /\ Members(subs'[b]) = Members(subs[b]) \ {observer}
        /\ \A n \in Nodes : n # b => subs'[n] = subs[n]
    BY <1>1, <2>1, <2>3, <2>4
  <2> QED BY <1>3, <2>5 DEF b
<1> QED BY <1>2, <1>3

LEMMA ObserveSubs ==
    ASSUME RecomputeInv, NEW c \in Computeds, NEW s \in UserSubs, Observe(c, s)
    PROVE  /\ \A n \in Nodes :
                /\ Distinct(subs'[n])
                /\ \A x \in Computeds : x \in Members(subs'[n]) <=> x \in Members(subs[n])
                /\ n # c => subs'[n] = subs[n]
           /\ Members(subs'[c]) = Members(subs[c]) \cup {s} /\ s \notin Members(subs[c])
           /\ subs'[c] = Append(subs[c], s)
<1>1. /\ \A n \in Nodes : subs[n] \in Seq(Subs) /\ Distinct(subs[n])
      /\ subs \in [Nodes -> Seq(Subs)]
      /\ s \in Subs /\ s \notin Computeds /\ c \in Nodes /\ s \notin Members(subs[c])
      /\ subs' = [subs EXCEPT ![c] = Append(subs[c], s)]
  BY SubsAssumption, ComputedsAreNodes
     DEF RecomputeInv, CTypeOK, TypeOK, ListensToDependencies, Observe, Subscribed
<1>2. /\ Members(Append(subs[c], s)) = Members(subs[c]) \cup {s} /\ Distinct(Append(subs[c], s))
  BY <1>1, MembersAppend, DistinctAppend
<1>3. subs'[c] = Append(subs[c], s) /\ \A n \in Nodes : n # c => subs'[n] = subs[n]
  BY <1>1
<1> QED BY <1>1, <1>2, <1>3

(* Every step keeps Gone and Observing.                                    *)
LEMMA NextGone == ASSUME WellTyped, RecomputeInv, [CNext]_cvars PROVE Gone'
<1> USE DEF RecomputeInv
<1>1. ASSUME UNCHANGED disposed, \A c \in Computeds : disposed[c] => Members(subs'[c]) \subseteq Members(subs[c])
      PROVE  Gone'
  BY <1>1 DEF Gone, Subscribed
<1>2. CASE CoreStep
  BY <1>1, <1>2, CoreSubs, ComputedsAreNodes DEF CoreStep, computedVars
<1>3. ASSUME NEW c \in Computeds, Dispose(c) PROVE Gone'
  <2>1. disposed' = [disposed EXCEPT ![c] = TRUE] /\ disposed \in [Computeds -> BOOLEAN]
    BY <1>3 DEF Dispose, CTypeOK
  <2>2. /\ Members(subs'[c]) = {}
        /\ \A n \in Nodes : Members(subs'[n]) \subseteq Members(subs[n])
    BY <1>3, DisposeSubs, MembersEmpty
  <2> QED BY <2>1, <2>2, ComputedsAreNodes DEF Gone, Subscribed
<1>4. ASSUME NEW c \in Computeds, NEW s \in UserSubs, Observe(c, s) PROVE Gone'
  <2>1. ~disposed[c] /\ UNCHANGED disposed
    BY <1>4 DEF Observe
  <2> QED BY <1>1, <1>4, <2>1, ObserveSubs, ComputedsAreNodes
<1>5. CASE EvaluateReturn
  <2>1. UNCHANGED disposed /\ ~Idle
    BY <1>5 DEF EvaluateReturn
  <2> DEFINE x == Top.node
  <2>2. ASSUME NEW c \in Computeds, disposed[c]
        PROVE  Members(subs'[c]) \subseteq Members(subs[c])
    <3>1. c \in Nodes /\ Members(subs'[c]) \subseteq Members(subs[c]) \cup {x}
      BY <1>5, ReturnSubs, ComputedsAreNodes
    <3>2. c \notin Top.tracked
      BY <2>1, <2>2, TopTracked
    <3>3. c \in deps[x] => x \notin Members(subs'[c])
      BY <1>5, <3>1, <3>2, ReturnSubs
    <3>4. c \notin deps[x] => subs'[c] = subs[c]
      BY <1>5, <3>1, <3>2, ReturnSubs
    <3> QED BY <3>1, <3>3, <3>4
  <2> QED BY <1>1, <2>1, <2>2
<1>6. CASE EvaluateThrow
  BY <1>1, <1>6, ThrowSubs, ComputedsAreNodes DEF EvaluateThrow
<1>7. CASE Looks \/ GiveUp \/ Invalidate \/ StartRecompute \/ SkipRecompute \/ FinishRecompute
           \/ (\E c \in Computeds : Get(c)) \/ UNCHANGED cvars
  <2>1. UNCHANGED <<subs, disposed>>
    BY <1>7, LooksStutters DEF Looks, ReadCell, ReadClean, ReadDirty, Reevaluate, GiveUp,
       CutOffJobs, Invalidate, StartRecompute, SkipRecompute, FinishRecompute, Get, cvars, vars,
       computedVars, notifierVars
  <2> QED BY <1>1, <2>1
<1> QED BY <1>2, <1>3, <1>4, <1>5, <1>6, <1>7, StepCases

(* The outermost evaluation stays the outermost until it ends.             *)
LEMMA FirstStays ==
    ASSUME WellTyped, RecomputeInv, [CNext]_cvars, ~Idle
    PROVE  /\ evalStack[1].node \in Computeds
           /\ \/ evalStack' = <<>> /\ observer' = None
              \/ /\ ~Idle' /\ evalStack'[1].node = evalStack[1].node /\ observer' = observer
<1> USE DEF RecomputeInv
<1> DEFINE Stays == ~Idle' /\ evalStack'[1].node = evalStack[1].node
<1>b. /\ Len(evalStack) \in Nat \ {0} /\ Top \in Frames
      /\ evalStack[1].node \in Computeds /\ Top = evalStack[Len(evalStack)]
  <2>1. /\ Len(evalStack) \in Nat \ {0} /\ Top \in Frames /\ Top = evalStack[Len(evalStack)]
        /\ evalStack[1] \in Frames
    BY StackTop
  <2> QED BY <2>1 DEF Frames
<1>c. Len(evalStack) = 1 \/ 1 \in 1..(Len(evalStack) - 1)
  <2> DEFINE k == Len(evalStack)
  <2>1. k \in Nat \ {0}
    BY <1>b
  <2> HIDE DEF k
  <2>2. k = 1 \/ 1 \in 1..(k - 1)
    BY <2>1
  <2> QED BY <2>2 DEF k
<1>n. Len(evalStack') # 0 => ~Idle'
  BY DEF Idle
<1>1. ASSUME NEW f \in Frames, f.node = Top.node, evalStack' = Append(Callers, f)
      PROVE  Stays
  <2>1. /\ Len(evalStack') = Len(evalStack) /\ evalStack'[Len(evalStack)] = f
        /\ \A i \in 1..(Len(evalStack) - 1) : evalStack'[i] = evalStack[i]
    BY <1>1, TopReplaced
  <2>2. ~Idle'
    BY <1>b, <1>n, <2>1
  <2> QED BY <1>1, <1>b, <1>c, <2>1, <2>2
<1>2. ASSUME NEW n \in Nodes, NEW v \in Values, evalStack' = Append(Callers, Receive(Track(Top, n), v))
      PROVE  Stays
  <2> DEFINE g == Track(Top, n)
  <2>1. g \in Frames /\ g.node = Top.node
    BY <1>b, FrameSteps
  <2>2. evalStack' = Append(Callers, Receive(g, v))
    BY <1>2
  <2> HIDE DEF g
  <2>3. Receive(g, v) \in Frames /\ Receive(g, v).node = Top.node
    BY <2>1, FrameSteps
  <2> HIDE DEF Stays
  <2> QED BY <1>1, <2>2, <2>3
<1>3. ASSUME NEW n \in Cells, ReadCell(n) PROVE Stays
  <2>1. n \in Nodes /\ value[n] \in Values
    BY ComputedsAreNodes DEF CTypeOK, TypeOK
  <2> HIDE DEF Stays
  <2> QED BY <1>2, <1>3, <2>1 DEF ReadCell
<1>4. ASSUME NEW n \in Computeds, ReadClean(n) PROVE Stays
  <2>1. n \in Nodes /\ cached[n] \in Values
    BY ComputedsAreNodes DEF CTypeOK
  <2> HIDE DEF Stays
  <2> QED BY <1>2, <1>4, <2>1 DEF ReadClean
<1>5. ASSUME NEW n \in Computeds, ReadDirty(n) PROVE Stays
  <2> DEFINE f == Track(Top, n)
             g == Frame(n)
  <2>1. f \in Frames /\ f.node = Top.node /\ g \in Frames /\ evalStack' = Callers \o <<f, g>>
    BY <1>b, <1>5, FrameSteps, NewFrame, ComputedsAreNodes DEF ReadDirty
  <2> HIDE DEF f, g
  <2>2. /\ Len(evalStack') = Len(evalStack) + 1 /\ evalStack'[Len(evalStack)] = f
        /\ \A i \in 1..(Len(evalStack) - 1) : evalStack'[i] = evalStack[i]
    BY <2>1, FramePushed
  <2>3. Len(evalStack') # 0
    BY <1>b, <2>2
  <2>4. CASE Len(evalStack) = 1
    BY <1>b, <1>n, <2>1, <2>2, <2>3, <2>4
  <2>5. CASE 1 \in 1..(Len(evalStack) - 1)
    BY <1>n, <2>2, <2>3, <2>5
  <2> QED BY <1>c, <2>4, <2>5
<1>6. ASSUME EvaluateReturn, Len(evalStack) > 1 PROVE Stays
  <2> DEFINE k == Len(evalStack)
             f == Receive(evalStack[k - 1], Step.value)
  <2>1. k \in Nat /\ k > 1 /\ evalStack[k - 1] \in Frames /\ Step.value \in Values
    <3>1. Step.value \in Values
      BY <1>6, StepTyped DEF EvaluateReturn
    <3>2. k \in Nat /\ k > 1 /\ \A i \in 1..k : evalStack[i] \in Frames
      BY <1>6, StackTop
    <3> HIDE DEF k
    <3> QED BY <3>1, <3>2
  <2>2. f.node = evalStack[k - 1].node
    BY <2>1, FrameSteps
  <2>3. /\ Len(evalStack') = k - 1 /\ evalStack'[k - 1] = f
        /\ \A i \in 1..(k - 2) : evalStack'[i] = evalStack[i]
    BY <1>6, <2>1, FramePopped DEF EvaluateReturn
  <2> HIDE DEF f, k
  <2>4. ~Idle' /\ (k = 2 \/ 1 \in 1..(k - 2))
    BY <1>n, <2>1, <2>3
  <2>5. CASE k = 2
    BY <2>2, <2>3, <2>4, <2>5
  <2>6. CASE 1 \in 1..(k - 2)
    BY <2>3, <2>4, <2>6
  <2> QED BY <2>4, <2>5, <2>6
<1>7. CASE EvaluateReturn \/ EvaluateThrow
  <2>1. \/ evalStack' = <<>> /\ observer' = None
        \/ EvaluateReturn /\ Len(evalStack) > 1 /\ observer' = observer
    BY <1>7 DEF EvaluateReturn, EvaluateThrow
  <2> QED BY <1>6, <1>b, <2>1
<1>8. CASE UNCHANGED cvars
  BY <1>8, <1>b DEF cvars, computedVars, Idle
<1>9. CASE Looks
  <2>1. ~Reevaluate /\ observer' = observer
    BY <1>9 DEF Looks, ReadCell, ReadClean, ReadDirty, Reevaluate, Recomputing
  <2> QED BY <1>3, <1>4, <1>5, <1>9, <1>b, <2>1 DEF Looks
<1> QED BY <1>7, <1>8, <1>9, StepCases
        DEF CoreStep, GiveUp, Get, Dispose, Observe, Invalidate, StartRecompute, SkipRecompute,
            FinishRecompute, Recomputing

LEMMA NextObserving == ASSUME WellTyped, RecomputeInv, [CNext]_cvars PROVE Observing'
<1> USE DEF RecomputeInv
<1>1. ASSUME observer' = None PROVE Observing'
  BY <1>1 DEF Observing
<1>i. Idle => observer = None
  BY DEF Observing
<1>2. ASSUME NEW c \in Computeds, NEW s \in UserSubs, Observe(c, s) PROVE Observing'
  <2>1. CASE dirty[c]
    <3>1. evalStack' = <<Frame(c)>> /\ observer' = s
      BY <1>2, <2>1 DEF Observe
    <3>2. evalStack'[1] = Frame(c) /\ evalStack' # <<>> /\ s \in Members(subs'[c])
      BY <1>2, <3>1, ObserveSubs
    <3> QED BY <3>1, <3>2, NewFrame DEF Observing, Idle, Subscribed
  <2>2. CASE ~dirty[c]
    BY <1>1, <1>2, <1>i, <2>2 DEF Observe
  <2> QED BY <2>1, <2>2
<1>3. CASE Idle /\ ~(\E c \in Computeds, s \in UserSubs : Observe(c, s))
  <2>1. observer' = observer
    BY <1>3, StepCases DEF CoreStep, Looks, ReadCell, ReadClean, ReadDirty, ReadsNode, Reevaluate,
       GiveUp, Get, Dispose, EvaluateReturn, EvaluateThrow, Invalidate, StartRecompute,
       SkipRecompute, FinishRecompute, computedVars, cvars
  <2> QED BY <1>1, <1>3, <1>i, <2>1
<1>4. CASE ~Idle
  <2> SUFFICES ASSUME observer' # None PROVE Observing'
    BY <1>1
  <2>1. /\ ~Idle' /\ evalStack'[1].node = evalStack[1].node /\ observer' = observer
        /\ evalStack[1].node \in Computeds
    BY <1>4, FirstStays
  <2>2. observer \in Members(subs[evalStack[1].node]) /\ evalStack[1].node \in Nodes
    BY <2>1, ComputedsAreNodes DEF Observing, Subscribed
  <2>3. CASE EvaluateReturn
    <3>1. observer # Top.node
      <4>1. Top.node \in Computeds /\ observer \in UserSubs
        BY <2>1, <2>3, ReturnSubs DEF CTypeOK
      <4> QED BY <4>1, ComputedsAreNodes
    <3> QED BY <2>1, <2>2, <2>3, <3>1, ReturnSubs DEF Observing, Subscribed
  <2>4. CASE UNCHANGED subs
    BY <2>1, <2>2, <2>4 DEF Observing, Subscribed
  <2>5. EvaluateReturn \/ UNCHANGED subs
    BY <1>4, <2>1, StepCases, LooksStutters DEF CoreStep, GiveUp, Get, Dispose, Observe, EvaluateThrow,
       Invalidate, StartRecompute, SkipRecompute, FinishRecompute, Recomputing, cvars, vars, notifierVars
  <2> QED BY <2>3, <2>4, <2>5
<1> QED BY <1>2, <1>3, <1>4

(* Every step keeps Owed: a computed that becomes dirty has its recompute  *)
(* scheduled, and a recompute that ends without a clean computed leaves no *)
(* subscriber waiting or an abandoned computed.                            *)
LEMMA NextOwed == ASSUME WellTyped, RecomputeInv, [CNext]_cvars PROVE Owed'
<1> USE DEF RecomputeInv
<1>t. dirty \in [Computeds -> BOOLEAN] /\ recomputeScheduled \in [Computeds -> BOOLEAN]
  BY DEF CTypeOK
<1>i. Idle => observer = None
  BY DEF Observing
<1>1. ASSUME \A c \in Computeds \ abandoned' : dirty'[c] /\ Awaiting(c)' # {} =>
                /\ c \notin abandoned /\ dirty[c] /\ Awaiting(c) # {}
                /\ recomputeScheduled[c] => recomputeScheduled'[c] \/ job' = RecomputeJob(c)
                /\ job = RecomputeJob(c) => job' = RecomputeJob(c)
      PROVE  Owed'
  BY <1>1 DEF Owed
<1>2. ASSUME Idle, observer' = None, NEW c \in Computeds,
             Members(subs'[c]) \subseteq Members(subs[c])
      PROVE  Awaiting(c)' # {} => Awaiting(c) # {}
  BY <1>2, <1>i DEF Awaiting, Subscribed
<1>3. CASE CoreStep
  <2>1. Idle /\ UNCHANGED computedVars /\ observer = None
    BY <1>3, CoreJobs DEF CoreStep
  <2>2. \A c \in Computeds : Members(subs'[c]) \subseteq Members(subs[c])
    BY <1>3, CoreSubs, ComputedsAreNodes
  <2>3. \A c \in Computeds : Awaiting(c)' # {} => Awaiting(c) # {}
    BY <1>2, <2>1, <2>2 DEF computedVars
  <2>4. \A c \in Computeds : job # RecomputeJob(c)
    BY <1>3, CoreJobs, RecomputeJobType
  <2> QED BY <1>1, <2>1, <2>3, <2>4 DEF computedVars
<1>4. CASE Looks
  <2>1. UNCHANGED <<subs, observer, dirty, job, recomputeScheduled, abandoned>>
    BY <1>4 DEF Looks, ReadCell, ReadClean, ReadDirty, Reevaluate, vars, schedulerVars, notifierVars
  <2>2. observer # None => evalStack'[1].node = evalStack[1].node
    BY <1>i, <2>1, FirstStays
  <2>3. \A c \in Computeds : Awaiting(c)' = Awaiting(c)
    BY <2>1, <2>2 DEF Awaiting, Subscribed
  <2> QED BY <1>1, <2>1, <2>3
<1>5. ASSUME NEW c \in Computeds, Get(c) PROVE Owed'
  <2>1. Idle /\ UNCHANGED <<subs, observer, dirty, job, recomputeScheduled, abandoned>>
    BY <1>5 DEF Get, schedulerVars, notifierVars
  <2>2. \A d \in Computeds : Awaiting(d)' # {} => Awaiting(d) # {}
    BY <1>2, <1>i, <2>1
  <2> QED BY <1>1, <2>1, <2>2
<1>6. ASSUME NEW c \in Computeds, Dispose(c) PROVE Owed'
  <2>1. Idle /\ UNCHANGED <<observer, job, recomputeScheduled, abandoned>>
        /\ dirty' = [dirty EXCEPT ![c] = TRUE]
    BY <1>6 DEF Dispose, schedulerVars
  <2>2. \A d \in Computeds : Members(subs'[d]) \subseteq Members(subs[d])
    BY <1>6, DisposeSubs, ComputedsAreNodes
  <2>3. \A d \in Computeds : Awaiting(d)' # {} => Awaiting(d) # {}
    BY <1>2, <1>i, <2>1, <2>2
  <2>4. Awaiting(c)' = {}
    BY <1>6, <1>i, <2>1, DisposeSubs, MembersEmpty DEF Awaiting, Subscribed
  <2>5. \A d \in Computeds : d # c => dirty'[d] = dirty[d]
    BY <1>t, <2>1
  <2> QED BY <1>1, <2>1, <2>3, <2>4, <2>5
<1>7. ASSUME NEW c \in Computeds, NEW s \in UserSubs, Observe(c, s) PROVE Owed'
  <2>1. Idle /\ UNCHANGED <<dirty, job, recomputeScheduled, abandoned>> /\ observer = None
    BY <1>7, <1>i DEF Observe, schedulerVars
  <2>2. /\ \A d \in Computeds : d # c => subs'[d] = subs[d]
        /\ Members(subs'[c]) = Members(subs[c]) \cup {s}
    BY <1>7, ObserveSubs, ComputedsAreNodes
  <2>3. \A d \in Computeds : Awaiting(d) = Members(subs[d])
    BY <2>1 DEF Awaiting, Subscribed
  <2>4. CASE dirty[c]
    <3>1. evalStack'[1].node = c /\ observer' = s
      BY <1>7, <2>4, NewFrame DEF Observe
    <3>2. s # None
      BY SubsAssumption
    <3>3. Awaiting(c)' = (Members(subs[c]) \cup {s}) \ {s}
      BY <2>2, <3>1, <3>2 DEF Awaiting, Subscribed
    <3>4. \A d \in Computeds : d # c => Awaiting(d)' = Members(subs[d])
      BY <2>2, <3>1 DEF Awaiting, Subscribed
    <3>5. \A d \in Computeds : Awaiting(d)' # {} => Awaiting(d) # {}
      BY <2>3, <3>3, <3>4
    <3> QED BY <1>1, <2>1, <3>5
  <2>5. CASE ~dirty[c]
    <3>1. observer' = None
      BY <1>7, <2>1, <2>5 DEF Observe
    <3>2. \A d \in Computeds : d # c => Awaiting(d)' = Awaiting(d)
      BY <2>2, <2>3, <3>1 DEF Awaiting, Subscribed
    <3> QED BY <1>1, <2>1, <2>5, <3>2
  <2> QED BY <2>4, <2>5
<1>8. CASE EvaluateReturn
  <2> DEFINE x == Top.node
  <2>1. /\ x \in Computeds /\ ~Idle /\ UNCHANGED <<job, recomputeScheduled, abandoned>>
        /\ dirty' = [dirty EXCEPT ![x] = FALSE]
    BY <1>8, ReturnSubs DEF EvaluateReturn, schedulerVars
  <2>2. ~dirty'[x] /\ \A c \in Computeds : c # x => dirty'[c] = dirty[c]
    BY <1>t, <2>1
  <2>3. ASSUME NEW c \in Computeds, dirty[c] PROVE Members(subs'[c]) \subseteq Members(subs[c])
    <3>1. c \in Nodes /\ c \notin Top.tracked
      BY <2>1, <2>3, TopTracked, ComputedsAreNodes
    <3>2. CASE c \in deps[x]
      BY <1>8, <3>1, <3>2, ReturnSubs
    <3>3. CASE c \notin deps[x]
      BY <1>8, <3>1, <3>3, ReturnSubs
    <3> QED BY <3>2, <3>3
  <2>4. ASSUME NEW c \in Computeds, dirty[c], c # x, Awaiting(c)' # {} PROVE Awaiting(c) # {}
    <3>1. CASE Len(evalStack) > 1
      <4>1. observer' = observer
        BY <1>8, <3>1 DEF EvaluateReturn
      <4>2. observer # None => evalStack'[1].node = evalStack[1].node
        BY <2>1, <4>1, FirstStays
      <4> QED BY <2>3, <2>4, <4>1, <4>2 DEF Awaiting, Subscribed
    <3>2. CASE ~(Len(evalStack) > 1)
      <4>1. observer' = None
        BY <1>8, <3>2 DEF EvaluateReturn
      <4>2. evalStack[1].node = x
        BY <2>1, <3>2, StackTop
      <4> QED BY <2>3, <2>4, <4>1, <4>2 DEF Awaiting, Subscribed
    <3> QED BY <3>1, <3>2
  <2> HIDE DEF x
  <2> QED BY <1>1, <2>1, <2>2, <2>4
<1>9. CASE EvaluateThrow
  <2>1. UNCHANGED <<dirty, recomputeScheduled>> /\ observer' = None
    BY <1>9 DEF EvaluateThrow
  <2>2. \/ job' = job /\ abandoned' = abandoned
        \/ abandoned' = abandoned \cup {job.node}
    BY <1>9 DEF EvaluateThrow
  <2>3. ASSUME NEW c \in Computeds, c \notin abandoned'
        PROVE  c \notin abandoned /\ (job = RecomputeJob(c) => job' = RecomputeJob(c))
    BY <2>2, <2>3
  <2>4. ASSUME NEW c \in Computeds PROVE Awaiting(c)' = Awaiting(c)
    BY <1>9, <2>1, ThrowSubs, ComputedsAreNodes DEF Awaiting, Subscribed
  <2> QED BY <1>1, <2>1, <2>3, <2>4
<1>10. CASE Invalidate
  <2> PICK x \in Computeds : x = Head(snapshot)
    BY <1>10, InvalidateQueues
  <2>1. /\ Idle /\ UNCHANGED <<subs, observer, job, abandoned>>
        /\ dirty' = [dirty EXCEPT ![x] = TRUE]
        /\ IF SchedulesRecompute(x)
           THEN recomputeScheduled' = [recomputeScheduled EXCEPT ![x] = TRUE]
           ELSE UNCHANGED recomputeScheduled
    BY <1>10, InvalidateQueues DEF Invalidate, notifierVars
  <2>2. \A c \in Computeds : Awaiting(c)' = Awaiting(c) /\ Awaiting(c) = Members(subs[c])
    BY <1>i, <2>1 DEF Awaiting, Subscribed
  <2>3. \A c \in Computeds : c # x => dirty'[c] = dirty[c]
                                      /\ recomputeScheduled'[c] = recomputeScheduled[c]
    BY <1>t, <2>1
  <2>4. recomputeScheduled'[x] \/ Awaiting(x)' = {}
    <3>1. CASE SchedulesRecompute(x)
      BY <1>t, <2>1, <3>1
    <3>2. CASE ~SchedulesRecompute(x)
      <4>1. subs[x] = <<>> \/ recomputeScheduled'[x]
        BY <2>1, <3>2 DEF SchedulesRecompute
      <4>2. subs[x] = <<>> => Awaiting(x)' = {}
        BY <2>1, <2>2, MembersEmpty
      <4> QED BY <4>1, <4>2
    <3> QED BY <3>1, <3>2
  <2>5. ASSUME NEW c \in Computeds \ abandoned', dirty'[c], Awaiting(c)' # {}
        PROVE  recomputeScheduled'[c] \/ job' = RecomputeJob(c)
    <3>1. CASE c = x
      BY <2>4, <2>5, <3>1
    <3>2. CASE c # x
      BY <2>1, <2>2, <2>3, <2>5, <3>2 DEF Owed
    <3> QED BY <3>1, <3>2
  <2> QED BY <2>5 DEF Owed
<1>11. CASE StartRecompute
  <2>1. UNCHANGED <<subs, observer, evalStack, dirty, abandoned>>
    BY <1>11 DEF StartRecompute, notifierVars
  <2>2. \A c \in Computeds : Awaiting(c)' = Awaiting(c)
    BY <2>1 DEF Awaiting, Subscribed
  <2> PICK c \in Computeds :
             /\ job = None /\ job' = RecomputeJob(c)
             /\ recomputeScheduled' = [recomputeScheduled EXCEPT ![c] = FALSE]
    BY <1>11, StartTakes
  <2>3. \A d \in Computeds : d # c => recomputeScheduled'[d] = recomputeScheduled[d]
    BY <1>t
  <2>4. \A d \in Computeds : job # RecomputeJob(d)
    BY RecomputeJobType
  <2> QED BY <1>1, <2>1, <2>2, <2>3, <2>4
<1>12. CASE SkipRecompute
  <2>1. UNCHANGED <<subs, computedVars>> /\ Unneeded(job.node)
    BY <1>12 DEF SkipRecompute, notifierVars
  <2>2. \A c \in Computeds : Awaiting(c)' = Awaiting(c)
    BY <2>1 DEF Awaiting, Subscribed, computedVars
  <2>3. \A c \in Computeds : job = RecomputeJob(c) => Awaiting(c) = {}
    <3> SUFFICES ASSUME NEW c \in Computeds, Unneeded(c) PROVE Awaiting(c) = {}
      BY <2>1
    <3> QED BY MembersEmpty DEF Unneeded, Gone, Awaiting, Subscribed
  <2> QED BY <1>1, <2>1, <2>2, <2>3 DEF computedVars
<1>13. CASE FinishRecompute
  <2>1. /\ UNCHANGED <<subs, observer, evalStack, dirty, recomputeScheduled>>
        /\ ~dirty[job.node] /\ abandoned \subseteq abandoned' \cup {job.node}
    BY <1>13, FinishNotifies
  <2>2. \A c \in Computeds : Awaiting(c)' = Awaiting(c)
    BY <2>1 DEF Awaiting, Subscribed
  <2>3. \A c \in Computeds : dirty[c] => job # RecomputeJob(c)
    BY <2>1
  <2> QED BY <1>1, <2>1, <2>2, <2>3
<1>14. CASE GiveUp
  <2>1. UNCHANGED <<subs, observer, evalStack, dirty>> /\ job = None
    BY <1>14 DEF GiveUp, CutOffJobs, notifierVars
  <2>2. \A c \in Computeds : Awaiting(c)' = Awaiting(c)
    BY <2>1 DEF Awaiting, Subscribed
  <2>3. \A c \in Computeds : c \notin abandoned' => c \notin abandoned /\ ~recomputeScheduled[c]
    BY <1>14 DEF GiveUp, Flags
  <2> QED BY <1>1, <2>1, <2>2, <2>3, RecomputeJobType
<1>15. CASE UNCHANGED cvars
  <2>1. UNCHANGED <<subs, observer, evalStack, dirty, job, recomputeScheduled, abandoned>>
    BY <1>15 DEF cvars, computedVars, vars, schedulerVars, notifierVars
  <2> QED BY <2>1 DEF Owed, Awaiting, Subscribed
<1> QED BY <1>3, <1>4, <1>5, <1>6, <1>7, <1>8, <1>9, <1>10, <1>11, <1>12, <1>13, <1>14, <1>15,
           StepCases

(* Every step keeps ListensToDependencies.                                 *)
LEMMA NextListens ==
    ASSUME WellTyped, RecomputeInv, [CNext]_cvars PROVE ListensToDependencies'
<1> USE DEF RecomputeInv
<1>t. deps \in [Computeds -> SUBSET Nodes] /\ disposed \in [Computeds -> BOOLEAN]
  BY DEF CTypeOK
<1>l. /\ \A n \in Nodes : Distinct(subs[n])
      /\ \A n \in Cells, c \in Computeds : c \in Members(subs[n]) <=> n \in deps[c]
      /\ \A n, c \in Computeds : c \in Members(subs[n]) <=> n \in deps[c] /\ ~disposed[n]
      /\ \A c \in Computeds : disposed[c] => deps[c] = {}
  BY DEF ListensToDependencies, Subscribed
<1>1. ASSUME UNCHANGED <<deps, disposed>>,
             \A n \in Nodes : /\ Distinct(subs'[n])
                              /\ \A c \in Computeds : c \in Members(subs'[n]) <=> c \in Members(subs[n])
      PROVE  ListensToDependencies'
  BY <1>1, ComputedsAreNodes DEF ListensToDependencies, Subscribed
<1>2. CASE CoreStep
  BY <1>1, <1>2, CoreSubs DEF CoreStep, computedVars
<1>3. ASSUME NEW c \in Computeds, NEW s \in UserSubs, Observe(c, s) PROVE ListensToDependencies'
  BY <1>1, <1>3, ObserveSubs DEF Observe
<1>4. CASE EvaluateThrow
  BY <1>1, <1>4, ThrowSubs DEF EvaluateThrow
<1>5. ASSUME NEW d \in Computeds, Dispose(d) PROVE ListensToDependencies'
  <2>1. deps' = [deps EXCEPT ![d] = {}] /\ disposed' = [disposed EXCEPT ![d] = TRUE]
    BY <1>5 DEF Dispose
  <2>2. /\ deps'[d] = {} /\ disposed'[d]
        /\ \A c \in Computeds : c # d => deps'[c] = deps[c] /\ disposed'[c] = disposed[c]
    BY <1>t, <2>1
  <2>3. /\ Members(subs'[d]) = {}
        /\ \A n \in Nodes :
             /\ Distinct(subs'[n]) /\ d \notin Members(subs'[n])
             /\ n # d => \A c : c # d => (c \in Members(subs'[n]) <=> c \in Members(subs[n]))
    BY <1>5, DisposeSubs, MembersEmpty
  <2>4. \A n \in Cells : n # d
    BY ComputedsAreNodes
  <2>5. \A n \in Cells, c \in Computeds : c \in Members(subs'[n]) <=> n \in deps'[c]
    <3> SUFFICES ASSUME NEW n \in Cells, NEW c \in Computeds
                 PROVE  c \in Members(subs'[n]) <=> n \in deps'[c]
      OBVIOUS
    <3> QED BY <1>l, <2>2, <2>3, <2>4, ComputedsAreNodes
  <2>6. \A n, c \in Computeds : c \in Members(subs'[n]) <=> n \in deps'[c] /\ ~disposed'[n]
    <3> SUFFICES ASSUME NEW n \in Computeds, NEW c \in Computeds
                 PROVE  c \in Members(subs'[n]) <=> n \in deps'[c] /\ ~disposed'[n]
      OBVIOUS
    <3>1. CASE n = d
      BY <2>2, <2>3, <3>1
    <3>2. CASE n # d
      BY <1>l, <2>2, <2>3, <3>2, ComputedsAreNodes
    <3> QED BY <3>1, <3>2
  <2>7. \A c \in Computeds : disposed'[c] => deps'[c] = {}
    BY <1>l, <2>2
  <2> QED BY <2>3, <2>5, <2>6, <2>7 DEF ListensToDependencies, Subscribed
<1>6. CASE EvaluateReturn
  <2> PICK x \in Computeds : x = Top.node
    BY <1>6, ReturnSubs
  <2> PICK now \in SUBSET Nodes : now = Top.tracked
    BY <1>6, ReturnSubs
  <2>1. deps' = [deps EXCEPT ![x] = now] /\ UNCHANGED disposed /\ ~Idle
    BY <1>6 DEF EvaluateReturn
  <2>2. deps'[x] = now /\ \A c \in Computeds : c # x => deps'[c] = deps[c]
    BY <1>t, <2>1
  <2>3. /\ ~disposed[x]
        /\ \A n \in Nodes :
             /\ Distinct(subs'[n])
             /\ \A c : c # x => (c \in Members(subs'[n]) <=> c \in Members(subs[n]))
             /\ n \in deps[x] \ now => x \notin Members(subs'[n])
             /\ n \in now \ deps[x] => x \in Members(subs'[n])
             /\ (n \in now <=> n \in deps[x]) => subs'[n] = subs[n]
    BY <1>6, ReturnSubs
  <2>4. \A n \in now \cap Computeds : ~disposed[n]
    BY <2>1, TopTracked
  <2>5. \A n \in Cells, c \in Computeds : c \in Members(subs'[n]) <=> n \in deps'[c]
    <3> SUFFICES ASSUME NEW n \in Cells, NEW c \in Computeds
                 PROVE  c \in Members(subs'[n]) <=> n \in deps'[c]
      OBVIOUS
    <3>1. CASE c # x
      BY <1>l, <2>2, <2>3, <3>1, ComputedsAreNodes
    <3>2. CASE c = x /\ n \in now
      BY <1>l, <2>2, <2>3, <3>2, ComputedsAreNodes
    <3>3. CASE c = x /\ n \notin now
      BY <1>l, <2>2, <2>3, <3>3, ComputedsAreNodes
    <3> QED BY <3>1, <3>2, <3>3
  <2>6. \A n, c \in Computeds : c \in Members(subs'[n]) <=> n \in deps'[c] /\ ~disposed'[n]
    <3> SUFFICES ASSUME NEW n \in Computeds, NEW c \in Computeds
                 PROVE  c \in Members(subs'[n]) <=> n \in deps'[c] /\ ~disposed[n]
      BY <2>1
    <3>1. CASE c # x
      BY <1>l, <2>2, <2>3, <3>1, ComputedsAreNodes
    <3>2. CASE c = x /\ n \in now
      <4>1. ~disposed[n] /\ n \in Nodes
        BY <2>4, <3>2
      <4>2. c \in Members(subs'[n])
        BY <1>l, <2>3, <3>2, <4>1
      <4> QED BY <2>2, <3>2, <4>1, <4>2
    <3>3. CASE c = x /\ n \notin now
      BY <1>l, <2>2, <2>3, <3>3, ComputedsAreNodes
    <3> QED BY <3>1, <3>2, <3>3
  <2>7. \A c \in Computeds : disposed'[c] => deps'[c] = {}
    BY <1>l, <2>1, <2>2, <2>3
  <2> QED BY <2>3, <2>5, <2>6, <2>7 DEF ListensToDependencies, Subscribed
<1>7. CASE Looks \/ GiveUp \/ Invalidate \/ StartRecompute \/ SkipRecompute \/ FinishRecompute
           \/ (\E c \in Computeds : Get(c)) \/ UNCHANGED cvars
  <2>1. UNCHANGED <<subs, deps, disposed>>
    BY <1>7, LooksStutters DEF Looks, ReadCell, ReadClean, ReadDirty, Reevaluate, GiveUp,
       CutOffJobs, Invalidate, StartRecompute, SkipRecompute, FinishRecompute, Get, cvars, vars,
       computedVars, notifierVars
  <2> QED BY <1>1, <1>l, <2>1
<1> QED BY <1>2, <1>3, <1>4, <1>5, <1>6, <1>7, StepCases
-----------------------------------------------------------------------------
(* RecomputeInv is an invariant.                                           *)
LEMMA RecomputeInvKept == ASSUME WellTyped PROVE CSpec => []RecomputeInv
<1>1. CInit => RecomputeInv
  <2> SUFFICES ASSUME CInit PROVE RecomputeInv
    OBVIOUS
  <2>1. CTypeOK
    <3>1. TypeOK
      BY InitTypeOK DEF CInit
    <3> QED BY <3>1, ValuesAssumption, EmptySeq DEF CInit, CTypeOK
  <2>2. NoLostWakeup /\ Phases
    BY MembersEmpty DEF CInit, Init, NoLostWakeup, Phases, Distinct
  <2>3. JobsKnown /\ Flags
    BY MembersEmpty DEF CInit, Init, JobsKnown, Flags
  <2>4. \A n \in Nodes : Subscribed(n) = {} /\ Distinct(subs[n])
    BY MembersEmpty DEF CInit, Init, Subscribed, Distinct
  <2>5. Gone /\ Observing /\ Owed /\ Stacked
    BY <2>4, ComputedsAreNodes DEF CInit, Gone, Observing, Owed, Awaiting, Stacked
  <2>6. ListensToDependencies
    BY <2>4, ComputedsAreNodes DEF CInit, ListensToDependencies
  <2> QED BY <2>1, <2>2, <2>3, <2>5, <2>6 DEF RecomputeInv
<1>2. RecomputeInv /\ [CNext]_cvars => RecomputeInv'
  <2> SUFFICES ASSUME RecomputeInv, [CNext]_cvars PROVE RecomputeInv'
    OBVIOUS
  <2>1. CTypeOK' /\ NoLostWakeup' /\ Phases' /\ JobsKnown' /\ Flags'
    BY NextTyped, NextCoreWakeup, NextCorePhases, NextJobs
  <2>2. Gone' /\ Stacked' /\ Observing' /\ Owed' /\ ListensToDependencies'
    BY NextGone, NextStacked, NextObserving, NextOwed, NextListens
  <2> QED BY <2>1, <2>2 DEF RecomputeInv
<1> QED BY <1>1, <1>2, PTL DEF CSpec

(* Every invalidation of a computed that somebody follows leads to its     *)
(* recompute, and a computed listens to exactly what it read last, whatever*)
(* its read function does (computed.ts invalidate, evaluate, dispose).     *)
THEOREM RecomputesKept == ASSUME WellTyped PROVE CSpec => []RecomputesAreKept
<1>1. RecomputeInv => RecomputesAreKept
  <2> SUFFICES ASSUME RecomputeInv PROVE RecomputesAreKept
    OBVIOUS
  <2> USE DEF RecomputeInv
  <2>1. ASSUME AtRest, NEW c \in Computeds \ abandoned, dirty[c] PROVE subs[c] = <<>>
    <3>1. job = None /\ pendingJobs = <<>> /\ observer = None
      BY <2>1 DEF AtRest, Quiescent, Phases, FlushesNow, Observing
    <3>2. ~recomputeScheduled[c] /\ job # RecomputeJob(c)
      BY <3>1, MembersEmpty, RecomputeJobType DEF Flags
    <3>3. Subscribed(c) = {}
      BY <2>1, <3>1, <3>2 DEF Owed, Awaiting
    <3>4. subs[c] \in Seq(Subs) /\ Distinct(subs[c])
      BY ComputedsAreNodes DEF CTypeOK, TypeOK, ListensToDependencies
    <3> QED BY <3>3, <3>4, OnlyMember DEF Subscribed
  <2>2. NoLostRecompute
    BY <2>1 DEF NoLostRecompute, Flags
  <2> QED BY <2>2 DEF RecomputesAreKept
<1> QED BY <1>1, RecomputeInvKept, PTL
-----------------------------------------------------------------------------
(* What subscribers of a computed are given: EchoInv.                      *)

(* No value is queued twice running.                                       *)
Alternates(q) == \A i \in 1..(Len(q) - 1) : q[i] # q[i + 1]

(* s is about to be given the value under delivery.                        *)
InHands(c, s) == job = FlushJob(c) /\ s \in Members(snapshot)

(* lastNotifiedValue is the value queued last.                             *)
QueueTold(c) ==
    /\ Alternates(pendingValues[c])
    /\ pendingValues[c] # <<>> => pendingValues[c][Len(pendingValues[c])] = lastNotified[c]

(* Whoever has v can be given what is queued: the next value is another, or*)
(* v is the last there is.                                                 *)
Precedes(c, v) == IF pendingValues[c] = <<>> THEN v = lastNotified[c]
                  ELSE v # Head(pendingValues[c])

HandedOn(c) == \A s \in Subscribed(c) \cap UserSubs :
    /\ InHands(c, s) => Precedes(c, delivering) /\ (s \in notified => seen[s] # delivering)
    /\ s \in notified /\ ~InHands(c, s) => Precedes(c, seen[s])

(* The observer whose subscribe() is evaluating has been given nothing.    *)
Newcomer == observer # None => observer \notin notified /\ observer \notin Members(snapshot)

(* A subscription of user code belongs to one node.                        *)
UserApart == \A m, n \in Nodes : m # n => Subscribed(m) \cap Subscribed(n) \cap UserSubs = {}

Told == \A c \in Computeds \ (cut \cup slipped) : QueueTold(c) /\ HandedOn(c)

EchoInv == RecomputeInv /\ Newcomer /\ UserApart /\ Distinct(snapshot) /\ Told
-----------------------------------------------------------------------------
(* Queues without repetitions.                                             *)
LEMMA AlternatesTail ==
    ASSUME NEW S, NEW q \in Seq(S), q # <<>>, Alternates(q)
    PROVE  /\ Alternates(Tail(q))
           /\ Tail(q) # <<>> => Head(q) # Head(Tail(q)) /\ Tail(q)[Len(Tail(q))] = q[Len(q)]
           /\ Tail(q) = <<>> => Head(q) = q[Len(q)]
<1>1. /\ Tail(q) \in Seq(S) /\ Len(Tail(q)) = Len(q) - 1 /\ Head(q) = q[1]
      /\ \A i \in 1..Len(Tail(q)) : Tail(q)[i] = q[i + 1]
      /\ Len(q) \in Nat /\ Len(q) > 0
  BY HeadTailProperties, LenProperties, EmptySeq
<1>2. Tail(q) # <<>> => Len(Tail(q)) > 0 /\ Head(Tail(q)) = Tail(q)[1]
  BY <1>1, HeadTailProperties, EmptySeq
<1>3. Tail(q) = <<>> => Len(q) = 1
  BY <1>1
<1> DEFINE t == Tail(q)
<1> HIDE DEF t
<1>4. /\ Len(t) = Len(q) - 1 /\ \A i \in 1..Len(t) : t[i] = q[i + 1]
      /\ t # <<>> => Len(t) > 0 /\ Head(t) = t[1]
  BY <1>1, <1>2 DEF t
<1>5. Alternates(t)
  BY <1>1, <1>4 DEF Alternates
<1>6. t # <<>> => Head(q) # Head(t) /\ t[Len(t)] = q[Len(q)]
  <2> SUFFICES ASSUME t # <<>> PROVE Head(q) # Head(t) /\ t[Len(t)] = q[Len(q)]
    OBVIOUS
  <2>1. 1 \in 1..(Len(q) - 1) /\ 1 \in 1..Len(t) /\ Len(t) \in 1..Len(t)
    BY <1>1, <1>4
  <2>2. q[1] # q[2] /\ t[1] = q[2] /\ t[Len(t)] = q[Len(t) + 1]
    BY <1>4, <2>1 DEF Alternates
  <2> QED BY <1>1, <1>4, <2>2
<1> QED BY <1>1, <1>3, <1>5, <1>6 DEF t

LEMMA AlternatesAppend ==
    ASSUME NEW S, NEW q \in Seq(S), NEW v \in S, Alternates(q),
           q # <<>> => q[Len(q)] # v
    PROVE  /\ Alternates(Append(q, v)) /\ Append(q, v) # <<>>
           /\ Append(q, v)[Len(Append(q, v))] = v
           /\ Head(Append(q, v)) = IF q = <<>> THEN v ELSE Head(q)
<1> DEFINE a == Append(q, v)
<1>1. /\ a \in Seq(S) /\ Len(a) = Len(q) + 1 /\ Len(q) \in Nat
      /\ \A i \in 1..Len(q) : a[i] = q[i]
      /\ a[Len(q) + 1] = v
  BY AppendProperties, LenProperties
<1> HIDE DEF a
<1>2. a # <<>> /\ Head(a) = a[1]
  BY <1>1, HeadTailProperties
<1>3. q # <<>> => Len(q) > 0 /\ Head(q) = q[1]
  BY <1>1, HeadTailProperties, EmptySeq
<1>4. q = <<>> => Len(q) = 0
  OBVIOUS
<1>5. Alternates(a)
  <2> SUFFICES ASSUME NEW i \in 1..(Len(a) - 1) PROVE a[i] # a[i + 1]
    BY DEF Alternates
  <2>1. CASE i = Len(q)
    BY <1>1, <1>4, <2>1
  <2>2. CASE i \in 1..(Len(q) - 1)
    BY <1>1, <2>2 DEF Alternates
  <2> QED BY <1>1, <2>1, <2>2
<1>6. Head(a) = IF q = <<>> THEN v ELSE Head(q)
  BY <1>1, <1>2, <1>3, <1>4
<1> QED BY <1>1, <1>2, <1>5, <1>6 DEF a

(* The users a snapshot holds stay when a computed leaves it.              *)
LEMMA SnapshotUsers ==
    ASSUME TypeOK, Distinct(snapshot), NEW c \in Computeds, NEW dropped
    PROVE  /\ Distinct(SnapshotWithout(c, dropped))
           /\ Members(SnapshotWithout(c, dropped)) \cap UserSubs = Members(snapshot) \cap UserSubs
<1>1. snapshot \in Seq(Subs) /\ c \notin UserSubs
  BY ComputedsAreNodes DEF TypeOK
<1>2. Distinct(Drop(snapshot, c)) /\ Members(Drop(snapshot, c)) = Members(snapshot) \ {c}
  BY <1>1, DropProperties
<1> QED BY <1>1, <1>2 DEF SnapshotWithout

(* A flush that is not under way hands nothing over.                       *)
LEMMA NothingInHands ==
    ASSUME RecomputeInv, NEW c \in Computeds, NEW s
    PROVE  /\ job = None => ~InHands(c, s)
           /\ snapshot = <<>> => ~InHands(c, s)
           /\ (\E d \in Computeds : job = RecomputeJob(d)) => ~InHands(c, s)
BY FlushJobType, MembersEmpty, ComputedsAreNodes, RecomputeJobType DEF InHands
-----------------------------------------------------------------------------
(* A step that gives the users of c nothing keeps what is said of c.       *)
LEMMA ToldFrame ==
    ASSUME NEW c \in Computeds, QueueTold(c), HandedOn(c),
           pendingValues'[c] = pendingValues[c], lastNotified'[c] = lastNotified[c],
           \A s \in Members(subs'[c]) \cap UserSubs : s \in notified' \/ InHands(c, s)' =>
              /\ s \in Members(subs[c])
              /\ InHands(c, s)' <=> InHands(c, s)
              /\ InHands(c, s) => delivering' = delivering
              /\ s \in notified' => s \in notified /\ seen'[s] = seen[s]
    PROVE  QueueTold(c)' /\ HandedOn(c)'
<1>1. QueueTold(c)'
  BY DEF QueueTold
<1>2. HandedOn(c)'
  <2> SUFFICES ASSUME NEW s \in Members(subs'[c]) \cap UserSubs, s \in notified' \/ InHands(c, s)'
               PROVE  /\ InHands(c, s)' => Precedes(c, delivering)' /\ (s \in notified' => seen'[s] # delivering')
                      /\ s \in notified' /\ ~InHands(c, s)' => Precedes(c, seen[s])'
    BY DEF HandedOn, Subscribed
  <2>1. /\ s \in Members(subs[c]) /\ (InHands(c, s)' <=> InHands(c, s))
        /\ InHands(c, s) => delivering' = delivering
        /\ s \in notified' => s \in notified /\ seen'[s] = seen[s]
    OBVIOUS
  <2>2. /\ InHands(c, s) => Precedes(c, delivering) /\ (s \in notified => seen[s] # delivering)
        /\ s \in notified /\ ~InHands(c, s) => Precedes(c, seen[s])
    BY <2>1 DEF HandedOn, Subscribed
  <2>3. CASE InHands(c, s)
    BY <2>1, <2>2, <2>3 DEF Precedes
  <2>4. CASE ~InHands(c, s)
    BY <2>1, <2>2, <2>4 DEF Precedes
  <2> QED BY <2>3, <2>4
<1> QED BY <1>1, <1>2

(* The steps that call no user and queue nothing for a computed.           *)
LEMMA ToldQuiet ==
    ASSUME EchoInv, Told,
           UNCHANGED <<pendingValues, lastNotified, delivering, seen, cut, slipped>>,
           notified' \subseteq notified,
           \A c \in Computeds : Members(subs'[c]) \cap UserSubs \subseteq Members(subs[c]),
           \A c \in Computeds : \A s \in Members(subs'[c]) \cap UserSubs :
              InHands(c, s)' <=> InHands(c, s)
    PROVE  Told'
<1> SUFFICES ASSUME NEW c \in Computeds \ (cut' \cup slipped') PROVE QueueTold(c)' /\ HandedOn(c)'
  BY DEF Told
<1>1. QueueTold(c) /\ HandedOn(c)
  BY DEF Told
<1>2. pendingValues'[c] = pendingValues[c] /\ lastNotified'[c] = lastNotified[c]
  OBVIOUS
<1> QED BY <1>1, <1>2, ToldFrame

(* The same, told from what the steps change.                              *)
LEMMA ToldSteps ==
    ASSUME EchoInv,
           UNCHANGED <<pendingValues, lastNotified, delivering, seen, cut, slipped, notified>>,
           \A n \in Nodes : Members(subs'[n]) \cap UserSubs \subseteq Members(subs[n]),
           \/ job' = job /\ Members(snapshot') \cap UserSubs = Members(snapshot) \cap UserSubs
           \/ snapshot = <<>> /\ snapshot' = <<>>
    PROVE  Told'
<1>1. \A c \in Computeds : \A s \in Members(subs'[c]) \cap UserSubs :
              InHands(c, s)' <=> InHands(c, s)
  <2>1. CASE job' = job /\ Members(snapshot') \cap UserSubs = Members(snapshot) \cap UserSubs
    BY <2>1 DEF InHands
  <2>2. CASE snapshot = <<>> /\ snapshot' = <<>>
    BY <2>2, MembersEmpty DEF InHands
  <2> QED BY <2>1, <2>2
<1>2. Told /\ \A c \in Computeds : c \in Nodes
  BY ComputedsAreNodes DEF EchoInv
<1> QED BY <1>1, <1>2, ToldQuiet

LEMMA EvaluationTells ==
    ASSUME WellTyped, EchoInv,
           \/ Looks \/ EvaluateThrow \/ Invalidate \/ StartRecompute \/ SkipRecompute
           \/ (\E c \in Computeds : Get(c) \/ Dispose(c)) \/ UNCHANGED cvars
    PROVE  Told'
<1> USE DEF EchoInv
<1>t. /\ TypeOK /\ Distinct(snapshot) /\ snapshot \in Seq(Subs) /\ Phases /\ JobsKnown
      /\ \A n \in Nodes : Members(subs[n]) \cap UserSubs \subseteq Members(subs[n])
  BY DEF RecomputeInv, CTypeOK, TypeOK
<1>1. CASE Looks \/ (\E c \in Computeds : Get(c)) \/ UNCHANGED cvars
  <2>1. UNCHANGED <<pendingValues, lastNotified, delivering, seen, cut, slipped, notified,
                    subs, job, snapshot>>
    BY <1>1, LooksStutters DEF Looks, ReadCell, ReadClean, ReadDirty, Reevaluate, Get, cvars, vars,
       computedVars, schedulerVars, notifierVars, deliveryVars, historyVars
  <2> QED BY <1>t, <2>1, ToldSteps
<1>2. CASE EvaluateThrow
  <2>1. UNCHANGED <<pendingValues, lastNotified, delivering, seen, cut, slipped, notified, snapshot>>
    BY <1>2 DEF EvaluateThrow, deliveryVars
  <2>2. job' = job \/ snapshot = <<>>
    BY <1>2, <1>t DEF EvaluateThrow, JobsKnown
  <2>3. \A n \in Nodes : Members(subs'[n]) \cap UserSubs \subseteq Members(subs[n])
    BY <1>2, ThrowSubs
  <2> QED BY <2>1, <2>2, <2>3, ToldSteps
<1>3. CASE Invalidate
  <2>1. /\ UNCHANGED <<pendingValues, lastNotified, delivering, seen, cut, slipped, notified, subs, job>>
        /\ snapshot # <<>> /\ snapshot' = Tail(snapshot) /\ Head(snapshot) \in Computeds
    BY <1>3 DEF Invalidate, notifierVars
  <2>2. Members(snapshot) = {Head(snapshot)} \cup Members(snapshot') /\ Head(snapshot) \notin UserSubs
    BY <1>t, <2>1, MembersTail, ComputedsAreNodes
  <2> QED BY <1>t, <2>1, <2>2, ToldSteps
<1>4. CASE StartRecompute \/ SkipRecompute
  <2>1. UNCHANGED <<pendingValues, lastNotified, delivering, seen, cut, slipped, notified, subs, snapshot>>
    BY <1>4 DEF StartRecompute, SkipRecompute, notifierVars, deliveryVars, historyVars, computedVars
  <2>2. snapshot = <<>>
    BY <1>4, <1>t DEF StartRecompute, SkipRecompute, Recomputing, JobsKnown, Phases
  <2> QED BY <1>t, <2>1, <2>2, ToldSteps
<1>5. ASSUME NEW c \in Computeds, Dispose(c) PROVE Told'
  <2>1. /\ UNCHANGED <<pendingValues, lastNotified, delivering, seen, cut, slipped, notified, job>>
        /\ snapshot' = SnapshotWithout(c, deps[c])
    BY <1>5 DEF Dispose, schedulerVars, historyVars
  <2>2. \A n \in Nodes : Members(subs'[n]) \cap UserSubs \subseteq Members(subs[n])
    BY <1>5, DisposeSubs
  <2>3. Members(snapshot') \cap UserSubs = Members(snapshot) \cap UserSubs
    BY <1>t, <2>1, SnapshotUsers
  <2> QED BY <2>1, <2>2, <2>3, ToldSteps
<1> QED BY <1>1, <1>2, <1>3, <1>4, <1>5

(* subscribe() to a computed.                                              *)
LEMMA ObserveTells ==
    ASSUME EchoInv, NEW x \in Computeds, NEW t \in UserSubs, Observe(x, t) PROVE Told'
<1> SUFFICES ASSUME NEW c \in Computeds \ (cut' \cup slipped') PROVE QueueTold(c)' /\ HandedOn(c)'
  BY DEF Told
<1>t. /\ lastNotified \in [Computeds -> Values] /\ seen \in [Subs -> Values]
      /\ slipped \subseteq Computeds /\ t \in Subs /\ pendingValues[c] \in Seq(Values)
  BY SubsAssumption, ComputedsAreNodes DEF EchoInv, RecomputeInv, CTypeOK, TypeOK
<1>1. /\ UNCHANGED <<pendingValues, delivering, job, snapshot, cut>>
      /\ notified' = notified \ {t} /\ t \notin Members(snapshot)
      /\ \/ UNCHANGED <<lastNotified, slipped, seen>>
         \/ /\ seen' = [seen EXCEPT ![t] = cached[x]]
            /\ IF subs[x] = <<>>
               THEN /\ lastNotified' = [lastNotified EXCEPT ![x] = cached[x]]
                    /\ slipped' = IF Overtakes(x, cached[x]) THEN slipped \cup {x} ELSE slipped
               ELSE UNCHANGED <<lastNotified, slipped>>
  BY DEF Observe, deliveryVars, schedulerVars
<1>2. slipped \subseteq slipped'
  BY <1>1
<1>3. QueueTold(c) /\ HandedOn(c)
  BY <1>1, <1>2 DEF EchoInv, Told
<1>4. /\ t \notin notified' /\ \A s \in Subs : s # t => seen'[s] = seen[s]
      /\ ~InHands(c, t)' /\ \A s : InHands(c, s)' <=> InHands(c, s)
  BY <1>1, <1>t DEF InHands
<1>5. c \in Nodes /\ Members(subs'[c]) \subseteq Members(subs[c]) \cup {t} /\ UserSubs \subseteq Subs
  <2>1. Members(subs'[c]) \subseteq Members(subs[c]) \cup {t}
    BY ObserveSubs, ComputedsAreNodes DEF EchoInv
  <2> QED BY <2>1, ComputedsAreNodes, SubsAssumption
<1>6. CASE lastNotified'[c] = lastNotified[c]
  <2>1. \A s \in Members(subs'[c]) \cap UserSubs : s \in notified' \/ InHands(c, s)' =>
              /\ s \in Members(subs[c])
              /\ InHands(c, s)' <=> InHands(c, s)
              /\ InHands(c, s) => delivering' = delivering
              /\ s \in notified' => s \in notified /\ seen'[s] = seen[s]
    BY <1>1, <1>4, <1>5
  <2> QED BY <1>1, <1>3, <1>6, <2>1, ToldFrame
<1>7. CASE lastNotified'[c] # lastNotified[c]
  <2>1. /\ c = x /\ subs[x] = <<>> /\ lastNotified'[c] = cached[x]
        /\ slipped' = IF Overtakes(x, cached[x]) THEN slipped \cup {x} ELSE slipped
    BY <1>1, <1>7, <1>t
  <2>2. pendingValues[c] = <<>>
    BY <1>7, <2>1 DEF Overtakes
  <2>3. QueueTold(c)'
    BY <1>1, <1>3, <2>2 DEF QueueTold
  <2>4. Members(subs'[c]) \subseteq {t}
    BY <1>5, <2>1, MembersEmpty
  <2> QED BY <1>4, <2>3, <2>4 DEF HandedOn, Subscribed
<1> QED BY <1>6, <1>7

(* A read function has returned.                                           *)
LEMMA ReturnTells == ASSUME WellTyped, EchoInv, EvaluateReturn PROVE Told'
<1> SUFFICES ASSUME NEW c \in Computeds \ (cut' \cup slipped') PROVE QueueTold(c)' /\ HandedOn(c)'
  BY DEF Told
<1> PICK x \in Computeds : x = Top.node
  BY ReturnSubs DEF EchoInv
<1> PICK v : v = Step.value
  OBVIOUS
<1>t. /\ lastNotified \in [Computeds -> Values] /\ seen \in [Subs -> Values]
      /\ slipped \subseteq Computeds /\ pendingValues[c] \in Seq(Values)
      /\ observer \in UserSubs \cup {None} /\ UserSubs \subseteq Subs /\ c \in Nodes
  BY SubsAssumption, ComputedsAreNodes DEF EchoInv, RecomputeInv, CTypeOK, TypeOK
<1>1. /\ UNCHANGED <<pendingValues, delivering, job, cut, notified>> /\ ~Idle
      /\ snapshot' = SnapshotWithout(x, deps[x] \ Top.tracked)
      /\ lastNotified' = IF Rebase(x) THEN [lastNotified EXCEPT ![x] = v] ELSE lastNotified
      /\ slipped' = IF Slips(x, v) THEN slipped \cup {x} ELSE slipped
      /\ seen' = seen \/ (observer # None /\ seen' = [seen EXCEPT ![observer] = v])
  BY DEF EvaluateReturn, schedulerVars
<1>2. slipped \subseteq slipped'
  BY <1>1
<1>3. QueueTold(c) /\ HandedOn(c)
  BY <1>1, <1>2 DEF EchoInv, Told
<1>4. /\ Members(snapshot') \cap UserSubs = Members(snapshot) \cap UserSubs
      /\ \A s \in UserSubs : InHands(c, s)' <=> InHands(c, s)
  <2>1. TypeOK /\ Distinct(snapshot)
    BY DEF EchoInv, RecomputeInv, CTypeOK
  <2>2. Members(snapshot') \cap UserSubs = Members(snapshot) \cap UserSubs
    BY <1>1, <2>1, SnapshotUsers
  <2> QED BY <1>1, <2>2 DEF InHands
<1>5. Members(subs'[c]) \cap UserSubs = Members(subs[c]) \cap UserSubs
  <2>1. /\ Members(subs'[c]) \subseteq Members(subs[c]) \cup {x}
        /\ Members(subs[c]) \subseteq Members(subs'[c]) \cup {x}
    BY <1>t, ReturnSubs DEF EchoInv
  <2> QED BY <2>1, ComputedsAreNodes
<1>6. \A s \in UserSubs : s # observer => seen'[s] = seen[s]
  BY <1>1, <1>t
<1>7. observer # None => observer \notin notified /\ ~InHands(c, observer)
  BY DEF EchoInv, Newcomer, InHands
<1>8. CASE lastNotified'[c] = lastNotified[c]
  <2>1. \A s \in Members(subs'[c]) \cap UserSubs : s \in notified' \/ InHands(c, s)' =>
              /\ s \in Members(subs[c])
              /\ InHands(c, s)' <=> InHands(c, s)
              /\ InHands(c, s) => delivering' = delivering
              /\ s \in notified' => s \in notified /\ seen'[s] = seen[s]
    <3> SUFFICES ASSUME NEW s \in Members(subs'[c]) \cap UserSubs, s \in notified' \/ InHands(c, s)'
                 PROVE  s \in Members(subs[c]) /\ (InHands(c, s)' <=> InHands(c, s))
                        /\ delivering' = delivering /\ notified' = notified /\ seen'[s] = seen[s]
      OBVIOUS
    <3>1. s # observer
      BY <1>1, <1>4, <1>7, SubsAssumption
    <3> QED BY <1>1, <1>4, <1>5, <1>6, <3>1
  <2> QED BY <1>1, <1>3, <1>8, <2>1, ToldFrame
<1>9. CASE lastNotified'[c] # lastNotified[c]
  <2>1. c = x /\ Rebase(x) /\ lastNotified'[c] = v /\ v # lastNotified[x]
    BY <1>1, <1>9, <1>t
  <2>2. pendingValues[c] = <<>>
    BY <1>1, <2>1 DEF Overtakes, Slips
  <2>3. QueueTold(c)'
    BY <1>1, <1>3, <2>2 DEF QueueTold
  <2>4. \/ Members(subs[c]) \subseteq {observer} /\ observer \notin notified
        \/ Members(subs[c]) = {}
    <3>1. CASE subs[x] = <<>>
      BY <2>1, <3>1, MembersEmpty
    <3>2. CASE FirstObserver(x)
      <4>1. observer # None /\ Len(evalStack) = 1 /\ Len(subs[x]) = 1
        BY <3>2 DEF FirstObserver
      <4>2. observer \in Members(subs[x])
        BY <1>1, <4>1 DEF EchoInv, RecomputeInv, Observing, Subscribed, Top
      <4>3. subs[x] \in Seq(Subs) /\ Distinct(subs[x])
        BY ComputedsAreNodes DEF EchoInv, RecomputeInv, CTypeOK, TypeOK, ListensToDependencies
      <4> QED BY <1>7, <2>1, <4>1, <4>2, <4>3, OnlyMember
    <3> QED BY <2>1, <3>1, <3>2 DEF Rebase
  <2>5. \A s \in Members(subs'[c]) \cap UserSubs : s \notin notified' /\ ~InHands(c, s)'
    BY <1>1, <1>4, <1>5, <1>7, <2>4, SubsAssumption
  <2> QED BY <2>3, <2>5 DEF HandedOn, Subscribed
<1> QED BY <1>8, <1>9

(* A recompute has queued the new value.                                   *)
LEMMA FinishTells == ASSUME EchoInv, FinishRecompute PROVE Told'
<1> SUFFICES ASSUME NEW c \in Computeds \ (cut' \cup slipped') PROVE QueueTold(c)' /\ HandedOn(c)'
  BY DEF Told
<1> PICK x : x = job.node
  OBVIOUS
<1>1. /\ x \in Computeds /\ job = RecomputeJob(x) /\ job' = None /\ batchDepth = 0
      /\ \/ /\ Changed(x) /\ Notify(x, cached[x])
            /\ lastNotified' = [lastNotified EXCEPT ![x] = cached[x]]
         \/ UNCHANGED <<lastNotified, pendingValues>>
      /\ UNCHANGED <<subs, snapshot, delivering, seen, notified, cut, slipped>>
  BY FinishNotifies DEF EchoInv
<1>2. QueueTold(c) /\ HandedOn(c)
  BY <1>1 DEF EchoInv, Told
<1>3. \A s : ~InHands(c, s) /\ ~InHands(c, s)'
  BY <1>1, NothingInHands, FlushJobType, ComputedsAreNodes DEF EchoInv, InHands
<1>t. /\ lastNotified \in [Computeds -> Values] /\ cached \in [Computeds -> Values]
      /\ pendingValues \in [Nodes -> Seq(Values)] /\ c \in Nodes
  BY ComputedsAreNodes DEF EchoInv, RecomputeInv, CTypeOK, TypeOK
<1>4. CASE UNCHANGED <<lastNotified, pendingValues>> \/ c # x
  <2>1. pendingValues'[c] = pendingValues[c] /\ lastNotified'[c] = lastNotified[c]
    BY <1>1, <1>4, <1>t, ComputedsAreNodes DEF Notify
  <2> QED BY <1>1, <1>2, <1>3, <2>1, ToldFrame
<1>5. CASE c = x /\ Changed(x) /\ Notify(x, cached[x])
            /\ lastNotified' = [lastNotified EXCEPT ![x] = cached[x]]
  <2> DEFINE q == pendingValues[c]
             v == cached[c]
             a == Append(q, v)
  <2>1. pendingValues'[c] = a /\ lastNotified'[c] = v /\ v # lastNotified[c] /\ q \in Seq(Values) /\ v \in Values
    BY <1>1, <1>5, <1>t, ComputedsAreNodes DEF Notify, Queued, Changed
  <2>2. Alternates(q) /\ (q # <<>> => q[Len(q)] = lastNotified[c])
    BY <1>2 DEF QueueTold
  <2> HIDE DEF q, v
  <2>3. Alternates(a) /\ a # <<>> /\ a[Len(a)] = v /\ Head(a) = IF q = <<>> THEN v ELSE Head(q)
    BY <2>1, <2>2, AlternatesAppend
  <2> HIDE DEF a
  <2>4. QueueTold(c)'
    BY <2>1, <2>3 DEF QueueTold
  <2>5. ASSUME NEW s \in Subscribed(c) \cap UserSubs, s \in notified PROVE seen[s] # Head(a)
    <3>1. Precedes(c, seen[s])
      BY <1>2, <1>3, <2>5 DEF HandedOn
    <3> QED BY <2>1, <2>3, <3>1 DEF Precedes, q
  <2>6. HandedOn(c)'
    BY <1>1, <1>3, <2>1, <2>3, <2>5 DEF HandedOn, Precedes, Subscribed
  <2> QED BY <2>4, <2>6
<1> QED BY <1>1, <1>4, <1>5

(* The scheduler gives up: only what was empty stays uncut.                *)
LEMMA GiveUpTells == ASSUME EchoInv, GiveUp PROVE Told'
<1> SUFFICES ASSUME NEW c \in Computeds \ (cut' \cup slipped') PROVE QueueTold(c)' /\ HandedOn(c)'
  BY DEF Told
<1>1. /\ cut' = cut \cup {n \in Discarded : pendingValues[n] # <<>>} /\ job = None
      /\ pendingValues' = [n \in Nodes |-> IF n \in Discarded THEN <<>> ELSE pendingValues[n]]
      /\ UNCHANGED <<lastNotified, slipped, subs, job, snapshot, delivering, seen, notified>>
  BY DEF GiveUp, CutOffJobs, DiscardFlushes, deliveryVars
<1>2. QueueTold(c) /\ HandedOn(c)
  BY <1>1 DEF EchoInv, Told
<1>3. pendingValues'[c] = pendingValues[c]
  BY <1>1, ComputedsAreNodes
<1>4. \A s : InHands(c, s)' <=> InHands(c, s)
  BY <1>1 DEF InHands
<1> QED BY <1>1, <1>2, <1>3, <1>4, ToldFrame

(* The steps of the notification core.                                     *)
LEMMA UserStepTells ==
    ASSUME EchoInv, CoreStep, CellCall PROVE Told'
<1> USE DEF EchoInv
<1>t. /\ pendingValues \in [Nodes -> Seq(Values)] /\ subs \in [Nodes -> Seq(Subs)] /\ seen \in [Subs -> Values]
      /\ \A n \in Nodes : Members(subs[n]) \cap UserSubs \subseteq Members(subs[n])
  BY DEF RecomputeInv, CTypeOK, TypeOK
<1>u. UNCHANGED <<lastNotified, slipped>>
  BY DEF CoreStep, computedVars
<1>1. ASSUME NEW m \in Cells, NEW v \in NextValues(value[m]), Set(m, v) PROVE Told'
  <2> SUFFICES ASSUME NEW c \in Computeds \ (cut' \cup slipped') PROVE QueueTold(c)' /\ HandedOn(c)'
    BY DEF Told
  <2>0. c # m /\ c \in Nodes
    BY ComputedsAreNodes
  <2>1. /\ UNCHANGED <<subs, job, snapshot, delivering, seen, notified>> /\ cut' = cut \ {m}
        /\ pendingValues'[c] = pendingValues[c]
    BY <1>1, <1>t, <2>0 DEF Set, Notify, deliveryVars
  <2>2. QueueTold(c) /\ HandedOn(c)
    BY <1>u, <2>0, <2>1 DEF Told
  <2>3. \A s : InHands(c, s)' <=> InHands(c, s)
    BY <2>1 DEF InHands
  <2> QED BY <1>u, <2>1, <2>2, <2>3, ToldFrame
<1>2. ASSUME NEW m \in Cells, NEW t \in UserSubs, Subscribe(m, t) PROVE Told'
  <2> SUFFICES ASSUME NEW c \in Computeds \ (cut' \cup slipped') PROVE QueueTold(c)' /\ HandedOn(c)'
    BY DEF Told
  <2>0. c # m /\ c \in Nodes /\ t \in Subs
    BY ComputedsAreNodes, SubsAssumption
  <2>1. /\ UNCHANGED <<pendingValues, job, snapshot, delivering, cut>> /\ subs'[c] = subs[c]
        /\ seen' = [seen EXCEPT ![t] = value[m]] /\ notified' = notified \ {t}
        /\ t \notin Members(subs[c])
    BY <1>2, <1>t, <2>0 DEF Subscribe, schedulerVars, deliveryVars, Subscribed
  <2>2. QueueTold(c) /\ HandedOn(c)
    BY <1>u, <2>1 DEF Told
  <2>3. \A s : InHands(c, s)' <=> InHands(c, s)
    BY <2>1 DEF InHands
  <2>4. \A s \in Subs : s # t => seen'[s] = seen[s]
    BY <1>t, <2>1
  <2> QED BY <1>u, <2>1, <2>2, <2>3, <2>4, SubsAssumption, ToldFrame
<1>3. ASSUME NEW m \in Nodes, NEW i \in DOMAIN subs[m], Unsubscribe(m, i) PROVE Told'
  <2>1. /\ UNCHANGED <<pendingValues, delivering, seen, cut, notified, job, snapshot>>
        /\ subs' = [subs EXCEPT ![m] = Without(subs[m], i)]
    BY <1>3 DEF Unsubscribe, schedulerVars, deliveryVars, historyVars
  <2>2. Members(Without(subs[m], i)) \subseteq Members(subs[m])
    BY <1>t, WithoutProperties
  <2>3. \A n \in Nodes : Members(subs'[n]) \cap UserSubs \subseteq Members(subs[n])
    BY <1>t, <2>1, <2>2
  <2> QED BY <1>u, <2>1, <2>3, ToldSteps
<1>4. ASSUME NEW err \in BOOLEAN, BatchBegin \/ BatchEnd(err) PROVE Told'
  <2>1. UNCHANGED <<pendingValues, delivering, seen, cut, notified, job, snapshot, subs>>
    BY <1>4 DEF BatchBegin, BatchEnd, notifierVars, deliveryVars, historyVars
  <2> QED BY <1>t, <1>u, <2>1, ToldSteps
<1> QED BY <1>1, <1>2, <1>3, <1>4 DEF CellCall

LEMMA NextValueTells == ASSUME EchoInv, CoreStep, NextValue PROVE Told'
<1> USE DEF EchoInv
<1> SUFFICES ASSUME NEW c \in Computeds \ (cut' \cup slipped') PROVE QueueTold(c)' /\ HandedOn(c)'
  BY DEF Told
<1>t. /\ pendingValues \in [Nodes -> Seq(Values)] /\ c \in Nodes /\ job.node \in Nodes
      /\ job = FlushJob(job.node)
  <2>1. job \in Jobs /\ job.kind = "flush"
    BY DEF RecomputeInv, CTypeOK, TypeOK, NextValue, Delivering
  <2> QED BY <2>1, ComputedsAreNodes, JobNode DEF RecomputeInv, CTypeOK, TypeOK, Jobs
<1>1. /\ UNCHANGED <<lastNotified, slipped, cut, seen, notified, subs, job>>
      /\ snapshot = <<>> /\ snapshot' = subs[job.node] /\ pendingValues[job.node] # <<>>
      /\ delivering' = Head(pendingValues[job.node])
      /\ pendingValues' = [pendingValues EXCEPT ![job.node] = Tail(pendingValues[job.node])]
  BY DEF NextValue, CoreStep, computedVars, schedulerVars, historyVars
<1>2. QueueTold(c) /\ HandedOn(c)
  BY <1>1 DEF Told
<1>3. \A s : ~InHands(c, s)
  BY <1>1, MembersEmpty DEF InHands
<1>4. CASE c # job.node
  <2>1. pendingValues'[c] = pendingValues[c]
    BY <1>1, <1>4, <1>t
  <2>2. \A s : ~InHands(c, s)'
    BY <1>1, <1>4, <1>t DEF InHands
  <2> QED BY <1>1, <1>2, <1>3, <2>1, <2>2, ToldFrame
<1>5. CASE c = job.node
  <2> DEFINE q == pendingValues[c]
             r == Tail(q)
  <2>1. q \in Seq(Values) /\ q # <<>> /\ pendingValues'[c] = r /\ delivering' = Head(q)
        /\ snapshot' = subs[c]
    BY <1>1, <1>5, <1>t
  <2>2. Alternates(q) /\ q[Len(q)] = lastNotified[c]
    BY <1>2, <2>1 DEF QueueTold
  <2> HIDE DEF q
  <2>3. /\ Alternates(r)
        /\ r # <<>> => Head(q) # Head(r) /\ r[Len(r)] = q[Len(q)]
        /\ r = <<>> => Head(q) = q[Len(q)]
    BY <2>1, <2>2, AlternatesTail
  <2> HIDE DEF r
  <2>4. QueueTold(c)'
    BY <1>1, <2>1, <2>2, <2>3 DEF QueueTold
  <2>5. Precedes(c, delivering)'
    BY <1>1, <2>1, <2>2, <2>3 DEF Precedes
  <2>6. \A s \in Subscribed(c) \cap UserSubs : s \in notified => seen[s] # Head(q)
    BY <1>2, <1>3, <2>1 DEF HandedOn, Precedes, q
  <2>7. \A s \in Members(subs'[c]) : InHands(c, s)'
    BY <1>1, <1>5, <1>t, <2>1 DEF InHands
  <2>8. HandedOn(c)'
    BY <1>1, <2>1, <2>5, <2>6, <2>7 DEF HandedOn, Subscribed
  <2> QED BY <2>4, <2>8
<1> QED BY <1>4, <1>5

LEMMA CallTells ==
    ASSUME EchoInv, CoreStep, CallListener
    PROVE  /\ Told'
           /\ job.node \in Computeds \ (cut \cup slipped) /\ Head(snapshot) \in notified =>
                seen'[Head(snapshot)] # seen[Head(snapshot)]
<1> USE DEF EchoInv
<1> PICK t : t = Head(snapshot)
  OBVIOUS
<1>t. /\ seen \in [Subs -> Values] /\ job.node \in Nodes /\ job = FlushJob(job.node)
      /\ snapshot \in Seq(Subs) /\ snapshot # <<>> /\ t \in UserSubs /\ t \in Subs
      /\ t \in Subscribed(job.node)
  <2>1. job \in Jobs /\ job.kind = "flush"
    BY DEF RecomputeInv, CTypeOK, TypeOK, CallListener, Delivering
  <2>2. /\ snapshot \in Seq(Subs) /\ snapshot # <<>> /\ t \in UserSubs /\ t \in Subs
        /\ t \in Subscribed(job.node) /\ seen \in [Subs -> Values]
    BY SubsAssumption DEF RecomputeInv, CTypeOK, TypeOK, CallListener, Active
  <2> QED BY <2>1, <2>2 DEF Jobs
<1>1. /\ UNCHANGED <<lastNotified, slipped, cut, subs, pendingValues, job, delivering>>
      /\ snapshot' = Tail(snapshot) /\ seen' = [seen EXCEPT ![t] = delivering]
      /\ notified' = notified \cup {t}
  BY DEF CallListener, CoreStep, computedVars, schedulerVars, notifierVars
<1>2. Members(snapshot) = {t} \cup Members(snapshot') /\ t \notin Members(snapshot')
  BY <1>1, <1>t, MembersTail, DistinctTail
<1>3. seen'[t] = delivering /\ \A s \in Subs : s # t => seen'[s] = seen[s]
  BY <1>1, <1>t
<1>4. ASSUME NEW c \in Computeds \ (cut \cup slipped) PROVE QueueTold(c)' /\ HandedOn(c)'
  <2>1. QueueTold(c) /\ HandedOn(c) /\ c \in Nodes
    BY ComputedsAreNodes DEF Told
  <2>2. QueueTold(c)'
    BY <1>1, <2>1 DEF QueueTold
  <2>3. ASSUME NEW s \in Subscribed(c) \cap UserSubs
        PROVE  /\ InHands(c, s)' => Precedes(c, delivering)' /\ (s \in notified' => seen'[s] # delivering')
               /\ s \in notified' /\ ~InHands(c, s)' => Precedes(c, seen[s])'
    <3>1. /\ InHands(c, s) => Precedes(c, delivering) /\ (s \in notified => seen[s] # delivering)
          /\ s \in notified /\ ~InHands(c, s) => Precedes(c, seen[s])
      BY <2>1, <2>3 DEF HandedOn
    <3>2. \A v : Precedes(c, v)' <=> Precedes(c, v)
      BY <1>1 DEF Precedes
    <3>3. CASE s # t
      <4>1. /\ InHands(c, s)' <=> InHands(c, s)
            /\ s \in notified' <=> s \in notified
            /\ seen'[s] = seen[s] /\ delivering' = delivering
        BY <1>1, <1>2, <1>3, <3>3, SubsAssumption DEF InHands
      <4>2. Precedes(c, delivering)' = Precedes(c, delivering) /\ Precedes(c, seen[s])' = Precedes(c, seen[s])
        BY <1>1, <4>1 DEF Precedes
      <4> QED BY <3>1, <4>1, <4>2
    <3>4. CASE s = t
      <4>1. c = job.node
        BY <1>t, <2>1, <2>3, <3>4 DEF UserApart
      <4>2. InHands(c, t) /\ ~InHands(c, t)'
        BY <1>1, <1>2, <1>t, <4>1 DEF InHands
      <4>3. Precedes(c, delivering)
        BY <3>1, <3>4, <4>2
      <4>4. Precedes(c, seen[t])'
        BY <1>1, <1>3, <4>3 DEF Precedes
      <4> QED BY <3>4, <4>2, <4>4
    <3> QED BY <3>3, <3>4
  <2>4. HandedOn(c)'
    BY <1>1, <2>3 DEF HandedOn, Subscribed
  <2> QED BY <2>2, <2>4
<1>5. Told'
  BY <1>1, <1>4 DEF Told
<1>6. ASSUME job.node \in Computeds \ (cut \cup slipped), t \in notified PROVE seen'[t] # seen[t]
  <2>1. HandedOn(job.node) /\ InHands(job.node, t)
    BY <1>2, <1>6, <1>t DEF Told, InHands
  <2> QED BY <1>3, <1>6, <1>t, <2>1 DEF HandedOn
<1> QED BY <1>5, <1>6

(* The other steps of a flush.                                             *)
LEMMA FlushStepTells ==
    ASSUME EchoInv, CoreStep, CellFlushStep, ~NextValue, ~CallListener PROVE Told'
<1> USE DEF EchoInv
<1>t. /\ \A n \in Nodes : Members(subs[n]) \cap UserSubs \subseteq Members(subs[n])
      /\ snapshot \in Seq(Subs) /\ Phases
  BY DEF RecomputeInv, CTypeOK, TypeOK
<1>u. UNCHANGED <<lastNotified, slipped>>
  BY DEF CoreStep, computedVars
<1>1. CASE StartJob \/ EndJob
  <2>1. /\ UNCHANGED <<pendingValues, delivering, seen, cut, notified, subs, snapshot>>
        /\ snapshot = <<>>
    BY <1>1, <1>t DEF StartJob, EndJob, Phases, notifierVars, deliveryVars, historyVars
  <2> QED BY <1>t, <1>u, <2>1, ToldSteps
<1>2. CASE FlushDone \/ \E threw \in BOOLEAN : Return(threw)
  <2>1. UNCHANGED <<pendingValues, delivering, seen, cut, notified, subs, snapshot, job>>
    BY <1>2 DEF FlushDone, Return, notifierVars, schedulerVars, deliveryVars
  <2> QED BY <1>t, <1>u, <2>1, ToldSteps
<1>3. CASE CutOffValues
  <2> SUFFICES ASSUME NEW c \in Computeds \ (cut' \cup slipped') PROVE QueueTold(c)' /\ HandedOn(c)'
    BY DEF Told
  <2>1. /\ UNCHANGED <<subs, job, snapshot, delivering, seen, notified>> /\ cut' = cut \cup {job.node}
        /\ pendingValues' = [pendingValues EXCEPT ![job.node] = <<>>]
    BY <1>3 DEF CutOffValues, schedulerVars
  <2>2. QueueTold(c) /\ HandedOn(c) /\ pendingValues'[c] = pendingValues[c]
    BY <1>u, <2>1, ComputedsAreNodes DEF Told, RecomputeInv, CTypeOK, TypeOK
  <2>3. \A s : InHands(c, s)' <=> InHands(c, s)
    BY <2>1 DEF InHands
  <2> QED BY <1>u, <2>1, <2>2, <2>3, ToldFrame
<1>4. CASE SkipListener
  <2>1. /\ UNCHANGED <<pendingValues, delivering, seen, cut, notified, subs, job>>
        /\ snapshot # <<>> /\ snapshot' = Tail(snapshot) /\ Head(snapshot) \notin Subscribed(job.node)
    BY <1>4 DEF SkipListener, Active, notifierVars, schedulerVars, historyVars
  <2>2. Members(snapshot) = {Head(snapshot)} \cup Members(snapshot')
    BY <1>t, <2>1, MembersTail
  <2>3. ASSUME NEW c \in Computeds, NEW s \in Members(subs'[c]) PROVE InHands(c, s)' <=> InHands(c, s)
    BY <2>1, <2>2, <2>3, FlushJobType DEF InHands, Subscribed
  <2> QED BY <1>t, <1>u, <2>1, <2>3, ToldQuiet, ComputedsAreNodes
<1> QED BY <1>1, <1>2, <1>3, <1>4 DEF CellFlushStep

LEMMA NextTold == ASSUME WellTyped, EchoInv, [CNext]_cvars PROVE Told'
<1>1. CASE CoreStep
  BY <1>1, UserStepTells, NextValueTells, CallTells, FlushStepTells DEF CoreStep
<1>2. ASSUME NEW c \in Computeds, NEW s \in UserSubs, Observe(c, s) PROVE Told'
  BY <1>2, ObserveTells
<1> QED BY <1>1, <1>2, StepCases, EvaluationTells, ReturnTells, FinishTells, GiveUpTells
-----------------------------------------------------------------------------
(* The other parts of EchoInv.                                             *)
LEMMA NextNewcomer == ASSUME WellTyped, EchoInv, [CNext]_cvars PROVE Newcomer'
<1> USE DEF EchoInv
<1> SUFFICES ASSUME observer' # None PROVE observer' \notin notified' /\ observer' \notin Members(snapshot')
  BY DEF Newcomer
<1>1. CASE Idle
  <2>1. observer = None
    BY <1>1 DEF RecomputeInv, Observing
  <2>2. \E c \in Computeds, s \in UserSubs : Observe(c, s)
    <3>1. \/ observer' = observer
          \/ \E c \in Computeds, s \in UserSubs : Observe(c, s)
      BY <1>1, StepCases DEF CoreStep, Looks, ReadCell, ReadClean, ReadDirty, Reevaluate,
         GiveUp, Get, Dispose, EvaluateReturn, EvaluateThrow, Invalidate, StartRecompute,
         SkipRecompute, FinishRecompute, computedVars, cvars
    <3> QED BY <2>1, <3>1
  <2>3. PICK c \in Computeds, s \in UserSubs : Observe(c, s)
    BY <2>2
  <2> QED BY <2>1, <2>3 DEF Observe, deliveryVars
<1>2. CASE ~Idle
  <2>1. observer' = observer
    BY <1>2, FirstStays
  <2>2. /\ notified' = notified
        /\ snapshot' = snapshot \/ \E dr : snapshot' = SnapshotWithout(Top.node, dr)
    <3>1. Looks \/ EvaluateReturn \/ EvaluateThrow \/ UNCHANGED cvars
      BY <1>2, StepCases DEF CoreStep, GiveUp, Get, Dispose, Observe, Invalidate, StartRecompute,
         SkipRecompute, FinishRecompute, Recomputing
    <3> QED BY <3>1, LooksStutters DEF EvaluateReturn, EvaluateThrow, cvars, vars, deliveryVars, historyVars
  <2>3. Members(snapshot') \subseteq Members(snapshot)
    <3>1. TypeOK
      BY DEF RecomputeInv, CTypeOK
    <3> QED BY <2>2, <3>1, SnapshotEffect
  <2> QED BY <2>1, <2>2, <2>3 DEF Newcomer
<1> QED BY <1>1, <1>2

LEMMA NextUserApart == ASSUME WellTyped, EchoInv, [CNext]_cvars PROVE UserApart'
<1> USE DEF EchoInv
<1>t. subs \in [Nodes -> Seq(Subs)] /\ UserSubs \cap Computeds = {}
  BY ComputedsAreNodes DEF RecomputeInv, CTypeOK, TypeOK
<1>1. ASSUME \A n \in Nodes : Members(subs'[n]) \cap UserSubs \subseteq Members(subs[n])
      PROVE  UserApart'
  BY <1>1 DEF UserApart, Subscribed
<1>2. ASSUME NEW x \in Nodes, NEW t,
             \A n \in Nodes : t \notin Members(subs[n]),
             Members(subs'[x]) \subseteq Members(subs[x]) \cup {t},
             \A n \in Nodes : n # x => subs'[n] = subs[n]
      PROVE  UserApart'
  BY <1>2 DEF UserApart, Subscribed
<1>3. ASSUME NEW c \in Computeds, NEW s \in UserSubs, Observe(c, s) PROVE UserApart'
  <2>1. \A n \in Nodes : s \notin Members(subs[n])
    BY <1>3 DEF Observe, Subscribed
  <2>2. /\ Members(subs'[c]) = Members(subs[c]) \cup {s}
        /\ \A n \in Nodes : n # c => subs'[n] = subs[n]
    BY <1>3, ObserveSubs
  <2> QED BY <1>2, <2>1, <2>2, ComputedsAreNodes
<1>4. ASSUME NEW m \in Cells, NEW s \in UserSubs, Subscribe(m, s) PROVE UserApart'
  <2>1. /\ \A n \in Nodes : s \notin Members(subs[n])
        /\ subs' = [subs EXCEPT ![m] = Append(subs[m], s)] /\ m \in Nodes /\ s \in Subs
    BY <1>4, ComputedsAreNodes, SubsAssumption DEF Subscribe, Subscribed
  <2>2. Members(Append(subs[m], s)) = Members(subs[m]) \cup {s}
    BY <1>t, <2>1, MembersAppend
  <2>3. subs'[m] = Append(subs[m], s) /\ \A n \in Nodes : n # m => subs'[n] = subs[n]
    BY <1>t, <2>1
  <2> QED BY <1>2, <2>1, <2>2, <2>3
<1>5. ASSUME NEW m \in Nodes, NEW i \in DOMAIN subs[m], Unsubscribe(m, i) PROVE UserApart'
  <2>1. subs' = [subs EXCEPT ![m] = Without(subs[m], i)]
    BY <1>5 DEF Unsubscribe
  <2>2. Members(Without(subs[m], i)) \subseteq Members(subs[m])
    BY <1>t, WithoutProperties
  <2>3. \A n \in Nodes : Members(subs'[n]) \subseteq Members(subs[n])
    BY <1>t, <2>1, <2>2
  <2> QED BY <1>1, <2>3
<1>6. CASE EvaluateReturn
  BY <1>1, <1>6, <1>t, ReturnSubs
<1>7. CASE EvaluateThrow
  BY <1>1, <1>7, ThrowSubs
<1>8. ASSUME NEW c \in Computeds, Dispose(c) PROVE UserApart'
  BY <1>1, <1>8, DisposeSubs
<1>9. CASE UNCHANGED subs
  BY <1>1, <1>9
<1>10. \/ UNCHANGED subs \/ EvaluateReturn \/ EvaluateThrow
       \/ \E c \in Computeds : Dispose(c)
       \/ \E c \in Computeds, s \in UserSubs : Observe(c, s)
       \/ \E m \in Cells, s \in UserSubs : Subscribe(m, s)
       \/ \E m \in Nodes : \E i \in DOMAIN subs[m] : Unsubscribe(m, i)
  <2>1. CASE CoreStep
    BY <2>1 DEF CoreStep, CellCall, CellFlushStep, Set, BatchBegin, BatchEnd, StartJob, NextValue,
       CutOffValues, SkipListener, CallListener, Return, EndJob, FlushDone, notifierVars
  <2> QED BY <2>1, StepCases, LooksStutters DEF GiveUp, CutOffJobs, Get, Invalidate, StartRecompute,
      SkipRecompute, FinishRecompute, cvars, vars, notifierVars
<1> QED BY <1>3, <1>4, <1>5, <1>6, <1>7, <1>8, <1>9, <1>10

LEMMA NextSnapshot == ASSUME WellTyped, EchoInv, [CNext]_cvars PROVE Distinct(snapshot')
<1> USE DEF EchoInv
<1>t. TypeOK /\ snapshot \in Seq(Subs) /\ Distinct(snapshot) /\ \A n \in Nodes : Distinct(subs[n])
  BY DEF RecomputeInv, CTypeOK, TypeOK, ListensToDependencies
<1>1. CASE NextValue
  <2>1. job.node \in Nodes /\ snapshot' = subs[job.node]
    BY <1>1, <1>t DEF NextValue, Delivering, TypeOK, Jobs
  <2> QED BY <1>t, <2>1
<1>2. CASE snapshot # <<>> /\ snapshot' = Tail(snapshot)
  BY <1>t, <1>2, DistinctTail
<1>3. ASSUME NEW c \in Computeds, NEW dr, snapshot' = SnapshotWithout(c, dr) PROVE Distinct(snapshot')
  BY <1>t, <1>3, SnapshotUsers
<1>4. CASE EvaluateReturn
  BY <1>3, <1>4, ReturnSubs DEF EvaluateReturn
<1>5. ASSUME NEW c \in Computeds, Dispose(c) PROVE Distinct(snapshot')
  BY <1>3, <1>5 DEF Dispose
<1>6. \/ NextValue \/ EvaluateReturn \/ (\E c \in Computeds : Dispose(c))
      \/ snapshot # <<>> /\ snapshot' = Tail(snapshot)
      \/ UNCHANGED snapshot
  <2>1. CASE CoreStep
    BY <2>1 DEF CoreStep, CellCall, CellFlushStep, Set, Subscribe, Unsubscribe, BatchBegin, BatchEnd,
       StartJob, CutOffValues, SkipListener, CallListener, Return, EndJob, FlushDone, deliveryVars
  <2> QED BY <2>1, StepCases, LooksStutters DEF GiveUp, CutOffJobs, Get, Observe, EvaluateThrow,
      Invalidate, StartRecompute, SkipRecompute, FinishRecompute, cvars, vars, deliveryVars
<1> QED BY <1>t, <1>1, <1>2, <1>4, <1>5, <1>6

(* EchoInv is an invariant.                                                *)
LEMMA InitEcho == ASSUME CInit PROVE Newcomer /\ UserApart /\ Distinct(snapshot) /\ Told
<1>1. /\ Distinct(snapshot) /\ Newcomer
      /\ \A n \in Nodes : Subscribed(n) = {} /\ pendingValues[n] = <<>>
  BY MembersEmpty DEF CInit, Init, Subscribed, Distinct, Newcomer
<1>2. UserApart
  BY <1>1 DEF UserApart
<1>3. Told
  BY <1>1, ComputedsAreNodes DEF Told, QueueTold, HandedOn, Alternates
<1> QED BY <1>1, <1>2, <1>3

LEMMA EchoInvKept == ASSUME WellTyped PROVE CSpec => []EchoInv
<1>1. CInit /\ RecomputeInv => EchoInv
  BY InitEcho DEF EchoInv
<1>2. EchoInv /\ [CNext]_cvars /\ RecomputeInv' => EchoInv'
  <2> SUFFICES ASSUME EchoInv, [CNext]_cvars, RecomputeInv' PROVE EchoInv'
    OBVIOUS
  <2>1. Newcomer' /\ UserApart' /\ Distinct(snapshot') /\ Told'
    BY NextNewcomer, NextUserApart, NextSnapshot, NextTold
  <2> QED BY <2>1 DEF EchoInv
<1> QED BY <1>1, <1>2, RecomputeInvKept, PTL DEF CSpec

(* A subscriber of a computed is never called with the value it was called *)
(* with before, however re-entrant writes, get(), cancellations and batches*)
(* fall between invalidation and recompute, unless a cutoff lost values or *)
(* the baseline slipped (computed.ts, the comparison with                  *)
(* lastNotifiedValue).                                                     *)
THEOREM NobodyHearsTwice == ASSUME WellTyped PROVE CSpec => NoEcho
<1>1. EchoInv /\ [CNext]_cvars =>
        [\A s \in notified :
           running = None /\ running' = s /\ job.node \in Computeds \ (cut \cup slipped) =>
              seen'[s] # seen[s]]_cvars
  <2> SUFFICES ASSUME EchoInv, [CNext]_cvars, NEW s \in notified, running = None, running' = s,
                      job.node \in Computeds \ (cut \cup slipped)
               PROVE  seen'[s] # seen[s]
    OBVIOUS
  <2>1. s # None
    BY SubsAssumption DEF EchoInv, RecomputeInv, CTypeOK, TypeOK
  <2>2. CoreStep /\ CallListener
    BY <2>1, StepCases, LooksStutters DEF CoreStep, CellCall, CellFlushStep, Set, Subscribe, Unsubscribe,
       BatchBegin, BatchEnd, Call, StartJob, NextValue, CutOffValues, SkipListener, Return, EndJob,
       FlushDone, GiveUp, CutOffJobs, Get, Dispose, Observe, EvaluateReturn, EvaluateThrow,
       Invalidate, StartRecompute, SkipRecompute, FinishRecompute, cvars, vars, listenerVars
  <2>3. s = Head(snapshot)
    BY <2>2 DEF CallListener
  <2> QED BY <2>2, <2>3, CallTells
<1> QED BY <1>1, EchoInvKept, PTL DEF NoEcho, CSpec
-----------------------------------------------------------------------------
(* What computeds hold and what their subscribers know: FreshInv.          *)

(* A flush of a computed that is queued runs before its recompute.         *)
FlushFirst(q) == \A c \in Computeds : \A i, j \in DOMAIN q :
    i < j /\ q[i] = RecomputeJob(c) => q[j] # FlushJob(c)

(* While a recompute runs nothing else is queued for the computed.         *)
RunsAlone == \A c \in Computeds : job = RecomputeJob(c) =>
    ~recomputeScheduled[c] /\ pendingValues[c] = <<>>

(* Subscribers of c have not been given its value: a recompute will do so, *)
(* or was abandoned.                                                       *)
Due(c) == /\ cached[c] # lastNotified[c]
          /\ recomputeScheduled[c] \/ job = RecomputeJob(c) \/ c \in abandoned

(* Otherwise a value not told is one that nobody is there to be told of.   *)
Quiet == \A c \in Computeds : cached[c] # lastNotified[c] /\ ~Due(c) =>
    pendingValues[c] = <<>> /\ \A s \in Subs : ~InHands(c, s)

(* A subscriber to whom nothing is under way has the value of c.           *)
Settled == \A c \in Computeds \ (cut \cup slipped) : \A s \in Subscribed(c) \cap UserSubs :
    s # observer /\ pendingValues[c] = <<>> /\ ~InHands(c, s) => seen[s] = cached[c] \/ Due(c)

(* n holds v, or will tell c otherwise.                                    *)
Holds(n, v) == v = IF n \in Cells THEN value[n] ELSE cached[n]
Tells(n, c, v) ==
    \/ Holds(n, v)
    \/ pendingValues[n] # <<>> \/ InHands(n, c) \/ n \in cut
    \/ n \in Computeds /\ (disposed[n] \/ Due(n) \/ n \in slipped)

(* The value of a clean computed comes from reads that hold, or of which   *)
(* it will be told.                                                        *)
Traces(c, reads) ==
    /\ Program(c, reads) = Returning(cached[c])
    /\ \A j \in 1..Len(reads) : \E n \in deps[c] :
         Program(c, SubSeq(reads, 1, j - 1)) = Reading(n) /\ Tells(n, c, reads[j])
Traced == \A c \in Computeds : ~dirty[c] => \E reads \in Seq(Values) : Traces(c, reads)

(* What an evaluation has read holds, and an evaluation below another waits*)
(* for its value.                                                          *)
Witnessed(f) == \A j \in 1..Len(f.reads) : \E n \in f.tracked :
    /\ Program(f.node, SubSeq(f.reads, 1, j - 1)) = Reading(n)
    /\ Holds(n, f.reads[j]) /\ (n \in Computeds => ~dirty[n])
WaitsFor(f, c) == Program(f.node, f.reads) = Reading(c) /\ c \in f.tracked
FramesTrue ==
    /\ \A i \in 1..Len(evalStack) : Witnessed(evalStack[i])
    /\ \A i \in 1..(Len(evalStack) - 1) : WaitsFor(evalStack[i], evalStack[i + 1].node)

FreshInv ==
    /\ EchoInv /\ FlushFirst(pendingJobs) /\ RunsAlone
    /\ Quiet /\ Settled /\ Traced /\ FramesTrue
-----------------------------------------------------------------------------
(* The order of the jobs of a computed.                                    *)
LEMMA FlushFirstTail ==
    ASSUME NEW S, NEW q \in Seq(S), q # <<>>, FlushFirst(q)
    PROVE  /\ FlushFirst(Tail(q))
           /\ \A c \in Computeds : Head(q) = RecomputeJob(c) => FlushJob(c) \notin Members(Tail(q))
<1> DEFINE r == Tail(q)
<1>1. /\ Len(q) \in Nat /\ Len(q) > 0 /\ DOMAIN q = 1..Len(q) /\ Head(q) = q[1]
      /\ DOMAIN r = 1..(Len(q) - 1) /\ \A i \in 1..(Len(q) - 1) : r[i] = q[i + 1]
  BY HeadTailProperties, LenProperties, EmptySeq
<1> HIDE DEF r
<1>2. ASSUME NEW c \in Computeds, NEW i \in DOMAIN r, NEW j \in DOMAIN r,
             i < j, r[i] = RecomputeJob(c)
      PROVE  r[j] # FlushJob(c)
  <2>1. i + 1 \in DOMAIN q /\ j + 1 \in DOMAIN q /\ i + 1 < j + 1
    BY <1>1, <1>2
  <2>2. r[i] = q[i + 1] /\ r[j] = q[j + 1]
    BY <1>1
  <2> QED BY <1>2, <2>1, <2>2 DEF FlushFirst
<1>3. ASSUME NEW c \in Computeds, Head(q) = RecomputeJob(c), NEW j \in DOMAIN r
      PROVE  r[j] # FlushJob(c)
  <2>1. 1 \in DOMAIN q /\ j + 1 \in DOMAIN q /\ 1 < j + 1
    BY <1>1
  <2>2. q[1] = RecomputeJob(c) /\ r[j] = q[j + 1]
    BY <1>1, <1>3
  <2> QED BY <2>1, <2>2 DEF FlushFirst
<1>4. FlushFirst(r)
  BY <1>2 DEF FlushFirst
<1>5. \A c \in Computeds : Head(q) = RecomputeJob(c) => FlushJob(c) \notin Members(r)
  BY <1>3 DEF Members
<1> QED BY <1>4, <1>5 DEF r

LEMMA FlushFirstAppend ==
    ASSUME NEW S, NEW q \in Seq(S), NEW x \in S, FlushFirst(q),
           \A c \in Computeds : x = FlushJob(c) => RecomputeJob(c) \notin Members(q)
    PROVE  FlushFirst(Append(q, x))
<1> DEFINE a == Append(q, x)
<1>1. /\ Len(q) \in Nat /\ DOMAIN q = 1..Len(q) /\ DOMAIN a = 1..(Len(q) + 1)
      /\ a[Len(q) + 1] = x /\ \A i \in 1..Len(q) : a[i] = q[i]
  BY AppendProperties, LenProperties
<1> HIDE DEF a
<1>2. ASSUME NEW c \in Computeds, NEW i \in DOMAIN a, NEW j \in DOMAIN a,
             i < j, a[i] = RecomputeJob(c)
      PROVE  a[j] # FlushJob(c)
  <2>1. i \in DOMAIN q /\ q[i] = RecomputeJob(c)
    BY <1>1, <1>2
  <2>2. CASE j \in DOMAIN q
    BY <1>1, <1>2, <2>1, <2>2 DEF FlushFirst
  <2>3. CASE j = Len(q) + 1
    <3>1. RecomputeJob(c) \in Members(q) /\ a[j] = x
      BY <1>1, <2>1, <2>3 DEF Members
    <3> QED BY <3>1
  <2> QED BY <1>1, <2>2, <2>3
<1> QED BY <1>2 DEF FlushFirst, a

(* A value that is queued adds a flush at most.                            *)
LEMMA NotifyAppends ==
    ASSUME TypeOK, NEW n \in Nodes, NEW v, Notify(n, v),
           n \in Computeds => RecomputeJob(n) \notin Members(pendingJobs), FlushFirst(pendingJobs)
    PROVE  FlushFirst(pendingJobs)'
<1>1. pendingJobs' = pendingJobs \/ pendingJobs' = Append(pendingJobs, FlushJob(n))
  BY DEF Notify, Schedule
<1>2. pendingJobs \in Seq(Jobs) /\ FlushJob(n) \in Jobs
  BY FlushJobType DEF TypeOK
<1>3. \A c \in Computeds : FlushJob(n) = FlushJob(c) => RecomputeJob(c) \notin Members(pendingJobs)
  OBVIOUS
<1>4. FlushFirst(Append(pendingJobs, FlushJob(n)))
  BY <1>2, <1>3, FlushFirstAppend
<1> QED BY <1>1, <1>4

LEMMA NextFlushFirst ==
    ASSUME WellTyped, FreshInv, [CNext]_cvars PROVE FlushFirst(pendingJobs)'
<1>t. /\ TypeOK /\ pendingJobs \in Seq(Jobs) /\ FlushFirst(pendingJobs) /\ RecomputeInv
  BY DEF FreshInv, EchoInv, RecomputeInv, CTypeOK, TypeOK
<1>1. ASSUME NEW m \in Cells, NEW v, Set(m, v) PROVE FlushFirst(pendingJobs)'
  <2>1. Notify(m, v) /\ m \in Nodes /\ m \notin Computeds
    BY <1>1, ComputedsAreNodes DEF Set
  <2> QED BY <1>t, <2>1, NotifyAppends
<1>2. CASE FinishRecompute
  <2>1. CASE UNCHANGED pendingJobs
    BY <1>t, <2>1
  <2>2. CASE Notify(job.node, cached[job.node])
    <3>1. job.node \in Computeds /\ job = RecomputeJob(job.node)
      BY <1>t, <1>2, FinishNotifies
    <3>2. RecomputeJob(job.node) \notin Members(pendingJobs)
      BY <1>t, <3>1 DEF FreshInv, RunsAlone, RecomputeInv, Flags
    <3> QED BY <1>t, <2>2, <3>1, <3>2, NotifyAppends, ComputedsAreNodes
  <2> QED BY <1>t, <1>2, <2>1, <2>2, FinishNotifies
<1>3. CASE Invalidate
  <2>1. Head(snapshot) \in Computeds
    BY <1>t, <1>3, InvalidateQueues
  <2>2. pendingJobs' = pendingJobs \/ pendingJobs' = Append(pendingJobs, RecomputeJob(Head(snapshot)))
    BY <1>t, <1>3, InvalidateQueues
  <2>3. RecomputeJob(Head(snapshot)) \in Jobs /\ \A c \in Computeds : RecomputeJob(Head(snapshot)) # FlushJob(c)
    BY <2>1, RecomputeJobType
  <2>4. FlushFirst(Append(pendingJobs, RecomputeJob(Head(snapshot))))
    BY <1>t, <2>3, FlushFirstAppend
  <2> QED BY <1>t, <2>2, <2>4
<1>4. CASE pendingJobs # <<>> /\ pendingJobs' = Tail(pendingJobs)
  BY <1>t, <1>4, FlushFirstTail
<1>5. CASE pendingJobs' = <<>>
  BY <1>5 DEF FlushFirst
<1>6. \/ UNCHANGED pendingJobs \/ pendingJobs' = <<>>
      \/ pendingJobs # <<>> /\ pendingJobs' = Tail(pendingJobs)
      \/ FinishRecompute \/ Invalidate
      \/ \E m \in Cells : \E v \in NextValues(value[m]) : Set(m, v)
  <2>1. CASE CoreStep
    BY <2>1 DEF CoreStep, CellCall, CellFlushStep, Subscribe, Unsubscribe, BatchBegin, BatchEnd,
       StartJob, NextValue, CutOffValues, SkipListener, CallListener, Return, EndJob, FlushDone, schedulerVars
  <2>2. CASE Looks
    BY <2>2, LooksStutters DEF vars, schedulerVars
  <2> QED BY <2>1, <2>2, StepCases DEF GiveUp, CutOffJobs, Get, Observe, Dispose, EvaluateReturn, EvaluateThrow,
      StartRecompute, SkipRecompute, cvars, vars, schedulerVars
<1> QED BY <1>t, <1>1, <1>2, <1>3, <1>4, <1>5, <1>6

(* StartRecompute finds nothing of its computed queued.                    *)
LEMMA StartsAlone ==
    ASSUME FreshInv, StartRecompute
    PROVE  \E c \in Computeds :
              /\ job = None /\ job' = RecomputeJob(c) /\ pendingValues[c] = <<>>
              /\ recomputeScheduled' = [recomputeScheduled EXCEPT ![c] = FALSE]
<1>t. /\ pendingJobs \in Seq(Jobs) /\ pendingJobs # <<>> /\ FlushFirst(pendingJobs) /\ NoLostWakeup
      /\ job = None /\ job' = Head(pendingJobs) /\ pendingJobs' = Tail(pendingJobs)
  BY DEF FreshInv, EchoInv, RecomputeInv, CTypeOK, TypeOK, StartRecompute
<1>1. PICK c \in Computeds :
        /\ job' = RecomputeJob(c)
        /\ Members(pendingJobs) = {RecomputeJob(c)} \cup Members(pendingJobs')
        /\ recomputeScheduled' = [recomputeScheduled EXCEPT ![c] = FALSE]
  BY StartTakes DEF FreshInv, EchoInv
<1>2. FlushJob(c) \notin Members(pendingJobs')
  BY <1>t, <1>1, FlushFirstTail
<1>3. FlushJob(c) \notin Members(pendingJobs) /\ job # FlushJob(c) /\ c \in Nodes
  BY <1>t, <1>1, <1>2, RecomputeJobType, FlushJobType, ComputedsAreNodes
<1>4. pendingValues[c] = <<>>
  BY <1>t, <1>3 DEF NoLostWakeup
<1> QED BY <1>t, <1>1, <1>4

LEMMA NextRunsAlone ==
    ASSUME WellTyped, FreshInv, [CNext]_cvars PROVE RunsAlone'
<1>t. /\ RecomputeInv /\ RunsAlone /\ recomputeScheduled \in [Computeds -> BOOLEAN]
      /\ \A c \in Computeds : RecomputeJob(c) # None /\ RecomputeJob(c).kind = "recompute"
  BY RecomputeJobType DEF FreshInv, EchoInv, RecomputeInv, CTypeOK
<1> SUFFICES ASSUME NEW c \in Computeds, job' = RecomputeJob(c)
             PROVE  ~recomputeScheduled'[c] /\ pendingValues'[c] = <<>>
  BY DEF RunsAlone
<1>1. CASE StartRecompute
  <2>1. PICK d \in Computeds : /\ job' = RecomputeJob(d) /\ pendingValues[d] = <<>>
                               /\ recomputeScheduled' = [recomputeScheduled EXCEPT ![d] = FALSE]
    BY <1>1, StartsAlone
  <2>2. d = c /\ UNCHANGED pendingValues
    BY <1>1, <2>1 DEF StartRecompute, notifierVars
  <2> QED BY <1>t, <2>1, <2>2
<1>2. CASE job = RecomputeJob(c)
  <2>1. ~recomputeScheduled[c] /\ pendingValues[c] = <<>>
    BY <1>t, <1>2 DEF RunsAlone
  <2>2. isFlushing /\ running = None
    BY <1>t, <1>2 DEF RecomputeInv, JobsKnown, Phases
  <2>3. ~Call
    BY <2>2 DEF Call
  <2>4. ~CoreStep /\ ~Invalidate /\ ~StartRecompute /\ ~GiveUp /\ ~SkipRecompute /\ ~FinishRecompute
    <3>1. ~CoreStep
      BY <1>t, <1>2, CoreJobs
    <3> QED BY <1>t, <1>2, <3>1 DEF Invalidate, Delivering, StartRecompute, GiveUp, CutOffJobs, SkipRecompute, FinishRecompute
  <2>5. UNCHANGED <<recomputeScheduled, pendingValues>>
    <3>1. CASE Looks
      BY <3>1, LooksStutters DEF Looks, ReadCell, ReadClean, ReadDirty, Reevaluate, vars, notifierVars
    <3> QED BY <2>3, <2>4, <3>1, StepCases DEF Get, Dispose, Observe, EvaluateReturn, EvaluateThrow,
            cvars, vars, computedVars, notifierVars
  <2> QED BY <2>1, <2>5
<1>3. CASE job # RecomputeJob(c) /\ ~StartRecompute
  <2>1. ~CoreStep
    BY <1>t, CoreJobs
  <2>2. job' = job \/ job' = None
    <3>1. CASE Looks
      BY <3>1, LooksStutters DEF vars, schedulerVars
    <3> QED BY <1>3, <2>1, <3>1, StepCases DEF Get, Dispose, Observe, EvaluateReturn, EvaluateThrow, Invalidate,
            GiveUp, CutOffJobs, SkipRecompute, FinishRecompute, cvars, vars, schedulerVars
  <2> QED BY <1>3, <1>t, <2>2
<1> QED BY <1>1, <1>2, <1>3
-----------------------------------------------------------------------------
(* What a step does to the value of a computed and to what it compares with*)

(* An evaluation that does not move the baseline is awaited by somebody.   *)
LEMMA ReturnAwaited ==
    ASSUME WellTyped, EchoInv, EvaluateReturn, NEW x \in Computeds, x = Top.node
    PROVE  /\ Rebase(x) => Subscribed(x) \subseteq {observer}
           /\ ~Rebase(x) => Awaiting(x) # {}
<1>t. /\ subs[x] \in Seq(Subs) /\ Distinct(subs[x]) /\ observer \in UserSubs \cup {None}
      /\ Len(evalStack) \in Nat \ {0} /\ Top = evalStack[Len(evalStack)] /\ Observing /\ Stacked
  BY ComputedsAreNodes, StackTop DEF EchoInv, RecomputeInv, CTypeOK, TypeOK, ListensToDependencies, EvaluateReturn
<1>1. subs[x] = <<>> <=> Subscribed(x) = {}
  BY <1>t, OnlyMember DEF Subscribed
<1>2. ASSUME FirstObserver(x) PROVE Subscribed(x) = {observer}
  <2>1. observer # None /\ Len(evalStack) = 1 /\ Len(subs[x]) = 1
    BY <1>2 DEF FirstObserver
  <2>2. observer \in Members(subs[x])
    BY <1>t, <2>1 DEF Observing, Subscribed
  <2> QED BY <1>t, <2>1, <2>2, OnlyMember DEF Subscribed
<1>3. Rebase(x) => Subscribed(x) \subseteq {observer}
  BY <1>1, <1>2 DEF Rebase
<1>4. ASSUME Awaiting(x) = {} PROVE Rebase(x)
  <2>1. CASE observer # None /\ evalStack[1].node = x
    <3>1. observer \in Subscribed(x) /\ Subscribed(x) = {observer}
      BY <1>4, <1>t, <2>1 DEF Awaiting, Observing
    <3>2. Len(subs[x]) = 1
      BY <1>t, <3>1, OnlyMember DEF Subscribed
    <3>3. Len(evalStack) = 1
      <4>1. 1 \in 1..Len(evalStack) /\ Len(evalStack) \in 1..Len(evalStack)
        BY <1>t
      <4> QED BY <1>t, <2>1, <4>1 DEF Stacked
    <3> QED BY <2>1, <3>2, <3>3 DEF Rebase, FirstObserver
  <2>2. CASE ~(observer # None /\ evalStack[1].node = x)
    BY <1>1, <1>4, <2>2 DEF Awaiting, Rebase
  <2> QED BY <2>1, <2>2
<1> QED BY <1>3, <1>4

(* What a step does to cached and lastNotifiedValue of n.                  *)
Untouched(n) == cached'[n] = cached[n] /\ lastNotified'[n] = lastNotified[n]
Rebased(n) == cached'[n] = lastNotified'[n] /\ Subscribed(n) \subseteq {observer}
Queues(n) ==
    /\ cached'[n] = cached[n] /\ lastNotified'[n] = cached[n] /\ pendingValues'[n] # <<>>
    /\ UNCHANGED <<seen, subs>>
Reevaluated(n) == Due(n)' \/ (cached'[n] = lastNotified'[n] /\ n \in slipped')

LEMMA ReturnPair ==
    ASSUME WellTyped, EchoInv, EvaluateReturn, NEW n \in Computeds
    PROVE  Untouched(n) \/ Rebased(n) \/ Reevaluated(n)
<1> PICK x \in Computeds : x = Top.node
  BY ReturnSubs DEF EchoInv
<1> PICK v : v = Step.value
  OBVIOUS
<1>t. /\ cached \in [Computeds -> Values] /\ lastNotified \in [Computeds -> Values] /\ Owed
      /\ x \in Computeds /\ dirty[x]
  BY ReturnSubs DEF EchoInv, RecomputeInv, CTypeOK
<1>1. /\ cached' = [cached EXCEPT ![x] = v] /\ UNCHANGED <<recomputeScheduled, job, abandoned>>
      /\ lastNotified' = IF Rebase(x) THEN [lastNotified EXCEPT ![x] = v] ELSE lastNotified
      /\ slipped' = IF Slips(x, v) THEN slipped \cup {x} ELSE slipped
  BY DEF EvaluateReturn, schedulerVars
<1>2. CASE n # x
  BY <1>1, <1>2, <1>t DEF Untouched
<1>3. CASE n = x /\ Rebase(x)
  BY <1>1, <1>3, <1>t, ReturnAwaited DEF Rebased
<1>4. CASE n = x /\ ~Rebase(x)
  <2>1. cached'[n] = v /\ lastNotified'[n] = lastNotified[n]
    BY <1>1, <1>4, <1>t
  <2>2. CASE v = lastNotified[n] /\ v = cached[n]
    BY <2>1, <2>2 DEF Untouched
  <2>3. CASE v = lastNotified[n] /\ v # cached[n]
    BY <1>1, <1>4, <2>1, <2>3 DEF Reevaluated, Slips
  <2>4. CASE v # lastNotified[n]
    <3>1. recomputeScheduled[n] \/ job = RecomputeJob(n) \/ n \in abandoned
      BY <1>4, <1>t, ReturnAwaited DEF Owed
    <3> QED BY <1>1, <2>1, <2>4, <3>1 DEF Reevaluated, Due
  <2> QED BY <2>2, <2>3, <2>4
<1> QED BY <1>2, <1>3, <1>4

LEMMA NextPair ==
    ASSUME WellTyped, EchoInv, [CNext]_cvars, NEW n \in Computeds
    PROVE  Untouched(n) \/ Rebased(n) \/ Queues(n) \/ Reevaluated(n)
<1>t. /\ cached \in [Computeds -> Values] /\ lastNotified \in [Computeds -> Values]
      /\ pendingValues \in [Nodes -> Seq(Values)] /\ n \in Nodes
  BY ComputedsAreNodes DEF EchoInv, RecomputeInv, CTypeOK, TypeOK
<1>1. CASE EvaluateReturn
  BY <1>1, ReturnPair
<1>2. ASSUME NEW c \in Computeds, NEW s \in UserSubs, Observe(c, s)
      PROVE  Untouched(n) \/ Rebased(n)
  <2>1. UNCHANGED cached /\ (UNCHANGED lastNotified
                             \/ (subs[c] = <<>> /\ lastNotified' = [lastNotified EXCEPT ![c] = cached[c]]))
    BY <1>2 DEF Observe
  <2>2. CASE UNCHANGED lastNotified
    BY <2>1, <2>2 DEF Untouched
  <2>3. CASE subs[c] = <<>> /\ lastNotified' = [lastNotified EXCEPT ![c] = cached[c]]
    <3>1. CASE n = c
      BY <1>t, <2>1, <2>3, <3>1, MembersEmpty DEF Rebased, Subscribed
    <3>2. CASE n # c
      BY <1>t, <2>1, <2>3, <3>2 DEF Untouched
    <3> QED BY <3>1, <3>2
  <2> QED BY <2>1, <2>2, <2>3
<1>3. CASE FinishRecompute
  <2>1. /\ UNCHANGED <<cached, subs, seen>>
        /\ \/ /\ Changed(job.node) /\ Notify(job.node, cached[job.node])
              /\ lastNotified' = [lastNotified EXCEPT ![job.node] = cached[job.node]]
           \/ UNCHANGED lastNotified
    BY <1>3, FinishNotifies DEF EchoInv
  <2>2. CASE UNCHANGED lastNotified \/ n # job.node
    BY <1>t, <2>1, <2>2 DEF Untouched
  <2>3. CASE n = job.node /\ Notify(n, cached[n]) /\ lastNotified' = [lastNotified EXCEPT ![n] = cached[n]]
    <3>1. pendingValues'[n] = Append(Queued(n), cached[n])
      BY <1>t, <2>3 DEF Notify
    <3>2. Queued(n) \in Seq(Values)
      BY <1>t, EmptySeq DEF Queued
    <3>3. pendingValues'[n] # <<>>
      BY <1>t, <3>1, <3>2, AppendProperties
    <3> QED BY <1>t, <2>1, <2>3, <3>3 DEF Queues
  <2> QED BY <2>1, <2>2, <2>3
<1>4. \/ UNCHANGED <<cached, lastNotified>>
      \/ EvaluateReturn \/ FinishRecompute \/ \E c \in Computeds, s \in UserSubs : Observe(c, s)
  BY StepCases DEF CoreStep, Looks, ReadCell, ReadClean, ReadDirty, Reevaluate, GiveUp, Get, Dispose,
     EvaluateThrow, Invalidate, StartRecompute, SkipRecompute, cvars, computedVars
<1> QED BY <1>1, <1>2, <1>3, <1>4 DEF Untouched

(* What is due stays so until its recompute finds nobody there.            *)
LEMMA DueEnds ==
    ASSUME WellTyped, EchoInv, [CNext]_cvars, NEW n \in Computeds,
           Untouched(n), Due(n), ~Due(n)'
    PROVE  SkipRecompute /\ job = RecomputeJob(n)
<1>t. /\ recomputeScheduled \in [Computeds -> BOOLEAN]
      /\ cached'[n] # lastNotified'[n]
      /\ recomputeScheduled[n] \/ job = RecomputeJob(n) \/ n \in abandoned
      /\ ~recomputeScheduled'[n] /\ job' # RecomputeJob(n) /\ n \notin abandoned'
      /\ RecomputeJob(n).kind = "recompute" /\ RecomputeJob(n).node = n
      /\ Flags /\ RecomputeInv
  BY DEF EchoInv, RecomputeInv, CTypeOK, Due, Untouched
<1>1. CASE CoreStep
  <2>1. UNCHANGED <<recomputeScheduled, abandoned>>
    BY <1>1 DEF CoreStep, computedVars
  <2>2. job # RecomputeJob(n)
    BY <1>1, <1>t, CoreJobs, RecomputeJobType
  <2> QED BY <1>t, <2>1, <2>2
<1>2. CASE Looks
  <2>1. UNCHANGED <<recomputeScheduled, abandoned, job>>
    BY <1>2, LooksStutters DEF Looks, ReadCell, ReadClean, ReadDirty, Reevaluate, vars, schedulerVars
  <2> QED BY <1>t, <2>1
<1>3. CASE GiveUp
  <2>1. /\ UNCHANGED job /\ job = None
        /\ abandoned' = abandoned \cup {c \in Computeds : RecomputeJob(c) \in Members(pendingJobs)}
    BY <1>3 DEF GiveUp, CutOffJobs
  <2> QED BY <1>t, <2>1, RecomputeJobType DEF Flags
<1>4. CASE EvaluateThrow
  <2>1. UNCHANGED recomputeScheduled
    BY <1>4 DEF EvaluateThrow
  <2>2. \/ UNCHANGED <<job, abandoned>>
        \/ job # None /\ job.kind = "recompute" /\ abandoned' = abandoned \cup {job.node}
    BY <1>4 DEF EvaluateThrow
  <2> QED BY <1>t, <2>1, <2>2
<1>5. CASE Invalidate
  <2>1. /\ UNCHANGED <<job, abandoned>>
        /\ UNCHANGED recomputeScheduled
           \/ recomputeScheduled' = [recomputeScheduled EXCEPT ![Head(snapshot)] = TRUE]
    BY <1>5 DEF Invalidate
  <2> QED BY <1>t, <2>1
<1>6. CASE StartRecompute
  <2>1. UNCHANGED abandoned
    BY <1>6 DEF StartRecompute
  <2>2. PICK c \in Computeds : /\ job = None /\ job' = RecomputeJob(c)
                               /\ recomputeScheduled' = [recomputeScheduled EXCEPT ![c] = FALSE]
    BY <1>6, <1>t, StartTakes
  <2>3. RecomputeJob(n) # None
    BY RecomputeJobType
  <2> QED BY <1>t, <2>1, <2>2, <2>3
<1>7. CASE FinishRecompute
  <2>1. /\ UNCHANGED recomputeScheduled /\ UNCHANGED cached
        /\ \/ /\ lastNotified' = [lastNotified EXCEPT ![job.node] = cached[job.node]]
              /\ abandoned' = abandoned \ {job.node}
           \/ ~Changed(job.node) /\ UNCHANGED <<abandoned, lastNotified>>
        /\ job = RecomputeJob(job.node) /\ job.node \in Computeds
    BY <1>7, <1>t, FinishNotifies
  <2>2. lastNotified \in [Computeds -> Values]
    BY <1>t DEF RecomputeInv, CTypeOK
  <2>3. CASE n = job.node
    BY <1>t, <2>1, <2>2, <2>3 DEF Changed, Untouched
  <2>4. CASE n # job.node
    BY <1>t, <2>1, <2>4
  <2> QED BY <2>3, <2>4
<1>8. CASE SkipRecompute
  <2>1. UNCHANGED <<recomputeScheduled, abandoned>>
    BY <1>8 DEF SkipRecompute, computedVars
  <2> QED BY <1>8, <1>t, <2>1
<1>9. CASE UNCHANGED <<recomputeScheduled, abandoned, job>>
  BY <1>9, <1>t
<1>10. \/ UNCHANGED <<recomputeScheduled, abandoned, job>>
       \/ CoreStep \/ Looks \/ GiveUp \/ EvaluateThrow \/ Invalidate \/ StartRecompute
       \/ FinishRecompute \/ SkipRecompute
  BY StepCases DEF Get, Dispose, Observe, EvaluateReturn, cvars, vars, computedVars, schedulerVars
<1> QED BY <1>1, <1>2, <1>3, <1>4, <1>5, <1>6, <1>7, <1>8, <1>9, <1>10

(* A value that is due stays so, is queued, or has nobody to be told of it.*)
LEMMA NextDue ==
    ASSUME WellTyped, EchoInv, [CNext]_cvars, NEW n \in Computeds, Due(n)
    PROVE  \/ Due(n)' \/ pendingValues'[n] # <<>> \/ n \in slipped'
           \/ Subscribed(n) \subseteq {observer}
<1>1. CASE Untouched(n) /\ ~Due(n)'
  <2>1. SkipRecompute /\ job = RecomputeJob(n)
    BY <1>1, DueEnds
  <2>2. disposed[n] \/ subs[n] = <<>>
    BY <2>1 DEF SkipRecompute, Unneeded
  <2>3. Subscribed(n) = {}
    BY <2>2, MembersEmpty DEF EchoInv, RecomputeInv, Gone, Subscribed
  <2> QED BY <2>3
<1> QED BY <1>1, NextPair DEF Rebased, Queues, Reevaluated

(* A value replaced is due, or its subscribers have gone.                  *)
LEMMA NextCached ==
    ASSUME WellTyped, EchoInv, [CNext]_cvars, NEW n \in Computeds
    PROVE  \/ cached'[n] = cached[n] \/ Due(n)' \/ n \in slipped'
           \/ Subscribed(n) \subseteq {observer}
BY NextPair DEF Untouched, Rebased, Queues, Reevaluated
-----------------------------------------------------------------------------
(* What is on its way to a subscriber arrives or stays on its way.         *)
OnItsWay(n, s) == pendingValues[n] # <<>> \/ InHands(n, s)

(* Whoever delivers is the flush of a node.                                *)
LEMMA DeliveringJob ==
    ASSUME TypeOK, Delivering
    PROVE  job.node \in Nodes /\ job = FlushJob(job.node)
<1>1. job \in Jobs /\ job.kind = "flush"
  BY DEF Delivering, TypeOK
<1> QED BY <1>1 DEF Jobs

(* What a computed that stays clean loses from the snapshot.               *)
LEMMA SnapshotKeeps ==
    ASSUME TypeOK, Distinct(snapshot), NEW x, NEW dropped, NEW s \in Members(snapshot), s # x
    PROVE  s \in Members(SnapshotWithout(x, dropped))
<1>1. snapshot \in Seq(Subs)
  BY DEF TypeOK
<1>2. Members(Drop(snapshot, x)) = Members(snapshot) \ {x}
  BY <1>1, DropProperties
<1> QED BY <1>2 DEF SnapshotWithout

LEMMA NotifyQueues ==
    ASSUME TypeOK, NEW n \in Nodes, NEW v, Notify(n, v)
    PROVE  /\ pendingValues'[n] # <<>>
           /\ \A m \in Nodes : m # n => pendingValues'[m] = pendingValues[m]
<1>1. pendingValues \in [Nodes -> Seq(Values)]
  BY DEF TypeOK
<1>2. pendingValues'[n] = Append(Queued(n), v)
  BY <1>1 DEF Notify
<1>3. Queued(n) \in Seq(Values)
  BY <1>1, EmptySeq DEF Queued
<1>4. Append(Queued(n), v) # <<>>
  BY <1>3, AppendProperties
<1> QED BY <1>1, <1>2, <1>4 DEF Notify

LEMMA CoreOnItsWay ==
    ASSUME EchoInv, CoreStep, NEW n \in Nodes, NEW s \in Subscribed(n),
           OnItsWay(n, s), ~(CallListener /\ s = Head(snapshot))
    PROVE  OnItsWay(n, s)' \/ n \in cut'
<1>t. /\ TypeOK /\ snapshot \in Seq(Subs) /\ pendingValues \in [Nodes -> Seq(Values)] /\ Phases
      /\ FlushJob(n) # None
  BY FlushJobType DEF EchoInv, RecomputeInv, CTypeOK, TypeOK
<1>1. CASE UNCHANGED <<pendingValues, job, snapshot>>
  BY <1>1 DEF OnItsWay, InHands
<1>2. ASSUME NEW m \in Cells, NEW v, Set(m, v) PROVE OnItsWay(n, s)'
  <2>1. m \in Nodes /\ Notify(m, v) /\ UNCHANGED <<job, snapshot>>
    BY <1>2, ComputedsAreNodes DEF Set, deliveryVars
  <2>2. pendingValues'[m] # <<>> /\ (n # m => pendingValues'[n] = pendingValues[n])
    BY <1>t, <2>1, NotifyQueues
  <2> QED BY <2>1, <2>2 DEF OnItsWay, InHands
<1>3. CASE StartJob
  <2>1. job = None /\ UNCHANGED pendingValues
    BY <1>3 DEF StartJob
  <2> QED BY <1>t, <2>1 DEF OnItsWay, InHands
<1>4. CASE NextValue
  <2>1. /\ Delivering /\ snapshot = <<>> /\ UNCHANGED job
        /\ pendingValues' = [pendingValues EXCEPT ![job.node] = Tail(@)]
        /\ snapshot' = subs[job.node]
    BY <1>4 DEF NextValue, schedulerVars
  <2>2. pendingValues[n] # <<>>
    BY <2>1, MembersEmpty DEF OnItsWay, InHands
  <2>3. CASE job.node = n
    BY <1>t, <2>1, <2>3, DeliveringJob DEF OnItsWay, InHands, Subscribed
  <2>4. CASE job.node # n
    BY <1>t, <2>1, <2>2, <2>4 DEF OnItsWay
  <2> QED BY <2>3, <2>4
<1>5. CASE CutOffValues
  <2>1. /\ pendingValues' = [pendingValues EXCEPT ![job.node] = <<>>]
        /\ cut' = cut \cup {job.node} /\ UNCHANGED <<job, snapshot>>
    BY <1>5 DEF CutOffValues, schedulerVars
  <2>2. CASE job.node = n
    BY <2>1, <2>2
  <2>3. CASE job.node # n
    BY <1>t, <2>1, <2>3 DEF OnItsWay, InHands
  <2> QED BY <2>2, <2>3
<1>6. CASE snapshot # <<>> /\ snapshot' = Tail(snapshot) /\ s # Head(snapshot) /\ UNCHANGED <<job, pendingValues>>
  <2>1. Members(snapshot) = {Head(snapshot)} \cup Members(snapshot')
    BY <1>t, <1>6, MembersTail
  <2> QED BY <1>6, <2>1 DEF OnItsWay, InHands
<1>7. CASE SkipListener
  <2>1. CASE s # Head(snapshot)
    BY <1>6, <1>7, <2>1 DEF SkipListener, schedulerVars, notifierVars
  <2>2. CASE s = Head(snapshot)
    <3>1. job # FlushJob(n)
      BY <1>7, <2>2 DEF SkipListener, Active
    <3>2. pendingValues[n] # <<>> /\ UNCHANGED pendingValues
      BY <1>7, <3>1 DEF OnItsWay, InHands, SkipListener, notifierVars
    <3> QED BY <3>2 DEF OnItsWay
  <2> QED BY <2>1, <2>2
<1>8. CASE CallListener
  BY <1>6, <1>8 DEF CallListener, schedulerVars, notifierVars
<1>9. CASE EndJob
  <2>1. snapshot = <<>> /\ UNCHANGED pendingValues
    BY <1>9 DEF EndJob, notifierVars
  <2>2. pendingValues[n] # <<>>
    BY <2>1, MembersEmpty DEF OnItsWay, InHands
  <2> QED BY <2>1, <2>2 DEF OnItsWay
<1>10. \/ UNCHANGED <<pendingValues, job, snapshot>>
       \/ \E m \in Cells : \E v \in NextValues(value[m]) : Set(m, v)
       \/ StartJob \/ NextValue \/ CutOffValues \/ SkipListener \/ CallListener \/ EndJob
  BY DEF CoreStep, CellCall, CellFlushStep, Subscribe, Unsubscribe, BatchBegin, BatchEnd, Return,
     FlushDone, schedulerVars, notifierVars, deliveryVars
<1> QED BY <1>1, <1>2, <1>3, <1>4, <1>5, <1>7, <1>8, <1>9, <1>10

LEMMA NextOnItsWay ==
    ASSUME WellTyped, EchoInv, [CNext]_cvars, NEW n \in Nodes, NEW s \in Subscribed(n),
           OnItsWay(n, s), ~(CallListener /\ s = Head(snapshot)),
           s \in Computeds => ~dirty[s] /\ ~dirty'[s]
    PROVE  OnItsWay(n, s)' \/ n \in cut'
<1>t. /\ TypeOK /\ snapshot \in Seq(Subs) /\ pendingValues \in [Nodes -> Seq(Values)]
      /\ FlushJob(n) # None /\ RecomputeInv /\ Distinct(snapshot) /\ dirty \in [Computeds -> BOOLEAN]
  BY FlushJobType DEF EchoInv, RecomputeInv, CTypeOK, TypeOK
<1>1. CASE CoreStep
  BY <1>1, CoreOnItsWay
<1>2. CASE UNCHANGED <<pendingValues, job, snapshot>>
  BY <1>2 DEF OnItsWay, InHands
<1>3. CASE GiveUp
  <2>1. /\ job = None /\ cut' = cut \cup {m \in Discarded : pendingValues[m] # <<>>}
        /\ pendingValues' = [m \in Nodes |-> IF m \in Discarded THEN <<>> ELSE pendingValues[m]]
    BY <1>3 DEF GiveUp, CutOffJobs, DiscardFlushes
  <2>2. pendingValues[n] # <<>>
    BY <1>t, <2>1 DEF OnItsWay, InHands
  <2> QED BY <2>1, <2>2 DEF OnItsWay
<1>4. CASE UNCHANGED pendingValues /\ ~InHands(n, s)
  BY <1>4 DEF OnItsWay
<1>5. ASSUME NEW x \in Computeds, NEW dr, snapshot' = SnapshotWithout(x, dr), s # x,
             UNCHANGED <<pendingValues, job>>
      PROVE  OnItsWay(n, s)'
  BY <1>5, <1>t, SnapshotKeeps DEF OnItsWay, InHands
<1>6. CASE EvaluateReturn
  <2>1. Top.node \in Computeds /\ dirty[Top.node]
    BY <1>6, <1>t, ReturnSubs
  <2>2. s # Top.node
    BY <2>1
  <2> QED BY <1>5, <1>6, <2>1, <2>2 DEF EvaluateReturn, schedulerVars
<1>7. ASSUME NEW c \in Computeds, Dispose(c) PROVE OnItsWay(n, s)'
  <2>1. dirty'[c]
    BY <1>7, <1>t DEF Dispose
  <2>2. s # c
    BY <2>1
  <2> QED BY <1>5, <1>7, <2>2 DEF Dispose, schedulerVars
<1>8. CASE EvaluateThrow
  <2>1. UNCHANGED <<pendingValues, snapshot>> /\ (UNCHANGED job \/ (job # None /\ job.kind = "recompute"))
    BY <1>8 DEF EvaluateThrow, deliveryVars
  <2>2. CASE job # None /\ job.kind = "recompute"
    <3>1. job # FlushJob(n)
      BY <2>2
    <3> QED BY <1>4, <2>1, <3>1 DEF InHands
  <2> QED BY <1>2, <2>1, <2>2
<1>9. CASE Invalidate
  <2>1. /\ snapshot # <<>> /\ snapshot' = Tail(snapshot) /\ UNCHANGED <<job, pendingValues>>
        /\ dirty' = [dirty EXCEPT ![Head(snapshot)] = TRUE] /\ Head(snapshot) \in Computeds
    BY <1>9 DEF Invalidate, notifierVars
  <2>2. s # Head(snapshot)
    BY <1>t, <2>1
  <2>3. Members(snapshot) = {Head(snapshot)} \cup Members(snapshot')
    BY <1>t, <2>1, MembersTail
  <2> QED BY <2>1, <2>2, <2>3 DEF OnItsWay, InHands
<1>10. CASE StartRecompute
  BY <1>4, <1>10, <1>t DEF StartRecompute, InHands, notifierVars
<1>11. CASE SkipRecompute
  <2>1. job # FlushJob(n)
    BY <1>11 DEF SkipRecompute, Recomputing
  <2> QED BY <1>4, <1>11, <2>1 DEF SkipRecompute, InHands, notifierVars
<1>12. CASE FinishRecompute
  <2>1. job # FlushJob(n)
    BY <1>12 DEF FinishRecompute, Recomputing
  <2>2. job.node \in Nodes /\ (Notify(job.node, cached[job.node]) \/ UNCHANGED pendingValues)
    BY <1>12, <1>t, FinishNotifies, ComputedsAreNodes
  <2>3. pendingValues'[n] # <<>>
    BY <1>t, <2>1, <2>2, NotifyQueues DEF OnItsWay, InHands
  <2> QED BY <2>3 DEF OnItsWay
<1>13. \/ UNCHANGED <<pendingValues, job, snapshot>>
       \/ CoreStep \/ GiveUp \/ (\E c \in Computeds : Dispose(c)) \/ EvaluateReturn \/ EvaluateThrow
       \/ Invalidate \/ StartRecompute \/ SkipRecompute \/ FinishRecompute
  BY StepCases, LooksStutters DEF Get, Observe, cvars, vars, schedulerVars, notifierVars, deliveryVars
<1> QED BY <1>1, <1>2, <1>3, <1>6, <1>7, <1>8, <1>9, <1>10, <1>11, <1>12, <1>13
-----------------------------------------------------------------------------
(* A cell is written by set() only, and cut values are made up for by the  *)
(* next write.                                                             *)
LEMMA NextWritten ==
    ASSUME TypeOK, [CNext]_cvars, NEW n \in Nodes
    PROVE  /\ n \in Cells => value'[n] = value[n] \/ pendingValues'[n] # <<>>
           /\ n \in cut => n \in cut' \/ pendingValues'[n] # <<>>
<1>t. value \in [Cells -> Values]
  BY DEF TypeOK
<1>1. ASSUME NEW m \in Cells, NEW v, Set(m, v)
      PROVE  /\ n \in Cells => value'[n] = value[n] \/ pendingValues'[n] # <<>>
             /\ n \in cut => n \in cut' \/ pendingValues'[n] # <<>>
  <2>1. /\ value' = [value EXCEPT ![m] = v] /\ cut' = cut \ {m} /\ Notify(m, v) /\ m \in Nodes
    BY <1>1, ComputedsAreNodes DEF Set
  <2>2. pendingValues'[m] # <<>>
    BY <2>1, NotifyQueues
  <2> QED BY <1>t, <2>1, <2>2
<1>2. CASE UNCHANGED value /\ cut \subseteq cut'
  BY <1>2
<1>3. \/ UNCHANGED value /\ cut \subseteq cut'
      \/ \E m \in Cells : \E v \in NextValues(value[m]) : Set(m, v)
  <2>1. CASE CoreStep
    BY <2>1 DEF CoreStep, CellCall, CellFlushStep, Subscribe, Unsubscribe, BatchBegin, BatchEnd, StartJob,
       NextValue, CutOffValues, SkipListener, CallListener, Return, EndJob, FlushDone, historyVars
  <2> QED BY <2>1, StepCases, LooksStutters DEF GiveUp, CutOffJobs, Get, Dispose, Observe, EvaluateReturn,
      EvaluateThrow, Invalidate, StartRecompute, SkipRecompute, FinishRecompute, cvars, vars, historyVars
<1> QED BY <1>1, <1>2, <1>3

(* What has been disposed or has slipped stays so.                         *)
LEMMA NextForGood ==
    ASSUME CTypeOK, [CNext]_cvars, NEW n \in Computeds
    PROVE  (disposed[n] => disposed'[n]) /\ (n \in slipped => n \in slipped')
<1>1. disposed \in [Computeds -> BOOLEAN]
  BY DEF CTypeOK
<1>2. ASSUME NEW c \in Computeds, Dispose(c) PROVE (disposed[n] => disposed'[n]) /\ slipped' = slipped
  BY <1>1, <1>2 DEF Dispose
<1>3. \/ UNCHANGED disposed /\ slipped \subseteq slipped'
      \/ \E c \in Computeds : Dispose(c)
  BY StepCases DEF CoreStep, Looks, ReadCell, ReadClean, ReadDirty, Reevaluate, GiveUp, Get, Observe,
     EvaluateReturn, EvaluateThrow, Invalidate, StartRecompute, SkipRecompute, FinishRecompute, cvars,
     computedVars
<1> QED BY <1>2, <1>3

(* What n holds or will tell c, while c stays clean.                       *)
LEMMA NextTells ==
    ASSUME WellTyped, EchoInv, [CNext]_cvars, NEW c \in Computeds, NEW n \in deps[c],
           ~dirty[c], ~dirty'[c], NEW v, Tells(n, c, v)
    PROVE  Tells(n, c, v)'
<1>t. /\ n \in Nodes /\ CTypeOK /\ TypeOK /\ (n \in Cells <=> n \notin Computeds)
      /\ observer \in UserSubs \cup {None} /\ c # None /\ c \notin UserSubs /\ c \in Subs
  BY ComputedsAreNodes, ComputedsAssumption, SubsAssumption DEF EchoInv, RecomputeInv, CTypeOK
<1>1. n \in Computeds => disposed[n] \/ c \in Subscribed(n)
  BY <1>t DEF EchoInv, RecomputeInv, ListensToDependencies
<1>2. n \in Cells => c \in Subscribed(n)
  BY <1>t DEF EchoInv, RecomputeInv, ListensToDependencies
<1>3. CASE n \in Computeds /\ disposed[n]
  BY <1>3, <1>t, NextForGood DEF Tells
<1>4. CASE c \in Subscribed(n)
  <2>1. ~(Subscribed(n) \subseteq {observer})
    BY <1>4, <1>t
  <2>2. CASE Holds(n, v) /\ n \in Cells
    BY <1>t, <2>2, NextWritten DEF Holds, Tells
  <2>3. CASE Holds(n, v) /\ n \in Computeds
    BY <1>t, <2>1, <2>3, NextCached DEF Holds, Tells
  <2>4. CASE OnItsWay(n, c)
    <3>1. ~(CallListener /\ c = Head(snapshot))
      BY <1>t DEF CallListener
    <3> QED BY <1>4, <1>t, <2>4, <3>1, NextOnItsWay DEF OnItsWay, Tells
  <2>5. CASE n \in cut
    BY <1>t, <2>5, NextWritten DEF Tells
  <2>6. CASE n \in Computeds /\ Due(n)
    BY <2>1, <2>6, NextDue DEF Tells
  <2>7. CASE n \in Computeds /\ n \in slipped
    BY <1>t, <2>7, NextForGood DEF Tells
  <2> QED BY <1>3, <1>t, <2>2, <2>3, <2>4, <2>5, <2>6, <2>7 DEF Tells, OnItsWay
<1> QED BY <1>1, <1>2, <1>3, <1>4, <1>t
-----------------------------------------------------------------------------
(* What subscribers have: Quiet and Settled.                               *)

(* Nobody but the listener called, and who subscribes, is given a value.   *)
LEMMA NextSeen ==
    ASSUME CTypeOK, [CNext]_cvars, NEW n \in Nodes, NEW s \in Subscribed(n),
           s # observer, ~(CallListener /\ s = Head(snapshot))
    PROVE  seen'[s] = seen[s]
<1>t. seen \in [Subs -> Values]
  BY DEF CTypeOK, TypeOK
<1>1. CASE UNCHANGED seen
  BY <1>1
<1>2. ASSUME NEW t, t # s, NEW v, seen' = [seen EXCEPT ![t] = v] PROVE seen'[s] = seen[s]
  BY <1>t, <1>2
<1>3. ASSUME NEW c \in Computeds, NEW t \in UserSubs, Observe(c, t) PROVE seen'[s] = seen[s]
  <2>1. t # s /\ (UNCHANGED seen \/ seen' = [seen EXCEPT ![t] = cached[c]])
    BY <1>3 DEF Observe
  <2> QED BY <1>2, <2>1
<1>4. ASSUME NEW c \in Cells, NEW t \in UserSubs, Subscribe(c, t) PROVE seen'[s] = seen[s]
  <2>1. t # s /\ seen' = [seen EXCEPT ![t] = value[c]]
    BY <1>4 DEF Subscribe
  <2> QED BY <1>2, <2>1
<1>5. CASE CallListener
  <2>1. seen' = [seen EXCEPT ![Head(snapshot)] = delivering] /\ Head(snapshot) # s
    BY <1>5 DEF CallListener
  <2> QED BY <1>2, <2>1
<1>6. CASE EvaluateReturn
  <2>1. UNCHANGED seen \/ \E v : seen' = [seen EXCEPT ![observer] = v]
    BY <1>6 DEF EvaluateReturn
  <2> QED BY <1>2, <2>1
<1>7. \/ UNCHANGED seen \/ EvaluateReturn \/ CallListener
      \/ \E c \in Computeds, t \in UserSubs : Observe(c, t)
      \/ \E c \in Cells, t \in UserSubs : Subscribe(c, t)
  <2>1. CASE CoreStep
    BY <2>1 DEF CoreStep, CellCall, CellFlushStep, Set, Unsubscribe, BatchBegin, BatchEnd, StartJob,
       NextValue, CutOffValues, SkipListener, Return, EndJob, FlushDone, historyVars
  <2> QED BY <2>1, StepCases, LooksStutters DEF GiveUp, CutOffJobs, Get, Dispose, EvaluateThrow,
      Invalidate, StartRecompute, SkipRecompute, FinishRecompute, cvars, vars, historyVars
<1> QED BY <1>1, <1>3, <1>4, <1>5, <1>6, <1>7

(* A value is queued for a computed when lastNotifiedValue takes it, and is*)
(* handed over from the queue.                                             *)
LEMMA NextQueued ==
    ASSUME WellTyped, EchoInv, [CNext]_cvars, NEW c \in Computeds, pendingValues[c] = <<>>
    PROVE  pendingValues'[c] = <<>> \/ cached'[c] = lastNotified'[c]
<1>t. /\ TypeOK /\ RecomputeInv /\ pendingValues \in [Nodes -> Seq(Values)] /\ c \in Nodes
      /\ lastNotified \in [Computeds -> Values]
  BY ComputedsAreNodes DEF EchoInv, RecomputeInv, CTypeOK, TypeOK
<1>1. CASE UNCHANGED pendingValues
  BY <1>1
<1>2. ASSUME NEW m \in Cells, NEW v, Set(m, v) PROVE pendingValues'[c] = <<>>
  <2>1. m \in Nodes /\ m # c /\ Notify(m, v)
    BY <1>2, ComputedsAreNodes DEF Set
  <2> QED BY <1>t, <2>1, NotifyQueues
<1>3. CASE NextValue \/ CutOffValues
  <2>1. \/ pendingValues' = [pendingValues EXCEPT ![job.node] = Tail(@)] /\ pendingValues[job.node] # <<>>
        \/ pendingValues' = [pendingValues EXCEPT ![job.node] = <<>>]
    BY <1>3 DEF NextValue, CutOffValues
  <2> QED BY <1>t, <2>1
<1>4. CASE GiveUp
  BY <1>4, <1>t DEF GiveUp, CutOffJobs, DiscardFlushes
<1>5. CASE FinishRecompute
  <2>1. /\ job.node \in Computeds /\ UNCHANGED cached
        /\ \/ /\ Notify(job.node, cached[job.node])
              /\ lastNotified' = [lastNotified EXCEPT ![job.node] = cached[job.node]]
           \/ UNCHANGED pendingValues
    BY <1>5, <1>t, FinishNotifies
  <2>2. CASE UNCHANGED pendingValues
    BY <2>2
  <2>3. CASE job.node # c /\ Notify(job.node, cached[job.node])
    BY <1>t, <2>1, <2>3, NotifyQueues, ComputedsAreNodes
  <2>4. CASE job.node = c /\ lastNotified' = [lastNotified EXCEPT ![job.node] = cached[job.node]]
    BY <1>t, <2>1, <2>4
  <2> QED BY <2>1, <2>2, <2>3, <2>4
<1>6. \/ UNCHANGED pendingValues \/ NextValue \/ CutOffValues \/ GiveUp \/ FinishRecompute
      \/ \E m \in Cells : \E v \in NextValues(value[m]) : Set(m, v)
  <2>1. CASE CoreStep
    BY <2>1 DEF CoreStep, CellCall, CellFlushStep, Subscribe, Unsubscribe, BatchBegin, BatchEnd, StartJob,
       SkipListener, CallListener, Return, EndJob, FlushDone, notifierVars
  <2> QED BY <2>1, StepCases, LooksStutters DEF Get, Dispose, Observe, EvaluateReturn,
      EvaluateThrow, Invalidate, StartRecompute, SkipRecompute, cvars, vars, notifierVars
<1> QED BY <1>1, <1>2, <1>3, <1>4, <1>5, <1>6

LEMMA NextHands ==
    ASSUME WellTyped, EchoInv, [CNext]_cvars, NEW c \in Computeds, pendingValues[c] = <<>>,
           NEW s, InHands(c, s)'
    PROVE  InHands(c, s)
<1>t. /\ TypeOK /\ RecomputeInv /\ Phases /\ snapshot \in Seq(Subs) /\ job' = FlushJob(c)
      /\ s \in Members(snapshot') /\ FlushJob(c) # None /\ FlushJob(c).node = c
  BY FlushJobType, ComputedsAreNodes DEF EchoInv, RecomputeInv, CTypeOK, TypeOK, InHands
<1>1. CASE job' = job /\ Members(snapshot') \subseteq Members(snapshot)
  BY <1>1, <1>t DEF InHands
<1>2. CASE snapshot # <<>> /\ snapshot' = Tail(snapshot) /\ UNCHANGED job
  BY <1>1, <1>2, <1>t, MembersTail
<1>3. CASE StartJob
  <2>1. snapshot' = <<>>
    BY <1>3, <1>t DEF StartJob, Phases
  <2> QED BY <1>t, <2>1, MembersEmpty
<1>4. CASE NextValue
  <2>1. UNCHANGED job /\ pendingValues[job.node] # <<>>
    BY <1>4 DEF NextValue, schedulerVars
  <2> QED BY <1>t, <2>1
<1>5. ASSUME NEW x \in Computeds, NEW dr, snapshot' = SnapshotWithout(x, dr), UNCHANGED job
      PROVE  InHands(c, s)
  BY <1>1, <1>5, <1>t, SnapshotEffect
<1>6. CASE EvaluateReturn
  BY <1>5, <1>6, <1>t, ReturnSubs DEF EvaluateReturn, schedulerVars
<1>7. ASSUME NEW x \in Computeds, Dispose(x) PROVE InHands(c, s)
  BY <1>5, <1>7 DEF Dispose, schedulerVars
<1>8. CASE job' = None
  BY <1>8, <1>t
<1>9. CASE StartRecompute
  <2>1. \E d \in Computeds : job' = RecomputeJob(d)
    BY <1>9, <1>t, StartTakes
  <2> QED BY <1>t, <2>1, RecomputeJobType
<1>10. \/ UNCHANGED <<job, snapshot>> \/ (snapshot # <<>> /\ snapshot' = Tail(snapshot) /\ UNCHANGED job)
       \/ StartJob \/ NextValue \/ EvaluateReturn \/ (\E x \in Computeds : Dispose(x))
       \/ job' = None \/ StartRecompute
  <2>1. CASE CoreStep
    BY <2>1 DEF CoreStep, CellCall, CellFlushStep, Set, Subscribe, Unsubscribe, BatchBegin, BatchEnd,
       CutOffValues, SkipListener, CallListener, Return, EndJob, FlushDone, schedulerVars, deliveryVars
  <2> QED BY <2>1, StepCases, LooksStutters DEF GiveUp, CutOffJobs, Get, Observe, EvaluateThrow,
      Invalidate, SkipRecompute, FinishRecompute, cvars, vars, schedulerVars, deliveryVars
<1> QED BY <1>1, <1>2, <1>3, <1>4, <1>6, <1>7, <1>8, <1>9, <1>10

LEMMA NextQuiet == ASSUME WellTyped, FreshInv, [CNext]_cvars PROVE Quiet'
<1>t. EchoInv /\ RecomputeInv /\ RunsAlone /\ Quiet /\ snapshot \in Seq(Subs)
  BY DEF FreshInv, EchoInv, RecomputeInv, CTypeOK, TypeOK
<1> SUFFICES ASSUME NEW c \in Computeds, cached'[c] # lastNotified'[c], ~Due(c)'
             PROVE  pendingValues'[c] = <<>> /\ \A s \in Subs : ~InHands(c, s)'
  BY DEF Quiet
<1>1. Untouched(c) /\ cached[c] # lastNotified[c]
  BY <1>t, NextPair DEF Rebased, Queues, Reevaluated, Untouched
<1>2. pendingValues[c] = <<>> /\ \A s \in Subs : ~InHands(c, s)
  <2>1. CASE Due(c)
    <3>1. SkipRecompute /\ job = RecomputeJob(c)
      BY <1>1, <1>t, <2>1, DueEnds
    <3> QED BY <1>t, <3>1, NothingInHands DEF RunsAlone
  <2>2. CASE ~Due(c)
    BY <1>1, <1>t, <2>2 DEF Quiet
  <2> QED BY <2>1, <2>2
<1> QED BY <1>2, <1>t, NextQueued, NextHands
-----------------------------------------------------------------------------
(* A subscriber of a computed that has just been added.                    *)
LEMMA NewSubscriber ==
    ASSUME WellTyped, EchoInv, [CNext]_cvars, NEW c \in Computeds, NEW s \in UserSubs,
           s \notin Subscribed(c), s \in Members(subs'[c])
    PROVE  Observe(c, s)
<1>t. RecomputeInv /\ s \notin Computeds /\ c \in Nodes /\ s \notin Members(subs[c])
  BY ComputedsAreNodes DEF EchoInv, Subscribed
<1>1. CASE CoreStep
  BY <1>1, <1>t, CoreSubs
<1>2. CASE EvaluateReturn
  BY <1>2, <1>t, ReturnSubs
<1>3. CASE EvaluateThrow
  BY <1>3, <1>t, ThrowSubs
<1>4. ASSUME NEW x \in Computeds, Dispose(x) PROVE FALSE
  BY <1>4, <1>t, DisposeSubs
<1>5. ASSUME NEW x \in Computeds, NEW t \in UserSubs, Observe(x, t) PROVE Observe(c, s)
  BY <1>5, <1>t, ObserveSubs
<1>6. CASE UNCHANGED subs
  BY <1>6, <1>t
<1>7. \/ UNCHANGED subs \/ CoreStep \/ EvaluateReturn \/ EvaluateThrow
      \/ (\E x \in Computeds : Dispose(x)) \/ \E x \in Computeds, t \in UserSubs : Observe(x, t)
  BY StepCases, LooksStutters DEF GiveUp, CutOffJobs, Get, Invalidate, StartRecompute,
      SkipRecompute, FinishRecompute, cvars, vars, notifierVars
<1> QED BY <1>1, <1>2, <1>3, <1>4, <1>5, <1>6, <1>7

(* The observer gets what its subscribe() evaluates, or is cancelled.      *)
LEMMA ObserverServed ==
    ASSUME WellTyped, EchoInv, [CNext]_cvars, NEW c \in Computeds, NEW s \in UserSubs,
           s \in Subscribed(c), s = observer, s # observer', s \in Members(subs'[c])
    PROVE  seen'[s] = cached'[c]
<1>t. /\ RecomputeInv /\ CTypeOK /\ s # None /\ s \in Subs /\ c \in Nodes /\ Observing /\ Stacked
      /\ seen \in [Subs -> Values] /\ cached \in [Computeds -> Values]
  BY ComputedsAreNodes, SubsAssumption DEF EchoInv, RecomputeInv, CTypeOK, TypeOK
<1>1. ~Idle /\ observer \in Subscribed(evalStack[1].node)
  BY <1>t DEF Observing
<1>2. evalStack[1].node \in Computeds /\ evalStack' = <<>>
  BY <1>1, <1>t, FirstStays
<1>3. c = evalStack[1].node
  BY <1>1, <1>2, <1>t, ComputedsAreNodes DEF EchoInv, UserApart
<1>4. CASE EvaluateReturn
  <2>1. PICK v : v = Step.value
    OBVIOUS
  <2>2. PICK k \in Nat \ {0} : k = Len(evalStack) /\ Top = evalStack[k]
    BY <1>1, <1>t, StackTop
  <2>3. Len(evalStack) = 1
    <3>1. CASE Len(evalStack) > 1
      <4>1. v \in Values
        BY <1>1, <1>4, <1>t, <2>1, StepTyped DEF EvaluateReturn
      <4>2. evalStack' = [Callers EXCEPT ![Len(Callers)] = Receive(@, v)]
        BY <1>4, <2>1, <3>1 DEF EvaluateReturn
      <4>3. Len(evalStack') = Len(evalStack) - 1
        BY <1>1, <1>t, <3>1, <4>1, <4>2, FramePopped
      <4>4. Len(evalStack') = 0
        BY <1>2
      <4>5. 0 = k - 1 /\ k > 1
        BY <2>2, <3>1, <4>3, <4>4
      <4> QED BY <4>5
    <3> QED BY <2>2, <3>1
  <2>4. Top.node = c
    BY <1>3, <2>2, <2>3
  <2>5. seen' = [seen EXCEPT ![observer] = v] /\ cached' = [cached EXCEPT ![c] = v]
    BY <1>4, <1>t, <2>1, <2>3, <2>4 DEF EvaluateReturn
  <2> QED BY <1>t, <2>5
<1>5. CASE EvaluateThrow
  <2>1. Members(subs'[c]) = Members(subs[c]) \ {observer}
    BY <1>3, <1>5, <1>t, ThrowSubs
  <2> QED BY <2>1
<1>6. CASE Looks
  <2>1. observer' = observer
    BY <1>6 DEF Looks, ReadCell, ReadClean, ReadDirty, Reevaluate
  <2> QED BY <2>1
<1>7. EvaluateReturn \/ EvaluateThrow \/ Looks \/ UNCHANGED cvars
  BY <1>1, StepCases DEF CoreStep, GiveUp, Get, Dispose, Observe, Invalidate, StartRecompute,
     SkipRecompute, FinishRecompute, Recomputing
<1>8. CASE UNCHANGED cvars
  BY <1>8 DEF cvars, computedVars
<1> QED BY <1>4, <1>5, <1>6, <1>7, <1>8

(* The listener called is given the last value there is.                   *)
LEMMA CalledSettles ==
    ASSUME FreshInv, CoreStep, CallListener, NEW c \in Computeds \ (cut \cup slipped), NEW s \in UserSubs,
           s \in Subscribed(c), s = Head(snapshot), pendingValues[c] = <<>>
    PROVE  seen'[s] = cached'[c] \/ Due(c)'
<1>t. /\ EchoInv /\ TypeOK /\ snapshot \in Seq(Subs) /\ seen \in [Subs -> Values] /\ s \in Subs
      /\ c \in Nodes /\ Delivering /\ snapshot # <<>> /\ s \in Subscribed(job.node)
  BY ComputedsAreNodes, SubsAssumption
     DEF FreshInv, EchoInv, RecomputeInv, CTypeOK, TypeOK, CallListener, Active
<1>1. job.node = c /\ job = FlushJob(c)
  BY <1>t, DeliveringJob DEF EchoInv, UserApart
<1>2. InHands(c, s)
  BY <1>1, <1>t, MembersTail DEF InHands
<1>3. delivering = lastNotified[c]
  BY <1>2, <1>t DEF EchoInv, Told, HandedOn, Precedes
<1>4. cached[c] = lastNotified[c] \/ Due(c)
  BY <1>2, <1>t DEF FreshInv, Quiet
<1>5. seen'[s] = delivering
  BY <1>t DEF CallListener
<1>6. UNCHANGED <<cached, lastNotified, recomputeScheduled, abandoned, job>>
  BY DEF CoreStep, CallListener, computedVars, schedulerVars
<1>7. cached'[c] = cached[c] /\ (Due(c) => Due(c)')
  BY <1>6 DEF Due
<1> QED BY <1>3, <1>4, <1>5, <1>7

LEMMA NextSettled == ASSUME WellTyped, FreshInv, [CNext]_cvars PROVE Settled'
<1>t. EchoInv /\ RecomputeInv /\ CTypeOK /\ TypeOK /\ Settled
  BY DEF FreshInv, EchoInv, RecomputeInv, CTypeOK
<1> SUFFICES ASSUME NEW c \in Computeds, c \notin cut', c \notin slipped', NEW s \in UserSubs,
                    s \in Members(subs'[c]), s # observer', pendingValues'[c] = <<>>, ~InHands(c, s)'
             PROVE  seen'[s] = cached'[c] \/ Due(c)'
  BY DEF Settled, Subscribed
<1>1. c \notin cut /\ c \notin slipped /\ c \in Nodes
  BY <1>t, NextWritten, NextForGood, ComputedsAreNodes
<1>2. CASE s \notin Subscribed(c)
  <2>1. Observe(c, s)
    BY <1>2, <1>t, NewSubscriber
  <2>2. ~dirty[c] /\ seen' = [seen EXCEPT ![s] = cached[c]] /\ cached' = cached
    BY <2>1 DEF Observe
  <2> QED BY <1>t, <2>2, SubsAssumption DEF TypeOK
<1>3. CASE s \in Subscribed(c) /\ s = observer
  BY <1>3, <1>t, ObserverServed
<1>4. CASE s \in Subscribed(c) /\ s # observer /\ CallListener /\ s = Head(snapshot)
  <2>1. CASE CoreStep
    <3>1. UNCHANGED pendingValues
      BY <1>4 DEF CallListener, notifierVars
    <3> QED BY <1>1, <1>4, <2>1, <3>1, CalledSettles
  <2>2. CASE ~CoreStep
    <3>1. running = None /\ running' # None
      BY <1>4, SubsAssumption DEF CallListener, Delivering
    <3> QED BY <2>2, <3>1, StepCases, LooksStutters DEF GiveUp, CutOffJobs, Get, Observe, Dispose, Call,
        EvaluateReturn, EvaluateThrow, Invalidate, StartRecompute, SkipRecompute, FinishRecompute,
        cvars, vars, listenerVars
  <2> QED BY <2>1, <2>2
<1>5. CASE s \in Subscribed(c) /\ s # observer /\ ~(CallListener /\ s = Head(snapshot))
  <2>1. seen'[s] = seen[s]
    BY <1>1, <1>5, <1>t, NextSeen
  <2>2. ~OnItsWay(c, s)
    <3>1. s \notin Computeds
      BY ComputedsAreNodes
    <3>2. ~OnItsWay(c, s)'
      BY DEF OnItsWay
    <3> QED BY <1>1, <1>5, <1>t, <3>1, <3>2, NextOnItsWay
  <2>3. ~(Subscribed(c) \subseteq {observer})
    BY <1>5
  <2>4. seen[s] = cached[c] \/ Due(c)
    BY <1>1, <1>5, <1>t, <2>2 DEF Settled, OnItsWay
  <2>5. CASE Due(c)
    BY <1>t, <2>3, <2>5, NextDue
  <2>6. CASE seen[s] = cached[c]
    BY <1>t, <2>1, <2>3, <2>6, NextCached
  <2> QED BY <2>4, <2>5, <2>6
<1> QED BY <1>2, <1>3, <1>4, <1>5
-----------------------------------------------------------------------------
(* What evaluations have read: FramesTrue.                                 *)

(* Sequences that agree as far as k have the same first k elements.        *)
LEMMA Prefix ==
    ASSUME NEW S, NEW q \in Seq(S), NEW k \in Nat, k <= Len(q)
    PROVE  /\ SubSeq(q, 1, k) \in Seq(S) /\ Len(SubSeq(q, 1, k)) = k
           /\ \A i \in 1..k : SubSeq(q, 1, k)[i] = q[i]
<1>1. Len(q) \in Nat /\ \A i \in 1..Len(q) : q[i] \in S
  BY LenProperties, ElementOfSeq
<1>2. \A i \in 1..k : q[i] \in S
  BY <1>1
<1>3. /\ SubSeq(q, 1, k) \in Seq(S) /\ Len(SubSeq(q, 1, k)) = IF 1 <= k THEN k - 1 + 1 ELSE 0
      /\ \A i \in 1..(k - 1 + 1) : SubSeq(q, 1, k)[i] = q[1 + i - 1]
  BY <1>2, SubSeqProperties
<1> QED BY <1>3

LEMMA SamePrefix ==
    ASSUME NEW S, NEW q \in Seq(S), NEW r \in Seq(S), NEW k \in Nat, k <= Len(q), k <= Len(r),
           \A i \in 1..k : q[i] = r[i]
    PROVE  SubSeq(q, 1, k) = SubSeq(r, 1, k)
<1>1. /\ SubSeq(q, 1, k) \in Seq(S) /\ Len(SubSeq(q, 1, k)) = k
      /\ \A i \in 1..k : SubSeq(q, 1, k)[i] = q[i]
  BY Prefix
<1>2. /\ SubSeq(r, 1, k) \in Seq(S) /\ Len(SubSeq(r, 1, k)) = k
      /\ \A i \in 1..k : SubSeq(r, 1, k)[i] = r[i]
  BY Prefix
<1> QED BY <1>1, <1>2, SeqEqual

(* Reads that go on from those of before.                                  *)
LEMMA PrefixAppend ==
    ASSUME NEW S, NEW q \in Seq(S), NEW v \in S
    PROVE  /\ Append(q, v) \in Seq(S) /\ Len(Append(q, v)) = Len(q) + 1 /\ Len(q) \in Nat
           /\ Append(q, v)[Len(q) + 1] = v
           /\ \A j \in 1..Len(q) : /\ Append(q, v)[j] = q[j]
                                   /\ SubSeq(Append(q, v), 1, j - 1) = SubSeq(q, 1, j - 1)
           /\ SubSeq(Append(q, v), 1, Len(q)) = q
<1> DEFINE a == Append(q, v)
<1>1. /\ a \in Seq(S) /\ Len(a) = Len(q) + 1 /\ Len(q) \in Nat /\ a[Len(q) + 1] = v
      /\ \A j \in 1..Len(q) : a[j] = q[j]
  BY AppendProperties, LenProperties
<1> HIDE DEF a
<1>2. ASSUME NEW j \in 1..Len(q) PROVE SubSeq(a, 1, j - 1) = SubSeq(q, 1, j - 1)
  <2>1. /\ j - 1 \in Nat /\ j - 1 <= Len(q) /\ j - 1 <= Len(a)
        /\ \A i \in 1..(j - 1) : i \in 1..Len(q)
    BY <1>1
  <2>2. \A i \in 1..(j - 1) : a[i] = q[i]
    BY <1>1, <2>1
  <2> QED BY <1>1, <2>1, <2>2, SamePrefix
<1>3. SubSeq(a, 1, Len(q)) = SubSeq(q, 1, Len(q))
  <2>1. Len(q) <= Len(q) /\ Len(q) <= Len(a)
    BY <1>1
  <2> QED BY <1>1, <2>1, SamePrefix
<1> QED BY <1>1, <1>2, <1>3, SubSeqFull DEF a

(* What the running read function is about to do.                          *)
LEMMA StepRead ==
    ASSUME WellTyped, CTypeOK, ~Idle
    PROVE  /\ Step.do = "read" => Step = Reading(Step.node)
           /\ Step.do = "return" => Step = Returning(Step.value)
<1>1. Top.node \in Computeds /\ Top.reads \in Seq(Values)
  BY StackTop DEF Frames
<1> QED BY <1>1 DEF WellTyped, TypedOn, Step, Throwing, Reading, Returning

(* What is witnessed stays so as long as what is clean stays as it is.     *)
Kept ==
    /\ \A n \in Cells : value'[n] = value[n]
    /\ \A n \in Computeds : ~dirty[n] => cached'[n] = cached[n] /\ ~dirty'[n]

LEMMA WitnessStays ==
    ASSUME Kept, NEW f \in Frames, NEW g \in Frames, Witnessed(f),
           g.node = f.node, g.reads = f.reads, f.tracked \subseteq g.tracked
    PROVE  Witnessed(g)'
<1>1. f.tracked \subseteq Cells \cup Computeds /\ Cells \cap Computeds = {}
  BY ComputedsAssumption DEF Frames
<1>2. ASSUME NEW j \in 1..Len(f.reads)
      PROVE  \E n \in g.tracked : /\ Program(g.node, SubSeq(g.reads, 1, j - 1)) = Reading(n)
                                  /\ Holds(n, g.reads[j])' /\ (n \in Computeds => ~dirty'[n])
  <2>1. PICK n \in f.tracked : /\ Program(f.node, SubSeq(f.reads, 1, j - 1)) = Reading(n)
                               /\ Holds(n, f.reads[j]) /\ (n \in Computeds => ~dirty[n])
    BY DEF Witnessed
  <2>2. Holds(n, f.reads[j])' /\ (n \in Computeds => ~dirty'[n])
    BY <1>1, <2>1 DEF Holds, Kept
  <2> QED BY <2>1, <2>2
<1> QED BY <1>2 DEF Witnessed

(* One more read.                                                          *)
LEMMA WitnessMore ==
    ASSUME NEW f \in Frames, Witnessed(f)', NEW v \in Values, NEW n \in f.tracked,
           Program(f.node, f.reads) = Reading(n), Holds(n, v)', n \in Computeds => ~dirty'[n]
    PROVE  Witnessed(Receive(f, v))'
<1> PICK g \in Frames : g = Receive(f, v)
  BY FrameSteps
<1>1. g.node = f.node /\ g.reads = Append(f.reads, v) /\ g.tracked = f.tracked /\ f.reads \in Seq(Values)
  BY FrameSteps DEF Frames
<1>2. ASSUME NEW j \in 1..Len(g.reads)
      PROVE  \E m \in g.tracked : /\ Program(g.node, SubSeq(g.reads, 1, j - 1)) = Reading(m)
                                  /\ Holds(m, g.reads[j])' /\ (m \in Computeds => ~dirty'[m])
  <2>1. CASE j \in 1..Len(f.reads)
    <3>1. g.reads[j] = f.reads[j] /\ SubSeq(g.reads, 1, j - 1) = SubSeq(f.reads, 1, j - 1)
      BY <1>1, <2>1, PrefixAppend
    <3> QED BY <1>1, <2>1, <3>1 DEF Witnessed
  <2>2. CASE j = Len(f.reads) + 1
    <3>1. j - 1 = Len(f.reads)
      BY <1>1, <2>2, LenProperties
    <3>2. g.reads[j] = v /\ SubSeq(g.reads, 1, j - 1) = f.reads
      BY <1>1, <2>2, <3>1, PrefixAppend
    <3> QED BY <1>1, <3>2
  <2>3. j \in 1..Len(f.reads) \/ j = Len(f.reads) + 1
    BY <1>1, PrefixAppend
  <2> QED BY <2>1, <2>2, <2>3
<1>3. Witnessed(g)'
  BY <1>2 DEF Witnessed
<1> QED BY <1>3

(* The stack when nothing is being evaluated, or has just begun to be.     *)
LEMMA FramesNone == ASSUME evalStack' = <<>> PROVE FramesTrue'
BY DEF FramesTrue

LEMMA FramesOne ==
    ASSUME NEW c \in Computeds, evalStack' = <<Frame(c)>> PROVE FramesTrue'
<1> PICK f \in Frames : f = Frame(c)
  BY NewFrame
<1>1. f.reads = <<>>
  BY NewFrame
<1>2. Witnessed(f)'
  BY <1>1 DEF Witnessed
<1>3. Len(evalStack') = 1 /\ evalStack'[1] = f
  OBVIOUS
<1> QED BY <1>2, <1>3 DEF FramesTrue

(* The evaluations below the innermost one, when what is clean stays so.   *)
LEMMA FramesBelow ==
    ASSUME FreshInv, ~Idle, Kept
    PROVE  /\ \A i \in 1..Len(evalStack) : \A g \in Frames : g = evalStack[i] => Witnessed(g)'
           /\ \A i \in 1..(Len(evalStack) - 1) : WaitsFor(evalStack[i], evalStack[i + 1].node)
           /\ Len(evalStack) \in Nat \ {0}
<1>1. CTypeOK /\ FramesTrue
  BY DEF FreshInv, EchoInv, RecomputeInv
<1>2. ASSUME NEW i \in 1..Len(evalStack), NEW g \in Frames, g = evalStack[i] PROVE Witnessed(g)'
  <2>1. Witnessed(g)
    BY <1>1, <1>2 DEF FramesTrue
  <2> QED BY <2>1, WitnessStays
<1> QED BY <1>1, <1>2, StackTop DEF FramesTrue

(* The innermost evaluation has read n.                                    *)
LEMMA FramesRead ==
    ASSUME WellTyped, FreshInv, NEW n \in Nodes, ReadsNode(n), Kept, NEW v \in Values,
           Holds(n, v)', n \in Computeds => ~dirty'[n],
           evalStack' = Append(Callers, Receive(Track(Top, n), v))
    PROVE  FramesTrue'
<1>t. CTypeOK /\ ~Idle
  BY DEF FreshInv, EchoInv, RecomputeInv, ReadsNode
<1> PICK k \in Nat \ {0} : k = Len(evalStack)
  BY <1>t, StackTop
<1> PICK t \in Frames : t = evalStack[k] /\ t = Top
  BY <1>t, StackTop
<1> PICK g \in Frames : g = Track(t, n)
  BY FrameSteps
<1> PICK f \in Frames : f = Receive(g, v)
  BY FrameSteps
<1>1. /\ g.node = t.node /\ g.reads = t.reads /\ g.tracked = t.tracked \cup {n} /\ f.node = g.node
  BY FrameSteps
<1>2. /\ Len(evalStack') = k /\ evalStack'[k] = f
      /\ \A i \in 1..(k - 1) : evalStack'[i] = evalStack[i]
  BY <1>t, TopReplaced
<1>3. Program(t.node, t.reads) = Reading(n)
  BY <1>t, StepRead DEF ReadsNode, Step
<1>4. /\ \A i \in 1..k : \A h \in Frames : h = evalStack[i] => Witnessed(h)'
      /\ \A i \in 1..(k - 1) : WaitsFor(evalStack[i], evalStack[i + 1].node)
  BY <1>t, FramesBelow
<1>5. Witnessed(t)
  <2>1. k \in 1..Len(evalStack) /\ \A i \in 1..Len(evalStack) : Witnessed(evalStack[i])
    BY DEF FreshInv, FramesTrue
  <2>2. Witnessed(evalStack[k])
    BY <2>1
  <2> QED BY <2>2
<1>6. Witnessed(g)'
  BY <1>1, <1>5, WitnessStays
<1>7. Witnessed(f)'
  BY <1>1, <1>3, <1>6, WitnessMore
<1>8. /\ \A i \in 1..k : i = k \/ i \in 1..(k - 1)
      /\ \A i \in 1..(k - 1) : i \in 1..k /\ (i + 1 = k \/ i + 1 \in 1..(k - 1))
  OBVIOUS
<1>9. \A i \in 1..(k - 1) : evalStack[i] \in Frames
  BY <1>t, <1>8, StackTop
<1>10. ASSUME NEW i \in 1..k PROVE Witnessed(evalStack[i])'
  <2>1. CASE i = k
    BY <1>2, <1>7, <2>1
  <2>2. CASE i \in 1..(k - 1)
    <3> PICK h \in Frames : h = evalStack[i]
      BY <1>9, <2>2
    <3>1. Witnessed(h)'
      BY <1>4
    <3>2. h = evalStack'[i]
      BY <1>2, <2>2
    <3> QED BY <3>1, <3>2
  <2> QED BY <1>8, <2>1, <2>2
<1>11. ASSUME NEW i \in 1..(k - 1) PROVE WaitsFor(evalStack[i], evalStack[i + 1].node)'
  <2>1. evalStack'[i] = evalStack[i] /\ evalStack'[i + 1].node = evalStack[i + 1].node
    BY <1>1, <1>2, <1>8
  <2>2. WaitsFor(evalStack[i], evalStack[i + 1].node)
    BY <1>4
  <2> QED BY <2>1, <2>2 DEF WaitsFor
<1> QED BY <1>2, <1>10, <1>11 DEF FramesTrue

(* The innermost evaluation waits for that of n.                           *)
LEMMA FramesNested ==
    ASSUME WellTyped, FreshInv, NEW n \in Computeds, ReadDirty(n) PROVE FramesTrue'
<1>t. CTypeOK /\ ~Idle /\ n \in Nodes /\ Kept
  BY ComputedsAreNodes DEF FreshInv, EchoInv, RecomputeInv, ReadDirty, ReadsNode, Kept, vars
<1> PICK k \in Nat \ {0} : k = Len(evalStack)
  BY <1>t, StackTop
<1> PICK t \in Frames : t = evalStack[k] /\ t = Top
  BY <1>t, StackTop
<1> PICK f \in Frames : f = Track(t, n)
  BY <1>t, FrameSteps
<1> PICK g \in Frames : g = Frame(n)
  BY NewFrame
<1>1. /\ f.node = t.node /\ f.reads = t.reads /\ f.tracked = t.tracked \cup {n}
      /\ g.node = n /\ g.reads = <<>>
  BY <1>t, FrameSteps, NewFrame
<1>2. evalStack' = Callers \o <<f, g>>
  BY DEF ReadDirty
<1>3. /\ Len(evalStack') = k + 1 /\ evalStack'[k] = f /\ evalStack'[k + 1] = g
      /\ \A i \in 1..(k - 1) : evalStack'[i] = evalStack[i]
  BY <1>t, <1>2, FramePushed
<1>4. Program(t.node, t.reads) = Reading(n)
  BY <1>t, StepRead DEF ReadDirty, ReadsNode, Step
<1>5. /\ \A i \in 1..k : \A h \in Frames : h = evalStack[i] => Witnessed(h)'
      /\ \A i \in 1..(k - 1) : WaitsFor(evalStack[i], evalStack[i + 1].node)
  BY <1>t, FramesBelow
<1>6. Witnessed(t)
  <2>1. k \in 1..Len(evalStack) /\ \A i \in 1..Len(evalStack) : Witnessed(evalStack[i])
    BY DEF FreshInv, FramesTrue
  <2>2. Witnessed(evalStack[k])
    BY <2>1
  <2> QED BY <2>2
<1>7. Witnessed(f)'
  BY <1>1, <1>6, <1>t, WitnessStays
<1>8. Witnessed(g)'
  BY <1>1 DEF Witnessed
<1>9. /\ \A i \in 1..(k + 1) : i = k + 1 \/ i = k \/ i \in 1..(k - 1)
      /\ \A i \in 1..k : i = k \/ i \in 1..(k - 1)
      /\ \A i \in 1..(k - 1) : i \in 1..k /\ (i + 1 = k \/ i + 1 \in 1..(k - 1))
  OBVIOUS
<1>10. \A i \in 1..(k - 1) : evalStack[i] \in Frames
  BY <1>t, <1>9, StackTop
<1>11. ASSUME NEW i \in 1..(k + 1) PROVE Witnessed(evalStack[i])'
  <2>1. CASE i = k \/ i = k + 1
    BY <1>3, <1>7, <1>8, <2>1
  <2>2. CASE i \in 1..(k - 1)
    <3> PICK h \in Frames : h = evalStack[i]
      BY <1>10, <2>2
    <3>1. Witnessed(h)'
      BY <1>5, <1>9, <2>2
    <3>2. h = evalStack'[i]
      BY <1>3, <2>2
    <3> QED BY <3>1, <3>2
  <2> QED BY <1>9, <2>1, <2>2
<1>12. ASSUME NEW i \in 1..k PROVE WaitsFor(evalStack[i], evalStack[i + 1].node)'
  <2>1. CASE i = k
    <3>1. evalStack'[i] = f /\ evalStack'[i + 1].node = n
      BY <1>1, <1>3, <2>1
    <3> QED BY <1>1, <1>4, <3>1 DEF WaitsFor
  <2>2. CASE i \in 1..(k - 1)
    <3>1. evalStack'[i] = evalStack[i] /\ evalStack'[i + 1].node = evalStack[i + 1].node
      BY <1>1, <1>3, <1>9, <2>2
    <3>2. WaitsFor(evalStack[i], evalStack[i + 1].node)
      BY <1>5, <2>2
    <3> QED BY <3>1, <3>2 DEF WaitsFor
  <2> QED BY <1>9, <2>1, <2>2
<1> QED BY <1>3, <1>11, <1>12 DEF FramesTrue

(* What an evaluation that ends does to what is held.                      *)
LEMMA ReturnHolds ==
    ASSUME WellTyped, RecomputeInv, EvaluateReturn
    PROVE  /\ Kept /\ Step.value \in Values
           /\ ~dirty'[Top.node] /\ cached'[Top.node] = Step.value /\ deps'[Top.node] = Top.tracked
           /\ \A c \in Computeds : c # Top.node => UNCHANGED <<dirty[c], cached[c], deps[c]>>
<1> PICK x \in Computeds : x = Top.node /\ dirty[x]
  BY ReturnSubs
<1> PICK v : v = Step.value
  OBVIOUS
<1>t. /\ cached \in [Computeds -> Values] /\ dirty \in [Computeds -> BOOLEAN]
      /\ deps \in [Computeds -> SUBSET Nodes] /\ CTypeOK /\ ~Idle
  BY DEF RecomputeInv, CTypeOK, EvaluateReturn
<1>1. v \in Values
  BY <1>t, StepTyped DEF EvaluateReturn
<1>2. /\ cached' = [cached EXCEPT ![x] = v] /\ dirty' = [dirty EXCEPT ![x] = FALSE]
      /\ deps' = [deps EXCEPT ![x] = Top.tracked] /\ UNCHANGED value
  BY DEF EvaluateReturn
<1>3. /\ ~dirty'[x] /\ cached'[x] = v /\ deps'[x] = Top.tracked
      /\ \A c \in Computeds : c # x => UNCHANGED <<dirty[c], cached[c], deps[c]>>
  BY <1>t, <1>2
<1>4. Kept
  BY <1>2, <1>3 DEF Kept
<1> QED BY <1>1, <1>3, <1>4

(* The innermost evaluation returns to the one that waits for it.          *)
LEMMA FramesReturn == ASSUME WellTyped, FreshInv, EvaluateReturn PROVE FramesTrue'
<1>t. CTypeOK /\ ~Idle /\ RecomputeInv
  BY DEF FreshInv, EchoInv, RecomputeInv, EvaluateReturn
<1> PICK k \in Nat \ {0} : k = Len(evalStack)
  BY <1>t, StackTop
<1>1. CASE k = 1
  BY <1>1, FramesNone DEF EvaluateReturn
<1>2. CASE k > 1
  <2> PICK x \in Computeds : x = Top.node /\ x = evalStack[k].node
    BY <1>t, ReturnSubs, StackTop
  <2> PICK v \in Values : v = Step.value
    BY <1>t, ReturnHolds
  <2>1. Kept /\ ~dirty'[x] /\ cached'[x] = v
    BY <1>t, ReturnHolds
  <2>2. k - 1 \in 1..k /\ k - 1 \in 1..(k - 1) /\ k - 1 + 1 = k
    BY <1>2
  <2> PICK f \in Frames : f = evalStack[k - 1]
    BY <1>t, <2>2, StackTop
  <2> PICK g \in Frames : g = Receive(f, v)
    BY FrameSteps
  <2>3. g.node = f.node
    BY FrameSteps
  <2>4. evalStack' = [Callers EXCEPT ![Len(Callers)] = Receive(@, v)]
    BY <1>2 DEF EvaluateReturn
  <2>5. /\ Len(evalStack') = k - 1 /\ evalStack'[k - 1] = g
        /\ \A i \in 1..(k - 2) : evalStack'[i] = evalStack[i]
    BY <1>2, <1>t, <2>4, FramePopped
  <2>6. /\ \A i \in 1..k : \A h \in Frames : h = evalStack[i] => Witnessed(h)'
        /\ \A i \in 1..(k - 1) : WaitsFor(evalStack[i], evalStack[i + 1].node)
    BY <1>t, <2>1, FramesBelow
  <2>7. Program(f.node, f.reads) = Reading(x) /\ x \in f.tracked
    BY <2>2, <2>6 DEF WaitsFor
  <2>8. Holds(x, v)'
    BY <2>1, ComputedsAreNodes DEF Holds
  <2>9. Witnessed(g)'
    <3>1. Witnessed(f)'
      BY <2>2, <2>6
    <3> QED BY <2>1, <2>7, <2>8, <3>1, WitnessMore
  <2>10. /\ \A i \in 1..(k - 1) : i = k - 1 \/ i \in 1..(k - 2)
         /\ \A i \in 1..(k - 2) : i \in 1..k /\ i \in 1..(k - 1) /\ (i + 1 = k - 1 \/ i + 1 \in 1..(k - 2))
    OBVIOUS
  <2>11. \A i \in 1..(k - 2) : evalStack[i] \in Frames
    BY <1>t, <2>10, StackTop
  <2>12. ASSUME NEW i \in 1..(k - 1) PROVE Witnessed(evalStack[i])'
    <3>1. CASE i = k - 1
      BY <2>5, <2>9, <3>1
    <3>2. CASE i \in 1..(k - 2)
      <4> PICK h \in Frames : h = evalStack[i]
        BY <2>11, <3>2
      <4>1. Witnessed(h)'
        BY <2>6, <2>10, <3>2
      <4>2. h = evalStack'[i]
        BY <2>5, <3>2
      <4> QED BY <4>1, <4>2
    <3> QED BY <2>10, <3>1, <3>2
  <2>13. ASSUME NEW i \in 1..(k - 2) PROVE WaitsFor(evalStack[i], evalStack[i + 1].node)'
    <3>1. evalStack'[i] = evalStack[i] /\ evalStack'[i + 1].node = evalStack[i + 1].node
      BY <2>3, <2>5, <2>10
    <3>2. WaitsFor(evalStack[i], evalStack[i + 1].node)
      BY <2>6, <2>10
    <3> QED BY <3>1, <3>2 DEF WaitsFor
  <2>14. Len(evalStack') - 1 = k - 2
    BY <2>5
  <2> QED BY <2>5, <2>12, <2>13, <2>14 DEF FramesTrue
<1> QED BY <1>1, <1>2
LEMMA NextFrames == ASSUME WellTyped, FreshInv, [CNext]_cvars PROVE FramesTrue'
<1>t. /\ RecomputeInv /\ CTypeOK /\ value \in [Cells -> Values] /\ cached \in [Computeds -> Values]
      /\ JobsKnown /\ FramesTrue
  BY DEF FreshInv, EchoInv, RecomputeInv, CTypeOK, TypeOK
<1>1. ASSUME NEW n \in Cells, ReadCell(n) PROVE FramesTrue'
  <2>1. n \in Nodes /\ ReadsNode(n) /\ Kept /\ n \notin Computeds
    BY <1>1, ComputedsAreNodes DEF ReadCell, Kept, vars
  <2>2. PICK v \in Values : v = value[n]
    BY <1>t
  <2>3. Holds(n, v)' /\ evalStack' = Append(Callers, Receive(Track(Top, n), v))
    BY <1>1, <2>2 DEF ReadCell, Holds, vars
  <2> QED BY <2>1, <2>3, FramesRead
<1>2. ASSUME NEW n \in Computeds, ReadClean(n) PROVE FramesTrue'
  <2>1. n \in Nodes /\ ReadsNode(n) /\ Kept /\ n \notin Cells /\ ~dirty'[n]
    BY <1>2, ComputedsAreNodes DEF ReadClean, Kept, vars
  <2>2. PICK v \in Values : v = cached[n]
    BY <1>t
  <2>3. Holds(n, v)' /\ evalStack' = Append(Callers, Receive(Track(Top, n), v))
    BY <1>2, <2>1, <2>2 DEF ReadClean, Holds
  <2> QED BY <2>1, <2>3, FramesRead
<1>3. CASE Reevaluate
  BY <1>3, <1>t, FramesOne DEF Reevaluate, Recomputing, JobsKnown
<1>4. ASSUME NEW c \in Computeds, Get(c) PROVE FramesTrue'
  BY <1>4, FramesOne DEF Get
<1>5. ASSUME NEW c \in Computeds, NEW s \in UserSubs, Observe(c, s) PROVE FramesTrue'
  BY <1>5, FramesOne, FramesNone DEF Observe, Idle
<1>6. CASE evalStack' = <<>>
  BY <1>6, FramesNone
<1>7. CASE UNCHANGED cvars
  BY <1>7, <1>t DEF FramesTrue, Witnessed, WaitsFor, Holds, cvars, computedVars, vars
<1>8. \/ evalStack' = <<>> \/ UNCHANGED cvars \/ EvaluateReturn \/ Reevaluate
      \/ (\E n \in Cells : ReadCell(n)) \/ \E n \in Computeds : ReadClean(n) \/ ReadDirty(n)
      \/ (\E c \in Computeds : Get(c)) \/ \E c \in Computeds, s \in UserSubs : Observe(c, s)
  BY StepCases DEF CoreStep, Looks, GiveUp, Dispose, EvaluateThrow, Invalidate, StartRecompute, SkipRecompute,
     FinishRecompute, Recomputing, computedVars, Idle
<1> QED BY <1>1, <1>2, <1>3, <1>4, <1>5, <1>6, <1>7, <1>8, FramesNested, FramesReturn
-----------------------------------------------------------------------------
(* The value of a clean computed: Traced.                                  *)

(* Only the evaluation that returns makes a computed clean, or gives a     *)
(* clean one another value.                                                *)
LEMMA NextClean ==
    ASSUME WellTyped, RecomputeInv, [CNext]_cvars, NEW c \in Computeds, ~dirty'[c]
    PROVE  \/ EvaluateReturn /\ c = Top.node /\ dirty[c]
           \/ ~dirty[c] /\ cached'[c] = cached[c] /\ deps'[c] = deps[c]
<1>t. /\ dirty \in [Computeds -> BOOLEAN] /\ deps \in [Computeds -> SUBSET Nodes]
  BY DEF RecomputeInv, CTypeOK
<1>1. CASE EvaluateReturn
  <2>1. dirty[Top.node]
    BY <1>1, ReturnSubs
  <2>2. CASE c # Top.node
    BY <1>1, <2>2, ReturnHolds
  <2> QED BY <1>1, <2>1, <2>2
<1>2. ASSUME NEW x \in Computeds, Dispose(x)
      PROVE  ~dirty[c] /\ cached'[c] = cached[c] /\ deps'[c] = deps[c]
  <2>1. UNCHANGED cached /\ dirty' = [dirty EXCEPT ![x] = TRUE] /\ deps' = [deps EXCEPT ![x] = {}]
    BY <1>2 DEF Dispose
  <2>2. c # x
    BY <1>t, <2>1
  <2> QED BY <1>t, <2>1, <2>2
<1>3. CASE Invalidate
  <2>1. PICK x \in Computeds : dirty' = [dirty EXCEPT ![x] = TRUE]
    BY <1>3 DEF Invalidate
  <2>2. UNCHANGED <<cached, deps>> /\ c # x
    BY <1>3, <1>t, <2>1 DEF Invalidate
  <2> QED BY <1>t, <2>1, <2>2
<1>4. CASE UNCHANGED <<dirty, cached, deps>>
  BY <1>4
<1>5. EvaluateReturn \/ (\E x \in Computeds : Dispose(x)) \/ Invalidate \/ UNCHANGED <<dirty, cached, deps>>
  BY StepCases DEF CoreStep, Looks, ReadCell, ReadClean, ReadDirty, Reevaluate, GiveUp, Get, Observe,
     EvaluateThrow, StartRecompute, SkipRecompute, FinishRecompute, cvars, computedVars
<1> QED BY <1>1, <1>2, <1>3, <1>4, <1>5

LEMMA NextTraced == ASSUME WellTyped, FreshInv, [CNext]_cvars PROVE Traced'
<1>t. EchoInv /\ RecomputeInv /\ CTypeOK /\ Traced /\ FramesTrue
  BY DEF FreshInv, EchoInv, RecomputeInv
<1> SUFFICES ASSUME NEW c \in Computeds, ~dirty'[c] PROVE \E reads \in Seq(Values) : Traces(c, reads)'
  BY DEF Traced
<1>1. CASE ~dirty[c] /\ cached'[c] = cached[c] /\ deps'[c] = deps[c]
  <2>1. PICK reads \in Seq(Values) : Traces(c, reads)
    BY <1>1, <1>t DEF Traced
  <2>2. ASSUME NEW j \in 1..Len(reads)
        PROVE  \E n \in deps'[c] : Program(c, SubSeq(reads, 1, j - 1)) = Reading(n) /\ Tells(n, c, reads[j])'
    <3>1. PICK n \in deps[c] : Program(c, SubSeq(reads, 1, j - 1)) = Reading(n) /\ Tells(n, c, reads[j])
      BY <2>1 DEF Traces
    <3> PICK v : v = reads[j]
      OBVIOUS
    <3>2. Tells(n, c, v)'
      BY <1>1, <1>t, <3>1, NextTells
    <3> QED BY <1>1, <3>1, <3>2
  <2>3. Program(c, reads) = Returning(cached'[c])
    BY <1>1, <2>1 DEF Traces
  <2>4. Traces(c, reads)'
    BY <2>2, <2>3 DEF Traces
  <2> QED BY <2>4
<1>2. CASE EvaluateReturn /\ c = Top.node /\ dirty[c]
  <2>1. ~Idle /\ Step.do = "return"
    BY <1>2 DEF EvaluateReturn
  <2> PICK k \in Nat \ {0} : k = Len(evalStack)
    BY <1>t, <2>1, StackTop
  <2> PICK f \in Frames : f = evalStack[k] /\ f = Top
    BY <1>t, <2>1, StackTop
  <2> PICK v \in Values : v = Step.value
    BY <1>2, <1>t, ReturnHolds
  <2>2. f.node = c /\ Program(c, f.reads) = Returning(v) /\ f.reads \in Seq(Values) /\ f.tracked \subseteq Nodes
    BY <1>2, <1>t, <2>1, StepRead DEF Step, Frames
  <2>3. Kept /\ cached'[c] = v /\ deps'[c] = f.tracked
    BY <1>2, <1>t, ReturnHolds
  <2>4. Witnessed(f)
    <3>1. k \in 1..Len(evalStack) /\ \A i \in 1..Len(evalStack) : Witnessed(evalStack[i])
      BY <1>t DEF FramesTrue
    <3>2. Witnessed(evalStack[k])
      BY <3>1
    <3> QED BY <3>2
  <2>5. Witnessed(f)'
    BY <2>3, <2>4, WitnessStays
  <2>6. ASSUME NEW j \in 1..Len(f.reads)
        PROVE  \E n \in deps'[c] : Program(c, SubSeq(f.reads, 1, j - 1)) = Reading(n) /\ Tells(n, c, f.reads[j])'
    <3>1. PICK n \in f.tracked : Program(f.node, SubSeq(f.reads, 1, j - 1)) = Reading(n) /\ Holds(n, f.reads[j])'
      BY <2>5 DEF Witnessed
    <3> QED BY <2>2, <2>3, <3>1 DEF Tells
  <2> PICK reads \in Seq(Values) : reads = f.reads
    BY <2>2
  <2>7. Traces(c, reads)'
    BY <2>2, <2>3, <2>6 DEF Traces
  <2> QED BY <2>7
<1> QED BY <1>1, <1>2, <1>t, NextClean
-----------------------------------------------------------------------------
(* FreshInv is an invariant.                                               *)
LEMMA InitFresh ==
    ASSUME CInit
    PROVE  FlushFirst(pendingJobs) /\ RunsAlone /\ Quiet /\ Settled /\ Traced /\ FramesTrue
<1>1. /\ pendingJobs = <<>> /\ job = None /\ evalStack = <<>>
      /\ \A c \in Computeds : cached[c] = lastNotified[c] /\ dirty[c]
      /\ \A n \in Nodes : Subscribed(n) = {}
  BY MembersEmpty DEF CInit, Init, Subscribed
<1>2. FlushFirst(pendingJobs) /\ RunsAlone /\ Quiet /\ Traced
  BY <1>1, RecomputeJobType DEF FlushFirst, RunsAlone, Quiet, Traced
<1>3. Settled
  BY <1>1, ComputedsAreNodes DEF Settled
<1>4. FramesTrue
  BY <1>1 DEF FramesTrue
<1> QED BY <1>2, <1>3, <1>4

LEMMA FreshInvKept == ASSUME WellTyped PROVE CSpec => []FreshInv
<1>1. CInit /\ EchoInv => FreshInv
  BY InitFresh DEF FreshInv
<1>2. FreshInv /\ [CNext]_cvars /\ EchoInv' => FreshInv'
  <2> SUFFICES ASSUME FreshInv, [CNext]_cvars, EchoInv' PROVE FreshInv'
    OBVIOUS
  <2>1. /\ FlushFirst(pendingJobs)' /\ RunsAlone' /\ Quiet' /\ Settled' /\ Traced' /\ FramesTrue'
    BY NextFlushFirst, NextRunsAlone, NextQuiet, NextSettled, NextTraced, NextFrames
  <2> QED BY <2>1 DEF FreshInv
<1> QED BY <1>1, <1>2, EchoInvKept, PTL DEF CSpec
-----------------------------------------------------------------------------
(* At rest: Fresh.                                                         *)

(* Of the natural numbers of a set one is the least: strict inclusion of   *)
(* intervals is well-founded.  Inductions below take a least               *)
(* counterexample.                                                         *)
LEMMA LeastNatural ==
    ASSUME NEW T \in SUBSET Nat, T # {}
    PROVE  \E n \in T : \A m \in T : n <= m
<1> DEFINE U == {0..n : n \in T}
           R == StrictSubsetOrdering(Nat)
           S == FiniteSubsetsOf(Nat)
<1>1. IsWellFoundedOn(R, S)
  BY FS_StrictSubsetOrderingWellFounded
<1>2. U \subseteq S /\ U # {}
  <2>1. ASSUME NEW n \in T PROVE 0..n \in S
    <3>1. 0..n \subseteq Nat
      BY SMT
    <3>2. IsFiniteSet(0..n)
      BY FS_Interval
    <3> QED BY <3>1, <3>2 DEF FiniteSubsetsOf
  <2> QED BY <2>1
<1>3. PICK u \in U : \A v \in U : ~(<<v, u>> \in R)
  <2> HIDE DEF U, R, S
  <2> QED BY <1>1, <1>2, WFMin
<1>4. PICK n \in T : u = 0..n
  OBVIOUS
<1>5. ASSUME NEW m \in T, m < n PROVE FALSE
  <2>1. 0..m \subseteq 0..n /\ 0..m # 0..n /\ 0..n \subseteq Nat
    BY <1>5, SMT
  <2>2. <<0..m, 0..n>> \in R
    BY <2>1 DEF StrictSubsetOrdering
  <2> QED BY <1>3, <1>4, <2>2
<1> QED BY <1>5, SMT

(* Nothing is under way when the library is at rest.                       *)
LEMMA RestIsQuiet ==
    ASSUME FreshInv, AtRest, cut = {}, abandoned = {}, slipped = {}
    PROVE  /\ observer = None
           /\ \A n \in Nodes : pendingValues[n] = <<>> /\ \A s : ~InHands(n, s)
           /\ \A c \in Computeds : ~Due(c) /\ (dirty[c] => Subscribed(c) = {})
<1>t. NoLostWakeup /\ Phases /\ FlushesNow /\ Flags /\ Owed /\ Observing /\ Idle
  BY DEF FreshInv, EchoInv, RecomputeInv, AtRest, Quiescent, FlushesNow
<1>1. job = None /\ pendingJobs = <<>> /\ observer = None
  BY <1>t DEF Phases, FlushesNow, Observing
<1>2. \A n \in Nodes : pendingValues[n] = <<>> /\ \A s : ~InHands(n, s)
  BY <1>1, <1>t, NothingQueuedAtRest, FlushJobType DEF InHands
<1>3. ASSUME NEW c \in Computeds PROVE ~recomputeScheduled[c] /\ job # RecomputeJob(c)
  BY <1>1, <1>t, MembersEmpty, RecomputeJobType DEF Flags
<1>4. ASSUME NEW c \in Computeds PROVE ~Due(c) /\ (dirty[c] => Subscribed(c) = {})
  BY <1>1, <1>3, <1>t DEF Due, Owed, Awaiting
<1> QED BY <1>1, <1>2, <1>4

(* Read functions compute Meaning.                                         *)
Grounded == GroundedOn(Seq(Values), Nat)

(* What a computed follows holds what it was told, and is clean.           *)
LEMMA RestTells ==
    ASSUME FreshInv, AtRest, cut = {}, abandoned = {}, slipped = {},
           NEW c \in Computeds, NEW n \in deps[c], NEW v, Tells(n, c, v),
           n \in Computeds => ~disposed[n]
    PROVE  n \in Nodes /\ Holds(n, v) /\ (n \in Computeds => ~dirty[n])
<1>1. n \in Nodes /\ (n \in Computeds => c \in Subscribed(n))
  BY DEF FreshInv, EchoInv, RecomputeInv, CTypeOK, ListensToDependencies
<1>2. n \in Computeds => ~dirty[n] /\ ~Due(n)
  BY <1>1, RestIsQuiet
<1>3. pendingValues[n] = <<>> /\ ~InHands(n, c)
  BY <1>1, RestIsQuiet
<1> QED BY <1>1, <1>2, <1>3 DEF Tells

(* At rest, the clean computeds among those that follow each other hold    *)
(* what they mean.  Of those that do not take one that reads none of the   *)
(* others; of what it has read take the first that is not true.            *)
LEMMA RestIsTrue ==
    ASSUME Grounded, FreshInv, AtRest, cut = {}, abandoned = {}, slipped = {},
           NEW within \in SUBSET Computeds,
           \A x \in within : ~disposed[x] /\ deps[x] \cap Computeds \subseteq within
    PROVE  \A c \in within : ~dirty[c] => cached[c] = Meaning(c, value)
<1>t. /\ Traced /\ value \in [Cells -> Values] /\ cached \in [Computeds -> Values]
      /\ deps \in [Computeds -> SUBSET Nodes]
  BY DEF FreshInv, EchoInv, RecomputeInv, CTypeOK, TypeOK
<1> PICK rank \in [Computeds -> Nat] :
      \A c \in Computeds : \A reads \in Seq(Values) : TrueReads(c, reads, value) =>
         /\ \A n \in Computeds : Program(c, reads) = Reading(n) => rank[n] < rank[c]
         /\ \A w \in Values : Program(c, reads) = Returning(w) => w = Meaning(c, value)
  BY <1>t DEF Grounded, GroundedOn
<1> DEFINE Bad == {c \in within : ~dirty[c] /\ cached[c] # Meaning(c, value)}
           T == {rank[c] : c \in Bad}
<1> SUFFICES ASSUME Bad # {} PROVE FALSE
  OBVIOUS
<1>1. T \in SUBSET Nat /\ T # {}
  OBVIOUS
<1>2. PICK least \in T : \A m \in T : least <= m
  <2> HIDE DEF T
  <2> QED BY <1>1, LeastNatural
<1>3. PICK c \in Bad : \A x \in Bad : rank[c] <= rank[x]
  BY <1>2
<1>4. /\ c \in within /\ c \in Computeds /\ ~dirty[c] /\ cached[c] # Meaning(c, value)
      /\ cached[c] \in Values
      /\ \A x \in within : rank[x] < rank[c] /\ ~dirty[x] => cached[x] = Meaning(x, value)
  <2>1. \A x \in within : rank[x] \in Nat /\ rank[c] \in Nat
    OBVIOUS
  <2> QED BY <1>3, <1>t, <2>1
<1> HIDE DEF Bad, T
<1>5. PICK reads \in Seq(Values) : Traces(c, reads)
  BY <1>4, <1>t DEF Traced
<1> DEFINE Right(j) == \E n \in Nodes : /\ Program(c, SubSeq(reads, 1, j - 1)) = Reading(n)
                                         /\ reads[j] = Truth(n, value)
           Wrong == {j \in 1..Len(reads) : ~Right(j)}
<1>6. CASE Wrong = {}
  <2>1. TrueReads(c, reads, value)
    BY <1>6 DEF TrueReads
  <2>2. Program(c, reads) = Returning(cached[c])
    BY <1>5 DEF Traces
  <2> QED BY <1>4, <2>1, <2>2
<1>7. CASE Wrong # {}
  <2>1. Wrong \in SUBSET Nat
    OBVIOUS
  <2>2. PICK j \in Wrong : \A m \in Wrong : j <= m
    <3> HIDE DEF Wrong
    <3> QED BY <1>7, <2>1, LeastNatural
  <2>3. /\ Len(reads) \in Nat /\ j \in 1..Len(reads) /\ ~Right(j)
        /\ \A i \in 1..(j - 1) : i \in 1..Len(reads) /\ ~(j <= i)
    BY <2>2, LenProperties
  <2>4. \A i \in 1..(j - 1) : Right(i)
    BY <2>2, <2>3
  <2> HIDE DEF Right, Wrong
  <2> DEFINE p == SubSeq(reads, 1, j - 1)
  <2>5. /\ p \in Seq(Values) /\ Len(p) = j - 1 /\ \A i \in 1..(j - 1) : p[i] = reads[i]
    <3>1. j - 1 \in Nat /\ j - 1 <= Len(reads)
      BY <2>3
    <3> QED BY <3>1, Prefix
  <2> HIDE DEF p
  <2>6. ASSUME NEW i \in 1..(j - 1) PROVE SubSeq(p, 1, i - 1) = SubSeq(reads, 1, i - 1)
    <3>1. /\ i - 1 \in Nat /\ i - 1 <= j - 1 /\ i - 1 <= Len(reads)
          /\ \A h \in 1..(i - 1) : h \in 1..(j - 1)
      BY <2>3
    <3>2. i - 1 <= Len(p) /\ \A h \in 1..(i - 1) : p[h] = reads[h]
      BY <2>5, <3>1
    <3> QED BY <2>5, <3>1, <3>2, SamePrefix
  <2>7. TrueReads(c, p, value)
    BY <2>4, <2>5, <2>6 DEF TrueReads, Right
  <2>8. PICK n \in deps[c] : Program(c, p) = Reading(n) /\ Tells(n, c, reads[j])
    BY <1>5, <2>3 DEF Traces, p
  <2>9. n \in Computeds => n \in within /\ ~disposed[n]
    BY <1>4
  <2>10. n \in Nodes /\ Holds(n, reads[j]) /\ (n \in Computeds => ~dirty[n])
    BY <1>4, <2>8, <2>9, RestTells
  <2>11. n \in Computeds => rank[n] < rank[c]
    BY <1>4, <2>5, <2>7, <2>8
  <2>12. n \in Cells <=> n \notin Computeds
    BY <2>10, ComputedsAssumption
  <2>13. reads[j] = Truth(n, value)
    BY <1>4, <2>9, <2>10, <2>11, <2>12 DEF Holds, Truth
  <2>14. Right(j)
    BY <2>8, <2>10, <2>13 DEF Right, p
  <2> QED BY <2>3, <2>14
<1> QED BY <1>6, <1>7

(* At rest every computed in use, and every subscriber of one, has what its*)
(* read function gives for the present cells, as long as no cutoff, throw  *)
(* or slipped baseline has come in between (computed.ts get, subscribe and *)
(* the recompute job), for any read functions without cycles.              *)
THEOREM FreshWhenAtRest == ASSUME WellTyped, Grounded PROVE CSpec => []Fresh
<1>1. FreshInv => Fresh
  <2> SUFFICES ASSUME FreshInv, AtRest, cut = {}, abandoned = {}, slipped = {}, NEW c \in Live
               PROVE  /\ ~dirty[c] => cached[c] = Meaning(c, value)
                      /\ \A s \in Subscribed(c) \cap UserSubs : seen[s] = Meaning(c, value)
    BY DEF Fresh, FreshWhen
  <2>1. PICK within \in SUBSET Computeds :
          /\ c \in within
          /\ \A x \in within : ~disposed[x] /\ deps[x] \cap Computeds \subseteq within
    BY DEF Live
  <2>2. ~dirty[c] => cached[c] = Meaning(c, value)
    BY <2>1, RestIsTrue
  <2>3. ASSUME NEW s \in Subscribed(c) \cap UserSubs PROVE seen[s] = Meaning(c, value)
    <3>1. ~dirty[c] /\ ~Due(c) /\ pendingValues[c] = <<>> /\ ~InHands(c, s) /\ s # observer
      BY <2>1, <2>3, RestIsQuiet, ComputedsAreNodes, SubsAssumption
    <3>2. seen[s] = cached[c]
      BY <2>1, <3>1 DEF FreshInv, Settled
    <3> QED BY <2>2, <3>1, <3>2
  <2> QED BY <2>2, <2>3
<1> QED BY <1>1, FreshInvKept, PTL
=============================================================================
