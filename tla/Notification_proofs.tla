------------------------ MODULE Notification_proofs ------------------------
(***************************************************************************)
(* Theorems about Notification, for every number of cells, subscriptions   *)
(* and values and for every bound: its invariants, that it delivers in     *)
(* order, and that it implements Delivery.                                 *)
(***************************************************************************)
EXTENDS Notification, SequenceTheorems, TLAPS

USE DEF FlushJob
-----------------------------------------------------------------------------
(* Members under the sequence operations of the queues.                    *)

LEMMA MembersEmpty == Members(<<>>) = {}
BY DEF Members

(* Appending adds one member.                                              *)
LEMMA MembersAppend ==
    ASSUME NEW S, NEW s \in Seq(S), NEW x \in S
    PROVE  Members(Append(s, x)) = Members(s) \cup {x}
<1>1. /\ Append(s, x) \in Seq(S)
      /\ Len(Append(s, x)) = Len(s) + 1
      /\ \A i \in 1..Len(s) : Append(s, x)[i] = s[i]
      /\ Append(s, x)[Len(s) + 1] = x
  BY AppendProperties
<1>2. DOMAIN s = 1..Len(s) /\ DOMAIN Append(s, x) = 1..(Len(s) + 1) /\ Len(s) \in Nat
  BY <1>1, LenProperties
<1>3. Members(Append(s, x)) \subseteq Members(s) \cup {x}
  BY <1>1, <1>2 DEF Members
<1>4. Members(s) \subseteq Members(Append(s, x))
  BY <1>1, <1>2 DEF Members
<1>5. x \in Members(Append(s, x))
  BY <1>1, <1>2 DEF Members
<1> QED BY <1>3, <1>4, <1>5

(* The head and the members of the tail make up the members.               *)
LEMMA MembersTail ==
    ASSUME NEW S, NEW s \in Seq(S), s # <<>>
    PROVE  /\ Head(s) \in S /\ Tail(s) \in Seq(S)
           /\ Members(s) = {Head(s)} \cup Members(Tail(s))
<1>1. /\ Head(s) \in S /\ Tail(s) \in Seq(S)
      /\ Len(Tail(s)) = Len(s) - 1
      /\ \A i \in 1..Len(Tail(s)) : Tail(s)[i] = s[i + 1]
      /\ Head(s) = s[1]
  BY HeadTailProperties
<1>2. /\ DOMAIN s = 1..Len(s) /\ DOMAIN Tail(s) = 1..Len(Tail(s))
      /\ Len(s) \in Nat /\ Len(s) > 0
  BY <1>1, LenProperties, EmptySeq
<1>3. Members(s) \subseteq {Head(s)} \cup Members(Tail(s))
  <2> SUFFICES ASSUME NEW i \in 1..Len(s), i # 1
               PROVE  s[i] \in Members(Tail(s))
    BY <1>1, <1>2 DEF Members
  <2>1. i - 1 \in 1..Len(Tail(s)) /\ Tail(s)[i - 1] = s[i]
    BY <1>1, <1>2
  <2> QED BY <2>1, <1>2 DEF Members
<1>4. Head(s) \in Members(s) /\ Members(Tail(s)) \subseteq Members(s)
  BY <1>1, <1>2 DEF Members
<1> QED BY <1>1, <1>3, <1>4

(* A sequence stays free of repetitions when something new is appended.    *)
LEMMA DistinctAppend ==
    ASSUME NEW S, NEW s \in Seq(S), NEW x \in S, Distinct(s), x \notin Members(s)
    PROVE  Distinct(Append(s, x))
<1>1. /\ Append(s, x) \in Seq(S)
      /\ Len(Append(s, x)) = Len(s) + 1
      /\ \A i \in 1..Len(s) : Append(s, x)[i] = s[i]
      /\ Append(s, x)[Len(s) + 1] = x
  BY AppendProperties
<1>2. DOMAIN s = 1..Len(s) /\ DOMAIN Append(s, x) = 1..(Len(s) + 1) /\ Len(s) \in Nat
  BY <1>1, LenProperties
<1> QED BY <1>1, <1>2 DEF Distinct, Members

(* The head of a sequence without repetitions is not in its tail.          *)
LEMMA DistinctTail ==
    ASSUME NEW S, NEW s \in Seq(S), s # <<>>, Distinct(s)
    PROVE  Distinct(Tail(s)) /\ Head(s) \notin Members(Tail(s))
<1>1. /\ Tail(s) \in Seq(S)
      /\ Len(Tail(s)) = Len(s) - 1
      /\ \A i \in 1..Len(Tail(s)) : Tail(s)[i] = s[i + 1]
      /\ Head(s) = s[1]
  BY HeadTailProperties
<1>2. /\ DOMAIN s = 1..Len(s) /\ DOMAIN Tail(s) = 1..Len(Tail(s))
      /\ Len(s) \in Nat /\ Len(s) > 0
  BY <1>1, LenProperties, EmptySeq
<1> QED BY <1>1, <1>2 DEF Distinct, Members

(* What is left of a sequence without its i-th element (unsubscribe).      *)
LEMMA WithoutProperties ==
    ASSUME NEW S, NEW s \in Seq(S), NEW i \in DOMAIN s
    PROVE  Without(s, i) \in Seq(S) /\ Members(Without(s, i)) \subseteq Members(s)
<1> DEFINE l == SubSeq(s, 1, i - 1)
           r == SubSeq(s, i + 1, Len(s))
<1>1. DOMAIN s = 1..Len(s) /\ Len(s) \in Nat /\ i \in 1..Len(s)
  BY LenProperties
<1>2. l \in Seq(S) /\ r \in Seq(S)
  <2>1. \A j \in 1..(i - 1) : s[j] \in S
    BY <1>1, ElementOfSeq
  <2>2. \A j \in (i + 1)..Len(s) : s[j] \in S
    BY <1>1, ElementOfSeq
  <2> QED BY <1>1, <2>1, <2>2, SubSeqProperties
<1>3. Members(l) \subseteq Members(s) /\ Members(r) \subseteq Members(s)
  <2>1. /\ Len(l) = i - 1 /\ DOMAIN l = 1..Len(l)
        /\ \A j \in 1..Len(l) : l[j] = s[j]
    BY <1>1, <1>2, LenProperties, SubSeqProperties
  <2>2. /\ Len(r) = Len(s) - i /\ DOMAIN r = 1..Len(r)
        /\ \A j \in 1..Len(r) : r[j] = s[i + j]
    BY <1>1, <1>2, LenProperties, SubSeqProperties
  <2> HIDE DEF l, r
  <2>3. \A j \in 1..Len(l) : j \in DOMAIN s
    BY <1>1, <2>1
  <2>4. \A j \in 1..Len(r) : i + j \in DOMAIN s
    BY <1>1, <2>2
  <2>5. Members(l) \subseteq Members(s)
    BY <2>1, <2>3 DEF Members
  <2>6. Members(r) \subseteq Members(s)
    BY <2>2, <2>4 DEF Members
  <2> QED BY <2>5, <2>6
<1>4. Members(l \o r) \subseteq Members(l) \cup Members(r)
  <2> HIDE DEF l, r
  <2>1. /\ l \o r \in Seq(S) /\ Len(l \o r) = Len(l) + Len(r)
        /\ \A j \in 1..(Len(l) + Len(r)) :
             (l \o r)[j] = IF j <= Len(l) THEN l[j] ELSE r[j - Len(l)]
    BY <1>2, ConcatProperties
  <2>2. /\ DOMAIN (l \o r) = 1..(Len(l) + Len(r))
        /\ DOMAIN l = 1..Len(l) /\ DOMAIN r = 1..Len(r)
        /\ Len(l) \in Nat /\ Len(r) \in Nat
    BY <1>2, <2>1, LenProperties
  <2> QED BY <2>1, <2>2 DEF Members
<1> QED BY <1>2, <1>3, <1>4, ConcatProperties DEF Without
-----------------------------------------------------------------------------
(* What a type-correct flush job and its node are.                         *)
LEMMA JobNode ==
    ASSUME job \in Jobs \cup {None}, job # None
    PROVE  job \in Jobs /\ job.node \in Nodes
BY DEF Jobs

(* The flush job of a notifier is a job.                                   *)
LEMMA FlushJobType == \A n \in Nodes : FlushJob(n) \in Jobs /\ FlushJob(n) # None
BY NodesAssumption DEF Jobs

(* The bounds, in the form the type proofs use them.                       *)
LEMMA Bounds ==
    /\ 0 \in 0..MaxFlush /\ 0 \in 0..MaxBatch /\ 0 \in 0..MaxOps
    /\ MaxOps \in 0..MaxOps
    /\ \A k \in 0..MaxFlush : MayIterate(k) => k + 1 \in 0..MaxFlush
    /\ \A k \in 0..MaxBatch : k < MaxBatch => k + 1 \in 0..MaxBatch
    /\ \A k \in 0..MaxBatch : k > 0 => k - 1 \in 0..MaxBatch
    /\ \A k \in 0..MaxOps : k > 0 => k - 1 \in 0..MaxOps
BY BoundsAssumption DEF MayIterate

(* The initial state is well typed.                                        *)
LEMMA InitTypeOK == Init => TypeOK
<1>1. InitValue \in Values
  BY ValuesAssumption
<1>2. \A S : <<>> \in Seq(S)
  BY EmptySeq
<1> QED BY <1>1, <1>2, Bounds, Zenon DEF Init, TypeOK

(* Scheduling a job keeps the scheduler's variables typed.                 *)
LEMMA NotifyType ==
    ASSUME TypeOK, NEW n \in Nodes, NEW v \in Values, Notify(n, v)
    PROVE  /\ pendingValues' \in [Nodes -> Seq(Values)]
           /\ flushScheduled' \in [Nodes -> BOOLEAN]
           /\ isFlushing' \in BOOLEAN
           /\ pendingJobs' \in Seq(Jobs)
           /\ jobCount' \in 0..MaxFlush
           /\ failed' \in BOOLEAN
           /\ raised' \in BOOLEAN
<1>1. Append(Queued(n), v) \in Seq(Values)
  BY DEF TypeOK, Queued
<1>2. Append(pendingJobs, FlushJob(n)) \in Seq(Jobs)
  BY FlushJobType DEF TypeOK
<1>3. pendingValues' \in [Nodes -> Seq(Values)]
  BY <1>1 DEF TypeOK, Notify
<1>4. flushScheduled' \in [Nodes -> BOOLEAN]
  BY DEF TypeOK, Notify
<1>5. CASE flushScheduled[n]
  BY <1>3, <1>4, <1>5 DEF TypeOK, Notify
<1>6. CASE ~flushScheduled[n] /\ FlushesNow
  BY <1>2, <1>3, <1>4, <1>6, Bounds DEF TypeOK, Notify, Schedule, BeginFlush
<1>7. CASE ~flushScheduled[n] /\ ~FlushesNow
  BY <1>2, <1>3, <1>4, <1>7 DEF TypeOK, Notify, Schedule
<1> QED
  BY <1>5, <1>6, <1>7

(* Every variable keeps to its type.                                       *)
LEMMA NextTypeOK == TypeOK /\ [Next]_vars => TypeOK'
<1> SUFFICES ASSUME TypeOK, [Next]_vars PROVE TypeOK'
  OBVIOUS
<1> USE SubsAssumption
<1>call. Call => running' \in UserSubs \cup {None} /\ fuel' \in 0..MaxOps
  BY BoundsAssumption DEF TypeOK, Call, listenerVars
<1>1. ASSUME NEW c \in Cells, NEW v \in NextValues(value[c]), Set(c, v)
      PROVE  TypeOK'
  <2>1. c \in Nodes /\ value[c] \in Values /\ v \in Values
    BY <1>1, NodesAssumption, ValuesAssumption DEF TypeOK
  <2>2. value' \in [Cells -> Values] /\ cut' \subseteq Nodes
    BY <1>1, <2>1 DEF TypeOK, Set
  <2> QED BY <1>call, <1>1, <2>1, <2>2, NotifyType DEF TypeOK, Set, deliveryVars
<1>2. ASSUME NEW c \in Cells, NEW s \in UserSubs, Subscribe(c, s)
      PROVE  TypeOK'
  BY <1>call, <1>2, NodesAssumption
     DEF TypeOK, Subscribe, schedulerVars, deliveryVars
<1>3. ASSUME NEW n \in Nodes, NEW i \in DOMAIN subs[n], Unsubscribe(n, i)
      PROVE  TypeOK'
  <2>1. Without(subs[n], i) \in Seq(Subs)
    BY WithoutProperties DEF TypeOK
  <2> QED BY <1>call, <1>3, <2>1
          DEF TypeOK, Unsubscribe, schedulerVars, deliveryVars, historyVars
<1>4. ASSUME BatchBegin PROVE TypeOK'
  BY <1>call, <1>4, BoundsAssumption
     DEF TypeOK, BatchBegin, notifierVars, deliveryVars, historyVars
<1>5. ASSUME NEW err \in BOOLEAN, BatchEnd(err) PROVE TypeOK'
  <2>1. batchDepth' \in 0..MaxBatch
    BY <1>5, Bounds DEF TypeOK, BatchEnd
  <2>2. CASE batchDepth = 1 /\ ~isFlushing
    <3>1. BeginFlush(err)
      BY <1>5, <2>2 DEF BatchEnd
    <3>2. /\ isFlushing' \in BOOLEAN /\ jobCount' \in 0..MaxFlush
          /\ failed' \in BOOLEAN /\ raised' \in BOOLEAN
      BY <3>1, Bounds, Zenon DEF BeginFlush
    <3> QED BY <1>5, <2>1, <3>2
            DEF TypeOK, BatchEnd, notifierVars, deliveryVars, listenerVars
  <2>3. CASE ~(batchDepth = 1 /\ ~isFlushing)
    BY <1>5, <2>1, <2>3
       DEF TypeOK, BatchEnd, notifierVars, deliveryVars, listenerVars
  <2> QED BY <2>2, <2>3
<1>6. ASSUME StartJob PROVE TypeOK'
  <2>1. Head(pendingJobs) \in Jobs /\ Tail(pendingJobs) \in Seq(Jobs)
    BY <1>6, MembersTail DEF TypeOK, StartJob
  <2>2. jobCount' \in 0..MaxFlush /\ valueCount' \in 0..MaxFlush
    BY <1>6, Bounds DEF TypeOK, StartJob
  <2>3. flushScheduled' \in [Nodes -> BOOLEAN] /\ jobFailed' \in BOOLEAN
    BY <1>6, Zenon DEF TypeOK, StartJob
  <2> QED BY <1>6, <2>1, <2>2, <2>3
          DEF TypeOK, StartJob, listenerVars, historyVars
<1>7. ASSUME CutOffJobs PROVE TypeOK'
  <2>1. failed' \in BOOLEAN /\ raised' \in BOOLEAN
    BY <1>7, Zenon DEF CutOffJobs
  <2>2. flushScheduled' \in [Nodes -> BOOLEAN]
    BY <1>7 DEF TypeOK, CutOffJobs, DiscardFlushes
  <2>3. /\ pendingValues' \in [Nodes -> Seq(Values)]
        /\ pendingJobs' \in Seq(Jobs) /\ cut' \subseteq Nodes
    BY <1>7 DEF TypeOK, CutOffJobs, DiscardFlushes, Discarded
  <2> QED BY <1>7, <2>1, <2>2, <2>3
          DEF TypeOK, CutOffJobs, deliveryVars, listenerVars
<1>8. ASSUME NextValue PROVE TypeOK'
  <2>1. job.node \in Nodes
    BY <1>8, JobNode DEF TypeOK, NextValue, Delivering
  <2>2. /\ Head(pendingValues[job.node]) \in Values
        /\ Tail(pendingValues[job.node]) \in Seq(Values)
    BY <1>8, <2>1, MembersTail DEF TypeOK, NextValue
  <2> QED BY <1>8, <2>1, <2>2, Bounds
          DEF TypeOK, NextValue, CountValue, schedulerVars, listenerVars,
              historyVars
<1>9. ASSUME CutOffValues PROVE TypeOK'
  <2>1. jobFailed' \in BOOLEAN /\ raised' \in BOOLEAN
    BY <1>9, Zenon DEF CutOffValues
  <2>2. pendingValues' \in [Nodes -> Seq(Values)]
    BY <1>9, EmptySeq DEF TypeOK, CutOffValues
  <2>3. cut' \subseteq Nodes
    BY <1>9, JobNode DEF TypeOK, CutOffValues, Delivering
  <2> QED BY <1>9, <2>1, <2>2, <2>3
          DEF TypeOK, CutOffValues, schedulerVars, listenerVars
<1>10. ASSUME SkipListener PROVE TypeOK'
  <2>1. Tail(snapshot) \in Seq(Subs)
    BY <1>10, MembersTail DEF TypeOK, SkipListener
  <2> QED BY <1>10, <2>1 DEF TypeOK, SkipListener, schedulerVars, notifierVars,
                             listenerVars, historyVars
<1>11. ASSUME CallListener PROVE TypeOK'
  <2>1. Tail(snapshot) \in Seq(Subs)
    BY <1>11, MembersTail DEF TypeOK, CallListener
  <2> QED BY <1>11, <2>1, BoundsAssumption
          DEF TypeOK, CallListener, schedulerVars, notifierVars
<1>12. ASSUME NEW threw \in BOOLEAN, Return(threw) PROVE TypeOK'
  BY <1>12, BoundsAssumption DEF TypeOK, Return, schedulerVars, notifierVars
<1>13. ASSUME EndJob PROVE TypeOK'
  BY <1>13 DEF TypeOK, EndJob, CollectErrors, notifierVars, deliveryVars,
               listenerVars, historyVars
<1>14. ASSUME FlushDone PROVE TypeOK'
  BY <1>14 DEF TypeOK, FlushDone, notifierVars, deliveryVars, listenerVars
<1>15. ASSUME UNCHANGED vars PROVE TypeOK'
  BY <1>15 DEF TypeOK, vars, schedulerVars, notifierVars, deliveryVars,
               listenerVars, historyVars
<1> QED
  BY <1>1, <1>2, <1>3, <1>4, <1>5, <1>6, <1>7, <1>8, <1>9, <1>10, <1>11,
     <1>12, <1>13, <1>14, <1>15 DEF Next, UserCall, FlushStep

(* The specification keeps its types, and the counters their bounds.       *)
THEOREM TypeCorrect == Spec => []TypeOK
BY InitTypeOK, NextTypeOK, PTL DEF Spec
-----------------------------------------------------------------------------
(* The queues and the jobs agree: NoLostWakeup is inductive by itself.     *)

(* A step that leaves the queues alone keeps NoLostWakeup.                 *)
LEMMA WakeupFrame ==
    ASSUME NoLostWakeup,
           UNCHANGED <<pendingJobs, flushScheduled, pendingValues, job>>
    PROVE  NoLostWakeup'
BY DEF NoLostWakeup

(* notify() queues one flush job unless one is queued (notifier.ts).       *)
LEMMA NotifyWakeup ==
    ASSUME TypeOK, NoLostWakeup, NEW n \in Nodes, NEW v, Notify(n, v),
           \A m \in Nodes : job = FlushJob(m) => job' = FlushJob(m)
    PROVE  NoLostWakeup'
<1>1. flushScheduled' = [flushScheduled EXCEPT ![n] = TRUE]
  BY DEF Notify
<1>2. \A m \in Nodes : m # n => pendingValues'[m] = pendingValues[m]
  BY DEF Notify, TypeOK
<1>3. CASE flushScheduled[n]
  <2>1. UNCHANGED pendingJobs
    BY <1>3 DEF Notify
  <2>2. \A m \in Nodes : flushScheduled'[m] <=> flushScheduled[m]
    BY <1>1, <1>3 DEF TypeOK
  <2> QED BY <1>2, <1>3, <2>1, <2>2 DEF NoLostWakeup
<1>4. CASE ~flushScheduled[n]
  <2>1. pendingJobs' = Append(pendingJobs, FlushJob(n))
    BY <1>4 DEF Notify, Schedule
  <2>2. FlushJob(n) \notin Members(pendingJobs) /\ FlushJob(n) \in Jobs
    BY <1>4, FlushJobType DEF NoLostWakeup
  <2>3. Members(pendingJobs') = Members(pendingJobs) \cup {FlushJob(n)}
    BY <2>1, <2>2, MembersAppend DEF TypeOK
  <2>4. Distinct(pendingJobs')
    BY <2>1, <2>2, DistinctAppend DEF TypeOK, NoLostWakeup
  <2>5. \A m \in Nodes : flushScheduled'[m] <=> FlushJob(m) \in Members(pendingJobs')
    BY <1>1, <2>3 DEF TypeOK, NoLostWakeup
  <2>6. \A m \in Nodes : pendingValues'[m] # <<>> =>
                          flushScheduled'[m] \/ job' = FlushJob(m)
    BY <1>1, <1>2 DEF TypeOK, NoLostWakeup
  <2> QED BY <2>4, <2>5, <2>6 DEF NoLostWakeup
<1> QED BY <1>3, <1>4

(* Every step keeps NoLostWakeup.                                          *)
LEMMA NextWakeup == TypeOK /\ NoLostWakeup /\ [Next]_vars => NoLostWakeup'
<1> SUFFICES ASSUME TypeOK, NoLostWakeup, [Next]_vars PROVE NoLostWakeup'
  OBVIOUS
<1>1. ASSUME NEW c \in Cells, NEW v \in NextValues(value[c]), Set(c, v)
      PROVE  NoLostWakeup'
  BY <1>1, NotifyWakeup, NodesAssumption DEF Set
<1>2. ASSUME NEW c \in Cells, NEW s \in UserSubs, Subscribe(c, s)
      PROVE  NoLostWakeup'
  BY <1>2, WakeupFrame DEF Subscribe, schedulerVars
<1>3. ASSUME NEW n \in Nodes, NEW i \in DOMAIN subs[n], Unsubscribe(n, i)
      PROVE  NoLostWakeup'
  BY <1>3, WakeupFrame DEF Unsubscribe, schedulerVars
<1>4. ASSUME BatchBegin PROVE NoLostWakeup'
  BY <1>4, WakeupFrame DEF BatchBegin, notifierVars
<1>5. ASSUME NEW err \in BOOLEAN, BatchEnd(err) PROVE NoLostWakeup'
  BY <1>5, WakeupFrame DEF BatchEnd, notifierVars
<1>6. ASSUME StartJob PROVE NoLostWakeup'
  <2> DEFINE n == Head(pendingJobs).node
  <2>1. /\ Head(pendingJobs) \in Jobs
        /\ Members(pendingJobs) = {Head(pendingJobs)} \cup Members(Tail(pendingJobs))
    BY <1>6, MembersTail DEF TypeOK, StartJob
  <2>2. Distinct(Tail(pendingJobs)) /\ Head(pendingJobs) \notin Members(Tail(pendingJobs))
    BY <1>6, DistinctTail DEF TypeOK, NoLostWakeup, StartJob
  <2>3. n \in Nodes /\ Head(pendingJobs) = FlushJob(n)
    BY <1>6, <2>1 DEF StartJob, Jobs
  <2>4. /\ pendingJobs' = Tail(pendingJobs) /\ job' = FlushJob(n) /\ job = None
        /\ flushScheduled' = [flushScheduled EXCEPT ![n] = FALSE]
        /\ pendingValues' = pendingValues
    BY <1>6, <2>3 DEF StartJob
  <2> HIDE DEF n
  <2>5. \A m \in Nodes : flushScheduled'[m] <=> FlushJob(m) \in Members(pendingJobs')
    <3> SUFFICES ASSUME NEW m \in Nodes
                 PROVE  flushScheduled'[m] <=> FlushJob(m) \in Members(Tail(pendingJobs))
      BY <2>4
    <3>1. CASE m = n
      BY <2>2, <2>3, <2>4, <3>1 DEF TypeOK
    <3>2. CASE m # n
      <4>1. flushScheduled'[m] = flushScheduled[m]
        BY <2>4, <3>2 DEF TypeOK
      <4>2. FlushJob(m) # FlushJob(n)
        BY <3>2
      <4> QED BY <2>1, <2>3, <4>1, <4>2 DEF NoLostWakeup
    <3> QED BY <3>1, <3>2
  <2>6. \A m \in Nodes : pendingValues'[m] # <<>> =>
                          flushScheduled'[m] \/ job' = FlushJob(m)
    BY <2>3, <2>4, FlushJobType DEF TypeOK, NoLostWakeup
  <2> QED BY <2>2, <2>4, <2>5, <2>6 DEF NoLostWakeup
<1>7. ASSUME CutOffJobs PROVE NoLostWakeup'
  <2>1. /\ pendingJobs' = <<>> /\ job = None /\ job' = None
        /\ flushScheduled' = [n \in Nodes |-> flushScheduled[n] /\ n \notin Discarded]
        /\ pendingValues' =
             [n \in Nodes |-> IF n \in Discarded THEN <<>> ELSE pendingValues[n]]
    BY <1>7 DEF CutOffJobs, DiscardFlushes
  <2>2. \A n \in Nodes : flushScheduled[n] <=> n \in Discarded
    BY DEF NoLostWakeup, Discarded
  <2>3. \A n \in Nodes : ~flushScheduled'[n] /\ pendingValues'[n] = <<>>
    BY <2>1, <2>2, FlushJobType DEF NoLostWakeup
  <2>4. Members(pendingJobs') = {} /\ Distinct(pendingJobs')
    BY <2>1, MembersEmpty DEF Distinct
  <2> QED BY <2>3, <2>4 DEF NoLostWakeup
<1>8. ASSUME NextValue PROVE NoLostWakeup'
  <2>1. /\ job \in Jobs /\ job.node \in Nodes /\ job.kind = "flush"
        /\ UNCHANGED <<pendingJobs, flushScheduled, job>>
        /\ pendingValues' = [pendingValues EXCEPT ![job.node] = Tail(@)]
    BY <1>8, JobNode DEF TypeOK, NextValue, Delivering, schedulerVars
  <2>2. job = FlushJob(job.node)
    BY <2>1 DEF Jobs
  <2> QED BY <2>1, <2>2 DEF TypeOK, NoLostWakeup
<1>9. ASSUME CutOffValues PROVE NoLostWakeup'
  <2>1. /\ job.node \in Nodes
        /\ UNCHANGED <<pendingJobs, flushScheduled, job>>
        /\ pendingValues' = [pendingValues EXCEPT ![job.node] = <<>>]
    BY <1>9, JobNode DEF TypeOK, CutOffValues, Delivering, schedulerVars
  <2> QED BY <2>1 DEF TypeOK, NoLostWakeup
<1>10. ASSUME SkipListener PROVE NoLostWakeup'
  BY <1>10, WakeupFrame DEF SkipListener, schedulerVars, notifierVars
<1>11. ASSUME CallListener PROVE NoLostWakeup'
  BY <1>11, WakeupFrame DEF CallListener, schedulerVars, notifierVars
<1>12. ASSUME NEW threw \in BOOLEAN, Return(threw) PROVE NoLostWakeup'
  BY <1>12, WakeupFrame DEF Return, schedulerVars, notifierVars
<1>13. ASSUME EndJob PROVE NoLostWakeup'
  <2>1. /\ job.node \in Nodes /\ pendingValues[job.node] = <<>>
        /\ UNCHANGED <<pendingJobs, flushScheduled, pendingValues>>
    BY <1>13, JobNode DEF TypeOK, EndJob, Delivering, Drained, notifierVars
  <2>2. \A n \in Nodes : job = FlushJob(n) => n = job.node
    OBVIOUS
  <2> QED BY <2>1, <2>2 DEF NoLostWakeup
<1>14. ASSUME FlushDone PROVE NoLostWakeup'
  BY <1>14, WakeupFrame DEF FlushDone, notifierVars
<1>15. ASSUME UNCHANGED vars PROVE NoLostWakeup'
  BY <1>15, WakeupFrame DEF vars, schedulerVars, notifierVars
<1> QED
  BY <1>1, <1>2, <1>3, <1>4, <1>5, <1>6, <1>7, <1>8, <1>9, <1>10, <1>11,
     <1>12, <1>13, <1>14, <1>15 DEF Next, UserCall, FlushStep

(* No notifier is ever left with its flag raised and no job, or with queued*)
(* values and neither.                                                     *)
THEOREM WakeupsKept == Spec => []NoLostWakeup
<1>1. Init => NoLostWakeup
  BY MembersEmpty DEF Init, NoLostWakeup, Distinct
<1> QED BY <1>1, NextWakeup, TypeCorrect, PTL DEF Spec
-----------------------------------------------------------------------------
(* The phases of a flush.                                                  *)
Phases ==
    /\ ~isFlushing => job = None
    /\ FlushesNow => pendingJobs = <<>>
    /\ job = None => snapshot = <<>> /\ running = None
    /\ isFlushing /\ running = None => batchDepth = 0

(* An identity is subscribed to one node at a time.                        *)
OneNode == \A m, n \in Nodes : m # n => Subscribed(m) \cap Subscribed(n) = {}

(* Where the last write of a cell is: at the end of its queue, or else in  *)
(* the hands of the flush for the subscriptions it has yet to visit, and   *)
(* with all the others.                                                    *)
LastQueued(c) ==
    pendingValues[c] # <<>> => pendingValues[c][Len(pendingValues[c])] = value[c]
LastDelivering(c) ==
    pendingValues[c] = <<>> /\ job = FlushJob(c) /\ snapshot # <<>> =>
        delivering = value[c]
LastSeen(c) ==
    pendingValues[c] = <<>> =>
        \A s \in Subscribed(c) :
            seen[s] = value[c] \/ (job = FlushJob(c) /\ s \in Members(snapshot))
CarriesLast(c) == LastQueued(c) /\ LastDelivering(c) /\ LastSeen(c)

Carried == \A c \in Cells \ cut : CarriesLast(c)

ConvergenceInv == TypeOK /\ NoLostWakeup /\ Phases /\ OneNode /\ Carried
-----------------------------------------------------------------------------
(* Every step keeps Phases.                                                *)
LEMMA NextPhases == TypeOK /\ Phases /\ [Next]_vars => Phases'
<1> SUFFICES ASSUME TypeOK, Phases, [Next]_vars PROVE Phases'
  OBVIOUS
<1> USE DEF Phases, FlushesNow
<1>1. ASSUME NEW c \in Cells, NEW v \in NextValues(value[c]), Set(c, v)
      PROVE  Phases'
  BY <1>1 DEF Set, Call, listenerVars, deliveryVars, Notify, Schedule, BeginFlush
<1>2. ASSUME NEW c \in Cells, NEW s \in UserSubs, Subscribe(c, s)
      PROVE  Phases'
  BY <1>2 DEF Subscribe, Call, listenerVars, schedulerVars, deliveryVars
<1>3. ASSUME NEW n \in Nodes, NEW i \in DOMAIN subs[n], Unsubscribe(n, i)
      PROVE  Phases'
  BY <1>3 DEF Unsubscribe, Call, listenerVars, schedulerVars, deliveryVars
<1>4. ASSUME BatchBegin PROVE Phases'
  BY <1>4 DEF BatchBegin, Call, listenerVars, deliveryVars, TypeOK
<1>5. ASSUME NEW err \in BOOLEAN, BatchEnd(err) PROVE Phases'
  BY <1>5 DEF BatchEnd, UserRuns, BeginFlush, listenerVars, deliveryVars, TypeOK
<1>6. ASSUME StartJob PROVE Phases'
  BY <1>6, FlushJobType DEF StartJob, listenerVars, TypeOK
<1>7. ASSUME CutOffJobs PROVE Phases'
  BY <1>7 DEF CutOffJobs, deliveryVars, listenerVars
<1>8. ASSUME NextValue PROVE Phases'
  BY <1>8 DEF NextValue, Delivering, schedulerVars, listenerVars
<1>9. ASSUME CutOffValues PROVE Phases'
  BY <1>9 DEF CutOffValues, schedulerVars, listenerVars
<1>10. ASSUME SkipListener PROVE Phases'
  BY <1>10 DEF SkipListener, Delivering, schedulerVars, listenerVars
<1>11. ASSUME CallListener PROVE Phases'
  BY <1>11 DEF CallListener, Delivering, schedulerVars
<1>12. ASSUME NEW threw \in BOOLEAN, Return(threw) PROVE Phases'
  BY <1>12 DEF Return, schedulerVars
<1>13. ASSUME EndJob PROVE Phases'
  BY <1>13 DEF EndJob, Delivering, deliveryVars, listenerVars
<1>14. ASSUME FlushDone PROVE Phases'
  BY <1>14 DEF FlushDone, deliveryVars, listenerVars
<1>15. ASSUME UNCHANGED vars PROVE Phases'
  BY <1>15 DEF vars, schedulerVars, deliveryVars, listenerVars
<1> QED
  BY <1>1, <1>2, <1>3, <1>4, <1>5, <1>6, <1>7, <1>8, <1>9, <1>10, <1>11,
     <1>12, <1>13, <1>14, <1>15 DEF Next, UserCall, FlushStep

(* Every step keeps OneNode.                                               *)
LEMMA NextOneNode == TypeOK /\ OneNode /\ [Next]_vars => OneNode'
<1> SUFFICES ASSUME TypeOK, OneNode, [Next]_vars PROVE OneNode'
  OBVIOUS
<1>1. CASE UNCHANGED subs
  BY <1>1 DEF OneNode, Subscribed
<1>2. ASSUME NEW c \in Cells, NEW s \in UserSubs, Subscribe(c, s)
      PROVE  OneNode'
  <2>1. c \in Nodes /\ s \in Subs /\ subs' = [subs EXCEPT ![c] = Append(@, s)]
    BY <1>2, NodesAssumption, SubsAssumption DEF Subscribe
  <2>2. Subscribed(c)' = Subscribed(c) \cup {s}
    BY <2>1, MembersAppend DEF Subscribed, TypeOK
  <2>3. \A n \in Nodes : n # c => Subscribed(n)' = Subscribed(n)
    BY <2>1 DEF Subscribed, TypeOK
  <2>4. \A n \in Nodes : s \notin Subscribed(n)
    BY <1>2 DEF Subscribe
  <2> QED BY <2>2, <2>3, <2>4 DEF OneNode
<1>3. ASSUME NEW n \in Nodes, NEW i \in DOMAIN subs[n], Unsubscribe(n, i)
      PROVE  OneNode'
  <2>1. subs' = [subs EXCEPT ![n] = Without(subs[n], i)]
    BY <1>3 DEF Unsubscribe
  <2>2. Subscribed(n)' \subseteq Subscribed(n)
    BY <2>1, WithoutProperties DEF Subscribed, TypeOK
  <2>3. \A m \in Nodes : m # n => Subscribed(m)' = Subscribed(m)
    BY <2>1 DEF Subscribed, TypeOK
  <2> QED BY <2>2, <2>3 DEF OneNode
<1> QED
  BY <1>1, <1>2, <1>3
     DEF Next, UserCall, FlushStep, Set, BatchBegin, BatchEnd, StartJob, CutOffJobs,
         NextValue, CutOffValues, SkipListener, CallListener, Return, EndJob,
         FlushDone, notifierVars, vars
-----------------------------------------------------------------------------
(* The last write is never dropped on the way to a subscription.           *)

(* A step that disturbs nothing on the way to a listener keeps Carried.    *)
LEMMA CarriedFrame ==
    ASSUME Carried,
           UNCHANGED <<value, subs, pendingValues, job, snapshot, delivering,
                       seen, cut>>
    PROVE  Carried'
BY DEF Carried, CarriesLast, LastQueued, LastDelivering, LastSeen, Subscribed

(* A write puts its value last in the queue of its cell.                   *)
LEMMA CarriedSet ==
    ASSUME ConvergenceInv, NEW c \in Cells, NEW v \in NextValues(value[c]), Set(c, v)
    PROVE  Carried'
<1>1. /\ c \in Nodes /\ v \in Values /\ value' = [value EXCEPT ![c] = v]
      /\ pendingValues' = [pendingValues EXCEPT ![c] = Append(Queued(c), v)]
      /\ cut' = cut \ {c}
      /\ UNCHANGED <<subs, job, snapshot, delivering, seen>>
  BY NodesAssumption, ValuesAssumption
     DEF ConvergenceInv, TypeOK, Set, Notify, deliveryVars
<1>2. CarriesLast(c)'
  <2>1. Queued(c) \in Seq(Values)
    BY <1>1 DEF ConvergenceInv, TypeOK, Queued
  <2>2. /\ pendingValues'[c] # <<>>
        /\ pendingValues'[c][Len(pendingValues'[c])] = v
    <3>1. pendingValues'[c] = Append(Queued(c), v)
      BY <1>1 DEF ConvergenceInv, TypeOK
    <3> QED BY <1>1, <2>1, <3>1, AppendProperties
  <2> QED BY <1>1, <2>2
          DEF ConvergenceInv, TypeOK, CarriesLast, LastQueued, LastDelivering, LastSeen
<1>3. ASSUME NEW d \in Cells \ cut', d # c PROVE CarriesLast(d)'
  <2>1. CarriesLast(d) /\ d \in Nodes
    BY <1>1, <1>3, NodesAssumption DEF ConvergenceInv, Carried
  <2>2. value'[d] = value[d] /\ pendingValues'[d] = pendingValues[d]
    BY <1>1, <1>3, <2>1 DEF ConvergenceInv, TypeOK
  <2> QED BY <1>1, <2>1, <2>2
          DEF CarriesLast, LastQueued, LastDelivering, LastSeen, Subscribed
<1> QED BY <1>2, <1>3 DEF Carried

(* A new subscription can read what its cell holds.                        *)
LEMMA CarriedSubscribe ==
    ASSUME ConvergenceInv, NEW c \in Cells, NEW s \in UserSubs, Subscribe(c, s)
    PROVE  Carried'
<1>1. /\ c \in Nodes /\ s \in Subs /\ subs' = [subs EXCEPT ![c] = Append(@, s)]
      /\ seen' = [seen EXCEPT ![s] = value[c]]
      /\ UNCHANGED <<value, pendingValues, job, snapshot, delivering, cut>>
      /\ \A n \in Nodes : s \notin Subscribed(n)
  BY NodesAssumption, SubsAssumption DEF Subscribe, schedulerVars, deliveryVars
<1>2. Subscribed(c)' = Subscribed(c) \cup {s}
  BY <1>1, MembersAppend DEF Subscribed, ConvergenceInv, TypeOK
<1>3. \A n \in Nodes : n # c => Subscribed(n)' = Subscribed(n)
  BY <1>1 DEF Subscribed, ConvergenceInv, TypeOK
<1>4. seen'[s] = value[c] /\ \A r \in Subs : r # s => seen'[r] = seen[r]
  BY <1>1 DEF ConvergenceInv, TypeOK
<1>5. \A n \in Nodes : Subscribed(n) \subseteq Subs
  BY DEF Subscribed, Members, ConvergenceInv, TypeOK
<1>6. ASSUME NEW d \in Cells \ cut' PROVE CarriesLast(d)'
  <2>1. CarriesLast(d) /\ d \in Nodes
    BY <1>1, NodesAssumption DEF ConvergenceInv, Carried
  <2> QED BY <1>1, <1>2, <1>3, <1>4, <1>5, <2>1
          DEF CarriesLast, LastQueued, LastDelivering, LastSeen
<1> QED BY <1>6 DEF Carried

(* A cancelled subscription is owed nothing.                               *)
LEMMA CarriedUnsubscribe ==
    ASSUME ConvergenceInv, NEW n \in Nodes, NEW i \in DOMAIN subs[n], Unsubscribe(n, i)
    PROVE  Carried'
<1>1. /\ subs' = [subs EXCEPT ![n] = Without(subs[n], i)]
      /\ UNCHANGED <<value, pendingValues, job, snapshot, delivering, seen, cut>>
  BY DEF Unsubscribe, schedulerVars, deliveryVars, historyVars
<1>2. \A m \in Nodes : Subscribed(m)' \subseteq Subscribed(m)
  BY <1>1, WithoutProperties DEF Subscribed, ConvergenceInv, TypeOK
<1> QED BY <1>1, <1>2, NodesAssumption
        DEF ConvergenceInv, Carried, CarriesLast, LastQueued, LastDelivering, LastSeen

(* Starting a flush moves no value.                                        *)
LEMMA CarriedStartJob == ASSUME ConvergenceInv, StartJob PROVE Carried'
<1>1. /\ job = None /\ snapshot = <<>>
      /\ UNCHANGED <<value, subs, pendingValues, snapshot, delivering, seen, cut>>
  BY DEF StartJob, ConvergenceInv, Phases, historyVars
<1>2. \A c \in Cells : job # FlushJob(c)
  BY <1>1, FlushJobType, NodesAssumption
<1> QED BY <1>1, <1>2
        DEF ConvergenceInv, Carried, CarriesLast, LastQueued, LastDelivering,
            LastSeen, Subscribed

(* The cutoff of flushJobs excuses the cells it robs.                      *)
LEMMA CarriedCutOffJobs == ASSUME ConvergenceInv, CutOffJobs PROVE Carried'
<1>1. /\ pendingValues' =
           [n \in Nodes |-> IF n \in Discarded THEN <<>> ELSE pendingValues[n]]
      /\ cut' = cut \cup {n \in Discarded : pendingValues[n] # <<>>}
      /\ UNCHANGED <<value, subs, job, snapshot, delivering, seen>>
  BY DEF CutOffJobs, DiscardFlushes, deliveryVars
<1>2. ASSUME NEW c \in Cells \ cut' PROVE CarriesLast(c)'
  <2>1. CarriesLast(c) /\ c \in Nodes /\ pendingValues'[c] = pendingValues[c]
    BY <1>1, NodesAssumption DEF ConvergenceInv, Carried
  <2> QED BY <1>1, <2>1
          DEF CarriesLast, LastQueued, LastDelivering, LastSeen, Subscribed
<1> QED BY <1>2 DEF Carried

(* A value leaves the queue into the hands of the snapshot.                *)
LEMMA CarriedNextValue == ASSUME ConvergenceInv, NextValue PROVE Carried'
<1> DEFINE n == job.node
           q == pendingValues[n]
<1>1. /\ n \in Nodes /\ q \in Seq(Values) /\ q # <<>>
      /\ pendingValues' = [pendingValues EXCEPT ![n] = Tail(q)]
      /\ delivering' = Head(q) /\ snapshot' = subs[n]
      /\ UNCHANGED <<value, subs, job, seen, cut>>
  BY JobNode DEF ConvergenceInv, TypeOK, NextValue, Delivering, schedulerVars,
                 historyVars
<1>2. ASSUME NEW c \in Cells \ cut, c = n PROVE CarriesLast(c)'
  <2>1. /\ Tail(q) \in Seq(Values) /\ Len(q) \in Nat /\ Len(q) > 0
        /\ Len(Tail(q)) = Len(q) - 1 /\ Head(q) = q[1]
        /\ \A k \in 1..Len(Tail(q)) : Tail(q)[k] = q[k + 1]
    BY <1>1, HeadTailProperties, LenProperties, EmptySeq
  <2>2. q[Len(q)] = value[c]
    BY <1>1, <1>2 DEF ConvergenceInv, Carried, CarriesLast, LastQueued
  <2>3. pendingValues'[c] = Tail(q) /\ value'[c] = value[c]
    BY <1>1, <1>2 DEF ConvergenceInv, TypeOK
  <2>4. CASE Tail(q) = <<>>
    <3>1. delivering' = value'[c]
      <4>1. Len(Tail(q)) = 0
        <5>1. Len(<<>>) = 0
          OBVIOUS
        <5> QED BY <2>4, <5>1
      <4>2. Len(q) = 1
        BY <2>1, <4>1
      <4> QED BY <1>1, <2>1, <2>2, <2>3, <4>2
    <3>2. Subscribed(c)' = Members(snapshot') /\ job' = FlushJob(c)
      <4>1. job \in Jobs /\ job.kind = "flush"
        BY JobNode DEF ConvergenceInv, TypeOK, NextValue, Delivering
      <4> QED BY <1>1, <1>2, <4>1 DEF Subscribed, Jobs
    <3> QED BY <2>3, <2>4, <3>1, <3>2
            DEF CarriesLast, LastQueued, LastDelivering, LastSeen
  <2>5. CASE Tail(q) # <<>>
    <3>1. Len(Tail(q)) \in 1..Len(Tail(q))
      BY <2>1, <2>5, EmptySeq
    <3>2. Tail(q)[Len(Tail(q))] = value[c]
      BY <2>1, <2>2, <3>1
    <3> QED BY <2>3, <2>5, <3>2
            DEF CarriesLast, LastQueued, LastDelivering, LastSeen
  <2> QED BY <2>4, <2>5
<1>3. ASSUME NEW c \in Cells \ cut, c # n PROVE CarriesLast(c)'
  <2>1. /\ CarriesLast(c) /\ pendingValues'[c] = pendingValues[c]
        /\ job # FlushJob(c)
    BY <1>1, <1>3, NodesAssumption DEF ConvergenceInv, Carried, TypeOK
  <2> QED BY <1>1, <2>1
          DEF CarriesLast, LastQueued, LastDelivering, LastSeen, Subscribed
<1> QED BY <1>1, <1>2, <1>3 DEF Carried

(* The cutoff of a notifier flush excuses its cell.                        *)
LEMMA CarriedCutOffValues == ASSUME ConvergenceInv, CutOffValues PROVE Carried'
<1>1. /\ pendingValues' = [pendingValues EXCEPT ![job.node] = <<>>]
      /\ cut' = cut \cup {job.node}
      /\ UNCHANGED <<value, subs, job, snapshot, delivering, seen>>
  BY DEF CutOffValues, schedulerVars
<1>2. ASSUME NEW c \in Cells \ cut' PROVE CarriesLast(c)'
  <2>1. CarriesLast(c) /\ c \in Nodes /\ pendingValues'[c] = pendingValues[c]
    BY <1>1, NodesAssumption DEF ConvergenceInv, Carried, TypeOK
  <2> QED BY <1>1, <2>1
          DEF CarriesLast, LastQueued, LastDelivering, LastSeen, Subscribed
<1> QED BY <1>2 DEF Carried

(* A skipped subscription is a cancelled one.                              *)
LEMMA CarriedSkipListener == ASSUME ConvergenceInv, SkipListener PROVE Carried'
<1>1. /\ snapshot # <<>> /\ snapshot' = Tail(snapshot)
      /\ Head(snapshot) \notin Subscribed(job.node)
      /\ UNCHANGED <<value, subs, pendingValues, job, delivering, seen, cut>>
  BY DEF SkipListener, Active, schedulerVars, notifierVars, historyVars
<1>2. Members(snapshot) = {Head(snapshot)} \cup Members(snapshot')
  BY <1>1, MembersTail DEF ConvergenceInv, TypeOK
<1> QED BY <1>1, <1>2
        DEF ConvergenceInv, Carried, CarriesLast, LastQueued, LastDelivering,
            LastSeen, Subscribed

(* A called listener has seen the value being delivered.                   *)
LEMMA CarriedCallListener == ASSUME ConvergenceInv, CallListener PROVE Carried'
<1> DEFINE h == Head(snapshot)
<1>1. /\ snapshot # <<>> /\ snapshot' = Tail(snapshot)
      /\ h \in Subscribed(job.node) /\ h \in Subs /\ job.node \in Nodes
      /\ job = FlushJob(job.node)
      /\ seen' = [seen EXCEPT ![h] = delivering]
      /\ UNCHANGED <<value, subs, pendingValues, job, delivering, cut>>
  BY JobNode, SubsAssumption
     DEF ConvergenceInv, TypeOK, Jobs, CallListener, Active, Delivering,
         schedulerVars, notifierVars
<1>2. Members(snapshot) = {h} \cup Members(snapshot')
  BY <1>1, MembersTail DEF ConvergenceInv, TypeOK
<1>3. \A n \in Nodes : Subscribed(n) \subseteq Subs
  BY DEF Subscribed, Members, ConvergenceInv, TypeOK
<1>4. seen'[h] = delivering /\ \A r \in Subs : r # h => seen'[r] = seen[r]
  BY <1>1 DEF ConvergenceInv, TypeOK
<1>5. ASSUME NEW c \in Cells \ cut PROVE CarriesLast(c)'
  <2>1. CarriesLast(c) /\ c \in Nodes /\ Subscribed(c)' = Subscribed(c)
    BY <1>1, NodesAssumption DEF ConvergenceInv, Carried, Subscribed
  <2>2. CASE c = job.node
    BY <1>1, <1>2, <1>3, <1>4, <2>1, <2>2
       DEF CarriesLast, LastQueued, LastDelivering, LastSeen
  <2>3. CASE c # job.node
    <3>1. h \notin Subscribed(c) /\ job # FlushJob(c)
      BY <1>1, <2>1, <2>3 DEF ConvergenceInv, OneNode
    <3> QED BY <1>1, <1>3, <1>4, <2>1, <3>1
            DEF CarriesLast, LastQueued, LastDelivering, LastSeen
  <2> QED BY <2>2, <2>3
<1> QED BY <1>1, <1>5 DEF Carried

(* A flush ends when its notifier has nothing left.                        *)
LEMMA CarriedEndJob == ASSUME ConvergenceInv, EndJob PROVE Carried'
<1>1. /\ snapshot = <<>> /\ job' = None
      /\ UNCHANGED <<value, subs, pendingValues, delivering, snapshot, seen, cut>>
  BY DEF EndJob, notifierVars, deliveryVars, historyVars
<1>2. \A c \in Cells : job' # FlushJob(c)
  BY <1>1, FlushJobType, NodesAssumption
<1> QED BY <1>1, <1>2, MembersEmpty
        DEF ConvergenceInv, Carried, CarriesLast, LastQueued, LastDelivering,
            LastSeen, Subscribed

(* Every step keeps Carried.                                               *)
LEMMA NextCarried == ConvergenceInv /\ [Next]_vars => Carried'
<1> SUFFICES ASSUME ConvergenceInv, [Next]_vars PROVE Carried'
  OBVIOUS
<1>1. CASE UNCHANGED <<value, subs, pendingValues, job, snapshot, delivering, seen, cut>>
  BY <1>1, CarriedFrame DEF ConvergenceInv
<1>2. ASSUME BatchBegin \/ (\E err \in BOOLEAN : BatchEnd(err))
             \/ (\E threw \in BOOLEAN : Return(threw)) \/ FlushDone
             \/ UNCHANGED vars
      PROVE  Carried'
  BY <1>1, <1>2 DEF BatchBegin, BatchEnd, Return, FlushDone, vars, schedulerVars,
                    notifierVars, deliveryVars, historyVars
<1> QED
  BY <1>2, CarriedSet, CarriedSubscribe, CarriedUnsubscribe, CarriedStartJob,
     CarriedCutOffJobs, CarriedNextValue, CarriedCutOffValues,
     CarriedSkipListener, CarriedCallListener, CarriedEndJob
     DEF Next, UserCall, FlushStep

(* ConvergenceInv is an invariant of the specification.                    *)
LEMMA Convergence == Spec => []ConvergenceInv
<1>1. Init => Phases
  BY DEF Init, Phases
<1>2. Init => OneNode
  BY MembersEmpty DEF Init, OneNode, Subscribed
<1>3. Init => Carried
  BY MembersEmpty, NodesAssumption
     DEF Init, Carried, CarriesLast, LastQueued, LastDelivering, LastSeen, Subscribed
<1>4. ConvergenceInv /\ [Next]_vars => ConvergenceInv'
  BY NextTypeOK, NextWakeup, NextPhases, NextOneNode, NextCarried DEF ConvergenceInv
<1>5. Init /\ NoLostWakeup => ConvergenceInv
  BY <1>1, <1>2, <1>3, InitTypeOK DEF ConvergenceInv
<1> QED BY <1>4, <1>5, WakeupsKept, PTL DEF Spec

(* At rest no value is queued anywhere.                                    *)
LEMMA NothingQueuedAtRest ==
    ASSUME NoLostWakeup, Phases, FlushesNow, NEW n \in Nodes
    PROVE  pendingValues[n] = <<>>
<1>1. pendingJobs = <<>> /\ job = None
  BY DEF Phases, FlushesNow
<1>2. ~flushScheduled[n]
  BY <1>1, MembersEmpty DEF NoLostWakeup
<1> QED BY <1>1, <1>2, FlushJobType DEF NoLostWakeup

(* At rest every subscription holds the value of its cell.                 *)
THEOREM SubscribersConverge == Spec => []Converged
<1>1. ConvergenceInv => Converged
  <2> SUFFICES ASSUME ConvergenceInv, Quiescent, NEW c \in Cells \ cut,
                      NEW s \in Subscribed(c)
               PROVE  seen[s] = value[c]
    BY DEF Converged
  <2>1. c \in Nodes /\ pendingValues[c] = <<>> /\ job # FlushJob(c)
    BY NothingQueuedAtRest, NodesAssumption, FlushJobType
       DEF ConvergenceInv, Phases, Quiescent, FlushesNow
  <2> QED BY <2>1 DEF ConvergenceInv, Carried, CarriesLast, LastSeen
<1> QED BY <1>1, Convergence, PTL
-----------------------------------------------------------------------------
(* Every step keeps Coalesced.                                             *)
LEMMA NextCoalesced == ConvergenceInv /\ Coalesced /\ [Next]_vars => Coalesced'
<1> SUFFICES ASSUME ConvergenceInv, Coalesced, [Next]_vars, ~isFlushing',
                    NEW n \in Nodes
             PROVE  Len(pendingValues'[n]) <= 1
  BY DEF Coalesced
<1>1. ASSUME NEW c \in Cells, NEW v \in NextValues(value[c]), Set(c, v)
      PROVE  Len(pendingValues'[n]) <= 1
  <2>1. /\ Notify(c, v) /\ c \in Nodes /\ v \in Values
        /\ pendingValues' = [pendingValues EXCEPT ![c] = Append(Queued(c), v)]
    BY <1>1, NodesAssumption, ValuesAssumption DEF Set, Notify, ConvergenceInv, TypeOK
  <2>2. ~isFlushing
    BY <2>1 DEF Notify, Schedule, BeginFlush
  <2>3. batchDepth > 0
    <3> SUFFICES ASSUME batchDepth = 0 PROVE FALSE
      BY DEF ConvergenceInv, TypeOK
    <3>1. FlushesNow /\ pendingJobs = <<>>
      BY <2>2 DEF ConvergenceInv, Phases, FlushesNow
    <3>2. ~flushScheduled[c]
      BY <2>1, <3>1, MembersEmpty DEF ConvergenceInv, NoLostWakeup
    <3> QED BY <2>1, <3>1, <3>2 DEF Notify, Schedule, BeginFlush
  <2>4. Len(Append(<<>>, v)) = 1
    OBVIOUS
  <2> QED BY <2>1, <2>2, <2>3, <2>4 DEF Queued, Coalesced, ConvergenceInv, TypeOK
<1>2. ASSUME FlushDone PROVE Len(pendingValues'[n]) <= 1
  <2>1. pendingValues' = pendingValues /\ pendingJobs = <<>> /\ job = None
    BY <1>2 DEF FlushDone, notifierVars
  <2>2. ~flushScheduled[n]
    BY <2>1, MembersEmpty DEF ConvergenceInv, NoLostWakeup
  <2>3. pendingValues[n] = <<>>
    BY <2>1, <2>2, FlushJobType DEF ConvergenceInv, NoLostWakeup
  <2>4. Len(<<>>) = 0
    OBVIOUS
  <2> QED BY <2>1, <2>3, <2>4
<1>3. CASE ~isFlushing /\ pendingValues' = pendingValues
  BY <1>3 DEF Coalesced
<1>4. ASSUME UNCHANGED vars PROVE ~isFlushing /\ pendingValues' = pendingValues
  BY <1>4 DEF vars, schedulerVars, notifierVars
<1>5. ASSUME NEW c, NEW s, Subscribe(c, s)
      PROVE  ~isFlushing /\ pendingValues' = pendingValues
  BY <1>5 DEF Subscribe, schedulerVars
<1>6. ASSUME NEW m, NEW i, Unsubscribe(m, i)
      PROVE  ~isFlushing /\ pendingValues' = pendingValues
  BY <1>6 DEF Unsubscribe, schedulerVars
<1>7. ASSUME BatchBegin PROVE ~isFlushing /\ pendingValues' = pendingValues
  BY <1>7 DEF BatchBegin, notifierVars
<1>8. ASSUME NEW err, BatchEnd(err)
      PROVE  ~isFlushing /\ pendingValues' = pendingValues
  BY <1>8 DEF BatchEnd, BeginFlush, notifierVars
<1>9. ASSUME FlushStep, ~FlushDone PROVE FALSE
  BY <1>9 DEF FlushStep, StartJob, CutOffJobs, NextValue, CutOffValues, SkipListener,
              CallListener, Return, EndJob, Delivering, schedulerVars
<1> QED
  BY <1>1, <1>2, <1>3, <1>4, <1>5, <1>6, <1>7, <1>8, <1>9 DEF Next, UserCall

(* A batch leaves one value per notifier to deliver, and nothing else ever *)
(* leaves any.                                                             *)
THEOREM BatchesCoalesce == Spec => []Coalesced
<1>1. Init => Coalesced
  <2>1. Len(<<>>) = 0
    OBVIOUS
  <2> QED BY <2>1 DEF Init, Coalesced
<1> QED BY <1>1, NextCoalesced, Convergence, PTL DEF Spec

(* No listener starts inside a batch.                                      *)
THEOREM BatchesHoldDelivery == Spec => BatchHoldsDelivery
<1>1. /\ ConvergenceInv /\ [Next]_vars
      => [running = None /\ running' # None => batchDepth = 0]_vars
  <2> SUFFICES ASSUME ConvergenceInv, [Next]_vars, running = None, running' # None
               PROVE  batchDepth = 0
    OBVIOUS
  <2>1. CASE CallListener
    BY <2>1 DEF CallListener, Delivering, ConvergenceInv, Phases
  <2> QED
    BY <2>1 DEF Next, UserCall, FlushStep, Set, Subscribe, Unsubscribe, Call, BatchBegin,
         BatchEnd, StartJob, CutOffJobs, NextValue, CutOffValues, SkipListener,
         Return, EndJob, FlushDone, listenerVars, vars
<1> QED BY <1>1, Convergence, PTL DEF Spec, BatchHoldsDelivery
-----------------------------------------------------------------------------
(* Where an error raised since the flush began is kept.                    *)
ErrorsHeld ==
    /\ isFlushing => (raised <=> failed \/ (job # None /\ jobFailed))
    /\ ~isFlushing => (outcome = "threw" <=> raised)

(* Every step keeps ErrorsHeld.                                            *)
LEMMA NextErrorsHeld ==
    ConvergenceInv /\ ErrorsHeld /\ [Next]_vars => ErrorsHeld'
<1> SUFFICES ASSUME ConvergenceInv, ErrorsHeld, [Next]_vars PROVE ErrorsHeld'
  OBVIOUS
<1> USE DEF ErrorsHeld
<1>0. ~isFlushing => job = None
  BY DEF ConvergenceInv, Phases
<1>1. CASE UNCHANGED <<isFlushing, raised, failed, job, jobFailed, outcome>>
  BY <1>1
<1>2. CASE BeginFlush(FALSE) /\ ~isFlushing /\ UNCHANGED job
  BY <1>0, <1>2 DEF BeginFlush
<1>3. ASSUME NEW c, NEW v, Set(c, v) PROVE ErrorsHeld'
  BY <1>1, <1>2, <1>3 DEF Set, Notify, Schedule, FlushesNow, deliveryVars
<1>4. ASSUME NEW err \in BOOLEAN, BatchEnd(err) PROVE ErrorsHeld'
  <2>1. CASE BeginFlush(err) /\ ~isFlushing
    BY <1>0, <1>4, <2>1 DEF BatchEnd, BeginFlush
  <2>2. CASE UNCHANGED <<isFlushing, jobCount, failed, raised>>
    BY <1>1, <1>4, <2>2 DEF BatchEnd, deliveryVars
  <2> QED BY <1>4, <2>1, <2>2 DEF BatchEnd
<1>5. ASSUME StartJob PROVE ErrorsHeld'
  BY <1>5 DEF StartJob, historyVars
<1>6. ASSUME CutOffJobs PROVE ErrorsHeld'
  BY <1>6 DEF CutOffJobs
<1>7. ASSUME CutOffValues PROVE ErrorsHeld'
  BY <1>7 DEF CutOffValues, Delivering, schedulerVars
<1>8. ASSUME NEW threw \in BOOLEAN, Return(threw) PROVE ErrorsHeld'
  <2>1. job # None
    BY <1>8 DEF Return, ConvergenceInv, Phases
  <2> QED BY <1>8, <2>1 DEF Return, schedulerVars
<1>9. ASSUME EndJob PROVE ErrorsHeld'
  BY <1>9 DEF EndJob, CollectErrors, Delivering, historyVars
<1>10. ASSUME FlushDone PROVE ErrorsHeld'
  BY <1>10 DEF FlushDone
<1> QED
  BY <1>1, <1>3, <1>4, <1>5, <1>6, <1>7, <1>8, <1>9, <1>10
     DEF Next, UserCall, FlushStep, Subscribe, Unsubscribe, BatchBegin, NextValue,
         SkipListener, CallListener, schedulerVars, notifierVars, deliveryVars,
         historyVars, vars

(* No error of a flush is lost, and none is made up.                       *)
THEOREM ErrorsAreReported == Spec => []ErrorsReported
<1>1. Init => ErrorsHeld
  BY DEF Init, ErrorsHeld
<1>2. ErrorsHeld => ErrorsReported
  BY DEF ErrorsHeld, ErrorsReported, Quiescent
<1> QED BY <1>1, <1>2, NextErrorsHeld, Convergence, PTL DEF Spec
-----------------------------------------------------------------------------
(* Order, and the refinement of Delivery.                                  *)

(* What orders the writes of a cell.  A theorem about order assumes that   *)
(* every write is larger than the value it replaces, the refinement that it*)
(* is the next number: values are then versions, as Delivery counts them.  *)
EverLarger == Values \subseteq Int /\ \A v \in Values : \A w \in NextValues(v) : v < w
Versioned == Values \subseteq Nat /\ \A v \in Values : NextValues(v) \subseteq {v + 1}
-----------------------------------------------------------------------------
Increasing(q) == \A i, j \in DOMAIN q : i < j => q[i] < q[j]
AllBelow(q, v) == \A w \in Members(q) : w <= v
AllAbove(q, v) == \A w \in Members(q) : v < w

(* Only a state() cell is ever subscribed to in this module.               *)
OnlyCells == \A n \in Nodes \ Cells : Subscribed(n) = {}

(* A Set of subscriptions, and a snapshot of one, holds each once.         *)
NoRepeats == Distinct(snapshot) /\ \A n \in Nodes : Distinct(subs[n])

(* The queue of a cell is in the order of the writes, holds nothing newer  *)
(* than the cell, and nothing a subscription called before has had.        *)
QueueOrder(c) ==
    /\ Increasing(pendingValues[c])
    /\ AllBelow(pendingValues[c], value[c])
    /\ \A s \in Subscribed(c) :
        /\ seen[s] <= value[c]
        /\ s \in notified => AllAbove(pendingValues[c], seen[s])

(* So is what the flush holds in its hands: older than what is queued, and *)
(* newer than what those it has yet to visit were given.                   *)
HandsOrder(c) ==
    job = FlushJob(c) /\ snapshot # <<>> =>
        /\ delivering <= value[c]
        /\ AllAbove(pendingValues[c], delivering)
        /\ \A s \in Members(snapshot) \cap Subscribed(c) \cap notified :
              seen[s] < delivering

Ordered == \A c \in Cells : QueueOrder(c) /\ HandsOrder(c)
OrderInv == ConvergenceInv /\ OnlyCells /\ NoRepeats /\ Ordered
-----------------------------------------------------------------------------
(* The order of a queue under the operations of notify() and flush().      *)

LEMMA IncreasingAppend ==
    ASSUME NEW S, S \subseteq Int, NEW q \in Seq(S), NEW v \in S, Increasing(q),
           \A w \in Members(q) : w < v
    PROVE  Increasing(Append(q, v))
<1>1. /\ Append(q, v) \in Seq(S)
      /\ Len(Append(q, v)) = Len(q) + 1
      /\ \A i \in 1..Len(q) : Append(q, v)[i] = q[i]
      /\ Append(q, v)[Len(q) + 1] = v
  BY AppendProperties
<1>2. /\ DOMAIN q = 1..Len(q) /\ DOMAIN Append(q, v) = 1..(Len(q) + 1)
      /\ Len(q) \in Nat
  BY <1>1, LenProperties
<1>3. \A i \in 1..Len(q) : q[i] < v
  BY <1>2 DEF Members
<1> QED BY <1>1, <1>2, <1>3 DEF Increasing

(* The head of an increasing queue is smaller than what is left.           *)
LEMMA IncreasingTail ==
    ASSUME NEW S, NEW q \in Seq(S), q # <<>>, Increasing(q)
    PROVE  Increasing(Tail(q)) /\ AllAbove(Tail(q), Head(q))
<1>1. /\ Tail(q) \in Seq(S)
      /\ Len(Tail(q)) = Len(q) - 1
      /\ \A i \in 1..Len(Tail(q)) : Tail(q)[i] = q[i + 1]
      /\ Head(q) = q[1]
  BY HeadTailProperties
<1>2. /\ DOMAIN q = 1..Len(q) /\ DOMAIN Tail(q) = 1..Len(Tail(q))
      /\ Len(q) \in Nat /\ Len(q) > 0
  BY <1>1, LenProperties, EmptySeq
<1>3. Increasing(Tail(q))
  BY <1>1, <1>2 DEF Increasing
<1>4. AllAbove(Tail(q), Head(q))
  <2> SUFFICES ASSUME NEW i \in 1..Len(Tail(q)) PROVE q[1] < q[i + 1]
    BY <1>1, <1>2 DEF AllAbove, Members
  <2> QED BY <1>1, <1>2 DEF Increasing
<1> QED BY <1>3, <1>4

LEMMA EmptyQueue == Increasing(<<>>) /\ \A v : AllBelow(<<>>, v) /\ AllAbove(<<>>, v)
BY MembersEmpty DEF Increasing, AllBelow, AllAbove

(* Unsubscribing takes one identity out of a Set and leaves the others.    *)
LEMMA WithoutDistinct ==
    ASSUME NEW S, NEW s \in Seq(S), NEW i \in DOMAIN s, Distinct(s)
    PROVE  /\ Distinct(Without(s, i))
           /\ Members(Without(s, i)) = Members(s) \ {s[i]}
<1> DEFINE l == SubSeq(s, 1, i - 1)
           r == SubSeq(s, i + 1, Len(s))
           w == Without(s, i)
<1>1. DOMAIN s = 1..Len(s) /\ Len(s) \in Nat /\ i \in 1..Len(s)
  BY LenProperties
<1>2. l \in Seq(S) /\ r \in Seq(S)
  <2>1. \A j \in 1..(i - 1) : s[j] \in S
    BY <1>1, ElementOfSeq
  <2>2. \A j \in (i + 1)..Len(s) : s[j] \in S
    BY <1>1, ElementOfSeq
  <2> QED BY <1>1, <2>1, <2>2, SubSeqProperties
<1>3. Len(l) = i - 1 /\ \A j \in 1..Len(l) : l[j] = s[j]
  BY <1>1, <1>2, LenProperties, SubSeqProperties
<1>4. Len(r) = Len(s) - i /\ \A j \in 1..Len(r) : r[j] = s[i + j]
  BY <1>1, <1>2, LenProperties, SubSeqProperties
<1>5. /\ w \in Seq(S) /\ DOMAIN w = 1..(Len(s) - 1)
      /\ \A j \in 1..(Len(s) - 1) : w[j] = IF j < i THEN s[j] ELSE s[j + 1]
  <2> HIDE DEF l, r
  <2>1. /\ l \o r \in Seq(S) /\ Len(l \o r) = Len(l) + Len(r)
        /\ \A j \in 1..(Len(l) + Len(r)) :
             (l \o r)[j] = IF j <= Len(l) THEN l[j] ELSE r[j - Len(l)]
    BY <1>2, ConcatProperties
  <2>2. w = l \o r
    BY DEF Without, l, r
  <2>3. Len(l) + Len(r) = Len(s) - 1
    BY <1>1, <1>3, <1>4
  <2>4. w \in Seq(S) /\ DOMAIN w = 1..(Len(s) - 1)
    BY <2>1, <2>2, <2>3, LenProperties
  <2>5. ASSUME NEW j \in 1..(Len(s) - 1)
        PROVE  w[j] = IF j < i THEN s[j] ELSE s[j + 1]
    <3>1. w[j] = IF j <= i - 1 THEN l[j] ELSE r[j - (i - 1)]
      BY <1>3, <2>1, <2>2, <2>3
    <3> QED BY <1>1, <1>3, <1>4, <3>1
  <2> QED BY <2>4, <2>5
<1> HIDE DEF w
<1>6. Distinct(w)
  <2> DEFINE at(j) == IF j < i THEN j ELSE j + 1
  <2>1. \A j \in 1..(Len(s) - 1) : at(j) \in 1..Len(s) /\ w[j] = s[at(j)]
    BY <1>1, <1>5
  <2>2. \A j, k \in 1..(Len(s) - 1) : at(j) = at(k) => j = k
    BY <1>1
  <2> HIDE DEF at
  <2> QED BY <1>1, <1>5, <2>1, <2>2 DEF Distinct
<1>7. Members(w) \subseteq Members(s) \ {s[i]}
  BY <1>1, <1>5 DEF Members, Distinct
<1>8. ASSUME NEW j \in 1..Len(s), j # i PROVE s[j] \in Members(w)
  <2>1. CASE j < i
    BY <1>1, <1>5, <2>1 DEF Members
  <2>2. CASE j > i
    <3>1. j - 1 \in 1..(Len(s) - 1) /\ w[j - 1] = s[j]
      BY <1>1, <1>5, <2>2
    <3> QED BY <1>5, <3>1 DEF Members
  <2> QED BY <1>1, <1>8, <2>1, <2>2
<1> QED BY <1>1, <1>6, <1>7, <1>8 DEF Members, w
-----------------------------------------------------------------------------
(* Every step keeps OnlyCells.                                             *)
LEMMA NextOnlyCells == TypeOK /\ OnlyCells /\ [Next]_vars => OnlyCells'
<1> SUFFICES ASSUME TypeOK, OnlyCells, [Next]_vars PROVE OnlyCells'
  OBVIOUS
<1>1. CASE UNCHANGED subs
  BY <1>1 DEF OnlyCells, Subscribed
<1>2. ASSUME NEW c \in Cells, NEW s \in UserSubs, Subscribe(c, s)
      PROVE  OnlyCells'
  <2>1. subs' = [subs EXCEPT ![c] = Append(@, s)]
    BY <1>2 DEF Subscribe
  <2> QED BY <2>1 DEF OnlyCells, Subscribed, TypeOK
<1>3. ASSUME NEW n \in Nodes, NEW i \in DOMAIN subs[n], Unsubscribe(n, i)
      PROVE  OnlyCells'
  <2>1. subs' = [subs EXCEPT ![n] = Without(subs[n], i)]
    BY <1>3 DEF Unsubscribe
  <2>2. Subscribed(n)' \subseteq Subscribed(n)
    BY <2>1, WithoutProperties DEF Subscribed, TypeOK
  <2>3. \A m \in Nodes : m # n => Subscribed(m)' = Subscribed(m)
    BY <2>1 DEF Subscribed, TypeOK
  <2> QED BY <2>2, <2>3 DEF OnlyCells
<1> QED
  BY <1>1, <1>2, <1>3
     DEF Next, UserCall, FlushStep, Set, BatchBegin, BatchEnd, StartJob, CutOffJobs,
         NextValue, CutOffValues, SkipListener, CallListener, Return, EndJob,
         FlushDone, notifierVars, vars

(* Every step keeps NoRepeats.                                             *)
LEMMA NextNoRepeats == TypeOK /\ NoRepeats /\ [Next]_vars => NoRepeats'
<1> SUFFICES ASSUME TypeOK, NoRepeats, [Next]_vars PROVE NoRepeats'
  OBVIOUS
<1>1. CASE UNCHANGED <<subs, snapshot>>
  BY <1>1 DEF NoRepeats
<1>2. ASSUME NEW c \in Cells, NEW s \in UserSubs, Subscribe(c, s)
      PROVE  NoRepeats'
  <2>1. /\ c \in Nodes /\ s \in Subs /\ s \notin Members(subs[c])
        /\ subs' = [subs EXCEPT ![c] = Append(@, s)] /\ snapshot' = snapshot
    BY <1>2, NodesAssumption, SubsAssumption DEF Subscribe, Subscribed, deliveryVars
  <2>2. Distinct(Append(subs[c], s))
    BY <2>1, DistinctAppend DEF TypeOK, NoRepeats
  <2> QED BY <2>1, <2>2 DEF NoRepeats, TypeOK
<1>3. ASSUME NEW n \in Nodes, NEW i \in DOMAIN subs[n], Unsubscribe(n, i)
      PROVE  NoRepeats'
  <2>1. subs' = [subs EXCEPT ![n] = Without(subs[n], i)] /\ snapshot' = snapshot
    BY <1>3 DEF Unsubscribe, deliveryVars
  <2>2. Distinct(Without(subs[n], i))
    BY WithoutDistinct DEF TypeOK, NoRepeats
  <2> QED BY <2>1, <2>2 DEF NoRepeats, TypeOK
<1>4. ASSUME NextValue PROVE NoRepeats'
  <2>1. job.node \in Nodes /\ subs' = subs /\ snapshot' = subs[job.node]
    BY <1>4, JobNode DEF TypeOK, NextValue, Delivering
  <2> QED BY <2>1 DEF NoRepeats
<1>5. ASSUME SkipListener \/ CallListener PROVE NoRepeats'
  <2>1. snapshot # <<>> /\ subs' = subs /\ snapshot' = Tail(snapshot)
    BY <1>5 DEF SkipListener, CallListener, notifierVars
  <2> QED BY <2>1, DistinctTail DEF NoRepeats, TypeOK
<1> QED
  BY <1>1, <1>2, <1>3, <1>4, <1>5
     DEF Next, UserCall, FlushStep, Set, BatchBegin, BatchEnd, StartJob, CutOffJobs,
         CutOffValues, Return, EndJob, FlushDone, notifierVars, deliveryVars, vars
-----------------------------------------------------------------------------
LEMMA MembersIn == ASSUME NEW S, NEW s \in Seq(S) PROVE Members(s) \subseteq S
BY ElementOfSeq, LenProperties DEF Members

(* The values and what subscriptions have seen are numbers.                *)
LEMMA Numbers ==
    ASSUME TypeOK, EverLarger
    PROVE  /\ \A c \in Cells : value[c] \in Int /\ Members(pendingValues[c]) \subseteq Int
           /\ \A s \in Subs : seen[s] \in Int
           /\ delivering \in Int
           /\ \A n \in Nodes : Subscribed(n) \subseteq Subs
           /\ Members(snapshot) \subseteq Subs
<1>1. \A c \in Cells : c \in Nodes /\ value[c] \in Values /\ Members(pendingValues[c]) \subseteq Values
  BY NodesAssumption, MembersIn DEF TypeOK
<1>2. /\ \A n \in Nodes : Subscribed(n) \subseteq Subs
      /\ Members(snapshot) \subseteq Subs
  BY MembersIn DEF TypeOK, Subscribed
<1> QED BY <1>1, <1>2 DEF TypeOK, EverLarger

(* A step that disturbs no cell and no delivery keeps the order.           *)
LEMMA OrderedFrame ==
    ASSUME Ordered,
           UNCHANGED <<value, subs, pendingValues, job, snapshot, delivering,
                       seen, notified>>
    PROVE  Ordered'
BY DEF Ordered, QueueOrder, HandsOrder, Subscribed, AllAbove, AllBelow

(* A write is later than all before it.                                    *)
LEMMA OrderedSet ==
    ASSUME EverLarger, OrderInv,
           NEW c \in Cells, NEW v \in NextValues(value[c]), Set(c, v)
    PROVE  Ordered'
<1>1. /\ c \in Nodes /\ v \in Values /\ value' = [value EXCEPT ![c] = v]
      /\ pendingValues' = [pendingValues EXCEPT ![c] = Append(Queued(c), v)]
      /\ UNCHANGED <<subs, job, snapshot, delivering, seen, notified>>
      /\ value[c] \in Int /\ v \in Int /\ value[c] < v
  BY NodesAssumption, ValuesAssumption
     DEF OrderInv, ConvergenceInv, TypeOK, Set, Notify, deliveryVars, EverLarger
<1>2. /\ Queued(c) \in Seq(Values) /\ Members(Queued(c)) \subseteq Members(pendingValues[c])
      /\ Increasing(Queued(c))
  BY <1>1, MembersEmpty, EmptyQueue
     DEF OrderInv, ConvergenceInv, TypeOK, Queued, Ordered, QueueOrder
<1>3. \A w \in Members(Queued(c)) : w <= value[c] /\ w \in Int
  BY <1>1, <1>2, Numbers
     DEF OrderInv, ConvergenceInv, Ordered, QueueOrder, AllBelow
<1>4. /\ Increasing(Append(Queued(c), v))
      /\ Members(Append(Queued(c), v)) = Members(Queued(c)) \cup {v}
  <2>1. \A w \in Members(Queued(c)) : w < v
    BY <1>1, <1>3
  <2>2. v \in Values /\ Values \subseteq Int
    BY <1>1 DEF EverLarger
  <2>3. Increasing(Append(Queued(c), v))
    BY <1>2, <2>1, <2>2, IncreasingAppend
  <2> QED BY <1>2, <2>2, <2>3, MembersAppend
<1>5. ASSUME NEW d \in Cells PROVE QueueOrder(d)' /\ HandsOrder(d)'
  <2>0. QueueOrder(d) /\ HandsOrder(d) /\ d \in Nodes /\ Subscribed(d)' = Subscribed(d)
    BY <1>1, NodesAssumption DEF OrderInv, Ordered, Subscribed
  <2>1. CASE d # c
    <3>1. value'[d] = value[d] /\ pendingValues'[d] = pendingValues[d]
      BY <1>1, <2>1, <2>0 DEF OrderInv, ConvergenceInv, TypeOK
    <3> QED BY <1>1, <2>0, <3>1 DEF QueueOrder, HandsOrder
  <2>2. CASE d = c
    <3> DEFINE q == Append(Queued(c), v)
    <3>1. value'[c] = v /\ pendingValues'[c] = q
      BY <1>1 DEF OrderInv, ConvergenceInv, TypeOK
    <3>2. /\ value[c] \in Int /\ v \in Int /\ delivering \in Int
          /\ \A s \in Subscribed(c) : seen[s] \in Int
      BY <1>1, <2>0, <2>2, Numbers DEF OrderInv, ConvergenceInv, EverLarger
    <3>3. AllBelow(q, v)
      BY <1>1, <1>3, <1>4, <3>2 DEF AllBelow
    <3>4. \A x \in Int : AllAbove(pendingValues[c], x) /\ x <= value[c] => AllAbove(q, x)
      BY <1>1, <1>2, <1>4, <3>2 DEF AllAbove
    <3> HIDE DEF q
    <3>5. QueueOrder(c)'
      <4>1. Increasing(q)
        BY <1>4 DEF q
      <4>2. ASSUME NEW s \in Subscribed(c)
            PROVE  seen[s] <= v /\ (s \in notified => AllAbove(q, seen[s]))
        BY <1>1, <2>0, <2>2, <3>2, <3>4 DEF QueueOrder
      <4> QED BY <1>1, <2>0, <2>2, <3>1, <3>3, <4>1, <4>2 DEF QueueOrder
    <3>6. HandsOrder(c)'
      <4>1. delivering <= value[c] => delivering <= v
        BY <1>1, <3>2
      <4>2. AllAbove(pendingValues[c], delivering) /\ delivering <= value[c] => AllAbove(q, delivering)
        BY <3>2, <3>4
      <4> QED BY <1>1, <2>0, <2>2, <3>1, <4>1, <4>2 DEF HandsOrder
    <3> QED BY <2>2, <3>5, <3>6
  <2> QED BY <2>1, <2>2
<1> QED BY <1>5 DEF Ordered

(* A new subscription has seen what its cell holds, and no value is in     *)
(* anyone's hands for it.                                                  *)
LEMMA OrderedSubscribe ==
    ASSUME EverLarger, OrderInv, NEW c \in Cells, NEW s \in UserSubs, Subscribe(c, s)
    PROVE  Ordered'
<1>1. /\ c \in Nodes /\ s \in Subs /\ s \notin Members(snapshot)
      /\ subs' = [subs EXCEPT ![c] = Append(@, s)]
      /\ seen' = [seen EXCEPT ![s] = value[c]] /\ notified' = notified \ {s}
      /\ UNCHANGED <<value, pendingValues, job, snapshot, delivering>>
      /\ \A n \in Nodes : s \notin Subscribed(n)
  BY NodesAssumption, SubsAssumption DEF Subscribe, deliveryVars, schedulerVars
<1>2. Subscribed(c)' = Subscribed(c) \cup {s}
  BY <1>1, MembersAppend DEF Subscribed, OrderInv, ConvergenceInv, TypeOK
<1>3. \A d \in Cells : d # c => Subscribed(d)' = Subscribed(d)
  BY <1>1, NodesAssumption DEF Subscribed, OrderInv, ConvergenceInv, TypeOK
<1>4. seen'[s] = value[c] /\ \A r \in Subs : r # s => seen'[r] = seen[r]
  BY <1>1 DEF OrderInv, ConvergenceInv, TypeOK
<1>5. /\ \A d \in Cells : value[d] \in Int /\ d \in Nodes
      /\ \A n \in Nodes : Subscribed(n) \subseteq Subs
      /\ Members(snapshot) \subseteq Subs
  BY Numbers, NodesAssumption DEF OrderInv, ConvergenceInv
<1>6. ASSUME NEW d \in Cells PROVE QueueOrder(d)'
  <2>1. QueueOrder(d)
    BY DEF OrderInv, Ordered
  <2> QED BY <1>1, <1>2, <1>3, <1>4, <1>5, <2>1 DEF QueueOrder
<1>7. ASSUME NEW d \in Cells PROVE HandsOrder(d)'
  <2>1. HandsOrder(d)
    BY DEF OrderInv, Ordered
  <2>2. /\ Members(snapshot') \cap Subscribed(d)' \cap notified'
             \subseteq Members(snapshot) \cap Subscribed(d) \cap notified
        /\ s \notin Members(snapshot) /\ Members(snapshot) \subseteq Subs
    BY <1>1, <1>2, <1>3, <1>5
  <2> QED BY <1>1, <1>4, <2>1, <2>2 DEF HandsOrder
<1> QED BY <1>6, <1>7 DEF Ordered

LEMMA OrderedUnsubscribe ==
    ASSUME OrderInv, NEW n \in Nodes, NEW i \in DOMAIN subs[n], Unsubscribe(n, i)
    PROVE  Ordered'
<1>1. /\ subs' = [subs EXCEPT ![n] = Without(subs[n], i)]
      /\ UNCHANGED <<value, pendingValues, job, snapshot, delivering, seen, notified>>
  BY DEF Unsubscribe, deliveryVars, schedulerVars, historyVars
<1>2. \A d \in Cells : Subscribed(d)' \subseteq Subscribed(d)
  <2>1. Subscribed(n)' \subseteq Subscribed(n)
    BY <1>1, WithoutProperties DEF Subscribed, OrderInv, ConvergenceInv, TypeOK
  <2>2. \A m \in Nodes : m # n => Subscribed(m)' = Subscribed(m)
    BY <1>1 DEF Subscribed, OrderInv, ConvergenceInv, TypeOK
  <2> QED BY <2>1, <2>2, NodesAssumption
<1> QED BY <1>1, <1>2 DEF OrderInv, Ordered, QueueOrder, HandsOrder

(* A job is taken with no value in the hands of the flush.                 *)
LEMMA OrderedStartJob == ASSUME OrderInv, StartJob PROVE Ordered'
<1>1. /\ snapshot' = <<>>
      /\ UNCHANGED <<value, subs, pendingValues, seen, notified>>
  BY DEF StartJob, OrderInv, ConvergenceInv, Phases, historyVars
<1> QED BY <1>1 DEF OrderInv, Ordered, QueueOrder, HandsOrder, Subscribed

(* A cutoff empties queues and changes nothing else.                       *)
LEMMA OrderedCutOff ==
    ASSUME OrderInv, CutOffJobs \/ CutOffValues PROVE Ordered'
<1>1. /\ \A c \in Cells : pendingValues'[c] \in {pendingValues[c], <<>>}
      /\ UNCHANGED <<value, subs, job, snapshot, delivering, seen, notified>>
  <2>1. CASE CutOffJobs
    BY <2>1, NodesAssumption DEF CutOffJobs, DiscardFlushes, deliveryVars
  <2>2. CASE CutOffValues
    BY <2>2, NodesAssumption
       DEF CutOffValues, schedulerVars, OrderInv, ConvergenceInv, TypeOK
  <2> QED BY <2>1, <2>2
<1>2. ASSUME NEW c \in Cells PROVE QueueOrder(c)' /\ HandsOrder(c)'
  <2>1. QueueOrder(c) /\ HandsOrder(c) /\ Subscribed(c)' = Subscribed(c)
    BY <1>1 DEF OrderInv, Ordered, Subscribed
  <2>2. CASE pendingValues'[c] = pendingValues[c]
    BY <1>1, <2>1, <2>2 DEF QueueOrder, HandsOrder
  <2>3. CASE pendingValues'[c] = <<>>
    BY <1>1, <2>1, <2>3, EmptyQueue DEF QueueOrder, HandsOrder
  <2> QED BY <1>1, <2>2, <2>3
<1> QED BY <1>2 DEF Ordered

(* The oldest queued value is newer than what any subscription has had and *)
(* older than what stays queued.                                           *)
LEMMA OrderedNextValue ==
    ASSUME EverLarger, OrderInv, NextValue PROVE Ordered'
<1> DEFINE n == job.node
           q == pendingValues[n]
<1>1. /\ n \in Nodes /\ q \in Seq(Values) /\ q # <<>>
      /\ pendingValues' = [pendingValues EXCEPT ![n] = Tail(q)]
      /\ delivering' = Head(q) /\ snapshot' = subs[n]
      /\ UNCHANGED <<value, subs, job, seen, notified>>
  BY JobNode DEF OrderInv, ConvergenceInv, TypeOK, NextValue, Delivering,
                 schedulerVars, historyVars
<1>2. /\ Tail(q) \in Seq(Values) /\ Members(q) = {Head(q)} \cup Members(Tail(q))
  BY <1>1, MembersTail
<1>3. ASSUME NEW c \in Cells PROVE QueueOrder(c)' /\ HandsOrder(c)'
  <2>0. QueueOrder(c) /\ HandsOrder(c) /\ c \in Nodes /\ Subscribed(c)' = Subscribed(c)
    BY <1>1, NodesAssumption DEF OrderInv, Ordered, Subscribed
  <2>1. CASE c # n
    <3>1. job' # FlushJob(c)
      BY <1>1, <2>1
    <3>2. pendingValues'[c] = pendingValues[c]
      BY <1>1, <2>1, <2>0 DEF OrderInv, ConvergenceInv, TypeOK
    <3> QED BY <1>1, <2>0, <3>1, <3>2 DEF QueueOrder, HandsOrder
  <2>2. CASE c = n
    <3>1. pendingValues'[c] = Tail(q)
      BY <1>1, <2>2 DEF OrderInv, ConvergenceInv, TypeOK
    <3>2. Increasing(Tail(q)) /\ AllAbove(Tail(q), Head(q))
      BY <1>1, <2>0, <2>2, IncreasingTail DEF QueueOrder
    <3>3. /\ AllBelow(Tail(q), value[c]) /\ Head(q) <= value[c]
          /\ \A s \in Subscribed(c) : s \in notified =>
                AllAbove(Tail(q), seen[s]) /\ seen[s] < Head(q)
      BY <1>2, <2>0, <2>2 DEF QueueOrder, AllBelow, AllAbove
    <3> HIDE DEF q
    <3>4. QueueOrder(c)'
      BY <1>1, <2>0, <3>1, <3>2, <3>3 DEF QueueOrder
    <3>5. HandsOrder(c)'
      BY <1>1, <2>2, <3>1, <3>2, <3>3 DEF HandsOrder, Subscribed
    <3> QED BY <3>4, <3>5
  <2> QED BY <2>1, <2>2
<1> QED BY <1>3 DEF Ordered

LEMMA OrderedSkipListener == ASSUME OrderInv, SkipListener PROVE Ordered'
<1>1. /\ snapshot # <<>> /\ snapshot' = Tail(snapshot)
      /\ UNCHANGED <<value, subs, pendingValues, job, delivering, seen, notified>>
  BY DEF SkipListener, schedulerVars, notifierVars, historyVars
<1>2. Members(snapshot') \subseteq Members(snapshot)
  BY <1>1, MembersTail DEF OrderInv, ConvergenceInv, TypeOK
<1> QED BY <1>1, <1>2 DEF OrderInv, Ordered, QueueOrder, HandsOrder, Subscribed

(* What a called listener is given, told by the state before the call.     *)
LEMMA Called ==
    ASSUME EverLarger, OrderInv, CallListener
    PROVE  /\ Head(snapshot) \in Subs /\ job.node \in Cells
           /\ job = FlushJob(job.node)
           /\ Head(snapshot) \in Subscribed(job.node)
           /\ delivering <= value[job.node]
           /\ AllAbove(pendingValues[job.node], delivering)
           /\ Head(snapshot) \in notified => seen[Head(snapshot)] < delivering
           /\ \A c \in Cells : c # job.node => Head(snapshot) \notin Subscribed(c)
<1> DEFINE h == Head(snapshot)
<1>0. ConvergenceInv
  BY DEF OrderInv
<1>1. /\ snapshot # <<>> /\ h \in Subscribed(job.node) /\ h \in Subs
      /\ job.node \in Nodes /\ job = FlushJob(job.node)
  BY <1>0, JobNode, SubsAssumption
     DEF ConvergenceInv, TypeOK, Jobs, CallListener, Active, Delivering
<1>2. job.node \in Cells
  BY <1>1 DEF OrderInv, OnlyCells
<1>3. h \in Members(snapshot)
  BY <1>1, MembersTail DEF OrderInv, ConvergenceInv, TypeOK
<1>4. HandsOrder(job.node)
  BY <1>2 DEF OrderInv, Ordered
<1>5. \A c \in Cells : c # job.node => h \notin Subscribed(c)
  BY <1>1, NodesAssumption DEF OrderInv, ConvergenceInv, OneNode
<1> QED BY <1>1, <1>2, <1>3, <1>4, <1>5 DEF HandsOrder

LEMMA OrderedCallListener ==
    ASSUME EverLarger, OrderInv, CallListener PROVE Ordered'
<1> DEFINE h == Head(snapshot)
<1>1. /\ snapshot # <<>> /\ snapshot' = Tail(snapshot)
      /\ seen' = [seen EXCEPT ![h] = delivering] /\ notified' = notified \cup {h}
      /\ UNCHANGED <<value, subs, pendingValues, job, delivering>>
  BY DEF CallListener, schedulerVars, notifierVars
<1>2. /\ Members(snapshot') \subseteq Members(snapshot)
      /\ h \notin Members(snapshot')
  BY <1>1, MembersTail, DistinctTail DEF OrderInv, NoRepeats, ConvergenceInv, TypeOK
<1>3. seen'[h] = delivering /\ \A s \in Subs : s # h => seen'[s] = seen[s]
  BY <1>1, Called DEF OrderInv, ConvergenceInv, TypeOK
<1>4. /\ \A n \in Nodes : Subscribed(n) \subseteq Subs
      /\ Members(snapshot) \subseteq Subs
  BY Numbers DEF OrderInv, ConvergenceInv
<1>5. ASSUME NEW c \in Cells PROVE QueueOrder(c)' /\ HandsOrder(c)'
  <2>1. QueueOrder(c) /\ HandsOrder(c) /\ c \in Nodes /\ Subscribed(c)' = Subscribed(c)
    BY <1>1, NodesAssumption DEF OrderInv, Ordered, Subscribed
  <2>2. h \in Subscribed(c) =>
            delivering <= value[c] /\ AllAbove(pendingValues[c], delivering)
    BY Called, NodesAssumption DEF OrderInv, ConvergenceInv, OneNode
  <2>3. QueueOrder(c)'
    BY <1>1, <1>3, <1>4, <2>1, <2>2 DEF QueueOrder
  <2>4. HandsOrder(c)'
    BY <1>1, <1>2, <1>3, <1>4, <2>1 DEF HandsOrder
  <2> QED BY <2>3, <2>4
<1> QED BY <1>5 DEF Ordered

LEMMA OrderedEndJob == ASSUME OrderInv, EndJob PROVE Ordered'
<1>1. /\ snapshot' = <<>>
      /\ UNCHANGED <<value, subs, pendingValues, seen, notified>>
  BY DEF EndJob, notifierVars, deliveryVars, historyVars
<1> QED BY <1>1 DEF OrderInv, Ordered, QueueOrder, HandsOrder, Subscribed

(* Every step keeps Ordered.                                               *)
LEMMA NextOrdered == EverLarger /\ OrderInv /\ [Next]_vars => Ordered'
<1> SUFFICES ASSUME EverLarger, OrderInv, [Next]_vars PROVE Ordered'
  OBVIOUS
<1>1. ASSUME BatchBegin \/ (\E err \in BOOLEAN : BatchEnd(err))
             \/ (\E threw \in BOOLEAN : Return(threw)) \/ FlushDone
             \/ UNCHANGED vars
      PROVE  UNCHANGED <<value, subs, pendingValues, job, snapshot, delivering,
                         seen, notified>>
  BY <1>1 DEF BatchBegin, BatchEnd, Return, FlushDone, vars, schedulerVars,
              notifierVars, deliveryVars, historyVars
<1>2. ASSUME BatchBegin \/ (\E err \in BOOLEAN : BatchEnd(err))
             \/ (\E threw \in BOOLEAN : Return(threw)) \/ FlushDone
             \/ UNCHANGED vars
      PROVE  Ordered'
  BY <1>1, <1>2, OrderedFrame DEF OrderInv
<1> QED
  BY <1>2, OrderedSet, OrderedSubscribe, OrderedUnsubscribe, OrderedStartJob,
     OrderedCutOff, OrderedNextValue, OrderedSkipListener, OrderedCallListener,
     OrderedEndJob DEF Next, UserCall, FlushStep

(* OrderInv is an invariant when writes are ever larger.                   *)
LEMMA OrderKept == ASSUME EverLarger PROVE Spec => []OrderInv
<1>1. Init => OnlyCells /\ NoRepeats /\ Ordered
  BY MembersEmpty, EmptyQueue, NodesAssumption
     DEF Init, OnlyCells, NoRepeats, Distinct, Ordered, QueueOrder, HandsOrder, Subscribed
<1>2. ConvergenceInv /\ [Next]_vars => ConvergenceInv'
  BY NextTypeOK, NextWakeup, NextPhases, NextOneNode, NextCarried DEF ConvergenceInv
<1>3. OrderInv /\ [Next]_vars => OrderInv'
  BY <1>2, NextOnlyCells, NextNoRepeats, NextOrdered DEF OrderInv, ConvergenceInv
<1>4. Init /\ ConvergenceInv => OrderInv
  BY <1>1 DEF OrderInv
<1> QED BY <1>3, <1>4, Convergence, PTL DEF Spec
-----------------------------------------------------------------------------
(* A subscription called before is called only with a later write.         *)
THEOREM DeliversInOrder == ASSUME EverLarger PROVE Spec => InOrder
<1>1. OrderInv /\ [Next]_vars
      => [\A s \in notified : running = None /\ running' = s => seen'[s] > seen[s]]_vars
  <2> SUFFICES ASSUME OrderInv, [Next]_vars, NEW s \in notified,
                      running = None, running' = s
               PROVE  seen'[s] > seen[s]
    OBVIOUS
  <2>0. s # None /\ s \in Subs
    BY SubsAssumption DEF OrderInv, ConvergenceInv, TypeOK
  <2>1. CASE CallListener
    <3>1. running' = Head(snapshot) /\ seen' = [seen EXCEPT ![Head(snapshot)] = delivering]
      BY <2>1 DEF CallListener
    <3>2. seen'[s] = delivering /\ seen[s] < delivering
      BY <2>0, <2>1, <3>1, Called DEF OrderInv, ConvergenceInv, TypeOK
    <3>3. delivering \in Int /\ seen[s] \in Int
      BY <2>0, Numbers DEF OrderInv, ConvergenceInv
    <3> QED BY <3>2, <3>3
  <2>2. CASE ~CallListener
    <3>1. running' \in {running, None}
      BY <2>2 DEF Next, UserCall, FlushStep, Set, Subscribe, Unsubscribe, Call, BatchBegin,
         BatchEnd, StartJob, CutOffJobs, NextValue, CutOffValues, SkipListener,
         Return, EndJob, FlushDone, listenerVars, vars
    <3> QED BY <2>0, <3>1
  <2> QED BY <2>1, <2>2
<1> QED BY <1>1, OrderKept, PTL DEF Spec, InOrder
-----------------------------------------------------------------------------
(* The refinement: what each step is to Delivery.                          *)

Promised == [c \in Cells |-> Subscribed(c)]

LEMMA VersionsGrow == Versioned => EverLarger
BY DEF Versioned, EverLarger

(* A step that Delivery cannot see.                                        *)
LEMMA Unseen ==
    ASSUME UNCHANGED <<value, subs, seen, notified, cut>>, Quiescent' = Quiescent
    PROVE  UNCHANGED Abstract!vars
BY DEF Abstract!vars, Subscribed

(* set() is a write, and leaves a call or a batch open.                    *)
LEMMA WriteStep ==
    ASSUME Versioned, OrderInv, NEW c \in Cells, NEW v \in NextValues(value[c]),
           Set(c, v)
    PROVE  Abstract!Write(c)
<1>1. /\ v = value[c] + 1 /\ c \in Nodes
      /\ value' = [value EXCEPT ![c] = v] /\ cut' = cut \ {c}
      /\ Notify(c, v) /\ UNCHANGED <<subs, batchDepth, seen, notified>>
  BY NodesAssumption DEF Versioned, Set, OrderInv, ConvergenceInv, TypeOK
<1>2. ~Quiescent'
  <2>1. CASE ~FlushesNow
    BY <1>1, <2>1 DEF FlushesNow, Quiescent, Notify, Schedule
  <2>2. CASE FlushesNow
    <3>1. pendingJobs = <<>> /\ ~flushScheduled[c]
      BY <1>1, <2>2, MembersEmpty DEF OrderInv, ConvergenceInv, Phases, NoLostWakeup
    <3> QED BY <1>1, <2>2, <3>1 DEF Quiescent, Notify, Schedule, BeginFlush
  <2> QED BY <2>1, <2>2
<1>3. value' = [value EXCEPT ![c] = @ + 1]
  BY <1>1
<1>4. cut' \cap Cells = (cut \cap Cells) \ {c}
  BY <1>1
<1>5. Promised' = Promised
  BY <1>1 DEF Promised, Subscribed
<1> QED BY <1>1, <1>2, <1>3, <1>4, <1>5 DEF Abstract!Write, Promised

(* subscribe() joins.                                                      *)
LEMMA JoinStep ==
    ASSUME OrderInv, NEW c \in Cells, NEW s \in UserSubs, Subscribe(c, s)
    PROVE  Abstract!Join(c, s)
<1>1. /\ c \in Nodes /\ s \in Subs
      /\ subs' = [subs EXCEPT ![c] = Append(@, s)]
      /\ seen' = [seen EXCEPT ![s] = value[c]] /\ notified' = notified \ {s}
      /\ UNCHANGED <<value, cut, isFlushing, batchDepth>>
      /\ \A d \in Cells : s \notin Subscribed(d)
  BY NodesAssumption, SubsAssumption DEF Subscribe, schedulerVars
<1>2. Subscribed(c)' = Subscribed(c) \cup {s}
  BY <1>1, MembersAppend DEF Subscribed, OrderInv, ConvergenceInv, TypeOK
<1>3. \A d \in Cells : d # c => Subscribed(d)' = Subscribed(d)
  BY <1>1, NodesAssumption DEF Subscribed, OrderInv, ConvergenceInv, TypeOK
<1>4. Promised' = [Promised EXCEPT ![c] = @ \cup {s}]
  BY <1>2, <1>3 DEF Promised
<1>5. \A d \in Cells : s \notin Promised[d]
  BY <1>1 DEF Promised
<1>6. Quiescent' = Quiescent
  BY <1>1 DEF Quiescent
<1> QED BY <1>1, <1>4, <1>5, <1>6 DEF Abstract!Join, Promised

(* The function subscribe() returned leaves.                               *)
LEMMA LeaveStep ==
    ASSUME OrderInv, NEW n \in Nodes, NEW i \in DOMAIN subs[n], Unsubscribe(n, i)
    PROVE  n \in Cells /\ subs[n][i] \in Subs /\ Abstract!Leave(n, subs[n][i])
<1> DEFINE s == subs[n][i]
<1>1. /\ subs' = [subs EXCEPT ![n] = Without(subs[n], i)]
      /\ UNCHANGED <<value, seen, notified, cut, isFlushing, batchDepth>>
  BY DEF Unsubscribe, schedulerVars, historyVars
<1>2. s \in Subscribed(n)
  BY DEF Subscribed, Members
<1>3. n \in Cells
  BY <1>2 DEF OrderInv, OnlyCells
<1>4. s \in Subs
  BY <1>2, MembersIn DEF Subscribed, OrderInv, ConvergenceInv, TypeOK
<1>5. Subscribed(n)' = Subscribed(n) \ {s}
  <2>1. Members(Without(subs[n], i)) = Members(subs[n]) \ {s}
    BY WithoutDistinct DEF OrderInv, NoRepeats, ConvergenceInv, TypeOK
  <2> QED BY <1>1, <2>1 DEF Subscribed, OrderInv, ConvergenceInv, TypeOK
<1>6. \A d \in Cells : d # n => Subscribed(d)' = Subscribed(d)
  BY <1>1, NodesAssumption DEF Subscribed, OrderInv, ConvergenceInv, TypeOK
<1> HIDE DEF s
<1>7. Promised' = [Promised EXCEPT ![n] = @ \ {s}]
  BY <1>3, <1>5, <1>6 DEF Promised
<1>8. Quiescent' = Quiescent
  BY <1>1 DEF Quiescent
<1>9. Abstract!Leave(n, s)
  BY <1>1, <1>7, <1>8 DEF Abstract!Leave, Promised
<1> QED BY <1>3, <1>4, <1>9 DEF s

(* batch() opens; its end is not seen, it flushes or stays inside another  *)
(* batch or flush.                                                         *)
LEMMA BatchStep ==
    ASSUME OrderInv, BatchBegin \/ \E err \in BOOLEAN : BatchEnd(err)
    PROVE  Abstract!Open \/ UNCHANGED Abstract!vars
<1>1. /\ UNCHANGED <<value, subs, seen, notified, cut>>
  BY DEF BatchBegin, BatchEnd, notifierVars, historyVars
<1>2. CASE BatchBegin
  <2>1. ~Quiescent'
    BY <1>2 DEF BatchBegin, Quiescent, OrderInv, ConvergenceInv, TypeOK
  <2> QED BY <1>1, <2>1 DEF Abstract!Open, Subscribed
<1>3. ASSUME NEW err \in BOOLEAN, BatchEnd(err) PROVE UNCHANGED Abstract!vars
  <2>1. ~Quiescent /\ ~Quiescent'
    BY <1>3 DEF BatchEnd, BeginFlush, Quiescent, OrderInv, ConvergenceInv, TypeOK
  <2>2. Quiescent' = Quiescent
    BY <2>1 DEF Quiescent
  <2> QED BY <1>1, <2>2, Unseen
<1> QED BY <1>2, <1>3

(* A cutoff loses values of the cells it excuses.                          *)
LEMMA LoseStep ==
    ASSUME OrderInv, CutOffJobs \/ CutOffValues
    PROVE  \E lost \in SUBSET Cells : Abstract!Lose(lost)
<1> DEFINE lost == (cut' \ cut) \cap Cells
<1>1. /\ cut \subseteq cut' /\ isFlushing /\ isFlushing'
      /\ UNCHANGED <<value, subs, seen, notified, batchDepth>>
  BY DEF CutOffJobs, CutOffValues, Delivering, schedulerVars
<1>2. cut' \cap Cells = (cut \cap Cells) \cup lost
  BY <1>1
<1>3. ~Quiescent /\ Quiescent' = Quiescent
  BY <1>1 DEF Quiescent
<1>4. Abstract!Lose(lost)
  BY <1>1, <1>2, <1>3 DEF Abstract!Lose, Subscribed
<1> QED BY <1>4

(* A listener's call delivers.                                             *)
LEMMA DeliverStep ==
    ASSUME Versioned, OrderInv, CallListener
    PROVE  \E c \in Cells, s \in Subs : Abstract!Deliver(c, s)
<1> DEFINE h == Head(snapshot)
           c == job.node
<1>1. /\ c \in Cells /\ h \in Subs /\ h \in Subscribed(c)
      /\ delivering <= value[c] /\ (h \in notified => seen[h] < delivering)
  BY Called, VersionsGrow
<1>2. delivering \in Nat /\ value[c] \in Nat /\ seen[h] \in Nat
  BY <1>1 DEF Versioned, OrderInv, ConvergenceInv, TypeOK
<1>3. /\ seen' = [seen EXCEPT ![h] = delivering] /\ notified' = notified \cup {h}
      /\ isFlushing /\ UNCHANGED <<value, subs, cut, isFlushing, batchDepth>>
  BY DEF CallListener, Delivering, schedulerVars, notifierVars
<1> HIDE DEF h, c
<1>4. delivering \in 0..value[c] /\ (h \in notified => delivering > seen[h])
  BY <1>1, <1>2
<1>5. ~Quiescent /\ Quiescent' = Quiescent /\ Promised' = Promised /\ h \in Promised[c]
  BY <1>1, <1>3 DEF Quiescent, Promised, Subscribed
<1>6. Abstract!Deliver(c, h)
  BY <1>3, <1>4, <1>5 DEF Abstract!Deliver, Promised
<1> QED BY <1>1, <1>6

(* The flush that ends settles: SubscribersConverge is its guard.          *)
LEMMA SettleStep == ASSUME OrderInv, FlushDone PROVE Abstract!Settle
<1>1. /\ ~isFlushing' /\ batchDepth' = 0
      /\ UNCHANGED <<value, subs, pendingValues, job, seen, notified, cut>>
      /\ pendingJobs = <<>> /\ job = None
  BY DEF FlushDone, notifierVars, OrderInv, ConvergenceInv, Phases
<1>2. ASSUME NEW c \in Cells \ cut, NEW s \in Subscribed(c) PROVE seen[s] = value[c]
  <2>1. c \in Nodes /\ ~flushScheduled[c] /\ job # FlushJob(c)
    BY <1>1, MembersEmpty, NodesAssumption, FlushJobType
       DEF OrderInv, ConvergenceInv, NoLostWakeup
  <2>2. pendingValues[c] = <<>>
    BY <2>1 DEF OrderInv, ConvergenceInv, NoLostWakeup
  <2> QED BY <2>1, <2>2 DEF OrderInv, ConvergenceInv, Carried, CarriesLast, LastSeen
<1>3. Quiescent' = TRUE
  BY <1>1 DEF Quiescent
<1>4. \A c \in Cells \ (cut \cap Cells) : \A s \in Promised[c] : seen[s] = value[c]
  BY <1>2 DEF Promised
<1> QED BY <1>1, <1>3, <1>4 DEF Abstract!Settle, Promised, Subscribed

(* Every step is a step of Delivery, or none that it sees.                 *)
LEMMA StepSimulation ==
    ASSUME Versioned, OrderInv, [Next]_vars PROVE [Abstract!Next]_(Abstract!vars)
<1>1. ASSUME StartJob \/ NextValue \/ SkipListener \/ EndJob
             \/ (\E threw \in BOOLEAN : Return(threw)) \/ UNCHANGED vars
      PROVE  UNCHANGED Abstract!vars
  <2>1. UNCHANGED <<value, subs, seen, notified, cut>> /\ Quiescent' = Quiescent
    BY <1>1 DEF StartJob, NextValue, SkipListener, EndJob, Return, Quiescent, vars,
                schedulerVars, notifierVars, historyVars
  <2> QED BY <2>1, Unseen
<1>2. ASSUME NEW c \in Cells, NEW s \in UserSubs, Subscribe(c, s)
      PROVE  Abstract!Next
  BY <1>2, JoinStep, SubsAssumption DEF Abstract!Next
<1>3. ASSUME NEW c \in Cells, NEW v \in NextValues(value[c]), Set(c, v)
      PROVE  Abstract!Next
  BY <1>3, WriteStep DEF Abstract!Next
<1>4. ASSUME NEW n \in Nodes, NEW i \in DOMAIN subs[n], Unsubscribe(n, i)
      PROVE  Abstract!Next
  BY <1>4, LeaveStep DEF Abstract!Next
<1>5. ASSUME BatchBegin \/ \E err \in BOOLEAN : BatchEnd(err)
      PROVE  Abstract!Next \/ UNCHANGED Abstract!vars
  BY <1>5, BatchStep DEF Abstract!Next
<1>6. ASSUME CutOffJobs \/ CutOffValues PROVE Abstract!Next
  BY <1>6, LoseStep DEF Abstract!Next
<1>7. ASSUME CallListener PROVE Abstract!Next
  BY <1>7, DeliverStep DEF Abstract!Next
<1>8. ASSUME FlushDone PROVE Abstract!Next
  BY <1>8, SettleStep DEF Abstract!Next
<1> QED
  BY <1>1, <1>2, <1>3, <1>4, <1>5, <1>6, <1>7, <1>8 DEF Next, UserCall, FlushStep

(* The notification core implements Delivery.                              *)
THEOREM Refinement == ASSUME Versioned PROVE Spec => ImplementsDelivery
<1>1. Init => Abstract!Init
  BY MembersEmpty, NodesAssumption DEF Init, Abstract!Init, Subscribed, Quiescent
<1>2. OrderInv /\ [Next]_vars => [Abstract!Next]_(Abstract!vars)
  BY StepSimulation
<1>3. Spec => []OrderInv
  BY OrderKept, VersionsGrow
<1> QED BY <1>1, <1>2, <1>3, PTL DEF Spec, ImplementsDelivery, Abstract!Spec
=============================================================================
