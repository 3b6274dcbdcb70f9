---------------------------- MODULE Notification ----------------------------
(***************************************************************************)
(* The notification core of packages/core: the job queue of scheduler.ts,  *)
(* one notifier.ts queue per owner, the writable cells of state.ts and the *)
(* batch boundary of batch.ts.                                             *)
(*                                                                         *)
(* JavaScript runs each call to completion on one thread, but a listener   *)
(* may call back into the library while a flush is under way.  Every step  *)
(* a listener can be interleaved with is therefore an action: the flush    *)
(* advances job by job, value by value and listener by listener, and while *)
(* a listener runs it may write, subscribe, unsubscribe or batch.          *)
(***************************************************************************)
EXTENDS Integers, Sequences, FiniteSets

CONSTANTS
    Nodes,          \* notifiers, one per state() or computed()
    Cells,          \* the nodes that are state() cells
    Subs,           \* subscription identities
    UserSubs,       \* the subscriptions whose listener is user code
    Values,         \* what a cell may hold
    InitValue,      \* what every cell holds at first
    None,           \* no job, no running listener
    NextValues(_),  \* the values a set() may write over a given value
    MaxFlush,       \* MAX_FLUSH_ITERATIONS
    MaxBatch,       \* bound: nesting of batch() calls
    MaxOps          \* bound: library calls made by one listener call

(* scheduler.ts queues notifier flushes and the recompute jobs of computed.ts.*)
Jobs == [kind : {"flush", "recompute"}, node : Nodes]

ASSUME NodesAssumption == Cells \subseteq Nodes /\ None \notin Jobs
ASSUME SubsAssumption == UserSubs \subseteq Subs /\ None \notin Subs
ASSUME ValuesAssumption ==
    /\ InitValue \in Values
    /\ \A v \in Values : NextValues(v) \subseteq Values \ {v}
ASSUME BoundsAssumption ==
    MaxFlush \in Nat \ {0} /\ MaxBatch \in Nat /\ MaxOps \in Nat

VARIABLES
    value,          \* state.ts currentValue, per cell
    subs,           \* notifier.ts subscriptions, per node, in registration order
    pendingValues,  \* notifier.ts pendingValues, per node
    flushScheduled, \* notifier.ts flushScheduled, per node
    batchDepth,     \* scheduler.ts batchDepth
    isFlushing,     \* scheduler.ts isFlushing
    pendingJobs,    \* scheduler.ts pendingJobs
    jobCount,       \* flushJobs: iterations
    failed,         \* flushJobs / runBatch: errors is not empty
    job,            \* the job whose run() is on the stack, or None
    valueCount,     \* notifier flush: iterations
    delivering,     \* notifyListeners: the value being handed out
    snapshot,       \* notifyListeners: subscriptions still to visit
    jobFailed,      \* notifier flush: errors is not empty
    running,        \* the listener on the stack, or None
    fuel,           \* library calls the running listener may still make
    \* History, read by properties only:
    seen,           \* last value a subscription was given, or could read when made
    notified,       \* subscriptions called at least once
    cut,            \* nodes whose queued values a runaway cutoff dropped
    raised,         \* an error was thrown since the current flush began
    outcome         \* how the last call that flushed ended: "ok" or "threw"

schedulerVars == <<batchDepth, isFlushing, pendingJobs, jobCount, failed, job>>
notifierVars == <<subs, pendingValues, flushScheduled>>
deliveryVars == <<valueCount, delivering, snapshot, jobFailed>>
listenerVars == <<running, fuel>>
historyVars == <<seen, notified, cut, raised, outcome>>
vars == <<value, schedulerVars, notifierVars, deliveryVars, listenerVars,
          historyVars>>

FlushJob(n) == [kind |-> "flush", node |-> n]

Members(s) == {s[i] : i \in DOMAIN s}
Distinct(s) == \A i, j \in DOMAIN s : s[i] = s[j] => i = j
Without(s, i) == SubSeq(s, 1, i - 1) \o SubSeq(s, i + 1, Len(s))
Subscribed(n) == Members(subs[n])

Init ==
    /\ value = [c \in Cells |-> InitValue]
    /\ subs = [n \in Nodes |-> <<>>]
    /\ pendingValues = [n \in Nodes |-> <<>>]
    /\ flushScheduled = [n \in Nodes |-> FALSE]
    /\ batchDepth = 0
    /\ isFlushing = FALSE
    /\ pendingJobs = <<>>
    /\ jobCount = 0
    /\ failed = FALSE
    /\ job = None
    /\ valueCount = 0
    /\ delivering = InitValue
    /\ snapshot = <<>>
    /\ jobFailed = FALSE
    /\ running = None
    /\ fuel = 0
    /\ seen = [s \in Subs |-> InitValue]
    /\ notified = {}
    /\ cut = {}
    /\ raised = FALSE
    /\ outcome = "ok"
-----------------------------------------------------------------------------
(* Scheduling: what a call into the library does to the queues.            *)

FlushesInsideBatch == ~isFlushing  \* mutated: a write in a batch flushes
FlushesNow == batchDepth = 0 /\ ~isFlushing

(* flushJobs() is entered; err: runBatch already holds the callback's error.*)
BeginFlush(err) ==
    /\ isFlushing' = TRUE
    /\ jobCount' = 0
    /\ failed' = err
    /\ raised' = err

Schedule(j) ==
    /\ pendingJobs' = Append(pendingJobs, j)
    /\ IF FlushesNow THEN BeginFlush(FALSE)
                     ELSE UNCHANGED <<isFlushing, jobCount, failed, raised>>

(* notify() clears what is queued while a batch is open, so that the batch *)
(* delivers its last value only.                                           *)
QueuedEverything(n) == pendingValues[n]  \* mutated: no coalescing
Queued(n) == IF batchDepth > 0 THEN <<>> ELSE pendingValues[n]

NotifyFirst(n, v) ==  \* mutated: the newest value is delivered first
    /\ pendingValues' = [pendingValues EXCEPT ![n] = <<v>> \o Queued(n)]
    /\ flushScheduled' = [flushScheduled EXCEPT ![n] = TRUE]
    /\ IF flushScheduled[n]
       THEN UNCHANGED <<isFlushing, pendingJobs, jobCount, failed, raised>>
       ELSE Schedule(FlushJob(n))

Notify(n, v) ==
    /\ pendingValues' = [pendingValues EXCEPT ![n] = Append(Queued(n), v)]
    /\ flushScheduled' = [flushScheduled EXCEPT ![n] = TRUE]
    /\ IF flushScheduled[n]
       THEN UNCHANGED <<isFlushing, pendingJobs, jobCount, failed, raised>>
       ELSE Schedule(FlushJob(n))
-----------------------------------------------------------------------------
(* Calls made by user code: at the top level, or by the running listener,  *)
(* which makes at most MaxOps of them before it returns.                   *)

UserRuns == ~isFlushing \/ running # None

Call ==
    \/ ~isFlushing /\ UNCHANGED listenerVars
    \/ running # None /\ fuel > 0 /\ fuel' = fuel - 1 /\ UNCHANGED running

(* state.set(v); writing the value already held is skipped by Object.is.   *)
Set(c, v) ==
    /\ Call
    /\ v # value[c]
    /\ value' = [value EXCEPT ![c] = v]
    /\ Notify(c, v)
    /\ cut' = cut \ {c}
    /\ UNCHANGED <<subs, batchDepth, job, deliveryVars, seen, notified, outcome>>

(* state.subscribe(listener): the new subscription is last in the Set.     *)
(* s is an identity no live subscription or listener snapshot holds.       *)
Subscribe(c, s) ==
    /\ Call
    /\ \A n \in Nodes : s \notin Subscribed(n)
    /\ s \notin Members(snapshot) /\ s # running
    /\ subs' = [subs EXCEPT ![c] = Append(@, s)]
    /\ seen' = [seen EXCEPT ![s] = value[c]]
    /\ notified' = notified \ {s}
    /\ UNCHANGED <<value, schedulerVars, pendingValues, flushScheduled,
                   deliveryVars, cut, raised, outcome>>

(* The function subscribe() returned: active is cleared, the Set shrinks.  *)
Unsubscribe(n, i) ==
    /\ Call
    /\ subs' = [subs EXCEPT ![n] = Without(@, i)]
    /\ UNCHANGED <<value, schedulerVars, pendingValues, flushScheduled,
                   deliveryVars, historyVars>>

(* runBatch up to the callback.                                            *)
BatchBegin ==
    /\ Call
    /\ batchDepth < MaxBatch
    /\ batchDepth' = batchDepth + 1
    /\ UNCHANGED <<value, notifierVars, isFlushing, pendingJobs, jobCount,
                   failed, job, deliveryVars, historyVars>>

(* runBatch after the callback, which may have thrown (err): the outermost *)
(* batch flushes unless a flush is already under way.                      *)
BatchEnd(err) ==
    /\ UserRuns
    /\ batchDepth > 0
    /\ batchDepth' = batchDepth - 1
    /\ IF batchDepth = 1 /\ ~isFlushing
       THEN BeginFlush(err)
       ELSE UNCHANGED <<isFlushing, jobCount, failed, raised>>
    /\ UNCHANGED <<value, notifierVars, pendingJobs, job, deliveryVars,
                   listenerVars, seen, notified, cut, outcome>>
-----------------------------------------------------------------------------
(* The flush.  flushJobs runs one job at a time and only from its loop.    *)

(* The guard of both loops: ++iterations > MAX_FLUSH_ITERATIONS gives up.  *)
MayIterateOnceMore(count) == count <= MaxFlush  \* mutated: off by one
MayIterate(count) == count < MaxFlush

(* pendingJobs.shift().run(): a notifier flush starts by lowering its flag,*)
(* so that what its listeners write schedules another flush.               *)
StartJob ==
    /\ isFlushing /\ job = None
    /\ pendingJobs # <<>>
    /\ Head(pendingJobs).kind = "flush"
    /\ MayIterate(jobCount)
    /\ jobCount' = jobCount + 1
    /\ job' = Head(pendingJobs)
    /\ pendingJobs' = Tail(pendingJobs)
    /\ flushScheduled' = [flushScheduled EXCEPT ![Head(pendingJobs).node] = FALSE]
    /\ valueCount' = 0
    /\ jobFailed' = FALSE
    /\ UNCHANGED <<value, subs, pendingValues, batchDepth, isFlushing, failed,
                   delivering, snapshot, listenerVars, historyVars>>

(* The nodes whose flush is discarded by the scheduler's cutoff.           *)
Discarded == {n \in Nodes : FlushJob(n) \in Members(pendingJobs)}

(* The onDiscard callback of notifier.ts, for every discarded flush.       *)
DiscardFlushesKeepingFlags ==  \* mutated: flushScheduled is not reset
    /\ UNCHANGED flushScheduled
    /\ pendingValues' =
         [n \in Nodes |-> IF n \in Discarded THEN <<>> ELSE pendingValues[n]]

DiscardFlushes ==
    /\ flushScheduled' = [n \in Nodes |-> flushScheduled[n] /\ n \notin Discarded]
    /\ pendingValues' =
         [n \in Nodes |-> IF n \in Discarded THEN <<>> ELSE pendingValues[n]]

(* flushJobs gives up: every queued job is dropped and the error collected.*)
CutOffJobs ==
    /\ isFlushing /\ job = None
    /\ pendingJobs # <<>>
    /\ ~MayIterate(jobCount)
    /\ pendingJobs' = <<>>
    /\ DiscardFlushes
    /\ failed' = TRUE
    /\ raised' = TRUE
    /\ cut' = cut \cup {n \in Discarded : pendingValues[n] # <<>>}
    /\ UNCHANGED <<value, subs, batchDepth, isFlushing, jobCount, job,
                   deliveryVars, listenerVars, seen, notified, outcome>>

Delivering == isFlushing /\ job # None /\ job.kind = "flush" /\ running = None

CountNothing == valueCount' = valueCount  \* mutated: deliveries not counted
CountValue == valueCount' = valueCount + 1

(* flush: the next queued value is handed to the present subscriptions.    *)
NextValue ==
    /\ Delivering
    /\ snapshot = <<>>
    /\ pendingValues[job.node] # <<>>
    /\ MayIterate(valueCount)
    /\ CountValue
    /\ delivering' = Head(pendingValues[job.node])
    /\ pendingValues' = [pendingValues EXCEPT ![job.node] = Tail(@)]
    /\ snapshot' = subs[job.node]
    /\ UNCHANGED <<value, schedulerVars, subs, flushScheduled, jobFailed,
                   listenerVars, historyVars>>

(* flush gives up on a notifier that keeps being written while it delivers.*)
CutOffValues ==
    /\ Delivering
    /\ snapshot = <<>>
    /\ pendingValues[job.node] # <<>>
    /\ ~MayIterate(valueCount)
    /\ pendingValues' = [pendingValues EXCEPT ![job.node] = <<>>]
    /\ jobFailed' = TRUE
    /\ raised' = TRUE
    /\ cut' = cut \cup {job.node}
    /\ UNCHANGED <<value, schedulerVars, subs, flushScheduled, valueCount,
                   delivering, snapshot, listenerVars, seen, notified, outcome>>

(* notifyListeners: subscription.active.                                   *)
ActiveForGood(s) == TRUE  \* mutated: cancelled subscriptions are called
Active(s) == s \in Subscribed(job.node)

(* notifyListeners: a subscription cancelled since the snapshot is skipped.*)
SkipListener ==
    /\ Delivering
    /\ snapshot # <<>>
    /\ ~Active(Head(snapshot))
    /\ snapshot' = Tail(snapshot)
    /\ UNCHANGED <<value, schedulerVars, notifierVars, valueCount, delivering,
                   jobFailed, listenerVars, historyVars>>

(* notifyListeners: subscription.listener(value) is entered.               *)
CallListener ==
    /\ Delivering
    /\ snapshot # <<>>
    /\ Active(Head(snapshot)) /\ Head(snapshot) \in UserSubs
    /\ snapshot' = Tail(snapshot)
    /\ running' = Head(snapshot)
    /\ fuel' = MaxOps
    /\ seen' = [seen EXCEPT ![Head(snapshot)] = delivering]
    /\ notified' = notified \cup {Head(snapshot)}
    /\ UNCHANGED <<value, schedulerVars, notifierVars, valueCount, delivering,
                   jobFailed, cut, raised, outcome>>

(* The listener returns or throws; a throw is collected and the loop goes on.*)
Return(threw) ==
    /\ isFlushing /\ running # None
    /\ batchDepth = 0
    /\ running' = None
    /\ fuel' = 0
    /\ jobFailed' = (jobFailed \/ threw)
    /\ raised' = (raised \/ threw)
    /\ UNCHANGED <<value, schedulerVars, notifierVars, valueCount, delivering,
                   snapshot, seen, notified, cut, outcome>>

(* The loop of flush ends when no value is queued any more.                *)
DrainedOnce ==  \* mutated: one value per flush job
    valueCount > 0 \/ pendingValues[job.node] = <<>>
Drained == pendingValues[job.node] = <<>>

CollectLast == failed' = jobFailed  \* mutated: only the last job's errors
CollectErrors == failed' = (failed \/ jobFailed)

(* flush returns, or throws what its listeners threw, to flushJobs.        *)
EndJob ==
    /\ Delivering
    /\ snapshot = <<>>
    /\ Drained
    /\ job' = None
    /\ CollectErrors
    /\ UNCHANGED <<value, notifierVars, batchDepth, isFlushing, pendingJobs,
                   jobCount, deliveryVars, listenerVars, historyVars>>

(* flushJobs returns to schedule() or runBatch(), which throws the errors. *)
FlushDone ==
    /\ isFlushing /\ job = None
    /\ pendingJobs = <<>>
    /\ isFlushing' = FALSE
    /\ outcome' = IF failed THEN "threw" ELSE "ok"
    /\ UNCHANGED <<value, notifierVars, batchDepth, pendingJobs, jobCount,
                   failed, job, deliveryVars, listenerVars, seen, notified,
                   cut, raised>>
-----------------------------------------------------------------------------
UserCall ==
    \/ \E c \in Cells : \E v \in NextValues(value[c]) : Set(c, v)
    \/ \E c \in Cells, s \in UserSubs : Subscribe(c, s)
    \/ \E n \in Nodes : \E i \in DOMAIN subs[n] : Unsubscribe(n, i)
    \/ BatchBegin
    \/ \E err \in BOOLEAN : BatchEnd(err)

FlushStep ==
    \/ StartJob
    \/ CutOffJobs
    \/ NextValue
    \/ CutOffValues
    \/ SkipListener
    \/ CallListener
    \/ \E threw \in BOOLEAN : Return(threw)
    \/ EndJob
    \/ FlushDone

Next == UserCall \/ FlushStep

(* A call that has begun to flush runs to its end: the thread does nothing *)
(* else meanwhile, and a listener closes the batches it opened and returns.*)
Progress == FlushStep \/ (isFlushing /\ \E err \in BOOLEAN : BatchEnd(err))

Spec == Init /\ [][Next]_vars
FairSpec == Spec /\ WF_vars(Progress)
-----------------------------------------------------------------------------
(* The state keeps its types; in particular the iteration counters of both *)
(* flush loops never pass MAX_FLUSH_ITERATIONS (scheduler.ts, notifier.ts).*)
TypeOK ==
    /\ value \in [Cells -> Values]
    /\ subs \in [Nodes -> Seq(Subs)]
    /\ pendingValues \in [Nodes -> Seq(Values)]
    /\ flushScheduled \in [Nodes -> BOOLEAN]
    /\ batchDepth \in 0..MaxBatch
    /\ isFlushing \in BOOLEAN
    /\ pendingJobs \in Seq(Jobs)
    /\ jobCount \in 0..MaxFlush
    /\ failed \in BOOLEAN
    /\ job \in Jobs \cup {None}
    /\ valueCount \in 0..MaxFlush
    /\ delivering \in Values
    /\ snapshot \in Seq(Subs)
    /\ jobFailed \in BOOLEAN
    /\ running \in UserSubs \cup {None}
    /\ fuel \in 0..MaxOps
    /\ seen \in [Subs -> Values]
    /\ notified \subseteq Subs
    /\ cut \subseteq Nodes
    /\ raised \in BOOLEAN
    /\ outcome \in {"ok", "threw"}

(* A notifier that owes its subscribers a value has exactly one flush job  *)
(* queued, or is flushing: no interleaving of writes, batches, re-entrant  *)
(* writes and cutoffs leaves flushScheduled raised with no job behind it   *)
(* (which would silence the notifier for good) or lowered with values left *)
(* in pendingValues (notifier.ts notify, flush and onDiscard).             *)
NoLostWakeup ==
    /\ \A n \in Nodes : flushScheduled[n] <=> FlushJob(n) \in Members(pendingJobs)
    /\ \A n \in Nodes : pendingValues[n] # <<>> =>
                          flushScheduled[n] \/ job = FlushJob(n)
    /\ Distinct(pendingJobs)

Quiescent == ~isFlushing /\ batchDepth = 0

(* When no call into the library is open, every subscription of a cell has *)
(* been given the value the cell holds, whatever its listeners wrote,      *)
(* subscribed or cancelled during the flush and however many of them threw;*)
(* only a runaway cutoff since the last write excuses a cell.              *)
Converged ==
    Quiescent => \A c \in Cells \ cut : \A s \in Subscribed(c) : seen[s] = value[c]

(* Outside a flush at most one value per notifier is waiting: writes of an *)
(* open batch coalesce, and any other write flushes before it returns.     *)
Coalesced == ~isFlushing => \A n \in Nodes : Len(pendingValues[n]) <= 1

(* No listener is called while a batch is open: not by a write inside the  *)
(* batch, nor by an inner batch that ends.                                 *)
BatchHoldsDelivery == [][running = None /\ running' # None => batchDepth = 0]_vars

(* The errors of a flush are kept: the call that flushed throws if and only*)
(* if the batch callback or some listener threw or a cutoff fired, whatever*)
(* jobs and listeners ran after that.                                      *)
ErrorsReported == Quiescent => (outcome = "threw" <=> raised)

(* With ever larger values: a subscription called before is only called    *)
(* with a later write, never twice with the same one or with an older one. *)
InOrder ==
    [][\A s \in notified : running = None /\ running' = s => seen'[s] > seen[s]]_vars

(* The core implements Delivery: each step of the queues, jobs and snapshots*)
(* is a step of Delivery, or none.  It is the promise of scheduler.ts and  *)
(* notifier.ts as a whole, for values that count the writes of a cell.     *)
Abstract == INSTANCE Delivery WITH
    members <- [c \in Cells |-> Subscribed(c)],
    lossy <- cut \cap Cells,
    idle <- Quiescent
ImplementsDelivery == Abstract!Spec

(* A flush ends, even when listeners write for ever: the cutoffs of        *)
(* flushJobs and of the notifier's flush bound it.                         *)
FlushTerminates == isFlushing ~> ~isFlushing
=============================================================================
