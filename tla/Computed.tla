------------------------------ MODULE Computed ------------------------------
(***************************************************************************)
(* computed() of packages/core on top of the notification core: lazy,      *)
(* cached values that follow the cells and computeds their read function   *)
(* read last time (computed.ts, tracking.ts).                              *)
(*                                                                         *)
(* A read function only reads, so evaluating runs to its end undisturbed;  *)
(* evalStack holds the evaluations in progress, the innermost last, as the *)
(* call stack does.  A read function that meets an error lets it pass.     *)
(***************************************************************************)
EXTENDS Notification

CONSTANTS
    Computeds,      \* the nodes that are computed()
    Program(_, _),  \* what read does next, given the values it has read so far
    Meaning(_, _),  \* what read computes from the values of all cells
    ListenerCalls   \* the kinds of call listeners make in this instance

(* One step of a read function: it reads a node, returns or throws.        *)
Reading(n) == [do |-> "read", node |-> n]
Returning(v) == [do |-> "return", value |-> v]
Throwing == [do |-> "throw"]

ASSUME ComputedsAssumption == Nodes = Cells \cup Computeds /\ Cells \cap Computeds = {}
(* A computed subscribes once to each dependency: its name stands for the  *)
(* subscriptions whose listener is its invalidate().                       *)
ASSUME InvalidatesAssumption == Subs = UserSubs \cup Computeds /\ UserSubs \cap Computeds = {}

VARIABLES
    cached,             \* currentValue
    lastNotified,       \* lastNotifiedValue
    dirty,
    disposed,
    recomputeScheduled,
    deps,               \* the keys of dependencySubscriptions
    evalStack,          \* the evaluate() calls on the stack, outermost first
    observer,           \* the subscription whose subscribe() is evaluating, or None
    abandoned,          \* history: computeds whose recompute threw or was discarded
                        \* and that have handed out no value since
    slipped             \* history: computeds whose lastNotifiedValue lost touch
                        \* with what was handed out or is queued
computedVars == <<cached, lastNotified, dirty, disposed, recomputeScheduled,
                  deps, evalStack, observer, abandoned, slipped>>
cvars == <<vars, computedVars>>

RecomputeJob(c) == [kind |-> "recompute", node |-> c]

CInit ==
    /\ Init
    /\ cached = [c \in Computeds |-> InitValue]
    /\ lastNotified = [c \in Computeds |-> InitValue]
    /\ dirty = [c \in Computeds |-> TRUE]
    /\ disposed = [c \in Computeds |-> FALSE]
    /\ recomputeScheduled = [c \in Computeds |-> FALSE]
    /\ deps = [c \in Computeds |-> {}]
    /\ evalStack = <<>>
    /\ observer = None
    /\ abandoned = {}
    /\ slipped = {}

Idle == evalStack = <<>>
Allowed(call) == running # None => call \in ListenerCalls
-----------------------------------------------------------------------------
(* evaluate(), one read at a time.                                         *)

Frame(c) == [node |-> c, reads |-> <<>>, tracked |-> {}]
Top == evalStack[Len(evalStack)]
Step == Program(Top.node, Top.reads)
Callers == SubSeq(evalStack, 1, Len(evalStack) - 1)
Evaluating == {evalStack[i].node : i \in DOMAIN evalStack}

(* A read of n gives v to the evaluation f, and tracks n (trackDependency).*)
Track(f, n) == [f EXCEPT !.tracked = @ \cup {n}]
Receive(f, v) == [f EXCEPT !.reads = Append(@, v)]

ReadsNode(n) == ~Idle /\ Step.do = "read" /\ Step.node = n

ReadCell(n) ==
    /\ ReadsNode(n)
    /\ evalStack' = Append(Callers, Receive(Track(Top, n), value[n]))
    /\ UNCHANGED <<vars, cached, lastNotified, dirty, disposed,
                   recomputeScheduled, deps, observer, abandoned, slipped>>

(* get() of a computed: the cached value, or a nested evaluation.          *)
ReadClean(n) ==
    /\ ReadsNode(n)
    /\ ~disposed[n] /\ ~dirty[n]
    /\ evalStack' = Append(Callers, Receive(Track(Top, n), cached[n]))
    /\ UNCHANGED <<vars, cached, lastNotified, dirty, disposed,
                   recomputeScheduled, deps, observer, abandoned, slipped>>

ReadDirty(n) ==
    /\ ReadsNode(n)
    /\ ~disposed[n] /\ dirty[n] /\ n \notin Evaluating
    /\ evalStack' = Callers \o <<Track(Top, n), Frame(n)>>
    /\ UNCHANGED <<vars, cached, lastNotified, dirty, disposed,
                   recomputeScheduled, deps, observer, abandoned, slipped>>

(* A Set holds each subscription once.                                     *)
Drop(s, x) ==
    IF x \in Members(s) THEN Without(s, CHOOSE i \in DOMAIN s : s[i] = x) ELSE s

(* Subscriptions of c after its evaluation tracked the nodes in now: those *)
(* no longer read are cancelled, those newly read are made.                *)
FollowNewOnly(c, now) ==  \* mutated: dependencies no longer read stay subscribed
    [n \in Nodes |-> IF n \in now \ deps[c] THEN Append(subs[n], c) ELSE subs[n]]
Follow(c, now) ==
    [n \in Nodes |->
        IF n \in deps[c] \ now THEN Drop(subs[n], c)
        ELSE IF n \in now \ deps[c] THEN Append(subs[n], c)
        ELSE subs[n]]

(* A snapshot skips subscriptions cancelled after it was taken, even if the*)
(* same computed has subscribed anew.                                      *)
SnapshotWithout(c, dropped) ==
    IF job # None /\ job.node \in dropped THEN Drop(snapshot, c) ELSE snapshot

(* subscribe() of the running observer found no subscriber before it.      *)
FirstObserver(c) == observer # None /\ Len(evalStack) = 1 /\ Len(subs[c]) = 1

(* lastNotifiedValue follows an evaluation nobody was subscribed to see.   *)
RebaseAlways(c) == TRUE  \* mutated: every evaluation moves the baseline
Rebase(c) == subs[c] = <<>> \/ FirstObserver(c)

(* The baseline passes over values that are still queued, or the function  *)
(* comes back to the baseline from a value that others may have been given.*)
Overtakes(x, v) == pendingValues[x] # <<>> /\ v # lastNotified[x]
Slips(x, v) ==
    IF Rebase(x) THEN Overtakes(x, v) ELSE v = lastNotified[x] /\ v # cached[x]

(* read returned: dependencies are updated, the value is cached, and the   *)
(* caller gets it (a read, a recompute job, get() or subscribe()).         *)
EvaluateReturn ==
    /\ ~Idle
    /\ Step.do = "return"
    /\ LET x == Top.node
           v == Step.value
       IN  /\ subs' = Follow(x, Top.tracked)
           /\ snapshot' = SnapshotWithout(x, deps[x] \ Top.tracked)
           /\ deps' = [deps EXCEPT ![x] = Top.tracked]
           /\ cached' = [cached EXCEPT ![x] = v]
           /\ dirty' = [dirty EXCEPT ![x] = FALSE]
           /\ lastNotified' = IF Rebase(x) THEN [lastNotified EXCEPT ![x] = v]
                              ELSE lastNotified
           /\ slipped' = IF Slips(x, v) THEN slipped \cup {x} ELSE slipped
           /\ IF Len(evalStack) > 1
              THEN /\ evalStack' = [Callers EXCEPT ![Len(Callers)] = Receive(@, v)]
                   /\ UNCHANGED <<observer, seen>>
              ELSE /\ evalStack' = <<>>
                   /\ observer' = None
                   /\ seen' = IF observer = None THEN seen
                              ELSE [seen EXCEPT ![observer] = v]
    /\ UNCHANGED <<value, schedulerVars, pendingValues, flushScheduled, valueCount,
                   delivering, jobFailed, listenerVars, notified, cut, raised,
                   outcome, disposed, recomputeScheduled, abandoned>>

EvaluationThrows ==
    \/ Step.do = "throw"
    \/ /\ Step.do = "read" /\ Step.node \in Computeds
       /\ disposed[Step.node] \/ Step.node \in Evaluating

(* An error leaves every evaluation on the stack; what they cached and     *)
(* depend on stays.  It ends a recompute job, or reaches the caller of     *)
(* get(), or makes subscribe() cancel the subscription it had added.       *)
EvaluateThrow ==
    /\ ~Idle
    /\ EvaluationThrows
    /\ evalStack' = <<>>
    /\ observer' = None
    /\ subs' = IF observer = None THEN subs
               ELSE [subs EXCEPT ![evalStack[1].node] = Drop(@, observer)]
    /\ IF job # None /\ job.kind = "recompute"
       THEN /\ job' = None
            /\ failed' = TRUE
            /\ raised' = TRUE
            /\ abandoned' = abandoned \cup {job.node}
       ELSE UNCHANGED <<job, failed, raised, abandoned>>
    /\ UNCHANGED <<value, batchDepth, isFlushing, pendingJobs, jobCount,
                   pendingValues, flushScheduled, deliveryVars, listenerVars, seen,
                   notified, cut, outcome, cached, lastNotified, dirty, disposed,
                   recomputeScheduled, deps, slipped>>
-----------------------------------------------------------------------------
(* Calls made by user code.                                                *)

(* get(): only an evaluation changes anything.                             *)
Get(c) ==
    /\ Idle /\ Call
    /\ ~disposed[c] /\ dirty[c]
    /\ evalStack' = <<Frame(c)>>
    /\ UNCHANGED <<value, schedulerVars, notifierVars, deliveryVars, historyVars,
                   cached, lastNotified, dirty, disposed, recomputeScheduled, deps,
                   observer, abandoned, slipped>>

(* subscribe() adds the subscription, then evaluates if it has to.         *)
Observe(c, s) ==
    /\ Idle /\ Call
    /\ ~disposed[c]
    /\ \A n \in Nodes : s \notin Subscribed(n)
    /\ s \notin Members(snapshot) /\ s # running
    /\ subs' = [subs EXCEPT ![c] = Append(@, s)]
    /\ notified' = notified \ {s}
    /\ IF dirty[c]
       THEN /\ evalStack' = <<Frame(c)>>
            /\ observer' = s
            /\ UNCHANGED <<lastNotified, slipped, seen>>
       ELSE /\ lastNotified' = IF subs[c] = <<>>
                               THEN [lastNotified EXCEPT ![c] = cached[c]]
                               ELSE lastNotified
            /\ slipped' = IF subs[c] = <<>> /\ Overtakes(c, cached[c])
                          THEN slipped \cup {c} ELSE slipped
            /\ seen' = [seen EXCEPT ![s] = cached[c]]
            /\ UNCHANGED <<evalStack, observer>>
    /\ UNCHANGED <<value, schedulerVars, pendingValues, flushScheduled, deliveryVars,
                   cut, raised, outcome, cached, dirty, disposed,
                   recomputeScheduled, deps, abandoned>>

(* dispose(): the dependencies are left, the own subscriptions cleared.    *)
Dispose(c) ==
    /\ Idle /\ Call
    /\ ~disposed[c]
    /\ disposed' = [disposed EXCEPT ![c] = TRUE]
    /\ subs' = [n \in Nodes |-> IF n = c THEN <<>>
                                ELSE IF n \in deps[c] THEN Drop(subs[n], c)
                                ELSE subs[n]]
    /\ snapshot' = SnapshotWithout(c, deps[c])
    /\ deps' = [deps EXCEPT ![c] = {}]
    /\ dirty' = [dirty EXCEPT ![c] = TRUE]
    /\ UNCHANGED <<value, schedulerVars, pendingValues, flushScheduled, valueCount,
                   delivering, jobFailed, historyVars, cached, lastNotified,
                   recomputeScheduled, evalStack, observer, abandoned, slipped>>
-----------------------------------------------------------------------------
(* The flush.                                                              *)

(* invalidate(): a dependency has a new value.                             *)
SchedulesRecompute(c) == subs[c] # <<>> /\ ~recomputeScheduled[c]

Invalidate ==
    /\ Idle /\ Delivering
    /\ snapshot # <<>>
    /\ Active(Head(snapshot)) /\ Head(snapshot) \in Computeds
    /\ snapshot' = Tail(snapshot)
    /\ LET x == Head(snapshot)
       IN  /\ dirty' = [dirty EXCEPT ![x] = TRUE]
           /\ IF SchedulesRecompute(x)
              THEN /\ recomputeScheduled' = [recomputeScheduled EXCEPT ![x] = TRUE]
                   /\ Schedule(RecomputeJob(x))
              ELSE UNCHANGED <<recomputeScheduled, pendingJobs, isFlushing,
                               jobCount, failed, raised>>
    /\ UNCHANGED <<value, batchDepth, job, notifierVars, valueCount, delivering,
                   jobFailed, listenerVars, seen, notified, cut, outcome, cached,
                   lastNotified, disposed, deps, evalStack, observer, abandoned,
                   slipped>>

(* The scheduler runs the job that invalidate() queued.                    *)
StartRecompute ==
    /\ Idle
    /\ isFlushing /\ job = None
    /\ pendingJobs # <<>>
    /\ Head(pendingJobs).kind = "recompute"
    /\ MayIterate(jobCount)
    /\ jobCount' = jobCount + 1
    /\ job' = Head(pendingJobs)
    /\ pendingJobs' = Tail(pendingJobs)
    /\ recomputeScheduled' =
         [recomputeScheduled EXCEPT ![Head(pendingJobs).node] = FALSE]
    /\ UNCHANGED <<value, notifierVars, batchDepth, isFlushing, failed, deliveryVars,
                   listenerVars, historyVars, cached, lastNotified, dirty,
                   disposed, deps, evalStack, observer, abandoned, slipped>>

Recomputing == Idle /\ isFlushing /\ job # None /\ job.kind = "recompute"
Unneeded(c) == disposed[c] \/ subs[c] = <<>>

(* Everybody has left meanwhile.                                           *)
SkipRecompute ==
    /\ Recomputing
    /\ Unneeded(job.node)
    /\ job' = None
    /\ UNCHANGED <<value, notifierVars, batchDepth, isFlushing, pendingJobs,
                   jobCount, failed, deliveryVars, listenerVars, historyVars,
                   computedVars>>

Reevaluate ==
    /\ Recomputing
    /\ ~Unneeded(job.node)
    /\ dirty[job.node]
    /\ evalStack' = <<Frame(job.node)>>
    /\ UNCHANGED <<vars, cached, lastNotified, dirty, disposed,
                   recomputeScheduled, deps, observer, abandoned, slipped>>

(* The value is handed to the subscribers if they have not had it.         *)
ChangedAlways(c) == TRUE  \* mutated: an equal value is notified again
Changed(c) == lastNotified[c] # cached[c]

FinishRecompute ==
    /\ Recomputing
    /\ ~Unneeded(job.node)
    /\ ~dirty[job.node]
    /\ job' = None
    /\ IF Changed(job.node)
       THEN /\ lastNotified' = [lastNotified EXCEPT ![job.node] = cached[job.node]]
            /\ Notify(job.node, cached[job.node])
            /\ abandoned' = abandoned \ {job.node}
       ELSE UNCHANGED <<lastNotified, pendingValues, flushScheduled, isFlushing,
                        pendingJobs, jobCount, failed, raised, abandoned>>
    /\ UNCHANGED <<value, subs, batchDepth, deliveryVars, listenerVars, seen,
                   notified, cut, outcome, cached, dirty, disposed,
                   recomputeScheduled, deps, evalStack, observer, slipped>>

(* onDiscard of the recompute jobs, when the scheduler gives up.           *)
DiscardRecomputes(lost) ==
    recomputeScheduled' =
        [c \in Computeds |-> recomputeScheduled[c] /\ c \notin lost]

GiveUp ==
    /\ Idle
    /\ CutOffJobs
    /\ LET lost == {c \in Computeds : RecomputeJob(c) \in Members(pendingJobs)}
       IN  DiscardRecomputes(lost) /\ abandoned' = abandoned \cup lost
    /\ UNCHANGED <<cached, lastNotified, dirty, disposed, deps, evalStack, observer,
                   slipped>>
-----------------------------------------------------------------------------
(* The calls of Notification, made while no read function is running.      *)
CellCall ==
    \/ Allowed("set") /\ \E c \in Cells : \E v \in NextValues(value[c]) : Set(c, v)
    \/ Allowed("subscribe") /\ \E c \in Cells, s \in UserSubs : Subscribe(c, s)
    \/ /\ Allowed("unsubscribe")
       /\ \E n \in Nodes : \E i \in DOMAIN subs[n] :
            subs[n][i] \in UserSubs /\ Unsubscribe(n, i)
    \/ Allowed("batch") /\ BatchBegin
    \/ \E err \in BOOLEAN : BatchEnd(err)

ComputedCall ==
    \/ Allowed("get") /\ \E c \in Computeds : Get(c)
    \/ Allowed("subscribe") /\ \E c \in Computeds, s \in UserSubs : Observe(c, s)
    \/ Allowed("dispose") /\ \E c \in Computeds : Dispose(c)

Evaluation ==
    \/ \E n \in Cells : ReadCell(n)
    \/ \E n \in Computeds : ReadClean(n) \/ ReadDirty(n)
    \/ EvaluateReturn
    \/ EvaluateThrow

CellFlushStep ==
    \/ StartJob
    \/ NextValue
    \/ CutOffValues
    \/ SkipListener
    \/ CallListener
    \/ \E threw \in BOOLEAN : Return(threw)
    \/ EndJob
    \/ FlushDone

ComputedFlushStep ==
    Invalidate \/ StartRecompute \/ SkipRecompute \/ Reevaluate \/ FinishRecompute
    \/ GiveUp

CNext ==
    \/ Idle /\ (CellCall \/ CellFlushStep) /\ UNCHANGED computedVars
    \/ ComputedCall
    \/ Evaluation
    \/ ComputedFlushStep

CSpec == CInit /\ [][CNext]_cvars
-----------------------------------------------------------------------------
(* What the type () => T says of a read function, whatever it has read (R):*)
(* it reads nodes, returns a value, or throws.                             *)
TypedOn(R) == \A c \in Computeds : \A reads \in R :
    \/ Program(c, reads) = Throwing
    \/ \E n \in Nodes : Program(c, reads) = Reading(n)
    \/ \E v \in Values : Program(c, reads) = Returning(v)

(* What c reads when the cells hold v and every node has what it means.    *)
Truth(n, v) == IF n \in Cells THEN v[n] ELSE Meaning(n, v)
TrueReads(c, reads, v) == \A j \in 1..Len(reads) : \E n \in Nodes :
    Program(c, SubSeq(reads, 1, j - 1)) = Reading(n) /\ reads[j] = Truth(n, v)

(* Meaning is what the read functions compute: from true reads they return *)
(* it, and no computed comes to read itself, directly or through others.   *)
GroundedOn(R, Ranks) ==
    \A v \in [Cells -> Values] : \E rank \in [Computeds -> Ranks] :
        \A c \in Computeds : \A reads \in R : TrueReads(c, reads, v) =>
            /\ \A n \in Computeds : Program(c, reads) = Reading(n) => rank[n] < rank[c]
            /\ \A w \in Values : Program(c, reads) = Returning(w) => w = Meaning(c, v)
-----------------------------------------------------------------------------
(* The state of computed.ts, and of the core below it, keeps its types.    *)
CTypeOK ==
    /\ TypeOK
    /\ cached \in [Computeds -> Values]
    /\ lastNotified \in [Computeds -> Values]
    /\ dirty \in [Computeds -> BOOLEAN]
    /\ disposed \in [Computeds -> BOOLEAN]
    /\ recomputeScheduled \in [Computeds -> BOOLEAN]
    /\ deps \in [Computeds -> SUBSET Nodes]
    /\ evalStack \in Seq([node : Computeds, reads : Seq(Values), tracked : SUBSET Nodes])
    /\ observer \in UserSubs \cup {None}
    /\ abandoned \subseteq Computeds
    /\ slipped \subseteq Computeds

AtRest == Quiescent /\ Idle

(* A computed that has been invalidated and has subscribers is recomputed: *)
(* its job is queued exactly while recomputeScheduled says so, and when    *)
(* the library is at rest it is clean, unless its recompute threw or was   *)
(* discarded by a cutoff.                                                  *)
NoLostRecompute ==
    /\ NoLostWakeup
    /\ \A c \in Computeds :
         recomputeScheduled[c] <=> RecomputeJob(c) \in Members(pendingJobs)
    /\ AtRest => \A c \in Computeds \ abandoned :
                    dirty[c] => subs[c] = <<>>

(* A computed listens to exactly the nodes its last evaluation read, once  *)
(* each, and to nothing after it is disposed: a re-evaluation in the middle*)
(* of the flush that is notifying it leaks and loses no subscription.      *)
ListensToDependencies ==
    /\ \A n \in Nodes : Distinct(subs[n])
    /\ \A n \in Cells, c \in Computeds : c \in Subscribed(n) <=> n \in deps[c]
    /\ \A n, c \in Computeds :
         c \in Subscribed(n) <=> n \in deps[c] /\ ~disposed[n]
    /\ \A c \in Computeds : disposed[c] => deps[c] = {}

(* Every invalidation of a computed in use leads to its recompute, and it  *)
(* listens to exactly what it read (computed.ts:101-150).                  *)
RecomputesAreKept == CTypeOK /\ NoLostRecompute /\ ListensToDependencies

(* Computeds that can still follow everything they depend on.              *)
Live == {c \in Computeds : \E within \in SUBSET Computeds :
            /\ c \in within
            /\ \A x \in within : ~disposed[x] /\ deps[x] \cap Computeds \subseteq within}

(* At rest, a clean computed holds what its read function gives for the    *)
(* present cells, and so has everyone subscribed to it been told.          *)
FreshWhen(excused) ==
    AtRest /\ cut = {} /\ abandoned = {} /\ excused =>
        \A c \in Live :
            /\ ~dirty[c] => cached[c] = Meaning(c, value)
            /\ \A s \in Subscribed(c) \cap UserSubs : seen[s] = Meaning(c, value)
Fresh == FreshWhen(slipped = {})

(* A subscriber of a computed is only called with a value that differs     *)
(* from the one it was called with before.                                 *)
NoEcho ==
    [][\A s \in notified :
         running = None /\ running' = s /\ job.node \in Computeds \ (cut \cup slipped) =>
            seen'[s] # seen[s]]_cvars
-----------------------------------------------------------------------------
(* What the repository says and the code does not keep: a run finds it     *)
(* violated.                                                               *)

(* computed.ts:31-34: comparing with the value subscribers last observed,  *)
(* no pending notification is swallowed.                                   *)
NothingIsSwallowed == FreshWhen(TRUE)

(* FORM_ARCHITECTURE.md:262: a subscriber of a computed is called with a   *)
(* freshly evaluated value.                                                *)
CalledFresh ==
    [][/\ running = None /\ running' # None /\ job.node \in Computeds
       /\ \A c \in Computeds : ~disposed[c]
       => delivering = Meaning(job.node, value)]_cvars
=============================================================================
