-------------------------------- MODULE Flow --------------------------------
(***************************************************************************)
(* The flow prototype (research/flow/flow-prototype.ts): a subscription to *)
(* one of three pipelines,                                                 *)
(*   "direct"  createManualSource().filter().map().distinct()              *)
(*   "search"  createManualSource().debounce().switchLatest(promise)       *)
(*   "pulled"  fromAsyncIterable() or fromReadableStream()                 *)
(* and a consumer whose callbacks may use the source, the subscription and *)
(* its scope again before they return, and may throw.  inside is the stack *)
(* of callbacks that have not returned.                                    *)
(***************************************************************************)
EXTENDS Integers, Sequences, FiniteSets, SequencesExt

CONSTANTS
    MaxEmits,  \* values the program emits
    MaxNested  \* callbacks inside callbacks

ASSUME FlowBounds == MaxEmits \in Nat \ {0} /\ MaxNested \in Nat \ {0}

VARIABLES
    kind,      \* the pipeline
    dropped,   \* the value filter() refuses, 0 for none
    poison,    \* the value map() throws for, 0 for none
    closed,    \* the source has completed or failed
    queue,     \* createQueuedObserver(): actions not taken yet
    stopped,   \* it takes no more
    previous,  \* distinct(): the last value let through, 0 for none
    latest,    \* debounce(): the value to flush, 0 for none
    timer,     \* and its timer
    debounced, \* debounce() is closed
    switching, \* switchLatest() is active; the pump is
    outerDone, \* outerCompleted
    current,   \* the value of the current inner subscription, 0 for none
    inner,     \* the promise of each value: "none", "running", "aborted", "settled"
    heard,     \* what the consumer was told: values, then Complete or Failure
    left,      \* the subscription was disposed, by the program or its scope
    inside,
    emits,     \* the values emitted
    taken,     \* those that a queue took before it stopped (history)
    nestedEnd  \* the source completed inside a callback of the consumer (history)

settings == <<kind, dropped, poison>>
wvars == <<settings, closed, queue, stopped, previous, latest, timer, debounced, switching, outerDone,
           current, inner, heard, left, inside, emits, taken, nestedEnd>>
debounceVars == <<latest, timer, debounced>>
switchVars == <<switching, outerDone, current, inner>>

Values == 1..MaxEmits
Complete == -1  \* what a consumer is told besides values
Failure == -2
Ends == {Complete, Failure}
Key(v) == (v + 1) \div 2  \* distinct() takes 1 and 2 for the same value

FlowInit ==
    /\ kind \in {"direct", "search", "pulled"}
    /\ dropped \in 0..MaxEmits /\ poison \in 0..MaxEmits
    /\ kind # "direct" => dropped = 0 /\ poison = 0
    /\ closed = FALSE /\ queue = <<>> /\ stopped = FALSE /\ previous = 0
    /\ latest = 0 /\ timer = FALSE /\ debounced = FALSE
    /\ switching = TRUE /\ outerDone = FALSE /\ current = 0
    /\ inner = [v \in Values |-> "none"]
    /\ heard = <<>> /\ left = FALSE /\ inside = <<>> /\ emits = 0 /\ taken = 0
    /\ nestedEnd = FALSE

(* A callback of the consumer: then is what its caller does afterwards.    *)
Told(what, then) == heard' = Append(heard, what) /\ inside' = Append(inside, then)
Quiet == UNCHANGED <<heard, inside>>
InFlow == inside = <<>>
Free == Len(inside) < MaxNested

-----------------------------------------------------------------------------
(* The queue of "direct": an action runs at once unless one is running.    *)
Draining == \E i \in DOMAIN inside : inside[i] = "drain"

Passes(x) == x \in Ends \/ (x # dropped /\ (x = poison \/ Key(x) # previous))
Take(q) ==  \* the drain loop up to the next callback, from the queue q
    \/ /\ \A i \in DOMAIN q : ~Passes(q[i])
       /\ queue' = <<>> /\ UNCHANGED <<heard, previous, stopped, switching>>
    \/ \E first \in DOMAIN q :
          /\ Passes(q[first]) /\ \A i \in 1..(first - 1) : ~Passes(q[i])
          /\ queue' = SubSeq(q, first + 1, Len(q))
          /\ IF q[first] \in Values \ {poison}
             THEN /\ heard' = Append(heard, q[first]) /\ previous' = Key(q[first])
                  /\ UNCHANGED <<stopped, switching>>
             ELSE /\ heard' = Append(heard, IF q[first] = poison THEN Failure ELSE q[first])
                  /\ stopped' = TRUE /\ switching' = FALSE /\ UNCHANGED previous

Enqueue(action) ==
    IF stopped THEN UNCHANGED <<queue, heard, previous, stopped, switching, inside>>
    ELSE IF Draining
    THEN queue' = Append(queue, action) /\ UNCHANGED <<heard, previous, stopped, switching, inside>>
    ELSE Take(Append(queue, action)) /\ inside' = IF heard' = heard THEN inside ELSE <<"drain">> \o inside

Direct(action) == Enqueue(action) /\ UNCHANGED <<debounceVars, outerDone, current, inner>>

(* The loop goes on when the callback returns, or throws.                  *)
Drain ==
    /\ kind = "direct" /\ inside # <<>> /\ Last(inside) = "drain"
    /\ IF stopped THEN UNCHANGED <<queue, heard, previous, stopped, switching>> ELSE Take(queue)
    /\ inside' = IF heard' = heard THEN Front(inside) ELSE inside
    /\ UNCHANGED <<settings, closed, debounceVars, outerDone, current, inner, left, emits, taken, nestedEnd>>

-----------------------------------------------------------------------------
Aborted(promises) ==
    [v \in Values |-> IF v = current /\ promises[v] = "running" THEN "aborted" ELSE promises[v]]

(* switchLatest(): its teardown, and what ends it for the consumer.        *)
TornDown(promises) ==
    /\ switching' = FALSE /\ inner' = Aborted(promises) /\ stopped' = TRUE
    /\ timer' = FALSE /\ debounced' = TRUE
    /\ UNCHANGED <<latest, outerDone>>
Terminate(promises) ==
    IF switching
    THEN TornDown(promises) /\ Told(Failure, "return") /\ UNCHANGED current
    ELSE inner' = promises /\ Quiet /\ UNCHANGED <<debounceVars, switching, outerDone, current, stopped>>
MaybeComplete(done, now) ==
    IF switching /\ done /\ now = 0
    THEN switching' = FALSE /\ Told(Complete, "return")
    ELSE UNCHANGED switching /\ Quiet

(* next of the outer source: the inner subscription before is cancelled.   *)
Switched(v) ==
    current' = v /\ inner' = [Aborted(inner) EXCEPT ![v] = "running"]

(* scheduler.set() for each value; the timer flushes the last one.         *)
Debounce(v) ==
    IF debounced THEN UNCHANGED debounceVars
    ELSE latest' = v /\ timer' = TRUE /\ UNCHANGED debounced

FlushTimer(throws) ==
    /\ kind = "search" /\ InFlow /\ timer
    /\ latest' = 0
    /\ IF throws
       THEN /\ switching' = FALSE /\ inner' = Aborted(inner) /\ stopped' = TRUE
            /\ timer' = FALSE /\ debounced' = TRUE
            /\ Told(Failure, "return") /\ UNCHANGED <<outerDone, current>>
       ELSE /\ timer' = FALSE /\ Switched(latest)
            /\ Quiet /\ UNCHANGED <<debounced, switching, outerDone, stopped>>
    /\ UNCHANGED <<settings, closed, queue, previous, left, emits, taken, nestedEnd>>

(* The source completes: debounce() flushes what it has, then completes.   *)
CompleteSearch ==
    IF debounced \/ stopped
    THEN Quiet /\ UNCHANGED <<debounceVars, switchVars, stopped>>
    ELSE /\ stopped' = TRUE /\ debounced' = TRUE /\ timer' = FALSE /\ latest' = 0
         /\ outerDone' = TRUE
         /\ IF latest # 0 /\ switching
            THEN Switched(latest) /\ UNCHANGED switching /\ Quiet
            ELSE MaybeComplete(TRUE, current) /\ UNCHANGED <<current, inner>>

(* fromAbortablePromise(): next and then complete, without looking between.*)
PromiseSettles(v, ok) ==
    /\ kind = "search" /\ InFlow /\ inner[v] \in {"running", "aborted"}
    /\ IF inner[v] = "aborted"
       THEN /\ inner' = [inner EXCEPT ![v] = "settled"]
            /\ Quiet /\ UNCHANGED <<debounceVars, switching, outerDone, current, stopped>>
       ELSE IF ok
       THEN /\ inner' = [inner EXCEPT ![v] = "settled"]
            /\ Told(v, "promise")
            /\ UNCHANGED <<debounceVars, switching, outerDone, current, stopped>>
       ELSE Terminate([inner EXCEPT ![v] = "settled"])
    /\ UNCHANGED <<settings, closed, queue, previous, left, emits, taken, nestedEnd>>

(* complete of the inner source: current is cleared, whichever it is.      *)
InnerCompletes ==
    /\ inside # <<>> /\ Last(inside) = "promise"
    /\ current' = 0
    /\ IF switching /\ outerDone
       THEN /\ switching' = FALSE
            /\ heard' = Append(heard, Complete) /\ inside' = Append(Front(inside), "return")
       ELSE UNCHANGED <<switching, heard>> /\ inside' = Front(inside)
    /\ UNCHANGED <<settings, closed, queue, stopped, previous, debounceVars, outerDone, inner, left,
                   emits, taken, nestedEnd>>

CallbackReturns ==
    /\ inside # <<>> /\ Last(inside) \in {"return", "pump"} /\ inside' = Front(inside)
    /\ UNCHANGED <<settings, closed, queue, stopped, previous, debounceVars, switchVars, heard, left,
                   emits, taken, nestedEnd>>

-----------------------------------------------------------------------------
(* The program, from outside or from inside a callback.                    *)
Emit ==
    /\ kind # "pulled" /\ Free /\ ~closed /\ emits < MaxEmits
    /\ emits' = emits + 1
    /\ taken' = IF stopped THEN taken ELSE emits + 1
    /\ IF kind = "direct" THEN Direct(emits + 1)
       ELSE /\ IF stopped THEN UNCHANGED debounceVars ELSE Debounce(emits + 1)
            /\ Quiet /\ UNCHANGED <<queue, previous, stopped, switchVars>>
    /\ UNCHANGED <<settings, closed, left, nestedEnd>>

SourceEnds(how) ==
    /\ kind # "pulled" /\ Free /\ ~closed /\ closed' = TRUE
    /\ nestedEnd' = (inside # <<>>)
    /\ IF kind = "direct" THEN Direct(how)
       ELSE /\ \/ how = Complete /\ CompleteSearch
               \/ how = Failure /\ stopped /\ Quiet /\ UNCHANGED <<debounceVars, switchVars, stopped>>
               \/ how = Failure /\ ~stopped /\ Terminate(inner)
            /\ UNCHANGED <<queue, previous>>
    /\ UNCHANGED <<settings, left, emits, taken>>

(* unsubscribe(), or the disposal of the scope of subscribeInScope().      *)
Unsubscribe ==
    /\ ~left /\ left' = TRUE
    /\ TornDown(inner) /\ queue' = <<>> /\ UNCHANGED current
    /\ UNCHANGED <<settings, closed, previous, heard, inside, emits, taken, nestedEnd>>

(* The pump awaits one result, tells it, and asks for the next.  A consumer*)
(* that throws is told of its own error, as the source's.                  *)
PumpUnchecked(what) ==  \* mutated: active is not looked at after the await
    /\ kind = "pulled" /\ InFlow /\ ~closed
    /\ closed' = (what \in Ends)
    /\ emits' = IF what \in Values THEN what ELSE emits
    /\ Told(what, "pump")
    /\ UNCHANGED <<settings, queue, stopped, previous, debounceVars, switchVars, left, taken, nestedEnd>>
Pump(what) ==
    /\ kind = "pulled" /\ InFlow /\ ~closed /\ switching
    /\ closed' = (what \in Ends)
    /\ emits' = IF what \in Values THEN what ELSE emits
    /\ Told(what, "pump")
    /\ UNCHANGED <<settings, queue, stopped, previous, debounceVars, switchVars, left, taken, nestedEnd>>

ConsumerThrows ==
    /\ kind = "pulled" /\ inside # <<>> /\ Last(inside) = "pump" /\ Last(heard) # Failure
    /\ closed' = TRUE
    /\ IF switching THEN heard' = Append(heard, Failure) /\ inside' = <<"return">>
                    ELSE heard' = heard /\ inside' = <<>>
    /\ UNCHANGED <<settings, queue, stopped, previous, debounceVars, switchVars, left, emits, taken, nestedEnd>>

FlowNext ==
    \/ Emit \/ (\E how \in Ends : SourceEnds(how)) \/ Unsubscribe
    \/ Drain \/ InnerCompletes \/ CallbackReturns \/ ConsumerThrows
    \/ \E throws \in BOOLEAN : FlushTimer(throws)
    \/ \E v \in Values, ok \in BOOLEAN : PromiseSettles(v, ok)
    \/ emits < MaxEmits /\ Pump(emits + 1)
    \/ \E how \in Ends : Pump(how)

FlowSpec == FlowInit /\ [][FlowNext]_wvars
-----------------------------------------------------------------------------
(* Nothing is told after an end, or after the consumer left, unless the    *)
(* source was completed inside a callback; a pump whose consumer throws in *)
(* complete() tells it of its own error.                                   *)
NothingAfterTheEndInStep == ~nestedEnd /\ heard' # heard =>
    /\ ~left
    /\ heard # <<>> /\ Last(heard) \in Ends =>
          kind = "pulled" /\ Last(heard) = Complete /\ Last(heard') = Failure
NothingAfterTheEnd == [][NothingAfterTheEndInStep]_wvars

(* A re-entrant emission waits its turn: the consumer of a manual source   *)
(* hears the values in the order they were emitted, none that filter()     *)
(* refuses or map() throws for, each key once, and all of them once idle.  *)
(* Key is monotone: a key that comes again comes next.                     *)
Fit(v) == v \notin {dropped, poison} /\ (poison \in {0, dropped} \/ v < poison)
Turn(v) == Fit(v) /\ \A u \in 1..(v - 1) : Fit(u) => Key(u) # Key(v)
Due == {v \in 1..taken : Turn(v)}
EmissionsInOrder == kind = "direct" =>
    LET told == {i \in DOMAIN heard : heard[i] \in Values}
    IN  /\ \A i, j \in DOMAIN heard : i < j /\ j \in told => i \in told /\ heard[i] < heard[j]
        /\ \A i \in told : heard[i] \in Due
        /\ \A i \in told, v \in Due : v < heard[i] => \E j \in told : heard[j] = v
        /\ inside = <<>> /\ ~left => \A v \in Due : \E i \in told : heard[i] = v

(* Of the searches only the last one asked is ever heard, and the end waits*)
(* for it, unless the source was completed inside a callback.              *)
OnlyTheLatestIsHeard == kind = "search" =>
    /\ \A i, j \in DOMAIN heard : i < j /\ heard[j] \in Values => heard[i] < heard[j]
    /\ \A v, w \in Values : inner[v] = "running" /\ inner[w] = "running" => v = w
    /\ heard # <<>> /\ Last(heard) = Complete /\ ~nestedEnd =>
          \A v \in Values : inner[v] # "running"
    /\ InFlow /\ switching /\ ~nestedEnd /\ outerDone => current # 0
    /\ latest # 0 /\ ~debounced => timer

(* Expected to fail: "Subscriber callback failures remain outside the      *)
(* producer/operator error channel" (research/flow/README.md).             *)
SubscriberFailuresStayOutside == [][ConsumerThrows => heard' = heard]_wvars

(* The stream contract as a whole: order, the latest inner, the end.       *)
FlowIsSound == [](EmissionsInOrder /\ OnlyTheLatestIsHeard) /\ NothingAfterTheEnd
=============================================================================
