----------------------------- MODULE QueryClient -----------------------------
(***************************************************************************)
(* The query prototype of research/query: one client with its records      *)
(* (query-client-prototype.ts, query-record.ts), the observers held by     *)
(* framework handles (query-observer.ts, query-adapters.ts), hydration, and*)
(* one mutation with optimistic data (mutation-record.ts).                 *)
(*                                                                         *)
(* A call runs to its end; fetches and mutations answer later, or never.   *)
(* Data is named by the generation that found or set it, 0 for none.       *)
(***************************************************************************)
EXTENDS Integers, Sequences, FiniteSets, SequencesExt

CONSTANTS
    Keys,           \* query keys: sequences
    Filters,        \* the keys that filters are given
    MaxRecord,      \* bound: records ever made
    Handles,        \* observers, each behind a handle of a framework adapter
    Executions,     \* calls of mutate()
    None,
    GcTime,         \* defaultGcTime: "now", "later" or "never"
    MaxGeneration   \* bound: generations of all records when a call adds one

ASSUME KeysAssumption == \A k \in Keys \cup Filters : k \in Seq(Nat)
ASSUME GcAssumption == GcTime \in {"now", "later", "never"}
ASSUME NoneAssumption == None \notin Keys \cup Executions
ASSUME QueryBounds == MaxRecord \in Nat /\ MaxGeneration \in Nat

VARIABLES
    map,        \* the client's records, per key: a record or 0
    records,    \* what each record holds
    handles,    \* the record each handle observes, or 0
    mutation,   \* MutationRecord: status, disposed and whose controller is active
    executions, \* what each mutate() call holds
    disposed,   \* the client has been disposed
    orphaned    \* history: keys whose record was observed when the client was cleared

qvars == <<map, records, handles, mutation, executions, disposed, orphaned>>

Ids == 1..MaxRecord

(* Generation 0 wrote nothing: data 0 is undefined.                        *)
Unused ==
    [key |-> None, data |-> 0, status |-> "empty", fetching |-> FALSE,
     invalidated |-> FALSE, generation |-> 0, controller |-> 0,
     execution |-> 0, fetches |-> {}, gc |-> FALSE]

NotStarted == [phase |-> "none", aborted |-> FALSE, record |-> 0, gen |-> 0, previous |-> 0]

QInit ==
    /\ map = [k \in Keys |-> 0]
    /\ records = [r \in Ids |-> Unused]
    /\ handles = [h \in Handles |-> 0]
    /\ mutation = [status |-> "idle", controller |-> None, disposed |-> FALSE]
    /\ executions = [e \in Executions |-> NotStarted]
    /\ disposed = FALSE
    /\ orphaned = {}

Observing(hs, r) == {h \in Handles : hs[h] = r}
Made(rs) == {r \in Ids : rs[r].key # None}

Put(r, x) == records' = [records EXCEPT ![r] = x]
-----------------------------------------------------------------------------
(* getRecord(): the record of a key is made when it is first asked for.    *)
Fresh == Cardinality(Made(records)) + 1
RecordOf(k) == IF map[k] # 0 THEN map[k] ELSE Fresh
Record(k) == IF map[k] # 0 THEN records[map[k]] ELSE [Unused EXCEPT !.key = k]
GetRecord(k) ==
    /\ ~disposed
    /\ RecordOf(k) \in Ids
    /\ map' = [map EXCEPT ![k] = RecordOf(k)]

Bounded == FoldSet(LAMBDA r, n : n + records[r].generation, 0, Ids) < MaxGeneration

(* cancelActiveController().                                               *)
Aborting(x) ==
    [x EXCEPT !.controller = 0,
              !.fetches = {[f EXCEPT !.aborted = @ \/ f.gen = x.controller] : f \in @}]

(* updateSuccess().                                                        *)
UpdateSuccess(x, d) ==
    [x EXCEPT !.data = d, !.status = "success", !.fetching = FALSE, !.invalidated = FALSE]

(* setData(): a generation of its own, so that a fetch in flight is stale. *)
Setting(x) ==
    LET g == x.generation + 1
    IN  UpdateSuccess([x EXCEPT !.generation = g], g)

(* fetch(): joins the execution in flight, or starts one of its own.       *)
Joins(x) == x.execution # 0 /\ x.fetching
StartingFrom(x, y) ==
    LET g == x.generation + 1
    IN  [y EXCEPT !.generation = g, !.controller = g, !.fetching = TRUE, !.execution = g,
                  !.fetches = @ \cup {[gen |-> g, aborted |-> FALSE]}]
StartingBesides(x) == StartingFrom(x, x)  \* mutated: the execution before is not aborted
Starting(x) == StartingFrom(x, Aborting(x))

FetchQuery(k, supersede) ==
    /\ GetRecord(k)
    /\ supersede \/ ~Joins(Record(k))
    /\ Bounded
    /\ Put(RecordOf(k), Starting(Record(k)))
    /\ UNCHANGED <<handles, mutation, executions, disposed, orphaned>>

(* isStale(); aged: staleTime has passed since the data was updated.       *)
IsStale(x, aged) == x.status # "success" \/ x.invalidated \/ aged

PrefetchQuery(k, aged) == IsStale(Record(k), aged) /\ FetchQuery(k, FALSE)

(* setQueryData().                                                         *)
SetQueryData(k) ==
    /\ GetRecord(k)
    /\ Bounded
    /\ Put(RecordOf(k), Setting(Record(k)))
    /\ UNCHANGED <<handles, mutation, executions, disposed, orphaned>>

(* hydrate(): only an envelope that passes validation as a whole changes   *)
(* anything; at most one of its keys has no record yet.                    *)
Hydrate(ks) ==
    /\ ~disposed /\ ks # {} /\ Bounded
    /\ \A k, l \in ks : map[k] = 0 /\ map[l] = 0 => k = l
    /\ map' = [k \in Keys |-> IF k \in ks THEN RecordOf(k) ELSE map[k]]
    /\ \A k \in ks : RecordOf(k) \in Ids
    /\ records' = [r \in Ids |-> IF \E k \in ks : RecordOf(k) = r
                                THEN Setting(Record(CHOOSE k \in ks : RecordOf(k) = r))
                                ELSE records[r]]
    /\ UNCHANGED <<handles, mutation, executions, disposed, orphaned>>

(* matchQueryKeyFamily(): the keys that start with a given one.            *)
Family(prefix) == {k \in Keys : IsPrefix(prefix, k)}
Matching(prefix) == {map[k] : k \in Family(prefix)} \ {0}

InvalidateQueries(prefix) ==
    /\ records' = [r \in Ids |-> IF r \in Matching(prefix)
                                THEN [records[r] EXCEPT !.invalidated = TRUE]
                                ELSE records[r]]
    /\ UNCHANGED <<handles, map, mutation, executions, disposed, orphaned>>

(* record.cancel().                                                        *)
Cancelling(x) == [Aborting(x) EXCEPT !.fetching = FALSE, !.execution = 0]

CancelQueries(prefix) ==
    /\ records' = [r \in Ids |-> IF r \in Matching(prefix) THEN Cancelling(records[r])
                                ELSE records[r]]
    /\ UNCHANGED <<handles, map, mutation, executions, disposed, orphaned>>
-----------------------------------------------------------------------------
(* The promise of an execution settles.                                    *)

Landed(x, f) ==
    LET y == [x EXCEPT !.fetches = @ \ {f}]
    IN  IF f.gen = x.generation THEN [y EXCEPT !.execution = 0, !.controller = 0] ELSE y

AnyAnswer(x, f) == ~f.aborted  \* mutated: the generation is not compared
Current(x, f) == f.gen = x.generation /\ ~f.aborted

FetchResolves(r, f) ==
    /\ LET x == records[r]
       IN  Put(r, Landed(IF Current(x, f) THEN UpdateSuccess(x, f.gen) ELSE x, f))
    /\ UNCHANGED <<handles, map, mutation, executions, disposed, orphaned>>

(* An abort is no error; an error leaves the data.                         *)
FetchRejects(r, f) ==
    /\ LET x == records[r]
           y == IF Current(x, f) THEN [x EXCEPT !.status = "error", !.fetching = FALSE]
                ELSE IF f.gen = x.generation THEN [x EXCEPT !.fetching = FALSE]
                ELSE x
       IN  Put(r, Landed(y, f))
    /\ UNCHANGED <<handles, map, mutation, executions, disposed, orphaned>>
-----------------------------------------------------------------------------
(* Handles and the collection of records nobody observes.                  *)

(* record.subscribe() cancels the collection.                              *)
SubscribedLate(x) == x  \* mutated: the collection is not cancelled
Subscribed(x) == [x EXCEPT !.gc = FALSE]

Observe(h, k) ==
    /\ GetRecord(k)
    /\ handles[h] = 0
    /\ Put(RecordOf(k), Subscribed(Record(k)))
    /\ handles' = [handles EXCEPT ![h] = RecordOf(k)]
    /\ UNCHANGED <<mutation, executions, disposed, orphaned>>

(* onCollect: whatever record the key has now is removed.                  *)
Collected(r) == [map EXCEPT ![records[r].key] = 0]

DisposeHandle(h) ==
    /\ handles[h] # 0
    /\ handles' = [handles EXCEPT ![h] = 0]
    /\ LET r == handles[h]
           last == Observing(handles', r) = {}
       IN  /\ records' = [records EXCEPT ![r].gc = IF last THEN GcTime = "later" ELSE @]
           /\ map' = IF last /\ GcTime = "now" THEN Collected(r) ELSE map
    /\ UNCHANGED <<mutation, executions, disposed, orphaned>>

CollectTimer(r) ==
    /\ records[r].gc
    /\ records' = [records EXCEPT ![r].gc = FALSE]
    /\ map' = Collected(r)
    /\ UNCHANGED <<handles, mutation, executions, disposed, orphaned>>

Clear ==
    /\ records' = [r \in Ids |-> IF \E k \in Keys : map[k] = r
                                THEN [Cancelling(records[r]) EXCEPT !.gc = FALSE]
                                ELSE records[r]]
    /\ map' = [k \in Keys |-> 0]
    /\ orphaned' = orphaned \cup {k \in Keys : map[k] # 0 /\ Observing(handles, map[k]) # {}}
    /\ UNCHANGED handles

ClearClient == ~disposed /\ Clear /\ UNCHANGED <<mutation, executions, disposed>>
DisposeClient ==
    /\ ~disposed
    /\ disposed' = TRUE
    /\ Clear
    /\ UNCHANGED <<mutation, executions>>
-----------------------------------------------------------------------------
(* The mutation.  Its callbacks are those of the tests: onMutate sets      *)
(* optimistic data, onSuccess the confirmed data, onError rolls back.      *)

AbortActive(es) ==
    IF mutation.controller = None THEN es ELSE [es EXCEPT ![mutation.controller].aborted = TRUE]

(* mutate(): onMutate, and mutationFn even when the execution was aborted. *)
Mutate(e, k) ==
    /\ executions[e].phase = "none" /\ ~mutation.disposed
    /\ GetRecord(k) /\ Bounded
    /\ LET x == Setting(Record(k))
       IN  /\ Put(RecordOf(k), x)
           /\ executions' = [AbortActive(executions) EXCEPT ![e] =
                [phase |-> "sending", aborted |-> FALSE, record |-> RecordOf(k),
                 gen |-> x.generation, previous |-> Record(k).data]]
    /\ mutation' = [mutation EXCEPT !.status = "pending", !.controller = e]
    /\ UNCHANGED <<handles, disposed, orphaned>>

Released(e) == IF mutation.controller = e THEN None ELSE mutation.controller

(* A call that is over keeps none of its locals.                           *)
Over(e) == executions' = [executions EXCEPT ![e] = [NotStarted EXCEPT !.phase = "over"]]

(* Whatever the answer, an execution that was aborted reports nothing.     *)
NeverAborted(e) == FALSE  \* mutated: the abort is not looked at
Aborted(e) == executions[e].aborted

AnswerIgnored(e) ==
    /\ executions[e].phase = "sending" /\ Aborted(e)
    /\ Over(e)
    /\ mutation' = [mutation EXCEPT !.controller = Released(e)]
    /\ UNCHANGED <<map, records, handles, disposed, orphaned>>

(* mutationFn resolves; onSuccess confirms the data and is awaited.        *)
Accepted(e) ==
    /\ executions[e].phase = "sending" /\ ~Aborted(e) /\ ~disposed
    /\ executions' = [executions EXCEPT ![e].phase = "confirming"]
    /\ mutation' = [mutation EXCEPT !.status = "success"]
    /\ LET k == records[executions[e].record].key
       IN  GetRecord(k) /\ Put(RecordOf(k), Setting(Record(k)))
    /\ UNCHANGED <<handles, disposed, orphaned>>

(* The rollback of setOptimisticData(): only if nothing was written since. *)
RollingBack(e, x) ==
    UpdateSuccess([x EXCEPT !.generation = @ + 1], executions[e].previous)
RollbackAlways(e, x) == RollingBack(e, x)  \* mutated: the generation is not compared
Rollback(e, x) == IF x.generation = executions[e].gen THEN RollingBack(e, x) ELSE x

(* mutationFn or a callback of success rejects, or onSuccess meets a       *)
(* disposed client; onError rolls back and is awaited.                     *)
Failed(e) ==
    /\ executions[e].phase \in {"sending", "confirming"} /\ ~Aborted(e)
    /\ executions' = [executions EXCEPT ![e].phase = "failing"]
    /\ mutation' = [mutation EXCEPT !.status = "error"]
    /\ LET r == executions[e].record IN Put(r, Rollback(e, records[r]))
    /\ UNCHANGED <<handles, map, disposed, orphaned>>

(* The callbacks are done, or one of them fails when nobody listens.       *)
Settled(e) ==
    /\ executions[e].phase \in {"confirming", "failing"}
    /\ Over(e)
    /\ mutation' = [mutation EXCEPT !.controller = Released(e)]
    /\ UNCHANGED <<map, records, handles, disposed, orphaned>>

Cancelled(m) == [m EXCEPT !.controller = None,
                          !.status = IF m.controller # None /\ @ = "pending" THEN "idle" ELSE @]
CancelMutation ==
    /\ mutation.controller # None
    /\ mutation' = Cancelled(mutation)
    /\ executions' = AbortActive(executions)
    /\ UNCHANGED <<map, records, handles, disposed, orphaned>>

DisposeMutation ==
    /\ ~mutation.disposed
    /\ mutation' = [Cancelled(mutation) EXCEPT !.disposed = TRUE]
    /\ executions' = AbortActive(executions)
    /\ UNCHANGED <<map, records, handles, disposed, orphaned>>
-----------------------------------------------------------------------------
RecordCall ==
    \/ \E k \in Keys : SetQueryData(k) \/ \E b \in BOOLEAN : FetchQuery(k, b) \/ PrefetchQuery(k, b)
    \/ \E ks \in SUBSET Keys : Hydrate(ks)
    \/ \E prefix \in Filters : InvalidateQueries(prefix) \/ CancelQueries(prefix)
    \/ ClearClient \/ DisposeClient

RecordEvent ==
    \E r \in Ids :
        \/ \E f \in records[r].fetches : FetchResolves(r, f) \/ FetchRejects(r, f)
        \/ CollectTimer(r)

HandleCall == \E h \in Handles : DisposeHandle(h) \/ \E k \in Keys : Observe(h, k)

MutationStep ==
    \/ \E e \in Executions :
        \/ \E k \in Keys : Mutate(e, k)
        \/ AnswerIgnored(e) \/ Accepted(e) \/ Failed(e) \/ Settled(e)
    \/ CancelMutation \/ DisposeMutation

QNext == RecordCall \/ RecordEvent \/ HandleCall \/ MutationStep

QSpec == QInit /\ [][QNext]_qvars
-----------------------------------------------------------------------------
RecordType ==
    [key : Keys \cup {None}, data : Nat, status : {"empty", "success", "error"},
     fetching : BOOLEAN, invalidated : BOOLEAN, generation : Nat,
     controller : Nat, execution : Nat, fetches : SUBSET [gen : Nat, aborted : BOOLEAN],
     gc : BOOLEAN]

(* The state keeps its types; what was written, started or kept belongs to *)
(* a generation the record has reached.                                    *)
QTypeOK ==
    /\ map \in [Keys -> Ids \cup {0}]
    /\ records \in [Ids -> RecordType]
    /\ \A r \in Ids : {records[r].data, records[r].controller, records[r].execution} \subseteq 0..records[r].generation
    /\ \A h \in Handles : handles[h] \in Ids \cup {0}
    /\ mutation.status \in {"idle", "pending", "success", "error"}
    /\ mutation.controller \in Executions \cup {None}

(* A record that says it is fetching has an execution in flight that will  *)
(* settle it, and no record ever has two executions that were not told to  *)
(* stop, whatever was set, cancelled, superseded or cleared meanwhile.     *)
FetchingIsTrue ==
    \A r \in Ids :
        LET x == records[r]
        IN  /\ x.fetching => \E f \in x.fetches : Current(x, f)
            /\ \A f, g \in x.fetches : f # g => f.aborted \/ g.aborted

(* README 3: late completions of superseded executions are rejected.  The  *)
(* data of a record is never replaced by what an older call has found;     *)
(* only a rollback returns to older data.                                  *)
LateNeverWins ==
    [][\A r \in Ids :
        \/ records'[r].data >= records[r].data
        \/ \E e \in Executions : executions[e].record = r /\ executions[e].phase # "failing"
                                   /\ executions'[e].phase = "failing"]_qvars

(* README 4: active queries are never collected.  A record somebody        *)
(* observes is the one the client has for its key, so that whoever fetches,*)
(* sets or invalidates the key reaches it.  Left out are keys whose record *)
(* was observed when the client was cleared: its observers stay with it,   *)
(* and when the last leaves, its timer removes the record of their key.    *)
ActiveKept ==
    \A r \in Made(records) :
        Observing(handles, r) # {} /\ records[r].key \notin orphaned =>
            map[records[r].key] = r

(* README 5: a rollback takes back its own optimistic data and nothing that*)
(* was written to the record after it.                                     *)
RollbackTakesOwn ==
    [][\A e \in Executions :
        LET r == executions[e].record
        IN  executions[e].phase # "failing" /\ executions'[e].phase = "failing"
                /\ records'[r] # records[r] =>
            records[r].data = executions[e].gen]_qvars

(* The mutation says it is pending exactly while the call that is not told *)
(* to stop waits for its answer; a call that was superseded or cancelled   *)
(* changes nothing any more.                                               *)
PendingIsTrue ==
    mutation.status = "pending" <=>
        /\ mutation.controller # None
        /\ executions[mutation.controller].phase = "sending"

(* What a record and the mutation say of themselves is true, and a record  *)
(* somebody observes is the one that is told (query-record.ts,             *)
(* mutation-coordinator.ts, query-client.ts).                              *)
RecordsAreTrue == QTypeOK /\ FetchingIsTrue /\ PendingIsTrue /\ ActiveKept

(* Nothing an execution does late undoes what came after it, neither its   *)
(* answer nor its rollback.                                                *)
NothingComesLate == LateNeverWins /\ RollbackTakesOwn
=============================================================================
