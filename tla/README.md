# A TLA+ development for Vii

Vii is a TypeScript monorepo: a reactive core (`packages/core`), a form library
on top of it (`packages/form`), framework adapters, a CLI, and research
prototypes of a query cache, an http client, streams, an installer of source
files and an earlier form (`research/`). Everything runs on one JavaScript
thread. What makes the code hard is not parallelism but re-entrancy and
lateness: a listener calls back into the library while a flush is under way, a
`computed` re-evaluates inside the flush that is notifying it, a rule, a fetch
or an action answers after its owner has moved on, a component goes while its
notifications are still to come. These modules model that control, TLC checks it
on small instances, and TLAPS proves the safety of twenty-two of its modules for
all instances.

Paths below are relative to `src/`.

## 1. Inventory

| Component | State it keeps | Operations | Hard behaviour | Correct when |
|---|---|---|---|---|
| **Notification core**: `packages/core/src/scheduler.ts`, `notifier.ts`, `state.ts`, `batch.ts` | one global job queue with `batchDepth`, `isFlushing`; per notifier `pendingValues`, `flushScheduled`, a Set of subscriptions; per cell `currentValue` | `set`, `subscribe`, unsubscribe, `batch` | listeners that write, subscribe, cancel or batch in mid-flush; listeners that throw; cutoffs at `MAX_FLUSH_ITERATIONS` | no notifier is silenced, the last write reaches every subscriber, in order, batches hold delivery, errors are reported, every flush ends |
| **Computed**: `computed.ts`, `tracking.ts` | cached value, `lastNotifiedValue`, `dirty`, `recomputeScheduled`, dependency subscriptions | `get`, `subscribe`, `dispose`, `invalidate`, the recompute job | `get()` between invalidation and job; dependencies that change in mid-flush; recompute that throws or is discarded | at rest subscribers have the present value, no lost invalidation, no leaked subscription |
| **Scope**: `scope.ts`, `scope-context.ts`, `async-guard.ts` | a doubly linked list of resources, children, disposed flag | `use`, detach, `createChild`, `runInScope`, `dispose` | disposers that fail, or detach, add and dispose others in mid-walk | each resource disposed once, in reverse order, failures reported |
| **Diagnostics**: `diagnostics.ts` | listeners of the development build | record, redact | none | reads only |
| **Form fields and validation**: `packages/form/src/core/field-*.ts`, `validation/*.ts` | value, parse result, validation and server issues, status, pending, revision, abort controller, debounce timer | `setValue`, `setRawValue`, blur, `validate`, `reset`, `dispose`, the debounce timer, rules | late answers, rules that throw or reject, a dependency edited while a dependent is validating | verdicts are about the present values, `pending` tells the truth |
| **Submission**: `packages/form/src/submission/*.ts`, `core/form.ts` | `submissionStatus`, current revision, active controller, form server issues | `submit`, `cancelSubmit`, `reset`, `dispose` | several awaits per call, calls superseding each other, late actions | an action starts on no value a rule refused, a call not wanted any more leaves nothing, the form never stays "submitting" |
| **Form tree**: `packages/form/src/core/group.ts`, `array*.ts`, `internal.ts`, `reinitialize-tree.ts`, `validation/dependencies.ts`, `submission/server-issues.ts` | owners, dependency graph, item identity, baselines, routed issues | adopt, register, unregister, insert, move, remove, reset, reinitialize, dispose | two-phase adoption and reinitialization, dependencies found late, items moved while a submission is away | one owner per node, an acyclic symmetric graph, issues on the item they were about, all or nothing |
| **Parsers, Standard Schema bridge** | none | convert one value | none | a conversion |
| **Framework adapters**: `packages/react`, `vue`, `angular`, `packages/form/src/adapters`, `research/form/adapters` | subscriptions, copies or snapshots, the host's life; attributes of controls; a registry of controls | make, render, subscribe, dispose; bind, rebind, type; submit, focus | a change between render and subscription, partial subscriptions, bindings that share a control and leave in any order, answers after disposal | a screen shows the node, a control its field, attributes come back, focus goes to the first invalid control |
| **CLI core**: `packages/cli-core` | files of the user's project | `init`, `add state` | another process or the user between look and write, crash | nothing of the user's is overwritten or removed |
| **Query prototype**: `research/query` | records with generation, execution, controller, timer; observers; one mutation | fetch, prefetch, set, invalidate, cancel, observe, clear, hydrate, mutate | overlapping fetches, late rollbacks, collection | a record says what is the case, nothing late wins |
| **Http prototype**: `research/http` | signals, attempt, hop, open body | one request with middleware, retries, redirects; streams | abort, timeout and scope against answer and backoff | a call ends with the reason that came first and gives everything back |
| **Flow prototype**: `research/flow` | queue of a subscription, timers, inner source | emit, complete, unsubscribe, pump | re-entrant consumers, inner sources that end in mid-subscribe | order, one end, only the latest inner is heard |
| **Source distribution**: `research/registry`, `research/source-distribution` | files, lock file | validate a manifest, install, detach | failure or crash between files and lock, concurrent runs | all or nothing, targets apart and inside |
| **Form prototype**: `research/form` | as the form library, in one module | fields, keyed arrays, groups, submission | as above; keys that change | as above |
| **Other research, site, examples, scripts** | none of their own | | | |

Interaction. A cell or computed owns a notifier; a notifier schedules jobs in the
scheduler; jobs call listeners; a computed is itself a listener of its
dependencies. A form field stores its observable state in cells, is owned by a
form, group or array through a scope, starts waves over the fields that depend on
it, and is read by the submission, which validates the tree, awaits the rules and
then the action, and routes the server's answer back into the tree. Adapters
subscribe to the signals of a node and write user input into it.

`PROJECT.json` lists every component with its status and, under "hazards", the
lines where each of these behaviours bites and the properties that watch them.

## 2. Modules

| Module | Models | Built on |
|---|---|---|
| `Notification` | scheduler, notifiers, cells, batches | |
| `Delivery` | what the core promises its users, with no queue or job in it | |
| `Computed` | computeds over cells and computeds | extends `Notification` |
| `Scope` | the resource list of scopes and its disposal | |
| `FieldValidation` | the fields of one form and their validation | |
| `Submission` | `submit()` over those fields | extends `FieldValidation` |
| `SubmissionListeners` | `submit()` with listeners that call the form or throw at each of its writes | |
| `FormTree` | adoption, registration, the dependency graph and its waves | |
| `FormArray` | a field array: items, scopes, baseline, issues by identity | |
| `FormValues` | aggregates of a tree, reset, reinitialize, routing by path | |
| `Projection` | the handles that show a state, field, form or array | |
| `Controls` | the two-way bindings of controls | |
| `Attributes` | `aria-invalid` and `aria-describedby` on shared controls | |
| `Focus` | focus registry and the vanilla form binding | |
| `QueryClient` | records, observers, hydration, one mutation | |
| `EventStream`, `HttpClient` | a body as lines and events; one request | the second extends the first |
| `Flow` | a subscription to one of three pipelines | |
| `Manifest`, `Installer` | judging a manifest; installing it | |
| `PrototypeField` | a field of the form prototype | |
| `PrototypeArray`, `PrototypeForm` | its keyed array; its form with submission | the second extends the first |
| `MC...` | finite instances for TLC | the modules they name |
| `Notification_proofs`, `Computed_proofs`, `QueryClient_proofs` | theorems and their proofs (section 4) | the modules they name |
| `Submission_proofs` | the same for `FieldValidation` and `Submission` | |
| `FormTree_proofs` | the same for `FormTree`, `Scope`, `FormArray` and `FormValues` | |
| `Adapters_proofs` | the same for `Attributes`, `Projection`, `Controls`, `Focus` and `SubmissionListeners` | |
| `Prototype_proofs` | the same for `PrototypeField`, `PrototypeArray` and `PrototypeForm` | |
| `Research_proofs` | the same for `HttpClient`, `EventStream`, `Installer`, `Flow` and `Manifest` | |

`MCSubmissionBoth`, `MCPackages`, `MCPrototypes`, `MCResearch` and `MCAdapters` put
several components or several instances of one side by side, and `MCComputed` two
sets of read functions: the variable `part` says which one a behaviour is about,
the others rest in an initial state. Their state spaces add up and do not
multiply; the components of one such module do not interact in the code either.

### Notification

A call runs to completion, so a step of another actor can only come where user
code runs, that is in a listener or in a batch callback. The flush is therefore
cut into the steps between which a listener may run:

| Action | Code |
|---|---|
| `Set`, `Subscribe`, `Unsubscribe` | `state.ts` `set`, `notifier.ts` `subscribe` and the function it returns |
| `BatchBegin`, `BatchEnd(err)` | `runBatch` before and after the callback, which may have thrown |
| `StartJob`, `EndJob`, `FlushDone`, `CutOffJobs` | the loop of `flushJobs`, its `finally`, its cutoff with every `onDiscard` |
| `NextValue`, `CutOffValues` | the loop of the notifier's `flush` and its cutoff |
| `SkipListener`, `CallListener`, `Return(threw)` | the loop of `notifyListeners` |

While `running` is a listener, the actions of the first two rows are enabled for
it (it makes at most `MaxOps` calls); while nothing runs they are calls from the
top level. The variables carry the names of the source. History variables (`seen`,
`notified`, `cut`, `raised`, `outcome`) are read by properties and guard nothing.
A write that a batch callback made before it threw stays made, as in the code.

`Delivery` says what all of this is for: a subscription of a cell is given some
of the versions written to it, ever newer ones, and when the library has become
idle it has the last one, unless a cutoff lost values of that cell.
`Notification` maps (`Abstract`) `members` to the subscriptions of a cell, `lossy`
to the cells a cutoff hit, `idle` to `Quiescent`; `ImplementsDelivery` is
`Delivery`'s specification under that mapping.

### Computed

Adds the caches, `recomputeScheduled`, the dependency sets and the stack of
evaluations in progress. A read function is a constant, `Program(c, reads)`:
which node it reads next after having read `reads`, or what it returns, or that
it throws. `Meaning(c, values)` says independently what the function computes
from the cells; `Fresh` compares the two, for the computeds in `Live`: those that
depend on no disposed computed, not even through others. Evaluation is read by
read because a read of a dirty computed nests. Other calls are made only while no
evaluation is on the stack: read functions that write are not modelled.

Two history variables name what the code gives up. `abandoned` are computeds whose
recompute threw or was discarded. `slipped` are computeds whose `lastNotifiedValue`
lost touch with what their subscribers were given: it was moved while values were
still queued (`Overtakes`), or a read function came back to it from a value that
`get()` had handed out (`Slips`). `Fresh` and `NoEcho` excuse both, `NothingIsSwallowed`
does not and is violated (section 3).

Each action of `Notification` is used as it stands and leaves the computeds
alone, but for the cutoff of the scheduler (`GiveUp` extends it by the
`onDiscard` of recompute jobs) and the listeners that are computeds
(`Invalidate` instead of `CallListener`).

### Scope

The list is modelled with its links (`next`, `prev`, head and tail), because the
hazard is in them: the walk of `dispose()` goes from the tail backwards while
disposers, which are user code, attach, detach, create children and dispose any
scope. `calls` is the stack of `dispose()` calls. A disposer returns or throws;
the walk goes on and the errors are thrown at the end.

### FieldValidation

One record per field holds what its closures hold. A field has one synchronous
and one asynchronous rule, given by what they say of the values of the fields
(`SyncFails`, `Asks`, `AsyncFails`), and `Throwing` names the fields whose rules
may throw or reject. Values are small numbers; what parsing yields is only
whether it worked. A validation is identified by the revision it started with;
controller and timer are represented by that revision, 0 for none. `runs` are
the asynchronous rules that have been asked and not been dealt with, whether
aborted or not: all of them answer in any order or never. A rejection takes two
steps, `RuleRejects` and, a microtask later, `FailureCaught`, because the code
releases the controller in the first and commits the error in the second.
An error named AbortError is another matter, whether or not the signal has been
aborted. Rejected with, it counts as an answer without issues and the field becomes
valid (`RuleGivesUp`; `executor.ts:91-97`, `:141`). Thrown by a synchronous rule in a
validation that the runtime starts by itself (`AutoRun`;
`field-validation-runtime.ts:178-190`), it ends that one without a verdict and leaves
`pending` as it was. The history component `quit` of a field records either until the next
validation.
`Validated`, `Settle` and `ValidateTree` are operators on these records so that
a whole call, with the wave over dependent fields it sets off, is one action.

### Submission

Each member of `Submissions` is one call of `submit()`. The asynchronous
function is cut at its awaits: `Submit` up to the await of validation (or to the
end, if no rule is asynchronous), `ValidationAnswered` or `ValidationThrew` up to
the await of the action, then `ActionSettles`, `ServerRejects` or
`ActionIgnored`. Between them come all actions of `FieldValidation`, `CancelSubmit`,
`Reset` and `Dispose`. The submission revision is only compared with that of a
call and is represented by the call holding it; the tree revision, also only
compared, by whether it moved (`edited`).

### SubmissionListeners

The same function cut at every write that is notified ("validating", the cleared
server issues, the validated fields, "submitting", the routed issues, the
outcome), because listeners run inside the write. They may make any call of the form
there; the write throws if one of them throws. What a call made by a listener
writes is told only after it has returned to the listener (the core's flush is
under way), so the stack is at most two calls high. Fields are reduced to whether
validation awaits, throws or finds issues. A refused call ("reject", "drop") changes
nothing and is left out. `caught` remembers that a call lost its place inside one of
its own writes: it compares revision and signal only after awaits, so it completes
what it was about to write.

### FormTree, FormArray, FormValues

The tree of a form is seen from three sides, each with the operations that
concern it.

`FormTree`: fields made with dependencies (or whose dependencies function is
called a second time by the first validation), two forms that adopt them, and the
symmetric graph. `CreateForm` adopts child by child, and a refused child leaves
those before it adopted, as `commitChildAdoption` does. A wave is computed by
Kahn's algorithm as in the code (`KahnStart`, `KahnStep`); `WavesAreOrdered`
compares it with the graph. Of a verdict only its being about old dependencies
is kept (`behind`).

`FormArray`: items with identities, retained baseline items, the scopes of
items, and a dirty flag that is re-evaluated only when something it read has
changed. Server issues carry the identity they are about, so that
`IssuesKeepIdentity` can compare.

`FormValues`: a fixed tree of every kind of node. What a level says of issues and
validity is computed from the levels below with the prefixes of the code
(`Issues`, `Prefixed`, `Valid`), and routing follows a path the other way. An input
of `reinitialize()` is described by where it fails to fit.

### Projection, Controls, Attributes, Focus

An adapter is a record of wiring in `Projection`: which signals it shows, to which
it subscribes, whether it copies or reads anew, and how it ends. All adapters of
the packages and of the research are such records, each mapped to its source, so
that one set of actions (`Move`, `Deliver`, `Render`, `Make`, `SubscribeEffect`,
`DisposeProjection`, `HostGone`) serves them all. The operations of a node are the
sets of signals they move together.

`Controls` has the raw value and the value of each field, with a parser or without, a
text per control, the event a binding listens to and the handler it runs, which
follow the control's type at the time of binding (`kind`), and notifications that
are still to come. The vanilla binding knows the kinds text, checkbox, radio,
select-one and file; of the others the module has those their code tells apart: text, checkbox and
select-one for the prototype, text and checkbox for Vue and Angular, text for the
accessor. `FollowsRaw` says which of the two values a binding shows, `Look` what of it,
`Told` who is notified of a step, `Committed` with which setter an input reaches
the field. `unheard` are the controls that show an input the binding let pass: one
of a composition, for the binding ignores those and has no `compositionend`
listener (`bind-field.ts:159-164`), or, in the prototype, one that equals a raw value the
field only seems to have (`TakenForKnown`). `Deaf` are the bindings whose subscriptions never write:
a file control, and a select whose field has a parser (`bind-field.ts:178`, `:187`).
`Attributes` keeps what each holder found when it came.
`Focus` numbers controls in document order; a submission's answer comes at any
time, also after disposal.

### QueryClient

A record names its data by the generation that found or set it, so that "older"
can be told. Fetches and mutations are executions that answer at any time or
never. `orphaned` remembers records that were observed when the client was
cleared: the code leaves their observers with them.

### HttpClient and EventStream

One call with its configuration, cut at its awaits: attempt, fetch, judgement,
backoff, redirect, reading. `source` says of each signal (the user's, the
timeout's, the scope's) whether it is registered, idle or aborted with a reason;
`wired` whether the composed signal still listens. `sent` counts requests per
hop. `EventStream` reads a text cut anywhere and compares with the events of the
uncut text.

### Flow

`inside` is the stack of consumer callbacks that have not returned: from inside a
callback the program may emit, complete, fail or unsubscribe. Three pipelines
cover the operators: pushed values with filter, map and distinct; debounce with
`switchLatest` over promises; values pulled from an iterator or a stream.

### Manifest and Installer

`Manifest` judges entries one by one; a path is a sequence of segments. The
installer is a process over a disk that other runs and the user change between
any two of its awaits; it may crash at each of them, and every file operation may
fail. `vii init` and `vii add state` are commands of the same module: they look,
then write, with other guards and no lock file.

### PrototypeField, PrototypeArray, PrototypeForm

The form prototype has the hazards of the form library in one file, with other
answers: three sources of issues combined, triggers, keys derived from values,
scopes of items, group validation with its own revisions, and a submission that
captures its input before it awaits. `PrototypeForm` extends the array, so that
server issues meet items that move. A run of the group's rules ends with an answer, a
rejection, or an AbortError of the rule's own, which is no issue here either
(`RunSettles` with "gives up"; `form-core.ts:1140-1149`); `gaveUp` of a call records that its
own run ended so. A submission can also end in its first part, when
reading the output throws (`OutputThrows`) or a rule throws at once
(`RuleThrows`); in the second case the group has aborted its run and counted a
revision already (`GroupThrown`), as it has when `validate()` throws.

## 3. Runs

| Run | Instance | Properties |
|---|---|---|
| `core_delivery` | 2 cells, 2 listeners, 3 versions, 1 batch level, 2 calls per listener call, cutoff at 2 | `TypeOK` `NoLostWakeup` `Converged` `Coalesced` `ErrorsReported` `BatchHoldsDelivery` `InOrder` `ImplementsDelivery` |
| `core_termination` | the same cells with values that replace each other for ever, under `FairSpec` | `FlushTerminates` |
| `computed_values` | chain: cells a, b, c reads a, d reads b and then a or c, 2 users. Relay: 2 computeds over a cell that returns to old values, batches | `RecomputesAreKept` `Fresh` `NoEcho` |
| `validation_races` | 2 fields, one reads the other, on change (debounced) and on blur, rules of one may throw | `VerdictsHold` `IssuesAgree` `PendingIsTrue` |
| `submission_calls` | 3 calls on 1 field, or 2 calls on 2 dependent fields; all policies and ways to call; 2 calls with listeners that call and throw | `SubmissionsEnd` `StaleCallsLeaveNothing` `GatesHold` |
| `submission_gate` | 2 calls on 1 field | `GateBlocks` is violated |
| `form_tree` | 3 fields, one debounced and on blur only, 2 forms | `TreesAreSound` `VerdictsKnowDependencies` |
| `packages_nodes` | 3 scopes and 2 resources; 3 nodes of 2 keys in an array; a form, group, array and 5 fields under 3 operations | `ScopesAreSound` `ArraysAreSound` `IssuesKeepIdentity` `IssuesAgreeInTree` `ReinitializesWhole` |
| `query_races` | 1 key, 2 records, 2 observers, 2 mutations, generations up to 3 | `RecordsAreTrue` `NothingComesLate` |
| `prototype_forms` | every choice of triggers, debounce and rules, 3 revisions; keyed arrays of up to 3 nodes; 2 submissions over 2 items | `FieldIsSound` `ArrayIsSound` `SubmissionsAreSound` |
| `research_calls` | calls in 100 configurations, 2 retries, 2 redirects; 4 emissions, 3 callbacks deep; 2 entries of 3 segments; 2 installer runs, 2 files, 1 edit | `CallsCleanUp` `CallsAreTrue` `AbortEndsCall` `FlowIsSound` `TargetsAreApart` `InstallsWhole` |
| `adapter_bindings` | 22 adapters, 2 operations; 2 bindings, 2 controls (every kind, a second of it or a text), 2 fields, one with a parser; 2 holders; 2 links, 1 request | `ScreensAreSound` `ControlsAreSound` `AttributesFollowFields` `FocusIsSound` |

Several of these properties are conjunctions of named parts, one per hazard, and
take in the type invariant of their module; the parts are defined just before
them. Each has a mutant in `PROJECT.json`. Further mutants stand in the modules
for the parts the listed mutant does not reach:

| Mutant | breaks |
|---|---|
| `Computed!FollowNewOnly` | `ListensToDependencies` |
| `Scope!RemovedForward` | `NothingIsForgotten` |
| `Submission!ResetKeepingStatus` | `NeverStuck` |
| `SubmissionListeners!SupersedesNone`, `OutdatedByEdit`, `AlwaysWanted` | `OneActionWithListeners`, `NeverLeftBusy`, `LateWritesNothing` |
| `FormTree!MayDependOnMade`, `ForeignUp`, `KahnFromAll` | `GraphIsSound`, `TreesAreApart`, `WavesAreOrdered` |
| `FormArray!ReadsNothing` | `ChangesAreShown` |
| `FormValues!QuietExceptArray` | `ValidMeansNoIssues` |
| `QueryClient!AnyAnswer`, `SubscribedLate`, `NeverAborted` | `LateNeverWins`, `ActiveKept`, `PendingIsTrue` |
| `HttpClient!WrappedAsAbort`, `UndrainedOpen`, `KeptCredentials` | `AbortIsReported`, `BodiesAreDrained`, `CredentialsStayHome` |
| `EventStream!CutAfresh` | `CutsDoNotMatter` |
| `Installer!FailedInnerOnly` | `FailedLeavesNothing` |
| `PrototypeForm!OwnsWhenever`, `BlockedByServer` | `SubmissionIsLive`, `ActsOnValidated` |
| `Projection!ResearchHearsLess` | `ScreensAreCurrent` |
| `Focus!AlwaysBound` | `SilentAfterDispose` |

### What the passing runs show

- **Core.** No interleaving of re-entrant writes, cancellations, batches, throws
  and cutoffs leaves `flushScheduled` up without a job or values without a flush
  (`NoLostWakeup`); the last write reaches every subscription (`Converged`) in
  write order (`InOrder`), an inner batch never delivers (`BatchHoldsDelivery`),
  the error of any listener reaches the call that flushed (`ErrorsReported`).
  The last value of a cell may be lost in one way only, a runaway cutoff, and
  then only until the next write.
- **Computed.** At rest a clean computed and its subscribers have the value its
  function gives for the present cells, but for those `slipped`; nobody is called
  twice running with one value; dependency subscriptions are exactly what the
  last evaluation read; a recompute flag never outlives its job.
- **Scope.** Whatever disposers do, each resource is disposed at most once, all
  that a disposed scope owned are, the links agree both ways, and a failure is
  thrown at the end.
- **Fields.** A field that says valid and has nothing under way has passed its
  rules with the values that all fields hold now. A validation that counts
  keeps `pending` up. Two exceptions are in `excused`, a history variable: a
  field whose last validation failed to its caller, and the dependents of a field
  that was `reset()` alone, for which the code runs no wave. The third is in `quit`: a rule
  that rejects with an AbortError nobody caused has passed the field without accepting
  it, and one that throws it at once leaves the field with its old verdict, and perhaps
  pending.
- **Submission.** The gate lets no value through that a rule refused, as long as no field
  was validated or reset alone while the call waited; an asynchronous rule that gave up with an
  AbortError of its own has refused nothing, and its value goes through. Superseded and cancelled
  calls leave no trace but the status, and the form never says it is validating or
  submitting without a call that will end it, whatever its listeners do, unless
  one of them throws. (That a promise is ever answered
  is the application's affair; liveness of submissions is not checked.)
- **Form tree.** Edges stay symmetric and acyclic and never join two trees, but
  for dependencies found late; waves visit a field after what it depends on;
  array nodes are owned exactly while the array has or retains them; server issues
  reach the submitted item; an issue's path leads back to its node; an input that
  does not fit changes nothing.
- **Adapters.** With everything delivered, every handle shows its node, though
  some listen to fewer signals than they show; a control shows its field and an input writes
  no other, but for controls the code does not keep up (`Deaf`), inputs it let pass
  (`unheard`), controls that changed their type, and the Vue directive's listener on one
  of those; shared attributes come back in any order of release;
  focus goes to the first invalid control, and never after disposal.
- **Query.** No superseded answer is shown, no rollback undoes what came later, an
  observed record is not collected.
- **Http, flow, sources.** An abort ends a call wherever it is, with its own
  reason; timers, listeners and bodies are given back; credentials stay with their
  origin; a stream does not depend on how it was cut. Consumers hear values in
  order and nothing after the end. Accepted targets are apart and inside the
  roots; a failed installation leaves nothing of its own and takes nothing of
  another's.
- **Form prototype.** As for the form library, under the conditions its properties
  name: an action gets the output that was validated and that no rule refused, unless another
  validation took the place of the one awaited; a rule that gave up with an AbortError of its
  own has refused nothing here either.

### Where code and documents part

`submission_gate` is the one listed run that expects a violation
(`packages/form/src/submission/state-machine.ts:199`): a blur or
`field.validate()` during the asynchronous validation of a submission aborts the
run the submission waits for. It then counts as answered without issues, and the
action starts on a value the rule refuses.

More configurations show a divergence each. Some are files of their own; the others
are the cfg of a run with its properties replaced by the one named:

| Configuration | Property violated | What happens |
|---|---|---|
| `MCComputed_baseline.cfg` | `NothingIsSwallowed` | `computed.ts:137`, `:48`: `lastNotifiedValue` is not moved when the first subscriber to come back is another computed; a change back to the old value compares equal and is not passed on (`computed.ts:31-34`: "no pending notification is swallowed") |
| `MCComputed_latecomer.cfg` | `NothingIsSwallowed` | `computed.ts:89-91`, `:151-153`: while a value of a computed is queued, a listener takes the last subscriber away, changes a cell and subscribes anew. The new subscriber is given the new value and `lastNotifiedValue` moves to it; then the queue hands it the old value, the recompute compares equal, and it stays with the old one |
| `MCComputed_mixture.cfg` | `CalledFresh` | `computed.ts:117`: with two paths of different length to one cell, a subscriber is called with a mixture first and with the right value later in the same flush |
| `MCFieldValidation_pending.cfg` with INVARIANTS | `VerdictsHold` | `field-validation-runtime.ts:206`: with `validateOn: "blur"` a field whose first validation is still in flight counts as unvalidated, and a change of a field it depends on does not validate it again: the late answer makes it valid with values its rules refuse |
| `MCFieldValidation_pending.cfg` | `PendingIsInFlight` | `field-parserless.ts:130`: with `validateOn: "blur"` an edit aborts the validation in flight and nothing lowers `pending` |
| `MCSubmission_gate.cfg` with INVARIANTS | `StatusIsLatest` | `state-machine.ts:194`: a superseded call that goes on after its validation writes "cancelled" over the newer call, so that `cancelSubmit()` has no effect on it and policy "reject" admits another |
| `SubmissionListeners_busy.cfg` | `EndedIsNotBusy` | `state-machine.ts:149`, `:226`: a listener of `submissionStatus` that throws makes `set()` throw, outside of every `try`: `submit()` rejects and the form stays "validating" or "submitting"; policies "reject" and "drop" then refuse every call until `reset()` or `cancelSubmit()` (`docs/architecture/FORM_ARCHITECTURE.md:382`: the status is the outcome of the latest attempt) |
| `FormTree_waves.cfg` with INVARIANTS | `AdoptionIsAtomic` | `internal.ts:187-189` promises that no ownership changes when a child is refused; the second phase commits one by one |
| `MCPackages_nodes.cfg` with PROPERTIES | `PristineAfterReinitialize` | an array that was reinitialized after its items had changed can go on showing dirty: the new baseline is no signal, and nothing else its flag reads is set (`array.ts:280-285`, `:101-106`; `docs/architecture/FORM_ARCHITECTURE.md:291`) |
| `MCResearch_calls.cfg` with PROPERTIES | `CancellationIsNotFailure` | `research/http/README.md:41`; an abort with a reason of the caller's own is retried and reported as a network error (`client.ts:190-196`, `retry.ts:215`) |
| `MCResearch_calls.cfg` with PROPERTIES | `SubscriberFailuresStayOutside` | `research/flow/README.md:26`; a consumer that throws while a pump delivers is told of its own error (`flow-prototype.ts:543-547`) |

Each of these properties is kept as written. The passing runs check a weaker form
that names the exception, so that a new way to break it would still be found.

### Other observations

Behaviour met while modelling that no configuration singles out. The models do what
the code does; where a property would fail, it names the case.

- **Query** (`research/query`). A second optimistic update on top of a first
  restores data the server rejected; rolling back a record that was empty makes it
  `success` with `undefined`; a superseded or cancelled mutation is never rolled
  back. `invalidate()` during a fetch is cleared by the success of that fetch. A
  record that was prefetched and never observed is never collected. Hydration
  overwrites newer data. A listener that calls `fetch()` while the start of a fetch
  is notified (`query-record.ts:160`) finds no active execution yet (`:210`).
- **Http** (`research/http`). If `new Request` throws (`client.ts:163`), the bindings
  of the composed signal are not undone. A `retryCondition` that throws leaves the
  response undrained (`retry.ts:195-196`). After the headers, the composed signal does
  not abort the body any more (`client.ts:346-350`). The event stream flushes a
  last event that was not ended, and events without data, though
  `streaming.ts:77` says it follows WHATWG.
- **Installer**. After a crash between files and lock file a rerun finds all files
  "unchanged" and never records them (`source-installer.ts:69`); a crash while the
  lock is written loses its records; of two runs at once one update of the lock
  is lost. A failed apply unlinks twice (`:220-229`, `:75-84`), and rollback
  removes a file that another run skipped as the same, or that the user has
  edited in between. A torn file blocks the rerun. Directories made stay. A
  manifest may name both `dir` and `dir/file`.
- **Form library**. A rule that rejects with an AbortError although nobody aborted it, as a
  `fetch` with a timeout of its own does, has found nothing: the field becomes valid
  and a submission acts on it (`executor.ts:91-97`, `:141`). A synchronous rule that throws one
  in a validation after an edit leaves the field with the verdict on its old value, and `pending` up
  if it was (`field-validation-runtime.ts:185`). A listener that calls `cancelSubmit()` when it is told
  "submitting" does not keep the action from being called (with a signal that is
  aborted), and without an action the status becomes "succeeded" after it was
  "cancelled" (`state-machine.ts:226-239`). A listener that throws when it is told
  "succeeded" turns the status into "failed" (`:266-280`). A listener that submits
  while server issues are routed has the older call's "failed" written over its
  "validating" (`:257-258`). `dependencies()` that returned nothing is called again by the
  first validation, and edges found then are not checked against the tree. A
  dependency disposed, or set to the value it has, cancels a debounced validation
  of its dependent. Baseline items that were removed keep their key from being
  inserted again. An index beyond the array that was submitted is routed by
  position (`server-issues.ts:138`).
- **Form prototype** (`research/form`). An edit without the "change" trigger, or a
  parser or synchronous rule that throws, leaves `pending` up. `setIssues([])` makes
  a field with a parse issue valid. `setValue` leaves `rawValue` behind (`form-core.ts:579`), so that an input equal to
  the old raw value is swallowed (`vanilla.ts:270`). A rule's
  `AbortError` counts as no issue; a rejection leaves the old verdict
  (`docs/roadmap/FORM_RESEARCH.md:146`). Two items edited to the same key: the
  keyed `setValues` drops one of them undisposed; a disposer that fails keeps
  the removed item. `form.setValues` while a submission validates: it acts on the
  values captured before; disposal leaves the status "submitting".
- **Flow**. A debounced value delivered while the consumer of a promise's value is
  called starts the next promise; the completion of the first then forgets it
  (`flow-prototype.ts:474`), so that the pipeline can complete with that promise
  still to deliver.
- **Adapters**. A select bound to a field with a parser shows the value it was bound with until the
  user changes it: no subscription writes into it (`bind-field.ts:178`, `:187`). Where the last
  input of a composition comes before `compositionend` and none follows, the field never
  gets the text; `ime.spec.ts` takes the input that follows for granted. A `destroyRef` that is already destroyed leaks the subscription
  (`angular/destroy.ts:34`); `unbind` removes its listener by the type the control
  has now (`vue/directive.ts:109`); a described-by token that two holders share is
  taken once (`a11y.ts:143-147`); a control linked twice is forgotten by the first
  release (`focus.ts:30-33`), and a field that left and came back is forgotten
  (`focus.ts:220`).

### Bounds

State spaces of the parts of a composed run add up; each bound below was chosen so
that the cases named happen.

*Core.* `MaxFlush` is `MAX_FLUSH_ITERATIONS` itself, a parameter with a small
value so that both cutoffs happen (the code compares counters with it and does
nothing else). `MaxValue`/`LastVersion` bound the writes of a cell: two suffice for
a write on top of one under delivery and, with `MaxOps = 2`, for a listener that
writes both cells, or writes and cancels. `MaxBatch = 1`: an inner batch is one
opened by a listener or by the top level; a batch within a batch differs by the
counter alone, and `BatchHoldsDelivery` is proved for every depth. In `Computed`,
`MaxFlush` is such that recompute jobs are discarded in some behaviours and
complete in others. Of `part` "chain" the instance leaves out users who come or go
inside a batch (`NobodyMoves`), users of cell b, and listeners with more than one call; "relay" has
both, with one user. Sums wrap at `MaxValue` (`Wrapped`), so that read functions are
total as `WellTyped` asks; no sum of a run reaches it.

*Forms.* `MaxRevision` bounds the validations of all fields together: 4 allow each
of two fields a run in flight and one that replaces it; 3 suffice for submissions,
where three calls are needed for a call that is superseded by one that is
superseded itself. Fields p and q with q reading p give a wave. Three fields are
the fewest with a cycle longer than two and with a wave in which order matters.
Three array nodes with two keys give a clash of keys and a node outside the array
while a submission is away. `MaxOps = 3` in `FormValues` is a change, an answer of
the server and a reset or reinitialization, in any order.

With listeners two calls suffice for a nested one and one that it supersedes;
`Attempts = {x, y, z}` holds as well (two minutes more) and is left out of the run
for its size.

*Research.* `MaxGeneration = 3` lets one fetch be overtaken by another or by
`setData`, and that one in turn; two records of one key are one that was cleared
and its successor. Two retries and two redirects reach the last of either and its
refusal. `MaxNested = 3` is a callback that emits within one that emits. Two
installer runs and one edit by the user fall between any two file operations.

*Adapters.* `MaxMoves = 2` is one operation before and one after any step of the
host. Two holders, links, controls are the fewest that leave in the wrong order.
`Controls` has no counter: its two texts are what a box or radio can show and two that a text or
a select can, and `Choices` gives the two controls different radio values. Of the two controls the
second is a text or of the first one's kind (`PairOfKinds`): every kind is there alone, beside
its like and beside another, which covers what a rebinding or a shared field can confuse.

Symmetry is used for user subscriptions, calls, executions, observers, bindings and resources,
which no definition tells apart, and never with liveness. Deadlock is checked for the core, where a call
can always be made or a flush goes on. Elsewhere behaviours end: a form is
disposed, a call has returned, a bound is reached; those runs do not check it.

### Fairness

`FairSpec` adds one weak fairness condition, on `Progress`: a flush under way takes
its next step, a listener returns and closes the batches it opened. The thread
does nothing else until `flushJobs` returns, which is what justifies it; that a
listener returns is assumed of user code. Nothing is assumed of calls from
outside. `FlushTerminates` then rests on the cutoffs, since in that run listeners
rewrite each other's cells for ever.

`HttpFairness`: a call takes its own next step, and once the composed signal is
aborted the platform's `fetch` or body read rejects, which is what `fetch` promises
of its signal. Nothing is assumed of servers, of the time backoff takes, or of the
caller. `AbortEndsCall` rests on it: an aborted call ends, whatever it waited for.

All other runs check safety only.

## 4. Proofs

TLC checks an instance; the theorems here hold for every value of the constants
that meets the assumptions named below. Together they state, for all fields,
rules, calls, read functions, listeners and bounds, the safety properties of section 3:
each of them by its name, but for three that join what several instances of one
module promise ("Only model-checked" below).

| Module | Theorem | States |
|---|---|---|
| `Notification_proofs` | `TypeCorrect` | `TypeOK`, with both loop counters at most `MaxFlush` |
| | `WakeupsKept` | `NoLostWakeup` |
| | `SubscribersConverge` | `Converged` |
| | `BatchesCoalesce` | `Coalesced` |
| | `BatchesHoldDelivery` | `BatchHoldsDelivery` |
| | `ErrorsAreReported` | `ErrorsReported` |
| | `DeliversInOrder` | `InOrder`, if versions grow |
| | `Refinement` | `ImplementsDelivery`: `Notification` implements `Delivery`, if versions grow by one |
| `Computed_proofs` | `RecomputesKept` | `RecomputesAreKept` |
| | `NobodyHearsTwice` | `NoEcho` |
| | `FreshWhenAtRest` | `Fresh` |
| `Submission_proofs` | `Invariance` | the inductive invariant of the fields, of which the three below are parts |
| | `IssuesAlwaysAgree` | `IssuesAgree` |
| | `PendingIsAlwaysTrue` | `PendingIsTrue`, with validation on change |
| | `VerdictsAlwaysHold` | `VerdictsHold`, with validation on change |
| | `SubmissionTypeCorrect` | `STypeOK` |
| | `SubmissionsNeverStuck` | `NeverStuck` |
| | `OnlyOneAction` | `OneAction` |
| | `FieldsStayTrueUnderSubmission` | `VerdictsHold` again, now with submissions |
| | `StaleAlwaysLeavesNothing` | `StaleLeavesNothing` |
| | `GateAlwaysHolds` | `GateHolds` |
| `FormTree_proofs` | `TreesStaySound` | `TreesAreSound` |
| | `VerdictsAreReplaced` | `VerdictsKnowDependencies` |
| | `ScopesStaySound` | `ScopesAreSound` |
| | `ArraysStaySound` | `ArraysAreSound` |
| | `IssuesAlwaysKeepIdentity` | `IssuesKeepIdentity` |
| | `IssuesAlwaysAgreeInTree` | `IssuesAgreeInTree` |
| | `AlwaysReinitializesWhole` | `ReinitializesWhole` |
| `Adapters_proofs` | `AttributesAlwaysFollowFields` | `AttributesFollowFields` |
| | `ScreensAreAlwaysSound` | `ScreensAreSound` |
| | `ControlsAreAlwaysSound` | `ControlsAreSound` |
| | `FocusIsAlwaysSound` | `FocusIsSound` |
| | `NeverLeftBusyByListeners` | `NeverLeftBusy` |
| | `OneActionAmongListeners` | `OneActionWithListeners` |
| | `LateAlwaysWritesNothing` | `LateWritesNothing` |
| `Prototype_proofs` | `FieldIsAlwaysSound` | `FieldIsSound` |
| | `ArrayIsAlwaysSound` | `ArrayIsSound` |
| | `SubmissionsAreAlwaysSound` | `SubmissionsAreSound` |
| | `FormImplementsArray` | `PrototypeForm` implements `PrototypeArray`: a step of the form is a step of the array or leaves it alone |
| `QueryClient_proofs` | `RecordsAreAlwaysTrue` | `RecordsAreTrue` |
| | `NothingEverComesLate` | `NothingComesLate` |
| `Research_proofs` | `CallsAreAlwaysTrue` | `CallsAreTrue` |
| | `CallsNeverLeak` | the parts of `CallsCleanUp` about the client |
| | `CallsAlwaysCleanUp` | `CallsCleanUp` |
| | `InstallerLeavesTheProjectWhole` | `InstallsWhole` |
| | `FlowIsAlwaysSound` | `FlowIsSound` |
| | `TargetsStayApart` | `TargetsAreApart` |

### Hypotheses

Most theorems rest only on the named assumptions of the modules
(`NodesAssumption`, `RulesAssumption`, `ConfigsAssumption`, ...), which say what the
constants are: sets that are apart, bounds that are naturals, functions on the
right domain, `None` none of the things it stands beside, `"user"` no run of the
installer. TLC evaluates them in every run. `KeysAssumption` of `PrototypeArray` is one
the code rests on without saying so: that no key of the application is one that
`generateInternalId()` makes (`vii_item_N`), for `setValues()` does not compare
the two. Some theorems have a hypothesis besides:

- `DeliversInOrder` (`EverLarger`) and `Refinement` (`Versioned`) need the values of
  a cell to be versions, so that "later" can be read off them. The code compares
  values by `Object.is` only; numbering the writes is how the property is put, not
  a condition on the program. The instance numbers them.
- `PendingIsAlwaysTrue` and `VerdictsAlwaysHold` (and the conjunct of it under
  submission) need `"change" \in ValidateOn`. Without it they are false of the code:
  `MCFieldValidation_pending.cfg` shows both counterexamples.
- The exceptions for a rule's own AbortError (`VerdictsHold`, `PendingIsTrue`, `GateHolds`,
  `ActsOnValidated`) are in the properties, through `quit` and `gaveUp`: no theorem assumes that
  rules do not reject with one.
- The theorems about `Computed` need `WellTyped`, which is what the type `() => T` says of
  a read function: whatever it has read, it reads another node, returns a value or
  throws. `FreshWhenAtRest` also needs `Grounded`: that the independent `Meaning` is what
  the read functions compute from true reads, and that none comes to read itself
  through others. Without the first `Fresh` would compare with nothing, and
  the second is what the code throws a cycle error for. Both are parameterised by
  the set of read sequences (`TypedOn`, `GroundedOn`), so that TLC can evaluate them
  on the instance for those of up to two reads (`MCComputed!ReadFunctions`); the read
  functions there make no third one.
- `NeverLeftBusyByListeners`, `OneActionAmongListeners` and `LateAlwaysWritesNothing` need
  `Nobody \notin Attempts`: the value that stands for "no call" is no call. It is no named
  assumption because TLC meets `SubmissionListeners` through an INSTANCE only.
- `TargetsStayApart` needs `RootsAreRelative`: that `allowedRoots` is given, and names
  folders below the project. Without roots the last conjunct of `TargetsAreApart` is
  false of the code: `./C:/x` is cleaned to `C:/x` after the rule on absolute paths was asked
  (`manifest-validator.ts:66` comes before `:87`), so that what is stored is a path
  the same function would refuse. With roots the rule on them says so.

### The invariants

None of the properties is inductive by itself; what each proof adds is the reason the
code is right.

*Notification.* `Converged` speaks of the moment of rest only. `ConvergenceInv` says what
the job, the snapshot and the running listener can be in each phase of a flush
(`Phases`), that a subscription belongs to one node (`OneNode`), and that for every
cell no cutoff has hit the last value written is still on its way to each
subscription (`Carried`): it is last in the cell's queue, or it is being handed
out and the subscription is yet to be visited, or the subscription has it. At rest
only the last case remains. `ErrorsHeld` says where an error that was thrown is kept in
each phase. `OrderInv` adds that queues increase, stay below the cell and above what
subscribers called before were given; from it the refinement follows
step by step.

*Computed.* `RecomputeInv` relates flags, jobs, dependency sets and the stack of evaluations:
a computed under evaluation is dirty, live and on the stack once (`Stacked`); one with
subscribers that is dirty has its recompute queued or running, unless the only
subscriber is the one whose `subscribe()` is evaluating it (`Owed`). `EchoInv` adds that
the queue of a computed never repeats a value and ends with `lastNotifiedValue`, and
that what a subscriber has differs from what it will be given next (`Told`).
`FreshInv` adds why the value is right: the value of a clean computed
comes from reads each of which still holds or will be told of (`Traced`); what
an evaluation in progress has read holds (`FramesTrue`); a flush is queued before the
recompute that follows it (`FlushFirst`); a subscriber with nothing under way has the value
or a recompute will give it (`Settled`). At rest nothing is under way, and the
induction over the depth of the graph goes by a least counterexample over the ranks
that `Grounded` gives.

*Fields.* `FieldInv` is one statement per field (`RecordOK`): which issues go with which
status, which runs can count, what timer and controller name. `WatchInv` is the
reason for `VerdictsHold`: what is in flight or pending for a field was asked of the
values the fields have now, or will be replaced. Both are shown for the operators (`Validated`, `Settle`,
`ScheduleValidation`, `PostMutation`) and then for the actions. *Submission* reuses them, for each of its
actions is built from the same operators; its own `ControlInv` says who owns the
status, the controller and the revision, and `GateInv` that a call which waits waits for
runs it has started itself, on the present values.

*Form tree.* `GraphInv`: edges are on both sides and there is a rank that every edge
increases, which is what "no cycle" becomes when it has to survive the adoption of a
subtree. Kahn's algorithm is a bounded recursive function; `KahnInv` says of
each round what has been emitted and which in-degrees remain.

*Adapters.* `ProjectionInv`: what is stale on a screen is due, for each way an adapter
listens; `AttributesInv`: the token is on a control because it has it of its own or because
exactly one live holder added it.

*Query.* `QueryInv` is a statement per record and one for the mutation; each operation is shown
to let a record "grow" (`Grows`): generations never fall, and other data comes with
another generation. *Http.* `CallInv` counts requests per hop against the allowance, and ties
each signal, timer and body to the place the call is at. *Installer.* `OwnWork` says
which run answers for a file that is there, `Walks` what a run's lists are at each await.

*Scope.* `ScopeInv`: links relate both ways, and a rank that grows along them gives a list two
ends; what each call of `dispose()` on the stack has still to do, and which errors it has
collected. *Arrays.* `ArrayInv`: items and baseline are without repetition, the nodes kept have
keys apart and are exactly those with a scope; a listener that was told of no change watches
every item. *Listeners.* `ListenersInv`: a call is on the stack once, a busy status is that of the
current call, and a call nobody has disturbed is the current one.

*Controls.* What a control shows and what its field holds differ only while a notification is due
(`DifferenceIsDue`), and listeners are there for the bindings that live (`EarsOpen`). Bindings that
share a control are of one field and one kind (`ControlsApart`), so that what is written for one is
right for the others; and a field without a parser has one value, raw or not, except in the
prototype (`ValuesAgree`).
*Focus.* The sets of controls are each of one field (`SetsAreOfOneField`), and what is linked is
listed (`LinksAreListed`).

*Values of a tree.* `RowsInv`: no item is twice in the array or in its baseline, so that an index
leads to one node and a node has one path; then issues and validity unfold level by
level (`LeavesInv` says what a field can hold), and an input that fits has a value for each field.

*Manifest.* `ManifestInv`: what was accepted is its path cleaned, broke no rule, and is no other entry's.
That cleaning and walking agree on a path that does not climb is an induction along the path:
`FoldExists` shows once that a fold over a sequence is a chain of steps, which
`CleanedSteps` and `WalkSteps` give for the two operators.

*Event stream.* `StreamInv`: k symbols of the text have been cut and j of its lines gathered
(`Reading`); what waits in the buffer and among the lines is what the cutting of the whole text
has there. `SplitGoesOn` is the reason: cutting on from a rest, which has no line feed in
it, gives what cutting everything gives from that place, also between a return and its line feed.

*Flow.* `FlowInv`: the queue holds what comes after the last value looked at (`Row`), and what was
due up to there has been heard (`Upto`); of the searches at most one runs, and unless the end
came inside a callback it is the current one.

*Form prototype.* A run or a debounce that lives is of the field's revision and value (`Steady`),
and `pending` waits for one (`Waits`). Items have identities of their own, which are a key or
carry the node's number (`Tidy`), and each replacement, one by one, keeps that. In the form, the status
belongs to one call (`OneOwner`), validations of the group to the call that awaits them
(`Awaits`), and server issues are aimed at the item they are about (`Aimed`).

### What the proofs have changed

Proof attempts corrected models that TLC had accepted on its instances. In
`Projection` the subscription made in an effect was missing the signals that had moved since
rendering; in `FormTree` a field whose dependencies come late has to be made; in
`Notification` and `QueryClient` constants were allowed to coincide with `None`. In `Computed`
the proof of `NoEcho` failed at a subscriber that comes while values are queued, which led to
`slipped` and to `MCComputed_latecomer.cfg`; `Live` had to be transitive, for what
depends on a disposed computed through another is no more up to date than
what depends on it directly. In `SubmissionListeners` what hides a call had to be named more
sharply; `Scope` and `PrototypeArray` had to say of their constants what the code takes for
granted; in `Flow` a promise that is rejected after `switchLatest` has ended could still be
resolved afterwards. `FormValues` had taken the texts of indices for granted; they are a constant
now (`Position`), apart from each other and from the names of nodes. `Manifest` and `EventStream` clean
paths and cut texts by folds, so that what they do can be followed step by step. The proof for `Manifest`
came to a halt at paths that only cleaning makes absolute, which the run's roots
had hidden.

### Only model-checked

- Liveness: `FlushTerminates` and `AbortEndsCall`. The prover has no `ENABLED`.
- `SubmissionsEnd`, `StaleCallsLeaveNothing` and `GatesHold` are conjunctions over the instances of
  one run; their parts are what the theorems state.

## 5. Not modelled

- **Core.** Read functions of computeds that write; `equals` other than `Object.is`;
  the events of the development build (`diagnostics.ts`), which change nothing that
  the rest reads; `async-guard.ts`, which recognises promises.
- **Forms.** Parsers and the bridge to Standard Schema: conversions of one value
  without state, whose verdict the modules take as given. Listeners that call back
  into a field, array or group between two writes of one operation (for
  `submit()` they are modelled); `computed`s read there. Several rules of one kind
  in one field: they run in a loop and their issues are concatenated. Groups that own dependent fields,
  arrays within arrays: each module has one level, and the tree in `FormValues` is
  fixed.
- **Adapters.** The frameworks themselves (external); context providers; the
  formatting of values for controls beyond the text they hold. Of controls: the prototype's
  `bindField` on radios, multiple selects and file inputs, which it treats as text; the radios of a group that
  the browser unticks by itself, which tells nobody; `bindField` called a second time for a control after
  its type was changed.
- **CLI.** Detection of the project, `doctor`, the inspection of traces: they read.
- **Query.** Hashing of keys; listeners that call back into the client in
  mid-notification; several mutations that share a record with fetches of more
  than one key.
- **Http.** Telemetry, trace headers, building of URLs and bodies; several calls
  that share one scope.
- **Flow.** Combinations of operators that its tests do not build.
- **Form prototype.** `parsePath` (`form-core.ts:2010-2086`), a parser of strings, and
  `bindFormToExternalState` (`:2609-2710`), which echoes one state into another.
- **Other research, site, examples, fixtures, scripts, benchmarks.** Evidence,
  material and tooling without state of their own; the validation scripts drive
  package managers.

## 6. Plan

Done: `Notification` with `Delivery`, `Computed`, `Scope`,
`FieldValidation`, `Submission`, `SubmissionListeners`, `FormTree`, `FormArray`,
`FormValues`, the adapters,
the query, http, flow, source and form prototypes, and the theorems of section 4.

Next, in this order:

1. Listeners that call back into fields and arrays between the writes of an
   operation.
2. Liveness of a submission whose rules and action answer.
3. Several http calls that share a scope; several mutations.
