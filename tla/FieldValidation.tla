--------------------------- MODULE FieldValidation ---------------------------
(***************************************************************************)
(* The fields of one form in packages/form and their validation: revisions,*)
(* abort controllers, debounce timers, asynchronous rules that answer late *)
(* or never, and the waves that revalidate dependent fields                *)
(* (core/field-parserless.ts, core/field-validation-runtime.ts,            *)
(* validation/executor.ts, validation/revision.ts).                        *)
(*                                                                         *)
(* A call runs to completion; what is interleaved are calls, timers and the*)
(* answers of asynchronous rules.  A field has a synchronous rule and an   *)
(* asynchronous one, both given by what they say of the fields' values.    *)
(***************************************************************************)
EXTENDS Integers, FiniteSetsExt

CONSTANTS
    Fields,
    Ruled,              \* the fields that have rules
    DependsOn,          \* for each field, the fields its rules read
    Values,
    InitValue,
    SyncFails(_, _),    \* the synchronous rule of a field has an issue
    Asks(_, _),         \* the asynchronous rule of a field returns a promise,
    AsyncFails(_, _),   \* which resolves to an issue
    ValidateOn,         \* the triggers the fields validate on
    Debounced,          \* debounceMs > 0
    Throwing,           \* the fields whose rules may throw and reject
    Runtime,            \* the field itself started a validation, nobody waits
    Callers, User,      \* who calls validate(); User is none of the library's
    MaxRevision         \* bound: validations started when a field is called

ASSUME FieldsAssumption ==
    /\ Ruled \subseteq Fields /\ InitValue \in Values
    /\ DependsOn \in [Fields -> SUBSET Fields]
    /\ \A f \in Fields : DependsOn[f] # {} => f \in Ruled
ASSUME ModesAssumption ==
    /\ ValidateOn \subseteq {"change", "blur"}
    /\ Debounced \in BOOLEAN /\ Throwing \subseteq Ruled
    /\ Runtime \notin Callers /\ User \in Callers
    /\ MaxRevision \in Nat

(* What the rules of a field say depends on the field and on the fields it *)
(* declares, and a field without rules has nothing to say.                 *)
ASSUME RulesAssumption ==
    \A f \in Fields, vals \in [Fields -> Values] :
        /\ AsyncFails(f, vals) \in BOOLEAN
        /\ f \notin Ruled => ~SyncFails(f, vals) /\ ~Asks(f, vals)
        /\ \A other \in [Fields -> Values] :
             (\A g \in {f} \cup DependsOn[f] : other[g] = vals[g]) =>
                /\ SyncFails(f, other) <=> SyncFails(f, vals)
                /\ Asks(f, other) <=> Asks(f, vals)
                /\ AsyncFails(f, other) <=> AsyncFails(f, vals)

VARIABLES
    fields,     \* what the closures of each field hold
    disposed,   \* the form, and with it every field, has been disposed
    excused     \* history: fields whose verdict nobody promised to renew: their
                \* last validation failed to its caller, or a field they
                \* depend on was reset alone

fvars == <<fields, disposed, excused>>

Untouched ==
    [value |-> InitValue, parsed |-> TRUE, validation |-> {}, issues |-> {},
     server |-> {}, status |-> "unvalidated", pending |-> FALSE, revision |-> 0,
     controller |-> 0, timer |-> 0, runs |-> {},
     quit |-> "no"]  \* history: a rule ended the last validation with an AbortError of its own

FInit ==
    /\ fields = [f \in Fields |-> Untouched]
    /\ disposed = FALSE
    /\ excused = {}

ValuesIn(fs) == [f \in Fields |-> fs[f].value]
-----------------------------------------------------------------------------
(* ValidationRevisionController, on the record x of a field.  controller is*)
(* the revision of the active AbortController, timer that of the pending   *)
(* debounce; 0 is none.                                                    *)

Aborted(x) == {[r EXCEPT !.aborted = @ \/ r.revision = x.controller] : r \in x.runs}

CancelActive(x) == [x EXCEPT !.controller = 0, !.timer = 0, !.runs = Aborted(x)]

NextGeneration(x) ==
    [CancelActive(x) EXCEPT !.revision = @ + 1, !.controller = x.revision + 1, !.quit = "no"]

AnyAnswer(x, r) == TRUE  \* mutated: late answers count
IsCurrent(x, r) == x.revision = r.revision /\ ~r.aborted

ReleaseController(x, r) == [x EXCEPT !.controller = IF @ = r.revision THEN 0 ELSE @]
-----------------------------------------------------------------------------
(* executeFieldValidation and the callbacks it commits through.            *)

CommitWithoutServer(x, found) ==  \* mutated: server issues fall out of the list
    [x EXCEPT !.validation = found, !.issues = found,
              !.status = IF found = {} THEN "valid" ELSE "invalid"]
Commit(x, found) ==
    [x EXCEPT !.validation = found, !.issues = found \cup x.server,
              !.status = IF found = {} THEN "valid" ELSE "invalid"]

Settle(x, found) == [Commit(x, found) EXCEPT !.pending = FALSE]

Run(x, f, vals, by) ==
    [revision |-> x.revision, aborted |-> FALSE, by |-> by, stage |-> "asked",
     fails |-> AsyncFails(f, vals)]

(* A parse failure keeps the rules from running.  A synchronous verdict    *)
(* ends what asynchronous rules have begun.                                *)
Execute(x, f, vals, by) ==
    IF ~x.parsed THEN x
    ELSE IF SyncFails(f, vals) THEN Settle(CancelActive(x), {"sync"})
    ELSE IF ~Asks(f, vals) THEN Settle(CancelActive(x), {})
    ELSE [x EXCEPT !.pending = TRUE, !.runs = @ \cup {Run(x, f, vals, by)}]

(* The runtime's own validation: what a rule throws becomes an issue, but  *)
(* an AbortError ends it without a verdict, and pending as it was.         *)
Errors(ruled) == [ruled -> {"none", "error", "AbortError"}]
Throws(f, error, throws) == f \in Throwing /\ throws[f] = error

AutoRun(x, f, vals, throws) ==
    IF x.parsed /\ Throws(f, "error", throws) THEN Settle(x, {"error"})
    ELSE IF x.parsed /\ Throws(f, "AbortError", throws) THEN [x EXCEPT !.quit = "thrown"]
    ELSE Execute(x, f, vals, Runtime)

ScheduleValidation(x, f, vals, trigger, throws) ==
    LET y == NextGeneration(x)
    IN  IF Debounced /\ trigger = "change" THEN [y EXCEPT !.timer = y.revision]
        ELSE AutoRun(y, f, vals, throws)

(* collectValidationWave: the fields that depend on f, directly or not.    *)
DirectDependents(f) == {g \in Fields : f \in DependsOn[g]}
Wave(f) ==
    {g \in Fields : \A S \in SUBSET Fields :
        DirectDependents(f) \subseteq S /\ (\A h \in S : DirectDependents(h) \subseteq S)
            => g \in S}

OnChange(f) == {f} \cap (IF "change" \in ValidateOn THEN Ruled ELSE {})

(* triggerPostMutation and scheduleDependentValidation: the fields that are*)
(* validated once f has changed and the fields hold fs.  own is OnChange(f)*)
(* or, when f could not be parsed, nothing.                                *)
OwnFieldOnly(fs, own, f) == own  \* mutated: dependent fields are forgotten
Revalidated(fs, own, f) ==
    own \cup {g \in Wave(f) : "change" \in ValidateOn \/ fs[g].status # "unvalidated"}

PostMutation(fs, own, f, throws) ==
    [g \in Fields |-> IF g \in Revalidated(fs, own, f)
                      THEN ScheduleValidation(fs[g], g, ValuesIn(fs), "change", throws)
                      ELSE fs[g]]

(* setValue, up to the wave: stale issues stay until the next verdict.     *)
Edited(x, v) ==
    [CancelActive(x) EXCEPT
        !.value = v, !.parsed = TRUE, !.server = {}, !.issues = x.validation,
        !.status = IF x.validation = {} THEN "unvalidated" ELSE @]

(* setRawValue when the parser finds an issue: the value stays.            *)
MisparsedPending(x) ==  \* mutated: pending is not lowered
    [CancelActive(x) EXCEPT
        !.parsed = FALSE, !.validation = {}, !.server = {}, !.issues = {"parse"},
        !.status = "invalid"]
Misparsed(x) ==
    [CancelActive(x) EXCEPT
        !.parsed = FALSE, !.validation = {}, !.server = {}, !.issues = {"parse"},
        !.status = "invalid", !.pending = FALSE]

ResetRecord(x) ==
    LET y == CancelActive(x)
    IN  [Untouched EXCEPT !.revision = y.revision, !.runs = y.runs]

DisposeRecord(x) == [CancelActive(x) EXCEPT !.pending = FALSE]

Serving(x, found) ==
    [x EXCEPT !.server = found,
              !.issues = IF x.parsed THEN x.validation \cup found ELSE {"parse"}]
-----------------------------------------------------------------------------
(* Calls, timers and answers.                                              *)

Bounded == MapThenSumSet(LAMBDA f : fields[f].revision, Fields) < MaxRevision

(* The fields after f became x, with the wave of that change.              *)
Change(f, x, own, throws) ==
    LET fs == [fields EXCEPT ![f] = x]
    IN  /\ fields' = PostMutation(fs, own, f, throws)
        /\ excused' = (excused \ Revalidated(fs, own, f)) \ (IF x.parsed THEN {} ELSE {f})

(* setValue, or setRawValue with a raw value that parses.                  *)
SetValue(f, v, throws) ==
    /\ ~disposed /\ Bounded
    /\ Change(f, Edited(fields[f], v), OnChange(f), throws)
    /\ UNCHANGED disposed

SetRawValue(f, throws) ==
    /\ ~disposed /\ Bounded
    /\ Change(f, Misparsed(fields[f]), {}, throws)
    /\ UNCHANGED disposed

(* setTouched.                                                             *)
Blur(f, throws) ==
    /\ ~disposed /\ Bounded
    /\ "blur" \in ValidateOn /\ f \in Ruled
    /\ fields' = [fields EXCEPT ![f] =
                    ScheduleValidation(@, f, ValuesIn(fields), "blur", throws)]
    /\ excused' = excused \ {f}
    /\ UNCHANGED disposed

(* validate(): what rules throw goes to the caller.                        *)
Validated(x, f, vals, by, throws) ==
    LET y == NextGeneration(x)
    IN  IF f \in throws /\ y.parsed THEN y ELSE Execute(y, f, vals, by)

Validate(f, throws) ==
    /\ ~disposed /\ Bounded
    /\ fields' = [fields EXCEPT ![f] = Validated(@, f, ValuesIn(fields), User, throws)]
    /\ excused' = IF f \in throws THEN excused \cup {f} ELSE excused \ {f}
    /\ UNCHANGED disposed

(* reset() of one field tells no dependent.                                *)
ResetField(f) ==
    /\ ~disposed
    /\ fields' = [fields EXCEPT ![f] = ResetRecord(@)]
    /\ excused' = (excused \ {f}) \cup DirectDependents(f)
    /\ UNCHANGED disposed

(* form.reset(), or reinitialize() to the same baseline.                   *)
ResetFields ==
    /\ ~disposed
    /\ fields' = [f \in Fields |-> ResetRecord(fields[f])]
    /\ excused' = {}
    /\ UNCHANGED disposed

(* clearServerIssues and setServerIssues, which a submission calls.        *)
Serve(f, found) ==
    /\ ~disposed
    /\ fields' = [fields EXCEPT ![f] = Serving(@, found)]
    /\ UNCHANGED <<disposed, excused>>

DisposeForm ==
    /\ ~disposed
    /\ disposed' = TRUE
    /\ fields' = [f \in Fields |-> DisposeRecord(fields[f])]
    /\ UNCHANGED excused

(* The debounce timer fires; it is cleared before the run.                 *)
TimerFires(f, throws) ==
    /\ fields[f].timer # 0
    /\ LET x == [fields[f] EXCEPT !.timer = 0]
       IN  fields' = [fields EXCEPT ![f] = AutoRun(x, f, ValuesIn(fields), throws)]
    /\ excused' = excused \ {f}
    /\ UNCHANGED disposed

Counts(f, r) == IsCurrent(fields[f], r) /\ ~disposed
Finish(x, r) == [ReleaseController(x, r) EXCEPT !.runs = @ \ {r}]

(* An asynchronous rule answers.  The answer of a run that no longer counts*)
(* is dropped.                                                             *)
RuleResolves(f, r) ==
    /\ r.stage = "asked"
    /\ LET x == fields[f]
           answer == IF r.fails THEN {"async"} ELSE {}
       IN  fields' = [fields EXCEPT ![f] =
                        Finish(IF Counts(f, r) THEN Settle(x, answer) ELSE x, r)]
    /\ UNCHANGED <<disposed, excused>>

(* An asynchronous rule rejects.  The error goes to the caller, or in a    *)
(* microtask of its own to the runtime, which makes it an issue.           *)
RuleRejects(f, r) ==
    /\ f \in Throwing /\ r.stage = "asked"
    /\ LET x == fields[f]
           y == Finish(x, r)
           thrown == [r EXCEPT !.stage = "thrown"]
       IN  fields' = [fields EXCEPT ![f] =
                IF ~Counts(f, r) THEN y
                ELSE [y EXCEPT !.pending = FALSE,
                               !.runs = IF r.by = Runtime THEN @ \cup {thrown} ELSE @]]
    /\ excused' = IF Counts(f, r) /\ r.by # Runtime THEN excused \cup {f} ELSE excused
    /\ UNCHANGED disposed

(* It rejects with an AbortError though nobody has aborted it: to the run  *)
(* that is an answer without an issue.                                     *)
RuleGivesUp(f, r) ==
    /\ f \in Throwing /\ r.stage = "asked"
    /\ LET x == fields[f]
           y == [Settle(x, {}) EXCEPT !.quit = "rejected"]
       IN  fields' = [fields EXCEPT ![f] = Finish(IF Counts(f, r) THEN y ELSE x, r)]
    /\ UNCHANGED <<disposed, excused>>

FailureCaught(f, r) ==
    /\ r.stage = "thrown"
    /\ LET x == [fields[f] EXCEPT !.runs = @ \ {r}]
       IN  fields' = [fields EXCEPT ![f] = IF Counts(f, r) THEN Settle(x, {"error"}) ELSE x]
    /\ UNCHANGED <<disposed, excused>>
-----------------------------------------------------------------------------
FieldCall ==
    \E f \in Fields :
        \/ \E throws \in Errors(Throwing) :
            \/ \E v \in Values : SetValue(f, v, throws)
            \/ SetRawValue(f, throws)
            \/ Blur(f, throws)
        \/ \E throws \in SUBSET Throwing : Validate(f, throws)

FieldReset == ResetFields \/ \E f \in Fields : ResetField(f)

(* What happens without a call of the program.                             *)
FieldEvent ==
    \E f \in Fields :
        \/ \E throws \in Errors(Throwing) : TimerFires(f, throws)
        \/ \E r \in fields[f].runs :
            RuleResolves(f, r) \/ RuleRejects(f, r) \/ RuleGivesUp(f, r) \/ FailureCaught(f, r)

FNext ==
    \/ FieldCall \/ FieldReset \/ FieldEvent \/ DisposeForm
    \/ \E f \in Fields, found \in SUBSET {"server"} : Serve(f, found)

FSpec == FInit /\ [][FNext]_fvars
-----------------------------------------------------------------------------
RunType ==
    [revision : Nat, aborted : BOOLEAN, by : {Runtime} \cup Callers,
     stage : {"asked", "thrown"}, fails : BOOLEAN]
FieldType ==
    [value : Values, parsed : BOOLEAN, validation : SUBSET {"sync", "async", "error"},
     issues : SUBSET {"sync", "async", "error", "parse", "server"},
     server : SUBSET {"server"}, status : {"unvalidated", "valid", "invalid"},
     pending : BOOLEAN, revision : Nat, controller : Nat, timer : Nat, runs : SUBSET RunType,
     quit : {"no", "thrown", "rejected"}]

(* The state of the fields keeps its types.  A controller and a timer that *)
(* are set are those of the last generation, so that whatever is under way *)
(* and counts can still be cancelled.                                      *)
FTypeOK ==
    /\ fields \in [Fields -> FieldType]
    /\ disposed \in BOOLEAN
    /\ excused \subseteq Fields
    /\ \A f \in Fields :
        LET x == fields[f]
        IN  /\ {x.controller, x.timer} \subseteq {0, x.revision}
            /\ \A r \in x.runs : r.stage = "asked" /\ ~r.aborted => x.controller = r.revision

(* The runs of the last generation that nobody has aborted.                *)
Latest(x) == {r \in x.runs : r.revision = x.revision /\ ~r.aborted}
Asked(x) == {r \in Latest(x) : r.stage = "asked"}
Underway(x) == x.timer # 0 \/ Latest(x) # {}
Accepts(f, vals) == ~SyncFails(f, vals) /\ (Asks(f, vals) => ~AsyncFails(f, vals))

(* The rules of field f, now x, have accepted vals, or the asynchronous one*)
(* gave up on them, which the code takes for an answer without an issue.   *)
Passes(f, x, vals) ==
    ~SyncFails(f, vals) /\ (Asks(f, vals) => x.quit = "rejected" \/ ~AsyncFails(f, vals))

(* A field that says it is valid and has no validation under way passed its*)
(* rules with the values all fields hold now: late answers, edits, resets  *)
(* and changes of its dependencies never leave it with the verdict on other*)
(* values. A rule that gives up of its own accord, with an AbortError that *)
(* nobody caused, is the exception: rejected, the field is valid without   *)
(* its consent; thrown, the field keeps the verdict on what it held before.*)
VerdictsHold ==
    ~disposed => \A f \in Fields \ excused :
        LET x == fields[f]
        IN  x.status = "valid" /\ ~Underway(x) =>
                x.quit = "thrown" \/ Passes(f, x, ValuesIn(fields))

(* While a validation that counts is in flight, the field says pending; in *)
(* particular no other validation that ends meanwhile clears it.           *)
RunningIsPending ==
    ~disposed => \A f \in Fields : Asked(fields[f]) # {} => fields[f].pending

(* The issues a field shows are its parse issue, or what validation and    *)
(* server found, and it never says valid while validation issues remain.   *)
(* Left out is a field with an execution error: the failure may be caught  *)
(* a microtask after the field was edited, and hides the parse issue.      *)
IssuesAgree ==
    \A f \in Fields :
        LET x == fields[f]
        IN  x.validation # {"error"} =>
                /\ x.issues = IF x.parsed THEN x.validation \cup x.server ELSE {"parse"}
                /\ x.validation # {} => x.status = "invalid"

(* A field that says pending has a validation under way that counts, so    *)
(* that something will lower the flag.  It rests on validation on change:  *)
(* an edit that cancels a run starts another; only a rule that throws an   *)
(* AbortError there leaves the flag of the cancelled run up.               *)
PendingIsRunning ==
    \A f \in Fields \ excused :
        fields[f].pending => Underway(fields[f]) \/ fields[f].quit = "thrown"

(* The flag tells the truth in both directions.                            *)
PendingIsTrue == FTypeOK /\ RunningIsPending /\ PendingIsRunning

(* The weakest reading of README's "true during in-flight async validation":*)
(* some asynchronous rule of the field has not answered yet, if only one   *)
(* that was aborted, or a validation is due.                               *)
PendingIsInFlight ==
    \A f \in Fields \ excused :
        fields[f].pending => fields[f].timer # 0 \/ fields[f].runs # {}
=============================================================================
