----------------------------- MODULE Submission -----------------------------
(***************************************************************************)
(* form.submit() over the fields of FieldValidation                        *)
(* (submission/state-machine.ts, and submit, cancelSubmit, reset, validate *)
(* and dispose of core/form.ts).  Every member of Submissions is one call  *)
(* of submit(); the asynchronous function goes on where its validation, and*)
(* later its action, is answered.                                          *)
(*                                                                         *)
(* The submission revision is only ever compared with that of a call, and  *)
(* is represented by the call that holds it, or None.  The tree revision is*)
(* represented by whether it has moved since a call read it.               *)
(***************************************************************************)
EXTENDS FieldValidation

CONSTANTS
    Submissions,
    None,
    Rank,       \* the place of each field in the form
    Policies,   \* duplicatePolicy of the calls
    Ways        \* calls with an action, without one, with a value that cannot be cloned

ASSUME SubmissionsAssumption ==
    /\ Submissions \subseteq Callers \ {User} /\ None \notin Submissions
    /\ Rank \in [Fields -> Nat]
    /\ \A f, g \in Fields : Rank[f] = Rank[g] => f = g
ASSUME WaysAssumption ==
    /\ Policies \subseteq {"supersede", "reject", "drop"}
    /\ Ways \subseteq {"action", "none", "unclonable"}

VARIABLES
    subs,           \* what each call holds
    current,        \* currentSubmissionRevision: whose it is
    active,         \* activeAbortController: whose it is
    status,         \* submissionStatusState
    formServer      \* formServerIssuesState

coordinator == <<current, active, status, formServer>>
svars == <<fields, disposed, excused, subs, current, active, status, formServer>>

NotCalled ==
    [phase |-> "none", edited |-> FALSE, aborted |-> FALSE, thrown |-> FALSE, outcome |-> "none",
     overtaken |-> FALSE,   \* history: a field was validated or reset meanwhile
     hidden |-> FALSE]      \* history: an older call changed the status meanwhile

SInit ==
    /\ FInit
    /\ subs = [s \in Submissions |-> NotCalled]
    /\ current = None /\ active = None
    /\ status = "idle"
    /\ formServer = {}

Running == {"validating", "submitting"}
Validating == {s \in Submissions : subs[s].phase = "validating"}
Acting == {s \in Submissions : subs[s].phase = "acting"}
InProgress == Validating \cup Acting

Over(x, outcome) == [x EXCEPT !.phase = "over", !.outcome = outcome]
Abort(ss, s) == IF s = None THEN ss ELSE [ss EXCEPT ![s].aborted = TRUE]
Released(s) == IF active = s THEN None ELSE active
-----------------------------------------------------------------------------
(* form.validate on behalf of s: a rule that throws keeps the fields after *)
(* it from being validated.                                                *)
Throwers(fs, throws) == {f \in throws : fs[f].parsed}
Reached(fs, throws) ==
    {f \in Fields : \A g \in Throwers(fs, throws) : Rank[f] <= Rank[g]}
ValidateTree(fs, s, throws) ==
    [f \in Fields |-> IF f \in Reached(fs, throws)
                      THEN Validated(fs[f], f, ValuesIn(fs), s, throws)
                      ELSE fs[f]]
Unaccounted(fs, throws) ==
    (excused \ Reached(fs, throws)) \cup (Throwers(fs, throws) \cap Reached(fs, throws))

Answered(fs, s) == \A f \in Fields : \A r \in fs[f].runs : r.by # s
Invalid(fs, found) == found # {} \/ \E f \in Fields : fs[f].issues # {}

(* What comes after the validation of s found the fields fs: x is what s   *)
(* holds, found the issues of the form itself.                             *)
StaleUnlessEdited(s, x) ==  \* mutated: the tree revision is not compared
    current' # s \/ x.aborted
Stale(s, x) == x.edited \/ current' # s \/ x.aborted

Cancelled(s, x, ss) ==
    /\ subs' = [t \in Submissions |->
                    IF t = s THEN Over([x EXCEPT !.aborted = @ \/ active = s], "cancelled")
                    ELSE IF t = current' THEN [ss[t] EXCEPT !.hidden = @ \/ t \in InProgress]
                    ELSE ss[t]]
    /\ active' = Released(s)
    /\ status' = "cancelled"

Blocked(s, x, ss) ==
    /\ subs' = [ss EXCEPT ![s] = Over(x, "invalid")]
    /\ active' = None
    /\ status' = "idle"

(* Past the gate: the value is cloned, the action is called.               *)
Enter(s, x, ss, way) ==
    \/ /\ way = "action"
       /\ subs' = [ss EXCEPT ![s] = [x EXCEPT !.phase = "acting"]]
       /\ active' = s
       /\ status' = "submitting"
    \/ /\ way = "none"
       /\ subs' = [ss EXCEPT ![s] = Over(x, "succeeded")]
       /\ active' = None
       /\ status' = "succeeded"
    \/ /\ way = "unclonable"
       /\ subs' = [ss EXCEPT ![s] = Over(x, "threw")]
       /\ active' = None
       /\ status' = "failed"

Gate(s, x, ss, fs, found, way) ==
    IF Stale(s, x) THEN Cancelled(s, x, ss)
    ELSE IF Invalid(fs, found) THEN Blocked(s, x, ss)
    ELSE Enter(s, x, ss, way)
-----------------------------------------------------------------------------
(* submit(), up to where it waits for asynchronous rules; "reject" and     *)
(* "drop" change nothing while a submission is running.                    *)
Admitted(policy) == policy = "supersede" \/ status \notin Running
SupersededSilently == subs  \* mutated: the superseded call is not aborted
Superseded == IF status \in Running THEN Abort(subs, active) ELSE subs

Submit(s, policy, way, throws) ==
    /\ ~disposed /\ Bounded
    /\ subs[s].phase = "none"
    /\ Admitted(policy)
    /\ current' = s
    /\ formServer' = {}
    /\ LET cleared == [f \in Fields |-> Serving(fields[f], {})]
           fs == ValidateTree(cleared, s, throws)
           x == NotCalled
       IN  /\ fields' = fs
           /\ excused' = Unaccounted(cleared, throws)
           /\ \/ /\ Throwers(cleared, throws) # {}
                 /\ subs' = [Superseded EXCEPT ![s] = Over(x, "threw")]
                 /\ active' = None
                 /\ status' = "failed"
              \/ /\ Throwers(cleared, throws) = {} /\ ~Answered(fs, s)
                 /\ subs' = [Superseded EXCEPT ![s].phase = "validating"]
                 /\ active' = s
                 /\ status' = "validating"
              \/ /\ Throwers(cleared, throws) = {} /\ Answered(fs, s)
                 /\ Gate(s, x, Superseded, fs, {}, way)
    /\ UNCHANGED disposed

(* The promise of the validation is settled and submit() goes on.  On a    *)
(* form disposed meanwhile reading the issues throws.                      *)
ValidationAnswered(s, way) ==
    /\ subs[s].phase = "validating"
    /\ Answered(fields, s) /\ ~subs[s].thrown /\ ~disposed
    /\ UNCHANGED current
    /\ Gate(s, subs[s], subs, fields, formServer, way)
    /\ UNCHANGED <<formServer, fields, excused, disposed>>

ValidationThrew(s) ==
    /\ subs[s].phase = "validating"
    /\ subs[s].thrown \/ (disposed /\ Answered(fields, s))
    /\ subs' = [subs EXCEPT ![s] = Over(@, "threw")]
    /\ IF current = s /\ ~subs[s].aborted /\ ~disposed
       THEN status' = "failed" /\ active' = Released(s)
       ELSE UNCHANGED <<status, active>>
    /\ UNCHANGED <<current, formServer, fields, excused, disposed>>
-----------------------------------------------------------------------------
(* The action of s has ended, for a submission that is not wanted any more *)
(* or for the current one.                                                 *)
NeverUnwanted(s) == FALSE  \* mutated: late results count
Unwanted(s) == current # s \/ subs[s].aborted \/ disposed

ActionIgnored(s) ==
    /\ subs[s].phase = "acting" /\ Unwanted(s)
    /\ subs' = [subs EXCEPT ![s] = Over(@, "cancelled")]
    /\ active' = Released(s)
    /\ UNCHANGED <<current, status, formServer, fields, excused, disposed>>

(* "cancelled" is an action that rejects with an AbortError of its own.    *)
ActionEnds(s, outcome) ==
    /\ subs[s].phase = "acting" /\ ~Unwanted(s)
    /\ subs' = [subs EXCEPT ![s] = Over(@, outcome)]
    /\ status' = IF outcome \in {"succeeded", "cancelled"} THEN outcome ELSE "failed"
    /\ active' = Released(s)
    /\ UNCHANGED <<current, disposed, excused>>

ActionSettles(s) ==
    /\ \E outcome \in {"succeeded", "cancelled", "threw"} : ActionEnds(s, outcome)
    /\ UNCHANGED <<formServer, fields>>

(* The action returned issues, for a field or for nothing in the tree.     *)
ServerRejects(s) ==
    /\ ActionEnds(s, "server-invalid")
    /\ \/ \E f \in Fields :
            /\ fields' = [fields EXCEPT ![f] = Serving(@, {"server"})]
            /\ formServer' = {}
       \/ /\ formServer' = {"server"}
          /\ UNCHANGED fields
-----------------------------------------------------------------------------
CancelSubmit ==
    /\ status \in Running
    /\ subs' = Abort(subs, active)
    /\ active' = None /\ current' = None
    /\ status' = "cancelled"
    /\ UNCHANGED <<formServer, fields, excused, disposed>>

ResetKeepingStatus ==  \* mutated: status does not go back to "idle"
    /\ ResetFields
    /\ subs' = Abort(subs, active)
    /\ active' = None /\ current' = None
    /\ formServer' = {}
    /\ UNCHANGED status
Reset ==
    /\ ResetFields
    /\ subs' = Abort(subs, active)
    /\ active' = None /\ current' = None
    /\ status' = "idle"
    /\ formServer' = {}

Dispose ==
    /\ DisposeForm
    /\ subs' = Abort(subs, active)
    /\ active' = None /\ current' = None
    /\ UNCHANGED <<status, formServer>>

(* setValue and setRawValue move the tree revision.                        *)
Edit ==
    /\ \E f \in Fields, throws \in Errors(Throwing) :
        SetRawValue(f, throws) \/ \E v \in Values : SetValue(f, v, throws)
    /\ subs' = [s \in Submissions |-> [subs[s] EXCEPT !.edited = @ \/ s \in Validating]]
    /\ UNCHANGED coordinator

(* A field is validated, or reset alone: nothing tells the submission.     *)
Overtake ==
    /\ \E f \in Fields :
        \/ ResetField(f)
        \/ \E throws \in Errors(Throwing) : Blur(f, throws)
        \/ \E throws \in SUBSET Throwing : Validate(f, throws)
    /\ subs' = [s \in Submissions |-> [subs[s] EXCEPT !.overtaken = @ \/ s \in Validating]]
    /\ UNCHANGED coordinator

(* A rule that rejects for s settles the promise s waits for.              *)
RuleFails ==
    /\ \E f \in Fields : \E r \in fields[f].runs :
        /\ RuleRejects(f, r)
        /\ subs' = [s \in Submissions |->
                        [subs[s] EXCEPT !.thrown = @ \/ (r.by = s /\ Counts(f, r))]]
    /\ UNCHANGED coordinator

OtherEvent ==
    /\ \E f \in Fields :
        \/ \E throws \in Errors(Throwing) : TimerFires(f, throws)
        \/ \E r \in fields[f].runs :
            RuleResolves(f, r) \/ RuleGivesUp(f, r) \/ FailureCaught(f, r)
    /\ UNCHANGED <<subs, coordinator>>
-----------------------------------------------------------------------------
SNext ==
    \/ \E s \in Submissions :
        \/ \E policy \in Policies, way \in Ways, throws \in SUBSET Throwing :
             Submit(s, policy, way, throws)
        \/ \E way \in Ways : ValidationAnswered(s, way)
        \/ ValidationThrew(s)
        \/ ActionIgnored(s) \/ ActionSettles(s) \/ ServerRejects(s)
    \/ CancelSubmit \/ Reset \/ Dispose
    \/ Edit \/ Overtake \/ RuleFails \/ OtherEvent

SSpec == SInit /\ [][SNext]_svars
-----------------------------------------------------------------------------
SubType ==
    [phase : {"none", "validating", "acting", "over"}, edited : BOOLEAN, aborted : BOOLEAN,
     thrown : BOOLEAN, overtaken : BOOLEAN, hidden : BOOLEAN,
     outcome : {"none", "cancelled", "invalid", "threw", "succeeded", "server-invalid"}]

(* The state keeps its types, a call that has ended has an outcome, and the*)
(* controller that is set is that of a call still in progress.             *)
STypeOK ==
    /\ FTypeOK
    /\ subs \in [Submissions -> SubType]
    /\ \A s \in Submissions : subs[s].phase = "over" <=> subs[s].outcome # "none"
    /\ current \in Submissions \cup {None}
    /\ active \in InProgress \cup {None}
    /\ status \in {"idle", "validating", "submitting", "succeeded", "failed", "cancelled"}
    /\ formServer \subseteq {"server"}

(* The form never says it is validating or submitting when no call of      *)
(* submit() is going to end it: otherwise it would refuse or drop every    *)
(* later submission for ever.                                              *)
NeverStuck ==
    status \in Running /\ ~disposed =>
        /\ current \in InProgress
        /\ status = "submitting" <=> current \in Acting

(* Two actions run at once only when all but one have been told to abort,  *)
(* whatever the policies.  Left out is a call whose progress an older call *)
(* has hidden from the next one.                                           *)
OneAction ==
    \A s, t \in Acting :
        s # t => \E u \in {s, t} : subs[u].aborted \/ subs[u].hidden

(* A call whose gate opens has values that no rule refuses: all have passed*)
(* their rules, unless a field was validated or reset alone while it       *)
(* waited. A rule that gave up with an AbortError has refused nothing, and *)
(* lets its value through (executor.ts:92).                                *)
Opens(s) ==
    \/ subs[s].phase # "acting" /\ subs'[s].phase = "acting"
    \/ subs[s].phase # "over" /\ subs[s].phase # "acting" /\ subs'[s].outcome = "succeeded"
GateHoldsInStep ==
    \A s \in Submissions : Opens(s) /\ ~subs[s].overtaken =>
        \A f \in Fields : Passes(f, fields'[f], ValuesIn(fields'))
GateHolds == [][GateHoldsInStep]_svars

(* A call that was superseded, cancelled or reset ends without a trace but *)
(* the status: no server issue, no success, no failure of the form.        *)
StaleLeavesNothingInStep ==
    \A s \in InProgress : current # s /\ subs'[s].phase = "over" =>
        /\ subs'[s].outcome \in {"cancelled", "threw"}
        /\ status' \in {status, "cancelled"}
        /\ formServer' = formServer
        /\ \A f \in Fields : fields'[f].server = fields[f].server
StaleLeavesNothing == [][StaleLeavesNothingInStep]_svars

(* test: no stale validation generation can authorize submit.  A call whose*)
(* gate opens has values that every rule accepts.                          *)
GateBlocks ==
    [][\A s \in Submissions : Opens(s) =>
        \A f \in Fields : Accepts(f, ValuesIn(fields'))]_svars

(* FORM_ARCHITECTURE 10.2: submissionStatus is that of the latest          *)
(* submission attempt.  While that one is in progress the form says so.    *)
StatusIsLatest ==
    current \in InProgress /\ ~disposed => status \in Running
=============================================================================
