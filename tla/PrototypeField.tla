--------------------------- MODULE PrototypeField ---------------------------
(***************************************************************************)
(* createField() of the form prototype (research/form/form-core.ts): one   *)
(* field with its parser, its rules, the triggers that run them, a         *)
(* debounce, and the three sources of issues it combines.                  *)
(*                                                                         *)
(* Every method is one synchronous step; between the steps the asynchronous*)
(* rules answer or fail in any order, and the debounce fires.              *)
(***************************************************************************)
EXTENDS Naturals, FiniteSets, TLC

CONSTANTS
    Setups,       \* the options of the field
    MaxRevision   \* bound: revisions explored

SetupType ==
    [parser : BOOLEAN,
     rules : SUBSET {"sync", "async"},       \* kinds of rules the field has
     triggers : SUBSET {"change", "blur"},   \* validateOn
     debounce : BOOLEAN,                     \* debounceMs > 0
     manual : BOOLEAN]                       \* the application calls setPending() and the like

ASSUME SetupsAssumption == Setups \subseteq SetupType
ASSUME RevisionBound == MaxRevision \in Nat

VARIABLES
    setup,  \* the options of this field
    field   \* its states and the variables of its closure

fieldvars == <<setup, field>>

(* What a value is to the rules: the synchronous rule refuses "bad" and    *)
(* throws at "odd"; the asynchronous one refuses "taken". A raw input      *)
(* "garbage" does not parse.                                               *)
Values == {"good", "bad", "taken", "odd"}
Raws == Values \cup {"garbage"}
Issues == {"bad", "taken", "manual", "server", "parse"}

FieldType ==
    [value : Values, raw : Raws,
     parse : {"unparsed", "parsed", "invalid"}, parseIssue : BOOLEAN,
     own : SUBSET {"bad", "taken", "manual"},   \* validationIssuesState
     server : BOOLEAN,                          \* serverIssuesState is not empty
     shown : SUBSET Issues,                     \* issuesState, and errorsState with it
     status : {"unvalidated", "valid", "invalid"},
     pending : BOOLEAN,
     revision : 0..MaxRevision,                 \* currentRevision
     live : 0..MaxRevision,                     \* the revision of activeAbortController, or 0
     timer : 0..MaxRevision,                    \* the revision of debounceTimer, or 0
     runs : SUBSET [revision : 1..MaxRevision, value : Values],  \* rules awaited
     disposed : BOOLEAN]

Unparsed == IF setup.parser THEN "parsed" ELSE "unparsed"

FieldInit ==
    /\ setup \in Setups
    /\ field = [value |-> "good", raw |-> "good", parse |-> Unparsed, parseIssue |-> FALSE,
                own |-> {}, server |-> FALSE, shown |-> {}, status |-> "unvalidated",
                pending |-> FALSE, revision |-> 0, live |-> 0, timer |-> 0, runs |-> {},
                disposed |-> FALSE]
-----------------------------------------------------------------------------
(* Issues.                                                                 *)

(* syncCombinedIssues(): an issue of the parser hides the others.          *)
Combined(own, server, parseIssue) ==
    IF parseIssue THEN {"parse"} ELSE own \cup (IF server THEN {"server"} ELSE {})

Synced(f) == [f EXCEPT !.shown = Combined(f.own, f.server, f.parseIssue)]

(* The verdict of the rules, committed in one batch.                       *)
Verdict(f, issues) ==
    Synced([f EXCEPT !.own = issues, !.pending = FALSE,
                     !.status = IF issues = {} /\ ~f.server THEN "valid" ELSE "invalid"])
-----------------------------------------------------------------------------
(* Validation.                                                             *)

Cancelled(f) == [f EXCEPT !.live = 0, !.timer = 0]

(* executeValidation(), until it returns, throws or awaits.                *)
Executed(f) ==
    CASE f.parse = "invalid" -> f
      [] f.parse # "invalid" /\ "sync" \in setup.rules /\ f.value = "odd" -> f   \* the rule throws
      [] f.parse # "invalid" /\ "sync" \in setup.rules /\ f.value = "bad" -> Verdict(Cancelled(f), {"bad"})
      [] f.parse # "invalid" /\ ~("sync" \in setup.rules /\ f.value \in {"odd", "bad"}) ->
            IF "async" \in setup.rules
            THEN [f EXCEPT !.pending = TRUE,
                           !.runs = @ \cup {[revision |-> f.revision, value |-> f.value]}]
            ELSE Verdict(Cancelled(f), {})

(* A new revision with a controller of its own.                            *)
Begun(f) == [Cancelled(f) EXCEPT !.revision = @ + 1, !.live = f.revision + 1]

(* scheduleValidation(): only a change is debounced.                       *)
Scheduled(f, trigger) ==
    IF setup.debounce /\ trigger = "change"
    THEN [Begun(f) EXCEPT !.timer = f.revision + 1]
    ELSE Executed(Begun(f))
Triggered(f, trigger) ==
    IF ~f.disposed /\ setup.rules # {} /\ trigger \in setup.triggers THEN Scheduled(f, trigger) ELSE f

MayBegin == field.revision + 1 < MaxRevision

(* validate() throws when the field is disposed.                           *)
Validate ==
    /\ MayBegin /\ ~field.disposed
    /\ field' = Executed(Begun(field))

DebounceFires ==
    /\ field.timer # 0
    /\ LET f == [field EXCEPT !.timer = 0] IN
       field' = IF field.timer = f.revision /\ f.live = f.revision /\ ~f.disposed THEN Executed(f) ELSE f

(* The rules of a run have all answered, or one has rejected: only a run   *)
(* that is still the current one may commit. A rule that rejects with an   *)
(* AbortError of its own is taken for one without an issue.                *)
CurrentUnaborted(r) == r.revision = field.revision /\ ~field.disposed
Current(r) == r.revision = field.revision /\ r.revision = field.live /\ ~field.disposed
Left(r) == [field EXCEPT !.runs = @ \ {r}, !.live = IF @ = r.revision THEN 0 ELSE @]

Answered(r) ==
    \E issues \in {{}, {r.value} \cap {"taken"}} :
       field' = IF Current(r) THEN Verdict(Left(r), issues) ELSE Left(r)
Rejected(r) ==
    field' = IF Current(r) THEN [Left(r) EXCEPT !.pending = FALSE] ELSE Left(r)

Settle == \E r \in field.runs : Answered(r) \/ Rejected(r)
-----------------------------------------------------------------------------
(* Writing the value.                                                      *)

(* What both ways of writing do to the issues of the parser and the server.*)
Cleared(f) ==
    LET g == Synced([f EXCEPT !.parseIssue = FALSE, !.server = FALSE]) IN
    [g EXCEPT !.status = IF f.own = {} THEN "unvalidated" ELSE @]

(* setValue() leaves the raw input alone, and the issues unless one came   *)
(* from the parser or the server.                                          *)
Written(f, v) ==
    LET g == [Cancelled(f) EXCEPT !.value = v, !.parse = Unparsed] IN
    IF f.shown \cap {"parse", "server"} # {}
    THEN Cleared(g)
    ELSE [g EXCEPT !.parseIssue = FALSE, !.server = FALSE]

SetValue ==
    /\ MayBegin
    /\ \E v \in Values : field' = Triggered(Written(field, v), "change")

(* setRawValue(): parsed, taken as it is without a parser, or refused; the *)
(* parser itself may throw, after the raw input is stored.                 *)
Parsed(f, raw) == Cleared([f EXCEPT !.value = raw, !.parse = Unparsed])
Refused(f) ==
    Synced([f EXCEPT !.parseIssue = TRUE, !.server = FALSE, !.parse = "invalid",
                     !.status = "invalid", !.pending = FALSE])

SetRawValue ==
    /\ MayBegin
    /\ \E raw \in (IF setup.parser THEN Raws ELSE Values) :
          LET f == [Cancelled(field) EXCEPT !.raw = raw, !.revision = @ + 1] IN
          \/ field' = IF raw = "garbage" THEN Refused(f) ELSE Triggered(Parsed(f, raw), "change")
          \/ setup.parser /\ field' = f

SetTouched ==
    /\ MayBegin
    /\ field' = Triggered(field, "blur")

Reset ==
    /\ MayBegin
    /\ \E v \in Values \cap {"good", "taken"} :
          field' = [field EXCEPT !.value = v, !.raw = v, !.parse = Unparsed, !.parseIssue = FALSE,
                                 !.own = {}, !.server = FALSE, !.shown = {}, !.status = "unvalidated",
                                 !.pending = FALSE, !.revision = @ + 1, !.live = 0, !.timer = 0]
-----------------------------------------------------------------------------
(* Issues from outside, and the manual setters.                            *)

SetServerIssues ==
    \E some \in BOOLEAN :
       field' = LET f == Synced([field EXCEPT !.server = some]) IN
                [f EXCEPT !.status = IF some THEN "invalid" ELSE @]

ClearServerIssues ==
    field' = LET f == Synced([field EXCEPT !.server = FALSE]) IN
             [f EXCEPT !.status = IF ~f.parseIssue /\ f.own = {} /\ @ = "invalid" THEN "unvalidated" ELSE @]

SetPending == setup.manual /\ \E p \in BOOLEAN : field' = [field EXCEPT !.pending = p]

(* setIssues() takes an issue "from the server" for one of the rules:      *)
(* sanitizeIssue() knows no third source, and what the parser said is      *)
(* dropped.                                                                *)
SetIssues ==
    /\ setup.manual
    /\ \E issues \in SUBSET {"manual", "parse"} :
          field' = [Synced([field EXCEPT !.own = issues \ {"parse"}, !.server = FALSE])
                       EXCEPT !.status = IF issues = {} THEN "valid" ELSE "invalid"]

SetErrors ==
    /\ setup.manual
    /\ \E own \in {{}, {"manual"}} :
          field' = [Synced([field EXCEPT !.own = own])
                       EXCEPT !.status = IF own = {} /\ ~field.server THEN "valid" ELSE "invalid"]

(* The scope of the field is disposed.                                     *)
Dispose ==
    /\ ~field.disposed /\ MayBegin
    /\ field' = [Cancelled(field) EXCEPT !.disposed = TRUE, !.revision = @ + 1, !.pending = FALSE]

FieldNext ==
    /\ \/ Validate \/ DebounceFires \/ Settle \/ SetValue \/ SetRawValue \/ SetTouched \/ Reset
       \/ SetServerIssues \/ ClearServerIssues \/ SetPending \/ SetIssues \/ SetErrors \/ Dispose
    /\ UNCHANGED setup

FieldSpec == FieldInit /\ [][FieldNext]_fieldvars
-----------------------------------------------------------------------------
(* Properties.                                                             *)

(* The issues a field shows are those its three sources hold now, whatever *)
(* the order in which parser, rules and server spoke: the places that skip *)
(* or repeat the combination agree. And a field that cannot be parsed shows*)
(* that and nothing else: no verdict of a rule that was already running    *)
(* appears beside it or replaces it (syncCombinedIssues(), setRawValue()). *)
IssuesAreHeld ==
    /\ field.shown = Combined(field.own, field.server, field.parseIssue)
    /\ (field.parse = "invalid") <=> (field.shown = {"parse"})

(* Rules that run for the current revision are reported as pending,        *)
(* whatever was called since they began; and a pending field waits for     *)
(* something, rules that run or a debounce that will run them. The second  *)
(* only where every edit is validated anew and nothing throws: elsewhere   *)
(* the edit that aborts a run leaves its pending flag behind.              *)
PendingIsLive ==
    ~setup.manual =>
        /\ \A r \in field.runs : Current(r) => field.pending
        /\ ("change" \in setup.triggers /\ ~setup.parser /\ "sync" \notin setup.rules) =>
              (field.pending => field.timer # 0 \/ \E r \in field.runs : Current(r))

(* A verdict that arrives late is about the value the field holds.         *)
VerdictsAreCurrent ==
    [][(field'.runs # field.runs /\ field'.own # field.own /\ field'.revision = field.revision
        /\ field.runs \ field'.runs # {}) =>
            \A r \in field.runs \ field'.runs : r.value = field'.value]_fieldvars

(* The three together: what the field shows, says it waits for, and takes. *)
FieldIsSound == [](IssuesAreHeld /\ PendingIsLive) /\ VerdictsAreCurrent
=============================================================================
