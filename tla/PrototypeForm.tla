--------------------------- MODULE PrototypeForm ---------------------------
(***************************************************************************)
(* createForm() of the form prototype (research/form/form-core.ts): a root *)
(* group with rules of its own, a field "name" and an array of items below *)
(* it, and submission: duplicate policies, cancellation, the snapshots     *)
(* taken before validation, and the routing of the server's issues.        *)
(*                                                                         *)
(* Between the awaits of a submission the user edits, sorts and removes,   *)
(* validates, resets, cancels, submits again and disposes.                 *)
(***************************************************************************)
EXTENDS PrototypeArray

CONSTANTS
    Calls,     \* calls of submit()
    HasAsync,  \* the root has an asynchronous rule
    MaxRuns,   \* bound: revisions of the root's validation
    MaxIssues  \* bound: server issues the application sets on its own

ASSUME FormBounds == HasAsync \in BOOLEAN /\ MaxRuns \in Nat /\ MaxIssues \in Nat

VARIABLES
    name,       \* the value of the field: the synchronous rule refuses "bad", the other "taken"
    group,      \* the validation of the root group
    issuesOn,   \* server issues: where each one is, and what it is about
    submission, \* submissionStatus, and the revision and the controller of submissions
    calls       \* what each call of submit() holds

formonly == <<name, group, issuesOn, submission, calls>>
formvars == <<arrayvars, formonly>>

(* Where a server issue can be: on the form, on the field, on a node.      *)
FormNode == 0
NameNode == MaxNodes + 1
ItemNode == MaxNodes + 2

Names == {"good", "bad", "taken"}
NoCall == [phase |-> "idle", revision |-> 0, run |-> 0, output |-> "good", ids |-> <<>>,
           thrown |-> FALSE, gaveUp |-> FALSE, replaced |-> FALSE]

FormOnlyInit ==
    /\ name = "good"
    /\ group = [status |-> "unvalidated", issue |-> "none", pending |-> FALSE,
                revision |-> 0, live |-> 0, runs |-> {}]
    /\ issuesOn = {}
    /\ submission = [status |-> "idle", revision |-> 0, live |-> 0, up |-> TRUE]
    /\ calls = [c \in Calls |-> NoCall]
FormInit == ArrayInit /\ FormOnlyInit
-----------------------------------------------------------------------------
(* Validation of the root group. A controller that is not the active one   *)
(* has been aborted.                                                       *)

Judged(g, issue) ==
    [g EXCEPT !.issue = issue, !.status = IF issue = "none" THEN "valid" ELSE "invalid",
              !.pending = FALSE]

(* executeGroupValidation() of the values n, under a new revision.         *)
GroupExecuted(n) ==
    LET g == [group EXCEPT !.revision = @ + 1, !.live = group.revision + 1] IN
    IF n = "bad" THEN Judged([g EXCEPT !.live = 0], "bad")
    ELSE IF HasAsync
         THEN [g EXCEPT !.pending = TRUE,
                        !.runs = @ \cup {[revision |-> g.revision, value |-> n]}]
         ELSE Judged([g EXCEPT !.live = 0], "none")

(* A rule throws at once: the run of before has been aborted, its revision *)
(* has passed, and nothing is judged.                                      *)
GroupThrown == [group EXCEPT !.revision = @ + 1, !.live = group.revision + 1]
GroupValidated(n) == {GroupExecuted(n), GroupThrown}

(* A call whose run gives way to another waits on, for the aborted one.    *)
Replaced == [c \in Calls |-> [calls[c] EXCEPT !.replaced = @ \/ calls[c].phase = "validating"]]

RunCurrent(r) == r.revision = group.revision /\ r.revision = group.live

(* The rules of a run answer or reject, current or not. The calls that     *)
(* await them go on later, with the rejection if nobody aborted the run.   *)
(* A rule that gives up, with an AbortError of its own, has no issue.      *)
RunSettles(r, outcome) ==
    LET g == [group EXCEPT !.runs = @ \ {r}, !.live = IF @ = r.revision THEN 0 ELSE @] IN
    /\ group' = IF ~RunCurrent(r) THEN g
                ELSE IF outcome = "rejects" THEN [g EXCEPT !.pending = FALSE]
                ELSE Judged(g, IF outcome = "answers" /\ r.value = "taken" THEN "taken" ELSE "none")
    /\ calls' = [c \in Calls |->
                    IF calls[c].phase = "validating" /\ calls[c].run = r.revision
                    THEN [calls[c] EXCEPT !.thrown = outcome = "rejects" /\ RunCurrent(r),
                                          !.gaveUp = outcome = "gives up" /\ RunCurrent(r)]
                    ELSE calls[c]]
    /\ UNCHANGED <<arrayvars, name, issuesOn, submission>>

SettleRun ==
    \E r \in group.runs, outcome \in {"answers", "rejects", "gives up"} : RunSettles(r, outcome)

MayRun == group.revision < MaxRuns

(* validate() of the form.                                                 *)
ValidateForm ==
    /\ submission.up /\ MayRun
    /\ group' \in GroupValidated(name)
    /\ calls' = Replaced
    /\ UNCHANGED <<arrayvars, name, issuesOn, submission>>

(* setValues() of the form triggers the rules of the root; the field's own *)
(* setValue() does not. Both clear the server's issue of the field.        *)
Without(place) == {s \in issuesOn : s.on # place}

SetName ==
    /\ \E n \in Names : name' = n
    /\ issuesOn' = Without(NameNode)
    /\ \/ UNCHANGED <<group, calls>>
       \/ submission.up /\ MayRun /\ group' \in GroupValidated(name') /\ calls' = Replaced
    /\ UNCHANGED <<arrayvars, submission>>

(* The list of items changes, by any of the operations of the array; the   *)
(* issues of a node that is dropped go with it, reset() of the array       *)
(* included.                                                               *)
OnLive == {s \in issuesOn : s.on \in {FormNode, NameNode} \cup NodesOf(items')}
ChangeItems ==
    /\ ArrayNext /\ arrayUp'
    /\ issuesOn' = OnLive
    /\ UNCHANGED <<name, group, submission, calls>>
-----------------------------------------------------------------------------
(* Server issues.                                                          *)

(* routeServerIssuesToTree(): an index is looked up in the snapshot of the *)
(* identities, where there is one, and else in the list as it is; an issue *)
(* that finds no node stays with the form.                                 *)
Paths == [to : {FormNode, NameNode}, index : {0}] \cup [to : {ItemNode}, index : 1..(MaxItems + 1)]
At(i) == IF i \in DOMAIN items THEN items[i].node ELSE FormNode
NodeById(id) ==
    LET found == {i \in DOMAIN items : items[i].id = id} IN
    IF found = {} THEN FormNode ELSE items[CHOOSE i \in found : TRUE].node
RoutedByPlace(path, ids) == IF path.to = ItemNode THEN At(path.index) ELSE path.to
Routed(path, ids) ==
    IF path.to = ItemNode /\ path.index \in DOMAIN ids THEN NodeById(ids[path.index])
    ELSE IF path.to = ItemNode THEN At(path.index) ELSE path.to

(* What the server meant by it: the item that had the index.               *)
Meant(path, ids) ==
    IF path.to = ItemNode /\ path.index \in DOMAIN ids THEN ids[path.index]
    ELSE IF path.to = ItemNode /\ path.index \in DOMAIN items THEN items[path.index].id ELSE path.to

(* setServerIssues() and clearServerIssues() of the form.                  *)
GiveServerIssues ==
    /\ submission.up /\ Cardinality(issuesOn) < MaxIssues
    /\ \E path \in Paths :
          issuesOn' = issuesOn \cup {[on |-> Routed(path, <<>>), about |-> Meant(path, <<>>)]}
    /\ UNCHANGED <<arrayvars, name, group, submission, calls>>

ClearServer ==
    /\ submission.up /\ issuesOn' = {}
    /\ UNCHANGED <<arrayvars, name, group, submission, calls>>
-----------------------------------------------------------------------------
(* submit().                                                               *)

Busy == submission.status \in {"validating", "submitting"}
Ends(c) == [calls EXCEPT ![c] = [NoCall EXCEPT !.phase = "done"]]
OwnsWhenever(c) == calls[c].revision > 0
Owns(c) == calls[c].revision = submission.revision /\ calls[c].revision = submission.live

(* What the gate looks at: everything in the tree of the root, but not the *)
(* issues of the form itself.                                              *)
BlockedByServer(g, issues) == \E s \in issues : s.on # FormNode
Blocked(g, issues) == g.issue # "none" \/ g.status = "invalid" \/ \E s \in issues : s.on # FormNode

(* The beginning, up to the first await. A second submission is refused or *)
(* dropped, which changes nothing, or takes the place of the first.        *)
Begin(c) == [submission EXCEPT !.status = "validating", !.revision = @ + 1, !.live = submission.revision + 1]
MaySubmit(c) == submission.up /\ calls[c].phase = "idle"
Admits(policy) == Busy => policy = "supersede"

(* The output cannot be cloned: nothing has been cleared or validated.     *)
Fails(c) == submission' = [Begin(c) EXCEPT !.status = "failed", !.live = 0]
OutputThrows(c) ==
    /\ MaySubmit(c) /\ \E policy \in {"reject", "drop", "supersede"} : Admits(policy)
    /\ Fails(c) /\ calls' = Ends(c)
    /\ UNCHANGED <<arrayvars, name, group, issuesOn>>

(* A rule throws: the issues have been cleared, the validation has begun.  *)
RuleThrows(c) ==
    /\ MaySubmit(c) /\ MayRun
    /\ \E policy \in {"reject", "drop", "supersede"} : Admits(policy)
    /\ Fails(c) /\ calls' = [Replaced EXCEPT ![c] = [NoCall EXCEPT !.phase = "done"]]
    /\ group' = GroupThrown
    /\ issuesOn' = {}
    /\ UNCHANGED <<arrayvars, name>>

Snapshot(c, run) ==
    [phase |-> "validating", revision |-> submission.revision + 1, run |-> run, output |-> name,
     ids |-> [i \in DOMAIN items |-> items[i].id], thrown |-> FALSE,
     gaveUp |-> FALSE, replaced |-> FALSE]

Submit(c) ==
    /\ MaySubmit(c) /\ MayRun
    /\ \E policy \in {"reject", "drop", "supersede"} : Admits(policy)
    /\ issuesOn' = {}
    /\ group' = GroupExecuted(name)
    /\ IF group'.pending
       THEN /\ submission' = Begin(c)
            /\ calls' = [Replaced EXCEPT ![c] = Snapshot(c, group'.revision)]
       ELSE \/ /\ Blocked(group', {})
               /\ submission' = [Begin(c) EXCEPT !.status = "idle", !.live = 0]
               /\ calls' = [Replaced EXCEPT ![c] = [NoCall EXCEPT !.phase = "done"]]
            \/ /\ ~Blocked(group', {})
               /\ submission' = [Begin(c) EXCEPT !.status = "submitting"]
               /\ calls' = [Replaced EXCEPT ![c] = [Snapshot(c, 0) EXCEPT !.phase = "acting"]]
    /\ UNCHANGED <<arrayvars, name>>

(* Validation is over. Only the call that is still the current one goes    *)
(* on; what it finds is the state of the form now.                         *)
Waiting(c) == calls[c].phase = "validating" /\ \A r \in group.runs : r.revision # calls[c].run

ContinueStale(c) == Waiting(c) /\ ~Owns(c) /\ calls' = Ends(c) /\ UNCHANGED submission
ContinueThrown(c) ==
    /\ Waiting(c) /\ Owns(c) /\ calls[c].thrown
    /\ submission' = [submission EXCEPT !.status = "failed", !.live = 0]
    /\ calls' = Ends(c)
ContinueBlocked(c) ==
    /\ Waiting(c) /\ Owns(c) /\ ~calls[c].thrown
    /\ Blocked(group, issuesOn)
    /\ submission' = [submission EXCEPT !.status = "idle", !.live = 0]
    /\ calls' = Ends(c)
ContinueActs(c) ==
    /\ Waiting(c) /\ Owns(c) /\ ~calls[c].thrown
    /\ ~Blocked(group, issuesOn)
    /\ submission' = [submission EXCEPT !.status = "submitting"]
    /\ calls' = [calls EXCEPT ![c].phase = "acting"]
Continue(c) ==
    /\ ContinueStale(c) \/ ContinueThrown(c) \/ ContinueBlocked(c) \/ ContinueActs(c)
    /\ UNCHANGED <<arrayvars, name, group, issuesOn>>

(* The action answers, fails, or reports that it was aborted; with issues  *)
(* of the server it fails as well, and they are routed. finally, the call  *)
(* leaves the controller if it is its own.                                 *)
ActionEnds(c) ==
    /\ calls[c].phase = "acting"
    /\ calls' = Ends(c)
    /\ IF Owns(c)
       THEN \/ /\ \E status \in {"succeeded", "failed", "cancelled"} :
                     submission' = [submission EXCEPT !.status = status, !.live = 0]
               /\ UNCHANGED issuesOn
            \/ /\ submission' = [submission EXCEPT !.status = "failed", !.live = 0]
               /\ \E path \in Paths :
                     issuesOn' = issuesOn \cup {[on |-> Routed(path, calls[c].ids),
                                                 about |-> Meant(path, calls[c].ids)]}
       ELSE UNCHANGED <<submission, issuesOn>>
    /\ UNCHANGED <<arrayvars, name, group>>

Stopped == [submission EXCEPT !.status = "cancelled", !.revision = @ + 1, !.live = 0]
CancelSubmit ==
    /\ Busy /\ submission.revision < 2 * Cardinality(Calls)
    /\ submission' = Stopped
    /\ UNCHANGED <<arrayvars, name, group, issuesOn, calls>>

(* reset() and reinitialize(): the submission is cancelled, the tree goes  *)
(* back to its initial values.                                             *)
ResetForm ==
    /\ submission.up /\ MayRun /\ submission.revision < 2 * Cardinality(Calls)
    /\ submission' = [(IF Busy THEN Stopped ELSE submission) EXCEPT !.status = "idle"]
    /\ ResetArray(options.initial)
    /\ name' = "good" /\ issuesOn' = {}
    /\ group' = [group EXCEPT !.status = "unvalidated", !.issue = "none", !.pending = FALSE,
                              !.revision = @ + 1, !.live = 0]
    /\ calls' = Replaced

(* dispose(): the status stays as it was.                                  *)
DisposeForm ==
    /\ submission.up
    /\ submission' = [submission EXCEPT !.up = FALSE, !.live = 0]
    /\ DisposeArray
    /\ group' = [group EXCEPT !.revision = @ + 1, !.live = 0, !.pending = FALSE]
    /\ calls' = Replaced
    /\ UNCHANGED <<name, issuesOn>>

FormNext ==
    \/ SettleRun \/ ValidateForm \/ SetName \/ ChangeItems \/ GiveServerIssues \/ ClearServer
    \/ \E c \in Calls : OutputThrows(c) \/ RuleThrows(c) \/ Submit(c) \/ Continue(c) \/ ActionEnds(c)
    \/ CancelSubmit \/ ResetForm \/ DisposeForm

FormSpec == FormInit /\ [][FormNext]_formvars
-----------------------------------------------------------------------------
(* Properties.                                                             *)

(* A form that says it is submitting has a submission that will end it, the*)
(* only one with a controller that is not aborted; and no other call       *)
(* believes it is current (cancelSubmit(), supersede, reset()).            *)
SubmissionIsLive ==
    /\ Busy /\ submission.up =>
          \E c \in Calls : Owns(c) /\ calls[c].phase = (IF submission.status = "validating" THEN "validating" ELSE "acting")
    /\ \A c, d \in Calls : (calls[c].phase = "acting" /\ Owns(c) /\ calls[d].phase \in {"validating", "acting"} /\ Owns(d)) => c = d

(* The output an action gets is the one that was validated, and no rule    *)
(* refused it: unless another validation took the place of the one the     *)
(* submission waited for. A rule that rejects with an AbortError of its    *)
(* own has not refused anything, here (form-core.ts:1140).                 *)
ActsOnValidated ==
    \A c \in Calls :
        (calls[c].phase = "acting" /\ ~calls[c].replaced) =>
            calls[c].output # "bad" /\ (HasAsync => calls[c].output # "taken" \/ calls[c].gaveUp)

(* An issue the server reports for an item is found on that item, wherever *)
(* it has moved since the submission, or on the form if it has gone; never *)
(* on another one that has its place (collectArraySnapshots()).            *)
IssuesFindTheirItem ==
    \A s \in issuesOn : \A i \in DOMAIN items :
        s.on = items[i].node /\ ~options.keyed => s.about = items[i].id

(* The three together: who submits, what is sent, where the answer lands.  *)
SubmissionsAreSound == SubmissionIsLive /\ ActsOnValidated /\ IssuesFindTheirItem
=============================================================================
