------------------------ MODULE SubmissionListeners ------------------------
(***************************************************************************)
(* submit() as its listeners see it (submission/state-machine.ts).         *)
(* Submission takes what a call does between two awaits as one step; here  *)
(* it is cut at every write that is notified, since a listener of the      *)
(* status, of a field or of the server issues may call the form from there,*)
(* or throw.                                                               *)
(*                                                                         *)
(* A write made while nothing is being notified calls the listeners before *)
(* it returns.  The writes of a call made by a listener are notified when  *)
(* it has returned to the listener, so no listener runs inside of it: the  *)
(* stack has a call and, above it, at most one that a listener has made.   *)
(* What rules and actions say is open; so is whether a field had something *)
(* to tell when it was validated.                                          *)
(***************************************************************************)
EXTENDS FiniteSets, Sequences, SequencesExt

CONSTANTS
    Attempts,        \* the calls of submit()
    Nobody,          \* is none of them
    ListenersThrow   \* whether a listener may throw

VARIABLES
    calls,      \* what each call holds
    stack,      \* the calls that have been entered and have not returned or awaited
    told,       \* whether the last write had listeners to tell
    current,    \* currentSubmissionRevision: whose it is
    active,     \* activeAbortController: whose it is
    status,     \* submissionStatusState
    server,     \* whose server issues the tree and the form show
    disposed

lvars == <<calls, stack, told, current, active, status, server, disposed>>

NotMade ==
    [phase |-> "none", way |-> "none", edited |-> FALSE, aborted |-> FALSE, outcome |-> "none",
     left |-> FALSE,        \* history: a listener threw it out in mid-submission
     caught |-> FALSE,      \* history: it lost its place inside one of its own writes
     hidden |-> FALSE]      \* history: another call changed the status meanwhile

LInit ==
    /\ calls = [s \in Attempts |-> NotMade]
    /\ stack = <<>> /\ told = FALSE
    /\ current = Nobody /\ active = Nobody
    /\ status = "idle" /\ server = Nobody
    /\ disposed = FALSE

Busy == {"validating", "submitting"}
Passing == {"started", "cleared", "validated", "entered", "routed"}
Before == {"started", "cleared", "validated", "awaiting"}
Underway(s) == calls[s].phase \in Passing \cup {"awaiting", "acting"}

(* Calls from outside, and from a listener that has been told.             *)
MayCall == stack = <<>> \/ (Len(stack) = 1 /\ told)
OnTop(s, phase) == stack # <<>> /\ Last(stack) = s /\ calls[s].phase = phase
Resumed(s, phase) == stack = <<>> /\ calls[s].phase = phase

(* A write of s: the calls that a change of the status hides, and whether  *)
(* there is anything to tell.  What a nested call writes is told later.    *)
Wrote(s, x, new) ==
    /\ calls' = [t \in Attempts |->
                    IF t = s THEN x
                    ELSE [calls[t] EXCEPT !.hidden =
                                    @ \/ (new # status /\ t = current' /\ Underway(t))]]
    /\ status' = new
    /\ told' = (new # status \/ Len(stack') = 2)
Entered(s) == IF stack # <<>> /\ Last(stack) = s THEN stack ELSE Append(stack, s)
Freed(s) == IF active = s THEN Nobody ELSE active
At(x, phase) == [x EXCEPT !.phase = phase]
Leaving(x, outcome) == [x EXCEPT !.phase = "leaving", !.outcome = outcome]
Aborted(s) ==
    [t \in Attempts |->
        [calls[t] EXCEPT !.aborted = @ \/ t = s,
                         !.caught = @ \/ (t \in ToSet(stack) /\ t = current)]]
-----------------------------------------------------------------------------
(* submit() up to its first write.                                         *)
SupersedesNone == Nobody  \* mutated: the controller of the call before is only dropped
Supersedes == IF status \in Busy THEN active ELSE Nobody

Submit(s, way) ==
    /\ MayCall /\ ~disposed
    /\ calls[s].phase = "none"
    /\ stack' = Append(stack, s)
    /\ current' = s /\ active' = s
    /\ calls' = [Aborted(Supersedes) EXCEPT ![s] = [NotMade EXCEPT !.phase = "started", !.way = way]]
    /\ status' = "validating"
    /\ told' = (status # "validating" \/ Len(stack') = 2)
    /\ UNCHANGED <<server, disposed>>

Clear(s) ==
    /\ OnTop(s, "started")
    /\ server' = Nobody
    /\ calls' = [calls EXCEPT ![s] = At(@, "cleared")]
    /\ told' = (server # Nobody \/ Len(stack) = 2)
    /\ UNCHANGED <<stack, current, active, status, disposed>>

(* validateTree("submit") runs the synchronous rules and asks the others.  *)
ValidateFields(s) ==
    /\ OnTop(s, "cleared") /\ ~disposed
    /\ calls' = [calls EXCEPT ![s] = At(@, "validated")]
    /\ told' = TRUE
    /\ UNCHANGED <<stack, current, active, status, server, disposed>>

Await(s) ==
    /\ OnTop(s, "validated")
    /\ calls' = [calls EXCEPT ![s] = At(@, "awaiting")]
    /\ stack' = Front(stack)
    /\ UNCHANGED <<told, current, active, status, server, disposed>>

(* It threw: a rule, a listener, or the form when it is asked for its      *)
(* issues after it has been disposed.                                      *)
Caught(s) ==
    /\ stack' = Entered(s)
    /\ UNCHANGED <<current, active, server, disposed>>
    /\ Wrote(s, Leaving(calls[s], "unvalidated"),
             IF current = s /\ ~calls[s].aborted /\ ~disposed THEN "failed" ELSE status)
ValidationThrows(s) ==
    /\ \/ OnTop(s, "cleared") \/ Resumed(s, "awaiting")
       \/ OnTop(s, "validated") /\ disposed
    /\ Caught(s)
-----------------------------------------------------------------------------
(* The gate, at once or when the promise is settled.                       *)
OutdatedByEdit(s) == calls[s].edited \/ disposed  \* mutated: revision and signal are not compared
Outdated(s) == calls[s].edited \/ current # s \/ calls[s].aborted \/ disposed

PassGate(s) ==
    /\ OnTop(s, "validated") \/ Resumed(s, "awaiting")
    /\ ~disposed
    /\ stack' = Entered(s)
    /\ UNCHANGED <<current, server, disposed>>
    /\ \/ /\ Outdated(s)
          /\ active' = Freed(s)
          /\ Wrote(s, [Leaving(calls[s], "cancelled") EXCEPT !.aborted = @ \/ active = s],
                   "cancelled")
       \/ /\ ~Outdated(s)
          /\ UNCHANGED active
          /\ Wrote(s, Leaving(calls[s], "invalid"), "idle")
       \/ /\ ~Outdated(s) /\ server = Nobody
          /\ UNCHANGED active
          /\ Wrote(s, At(calls[s], "entered"), "submitting")

(* After "submitting" has been told nothing is compared again: without an  *)
(* action the call succeeds, with one the action is called.                *)
Succeed(s) ==
    /\ OnTop(s, "entered") /\ calls[s].way = "none"
    /\ active' = Freed(s)
    /\ UNCHANGED <<stack, current, server, disposed>>
    /\ Wrote(s, Leaving(calls[s], "succeeded"), "succeeded")

CallAction(s) ==
    /\ OnTop(s, "entered") /\ calls[s].way = "action"
    /\ calls' = [calls EXCEPT ![s] = At(@, "acting")]
    /\ stack' = Front(stack)
    /\ UNCHANGED <<told, current, active, status, server, disposed>>
-----------------------------------------------------------------------------
AlwaysWanted(s) == FALSE  \* mutated: late results count
NotWanted(s) == current # s \/ calls[s].aborted \/ disposed

ActionIgnored(s) ==
    /\ Resumed(s, "acting") /\ NotWanted(s)
    /\ calls' = [calls EXCEPT ![s] = [At(@, "over") EXCEPT !.outcome = "cancelled"]]
    /\ active' = Freed(s)
    /\ UNCHANGED <<stack, told, current, status, server, disposed>>

ActionSettles(s) ==
    /\ Resumed(s, "acting") /\ ~NotWanted(s)
    /\ stack' = <<s>>
    /\ UNCHANGED <<current, active, server, disposed>>
    /\ \/ Wrote(s, Leaving(calls[s], "succeeded"), "succeeded")
       \/ Wrote(s, Leaving(calls[s], "cancelled"), "cancelled")
       \/ Wrote(s, Leaving(calls[s], "threw"), "failed")

(* The issues of the server are routed, which is told, and then the status *)
(* is set.                                                                 *)
Route(s) ==
    /\ Resumed(s, "acting") /\ ~NotWanted(s)
    /\ stack' = <<s>> /\ server' = s /\ told' = TRUE
    /\ calls' = [calls EXCEPT ![s] = At(@, "routed")]
    /\ UNCHANGED <<current, active, status, disposed>>

Rejected(s) ==
    /\ OnTop(s, "routed")
    /\ UNCHANGED <<stack, current, active, server, disposed>>
    /\ Wrote(s, Leaving(calls[s], "server-invalid"), "failed")

Leave(s) ==
    /\ OnTop(s, "leaving")
    /\ calls' = [calls EXCEPT ![s].phase = "over"]
    /\ active' = Freed(s)
    /\ stack' = Front(stack)
    /\ UNCHANGED <<told, current, status, server, disposed>>
-----------------------------------------------------------------------------
(* A listener has thrown, so the write throws once all have been told.     *)
Thrown(s, phases) ==
    /\ ListenersThrow /\ told /\ stack = <<s>> /\ calls[s].phase \in phases

(* Outside of every try: submit() rejects and leaves all as it is.  Only   *)
(* what comes after an action has a finally.                               *)
InTry(x) == x.way = "action" /\ x.outcome \in {"succeeded", "server-invalid"}

ThrownOut(s) ==
    /\ Thrown(s, {"started", "cleared", "entered", "leaving"})
    /\ ~InTry(calls[s])
    /\ calls' = [calls EXCEPT ![s] = [At(@, "over") EXCEPT !.outcome = "threw",
                                          !.left = calls[s].phase # "leaving"]]
    /\ active' = IF calls[s].outcome = "threw" \/ calls[s].outcome = "cancelled"
                 THEN Freed(s) ELSE active
    /\ stack' = <<>>
    /\ UNCHANGED <<told, current, status, server, disposed>>

ThrownInValidation(s) ==
    /\ Thrown(s, {"validated"})
    /\ Caught(s)

(* While what the action returned is dealt with: the action counts as      *)
(* failed, also after it has succeeded.                                    *)
ThrownInResult(s) ==
    /\ Thrown(s, {"routed", "leaving"})
    /\ calls[s].phase = "leaving" => InTry(calls[s])
    /\ UNCHANGED <<stack, current, active, server, disposed>>
    /\ IF current # s \/ disposed
       THEN Wrote(s, Leaving(calls[s], "cancelled"), status)
       ELSE Wrote(s, Leaving(calls[s], "threw"), "failed")
-----------------------------------------------------------------------------
CancelSubmit ==
    /\ MayCall /\ status \in Busy
    /\ calls' = Aborted(active)
    /\ active' = Nobody /\ current' = Nobody
    /\ status' = "cancelled"
    /\ UNCHANGED <<stack, told, server, disposed>>

Reset ==
    /\ MayCall /\ ~disposed
    /\ calls' = Aborted(active)
    /\ active' = Nobody /\ current' = Nobody
    /\ status' = "idle" /\ server' = Nobody
    /\ UNCHANGED <<stack, told, disposed>>

Dispose ==
    /\ MayCall /\ ~disposed
    /\ disposed' = TRUE
    /\ calls' = Aborted(active)
    /\ active' = Nobody /\ current' = Nobody
    /\ UNCHANGED <<stack, told, status, server>>

(* A field is edited: the tree revision of every call before its gate is   *)
(* another now.                                                            *)
Edit ==
    /\ MayCall /\ ~disposed
    /\ calls' = [s \in Attempts |->
                    [calls[s] EXCEPT !.edited = @ \/ calls[s].phase \in Before]]
    /\ UNCHANGED <<stack, told, current, active, status, server, disposed>>
-----------------------------------------------------------------------------
LNext ==
    \/ \E s \in Attempts :
        \/ \E way \in {"action", "none"} : Submit(s, way)
        \/ Clear(s) \/ ValidateFields(s) \/ Await(s) \/ ValidationThrows(s)
        \/ PassGate(s) \/ Succeed(s) \/ CallAction(s)
        \/ ActionIgnored(s) \/ ActionSettles(s) \/ Route(s) \/ Rejected(s) \/ Leave(s)
        \/ ThrownOut(s) \/ ThrownInValidation(s) \/ ThrownInResult(s)
    \/ CancelSubmit \/ Reset \/ Dispose \/ Edit

LSpec == LInit /\ [][LNext]_lvars
-----------------------------------------------------------------------------
CallType ==
    [phase : Passing \cup {"none", "awaiting", "acting", "leaving", "over"},
     way : {"none", "action"}, edited : BOOLEAN, aborted : BOOLEAN,
     outcome : {"none", "cancelled", "invalid", "unvalidated", "threw", "succeeded",
                "server-invalid"},
     left : BOOLEAN, caught : BOOLEAN, hidden : BOOLEAN]

(* The state keeps its types; a call is on the stack exactly while it has  *)
(* neither returned nor awaited, and only one can be above another.        *)
LTypeOK ==
    /\ calls \in [Attempts -> CallType]
    /\ stack \in Seq(Attempts) /\ Len(stack) <= 2
    /\ \A s \in Attempts :
        s \in ToSet(stack) <=> calls[s].phase \in Passing \cup {"leaving"}
    /\ told \in BOOLEAN /\ disposed \in BOOLEAN
    /\ {current, active, server} \subseteq Attempts \cup {Nobody}
    /\ status \in Busy \cup {"idle", "succeeded", "failed", "cancelled"}

(* Whatever listeners do, the form says that it is validating or submitting*)
(* only with a call under way that will end it.  Left out is a call that   *)
(* the error of a listener threw out between its writes.                   *)
NeverLeftBusy ==
    stack = <<>> /\ status \in Busy /\ ~disposed =>
        /\ current # Nobody
        /\ Underway(current) \/ calls[current].left
        /\ Underway(current) => (status = "submitting" <=> calls[current].phase = "acting")

(* A listener that submits again or cancels stops the call whose write it  *)
(* was told of: of two actions all but one have been aborted.              *)
OneActionWithListeners ==
    \A s, t \in Attempts :
        calls[s].phase = "acting" /\ calls[t].phase = "acting" /\ s # t =>
            \E u \in {s, t} : calls[u].aborted \/ calls[u].hidden

(* A call that lost its place while it waited writes no status but         *)
(* "cancelled" and serves no issues.  Only a call that lost it inside one  *)
(* of its own writes completes what it was about to write.                 *)
LateWritesNothingInStep ==
    \A s \in Attempts :
        current # s /\ ~calls[s].caught /\ calls[s].phase \notin {"none", calls'[s].phase} =>
            /\ status' \in {status, "cancelled"}
            /\ server' # s \/ server = s
LateWritesNothing == [][LateWritesNothingInStep]_lvars

(* FORM_ARCHITECTURE 10.2: submissionStatus is the outcome of the latest   *)
(* submission attempt; one that has ended is not shown as under way.       *)
EndedIsNotBusy ==
    stack = <<>> /\ status \in Busy /\ ~disposed => current # Nobody /\ Underway(current)
=============================================================================
