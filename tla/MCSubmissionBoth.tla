------------------------------ MODULE MCSubmissionBoth ------------------------------
(* Side by side: three calls of submit() on one field, two calls on two    *)
(* fields of which one depends on the other, and two calls with listeners  *)
(* that call the form and throw.  The last shares the coordinator's        *)
(* variables with the others.                                              *)
EXTENDS MCSubmission

VARIABLES part, calls, stack, told, server
heardVars == <<calls, stack, told, server>>
everything == <<svars, heardVars, part>>

Gates == INSTANCE Submission WITH
    Callers <- {User, a, b}, Submissions <- {a, b}, Fields <- {p, q}, Ruled <- {p, q},
    DependsOn <- [f \in {p, q} |-> IF f = q THEN {p} ELSE {}],
    Rank <- [f \in {p, q} |-> IF f = p THEN 1 ELSE 2], Throwing <- {p, q}

Heard == INSTANCE SubmissionListeners WITH
    Attempts <- {a, b}, Nobody <- None, ListenersThrow <- TRUE

BothInit ==
    /\ part \in {"calls", "gates", "listeners"}
    /\ IF part = "gates" THEN Gates!SInit ELSE SInit
    /\ IF part = "listeners" THEN Heard!LInit
       ELSE calls = <<>> /\ stack = <<>> /\ told = FALSE /\ server = None
BothNext ==
    /\ UNCHANGED part
    /\ \/ part = "calls" /\ SNext /\ UNCHANGED heardVars
       \/ part = "gates" /\ Gates!SNext /\ UNCHANGED heardVars
       \/ part = "listeners" /\ Heard!LNext /\ UNCHANGED <<fields, excused, subs, formServer>>
BothSpec == BothInit /\ [][BothNext]_everything

(* The form is not stuck in a submission nobody will end, and no two       *)
(* actions run that were not told to stop: NeverStuck and OneAction of     *)
(* Submission, NeverLeftBusy and OneActionWithListeners of                 *)
(* SubmissionListeners (state-machine.ts).                                 *)
SubmissionsEnd ==
    /\ part = "calls" => STypeOK /\ NeverStuck /\ OneAction
    /\ part = "gates" => Gates!STypeOK /\ Gates!NeverStuck /\ Gates!OneAction
    /\ part = "listeners" =>
        Heard!LTypeOK /\ Heard!NeverLeftBusy /\ Heard!OneActionWithListeners

(* StaleLeavesNothing of Submission, LateWritesNothing of                  *)
(* SubmissionListeners.                                                    *)
StaleCallsLeaveNothing ==
    [][/\ part = "calls" => StaleLeavesNothingInStep
       /\ part = "gates" => Gates!StaleLeavesNothingInStep
       /\ part = "listeners" => Heard!LateWritesNothingInStep]_everything

(* GateHolds of Submission.                                                *)
GatesHold ==
    [][/\ part = "calls" => GateHoldsInStep
       /\ part = "gates" => Gates!GateHoldsInStep]_everything
=============================================================================
