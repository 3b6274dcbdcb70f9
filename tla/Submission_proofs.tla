-------------------------- MODULE Submission_proofs --------------------------
(***************************************************************************)
(* Theorems about FieldValidation, for every set of fields and values, all *)
(* dependencies and rules, and every bound; and about Submission over its  *)
(* fields, for every number of calls, all policies and ranks.              *)
(*                                                                         *)
(* The calls of a field are built from operations on its record.  What each*)
(* of them does to a record comes first, then the calls, then submissions. *)
(***************************************************************************)
EXTENDS Submission, TLAPS

(* An asynchronous rule that may still end what it was asked.              *)
InFlight(r) == r.stage = "asked" /\ ~r.aborted
Quiet(x) == \A r \in x.runs : ~InFlight(r)

IssuesOK(x) ==
    IF x.validation = {"error"} THEN x.issues # {}
    ELSE /\ x.issues = IF x.parsed THEN x.validation \cup x.server ELSE {"parse"}
         /\ x.validation # {} => x.status = "invalid"

(* What always holds of a field by itself: a run in flight is the one of   *)
(* the last generation, whose controller is set, and has raised pending; a *)
(* generation has one run, and none while it is debounced.                 *)
RunsOK(x) ==
    /\ \A r \in x.runs :
        /\ 1 <= r.revision /\ r.revision <= x.revision
        /\ InFlight(r) => r.revision = x.controller /\ x.parsed /\ x.pending
    /\ \A r, q \in x.runs : r.revision = q.revision => r = q
    /\ {x.controller, x.timer} \subseteq {0, x.revision}
    /\ x.timer # 0 =>
        x.controller = x.revision /\ \A r \in x.runs : r.revision # x.revision

RecordOK(f, x) ==
    /\ x \in FieldType
    /\ RunsOK(x)
    /\ ~x.parsed => ~x.pending /\ x.status = "invalid"
    /\ f \notin Ruled => ~x.pending
    /\ IssuesOK(x)

(* What holds of a field that nobody excused, when vals are the values:    *)
(* pending is going to be lowered, a verdict that stands is that on vals,  *)
(* and so is the one that a run in flight is going to give. A rule that    *)
(* threw an AbortError has ended the validation without either.            *)
Watched(f, x, vals) ==
    /\ x.pending => Underway(x) \/ x.quit = "thrown"
    /\ x.status = "valid" /\ ~Underway(x) => x.quit = "thrown" \/ Passes(f, x, vals)
    /\ \A r \in x.runs : InFlight(r) =>
        ~SyncFails(f, vals) /\ Asks(f, vals) /\ (r.fails <=> AsyncFails(f, vals))

(* A generation that has just begun.                                       *)
Fresh(x) ==
    /\ x.timer = 0 /\ x.revision # 0 /\ x.controller = x.revision
    /\ \A r \in x.runs : r.revision # x.revision

Found == SUBSET {"sync", "async", "error"}
ValuesOf == [Fields -> Values]

USE DEF InFlight, Quiet
-----------------------------------------------------------------------------
(* cancelActive() aborts whatever is in flight.                            *)
LEMMA AbortedType == ASSUME NEW x \in FieldType PROVE Aborted(x) \subseteq RunType
<1>1. ASSUME NEW r \in RunType, NEW b \in BOOLEAN
      PROVE  [r EXCEPT !.aborted = b] \in RunType
  BY DEF RunType
<1>2. ASSUME NEW r PROVE (r.aborted \/ r.revision = x.controller) \in BOOLEAN
  BY Zenon
<1>3. x.runs \subseteq RunType
  BY DEF FieldType
<1> QED BY <1>1, <1>2, <1>3 DEF Aborted

(* An aborted run is the run it was, but for the flag.                     *)
LEMMA AbortedRuns ==
    ASSUME NEW x \in FieldType, NEW a \in Aborted(x)
    PROVE  \E r \in x.runs :
            /\ a.revision = r.revision /\ a.stage = r.stage /\ a.by = r.by
            /\ a.fails = r.fails
            /\ a.aborted <=> r.aborted \/ r.revision = x.controller
            /\ a = [r EXCEPT !.aborted = r.aborted \/ r.revision = x.controller]
<1>1. PICK r \in x.runs : a = [r EXCEPT !.aborted = r.aborted \/ r.revision = x.controller]
  BY DEF Aborted
<1>2. r \in RunType
  BY DEF FieldType
<1>3. /\ a.revision = r.revision /\ a.stage = r.stage /\ a.by = r.by
      /\ a.fails = r.fails
  BY <1>1, <1>2 DEF RunType
<1>4. a.aborted = (r.aborted \/ r.revision = x.controller)
  BY <1>1, <1>2 DEF RunType
<1> QED BY <1>1, <1>3, <1>4

LEMMA CancelActiveFields ==
    ASSUME NEW x \in FieldType
    PROVE  /\ CancelActive(x) \in FieldType
           /\ CancelActive(x).controller = 0 /\ CancelActive(x).timer = 0
           /\ CancelActive(x).runs = Aborted(x)
           /\ CancelActive(x).value = x.value /\ CancelActive(x).parsed = x.parsed
           /\ CancelActive(x).validation = x.validation
           /\ CancelActive(x).issues = x.issues /\ CancelActive(x).server = x.server
           /\ CancelActive(x).status = x.status /\ CancelActive(x).pending = x.pending
           /\ CancelActive(x).revision = x.revision /\ CancelActive(x).quit = x.quit
<1>1. Aborted(x) \subseteq RunType
  BY AbortedType
<1>2. CancelActive(x) \in FieldType
  BY <1>1 DEF CancelActive, FieldType
<1> QED BY <1>2 DEF CancelActive, FieldType

LEMMA CancelActiveOK ==
    ASSUME NEW f, NEW x, RecordOK(f, x)
    PROVE  /\ RecordOK(f, CancelActive(x)) /\ Quiet(CancelActive(x))
           /\ \A r \in CancelActive(x).runs : r.revision <= x.revision
<1> DEFINE y == CancelActive(x)
<1>0. x \in FieldType /\ RunsOK(x)
  BY DEF RecordOK
<1>1. /\ y \in FieldType /\ y.controller = 0 /\ y.timer = 0 /\ y.runs = Aborted(x)
      /\ y.parsed = x.parsed /\ y.validation = x.validation /\ y.issues = x.issues
      /\ y.server = x.server /\ y.status = x.status /\ y.pending = x.pending
      /\ y.revision = x.revision
  BY <1>0, CancelActiveFields
<1> HIDE DEF y
<1>2. ASSUME NEW a \in Aborted(x)
      PROVE  ~InFlight(a) /\ 1 <= a.revision /\ a.revision <= x.revision
  BY <1>0, AbortedRuns DEF RunsOK
<1>3. \A a, b \in Aborted(x) : a.revision = b.revision => a = b
  BY <1>0, AbortedRuns DEF RunsOK
<1>4. RunsOK(y)
  BY <1>1, <1>2, <1>3 DEF RunsOK
<1>5. IssuesOK(y)
  BY <1>1 DEF IssuesOK, RecordOK
<1> QED BY <1>1, <1>2, <1>4, <1>5 DEF RecordOK, y

(* A new generation has nothing in flight and nothing of its own yet.      *)
LEMMA NextGenerationOK ==
    ASSUME NEW f, NEW x, RecordOK(f, x)
    PROVE  /\ RecordOK(f, NextGeneration(x)) /\ Fresh(NextGeneration(x))
           /\ Quiet(NextGeneration(x))
           /\ NextGeneration(x).value = x.value /\ NextGeneration(x).parsed = x.parsed
<1> DEFINE c == CancelActive(x)
           y == NextGeneration(x)
<1>1. /\ RecordOK(f, c) /\ Quiet(c) /\ \A r \in c.runs : r.revision <= x.revision
      /\ c.value = x.value /\ c.parsed = x.parsed /\ c.revision = x.revision
      /\ c.timer = 0 /\ x.revision \in Nat /\ c \in FieldType
  BY CancelActiveOK, CancelActiveFields DEF RecordOK, FieldType
<1> HIDE DEF c
<1>2. y = [c EXCEPT !.revision = @ + 1, !.controller = x.revision + 1, !.quit = "no"]
  BY DEF NextGeneration, c
<1> HIDE DEF y
<1>a. y \in FieldType
  <2>1. [c EXCEPT !.revision = x.revision + 1] \in FieldType
    BY <1>1 DEF FieldType
  <2> QED BY <1>1, <1>2, <2>1 DEF FieldType
<1>3. /\ y \in FieldType /\ y.timer = 0 /\ y.runs = c.runs
      /\ y.parsed = c.parsed /\ y.validation = c.validation /\ y.issues = c.issues
      /\ y.server = c.server /\ y.status = c.status /\ y.pending = c.pending
      /\ y.revision = x.revision + 1 /\ y.controller = x.revision + 1
      /\ y.value = c.value
  BY <1>1, <1>2, <1>a DEF FieldType
<1>4. c.runs \subseteq RunType
  BY <1>1 DEF FieldType
<1>5. RunsOK(y) /\ Fresh(y) /\ Quiet(y)
  BY <1>1, <1>3, <1>4 DEF RunsOK, RecordOK, Fresh, RunType
<1>6. IssuesOK(y)
  BY <1>1, <1>3 DEF IssuesOK, RecordOK
<1> QED BY <1>1, <1>3, <1>5, <1>6 DEF RecordOK, y

(* A verdict that a quiet field settles on; a failure of its rules may come*)
(* when it can no longer be parsed.                                        *)
LEMMA SettleOK ==
    ASSUME NEW f, NEW x, RecordOK(f, x), Quiet(x), x.timer = 0,
           NEW found \in Found, x.parsed \/ found = {"error"}
    PROVE  /\ RecordOK(f, Settle(x, found))
           /\ \A vals : found # {} \/ Accepts(f, vals) =>
                Watched(f, Settle(x, found), vals)
           /\ Settle(x, found).value = x.value
           /\ Settle(x, found).parsed = x.parsed /\ ~Settle(x, found).pending
           /\ Settle(x, found).runs = x.runs /\ Settle(x, found).timer = 0
<1> DEFINE y == Settle(x, found)
<1>1. x \in FieldType /\ RunsOK(x)
  BY DEF RecordOK
<1>2. /\ y \in FieldType /\ y.timer = x.timer /\ y.runs = x.runs
      /\ y.parsed = x.parsed /\ y.validation = found /\ y.issues = found \cup x.server
      /\ y.server = x.server /\ y.pending = FALSE
      /\ y.status = (IF found = {} THEN "valid" ELSE "invalid")
      /\ y.revision = x.revision /\ y.controller = x.controller
      /\ y.value = x.value
  BY <1>1 DEF FieldType, Settle, Commit, Found
<1> HIDE DEF y
<1>3. RunsOK(y)
  BY <1>1, <1>2 DEF RunsOK
<1>4. IssuesOK(y)
  BY <1>2 DEF IssuesOK
<1>5. \A vals : found # {} \/ Accepts(f, vals) => Watched(f, y, vals)
  BY <1>2 DEF Watched, Accepts, Passes
<1> QED BY <1>1, <1>2, <1>3, <1>4, <1>5 DEF RecordOK, y

(* executeFieldValidation, of a generation that has just begun: the field  *)
(* gets a verdict on vals, or a rule is asked for one.                     *)
LEMMA ExecuteOK ==
    ASSUME NEW f \in Fields, NEW x, RecordOK(f, x), Fresh(x), Quiet(x),
           NEW vals \in ValuesOf, NEW by \in {Runtime} \cup Callers
    PROVE  /\ RecordOK(f, Execute(x, f, vals, by))
           /\ Watched(f, Execute(x, f, vals, by), vals)
           /\ Execute(x, f, vals, by).value = x.value
           /\ Execute(x, f, vals, by).parsed = x.parsed
<1> DEFINE y == Execute(x, f, vals, by)
           c == CancelActive(x)
<1>1. x \in FieldType /\ RunsOK(x)
  BY DEF RecordOK
<1>2. CASE ~x.parsed
  <2>1. y = x
    BY <1>2 DEF Execute
  <2>2. Watched(f, x, vals)
    BY <1>2 DEF Watched, RecordOK
  <2> QED BY <2>1, <2>2
<1>3. ASSUME x.parsed, NEW found \in Found, found # {} \/ Accepts(f, vals),
             y = Settle(c, found)
      PROVE  RecordOK(f, y) /\ Watched(f, y, vals) /\ y.value = x.value /\ y.parsed
  <2>1. /\ RecordOK(f, c) /\ Quiet(c) /\ c.parsed /\ c.timer = 0 /\ c.value = x.value
    BY <1>1, <1>3, CancelActiveOK, CancelActiveFields
  <2> HIDE DEF c
  <2> QED BY <1>3, <2>1, SettleOK
<1>4. CASE x.parsed /\ SyncFails(f, vals)
  <2>1. y = Settle(c, {"sync"}) /\ {"sync"} \in Found
    BY <1>4 DEF Execute, Found
  <2> QED BY <1>3, <1>4, <2>1
<1>5. CASE x.parsed /\ ~SyncFails(f, vals) /\ ~Asks(f, vals)
  <2>1. y = Settle(c, {}) /\ {} \in Found /\ Accepts(f, vals)
    BY <1>5 DEF Execute, Found, Accepts
  <2> QED BY <1>3, <1>5, <2>1
<1>6. CASE x.parsed /\ ~SyncFails(f, vals) /\ Asks(f, vals)
  <2> DEFINE run == Run(x, f, vals, by)
  <2>1. y = [x EXCEPT !.pending = TRUE, !.runs = @ \cup {run}]
    BY <1>6 DEF Execute
  <2>2. f \in Ruled /\ AsyncFails(f, vals) \in BOOLEAN
    BY <1>6, RulesAssumption DEF ValuesOf
  <2>3. /\ run \in RunType /\ run.revision = x.revision /\ ~run.aborted
        /\ run.stage = "asked" /\ run.fails = AsyncFails(f, vals)
    BY <1>1, <2>2 DEF Run, RunType, FieldType
  <2> HIDE DEF run
  <2>a. x.runs \cup {run} \subseteq RunType
    BY <1>1, <2>3 DEF FieldType
  <2>b. y \in FieldType
    BY <1>1, <2>1, <2>a DEF FieldType
  <2>4. /\ y \in FieldType /\ y.timer = x.timer /\ y.runs = x.runs \cup {run}
        /\ y.parsed = x.parsed /\ y.validation = x.validation /\ y.issues = x.issues
        /\ y.server = x.server /\ y.status = x.status /\ y.pending = TRUE
        /\ y.revision = x.revision /\ y.controller = x.controller
        /\ y.value = x.value
    BY <1>1, <2>1, <2>b DEF FieldType
  <2> HIDE DEF y
  <2>5. RunsOK(y)
    BY <1>1, <1>6, <2>3, <2>4 DEF RunsOK, Fresh, RunType
  <2>6. IssuesOK(y)
    BY <2>4 DEF IssuesOK, RecordOK
  <2>7. run \in Latest(y)
    BY <2>3, <2>4 DEF Latest
  <2>8. Watched(f, y, vals)
    BY <1>6, <2>3, <2>4, <2>7 DEF Watched, Underway
  <2> QED BY <1>6, <2>2, <2>4, <2>5, <2>6, <2>8 DEF RecordOK, y
<1> QED BY <1>2, <1>3, <1>4, <1>5, <1>6

(* What a call or a timer makes of a field whose rules it runs.            *)
LEMMA QuitOK ==
    ASSUME NEW f, NEW x, RecordOK(f, x), Quiet(x)
    PROVE  /\ RecordOK(f, [x EXCEPT !.quit = "thrown"])
           /\ \A vals : Watched(f, [x EXCEPT !.quit = "thrown"], vals)
           /\ [x EXCEPT !.quit = "thrown"].value = x.value
           /\ [x EXCEPT !.quit = "thrown"].parsed = x.parsed
<1> DEFINE y == [x EXCEPT !.quit = "thrown"]
<1>1. x \in FieldType /\ RunsOK(x)
  BY DEF RecordOK
<1>2. /\ y \in FieldType /\ y.timer = x.timer /\ y.runs = x.runs
      /\ y.parsed = x.parsed /\ y.validation = x.validation /\ y.issues = x.issues
      /\ y.server = x.server /\ y.status = x.status /\ y.pending = x.pending
      /\ y.revision = x.revision /\ y.controller = x.controller /\ y.value = x.value
      /\ y.quit = "thrown"
  BY <1>1 DEF FieldType
<1> HIDE DEF y
<1>3. RunsOK(y)
  BY <1>1, <1>2 DEF RunsOK
<1>4. IssuesOK(y)
  BY <1>2 DEF IssuesOK, RecordOK
<1>5. \A vals : Watched(f, y, vals)
  BY <1>2 DEF Watched
<1> QED BY <1>2, <1>3, <1>4, <1>5 DEF RecordOK, y

LEMMA AutoRunOK ==
    ASSUME NEW f \in Fields, NEW x, RecordOK(f, x), Fresh(x), Quiet(x),
           NEW vals \in ValuesOf, NEW throws
    PROVE  /\ RecordOK(f, AutoRun(x, f, vals, throws))
           /\ Watched(f, AutoRun(x, f, vals, throws), vals)
           /\ AutoRun(x, f, vals, throws).value = x.value
           /\ AutoRun(x, f, vals, throws).parsed = x.parsed
<1>1. CASE x.parsed /\ Throws(f, "error", throws)
  <2>1. AutoRun(x, f, vals, throws) = Settle(x, {"error"}) /\ {"error"} \in Found
    BY <1>1 DEF AutoRun, Found
  <2>2. x.timer = 0 /\ {"error"} # {}
    BY DEF Fresh
  <2> DEFINE z == Settle(x, {"error"})
  <2>3. RecordOK(f, z) /\ Watched(f, z, vals) /\ z.value = x.value /\ z.parsed = x.parsed
    BY <2>1, <2>2, SettleOK
  <2> QED BY <2>1, <2>3
<1>2. CASE ~(x.parsed /\ Throws(f, "error", throws)) /\ x.parsed /\ Throws(f, "AbortError", throws)
  <2>1. AutoRun(x, f, vals, throws) = [x EXCEPT !.quit = "thrown"]
    BY <1>2 DEF AutoRun
  <2> QED BY <2>1, QuitOK
<1>3. CASE ~(x.parsed /\ Throws(f, "error", throws)) /\ ~(x.parsed /\ Throws(f, "AbortError", throws))
  <2>1. AutoRun(x, f, vals, throws) = Execute(x, f, vals, Runtime)
    BY <1>3 DEF AutoRun
  <2> QED BY <2>1, ExecuteOK
<1> QED BY <1>1, <1>2, <1>3

LEMMA ScheduleOK ==
    ASSUME NEW f \in Fields, NEW x, RecordOK(f, x), NEW vals \in ValuesOf,
           NEW trigger, NEW throws
    PROVE  /\ RecordOK(f, ScheduleValidation(x, f, vals, trigger, throws))
           /\ Watched(f, ScheduleValidation(x, f, vals, trigger, throws), vals)
           /\ ScheduleValidation(x, f, vals, trigger, throws).value = x.value
           /\ ScheduleValidation(x, f, vals, trigger, throws).parsed = x.parsed
<1> DEFINE y == NextGeneration(x)
           z == ScheduleValidation(x, f, vals, trigger, throws)
<1>1. /\ RecordOK(f, y) /\ Fresh(y) /\ Quiet(y) /\ y.value = x.value
      /\ y.parsed = x.parsed
  BY NextGenerationOK
<1>2. CASE Debounced /\ trigger = "change"
  <2>1. z = [y EXCEPT !.timer = y.revision]
    BY <1>2 DEF ScheduleValidation
  <2> HIDE DEF y
  <2>2. y \in FieldType /\ RunsOK(y)
    BY <1>1 DEF RecordOK
  <2>3. /\ z \in FieldType /\ z.timer = y.revision /\ z.runs = y.runs
        /\ z.parsed = y.parsed /\ z.validation = y.validation /\ z.issues = y.issues
        /\ z.server = y.server /\ z.status = y.status /\ z.pending = y.pending
        /\ z.revision = y.revision /\ z.controller = y.controller
        /\ z.value = y.value
    BY <2>1, <2>2 DEF FieldType
  <2> HIDE DEF z
  <2>4. RunsOK(z)
    BY <1>1, <2>2, <2>3 DEF RunsOK, Fresh
  <2>5. IssuesOK(z)
    BY <1>1, <2>3 DEF IssuesOK, RecordOK
  <2>6. Watched(f, z, vals)
    BY <1>1, <2>3 DEF Watched, Underway, Fresh
  <2> QED BY <1>1, <2>3, <2>4, <2>5, <2>6 DEF RecordOK, z
<1>3. CASE ~(Debounced /\ trigger = "change")
  <2>1. z = AutoRun(y, f, vals, throws)
    BY <1>3 DEF ScheduleValidation
  <2> HIDE DEF y
  <2> QED BY <1>1, <2>1, AutoRunOK
<1> QED BY <1>2, <1>3

(* validate(): when a rule throws to the caller, nothing has a verdict.    *)
LEMMA ValidatedOK ==
    ASSUME NEW f \in Fields, NEW x, RecordOK(f, x), NEW vals \in ValuesOf,
           NEW by \in {Runtime} \cup Callers, NEW throws
    PROVE  /\ RecordOK(f, Validated(x, f, vals, by, throws))
           /\ f \notin throws \/ ~x.parsed => Watched(f, Validated(x, f, vals, by, throws), vals)
           /\ Validated(x, f, vals, by, throws).value = x.value
           /\ Validated(x, f, vals, by, throws).parsed = x.parsed
<1> DEFINE y == NextGeneration(x)
           z == Validated(x, f, vals, by, throws)
<1>1. /\ RecordOK(f, y) /\ Fresh(y) /\ Quiet(y) /\ y.value = x.value
      /\ y.parsed = x.parsed
  BY NextGenerationOK
<1>2. CASE f \in throws /\ y.parsed
  BY <1>1, <1>2 DEF Validated
<1>3. CASE ~(f \in throws /\ y.parsed)
  <2>1. z = Execute(y, f, vals, by)
    BY <1>3 DEF Validated
  <2> HIDE DEF y
  <2> QED BY <1>1, <2>1, ExecuteOK
<1> QED BY <1>2, <1>3
-----------------------------------------------------------------------------
(* setValue: nothing is in flight any more, and a field without rules has  *)
(* nothing to wait for.                                                    *)
LEMMA EditedOK ==
    ASSUME NEW f \in Fields, NEW x, RecordOK(f, x), NEW v \in Values
    PROVE  /\ RecordOK(f, Edited(x, v)) /\ Edited(x, v).parsed
           /\ \A vals \in ValuesOf : f \notin Ruled => Watched(f, Edited(x, v), vals)
<1> DEFINE c == CancelActive(x)
           y == Edited(x, v)
<1>1. /\ RecordOK(f, c) /\ Quiet(c) /\ c \in FieldType
      /\ c.validation = x.validation /\ c.status = x.status
  BY CancelActiveOK, CancelActiveFields DEF RecordOK
<1>2. y = [c EXCEPT !.value = v, !.parsed = TRUE, !.server = {}, !.issues = c.validation,
                    !.status = IF c.validation = {} THEN "unvalidated" ELSE c.status]
  <2> HIDE DEF c
  <2>1. [c EXCEPT !.value = v, !.parsed = TRUE, !.server = {}, !.issues = x.validation,
                    !.status = IF x.validation = {} THEN "unvalidated" ELSE @]
        = [c EXCEPT !.value = v, !.parsed = TRUE, !.server = {}, !.issues = c.validation,
                    !.status = IF c.validation = {} THEN "unvalidated" ELSE c.status]
    BY <1>1
  <2> QED BY <2>1 DEF Edited, c
<1> HIDE DEF c, y
<1>3. y \in FieldType
  BY <1>1, <1>2 DEF FieldType
<1>4. /\ y.timer = c.timer /\ y.runs = c.runs /\ y.parsed /\ y.validation = c.validation
      /\ y.issues = c.validation /\ y.server = {} /\ y.pending = c.pending
      /\ y.status = (IF c.validation = {} THEN "unvalidated" ELSE c.status)
      /\ y.revision = c.revision /\ y.controller = c.controller
  <2>1. y.timer = c.timer /\ y.runs = c.runs /\ y.parsed /\ y.validation = c.validation
    BY <1>1, <1>2 DEF FieldType
  <2>2. y.issues = c.validation /\ y.server = {} /\ y.pending = c.pending
    BY <1>1, <1>2 DEF FieldType
  <2>3. y.status = IF c.validation = {} THEN "unvalidated" ELSE c.status
    BY <1>1, <1>2 DEF FieldType
  <2>4. y.revision = c.revision /\ y.controller = c.controller
    BY <1>1, <1>2 DEF FieldType
  <2> QED BY <2>1, <2>2, <2>3, <2>4
<1>5. RunsOK(y)
  BY <1>1, <1>4 DEF RunsOK, RecordOK
<1>6. IssuesOK(y)
  BY <1>1, <1>4 DEF IssuesOK, RecordOK
<1>7. RecordOK(f, y)
  BY <1>1, <1>3, <1>4, <1>5, <1>6 DEF RecordOK
<1>8. ASSUME NEW vals \in ValuesOf, f \notin Ruled PROVE Watched(f, y, vals)
  <2>1. ~SyncFails(f, vals) /\ ~Asks(f, vals)
    BY <1>8, RulesAssumption DEF ValuesOf
  <2> QED BY <1>1, <1>4, <1>7, <1>8, <2>1 DEF Watched, RecordOK, Passes
<1> QED BY <1>4, <1>7, <1>8 DEF y

(* setRawValue with something that does not parse.                         *)
LEMMA MisparsedOK ==
    ASSUME NEW f, NEW x, RecordOK(f, x)
    PROVE  /\ RecordOK(f, Misparsed(x)) /\ Misparsed(x).value = x.value
           /\ \A vals : Watched(f, Misparsed(x), vals)
           /\ ~Misparsed(x).parsed
<1> DEFINE c == CancelActive(x)
           y == Misparsed(x)
<1>1. /\ RecordOK(f, c) /\ Quiet(c) /\ c \in FieldType /\ c.value = x.value
  BY CancelActiveOK, CancelActiveFields DEF RecordOK
<1>2. y = [c EXCEPT !.parsed = FALSE, !.validation = {}, !.server = {}, !.issues = {"parse"},
                    !.status = "invalid", !.pending = FALSE]
  BY DEF Misparsed, c
<1> HIDE DEF c, y
<1>3. y \in FieldType
  BY <1>1, <1>2 DEF FieldType
<1>4. /\ y.timer = c.timer /\ y.runs = c.runs /\ ~y.parsed /\ y.validation = {}
      /\ y.issues = {"parse"} /\ y.server = {} /\ ~y.pending
      /\ y.status = "invalid" /\ y.value = c.value
      /\ y.revision = c.revision /\ y.controller = c.controller
  BY <1>1, <1>2, <1>3 DEF FieldType
<1>5. RunsOK(y)
  BY <1>1, <1>4 DEF RunsOK, RecordOK
<1>6. IssuesOK(y) /\ \A vals : Watched(f, y, vals)
  BY <1>1, <1>4 DEF IssuesOK, Watched
<1> QED BY <1>1, <1>3, <1>4, <1>5, <1>6 DEF RecordOK, y

LEMMA ResetOK ==
    ASSUME NEW f, NEW x, RecordOK(f, x)
    PROVE  /\ RecordOK(f, ResetRecord(x))
           /\ \A vals : Watched(f, ResetRecord(x), vals)
<1> DEFINE c == CancelActive(x)
           y == ResetRecord(x)
<1>1. /\ RecordOK(f, c) /\ Quiet(c) /\ c \in FieldType
  BY CancelActiveOK, CancelActiveFields DEF RecordOK
<1>2. y = [Untouched EXCEPT !.revision = c.revision, !.runs = c.runs]
  BY DEF ResetRecord, c
<1> HIDE DEF c, y
<1>3. Untouched \in FieldType
  BY FieldsAssumption DEF Untouched, FieldType
<1>4. y \in FieldType
  BY <1>1, <1>2, <1>3 DEF FieldType
<1>5. /\ y.timer = 0 /\ y.runs = c.runs /\ y.parsed /\ y.validation = {}
      /\ y.issues = {} /\ y.server = {} /\ ~y.pending /\ y.status = "unvalidated"
      /\ y.revision = c.revision /\ y.controller = 0
  BY <1>1, <1>2 DEF Untouched, FieldType
<1>6. RunsOK(y)
  BY <1>1, <1>5 DEF RunsOK, RecordOK
<1>7. IssuesOK(y) /\ \A vals : Watched(f, y, vals)
  BY <1>1, <1>5 DEF IssuesOK, Watched
<1> QED BY <1>4, <1>5, <1>6, <1>7 DEF RecordOK, y

LEMMA DisposeOK ==
    ASSUME NEW f, NEW x, RecordOK(f, x)
    PROVE  /\ RecordOK(f, DisposeRecord(x))
           /\ ~DisposeRecord(x).pending /\ DisposeRecord(x).timer = 0
<1> DEFINE c == CancelActive(x)
           y == DisposeRecord(x)
<1>1. /\ RecordOK(f, c) /\ Quiet(c) /\ c \in FieldType /\ c.timer = 0
  BY CancelActiveOK, CancelActiveFields DEF RecordOK
<1>2. y = [c EXCEPT !.pending = FALSE]
  BY DEF DisposeRecord, c
<1> HIDE DEF c, y
<1>3. y \in FieldType
  BY <1>1, <1>2 DEF FieldType
<1>4. /\ y.timer = 0 /\ y.runs = c.runs /\ y.parsed = c.parsed
      /\ y.validation = c.validation /\ y.issues = c.issues /\ y.server = c.server
      /\ ~y.pending /\ y.status = c.status
      /\ y.revision = c.revision /\ y.controller = c.controller
  BY <1>1, <1>2, <1>3 DEF FieldType
<1>5. RunsOK(y)
  BY <1>1, <1>4 DEF RunsOK, RecordOK
<1>6. IssuesOK(y)
  BY <1>1, <1>4 DEF IssuesOK, RecordOK
<1> QED BY <1>1, <1>3, <1>4, <1>5, <1>6 DEF RecordOK, y

(* Server issues touch neither the runs nor the verdict of a field.        *)
LEMMA ServingOK ==
    ASSUME NEW f, NEW x, RecordOK(f, x), NEW found \in SUBSET {"server"}
    PROVE  /\ RecordOK(f, Serving(x, found))
           /\ \A vals : Watched(f, x, vals) => Watched(f, Serving(x, found), vals)
           /\ Serving(x, found).value = x.value /\ Serving(x, found).parsed = x.parsed
           /\ Serving(x, found).pending = x.pending /\ Serving(x, found).timer = x.timer
           /\ Serving(x, found).runs = x.runs /\ Serving(x, found).server = found
           /\ Serving(x, found).revision = x.revision
<1> DEFINE issues == IF x.parsed THEN x.validation \cup found ELSE {"parse"}
           y == Serving(x, found)
<1>1. x \in FieldType
  BY DEF RecordOK
<1>2. y = [x EXCEPT !.server = found, !.issues = issues]
  BY DEF Serving
<1>3. issues \in SUBSET {"sync", "async", "error", "parse", "server"}
  BY <1>1 DEF FieldType
<1> HIDE DEF issues, y
<1>4. y \in FieldType
  BY <1>1, <1>2, <1>3 DEF FieldType
<1>5. /\ y.timer = x.timer /\ y.runs = x.runs /\ y.parsed = x.parsed
      /\ y.validation = x.validation /\ y.issues = issues /\ y.server = found
      /\ y.pending = x.pending /\ y.status = x.status /\ y.value = x.value
      /\ y.revision = x.revision /\ y.controller = x.controller /\ y.quit = x.quit
  BY <1>1, <1>2, <1>4 DEF FieldType
<1>6. RunsOK(y)
  BY <1>5 DEF RunsOK, RecordOK
<1>7. IssuesOK(y)
  BY <1>5 DEF IssuesOK, RecordOK, issues
<1>8. Latest(y) = Latest(x)
  BY <1>5 DEF Latest
<1>9. ASSUME NEW vals, Watched(f, x, vals) PROVE Watched(f, y, vals)
  BY <1>5, <1>8, <1>9 DEF Watched, Underway, Passes
<1> QED BY <1>4, <1>5, <1>6, <1>7, <1>9 DEF RecordOK, y
-----------------------------------------------------------------------------
(* A run that ends leaves the others as they are, and the controller when  *)
(* it is not its own.                                                      *)
LEMMA FinishOK ==
    ASSUME NEW f, NEW x, RecordOK(f, x), NEW r \in x.runs
    PROVE  /\ RecordOK(f, Finish(x, r))
           /\ \A vals : Watched(f, x, vals) /\ ~IsCurrent(x, r) =>
                Watched(f, Finish(x, r), vals)
           /\ Finish(x, r).value = x.value /\ Finish(x, r).parsed = x.parsed
           /\ Finish(x, r).pending = x.pending /\ Finish(x, r).timer = x.timer
           /\ Finish(x, r).runs = x.runs \ {r} /\ Finish(x, r).revision = x.revision
           /\ Finish(x, r).server = x.server /\ Finish(x, r).issues = x.issues
           /\ Finish(x, r).quit = x.quit
<1> DEFINE rest == IF x.controller = r.revision THEN 0 ELSE x.controller
           y == Finish(x, r)
<1>1. x \in FieldType /\ RunsOK(x) /\ rest \in Nat
  BY DEF RecordOK, FieldType
<1>2. y = [x EXCEPT !.controller = rest, !.runs = @ \ {r}]
  <2>1. [x EXCEPT !.controller = rest].runs = x.runs
    BY <1>1 DEF FieldType
  <2>2. ReleaseController(x, r) = [x EXCEPT !.controller = rest]
    BY DEF ReleaseController
  <2> HIDE DEF rest
  <2> QED BY <2>1, <2>2 DEF Finish
<1> HIDE DEF y
<1>3. rest = IF x.controller = r.revision THEN 0 ELSE x.controller
  OBVIOUS
<1> HIDE DEF rest
<1>4. y \in FieldType
  BY <1>1, <1>2 DEF FieldType
<1>5. /\ y.timer = x.timer /\ y.runs = x.runs \ {r} /\ y.parsed = x.parsed
      /\ y.validation = x.validation /\ y.issues = x.issues /\ y.server = x.server
      /\ y.pending = x.pending /\ y.status = x.status /\ y.value = x.value
      /\ y.revision = x.revision /\ y.controller = rest /\ y.quit = x.quit
  BY <1>1, <1>2, <1>4 DEF FieldType
<1>6. RunsOK(y)
  <2>1. \A q \in y.runs : InFlight(q) => q.revision = y.controller
    BY <1>1, <1>3, <1>5 DEF RunsOK
  <2>2. y.timer # 0 => y.controller = y.revision
    BY <1>1, <1>3, <1>5 DEF RunsOK
  <2> QED BY <1>1, <1>3, <1>5, <2>1, <2>2 DEF RunsOK
<1>7. IssuesOK(y)
  BY <1>5 DEF IssuesOK, RecordOK
<1>8. ASSUME NEW vals, Watched(f, x, vals), ~IsCurrent(x, r) PROVE Watched(f, y, vals)
  <2>1. Latest(y) = Latest(x)
    BY <1>5, <1>8 DEF Latest, IsCurrent
  <2> QED BY <1>5, <1>8, <2>1 DEF Watched, Underway, Passes
<1> QED BY <1>4, <1>5, <1>6, <1>7, <1>8 DEF RecordOK, y

(* The run that counts is the only one in flight, and nothing is due.      *)
LEMMA OnlyRun ==
    ASSUME NEW f, NEW x, RecordOK(f, x), NEW r \in x.runs, IsCurrent(x, r)
    PROVE  /\ x.timer = 0 /\ Quiet(Finish(x, r))
           /\ \A q \in x.runs \ {r} : ~InFlight(q)
           /\ InFlight(r) => x.parsed /\ x.pending
<1>1. x \in FieldType /\ RunsOK(x)
  BY DEF RecordOK
<1>2. x.timer = 0 /\ (InFlight(r) => x.parsed /\ x.pending)
  BY <1>1 DEF RunsOK, IsCurrent
<1>3. \A q \in x.runs \ {r} : ~InFlight(q)
  BY <1>1 DEF RunsOK, IsCurrent, FieldType, RunType
<1>4. Quiet(Finish(x, r))
  BY <1>3, FinishOK
<1> QED BY <1>2, <1>3, <1>4

(* Putting an answered run away and taking its verdict commute.            *)
LEMMA FinishSettles ==
    ASSUME NEW f, NEW x, RecordOK(f, x), NEW r, NEW found
    PROVE  Finish(Settle(x, found), r) = Settle(Finish(x, r), found)
<1> DEFINE mark == IF found = {} THEN "valid" ELSE "invalid"
           rest == IF x.controller = r.revision THEN 0 ELSE x.controller
           own == [x EXCEPT !.controller = rest, !.runs = @ \ {r}]
           seen == [x EXCEPT !.validation = found, !.issues = found \cup x.server,
                             !.status = mark, !.pending = FALSE]
<1>1. x \in FieldType
  BY DEF RecordOK
<1>2. Finish(x, r) = own /\ own.server = x.server
  BY <1>1 DEF Finish, ReleaseController, FieldType
<1>3. Settle(x, found) = seen
  BY DEF Settle, Commit
<1>4. seen.controller = x.controller /\ seen.runs = x.runs
  BY <1>1 DEF FieldType
<1>5. Finish(Settle(x, found), r) = [seen EXCEPT !.controller = rest, !.runs = @ \ {r}]
  BY <1>3, <1>4 DEF Finish, ReleaseController
<1>6. Settle(own, found) = [own EXCEPT !.validation = found, !.issues = found \cup x.server,
                                       !.status = mark, !.pending = FALSE]
  BY <1>2 DEF Settle, Commit
<1> HIDE DEF mark, rest
<1>7. [seen EXCEPT !.controller = rest, !.runs = @ \ {r}]
          = [own EXCEPT !.validation = found, !.issues = found \cup x.server,
                        !.status = mark, !.pending = FALSE]
  BY <1>1 DEF FieldType
<1> QED BY <1>2, <1>5, <1>6, <1>7

(* RuleResolves: the answer of a run that counts becomes the verdict.      *)
LEMMA AnsweredOK ==
    ASSUME NEW f, NEW x, RecordOK(f, x), NEW r \in x.runs, InFlight(r), IsCurrent(x, r),
           NEW found \in {{"async"}, {}}
    PROVE  /\ RecordOK(f, Finish(Settle(x, found), r))
           /\ \A vals : Watched(f, x, vals) /\ (r.fails <=> found # {}) =>
                Watched(f, Finish(Settle(x, found), r), vals)
           /\ Finish(Settle(x, found), r).value = x.value
<1> DEFINE y == Finish(x, r)
           z == Finish(Settle(x, found), r)
<1>1. /\ x \in FieldType /\ RecordOK(f, y) /\ Quiet(y) /\ y.timer = 0
      /\ y.parsed /\ y.value = x.value
  BY FinishOK, OnlyRun DEF RecordOK
<1>2. found \in Found
  BY DEF Found
<1>3. z = Settle(y, found)
  BY FinishSettles
<1> HIDE DEF y, z
<1>4. /\ RecordOK(f, z) /\ z.value = y.value
      /\ \A vals : found # {} \/ Accepts(f, vals) => Watched(f, z, vals)
  BY <1>1, <1>2, <1>3, SettleOK
<1>5. ASSUME NEW vals, Watched(f, x, vals), r.fails <=> found # {}
      PROVE  Watched(f, z, vals)
  BY <1>4, <1>5 DEF Watched, Accepts
<1> QED BY <1>1, <1>4, <1>5 DEF z

(* What the verdict leaves in the other fields of the record.              *)
LEMMA AnsweredFields ==
    ASSUME NEW f, NEW x, RecordOK(f, x), NEW r \in x.runs, InFlight(r), IsCurrent(x, r),
           NEW found
    PROVE  /\ Finish(Settle(x, found), r).runs = x.runs \ {r}
           /\ Finish(Settle(x, found), r).timer = 0
           /\ Finish(Settle(x, found), r).issues = found \cup x.server
           /\ Finish(Settle(x, found), r).revision = x.revision
           /\ Finish(Settle(x, found), r).value = x.value
<1> DEFINE y == Finish(x, r)
           z == Finish(Settle(x, found), r)
<1>1. /\ RecordOK(f, y) /\ y.timer = 0 /\ y.value = x.value /\ y.server = x.server
      /\ y.runs = x.runs \ {r} /\ y.revision = x.revision
  BY FinishOK, OnlyRun DEF RecordOK
<1>2. z = Settle(y, found)
  BY FinishSettles
<1> HIDE DEF y, z
<1>3. /\ z.runs = y.runs /\ z.timer = y.timer /\ z.value = y.value
      /\ z.issues = found \cup y.server /\ z.revision = y.revision
  BY <1>1, <1>2 DEF Settle, Commit, RecordOK, FieldType
<1> QED BY <1>1, <1>3 DEF z

(* RuleGivesUp: the same without an issue, whatever the rule would have    *)
(* said, and the field bears the mark of it.                               *)
LEMMA GivenUpOK ==
    ASSUME NEW f, NEW x, RecordOK(f, x), NEW r \in x.runs, InFlight(r), IsCurrent(x, r)
    PROVE  LET y == Finish([Settle(x, {}) EXCEPT !.quit = "rejected"], r)
           IN  /\ RecordOK(f, y) /\ y.value = x.value /\ y.quit = "rejected"
               /\ \A vals : Watched(f, x, vals) => Watched(f, y, vals)
               /\ y.timer = 0 /\ y.runs = x.runs \ {r} /\ y.revision = x.revision
<1> DEFINE y == Finish([Settle(x, {}) EXCEPT !.quit = "rejected"], r)
           w == Settle(x, {})
           z == Finish(w, r)
<1>1. x \in FieldType /\ x.timer = 0 /\ {} \in {{"async"}, {}}
  BY OnlyRun DEF RecordOK
<1>2. RecordOK(f, z) /\ z.value = x.value
  BY <1>1, AnsweredOK
<1>3. w \in FieldType /\ w.validation = {} /\ ~w.pending /\ w.status = "valid"
  BY <1>1 DEF Settle, Commit, FieldType
<1>4. z.runs = x.runs \ {r} /\ z.timer = 0 /\ z.revision = x.revision
  BY AnsweredFields
<1> HIDE DEF w
<1>5. y = [z EXCEPT !.quit = "rejected"] /\ ~z.pending
  <2> DEFINE v == [w EXCEPT !.quit = "rejected"]
             rest == IF w.controller = r.revision THEN 0 ELSE w.controller
  <2>1. v.controller = w.controller /\ v.runs = w.runs
    BY <1>3 DEF FieldType
  <2>2. /\ y = [v EXCEPT !.controller = rest, !.runs = w.runs \ {r}]
        /\ z = [w EXCEPT !.controller = rest, !.runs = w.runs \ {r}]
    <3>1. /\ [v EXCEPT !.controller = rest].runs = w.runs
          /\ [w EXCEPT !.controller = rest].runs = w.runs
      BY <1>3, <2>1 DEF FieldType
    <3>2. /\ ReleaseController(v, r) = [v EXCEPT !.controller = rest]
          /\ ReleaseController(w, r) = [w EXCEPT !.controller = rest]
      BY <2>1 DEF ReleaseController
    <3> HIDE DEF v, rest
    <3> QED BY <3>1, <3>2 DEF Finish, v, w
  <2> HIDE DEF rest
  <2>3. z.pending = w.pending /\ y = [z EXCEPT !.quit = "rejected"]
    BY <1>3, <2>2 DEF FieldType
  <2> QED BY <1>3, <2>3
<1>6. z \in FieldType /\ RunsOK(z) /\ IssuesOK(z)
  BY <1>2 DEF RecordOK
<1> HIDE DEF y, z
<1>7. /\ y \in FieldType /\ y.timer = z.timer /\ y.runs = z.runs
      /\ y.parsed = z.parsed /\ y.validation = z.validation /\ y.issues = z.issues
      /\ y.server = z.server /\ y.status = z.status /\ y.pending = z.pending
      /\ y.revision = z.revision /\ y.controller = z.controller /\ y.value = z.value
      /\ y.quit = "rejected"
  BY <1>5, <1>6 DEF FieldType
<1>8. RunsOK(y)
  BY <1>6, <1>7 DEF RunsOK
<1>9. RecordOK(f, y)
  <2>1. IssuesOK(y)
    BY <1>6, <1>7 DEF IssuesOK
  <2> QED BY <1>2, <1>7, <1>8, <2>1 DEF RecordOK
<1>10. ASSUME NEW vals, Watched(f, x, vals) PROVE Watched(f, y, vals)
  <2>1. ~SyncFails(f, vals)
    BY <1>10 DEF Watched
  <2>2. \A q \in y.runs : ~InFlight(q)
    BY <1>4, <1>7, OnlyRun
  <2> QED BY <1>5, <1>7, <2>1, <2>2 DEF Watched, Passes
<1> QED BY <1>2, <1>4, <1>7, <1>9, <1>10 DEF y

(* RuleRejects: the run that counts is over, and the runtime has its error *)
(* to catch.                                                               *)
Rejected(x, r) ==
    LET y == Finish(x, r)
    IN  [y EXCEPT !.pending = FALSE,
                  !.runs = IF r.by = Runtime THEN @ \cup {[r EXCEPT !.stage = "thrown"]} ELSE @]

LEMMA RejectedOK ==
    ASSUME NEW f, NEW x, RecordOK(f, x), NEW r \in x.runs, IsCurrent(x, r)
    PROVE  /\ RecordOK(f, Rejected(x, r))
           /\ \A vals : r.by = Runtime => Watched(f, Rejected(x, r), vals)
           /\ Rejected(x, r).value = x.value /\ Rejected(x, r).server = x.server
<1> DEFINE y == Finish(x, r)
           thrown == [r EXCEPT !.stage = "thrown"]
           left == IF r.by = Runtime THEN y.runs \cup {thrown} ELSE y.runs
           z == Rejected(x, r)
<1>1. /\ RecordOK(f, y) /\ Quiet(y) /\ y.timer = 0 /\ y.value = x.value
      /\ y.runs = x.runs \ {r} /\ y.revision = x.revision /\ y.server = x.server
  BY FinishOK, OnlyRun
<1>2. r \in RunType /\ x.runs \subseteq RunType /\ RunsOK(x) /\ RunsOK(y) /\ y \in FieldType
  BY <1>1 DEF RecordOK, FieldType
<1>3. /\ thrown \in RunType /\ thrown.stage = "thrown" /\ thrown.revision = r.revision
      /\ thrown.aborted = r.aborted
  BY <1>2 DEF RunType
<1>4. z = [y EXCEPT !.pending = FALSE, !.runs = left]
  <2>1. [y EXCEPT !.pending = FALSE].runs = y.runs
    BY <1>2 DEF FieldType
  <2> QED BY <2>1 DEF Rejected
<1> HIDE DEF y, thrown, z
<1>5. /\ left \subseteq RunType
      /\ \A q \in left : ~InFlight(q) /\ 1 <= q.revision /\ q.revision <= x.revision
      /\ \A q, o \in left : q.revision = o.revision => q = o
  BY <1>1, <1>2, <1>3 DEF RunsOK
<1>6. r.by = Runtime => thrown \in left
  OBVIOUS
<1> HIDE DEF left
<1>7. z \in FieldType
  BY <1>2, <1>4, <1>5 DEF FieldType
<1>8. /\ z.timer = y.timer /\ z.runs = left /\ z.parsed = y.parsed
      /\ z.validation = y.validation /\ z.issues = y.issues /\ z.server = y.server
      /\ ~z.pending /\ z.status = y.status /\ z.value = y.value
      /\ z.revision = y.revision /\ z.controller = y.controller
  BY <1>2, <1>4, <1>7 DEF FieldType
<1>9. RunsOK(z)
  BY <1>1, <1>2, <1>5, <1>8 DEF RunsOK
<1>10. IssuesOK(z)
  BY <1>1, <1>8 DEF IssuesOK, RecordOK
<1>11. ASSUME NEW vals, r.by = Runtime PROVE Watched(f, z, vals)
  <2>1. thrown \in Latest(z)
    BY <1>1, <1>3, <1>6, <1>8, <1>11 DEF Latest, IsCurrent
  <2> QED BY <1>5, <1>8, <2>1 DEF Watched, Underway
<1> QED BY <1>1, <1>7, <1>8, <1>9, <1>10, <1>11 DEF RecordOK, z

(* FailureCaught: what a rule of the runtime threw becomes an issue.       *)
LEMMA CaughtOK ==
    ASSUME NEW f, NEW x, RecordOK(f, x), NEW r \in x.runs, r.stage = "thrown"
    PROVE  LET y == [x EXCEPT !.runs = @ \ {r}]
               z == IF IsCurrent(x, r) THEN Settle(y, {"error"}) ELSE y
           IN  /\ RecordOK(f, y) /\ RecordOK(f, z)
               /\ \A vals : Watched(f, x, vals) => Watched(f, z, vals)
               /\ y.value = x.value /\ z.value = x.value
               /\ y.pending = x.pending /\ y.timer = x.timer
               /\ y.server = x.server /\ z.server = x.server
               /\ y.issues = x.issues /\ y.revision = x.revision /\ y.runs = x.runs \ {r}
               /\ y.quit = x.quit
<1> DEFINE y == [x EXCEPT !.runs = @ \ {r}]
           w == Settle(y, {"error"})
<1>1. x \in FieldType /\ RunsOK(x)
  BY DEF RecordOK
<1>2. y \in FieldType
  BY <1>1 DEF FieldType
<1>3. /\ y.timer = x.timer /\ y.runs = x.runs \ {r} /\ y.parsed = x.parsed
      /\ y.validation = x.validation /\ y.issues = x.issues /\ y.server = x.server
      /\ y.pending = x.pending /\ y.status = x.status /\ y.value = x.value
      /\ y.revision = x.revision /\ y.controller = x.controller /\ y.quit = x.quit
  BY <1>1 DEF FieldType
<1> HIDE DEF y
<1>4. RunsOK(y)
  BY <1>1, <1>3 DEF RunsOK
<1>5. RecordOK(f, y)
  <2>1. IssuesOK(y)
    BY <1>3 DEF IssuesOK, RecordOK
  <2> QED BY <1>2, <1>3, <1>4, <2>1 DEF RecordOK
<1>6. CASE IsCurrent(x, r)
  <2>1. Quiet(y) /\ y.timer = 0
    BY <1>3, <1>6, OnlyRun
  <2>2. {"error"} \in Found /\ {"error"} # {}
    BY DEF Found
  <2>3. RecordOK(f, w) /\ (\A vals : Watched(f, w, vals)) /\ w.value = y.value
    BY <1>5, <2>1, <2>2, SettleOK
  <2>4. w.server = y.server
    BY <1>2 DEF Settle, Commit, FieldType
  <2> HIDE DEF w
  <2> QED BY <1>3, <1>5, <1>6, <2>3, <2>4 DEF y, w
<1>7. CASE ~IsCurrent(x, r)
  <2>1. Latest(y) = Latest(x)
    BY <1>3, <1>7 DEF Latest, IsCurrent
  <2>2. ASSUME NEW vals, Watched(f, x, vals) PROVE Watched(f, y, vals)
    BY <1>3, <2>1, <2>2 DEF Watched, Underway, Passes
  <2> QED BY <1>3, <1>5, <1>7, <2>2 DEF y
<1> QED BY <1>6, <1>7
-----------------------------------------------------------------------------
(* The fields of a form, and the values they are judged by.                *)
FieldsOK(fs) == fs \in [Fields -> FieldType] /\ \A f \in Fields : RecordOK(f, fs[f])
AllWatched(fs, ex) == \A f \in Fields \ ex : Watched(f, fs[f], ValuesIn(fs))
Idle(fs) == \A f \in Fields : ~fs[f].pending /\ fs[f].timer = 0

LEMMA ValuesType == ASSUME NEW fs, FieldsOK(fs) PROVE ValuesIn(fs) \in ValuesOf
BY DEF FieldsOK, ValuesIn, ValuesOf, FieldType

(* A field becomes x.                                                      *)
LEMMA OneOK ==
    ASSUME NEW fs, FieldsOK(fs), NEW f \in Fields, NEW x, RecordOK(f, x)
    PROVE  FieldsOK([fs EXCEPT ![f] = x])
BY DEF FieldsOK, RecordOK

LEMMA SameValues ==
    ASSUME NEW fs, FieldsOK(fs), NEW gs, FieldsOK(gs),
           \A f \in Fields : gs[f].value = fs[f].value
    PROVE  ValuesIn(gs) = ValuesIn(fs)
BY DEF ValuesIn

LEMMA OneWatched ==
    ASSUME NEW fs, FieldsOK(fs), NEW f \in Fields, NEW x, RecordOK(f, x),
           x.value = fs[f].value, NEW ex, AllWatched(fs, ex), NEW new,
           f \in new \/ Watched(f, x, ValuesIn(fs)), ex \subseteq new \cup {f}
    PROVE  AllWatched([fs EXCEPT ![f] = x], new)
<1> DEFINE gs == [fs EXCEPT ![f] = x]
<1>1. FieldsOK(gs)
  BY OneOK
<1>2. gs[f] = x /\ \A g \in Fields \ {f} : gs[g] = fs[g]
  BY DEF FieldsOK
<1> HIDE DEF gs
<1>3. ValuesIn(gs) = ValuesIn(fs)
  BY <1>1, <1>2, SameValues
<1> QED BY <1>2, <1>3 DEF AllWatched, gs

(* What is said of a field stands while the fields it reads keep their     *)
(* values.                                                                 *)
LEMMA Unaffected ==
    ASSUME NEW g \in Fields, NEW vals \in ValuesOf, NEW other \in ValuesOf, NEW x,
           Watched(g, x, vals), \A h \in {g} \cup DependsOn[g] : other[h] = vals[h]
    PROVE  Watched(g, x, other)
<1>1. /\ SyncFails(g, other) <=> SyncFails(g, vals)
      /\ Asks(g, other) <=> Asks(g, vals)
      /\ AsyncFails(g, other) <=> AsyncFails(g, vals)
  BY RulesAssumption DEF ValuesOf
<1> QED BY <1>1 DEF Watched, Passes

(* collectValidationWave reaches whatever reads the field that changed.    *)
LEMMA WaveReaches ==
    ASSUME NEW f \in Fields, NEW g \in Fields, f \in DependsOn[g]
    PROVE  g \in Wave(f)
BY DEF Wave, DirectDependents

LEMMA PostMutationOK ==
    ASSUME NEW fs, FieldsOK(fs), NEW own, NEW f, NEW throws
    PROVE  /\ FieldsOK(PostMutation(fs, own, f, throws))
           /\ ValuesIn(PostMutation(fs, own, f, throws)) = ValuesIn(fs)
           /\ \A g \in Fields :
                IF g \in Revalidated(fs, own, f)
                THEN Watched(g, PostMutation(fs, own, f, throws)[g], ValuesIn(fs))
                ELSE PostMutation(fs, own, f, throws)[g] = fs[g]
<1> DEFINE gs == PostMutation(fs, own, f, throws)
           new(g) == ScheduleValidation(fs[g], g, ValuesIn(fs), "change", throws)
<1>1. ASSUME NEW g \in Fields
      PROVE  /\ gs[g] = IF g \in Revalidated(fs, own, f) THEN new(g) ELSE fs[g]
             /\ RecordOK(g, fs[g])
             /\ RecordOK(g, new(g)) /\ Watched(g, new(g), ValuesIn(fs))
             /\ new(g).value = fs[g].value
  <2>1. RecordOK(g, fs[g]) /\ ValuesIn(fs) \in ValuesOf
    BY ValuesType DEF FieldsOK
  <2>2. RecordOK(g, new(g)) /\ Watched(g, new(g), ValuesIn(fs)) /\ new(g).value = fs[g].value
    BY <2>1, ScheduleOK
  <2>3. gs[g] = IF g \in Revalidated(fs, own, f) THEN new(g) ELSE fs[g]
    BY DEF PostMutation
  <2> QED BY <2>1, <2>2, <2>3
<1> HIDE DEF new
<1>2. gs \in [Fields -> FieldType]
  <2>1. gs = [g \in Fields |-> gs[g]]
    BY DEF PostMutation
  <2>2. \A g \in Fields : gs[g] \in FieldType
    BY <1>1 DEF RecordOK
  <2> HIDE DEF gs
  <2> QED BY <2>1, <2>2
<1> HIDE DEF gs
<1>3. FieldsOK(gs)
  BY <1>1, <1>2 DEF FieldsOK
<1>4. ValuesIn(gs) = ValuesIn(fs)
  BY <1>1, <1>3, SameValues
<1> QED BY <1>1, <1>3, <1>4 DEF gs
-----------------------------------------------------------------------------
(* The inductive invariants.  The second one rests on validation on change:*)
(* without it an edit leaves a run of a dependent field to its old values. *)
FieldInv ==
    /\ FieldsOK(fields) /\ disposed \in BOOLEAN /\ excused \subseteq Fields
    /\ disposed => Idle(fields)
WatchInv == disposed \/ AllWatched(fields, excused)

LEMMA FieldInvInit == FInit => FieldInv /\ WatchInv
<1> SUFFICES ASSUME FInit PROVE FieldInv /\ WatchInv
  OBVIOUS
<1> DEFINE u == Untouched
<1>1. /\ u \in FieldType /\ u.timer = 0 /\ u.runs = {} /\ u.parsed /\ u.validation = {}
      /\ u.issues = {} /\ u.server = {} /\ ~u.pending /\ u.status = "unvalidated"
      /\ u.revision = 0 /\ u.controller = 0
  BY FieldsAssumption DEF Untouched, FieldType
<1> HIDE DEF u
<1>2. \A f \in Fields : RecordOK(f, u) /\ \A vals : Watched(f, u, vals)
  BY <1>1 DEF RecordOK, RunsOK, IssuesOK, Watched
<1>3. fields = [f \in Fields |-> u] /\ ~disposed /\ excused = {} /\ disposed \in BOOLEAN
  BY DEF FInit, u
<1> QED BY <1>1, <1>2, <1>3 DEF FieldInv, WatchInv, FieldsOK, AllWatched

(* f became x, and what depends on it was validated.                       *)
LEMMA ChangeInv ==
    ASSUME FieldInv, ~disposed, NEW f \in Fields, NEW x, RecordOK(f, x),
           NEW own \in SUBSET Fields, NEW throws,
           Change(f, x, own, throws), UNCHANGED disposed
    PROVE  FieldInv'
<1> DEFINE fs == [fields EXCEPT ![f] = x]
<1>1. FieldsOK(fs)
  BY OneOK DEF FieldInv
<1>2. fields' = PostMutation(fs, own, f, throws) /\ excused' \subseteq excused
  BY DEF Change
<1>3. FieldsOK(fields')
  BY <1>1, <1>2, PostMutationOK
<1> QED BY <1>2, <1>3 DEF FieldInv

LEMMA ChangeWatched ==
    ASSUME FieldInv, WatchInv, ~disposed, "change" \in ValidateOn,
           NEW f \in Fields, NEW x, RecordOK(f, x),
           NEW own \in SUBSET Fields, NEW throws,
           f \in own \/ \A vals \in ValuesOf : Watched(f, x, vals),
           Change(f, x, own, throws), UNCHANGED disposed
    PROVE  WatchInv'
<1> DEFINE fs == [fields EXCEPT ![f] = x]
           vals == ValuesIn(fields)
           wave == Revalidated(fs, own, f)
<1>1. FieldsOK(fs) /\ FieldsOK(fields)
  BY OneOK DEF FieldInv
<1>2. /\ fields' = PostMutation(fs, own, f, throws)
      /\ excused' = (excused \ wave) \ (IF x.parsed THEN {} ELSE {f})
  BY DEF Change
<1>3. fs[f] = x /\ \A g \in Fields \ {f} : fs[g] = fields[g]
  BY <1>1 DEF FieldsOK
<1>4. vals \in ValuesOf /\ ValuesIn(fs) \in ValuesOf
  BY <1>1, ValuesType
<1>5. \A g \in Fields \ {f} : ValuesIn(fs)[g] = vals[g]
  BY <1>3 DEF ValuesIn
<1>6. own \subseteq wave /\ Wave(f) \subseteq wave
  BY DEF Revalidated, Wave
<1>7. /\ ValuesIn(fields') = ValuesIn(fs)
      /\ \A g \in Fields : IF g \in wave THEN Watched(g, fields'[g], ValuesIn(fs))
                           ELSE fields'[g] = fs[g]
  <2> HIDE DEF fs
  <2> QED BY <1>1, <1>2, PostMutationOK
<1> HIDE DEF fs, vals, wave
<1>8. ASSUME NEW g \in Fields \ excused' PROVE Watched(g, fields'[g], ValuesIn(fs))
  <2>1. CASE g \in wave
    BY <1>7, <2>1
  <2>2. CASE g \notin wave /\ g = f
    BY <1>3, <1>4, <1>6, <1>7, <2>2
  <2>3. CASE g \notin wave /\ g # f
    <3>1. f \notin DependsOn[g]
      BY <1>6, <2>3, WaveReaches
    <3>2. \A h \in {g} \cup DependsOn[g] : ValuesIn(fs)[h] = vals[h]
      BY <1>5, <2>3, <3>1, FieldsAssumption
    <3>3. Watched(g, fields[g], vals)
      BY <1>2, <2>3 DEF WatchInv, AllWatched, vals
    <3>4. Watched(g, fields[g], ValuesIn(fs))
      BY <1>4, <3>2, <3>3, Unaffected
    <3> QED BY <1>3, <1>7, <2>3, <3>4
  <2> QED BY <2>1, <2>2, <2>3
<1> QED BY <1>7, <1>8 DEF WatchInv, AllWatched

(* A field becomes x, with the value it had.                               *)
LEMMA OneInv ==
    ASSUME FieldInv, NEW f \in Fields, NEW x, RecordOK(f, x),
           disposed => ~x.pending /\ x.timer = 0,
           fields' = [fields EXCEPT ![f] = x], excused' \subseteq Fields,
           UNCHANGED disposed
    PROVE  FieldInv'
<1>1. FieldsOK(fields')
  BY OneOK DEF FieldInv
<1>2. disposed' => Idle(fields')
  BY DEF FieldInv, Idle, FieldsOK
<1> QED BY <1>1, <1>2 DEF FieldInv

LEMMA OneWatchInv ==
    ASSUME FieldInv, WatchInv, NEW f \in Fields, NEW x, RecordOK(f, x),
           x.value = fields[f].value,
           disposed \/ f \in excused' \/ Watched(f, x, ValuesIn(fields)),
           fields' = [fields EXCEPT ![f] = x], excused \subseteq excused' \cup {f},
           UNCHANGED disposed
    PROVE  WatchInv'
BY OneWatched DEF FieldInv, WatchInv
-----------------------------------------------------------------------------
(* Every call, timer and answer keeps both.                                *)
LEMMA SetValueInv ==
    ASSUME FieldInv, NEW f \in Fields, NEW v \in Values, NEW throws,
           SetValue(f, v, throws)
    PROVE  FieldInv' /\ ("change" \in ValidateOn /\ WatchInv => WatchInv')
<1> DEFINE x == Edited(fields[f], v)
<1>1. RecordOK(f, fields[f])
  BY DEF FieldInv, FieldsOK
<1>2. RecordOK(f, x) /\ \A vals \in ValuesOf : f \notin Ruled => Watched(f, x, vals)
  BY <1>1, EditedOK
<1>3. /\ Change(f, x, OnChange(f), throws) /\ ~disposed /\ UNCHANGED disposed
      /\ OnChange(f) \in SUBSET Fields
  BY DEF SetValue, OnChange
<1>4. ASSUME "change" \in ValidateOn
      PROVE  f \in OnChange(f) \/ \A vals \in ValuesOf : Watched(f, x, vals)
  BY <1>2, <1>4 DEF OnChange
<1> HIDE DEF x
<1> QED BY <1>2, <1>3, <1>4, ChangeInv, ChangeWatched

LEMMA SetRawValueInv ==
    ASSUME FieldInv, NEW f \in Fields, NEW throws, SetRawValue(f, throws)
    PROVE  FieldInv' /\ ("change" \in ValidateOn /\ WatchInv => WatchInv')
<1> DEFINE x == Misparsed(fields[f])
<1>1. RecordOK(f, fields[f])
  BY DEF FieldInv, FieldsOK
<1>2. RecordOK(f, x) /\ \A vals \in ValuesOf : Watched(f, x, vals)
  BY <1>1, MisparsedOK
<1>3. Change(f, x, {}, throws) /\ ~disposed /\ UNCHANGED disposed /\ {} \in SUBSET Fields
  BY DEF SetRawValue
<1> HIDE DEF x
<1> QED BY <1>2, <1>3, ChangeInv, ChangeWatched

LEMMA BlurInv ==
    ASSUME FieldInv, NEW f \in Fields, NEW throws, Blur(f, throws)
    PROVE  FieldInv' /\ (WatchInv => WatchInv')
<1> DEFINE x == ScheduleValidation(fields[f], f, ValuesIn(fields), "blur", throws)
<1>1. RecordOK(f, fields[f]) /\ ValuesIn(fields) \in ValuesOf
  BY ValuesType DEF FieldInv, FieldsOK
<1>2. RecordOK(f, x) /\ Watched(f, x, ValuesIn(fields)) /\ x.value = fields[f].value
  BY <1>1, ScheduleOK
<1>3. /\ fields' = [fields EXCEPT ![f] = x] /\ ~disposed /\ UNCHANGED disposed
      /\ excused' = excused \ {f} /\ excused' \subseteq Fields
  BY DEF Blur, FieldInv
<1> HIDE DEF x
<1> QED BY <1>2, <1>3, OneInv, OneWatchInv

LEMMA ValidateInv ==
    ASSUME FieldInv, NEW f \in Fields, NEW throws, Validate(f, throws)
    PROVE  FieldInv' /\ (WatchInv => WatchInv')
<1> DEFINE x == Validated(fields[f], f, ValuesIn(fields), User, throws)
<1>1. /\ RecordOK(f, fields[f]) /\ ValuesIn(fields) \in ValuesOf
      /\ User \in {Runtime} \cup Callers
  BY ValuesType, ModesAssumption DEF FieldInv, FieldsOK
<1>2. /\ RecordOK(f, x) /\ x.value = fields[f].value
      /\ f \notin throws => Watched(f, x, ValuesIn(fields))
  BY <1>1, ValidatedOK
<1>3. /\ fields' = [fields EXCEPT ![f] = x] /\ ~disposed /\ UNCHANGED disposed
      /\ excused' = IF f \in throws THEN excused \cup {f} ELSE excused \ {f}
  BY DEF Validate
<1> HIDE DEF x
<1>4. /\ excused' \subseteq Fields /\ excused \subseteq excused' \cup {f}
      /\ f \in throws => f \in excused'
  BY <1>3 DEF FieldInv
<1> QED BY <1>2, <1>3, <1>4, OneInv, OneWatchInv

(* What the dependents of a field that was reset alone say is nobody's.    *)
LEMMA ResetFieldInv ==
    ASSUME FieldInv, NEW f \in Fields, ResetField(f)
    PROVE  FieldInv' /\ (WatchInv => WatchInv')
<1> DEFINE x == ResetRecord(fields[f])
<1>1. FieldsOK(fields) /\ ValuesIn(fields) \in ValuesOf
  BY ValuesType DEF FieldInv
<1>2. RecordOK(f, x) /\ \A vals : Watched(f, x, vals)
  BY <1>1, ResetOK DEF FieldsOK
<1>3. /\ fields' = [fields EXCEPT ![f] = x] /\ ~disposed /\ UNCHANGED disposed
      /\ excused' = (excused \ {f}) \cup DirectDependents(f)
  BY DEF ResetField
<1> HIDE DEF x
<1>4. excused' \subseteq Fields
  BY <1>3 DEF FieldInv, DirectDependents
<1>5. FieldInv'
  BY <1>2, <1>3, <1>4, OneInv
<1>6. ASSUME WatchInv, NEW g \in Fields \ excused'
      PROVE  Watched(g, fields'[g], ValuesIn(fields'))
  <2>1. fields'[f] = x /\ \A h \in Fields \ {f} : fields'[h] = fields[h]
    BY <1>1, <1>3 DEF FieldsOK
  <2>2. CASE g = f
    BY <1>2, <2>1, <2>2
  <2>3. CASE g # f
    <3>1. f \notin DependsOn[g] /\ g \notin excused
      BY <1>3, <1>6, <2>3 DEF DirectDependents
    <3>2. ValuesIn(fields') \in ValuesOf
      BY <1>5, ValuesType DEF FieldInv
    <3>3. \A h \in {g} \cup DependsOn[g] : ValuesIn(fields')[h] = ValuesIn(fields)[h]
      BY <2>1, <2>3, <3>1, FieldsAssumption DEF ValuesIn
    <3>4. Watched(g, fields[g], ValuesIn(fields))
      BY <1>3, <1>6, <3>1 DEF WatchInv, AllWatched
    <3> QED BY <1>1, <2>1, <2>3, <3>2, <3>3, <3>4, Unaffected
  <2> QED BY <2>2, <2>3
<1> QED BY <1>5, <1>6 DEF WatchInv, AllWatched

LEMMA ResetFieldsInv ==
    ASSUME FieldInv, ResetFields
    PROVE  FieldInv' /\ WatchInv'
<1>1. /\ fields' = [f \in Fields |-> ResetRecord(fields[f])] /\ excused' = {}
      /\ ~disposed /\ UNCHANGED disposed
  BY DEF ResetFields
<1>2. \A f \in Fields : /\ RecordOK(f, ResetRecord(fields[f]))
                       /\ \A vals : Watched(f, ResetRecord(fields[f]), vals)
  BY ResetOK DEF FieldInv, FieldsOK
<1>3. \A f \in Fields : RecordOK(f, fields'[f]) /\ \A vals : Watched(f, fields'[f], vals)
  BY <1>1, <1>2
<1>4. FieldsOK(fields')
  BY <1>1, <1>2 DEF FieldsOK, RecordOK
<1> QED BY <1>1, <1>3, <1>4 DEF FieldInv, WatchInv, AllWatched

LEMMA DisposeFormInv ==
    ASSUME FieldInv, DisposeForm
    PROVE  FieldInv' /\ WatchInv'
<1>1. fields' = [f \in Fields |-> DisposeRecord(fields[f])] /\ disposed' /\ UNCHANGED excused
      /\ disposed' \in BOOLEAN
  BY DEF DisposeForm
<1>2. \A f \in Fields : /\ RecordOK(f, DisposeRecord(fields[f]))
                       /\ ~DisposeRecord(fields[f]).pending
                       /\ DisposeRecord(fields[f]).timer = 0
  BY DisposeOK DEF FieldInv, FieldsOK
<1>3. FieldsOK(fields') /\ Idle(fields')
  BY <1>1, <1>2 DEF FieldsOK, RecordOK, Idle
<1> QED BY <1>1, <1>3 DEF FieldInv, WatchInv

LEMMA ServeInv ==
    ASSUME FieldInv, NEW f \in Fields, NEW found \in SUBSET {"server"}, Serve(f, found)
    PROVE  FieldInv' /\ (WatchInv => WatchInv')
<1> DEFINE x == Serving(fields[f], found)
<1>1. RecordOK(f, fields[f])
  BY DEF FieldInv, FieldsOK
<1>2. /\ RecordOK(f, x) /\ x.value = fields[f].value
      /\ \A vals : Watched(f, fields[f], vals) => Watched(f, x, vals)
  BY <1>1, ServingOK
<1>3. /\ fields' = [fields EXCEPT ![f] = x] /\ ~disposed /\ UNCHANGED <<disposed, excused>>
  BY DEF Serve
<1> HIDE DEF x
<1>4. FieldInv'
  BY <1>2, <1>3, OneInv DEF FieldInv
<1>5. ASSUME WatchInv PROVE WatchInv'
  <2>1. f \in excused' \/ Watched(f, x, ValuesIn(fields))
    BY <1>2, <1>3, <1>5 DEF WatchInv, AllWatched
  <2> QED BY <1>2, <1>3, <1>5, <2>1, OneWatchInv
<1> QED BY <1>4, <1>5

LEMMA TimerFiresInv ==
    ASSUME FieldInv, NEW f \in Fields, NEW throws, TimerFires(f, throws)
    PROVE  FieldInv' /\ (WatchInv => WatchInv')
<1> DEFINE w == fields[f]
           y == [w EXCEPT !.timer = 0]
           x == AutoRun(y, f, ValuesIn(fields), throws)
<1>1. /\ RecordOK(f, w) /\ w \in FieldType /\ RunsOK(w) /\ w.timer # 0
      /\ ValuesIn(fields) \in ValuesOf /\ ~disposed
  BY ValuesType DEF FieldInv, FieldsOK, RecordOK, TimerFires, Idle
<1>2. /\ fields' = [fields EXCEPT ![f] = x] /\ UNCHANGED disposed
      /\ excused' = excused \ {f} /\ excused' \subseteq Fields
  BY DEF TimerFires, FieldInv
<1> HIDE DEF w
<1>3. /\ y \in FieldType /\ y.timer = 0 /\ y.runs = w.runs /\ y.parsed = w.parsed
      /\ y.validation = w.validation /\ y.issues = w.issues /\ y.server = w.server
      /\ y.pending = w.pending /\ y.status = w.status /\ y.value = w.value
      /\ y.revision = w.revision /\ y.controller = w.controller
  BY <1>1 DEF FieldType
<1> HIDE DEF y
<1>4. RunsOK(y) /\ Fresh(y) /\ Quiet(y)
  BY <1>1, <1>3 DEF RunsOK, Fresh, FieldType, RunType
<1>5. IssuesOK(y)
  BY <1>1, <1>3 DEF IssuesOK, RecordOK
<1>6. RecordOK(f, y)
  BY <1>1, <1>3, <1>4, <1>5 DEF RecordOK
<1>7. RecordOK(f, x) /\ Watched(f, x, ValuesIn(fields)) /\ x.value = fields[f].value
  BY <1>1, <1>3, <1>4, <1>6, AutoRunOK DEF w
<1> HIDE DEF x
<1> QED BY <1>1, <1>2, <1>7, OneInv, OneWatchInv

LEMMA RuleResolvesInv ==
    ASSUME FieldInv, NEW f \in Fields, NEW r \in fields[f].runs, RuleResolves(f, r)
    PROVE  FieldInv' /\ (WatchInv => WatchInv')
<1> DEFINE w == fields[f]
           answer == IF r.fails THEN {"async"} ELSE {}
           x == Finish(IF Counts(f, r) THEN Settle(w, answer) ELSE w, r)
<1>1. /\ fields' = [fields EXCEPT ![f] = x] /\ UNCHANGED <<disposed, excused>>
      /\ r.stage = "asked"
  BY DEF RuleResolves
<1>2. RecordOK(f, w) /\ excused \subseteq Fields
  BY DEF FieldInv, FieldsOK
<1>3. disposed => ~w.pending /\ w.timer = 0
  BY DEF FieldInv, Idle
<1>4. WatchInv => f \in excused \/ disposed \/ Watched(f, w, ValuesIn(fields))
  BY DEF WatchInv, AllWatched
<1>5. CASE Counts(f, r)
  <2>1. InFlight(r) /\ IsCurrent(w, r) /\ ~disposed
    BY <1>1, <1>5 DEF Counts, IsCurrent
  <2>2. answer \in {{"async"}, {}} /\ (r.fails <=> answer # {})
    OBVIOUS
  <2>3. x = Finish(Settle(w, answer), r)
    BY <1>5
  <2> HIDE DEF x, w, answer
  <2>4. /\ RecordOK(f, x) /\ x.value = w.value
        /\ \A vals : Watched(f, w, vals) => Watched(f, x, vals)
    <3>1. r \in w.runs
      BY DEF w
    <3>2. /\ RecordOK(f, x) /\ x.value = w.value
          /\ \A vals : Watched(f, w, vals) /\ (r.fails <=> answer # {}) => Watched(f, x, vals)
      BY <1>2, <2>1, <2>2, <2>3, <3>1, AnsweredOK
    <3> QED BY <2>2, <3>2
  <2> QED BY <1>1, <1>2, <1>4, <2>1, <2>4, OneInv, OneWatchInv DEF w
<1>6. CASE ~Counts(f, r)
  <2>1. x = Finish(w, r)
    BY <1>6
  <2>2. ~IsCurrent(w, r) \/ disposed
    BY <1>6 DEF Counts
  <2> HIDE DEF x, answer
  <2>3. /\ RecordOK(f, x) /\ x.value = w.value /\ x.pending = w.pending /\ x.timer = w.timer
        /\ \A vals : Watched(f, w, vals) /\ ~IsCurrent(w, r) => Watched(f, x, vals)
    BY <1>2, <2>1, FinishOK
  <2> HIDE DEF w
  <2> QED BY <1>1, <1>2, <1>3, <1>4, <2>2, <2>3, OneInv, OneWatchInv DEF w
<1> QED BY <1>5, <1>6

LEMMA RuleRejectsInv ==
    ASSUME FieldInv, NEW f \in Fields, NEW r \in fields[f].runs, RuleRejects(f, r)
    PROVE  FieldInv' /\ (WatchInv => WatchInv')
<1> DEFINE w == fields[f]
           x == IF ~Counts(f, r) THEN Finish(w, r) ELSE Rejected(w, r)
<1>1. /\ fields' = [fields EXCEPT ![f] = x] /\ UNCHANGED disposed
      /\ excused' = IF Counts(f, r) /\ r.by # Runtime THEN excused \cup {f} ELSE excused
  BY DEF RuleRejects, Rejected
<1>2. RecordOK(f, w) /\ excused' \subseteq Fields /\ excused \subseteq excused'
  BY <1>1 DEF FieldInv, FieldsOK
<1>3. disposed => ~w.pending /\ w.timer = 0
  BY DEF FieldInv, Idle
<1>4. WatchInv => f \in excused \/ disposed \/ Watched(f, w, ValuesIn(fields))
  BY DEF WatchInv, AllWatched
<1>5. CASE Counts(f, r)
  <2>1. IsCurrent(w, r) /\ ~disposed /\ x = Rejected(w, r)
    BY <1>5 DEF Counts
  <2> HIDE DEF x
  <2>2. /\ RecordOK(f, x) /\ x.value = w.value
        /\ \A vals : r.by = Runtime => Watched(f, x, vals)
    BY <1>2, <2>1, RejectedOK
  <2>3. f \in excused' \/ Watched(f, x, ValuesIn(fields))
    BY <1>1, <1>5, <2>2
  <2> HIDE DEF w
  <2> QED BY <1>1, <1>2, <2>1, <2>2, <2>3, OneInv, OneWatchInv DEF w
<1>6. CASE ~Counts(f, r)
  <2>1. x = Finish(w, r) /\ (~IsCurrent(w, r) \/ disposed)
    BY <1>6 DEF Counts
  <2> HIDE DEF x
  <2>2. /\ RecordOK(f, x) /\ x.value = w.value /\ x.pending = w.pending /\ x.timer = w.timer
        /\ \A vals : Watched(f, w, vals) /\ ~IsCurrent(w, r) => Watched(f, x, vals)
    BY <1>2, <2>1, FinishOK
  <2> HIDE DEF w
  <2> QED BY <1>1, <1>2, <1>3, <1>4, <2>1, <2>2, OneInv, OneWatchInv DEF w
<1> QED BY <1>5, <1>6

LEMMA RuleGivesUpInv ==
    ASSUME FieldInv, NEW f \in Fields, NEW r \in fields[f].runs, RuleGivesUp(f, r)
    PROVE  FieldInv' /\ (WatchInv => WatchInv')
<1> DEFINE w == fields[f]
           y == [Settle(w, {}) EXCEPT !.quit = "rejected"]
           x == Finish(IF Counts(f, r) THEN y ELSE w, r)
<1>1. /\ fields' = [fields EXCEPT ![f] = x] /\ UNCHANGED <<disposed, excused>>
      /\ r.stage = "asked" /\ r \in w.runs
  BY DEF RuleGivesUp
<1>2. RecordOK(f, w) /\ excused \subseteq Fields
  BY DEF FieldInv, FieldsOK
<1>3. disposed => ~w.pending /\ w.timer = 0
  BY DEF FieldInv, Idle
<1>4. WatchInv => f \in excused \/ disposed \/ Watched(f, w, ValuesIn(fields))
  BY DEF WatchInv, AllWatched
<1>5. CASE Counts(f, r)
  <2>1. InFlight(r) /\ IsCurrent(w, r) /\ ~disposed
    BY <1>1, <1>5 DEF Counts, IsCurrent
  <2>2. x = Finish([Settle(w, {}) EXCEPT !.quit = "rejected"], r)
    BY <1>5
  <2> HIDE DEF x, w, y
  <2>3. /\ RecordOK(f, x) /\ x.value = w.value
        /\ \A vals : Watched(f, w, vals) => Watched(f, x, vals)
    BY <1>1, <1>2, <2>1, <2>2, GivenUpOK
  <2> QED BY <1>1, <1>2, <1>4, <2>1, <2>3, OneInv, OneWatchInv DEF w
<1>6. CASE ~Counts(f, r)
  <2>1. x = Finish(w, r)
    BY <1>6
  <2>2. ~IsCurrent(w, r) \/ disposed
    BY <1>6 DEF Counts
  <2> HIDE DEF x, y
  <2>3. /\ RecordOK(f, x) /\ x.value = w.value /\ x.pending = w.pending /\ x.timer = w.timer
        /\ \A vals : Watched(f, w, vals) /\ ~IsCurrent(w, r) => Watched(f, x, vals)
    BY <1>2, <2>1, FinishOK
  <2> HIDE DEF w
  <2> QED BY <1>1, <1>2, <1>3, <1>4, <2>2, <2>3, OneInv, OneWatchInv DEF w
<1> QED BY <1>5, <1>6

LEMMA FailureCaughtInv ==
    ASSUME FieldInv, NEW f \in Fields, NEW r \in fields[f].runs, FailureCaught(f, r)
    PROVE  FieldInv' /\ (WatchInv => WatchInv')
<1> DEFINE w == fields[f]
           y == [w EXCEPT !.runs = @ \ {r}]
           z == IF IsCurrent(w, r) THEN Settle(y, {"error"}) ELSE y
           x == IF Counts(f, r) THEN Settle(y, {"error"}) ELSE y
<1>1. /\ fields' = [fields EXCEPT ![f] = x] /\ UNCHANGED <<disposed, excused>>
      /\ r.stage = "thrown"
  BY DEF FailureCaught
<1>2. RecordOK(f, w) /\ excused \subseteq Fields
  BY DEF FieldInv, FieldsOK
<1>3. disposed => ~w.pending /\ w.timer = 0
  BY DEF FieldInv, Idle
<1>4. WatchInv => f \in excused \/ disposed \/ Watched(f, w, ValuesIn(fields))
  BY DEF WatchInv, AllWatched
<1>5. /\ RecordOK(f, y) /\ RecordOK(f, z) /\ y.value = w.value /\ z.value = w.value
      /\ y.pending = w.pending /\ y.timer = w.timer
      /\ \A vals : Watched(f, w, vals) => Watched(f, z, vals)
  BY <1>1, <1>2, CaughtOK
<1>6. x = IF disposed THEN y ELSE z
  BY DEF Counts
<1> HIDE DEF w, x, y, z
<1> QED BY <1>1, <1>2, <1>3, <1>4, <1>5, <1>6, OneInv, OneWatchInv DEF w
-----------------------------------------------------------------------------
LEMMA NextInv ==
    ASSUME FieldInv, [FNext]_fvars
    PROVE  FieldInv' /\ ("change" \in ValidateOn /\ WatchInv => WatchInv')
<1>1. CASE FieldCall
  BY <1>1, SetValueInv, SetRawValueInv, BlurInv, ValidateInv DEF FieldCall
<1>2. CASE FieldReset
  BY <1>2, ResetFieldsInv, ResetFieldInv DEF FieldReset
<1>3. CASE FieldEvent
  BY <1>3, TimerFiresInv, RuleResolvesInv, RuleRejectsInv, RuleGivesUpInv, FailureCaughtInv
     DEF FieldEvent
<1>4. CASE DisposeForm
  BY <1>4, DisposeFormInv
<1>5. ASSUME NEW f \in Fields, NEW found \in SUBSET {"server"}, Serve(f, found)
      PROVE  FieldInv' /\ (WatchInv => WatchInv')
  BY <1>5, ServeInv
<1>6. CASE UNCHANGED fvars
  BY <1>6 DEF fvars, FieldInv, WatchInv
<1> QED BY <1>1, <1>2, <1>3, <1>4, <1>5, <1>6 DEF FNext

(* What every field keeps of itself, whatever its rules answer and when:   *)
(* issues, flags, timers and runs under way agree at every step.           *)
THEOREM Invariance ==
    FSpec => []FieldInv
<1>1. FInit => FieldInv
  BY FieldInvInit
<1>2. FieldInv /\ [FNext]_fvars => FieldInv'
  BY NextInv
<1> QED BY <1>1, <1>2, PTL DEF FSpec

LEMMA WatchInvariance ==
    ASSUME "change" \in ValidateOn
    PROVE  FSpec => [](FieldInv /\ WatchInv)
<1>1. FInit => FieldInv /\ WatchInv
  BY FieldInvInit
<1>2. FieldInv /\ WatchInv /\ [FNext]_fvars => (FieldInv /\ WatchInv)'
  BY NextInv
<1> QED BY <1>1, <1>2, PTL DEF FSpec

(* The issues a field shows are always those of its parser, or what its    *)
(* validation and the server found, and a field with validation issues says*)
(* that it is invalid: for all rules, dependencies and triggers.           *)
THEOREM IssuesAlwaysAgree ==
    FSpec => []IssuesAgree
<1>1. FieldInv => IssuesAgree
  BY DEF FieldInv, FieldsOK, RecordOK, IssuesOK, IssuesAgree
<1> QED BY <1>1, Invariance, PTL

LEMMA FieldsTrue == FieldInv /\ WatchInv => IssuesAgree /\ PendingIsTrue /\ VerdictsHold
<1>1. FieldInv => IssuesAgree
  BY DEF FieldInv, FieldsOK, RecordOK, IssuesOK, IssuesAgree
<1>2. FieldInv => FTypeOK
  BY DEF FieldInv, FieldsOK, RecordOK, RunsOK, FTypeOK
<1>3. FieldInv => RunningIsPending
  BY DEF FieldInv, FieldsOK, RecordOK, RunsOK, RunningIsPending, Asked, Latest
<1>4. FieldInv /\ WatchInv => PendingIsRunning
  BY DEF FieldInv, WatchInv, AllWatched, Watched, Idle, PendingIsRunning
<1>5. FieldInv /\ WatchInv => VerdictsHold
  BY DEF WatchInv, AllWatched, Watched, VerdictsHold
<1> QED BY <1>1, <1>2, <1>3, <1>4, <1>5 DEF PendingIsTrue

(* A field that validates on change says pending exactly while a validation*)
(* that counts is under way.                                               *)
THEOREM PendingIsAlwaysTrue ==
    ASSUME "change" \in ValidateOn
    PROVE  FSpec => []PendingIsTrue
BY FieldsTrue, WatchInvariance, PTL

(* With validation on change, no late answer, edit, timer or change of a   *)
(* dependency leaves a field with a valid verdict on other values, unless a*)
(* rule itself threw or rejected with an AbortError.                       *)
THEOREM VerdictsAlwaysHold ==
    ASSUME "change" \in ValidateOn
    PROVE  FSpec => []VerdictsHold
BY FieldsTrue, WatchInvariance, PTL
-----------------------------------------------------------------------------
(* Submission.                                                             *)

(* A call that has been told to stop, or whose progress an older call hid. *)
Out(s) == subs[s].aborted \/ subs[s].hidden

SubsOK ==
    /\ subs \in [Submissions -> SubType]
    /\ \A s \in Submissions :
        /\ subs[s].phase = "over" <=> subs[s].outcome # "none"
        /\ subs[s].phase = "none" => ~subs[s].aborted
    /\ current \in Submissions \cup {None}
    /\ active \in InProgress \cup {None}
    /\ status \in {"idle", "validating", "submitting", "succeeded", "failed", "cancelled"}
    /\ formServer \subseteq {"server"}

(* Only the call that is current runs unasked; until it is told to stop its*)
(* controller is the active one and the status is a running one.  A running*)
(* status is that of the current call, which is then in progress, and an   *)
(* active controller is that of a call nobody has told to stop.            *)
ControlInv ==
    /\ active # None => active = current /\ ~subs[active].aborted /\ ~disposed
    /\ \A s \in InProgress : s # current => Out(s)
    /\ current \in InProgress /\ ~Out(current) => active = current /\ status \in Running
    /\ status \in Running /\ ~disposed =>
        /\ current \in InProgress /\ ~subs[current].aborted
        /\ status = "submitting" <=> current \in Acting

(* What holds of a field while s waits for its validation, vals being the  *)
(* values: what is in flight s has started, on vals, and the verdicts that *)
(* are in are on vals.                                                     *)
Judged(f, x, vals, s) ==
    /\ x.timer = 0
    /\ \A r \in x.runs : IsCurrent(x, r) => r.by = s /\ r.stage = "asked"
    /\ \A r \in x.runs : InFlight(r) =>
        ~SyncFails(f, vals) /\ (r.fails <=> AsyncFails(f, vals))
    /\ x.issues = {} /\ Quiet(x) => Passes(f, x, vals)

Waits(s) ==
    /\ subs[s].phase = "validating" /\ current = s /\ ~disposed
    /\ ~subs[s].edited /\ ~subs[s].overtaken /\ ~subs[s].aborted /\ ~subs[s].thrown

GateInv ==
    \A s \in Submissions : Waits(s) =>
        \A f \in Fields : Judged(f, fields[f], ValuesIn(fields), s)

USE DEF Out
-----------------------------------------------------------------------------
(* The operations on what the calls hold.                                  *)
Outcomes == {"none", "cancelled", "invalid", "threw", "succeeded", "server-invalid"}

LEMMA OverType ==
    ASSUME NEW x \in SubType, NEW o \in Outcomes
    PROVE  /\ Over(x, o) \in SubType /\ Over(x, o).phase = "over"
           /\ Over(x, o).outcome = o /\ Over(x, o).aborted = x.aborted
BY DEF SubType, Over, Outcomes

LEMMA MarkedType ==
    ASSUME NEW x \in SubType, NEW b \in BOOLEAN
    PROVE  /\ [x EXCEPT !.aborted = b] \in SubType /\ [x EXCEPT !.hidden = b] \in SubType
           /\ [x EXCEPT !.edited = b] \in SubType /\ [x EXCEPT !.overtaken = b] \in SubType
           /\ [x EXCEPT !.thrown = b] \in SubType
BY DEF SubType

LEMMA PhaseType ==
    ASSUME NEW x \in SubType, NEW q \in {"none", "validating", "acting", "over"}
    PROVE  [x EXCEPT !.phase = q] \in SubType
BY DEF SubType

LEMMA NotCalledType ==
    /\ NotCalled \in SubType /\ NotCalled.phase = "none" /\ NotCalled.outcome = "none"
    /\ ~NotCalled.aborted /\ ~NotCalled.hidden /\ ~NotCalled.edited /\ ~NotCalled.overtaken
    /\ ~NotCalled.thrown
BY DEF NotCalled, SubType

(* Abort raises one flag of one call.                                      *)
LEMMA AbortOK ==
    ASSUME NEW ss \in [Submissions -> SubType], NEW s \in Submissions \cup {None}
    PROVE  /\ Abort(ss, s) \in [Submissions -> SubType]
           /\ \A t \in Submissions :
                /\ Abort(ss, s)[t].phase = ss[t].phase
                /\ Abort(ss, s)[t].outcome = ss[t].outcome
                /\ Abort(ss, s)[t].hidden = ss[t].hidden
                /\ Abort(ss, s)[t].edited = ss[t].edited
                /\ Abort(ss, s)[t].overtaken = ss[t].overtaken
                /\ Abort(ss, s)[t].thrown = ss[t].thrown
                /\ ss[t].aborted \/ t = s => Abort(ss, s)[t].aborted
                /\ t # s => Abort(ss, s)[t] = ss[t]
<1>1. CASE s = None
  BY <1>1, SubmissionsAssumption DEF Abort
<1>2. CASE s # None
  <2>1. Abort(ss, s) = [ss EXCEPT ![s].aborted = TRUE] /\ s \in Submissions
    BY <1>2 DEF Abort
  <2>2. [ss[s] EXCEPT !.aborted = TRUE] \in SubType
    BY <2>1, MarkedType
  <2> QED BY <2>1, <2>2 DEF SubType
<1> QED BY <1>1, <1>2
-----------------------------------------------------------------------------
(* The rules of a field are run, or asked, for s.                          *)
LEMMA ExecuteJudged ==
    ASSUME NEW f \in Fields, NEW x, RecordOK(f, x), Fresh(x), Quiet(x),
           NEW vals \in ValuesOf, NEW s \in Callers
    PROVE  Judged(f, Execute(x, f, vals, s), vals, s)
<1> DEFINE y == Execute(x, f, vals, s)
           c == CancelActive(x)
<1>1. RecordOK(f, y) /\ Watched(f, y, vals)
  BY ExecuteOK
<1>2. x \in FieldType /\ RunsOK(x) /\ IssuesOK(x)
  BY DEF RecordOK
<1>3. \A r \in y.runs : InFlight(r) => ~SyncFails(f, vals) /\ (r.fails <=> AsyncFails(f, vals))
  BY <1>1 DEF Watched
<1>4. CASE ~x.parsed
  <2>1. y = x
    BY <1>4 DEF Execute
  <2>2. x.issues # {}
    BY <1>2, <1>4 DEF IssuesOK
  <2> HIDE DEF y
  <2> QED BY <1>3, <2>1, <2>2 DEF Judged, Fresh, IsCurrent, y
<1>5. ASSUME x.parsed, NEW found \in Found, found # {} \/ Accepts(f, vals),
             y = Settle(c, found)
      PROVE  Judged(f, y, vals, s)
  <2>1. c \in FieldType /\ c.timer = 0 /\ c.runs = Aborted(x) /\ c.revision = x.revision
    BY <1>2, CancelActiveFields
  <2> HIDE DEF c
  <2>2. /\ y.timer = 0 /\ y.runs = Aborted(x) /\ y.revision = x.revision
        /\ y.issues = found \cup c.server
    BY <1>5, <2>1 DEF Settle, Commit, FieldType
  <2> HIDE DEF y
  <2>3. \A r \in Aborted(x) : r.revision # x.revision
    BY <1>2, AbortedRuns DEF Fresh
  <2>4. \A r \in y.runs : ~IsCurrent(y, r)
    BY <2>2, <2>3 DEF IsCurrent
  <2>5. y.issues = {} => Passes(f, y, vals)
    BY <1>5, <2>2 DEF Accepts, Passes
  <2> QED BY <1>3, <2>2, <2>4, <2>5 DEF Judged, y
<1>6. CASE x.parsed /\ SyncFails(f, vals)
  <2>1. y = Settle(c, {"sync"}) /\ {"sync"} \in Found /\ {"sync"} # {}
    BY <1>6 DEF Execute, Found
  <2> QED BY <1>5, <1>6, <2>1
<1>7. CASE x.parsed /\ ~SyncFails(f, vals) /\ ~Asks(f, vals)
  <2>1. y = Settle(c, {}) /\ {} \in Found /\ Accepts(f, vals)
    BY <1>7 DEF Execute, Found, Accepts
  <2> QED BY <1>5, <1>7, <2>1
<1>8. CASE x.parsed /\ ~SyncFails(f, vals) /\ Asks(f, vals)
  <2> DEFINE run == Run(x, f, vals, s)
  <2>1. y = [x EXCEPT !.pending = TRUE, !.runs = @ \cup {run}]
    BY <1>8 DEF Execute
  <2>2. run.by = s /\ run.stage = "asked" /\ ~run.aborted
    BY DEF Run
  <2> HIDE DEF run
  <2>3. y.timer = 0 /\ y.runs = x.runs \cup {run} /\ y.revision = x.revision
    BY <1>2, <2>1 DEF FieldType, Fresh
  <2> HIDE DEF y
  <2> QED BY <1>3, <2>2, <2>3 DEF Judged, Fresh, IsCurrent, y
<1> QED BY <1>4, <1>6, <1>7, <1>8, <1>5

Cleared == [f \in Fields |-> Serving(fields[f], {})]

LEMMA ClearedOK ==
    ASSUME FieldInv
    PROVE  /\ FieldsOK(Cleared) /\ ValuesIn(Cleared) = ValuesIn(fields)
           /\ WatchInv /\ ~disposed => AllWatched(Cleared, excused)
<1>1. ASSUME NEW f \in Fields
      PROVE  /\ RecordOK(f, Cleared[f]) /\ Cleared[f].value = fields[f].value
             /\ \A vals : Watched(f, fields[f], vals) => Watched(f, Cleared[f], vals)
  <2>1. RecordOK(f, fields[f]) /\ {} \in SUBSET {"server"}
    BY DEF FieldInv, FieldsOK
  <2>2. Cleared[f] = Serving(fields[f], {})
    BY DEF Cleared
  <2> QED BY <2>1, <2>2, ServingOK
<1>2. FieldsOK(Cleared)
  <2>1. Cleared = [f \in Fields |-> Cleared[f]]
    BY DEF Cleared
  <2>2. \A f \in Fields : Cleared[f] \in FieldType
    BY <1>1 DEF RecordOK
  <2>3. Cleared \in [Fields -> FieldType]
    BY <2>1, <2>2
  <2> QED BY <1>1, <2>3 DEF FieldsOK
<1>3. ValuesIn(Cleared) = ValuesIn(fields)
  BY <1>1, <1>2, SameValues DEF FieldInv
<1> QED BY <1>1, <1>2, <1>3 DEF WatchInv, AllWatched

LEMMA ValidateTreeOK ==
    ASSUME NEW fs, FieldsOK(fs), NEW s \in Submissions, NEW throws
    PROVE  /\ FieldsOK(ValidateTree(fs, s, throws))
           /\ ValuesIn(ValidateTree(fs, s, throws)) = ValuesIn(fs)
           /\ \A ex : AllWatched(fs, ex) =>
                AllWatched(ValidateTree(fs, s, throws),
                           (ex \ Reached(fs, throws))
                             \cup (Throwers(fs, throws) \cap Reached(fs, throws)))
           /\ Throwers(fs, throws) = {} => \A f \in Fields :
                Judged(f, ValidateTree(fs, s, throws)[f], ValuesIn(fs), s)
<1> DEFINE vals == ValuesIn(fs)
           gs == ValidateTree(fs, s, throws)
           new(f) == Validated(fs[f], f, vals, s, throws)
<1>1. s \in Callers /\ s \in {Runtime} \cup Callers /\ vals \in ValuesOf
  BY SubmissionsAssumption, ValuesType
<1>2. gs = [f \in Fields |-> IF f \in Reached(fs, throws) THEN new(f) ELSE fs[f]]
  BY DEF ValidateTree
<1> HIDE DEF vals, gs
<1>3. ASSUME NEW f \in Fields
      PROVE  /\ RecordOK(f, new(f)) /\ new(f).value = fs[f].value
             /\ f \notin Throwers(fs, throws) =>
                    Watched(f, new(f), vals) /\ Judged(f, new(f), vals, s)
  <2> DEFINE x == fs[f]
             y == NextGeneration(x)
  <2>1. RecordOK(f, x)
    BY DEF FieldsOK
  <2>2. /\ RecordOK(f, y) /\ Fresh(y) /\ Quiet(y) /\ y.parsed = x.parsed
    BY <2>1, NextGenerationOK
  <2>3. /\ RecordOK(f, new(f)) /\ new(f).value = x.value
        /\ f \notin throws \/ ~x.parsed => Watched(f, new(f), vals)
    BY <1>1, <2>1, ValidatedOK
  <2>4. ASSUME f \notin throws \/ ~x.parsed PROVE Judged(f, new(f), vals, s)
    <3>1. new(f) = Execute(y, f, vals, s)
      BY <2>2, <2>4 DEF Validated
    <3> HIDE DEF y
    <3> QED BY <1>1, <2>2, <3>1, ExecuteJudged
  <2> QED BY <2>3, <2>4 DEF Throwers
<1> HIDE DEF new
<1>4. \A f \in Fields : RecordOK(f, fs[f]) /\ fs[f] \in FieldType
  BY DEF FieldsOK
<1>5. \A f \in Fields : /\ gs[f] = IF f \in Reached(fs, throws) THEN new(f) ELSE fs[f]
                       /\ RecordOK(f, gs[f]) /\ gs[f].value = fs[f].value
  BY <1>2, <1>3, <1>4
<1>6. FieldsOK(gs)
  <2>1. \A f \in Fields : new(f) \in FieldType
    BY <1>3 DEF RecordOK
  <2>2. gs \in [Fields -> FieldType]
    BY <1>2, <1>4, <2>1
  <2> QED BY <1>5, <2>2 DEF FieldsOK
<1>7. ValuesIn(gs) = vals
  BY <1>5, <1>6, SameValues DEF vals
<1>8. ASSUME NEW ex, AllWatched(fs, ex),
             NEW f \in Fields \ ((ex \ Reached(fs, throws))
                                  \cup (Throwers(fs, throws) \cap Reached(fs, throws)))
      PROVE  Watched(f, gs[f], vals)
  BY <1>3, <1>5, <1>8 DEF AllWatched, vals
<1>9. ASSUME Throwers(fs, throws) = {}, NEW f \in Fields PROVE Judged(f, gs[f], vals, s)
  <2>1. f \in Reached(fs, throws)
    BY <1>9 DEF Reached
  <2> QED BY <1>3, <1>5, <1>9, <2>1
<1> QED BY <1>6, <1>7, <1>8, <1>9 DEF AllWatched, gs, vals
-----------------------------------------------------------------------------
(* What a step does to the calls: one of them moves, the others keep where *)
(* they are and the flags they have.                                       *)
Keeps(t) ==
    /\ subs'[t].phase = subs[t].phase /\ subs'[t].outcome = subs[t].outcome
    /\ subs[t].aborted => subs'[t].aborted
    /\ subs[t].phase = "none" /\ ~subs[t].aborted => ~subs'[t].aborted
    /\ subs[t].hidden => subs'[t].hidden
    /\ subs[t].edited => subs'[t].edited
    /\ subs[t].overtaken => subs'[t].overtaken
    /\ subs[t].thrown => subs'[t].thrown
OnlyMoves(s) ==
    /\ subs' \in [Submissions -> SubType]
    /\ \A t \in Submissions \ {s} : Keeps(t)
Spares(s) == \A t \in Submissions \ {s} : subs'[t].aborted => subs[t].aborted
Ends(s) == subs'[s].phase = "over" /\ subs'[s].outcome # "none"
Enters(s, phase) == subs'[s].phase = phase /\ subs'[s].outcome = "none" /\ ~subs'[s].aborted

LEMMA SupersededOK ==
    ASSUME SubsOK
    PROVE  /\ Superseded \in [Submissions -> SubType]
           /\ \A t \in Submissions :
                /\ Superseded[t].phase = subs[t].phase
                /\ Superseded[t].outcome = subs[t].outcome
                /\ Superseded[t].hidden = subs[t].hidden
                /\ Superseded[t].edited = subs[t].edited
                /\ Superseded[t].overtaken = subs[t].overtaken
                /\ Superseded[t].thrown = subs[t].thrown
                /\ subs[t].aborted => Superseded[t].aborted
                /\ subs[t].phase = "none" => ~Superseded[t].aborted
                /\ status \in Running /\ t = active => Superseded[t].aborted
<1>1. /\ subs \in [Submissions -> SubType] /\ active \in Submissions \cup {None}
      /\ \A t \in Submissions : subs[t].phase = "none" => t # active /\ ~subs[t].aborted
  BY SubmissionsAssumption DEF SubsOK, InProgress, Validating, Acting
<1>2. CASE status \in Running
  BY <1>1, <1>2, AbortOK DEF Superseded
<1>3. CASE status \notin Running
  BY <1>1, <1>3 DEF Superseded
<1> QED BY <1>2, <1>3

(* submit() supersedes, and either ends at once or is what the form does.  *)
LEMMA SubmitMoves ==
    ASSUME SubsOK, NEW s \in Submissions, NEW policy, NEW way, NEW throws,
           Submit(s, policy, way, throws)
    PROVE  /\ OnlyMoves(s) /\ ~disposed /\ subs[s].phase = "none"
           /\ current' = s /\ formServer' = {} /\ UNCHANGED disposed
           /\ \A t \in Submissions \ {s} :
                status \in Running /\ t = active => subs'[t].aborted
           /\ \/ Ends(s) /\ active' = None /\ status' \in {"failed", "idle", "succeeded"}
              \/ Enters(s, "validating") /\ active' = s /\ status' = "validating"
              \/ Enters(s, "acting") /\ active' = s /\ status' = "submitting"
<1> DEFINE cleared == [f \in Fields |-> Serving(fields[f], {})]
           fs == ValidateTree(cleared, s, throws)
<1>1. /\ Superseded \in [Submissions -> SubType]
      /\ \A t \in Submissions :
                /\ Superseded[t].phase = subs[t].phase
                /\ Superseded[t].outcome = subs[t].outcome
                /\ Superseded[t].hidden = subs[t].hidden
                /\ Superseded[t].edited = subs[t].edited
                /\ Superseded[t].overtaken = subs[t].overtaken
                /\ Superseded[t].thrown = subs[t].thrown
                /\ subs[t].aborted => Superseded[t].aborted
                /\ subs[t].phase = "none" => ~Superseded[t].aborted
                /\ status \in Running /\ t = active => Superseded[t].aborted
  BY SupersededOK
<1>2. /\ ~disposed /\ subs[s].phase = "none" /\ current' = s /\ formServer' = {}
      /\ UNCHANGED disposed
      /\ \/ /\ subs' = [Superseded EXCEPT ![s] = Over(NotCalled, "threw")]
            /\ active' = None /\ status' = "failed"
         \/ /\ subs' = [Superseded EXCEPT ![s].phase = "validating"]
            /\ active' = s /\ status' = "validating"
         \/ Gate(s, NotCalled, Superseded, fs, {}, way)
  BY DEF Submit
<1>3. subs[s] \in SubType /\ (subs[s].phase = "over" <=> subs[s].outcome # "none")
  BY DEF SubsOK
<1> HIDE DEF fs, cleared
<1>4. ASSUME NEW y \in SubType, subs' = [Superseded EXCEPT ![s] = y]
      PROVE  /\ OnlyMoves(s) /\ subs'[s] = y
             /\ \A t \in Submissions \ {s} :
                    status \in Running /\ t = active => subs'[t].aborted
  BY <1>1, <1>4 DEF OnlyMoves, Keeps
<1>5. CASE /\ subs' = [Superseded EXCEPT ![s] = Over(NotCalled, "threw")]
           /\ active' = None /\ status' = "failed"
  <2>1. /\ Over(NotCalled, "threw") \in SubType /\ Over(NotCalled, "threw").phase = "over"
        /\ Over(NotCalled, "threw").outcome = "threw"
    BY NotCalledType, OverType DEF Outcomes
  <2> QED BY <1>2, <1>4, <1>5, <2>1 DEF Ends
<1>6. CASE /\ subs' = [Superseded EXCEPT ![s].phase = "validating"]
           /\ active' = s /\ status' = "validating"
  <2> DEFINE y == [Superseded[s] EXCEPT !.phase = "validating"]
  <2>1. y \in SubType /\ subs' = [Superseded EXCEPT ![s] = y]
    BY <1>1, <1>6, PhaseType
  <2>2. /\ y.phase = "validating" /\ y.outcome = Superseded[s].outcome
        /\ y.aborted = Superseded[s].aborted
    BY <1>1 DEF SubType
  <2> QED BY <1>1, <1>2, <1>3, <1>4, <1>6, <2>1, <2>2 DEF Enters
<1>7. CASE Gate(s, NotCalled, Superseded, fs, {}, way)
  <2>1. ~Stale(s, NotCalled)
    BY <1>2, NotCalledType DEF Stale
  <2>2. CASE Blocked(s, NotCalled, Superseded)
    <3>1. /\ Over(NotCalled, "invalid") \in SubType
          /\ Over(NotCalled, "invalid").phase = "over"
          /\ Over(NotCalled, "invalid").outcome = "invalid"
      BY NotCalledType, OverType DEF Outcomes
    <3> QED BY <1>2, <1>4, <2>2, <3>1 DEF Ends, Blocked
  <2>3. CASE Enter(s, NotCalled, Superseded, way)
    <3> DEFINE entered == [NotCalled EXCEPT !.phase = "acting"]
    <3>1. /\ entered \in SubType /\ entered.phase = "acting" /\ entered.outcome = "none"
          /\ ~entered.aborted
      BY NotCalledType DEF SubType
    <3>2. /\ Over(NotCalled, "succeeded") \in SubType
          /\ Over(NotCalled, "succeeded").phase = "over"
          /\ Over(NotCalled, "succeeded").outcome = "succeeded"
          /\ Over(NotCalled, "threw") \in SubType
          /\ Over(NotCalled, "threw").phase = "over"
          /\ Over(NotCalled, "threw").outcome = "threw"
      BY NotCalledType, OverType DEF Outcomes
    <3> HIDE DEF entered
    <3>3. \/ subs' = [Superseded EXCEPT ![s] = entered]
               /\ active' = s /\ status' = "submitting"
          \/ subs' = [Superseded EXCEPT ![s] = Over(NotCalled, "succeeded")]
               /\ active' = None /\ status' = "succeeded"
          \/ subs' = [Superseded EXCEPT ![s] = Over(NotCalled, "threw")]
               /\ active' = None /\ status' = "failed"
      BY <2>3 DEF Enter, entered
    <3> QED BY <1>2, <1>4, <3>1, <3>2, <3>3 DEF Ends, Enters
  <2> QED BY <1>7, <2>1, <2>2, <2>3 DEF Gate
<1> QED BY <1>2, <1>5, <1>6, <1>7

(* What a call does once its validation is answered: it gives way, is held *)
(* back, or goes on.                                                       *)
LEMMA AnsweredMoves ==
    ASSUME SubsOK, NEW s \in Submissions, NEW way, ValidationAnswered(s, way)
    PROVE  /\ OnlyMoves(s) /\ Spares(s) /\ subs[s].phase = "validating" /\ ~disposed
           /\ UNCHANGED <<current, formServer, fields, excused, disposed>>
           /\ \/ /\ Stale(s, subs[s]) /\ Ends(s) /\ subs'[s].outcome = "cancelled"
                 /\ active' = Released(s) /\ status' = "cancelled"
                 /\ current \in InProgress \ {s} => subs'[current].hidden
              \/ /\ ~Stale(s, subs[s]) /\ Ends(s) /\ active' = None
                 /\ status' \in {"failed", "idle", "succeeded"}
              \/ /\ ~Stale(s, subs[s]) /\ Enters(s, "acting")
                 /\ active' = s /\ status' = "submitting"
<1> DEFINE x == subs[s]
<1>1. /\ x.phase = "validating" /\ ~disposed
      /\ UNCHANGED <<current, formServer, fields, excused, disposed>>
      /\ Gate(s, x, subs, fields, formServer, way)
  BY DEF ValidationAnswered
<1>2. /\ subs \in [Submissions -> SubType] /\ x \in SubType /\ x.outcome = "none"
      /\ \A t \in InProgress : t \in Submissions
  BY <1>1 DEF SubsOK, InProgress, Validating, Acting
<1>3. ASSUME NEW y \in SubType, subs' = [subs EXCEPT ![s] = y]
      PROVE  OnlyMoves(s) /\ Spares(s) /\ subs'[s] = y
  BY <1>2, <1>3 DEF OnlyMoves, Keeps, Spares
<1> HIDE DEF x
<1>4. \A o \in Outcomes :
        Over(x, o) \in SubType /\ Over(x, o).phase = "over" /\ Over(x, o).outcome = o
  BY <1>2, OverType
<1>5. CASE Stale(s, x) /\ Cancelled(s, x, subs)
  <2> DEFINE told == [x EXCEPT !.aborted = x.aborted \/ active = s]
             hid(t) == [subs[t] EXCEPT !.hidden = subs[t].hidden \/ t \in InProgress]
  <2>1. (x.aborted \/ active = s) \in BOOLEAN
    BY Zenon
  <2>2. told \in SubType
    BY <1>2, <2>1, MarkedType
  <2> HIDE DEF told
  <2>3. /\ Over(told, "cancelled") \in SubType
        /\ Over(told, "cancelled").phase = "over"
        /\ Over(told, "cancelled").outcome = "cancelled"
    BY <2>2, OverType DEF Outcomes
  <2>4. ASSUME NEW t \in Submissions
        PROVE  /\ hid(t) \in SubType /\ hid(t).phase = subs[t].phase
               /\ hid(t).outcome = subs[t].outcome /\ hid(t).aborted = subs[t].aborted
               /\ hid(t).edited = subs[t].edited /\ hid(t).overtaken = subs[t].overtaken
               /\ hid(t).thrown = subs[t].thrown
               /\ subs[t].hidden \/ t \in InProgress => hid(t).hidden
    <3>1. (subs[t].hidden \/ t \in InProgress) \in BOOLEAN /\ subs[t] \in SubType
      BY <1>2, Zenon
    <3>2. hid(t) \in SubType
      BY <3>1, MarkedType
    <3> QED BY <3>1, <3>2 DEF SubType
  <2> HIDE DEF hid
  <2>5. subs' = [t \in Submissions |-> IF t = s THEN Over(told, "cancelled")
                                      ELSE IF t = current' THEN hid(t) ELSE subs[t]]
    BY <1>5 DEF Cancelled, told, hid
  <2>6. OnlyMoves(s) /\ Spares(s) /\ subs'[s] = Over(told, "cancelled")
    BY <1>2, <2>3, <2>4, <2>5 DEF OnlyMoves, Keeps, Spares
  <2>7. current \in InProgress \ {s} => subs'[current].hidden
    BY <1>1, <1>2, <2>4, <2>5
  <2>8. active' = Released(s) /\ status' = "cancelled"
    BY <1>5 DEF Cancelled
  <2> QED BY <1>1, <1>5, <2>3, <2>6, <2>7, <2>8 DEF Ends, x
<1>6. CASE ~Stale(s, x) /\ Blocked(s, x, subs)
  BY <1>1, <1>3, <1>4, <1>6 DEF Ends, Blocked, Outcomes, x
<1>7. CASE ~Stale(s, x) /\ Enter(s, x, subs, way)
  <2> DEFINE entered == [x EXCEPT !.phase = "acting"]
  <2>1. /\ entered \in SubType /\ entered.phase = "acting" /\ entered.outcome = "none"
        /\ entered.aborted = x.aborted
    BY <1>2 DEF SubType
  <2>2. ~x.aborted
    BY <1>7 DEF Stale
  <2> HIDE DEF entered
  <2>3. \/ subs' = [subs EXCEPT ![s] = entered]
               /\ active' = s /\ status' = "submitting"
        \/ subs' = [subs EXCEPT ![s] = Over(x, "succeeded")]
               /\ active' = None /\ status' = "succeeded"
        \/ subs' = [subs EXCEPT ![s] = Over(x, "threw")]
               /\ active' = None /\ status' = "failed"
    BY <1>7 DEF Enter, entered
  <2> QED BY <1>1, <1>3, <1>4, <1>7, <2>1, <2>2, <2>3 DEF Ends, Enters, Outcomes, x
<1> QED BY <1>1, <1>5, <1>6, <1>7 DEF Gate, x

(* A call that ends where it waited, or whose action ends.                 *)
LEMMA OverMoves ==
    ASSUME SubsOK, NEW s \in InProgress,
           NEW o \in {"cancelled", "threw", "succeeded", "server-invalid"},
           subs' = [subs EXCEPT ![s] = Over(@, o)]
    PROVE  OnlyMoves(s) /\ Spares(s) /\ Ends(s) /\ subs'[s].outcome = o
<1>1. subs \in [Submissions -> SubType] /\ s \in Submissions
  BY DEF SubsOK, InProgress, Validating, Acting
<1>2. Over(subs[s], o) \in SubType /\ Over(subs[s], o).phase = "over" /\ Over(subs[s], o).outcome = o
  BY <1>1, OverType DEF Outcomes
<1> QED BY <1>1, <1>2 DEF OnlyMoves, Keeps, Spares, Ends

(* cancelSubmit(), reset() and dispose() abort the active call.            *)
LEMMA AbortMoves ==
    ASSUME SubsOK, subs' = Abort(subs, active)
    PROVE  /\ subs' \in [Submissions -> SubType] /\ \A t \in Submissions : Keeps(t)
           /\ active \in InProgress => subs'[active].aborted
<1>1. /\ subs \in [Submissions -> SubType] /\ active \in Submissions \cup {None}
      /\ \A t \in Submissions : subs[t].phase = "none" => t # active
      /\ \A t \in InProgress : t \in Submissions
  BY SubmissionsAssumption DEF SubsOK, InProgress, Validating, Acting
<1>2. \A t \in Submissions :
                /\ subs'[t].phase = subs[t].phase
                /\ subs'[t].outcome = subs[t].outcome
                /\ subs'[t].hidden = subs[t].hidden
                /\ subs'[t].edited = subs[t].edited
                /\ subs'[t].overtaken = subs[t].overtaken
                /\ subs'[t].thrown = subs[t].thrown
                /\ subs[t].aborted \/ t = active => subs'[t].aborted
                /\ t # active => subs'[t] = subs[t]
  BY <1>1, AbortOK
<1>3. subs' \in [Submissions -> SubType]
  BY <1>1, AbortOK
<1> QED BY <1>1, <1>2, <1>3 DEF Keeps

(* Edits, validations and failures of rules mark the calls they concern.   *)
LEMMA FlagsMove ==
    ASSUME SubsOK, NEW marked,
           \/ subs' = [t \in Submissions |-> [subs[t] EXCEPT !.edited = @ \/ t \in marked]]
           \/ subs' = [t \in Submissions |-> [subs[t] EXCEPT !.overtaken = @ \/ t \in marked]]
           \/ subs' = [t \in Submissions |-> [subs[t] EXCEPT !.thrown = @ \/ t \in marked]]
    PROVE  /\ subs' \in [Submissions -> SubType]
           /\ \A t \in Submissions : Keeps(t) /\ (subs'[t].aborted => subs[t].aborted)
<1> DEFINE e(t) == subs[t].edited \/ t \in marked
           o(t) == subs[t].overtaken \/ t \in marked
           h(t) == subs[t].thrown \/ t \in marked
<1>1. \A t : e(t) \in BOOLEAN /\ o(t) \in BOOLEAN /\ h(t) \in BOOLEAN
  BY Zenon
<1>2. \A t : (subs[t].edited => e(t)) /\ (subs[t].overtaken => o(t)) /\ (subs[t].thrown => h(t))
  OBVIOUS
<1>3. \/ subs' = [t \in Submissions |-> [subs[t] EXCEPT !.edited = e(t)]]
      \/ subs' = [t \in Submissions |-> [subs[t] EXCEPT !.overtaken = o(t)]]
      \/ subs' = [t \in Submissions |-> [subs[t] EXCEPT !.thrown = h(t)]]
  OBVIOUS
<1> HIDE DEF e, o, h
<1>4. \A t \in Submissions : subs[t] \in SubType
  BY DEF SubsOK
<1>5. subs' \in [Submissions -> SubType]
  <2>1. \A t \in Submissions : /\ [subs[t] EXCEPT !.edited = e(t)] \in SubType
                              /\ [subs[t] EXCEPT !.overtaken = o(t)] \in SubType
                              /\ [subs[t] EXCEPT !.thrown = h(t)] \in SubType
    BY <1>1, <1>4, MarkedType
  <2> QED BY <1>3, <2>1
<1>6. ASSUME NEW t \in Submissions
      PROVE  Keeps(t) /\ (subs'[t].aborted => subs[t].aborted)
  <2>1. \/ subs'[t] = [subs[t] EXCEPT !.edited = e(t)]
        \/ subs'[t] = [subs[t] EXCEPT !.overtaken = o(t)]
        \/ subs'[t] = [subs[t] EXCEPT !.thrown = h(t)]
    BY <1>3
  <2> QED BY <1>1, <1>2, <1>4, <2>1 DEF Keeps, SubType
<1> QED BY <1>5, <1>6
-----------------------------------------------------------------------------
(* Every step keeps SubsOK and ControlInv.                                 *)
Control == SubsOK /\ ControlInv

LEMMA KeepsSubs ==
    ASSUME SubsOK, NEW s \in Submissions, OnlyMoves(s),
           Ends(s) \/ Enters(s, "validating") \/ Enters(s, "acting")
    PROVE  /\ \A t \in Submissions : /\ subs'[t].phase = "over" <=> subs'[t].outcome # "none"
                                     /\ subs'[t].phase = "none" => ~subs'[t].aborted
           /\ InProgress' \ {s} = InProgress \ {s}
           /\ Ends(s) => s \notin InProgress'
           /\ ~Ends(s) => s \in InProgress' /\ ~subs'[s].aborted
BY DEF SubsOK, OnlyMoves, Ends, Enters, Keeps, InProgress, Validating, Acting

LEMMA AllKeepSubs ==
    ASSUME SubsOK, subs' \in [Submissions -> SubType], \A t \in Submissions : Keeps(t)
    PROVE  /\ \A t \in Submissions : /\ subs'[t].phase = "over" <=> subs'[t].outcome # "none"
                                     /\ subs'[t].phase = "none" => ~subs'[t].aborted
           /\ InProgress' = InProgress /\ Acting' = Acting
BY DEF SubsOK, Keeps, InProgress, Validating, Acting

LEMMA SubmitControl ==
    ASSUME Control, NEW s \in Submissions, NEW policy, NEW way, NEW throws,
           Submit(s, policy, way, throws)
    PROVE  Control'
<1>1. /\ OnlyMoves(s) /\ ~disposed /\ subs[s].phase = "none"
      /\ current' = s /\ formServer' = {} /\ UNCHANGED disposed
      /\ \A t \in Submissions \ {s} :
                status \in Running /\ t = active => subs'[t].aborted
      /\ \/ Ends(s) /\ active' = None /\ status' \in {"failed", "idle", "succeeded"}
         \/ Enters(s, "validating") /\ active' = s /\ status' = "validating"
         \/ Enters(s, "acting") /\ active' = s /\ status' = "submitting"
  BY SubmitMoves DEF Control
<1>2. /\ \A t \in Submissions : /\ subs'[t].phase = "over" <=> subs'[t].outcome # "none"
                                /\ subs'[t].phase = "none" => ~subs'[t].aborted
      /\ InProgress' \ {s} = InProgress \ {s}
      /\ Ends(s) => s \notin InProgress'
      /\ ~Ends(s) => s \in InProgress' /\ ~subs'[s].aborted
  BY <1>1, KeepsSubs DEF Control
<1>3. (Ends(s) /\ active' = None) \/ (active' = s /\ s \in InProgress')
  BY <1>1, <1>2 DEF Ends, Enters
<1>4. SubsOK'
  BY <1>1, <1>2, <1>3 DEF SubsOK, OnlyMoves
<1>5. \A t \in InProgress' : t # current' => Out(t)'
  <2> SUFFICES ASSUME NEW t \in InProgress \ {s} PROVE Out(t)'
    BY <1>1, <1>2
  <2>1. t \in Submissions /\ Keeps(t)
    BY <1>1 DEF OnlyMoves, InProgress, Validating, Acting
  <2>2. CASE t # current
    BY <2>1, <2>2 DEF Control, ControlInv, Keeps
  <2>3. CASE t = current
    BY <1>1, <2>1, <2>3 DEF Control, ControlInv, Keeps
  <2> QED BY <2>2, <2>3
<1>6. (current \in InProgress /\ ~Out(current) => active = current /\ status \in Running)'
  BY <1>1, <1>2 DEF Running, Ends, Enters
<1>7. (status \in Running /\ ~disposed =>
        /\ current \in InProgress /\ ~subs[current].aborted
        /\ status = "submitting" <=> current \in Acting)'
  BY <1>1, <1>2 DEF Running, Ends, Enters, Acting
<1>8. (active # None => active = current /\ ~subs[active].aborted /\ ~disposed)'
  BY <1>1 DEF Enters
<1> QED BY <1>4, <1>5, <1>6, <1>7, <1>8 DEF Control, ControlInv

LEMMA AnsweredControl ==
    ASSUME Control, NEW s \in Submissions, NEW way, ValidationAnswered(s, way)
    PROVE  Control'
<1>1. /\ OnlyMoves(s) /\ Spares(s) /\ subs[s].phase = "validating" /\ ~disposed
      /\ UNCHANGED <<current, formServer, fields, excused, disposed>>
      /\ \/ /\ Stale(s, subs[s]) /\ Ends(s) /\ subs'[s].outcome = "cancelled"
            /\ active' = Released(s) /\ status' = "cancelled"
            /\ current \in InProgress \ {s} => subs'[current].hidden
         \/ /\ ~Stale(s, subs[s]) /\ Ends(s) /\ active' = None
            /\ status' \in {"failed", "idle", "succeeded"}
         \/ /\ ~Stale(s, subs[s]) /\ Enters(s, "acting")
            /\ active' = s /\ status' = "submitting"
  BY AnsweredMoves DEF Control
<1>2. /\ \A t \in Submissions : /\ subs'[t].phase = "over" <=> subs'[t].outcome # "none"
                                /\ subs'[t].phase = "none" => ~subs'[t].aborted
      /\ InProgress' \ {s} = InProgress \ {s}
      /\ Ends(s) => s \notin InProgress'
      /\ ~Ends(s) => s \in InProgress' /\ ~subs'[s].aborted
  BY <1>1, KeepsSubs DEF Control
<1>3. active' \in InProgress' \cup {None}
  BY <1>1, <1>2 DEF Ends, Enters, Released, Control, SubsOK
<1>4. SubsOK'
  BY <1>1, <1>2, <1>3 DEF SubsOK, OnlyMoves, Control
<1>5. s \in InProgress /\ (~Stale(s, subs[s]) => s = current)
  BY <1>1 DEF InProgress, Validating, Stale
<1>6. \A t \in InProgress' : t # current' => Out(t)'
  <2> SUFFICES ASSUME NEW t \in InProgress', t # current PROVE Out(t)'
    BY <1>1
  <2>1. CASE t = s
    BY <1>1, <1>2, <1>5, <2>1
  <2>2. CASE t # s
    <3>1. t \in Submissions /\ Keeps(t) /\ t \in InProgress
      BY <1>1, <1>2, <2>2 DEF OnlyMoves, InProgress, Validating, Acting
    <3> QED BY <3>1 DEF Control, ControlInv, Keeps
  <2> QED BY <2>1, <2>2
<1>7. (current \in InProgress /\ ~Out(current) => active = current /\ status \in Running)'
  <2>1. CASE Stale(s, subs[s])
    BY <1>1, <1>2, <2>1
  <2>2. CASE ~Stale(s, subs[s])
    BY <1>1, <1>2, <1>5, <2>2 DEF Running
  <2> QED BY <2>1, <2>2
<1>8. (status \in Running /\ ~disposed =>
        /\ current \in InProgress /\ ~subs[current].aborted
        /\ status = "submitting" <=> current \in Acting)'
  BY <1>1, <1>2, <1>5 DEF Running, Ends, Enters, Acting
<1>9. (active # None => active = current /\ ~subs[active].aborted /\ ~disposed)'
  <2>1. CASE Stale(s, subs[s])
    BY <1>1, <2>1 DEF Released, Spares, Control, ControlInv, SubsOK,
                      InProgress, Validating, Acting
  <2>2. CASE ~Stale(s, subs[s])
    BY <1>1, <1>5, <2>2 DEF Enters
  <2> QED BY <2>1, <2>2
<1> QED BY <1>4, <1>6, <1>7, <1>8, <1>9 DEF Control, ControlInv

(* A call in progress ends: for one that is not wanted the status stays.   *)
LEMMA OverControl ==
    ASSUME Control, NEW s \in InProgress, OnlyMoves(s), Spares(s), Ends(s),
           UNCHANGED <<current, disposed>>,
           \/ /\ current = s /\ ~subs[s].aborted /\ ~disposed /\ active' = Released(s)
              /\ status' \in {"succeeded", "cancelled", "failed"}
           \/ /\ current # s \/ subs[s].aborted \/ disposed
              /\ active' = Released(s) \/ UNCHANGED active
              /\ UNCHANGED status,
           formServer' \subseteq {"server"}
    PROVE  Control'
<1>0. s \in Submissions
  BY DEF InProgress, Validating, Acting
<1>2. /\ \A t \in Submissions : /\ subs'[t].phase = "over" <=> subs'[t].outcome # "none"
                                /\ subs'[t].phase = "none" => ~subs'[t].aborted
      /\ InProgress' = InProgress \ {s}
  <2>1. InProgress' \ {s} = InProgress \ {s} /\ s \notin InProgress'
    BY <1>0, KeepsSubs DEF Control
  <2> QED BY <1>0, <2>1, KeepsSubs DEF Control
<1>1. active' = Released(s)
  BY SubmissionsAssumption DEF Control, ControlInv, SubsOK, Released
<1>3. active' \in InProgress' \cup {None}
  BY <1>1, <1>2 DEF Released, Control, SubsOK
<1>4. SubsOK'
  BY <1>2, <1>3 DEF SubsOK, OnlyMoves, Control
<1>5. ASSUME NEW t \in InProgress'
      PROVE  /\ t \in InProgress /\ t # s /\ (Out(t) => Out(t)')
             /\ subs'[t].phase = subs[t].phase
             /\ subs'[t].aborted => subs[t].aborted
    BY <1>2, <1>5 DEF OnlyMoves, Spares, Keeps, InProgress, Validating, Acting
<1>6. \A t \in InProgress' : t # current' => Out(t)'
  BY <1>5 DEF Control, ControlInv
<1>7. (current \in InProgress /\ ~Out(current) => active = current /\ status \in Running)'
  BY <1>1, <1>5 DEF Control, ControlInv, Released
<1>8. (status \in Running /\ ~disposed =>
        /\ current \in InProgress /\ ~subs[current].aborted
        /\ status = "submitting" <=> current \in Acting)'
  <2>1. CASE current = s
    BY <2>1 DEF Control, ControlInv, Running
  <2>2. CASE current # s
    <3> SUFFICES ASSUME status \in Running, ~disposed
                 PROVE  (/\ current \in InProgress /\ ~subs[current].aborted
                         /\ status = "submitting" <=> current \in Acting)'
      BY <2>2
    <3>1. /\ current \in InProgress /\ ~subs[current].aborted
          /\ status = "submitting" <=> current \in Acting
      BY DEF Control, ControlInv
    <3>2. current' = current /\ current \in InProgress' /\ status' = status
      BY <1>2, <2>2, <3>1
    <3>3. current \in Submissions /\ subs'[current].phase = subs[current].phase
      BY <1>5, <3>1, <3>2 DEF InProgress, Validating, Acting
    <3>4. ~subs'[current].aborted
      BY <1>5, <3>1, <3>2
    <3> QED BY <3>1, <3>2, <3>3, <3>4 DEF Acting
  <2> QED BY <2>1, <2>2
<1>9. (active # None => active = current /\ ~subs[active].aborted /\ ~disposed)'
  BY <1>0, <1>1, <1>5 DEF Released, Spares, Control, ControlInv, SubsOK,
                          InProgress, Validating, Acting
<1> QED BY <1>4, <1>6, <1>7, <1>8, <1>9 DEF Control, ControlInv

LEMMA ThrewControl ==
    ASSUME Control, NEW s \in Submissions, ValidationThrew(s) PROVE Control'
<1>1. /\ s \in InProgress /\ subs' = [subs EXCEPT ![s] = Over(@, "threw")]
      /\ UNCHANGED <<current, disposed, formServer>>
      /\ IF current = s /\ ~subs[s].aborted /\ ~disposed
         THEN status' = "failed" /\ active' = Released(s)
         ELSE UNCHANGED <<status, active>>
  BY DEF ValidationThrew, InProgress, Validating
<1>2. OnlyMoves(s) /\ Spares(s) /\ Ends(s)
  BY <1>1, OverMoves DEF Control
<1>3. formServer' \subseteq {"server"}
  BY <1>1 DEF Control, SubsOK
<1>4. CASE current = s /\ ~subs[s].aborted /\ ~disposed
  BY <1>1, <1>2, <1>3, <1>4, OverControl
<1>5. CASE ~(current = s /\ ~subs[s].aborted /\ ~disposed)
  BY <1>1, <1>2, <1>3, <1>5, OverControl
<1> QED BY <1>4, <1>5

LEMMA IgnoredControl ==
    ASSUME Control, NEW s \in Submissions, ActionIgnored(s) PROVE Control'
<1>1. /\ s \in InProgress /\ subs' = [subs EXCEPT ![s] = Over(@, "cancelled")]
      /\ UNCHANGED <<current, disposed, formServer, status>> /\ active' = Released(s)
      /\ current # s \/ subs[s].aborted \/ disposed
  BY DEF ActionIgnored, Unwanted, InProgress, Acting
<1>2. OnlyMoves(s) /\ Spares(s) /\ Ends(s)
  BY <1>1, OverMoves DEF Control
<1>3. formServer' \subseteq {"server"}
  BY <1>1 DEF Control, SubsOK
<1> QED BY <1>1, <1>2, <1>3, OverControl

LEMMA EndsControl ==
    ASSUME Control, NEW s \in Submissions,
           NEW o \in {"cancelled", "threw", "succeeded", "server-invalid"}, ActionEnds(s, o),
           formServer' \subseteq {"server"}
    PROVE  Control'
<1>1. /\ s \in InProgress /\ subs' = [subs EXCEPT ![s] = Over(@, o)]
      /\ UNCHANGED <<current, disposed>> /\ active' = Released(s)
      /\ current = s /\ ~subs[s].aborted /\ ~disposed
      /\ status' \in {"succeeded", "cancelled", "failed"}
  BY DEF ActionEnds, Unwanted, InProgress, Acting
<1>2. OnlyMoves(s) /\ Spares(s) /\ Ends(s)
  BY <1>1, OverMoves DEF Control
<1> QED BY <1>1, <1>2, OverControl

(* The form takes its submission back.                                     *)
LEMMA AbortControl ==
    ASSUME Control, subs' = Abort(subs, active), active' = None, current' = None,
           \/ status' \in {"idle", "cancelled"}
           \/ UNCHANGED status /\ disposed',
           formServer' \subseteq {"server"}
    PROVE  Control'
<1>1. /\ subs' \in [Submissions -> SubType] /\ \A t \in Submissions : Keeps(t)
      /\ active \in InProgress => subs'[active].aborted
  BY AbortMoves DEF Control
<1>2. /\ \A t \in Submissions : /\ subs'[t].phase = "over" <=> subs'[t].outcome # "none"
                                /\ subs'[t].phase = "none" => ~subs'[t].aborted
      /\ InProgress' = InProgress
  BY <1>1, AllKeepSubs DEF Control
<1>3. SubsOK'
  BY <1>1, <1>2 DEF SubsOK, Control
<1>4. \A t \in InProgress' : Out(t)'
  <2> SUFFICES ASSUME NEW t \in InProgress PROVE Out(t)'
    BY <1>2
  <2>1. t \in Submissions /\ Keeps(t)
    BY <1>1 DEF InProgress, Validating, Acting
  <2>2. CASE Out(t)
    BY <2>1, <2>2 DEF Keeps
  <2>3. CASE ~Out(t)
    BY <1>1, <2>3 DEF Control, ControlInv
  <2> QED BY <2>2, <2>3
<1>5. None \notin InProgress' /\ (status' \in Running => disposed')
  BY SubmissionsAssumption DEF InProgress, Validating, Acting, Running, Control, ControlInv
<1> QED BY <1>3, <1>4, <1>5 DEF Control, ControlInv

(* Calls are marked, and nothing else of them changes.                     *)
LEMMA FlagsControl ==
    ASSUME Control, UNCHANGED <<coordinator, disposed>>,
           subs' \in [Submissions -> SubType],
           \A t \in Submissions : Keeps(t) /\ (subs'[t].aborted => subs[t].aborted)
    PROVE  Control'
<1>1. /\ \A t \in Submissions : /\ subs'[t].phase = "over" <=> subs'[t].outcome # "none"
                                /\ subs'[t].phase = "none" => ~subs'[t].aborted
      /\ InProgress' = InProgress /\ Acting' = Acting
  BY AllKeepSubs DEF Control
<1>2. UNCHANGED <<current, active, status, formServer, disposed>>
  BY DEF coordinator
<1>3. SubsOK'
  BY <1>1, <1>2 DEF SubsOK, Control
<1>4. \A t \in InProgress : t \in Submissions
  BY DEF InProgress, Validating, Acting
<1>5. \A t \in InProgress : (Out(t) => Out(t)') /\ (subs'[t].aborted => subs[t].aborted)
  BY <1>4 DEF Keeps
<1>6. active # None => active \in InProgress
  BY DEF Control, SubsOK
<1> QED BY <1>1, <1>2, <1>3, <1>5, <1>6 DEF Control, ControlInv

LEMMA MarkingKeeps ==
    ASSUME SubsOK, Edit \/ Overtake \/ RuleFails
    PROVE  /\ subs' \in [Submissions -> SubType]
           /\ \A t \in Submissions : Keeps(t) /\ (subs'[t].aborted => subs[t].aborted)
<1>1. CASE Edit
  <2>1. subs' = [t \in Submissions |-> [subs[t] EXCEPT !.edited = @ \/ t \in Validating]]
    BY <1>1 DEF Edit
  <2> QED BY <2>1, FlagsMove
<1>2. CASE Overtake
  <2>1. subs' = [t \in Submissions |-> [subs[t] EXCEPT !.overtaken = @ \/ t \in Validating]]
    BY <1>2 DEF Overtake
  <2> QED BY <2>1, FlagsMove
<1>3. CASE RuleFails
  <2>1. PICK f \in Fields : \E r \in fields[f].runs :
           /\ RuleRejects(f, r)
           /\ subs' = [t \in Submissions |->
                        [subs[t] EXCEPT !.thrown = @ \/ (r.by = t /\ Counts(f, r))]]
    BY <1>3 DEF RuleFails
  <2>2. PICK r \in fields[f].runs :
           subs' = [t \in Submissions |->
                        [subs[t] EXCEPT !.thrown = @ \/ (r.by = t /\ Counts(f, r))]]
    BY <2>1
  <2> DEFINE marked == {t \in Submissions : r.by = t /\ Counts(f, r)}
  <2>3. subs' = [t \in Submissions |-> [subs[t] EXCEPT !.thrown = @ \/ t \in marked]]
    BY <2>2, Zenon
  <2> HIDE DEF marked
  <2> QED BY <2>3, FlagsMove
<1> QED BY <1>1, <1>2, <1>3

LEMMA InitControl == SInit => Control
<1> SUFFICES ASSUME SInit PROVE Control
  OBVIOUS
<1>1. /\ subs = [s \in Submissions |-> NotCalled] /\ current = None /\ active = None
      /\ status = "idle" /\ formServer = {}
  BY DEF SInit
<1>2. SubsOK
  BY <1>1, NotCalledType DEF SubsOK
<1>3. InProgress = {}
  BY <1>1, NotCalledType DEF InProgress, Validating, Acting
<1>4. ControlInv
  BY <1>1, <1>3, SubmissionsAssumption DEF ControlInv, Running
<1> QED BY <1>2, <1>4 DEF Control

LEMMA NextControl == ASSUME Control, [SNext]_svars PROVE Control'
<1>1. ASSUME NEW s \in Submissions, NEW policy \in Policies, NEW way \in Ways,
             NEW throws \in SUBSET Throwing, Submit(s, policy, way, throws)
      PROVE  Control'
  BY <1>1, SubmitControl
<1>2. ASSUME NEW s \in Submissions, NEW way \in Ways, ValidationAnswered(s, way)
      PROVE  Control'
  BY <1>2, AnsweredControl
<1>3. ASSUME NEW s \in Submissions, ValidationThrew(s) \/ ActionIgnored(s)
      PROVE  Control'
  BY <1>3, ThrewControl, IgnoredControl
<1>4. ASSUME NEW s \in Submissions, ActionSettles(s) PROVE Control'
  <2>1. formServer' \subseteq {"server"}
    BY <1>4 DEF ActionSettles, Control, SubsOK
  <2> QED BY <1>4, <2>1, EndsControl DEF ActionSettles
<1>5. ASSUME NEW s \in Submissions, ServerRejects(s) PROVE Control'
  <2>1. formServer' \subseteq {"server"} /\ ActionEnds(s, "server-invalid")
    BY <1>5 DEF ServerRejects
  <2> QED BY <2>1, EndsControl
<1>6. CASE CancelSubmit
  BY <1>6, AbortControl DEF CancelSubmit, Control, SubsOK
<1>7. CASE Reset
  BY <1>7, AbortControl DEF Reset
<1>8. CASE Dispose
  <2>1. formServer' \subseteq {"server"} /\ disposed'
    BY <1>8 DEF Dispose, DisposeForm, Control, SubsOK
  <2> QED BY <1>8, <2>1, AbortControl DEF Dispose
<1>9. CASE Edit \/ Overtake \/ RuleFails
  <2>1. UNCHANGED <<coordinator, disposed>>
    BY <1>9 DEF Edit, SetRawValue, SetValue, Overtake, ResetField, Blur, Validate,
                RuleFails, RuleRejects
  <2> QED BY <1>9, <2>1, MarkingKeeps, FlagsControl DEF Control
<1>12. CASE OtherEvent
  <2>1. UNCHANGED <<subs, coordinator, disposed>>
    BY <1>12 DEF OtherEvent, TimerFires, RuleResolves, RuleGivesUp, FailureCaught
  <2>2. subs' \in [Submissions -> SubType] /\ \A t \in Submissions : Keeps(t)
    BY <2>1 DEF Control, SubsOK, Keeps
  <2> QED BY <2>1, <2>2, FlagsControl
<1>13. CASE UNCHANGED svars
  <2>1. UNCHANGED <<subs, coordinator, disposed>>
    BY <1>13 DEF svars, coordinator
  <2>2. subs' \in [Submissions -> SubType] /\ \A t \in Submissions : Keeps(t)
    BY <2>1 DEF Control, SubsOK, Keeps
  <2> QED BY <2>1, <2>2, FlagsControl
<1> QED BY <1>1, <1>2, <1>3, <1>4, <1>5, <1>6, <1>7, <1>8, <1>9, <1>12, <1>13 DEF SNext
-----------------------------------------------------------------------------
(* A submission keeps what FieldValidation promises of the fields.         *)
LEMMA SubmitFields ==
    ASSUME FieldInv, NEW s \in Submissions, NEW policy, NEW way, NEW throws,
           Submit(s, policy, way, throws)
    PROVE  FieldInv' /\ (WatchInv => WatchInv')
<1> DEFINE fs == ValidateTree(Cleared, s, throws)
<1>1. /\ fields' = fs /\ ~disposed /\ UNCHANGED disposed
      /\ excused' = (excused \ Reached(Cleared, throws))
                      \cup (Throwers(Cleared, throws) \cap Reached(Cleared, throws))
  BY DEF Submit, Cleared, Unaccounted
<1>2. /\ FieldsOK(Cleared)
      /\ WatchInv => AllWatched(Cleared, excused)
  BY <1>1, ClearedOK
<1>3. FieldsOK(fs) /\ (WatchInv => AllWatched(fs, excused'))
  BY <1>1, <1>2, ValidateTreeOK
<1>4. excused' \subseteq Fields
  BY <1>1 DEF FieldInv, Reached
<1> HIDE DEF fs
<1> QED BY <1>1, <1>3, <1>4 DEF FieldInv, WatchInv

LEMMA FieldsKept ==
    ASSUME FieldInv, [SNext]_svars
    PROVE  FieldInv' /\ ("change" \in ValidateOn /\ WatchInv => WatchInv')
<1>1. ASSUME NEW s \in Submissions, NEW policy \in Policies, NEW way \in Ways,
             NEW throws \in SUBSET Throwing, Submit(s, policy, way, throws)
      PROVE  FieldInv' /\ (WatchInv => WatchInv')
  BY <1>1, SubmitFields
<1>2. ASSUME UNCHANGED fvars PROVE FieldInv' /\ (WatchInv => WatchInv')
  BY <1>2 DEF fvars, FieldInv, WatchInv
<1>3. ASSUME NEW s \in Submissions, ServerRejects(s) PROVE FieldInv' /\ (WatchInv => WatchInv')
  <2>1. ~disposed /\ UNCHANGED <<disposed, excused>>
    BY <1>3 DEF ServerRejects, ActionEnds, Unwanted
  <2>2. ASSUME NEW f \in Fields, fields' = [fields EXCEPT ![f] = Serving(@, {"server"})]
        PROVE  FieldInv' /\ (WatchInv => WatchInv')
    <3>1. Serve(f, {"server"})
      BY <2>1, <2>2 DEF Serve
    <3> QED BY <3>1, ServeInv
  <2> QED BY <1>2, <1>3, <2>1, <2>2 DEF ServerRejects, fvars
<1>4. ASSUME NEW s \in Submissions, ActionSettles(s) PROVE UNCHANGED fvars
  BY <1>4 DEF ActionSettles, ActionEnds, fvars
<1>5. ASSUME NEW s \in Submissions, NEW way,
             ValidationAnswered(s, way) \/ ValidationThrew(s) \/ ActionIgnored(s)
      PROVE  UNCHANGED fvars
  BY <1>5 DEF ValidationAnswered, ValidationThrew, ActionIgnored, fvars
<1>6. CASE CancelSubmit
  BY <1>2, <1>6 DEF CancelSubmit, fvars
<1>7. CASE Reset \/ Dispose
  BY <1>7, ResetFieldsInv, DisposeFormInv DEF Reset, Dispose
<1>8. CASE Edit
  BY <1>8, SetValueInv, SetRawValueInv DEF Edit
<1>9. CASE Overtake
  BY <1>9, ResetFieldInv, BlurInv, ValidateInv DEF Overtake
<1>10. CASE RuleFails
  BY <1>10, RuleRejectsInv DEF RuleFails
<1>11. CASE OtherEvent
  BY <1>11, TimerFiresInv, RuleResolvesInv, RuleGivesUpInv, FailureCaughtInv DEF OtherEvent
<1>12. CASE UNCHANGED svars
  BY <1>2, <1>12 DEF svars, fvars
<1> QED BY <1>1, <1>2, <1>3, <1>4, <1>5, <1>6, <1>7, <1>8, <1>9, <1>10, <1>11, <1>12 DEF SNext

LEMMA InitFields == SInit => FieldInv /\ WatchInv
BY FieldInvInit DEF SInit
-----------------------------------------------------------------------------
LEMMA SubmissionInvariance == SSpec => [](Control /\ FieldInv)
<1>1. SInit => Control /\ FieldInv
  BY InitControl, InitFields
<1>2. Control /\ FieldInv /\ [SNext]_svars => (Control /\ FieldInv)'
  BY NextControl, FieldsKept
<1> QED BY <1>1, <1>2, PTL DEF SSpec

(* The state keeps its types; a call that has ended has an outcome, and the*)
(* controller that is set is that of a call in progress.                   *)
THEOREM SubmissionTypeCorrect == SSpec => []STypeOK
<1>1. FieldInv => FTypeOK
  BY DEF FieldInv, FieldsOK, RecordOK, RunsOK, FTypeOK
<1>2. Control /\ FieldInv => STypeOK
  BY <1>1 DEF Control, SubsOK, STypeOK
<1> QED BY <1>2, SubmissionInvariance, PTL

(* A form never says that it is validating or submitting when no call is   *)
(* going to end it, whatever calls, policies, rules and actions do.        *)
THEOREM SubmissionsNeverStuck == SSpec => []NeverStuck
<1>1. Control => NeverStuck
  BY DEF Control, ControlInv, NeverStuck
<1> QED BY <1>1, SubmissionInvariance, PTL

(* Of two actions that run at once one has been told to stop, or had its   *)
(* progress hidden by an older call.                                       *)
THEOREM OnlyOneAction == SSpec => []OneAction
<1>1. Control => OneAction
  BY DEF Control, ControlInv, OneAction, InProgress
<1> QED BY <1>1, SubmissionInvariance, PTL

(* What a form does to its fields when it submits, cancels and resets keeps*)
(* their issues, flags and verdicts as true as validation alone does.      *)
THEOREM FieldsStayTrueUnderSubmission ==
    ASSUME "change" \in ValidateOn
    PROVE  SSpec => [](IssuesAgree /\ PendingIsTrue /\ VerdictsHold)
<1>1. SInit => FieldInv /\ WatchInv
  BY InitFields
<1>2. FieldInv /\ WatchInv /\ [SNext]_svars => (FieldInv /\ WatchInv)'
  BY FieldsKept
<1>3. FieldInv /\ WatchInv => IssuesAgree /\ PendingIsTrue /\ VerdictsHold
  BY FieldsTrue
<1> QED BY <1>1, <1>2, <1>3, PTL DEF SSpec

(* A call that lost its place ends without a trace: no server issue, no    *)
(* success and no status but "cancelled".                                  *)
LEMMA StaleStep == ASSUME Control, [SNext]_svars PROVE StaleLeavesNothingInStep
<1> SUFFICES ASSUME NEW s \in InProgress, current # s, subs'[s].phase = "over"
             PROVE  /\ subs'[s].outcome \in {"cancelled", "threw"}
                    /\ status' \in {status, "cancelled"}
                    /\ formServer' = formServer
                    /\ \A f \in Fields : fields'[f].server = fields[f].server
  BY DEF StaleLeavesNothingInStep
<1>0. s \in Submissions /\ subs[s].phase \in {"validating", "acting"} /\ SubsOK
  BY DEF InProgress, Validating, Acting, Control
<1>1. ASSUME \A t \in Submissions : Keeps(t) PROVE FALSE
  BY <1>0, <1>1 DEF Keeps
<1>2. ASSUME NEW t \in Submissions, t # s, OnlyMoves(t) PROVE FALSE
  BY <1>0, <1>2 DEF Keeps, OnlyMoves
<1>3. ASSUME NEW t \in Submissions, NEW policy \in Policies, NEW way \in Ways,
             NEW throws \in SUBSET Throwing, Submit(t, policy, way, throws)
      PROVE  FALSE
  <2>1. OnlyMoves(t) /\ subs[t].phase = "none"
    BY <1>0, <1>3, SubmitMoves
  <2> QED BY <1>0, <1>2, <2>1
<1>4. ASSUME NEW t \in Submissions, NEW way \in Ways, ValidationAnswered(t, way)
      PROVE  /\ subs'[s].outcome = "cancelled" /\ status' = "cancelled"
             /\ formServer' = formServer /\ fields' = fields
  <2>1. t = s
    BY <1>0, <1>2, <1>4, AnsweredMoves
  <2>2. UNCHANGED <<current, formServer, fields, excused, disposed>> /\ Stale(s, subs[s])
    BY <1>4, <2>1 DEF ValidationAnswered, Stale
  <2> QED BY <1>0, <1>4, <2>1, <2>2, AnsweredMoves
<1>5. ASSUME NEW t \in Submissions, ValidationThrew(t)
      PROVE  /\ subs'[s].outcome = "threw" /\ status' = status
             /\ formServer' = formServer /\ fields' = fields
  <2>1. t \in InProgress /\ subs' = [subs EXCEPT ![t] = Over(@, "threw")]
    BY <1>5 DEF ValidationThrew, InProgress, Validating
  <2>2. OnlyMoves(t) /\ subs'[t].outcome = "threw"
    BY <1>0, <2>1, OverMoves
  <2>3. t = s
    BY <1>2, <2>2
  <2> QED BY <1>5, <2>2, <2>3 DEF ValidationThrew
<1>6. ASSUME NEW t \in Submissions, ActionIgnored(t)
      PROVE  /\ subs'[s].outcome = "cancelled" /\ status' = status
             /\ formServer' = formServer /\ fields' = fields
  <2>1. t \in InProgress /\ subs' = [subs EXCEPT ![t] = Over(@, "cancelled")]
    BY <1>6 DEF ActionIgnored, InProgress, Acting
  <2>2. OnlyMoves(t) /\ subs'[t].outcome = "cancelled"
    BY <1>0, <2>1, OverMoves
  <2>3. t = s
    BY <1>2, <2>2
  <2> QED BY <1>6, <2>2, <2>3 DEF ActionIgnored
<1>7. ASSUME NEW t \in Submissions, NEW o \in {"cancelled", "threw", "succeeded", "server-invalid"},
             ActionEnds(t, o)
      PROVE  FALSE
  <2>1. /\ t \in InProgress /\ subs' = [subs EXCEPT ![t] = Over(@, o)] /\ t # s
    BY <1>7 DEF ActionEnds, InProgress, Acting, Unwanted
  <2>2. OnlyMoves(t)
    BY <1>0, <2>1, OverMoves
  <2> QED BY <1>2, <2>1, <2>2
<1>8. ASSUME CancelSubmit \/ Reset \/ Dispose PROVE FALSE
  BY <1>0, <1>1, <1>8, AbortMoves DEF CancelSubmit, Reset, Dispose
<1>9. ASSUME NEW t \in Submissions, ActionSettles(t) \/ ServerRejects(t) PROVE FALSE
  BY <1>7, <1>9 DEF ActionSettles, ServerRejects
<1>10. ASSUME Edit \/ Overtake \/ RuleFails PROVE FALSE
  BY <1>0, <1>1, <1>10, MarkingKeeps
<1>11. ASSUME OtherEvent \/ UNCHANGED svars PROVE FALSE
  <2>1. subs' = subs
    BY <1>11 DEF OtherEvent, svars
  <2> QED BY <1>0, <2>1
<1> QED BY <1>3, <1>4, <1>5, <1>6, <1>8, <1>9, <1>10, <1>11 DEF SNext

(* A call that was superseded or cancelled writes no server issue into the *)
(* fields or the form, and no outcome into the status other than           *)
(* "cancelled".                                                            *)
THEOREM StaleAlwaysLeavesNothing == SSpec => StaleLeavesNothing
<1>1. Control /\ FieldInv /\ [SNext]_svars => [StaleLeavesNothingInStep]_svars
  BY StaleStep
<1> QED BY <1>1, SubmissionInvariance, PTL DEF SSpec, StaleLeavesNothing
-----------------------------------------------------------------------------
(* A field whose validation for s has come in without issues has passed.   *)
LEMMA JudgedPasses ==
    ASSUME NEW f, NEW x, RecordOK(f, x), NEW vals, NEW s, Judged(f, x, vals, s),
           x.issues = {}, \A r \in x.runs : r.by # s
    PROVE  Passes(f, x, vals)
<1>1. x \in FieldType /\ RunsOK(x)
  BY DEF RecordOK
<1>2. \A r \in x.runs : InFlight(r) => IsCurrent(x, r)
  BY <1>1 DEF RunsOK, IsCurrent, FieldType
<1>3. Quiet(x)
  BY <1>2 DEF Judged
<1> QED BY <1>3 DEF Judged

(* A run that is not in flight goes.                                       *)
LEMMA JudgedDrop ==
    ASSUME NEW f, NEW x, NEW vals, NEW s, Judged(f, x, vals, s), NEW r, ~InFlight(r),
           NEW y, y.runs = x.runs \ {r}, y.timer = x.timer, y.issues = x.issues,
           y.revision = x.revision, y.quit = x.quit
    PROVE  Judged(f, y, vals, s)
BY DEF Judged, IsCurrent, Passes

(* Past the gate there are no issues, and the call was not stale.          *)
LEMMA GateOpens ==
    ASSUME NEW ss \in [Submissions -> SubType], NEW s \in Submissions, NEW x \in SubType,
           NEW fs, NEW found, NEW way, Gate(s, x, ss, fs, found, way),
           subs'[s].phase = "acting" \/ subs'[s].outcome = "succeeded"
    PROVE  ~Stale(s, x) /\ ~Invalid(fs, found)
<1>1. CASE Cancelled(s, x, ss)
  <2> DEFINE told == [x EXCEPT !.aborted = x.aborted \/ active = s]
  <2>1. (x.aborted \/ active = s) \in BOOLEAN
    BY Zenon
  <2>2. told \in SubType
    BY <2>1, MarkedType
  <2>3. subs'[s] = Over(told, "cancelled")
    BY <1>1 DEF Cancelled
  <2> HIDE DEF told
  <2> QED BY <2>2, <2>3, OverType DEF Outcomes
<1>2. CASE Blocked(s, x, ss)
  BY <1>2, OverType DEF Blocked, Outcomes
<1> QED BY <1>1, <1>2 DEF Gate

(* What a submission finds when its fields are validated.                  *)
LEMMA SubmitJudged ==
    ASSUME Control, FieldInv, NEW s \in Submissions, NEW policy, NEW way, NEW throws,
           Submit(s, policy, way, throws), subs'[s].phase # "over" \/ subs'[s].outcome = "succeeded"
    PROVE  /\ \A f \in Fields : Judged(f, fields'[f], ValuesIn(fields'), s)
           /\ subs'[s].phase # "validating" =>
                Answered(fields', s) /\ \A f \in Fields : fields'[f].issues = {}
<1> DEFINE fs == ValidateTree(Cleared, s, throws)
<1>1. fields' = fs /\ ~disposed
  BY DEF Submit, Cleared
<1>2. FieldsOK(Cleared) /\ Superseded \in [Submissions -> SubType]
  BY ClearedOK, SupersededOK DEF Control
<1>3. /\ ValuesIn(fs) = ValuesIn(Cleared)
      /\ Throwers(Cleared, throws) = {} => \A f \in Fields :
            Judged(f, fs[f], ValuesIn(Cleared), s)
  BY <1>2, ValidateTreeOK
<1>4. \/ subs' = [Superseded EXCEPT ![s] = Over(NotCalled, "threw")]
      \/ /\ Throwers(Cleared, throws) = {}
         /\ subs' = [Superseded EXCEPT ![s].phase = "validating"]
      \/ /\ Throwers(Cleared, throws) = {} /\ Answered(fs, s)
         /\ Gate(s, NotCalled, Superseded, fs, {}, way)
  BY DEF Submit, Cleared
<1> HIDE DEF fs
<1>5. CASE subs' = [Superseded EXCEPT ![s] = Over(NotCalled, "threw")]
  BY <1>2, <1>5, NotCalledType, OverType DEF Outcomes
<1>6. CASE /\ Throwers(Cleared, throws) = {}
           /\ subs' = [Superseded EXCEPT ![s].phase = "validating"]
  <2>1. subs'[s].phase = "validating"
    BY <1>2, <1>6 DEF SubType
  <2> QED BY <1>1, <1>3, <1>6, <2>1
<1>7. CASE /\ Throwers(Cleared, throws) = {} /\ Answered(fs, s)
           /\ Gate(s, NotCalled, Superseded, fs, {}, way)
  <2>1. subs'[s].phase # "validating" => ~Invalid(fs, {})
    <3>1. subs'[s].phase \in {"validating", "acting", "over"}
      BY SubmitMoves DEF Control, Ends, Enters
    <3> QED BY <1>2, <1>7, <3>1, NotCalledType, GateOpens
  <2> QED BY <1>1, <1>3, <1>7, <2>1 DEF Invalid
<1> QED BY <1>4, <1>5, <1>6, <1>7

(* Whoever waits after a step waited before it, unless it has just come.   *)
LEMMA Waited ==
    ASSUME Control, [SNext]_svars, NEW s \in Submissions, Waits(s)'
    PROVE  \/ \E policy \in Policies, way \in Ways, throws \in SUBSET Throwing :
                Submit(s, policy, way, throws)
           \/ /\ Waits(s) /\ OtherEvent
           \/ /\ Waits(s) /\ RuleFails
           \/ /\ Waits(s) /\ UNCHANGED fields
<1>0. SubsOK /\ s # None
  BY SubmissionsAssumption DEF Control
<1>1. ASSUME Keeps(s), current = s, disposed' = disposed PROVE Waits(s)
  BY <1>1 DEF Waits, Keeps
<1>2. ASSUME NEW t \in Submissions, OnlyMoves(t), Ends(t) \/ Enters(t, "acting"),
             current' = current, disposed' = disposed
      PROVE  Waits(s) /\ s # t
  BY <1>1, <1>2 DEF OnlyMoves, Ends, Enters, Waits
<1>3. ASSUME NEW t \in Submissions \ {s}, NEW policy, NEW way, NEW throws,
             Submit(t, policy, way, throws)
      PROVE  FALSE
  BY <1>3 DEF Submit, Waits
<1>4. ASSUME NEW t \in Submissions, NEW way, ValidationAnswered(t, way)
      PROVE  Waits(s) /\ UNCHANGED fields
  BY <1>0, <1>2, <1>4, AnsweredMoves
<1>5. ASSUME NEW t \in InProgress,
             NEW o \in {"cancelled", "threw", "succeeded", "server-invalid"},
             subs' = [subs EXCEPT ![t] = Over(@, o)], UNCHANGED <<current, disposed>>
      PROVE  Waits(s) /\ s # t
  BY <1>0, <1>2, <1>5, OverMoves DEF InProgress, Validating, Acting
<1>6. ASSUME NEW t \in Submissions, ValidationThrew(t) PROVE Waits(s) /\ UNCHANGED fields
  BY <1>5, <1>6 DEF ValidationThrew, InProgress, Validating
<1>7. ASSUME NEW t \in Submissions, ActionIgnored(t) PROVE Waits(s) /\ UNCHANGED fields
  BY <1>5, <1>7 DEF ActionIgnored, InProgress, Acting
<1>8. ASSUME NEW t \in Submissions, ActionSettles(t) PROVE Waits(s) /\ UNCHANGED fields
  BY <1>5, <1>8 DEF ActionSettles, ActionEnds, InProgress, Acting
<1>9. ASSUME NEW t \in Submissions, ServerRejects(t) PROVE FALSE
  BY <1>5, <1>9 DEF ServerRejects, ActionEnds, Unwanted, InProgress, Acting, Waits
<1>10. ASSUME CancelSubmit \/ Reset \/ Dispose PROVE FALSE
  BY <1>0, <1>10 DEF CancelSubmit, Reset, Dispose, Waits
<1>11. ASSUME Edit PROVE FALSE
  <2>1. subs' = [t \in Submissions |-> [subs[t] EXCEPT !.edited = @ \/ t \in Validating]]
    BY <1>11 DEF Edit
  <2>2. Keeps(s)
    BY <1>0, <1>11, MarkingKeeps
  <2>3. s \in Validating
    BY <2>2 DEF Validating, Keeps, Waits
  <2>4. subs'[s].edited
    BY <1>0, <2>1, <2>3 DEF SubsOK, SubType
  <2> QED BY <2>4 DEF Waits
<1>12. ASSUME Overtake PROVE FALSE
  <2>1. subs' = [t \in Submissions |-> [subs[t] EXCEPT !.overtaken = @ \/ t \in Validating]]
    BY <1>12 DEF Overtake
  <2>2. Keeps(s)
    BY <1>0, <1>12, MarkingKeeps
  <2>3. s \in Validating
    BY <2>2 DEF Validating, Keeps, Waits
  <2>4. subs'[s].overtaken
    BY <1>0, <2>1, <2>3 DEF SubsOK, SubType
  <2> QED BY <2>4 DEF Waits
<1>13. ASSUME RuleFails PROVE Waits(s)
  <2>1. UNCHANGED <<coordinator, disposed>>
    BY <1>13 DEF RuleFails, RuleRejects
  <2>2. Keeps(s)
    BY <1>0, <1>13, MarkingKeeps
  <2> QED BY <1>1, <2>1, <2>2 DEF coordinator, Waits
<1>14. ASSUME OtherEvent \/ UNCHANGED svars PROVE Waits(s)
  <2>1. UNCHANGED <<subs, current, disposed>>
    BY <1>14 DEF OtherEvent, TimerFires, RuleResolves, RuleGivesUp, FailureCaught,
                 coordinator, svars
  <2> QED BY <2>1 DEF Waits
<1>15. UNCHANGED svars => UNCHANGED fields
  BY DEF svars
<1> QED BY <1>3, <1>4, <1>6, <1>7, <1>8, <1>9, <1>10, <1>11, <1>12, <1>13, <1>14, <1>15
        DEF SNext

(* An event of a field leaves what s waits for as it is, or is an answer   *)
(* that s waits for; a failure that s would hear of ends the wait.         *)
LEMMA EventJudged ==
    ASSUME Control, FieldInv, NEW s \in Submissions, Waits(s), Waits(s)',
           OtherEvent \/ RuleFails,
           \A f \in Fields : Judged(f, fields[f], ValuesIn(fields), s)
    PROVE  \A f \in Fields : Judged(f, fields'[f], ValuesIn(fields'), s)
<1> DEFINE vals == ValuesIn(fields)
<1>0. FieldsOK(fields) /\ FieldInv' /\ ~disposed
  BY FieldsKept DEF FieldInv, SNext, Waits
<1>1. ASSUME NEW f \in Fields, NEW x, fields' = [fields EXCEPT ![f] = x],
             Judged(f, x, vals, s), x.value = fields[f].value
      PROVE  \A g \in Fields : Judged(g, fields'[g], ValuesIn(fields'), s)
  <2>1. fields'[f] = x /\ \A g \in Fields \ {f} : fields'[g] = fields[g]
    BY <1>0, <1>1 DEF FieldsOK
  <2>2. ValuesIn(fields') = vals
    BY <1>0, <1>1, <2>1, SameValues DEF FieldInv
  <2> QED BY <1>1, <2>1, <2>2
<1>2. ASSUME NEW f \in Fields, NEW r \in fields[f].runs, ~Counts(f, r)
      PROVE  ~InFlight(r)
  BY <1>0, <1>2 DEF Counts, IsCurrent, FieldsOK, RecordOK, RunsOK, FieldType, RunType
<1>3. ASSUME NEW f \in Fields, NEW throws, TimerFires(f, throws) PROVE FALSE
  BY <1>3 DEF TimerFires, Judged
<1>4. ASSUME NEW f \in Fields, NEW r \in fields[f].runs, FailureCaught(f, r)
      PROVE  \A g \in Fields : Judged(g, fields'[g], ValuesIn(fields'), s)
  <2> DEFINE w == fields[f]
             y == [w EXCEPT !.runs = @ \ {r}]
  <2>1. r.stage = "thrown" /\ ~Counts(f, r)
    BY <1>4 DEF FailureCaught, Counts, Judged
  <2>2. fields' = [fields EXCEPT ![f] = y]
    BY <1>4, <2>1 DEF FailureCaught
  <2>3. RecordOK(f, w)
    BY <1>0 DEF FieldsOK
  <2>4. /\ y.runs = w.runs \ {r} /\ y.timer = w.timer /\ y.issues = w.issues
        /\ y.revision = w.revision /\ y.value = w.value /\ y.quit = w.quit
    BY <2>3 DEF RecordOK, FieldType
  <2> HIDE DEF y
  <2>5. Judged(f, y, vals, s)
    BY <2>1, <2>4, JudgedDrop
  <2> QED BY <1>1, <2>2, <2>4, <2>5
<1>5. ASSUME NEW f \in Fields, NEW r \in fields[f].runs, ~Counts(f, r),
             fields' = [fields EXCEPT ![f] = Finish(fields[f], r)]
      PROVE  \A g \in Fields : Judged(g, fields'[g], ValuesIn(fields'), s)
  <2> DEFINE y == Finish(fields[f], r)
  <2>1. RecordOK(f, fields[f])
    BY <1>0 DEF FieldsOK
  <2>2. /\ y.runs = fields[f].runs \ {r} /\ y.timer = fields[f].timer
        /\ y.issues = fields[f].issues
        /\ y.revision = fields[f].revision /\ y.value = fields[f].value
        /\ y.quit = fields[f].quit
    BY <2>1, FinishOK
  <2> HIDE DEF y
  <2>3. Judged(f, y, vals, s)
    BY <1>2, <1>5, <2>2, JudgedDrop
  <2> QED BY <1>1, <1>5, <2>2, <2>3 DEF y
<1>6. ASSUME NEW f \in Fields, NEW r \in fields[f].runs, RuleResolves(f, r)
      PROVE  \A g \in Fields : Judged(g, fields'[g], ValuesIn(fields'), s)
  <2> DEFINE w == fields[f]
             answer == IF r.fails THEN {"async"} ELSE {}
             y == Finish(Settle(w, answer), r)
  <2>1. CASE ~Counts(f, r)
    BY <1>5, <1>6, <2>1 DEF RuleResolves
  <2>2. CASE Counts(f, r)
    <3>1. fields' = [fields EXCEPT ![f] = y] /\ InFlight(r) /\ IsCurrent(w, r)
      BY <1>6, <2>2 DEF RuleResolves, Counts, IsCurrent
    <3>2. RecordOK(f, w) /\ Judged(f, w, vals, s)
      BY <1>0 DEF FieldsOK
    <3>3. answer \in {{"async"}, {}} /\ (r.fails <=> answer # {})
      OBVIOUS
    <3> HIDE DEF w, answer
    <3>4. r \in w.runs
      BY DEF w
    <3>5. /\ y.runs = w.runs \ {r} /\ y.timer = 0 /\ y.issues = answer \cup w.server
          /\ y.revision = w.revision /\ y.value = w.value
      BY <3>1, <3>2, <3>4, AnsweredFields
    <3>6. \A q \in y.runs : ~InFlight(q)
      BY <3>1, <3>2, <3>4, <3>5, OnlyRun
    <3> HIDE DEF y
    <3>7. y.issues = {} => Passes(f, y, vals)
      BY <3>1, <3>2, <3>3, <3>4, <3>5 DEF Judged, Passes
    <3>8. \A q \in y.runs : IsCurrent(y, q) => q.by = s /\ q.stage = "asked"
      BY <3>2, <3>5 DEF Judged, IsCurrent
    <3>9. Judged(f, y, vals, s)
      BY <3>5, <3>6, <3>7, <3>8 DEF Judged
    <3> QED BY <1>1, <3>1, <3>5, <3>9 DEF w
  <2> QED BY <2>1, <2>2
<1>8. ASSUME NEW f \in Fields, NEW r \in fields[f].runs, RuleGivesUp(f, r)
      PROVE  \A g \in Fields : Judged(g, fields'[g], ValuesIn(fields'), s)
  <2> DEFINE w == fields[f]
             y == Finish([Settle(w, {}) EXCEPT !.quit = "rejected"], r)
  <2>1. CASE ~Counts(f, r)
    BY <1>5, <1>8, <2>1 DEF RuleGivesUp
  <2>2. CASE Counts(f, r)
    <3>1. fields' = [fields EXCEPT ![f] = y] /\ InFlight(r) /\ IsCurrent(w, r)
      BY <1>8, <2>2 DEF RuleGivesUp, Counts, IsCurrent
    <3>2. RecordOK(f, w) /\ Judged(f, w, vals, s) /\ r \in w.runs
      BY <1>0 DEF FieldsOK
    <3> HIDE DEF w
    <3>3. /\ y.runs = w.runs \ {r} /\ y.timer = 0 /\ y.quit = "rejected"
          /\ y.revision = w.revision /\ y.value = w.value
      BY <3>1, <3>2, GivenUpOK
    <3>4. \A q \in y.runs : ~InFlight(q)
      BY <3>1, <3>2, <3>3, OnlyRun
    <3> HIDE DEF y
    <3>5. Passes(f, y, vals)
      BY <3>1, <3>2, <3>3 DEF Judged, Passes
    <3>6. \A q \in y.runs : IsCurrent(y, q) => q.by = s /\ q.stage = "asked"
      BY <3>2, <3>3 DEF Judged, IsCurrent
    <3>7. Judged(f, y, vals, s)
      BY <3>3, <3>4, <3>5, <3>6 DEF Judged
    <3> QED BY <1>1, <3>1, <3>3, <3>7 DEF w
  <2> QED BY <2>1, <2>2
<1>7. CASE RuleFails
  <2>1. PICK f \in Fields : \E r \in fields[f].runs :
           /\ RuleRejects(f, r)
           /\ subs' = [t \in Submissions |->
                        [subs[t] EXCEPT !.thrown = @ \/ (r.by = t /\ Counts(f, r))]]
    BY <1>7 DEF RuleFails
  <2>2. PICK r \in fields[f].runs :
           /\ RuleRejects(f, r)
           /\ subs' = [t \in Submissions |->
                        [subs[t] EXCEPT !.thrown = @ \/ (r.by = t /\ Counts(f, r))]]
    BY <2>1
  <2>3. ASSUME Counts(f, r) PROVE FALSE
    <3>1. r.by = s
      BY <2>3 DEF Counts, Judged
    <3> DEFINE hit == subs[s].thrown \/ (r.by = s /\ Counts(f, r))
    <3>2. hit = TRUE
      BY <2>3, <3>1
    <3> HIDE DEF hit
    <3>3. subs'[s] = [subs[s] EXCEPT !.thrown = hit]
      BY <2>2 DEF hit
    <3>4. subs[s] \in SubType
      BY DEF Control, SubsOK
    <3>5. subs'[s].thrown
      BY <3>2, <3>3, <3>4 DEF SubType
    <3> QED BY <3>5 DEF Waits
  <2>4. fields' = [fields EXCEPT ![f] = Finish(fields[f], r)]
    BY <2>2, <2>3 DEF RuleRejects
  <2> QED BY <1>5, <2>3, <2>4
<1> QED BY <1>3, <1>4, <1>6, <1>7, <1>8 DEF OtherEvent

LEMMA GateKept ==
    ASSUME Control, FieldInv, GateInv, [SNext]_svars
    PROVE  GateInv'
<1> SUFFICES ASSUME NEW s \in Submissions, Waits(s)'
             PROVE  \A f \in Fields : Judged(f, fields'[f], ValuesIn(fields'), s)
  BY DEF GateInv
<1>1. ASSUME NEW policy, NEW way, NEW throws, Submit(s, policy, way, throws)
      PROVE  \A f \in Fields : Judged(f, fields'[f], ValuesIn(fields'), s)
  BY <1>1, SubmitJudged DEF Waits
<1>2. ASSUME Waits(s), UNCHANGED fields
      PROVE  \A f \in Fields : Judged(f, fields'[f], ValuesIn(fields'), s)
  BY <1>2 DEF GateInv
<1>3. ASSUME Waits(s), OtherEvent \/ RuleFails
      PROVE  \A f \in Fields : Judged(f, fields'[f], ValuesIn(fields'), s)
  BY <1>3, EventJudged DEF GateInv
<1> QED BY <1>1, <1>2, <1>3, Waited

(* Whatever opens its gate has been judged, on the values of that moment.  *)
LEMMA GateStep ==
    ASSUME Control, FieldInv, GateInv, [SNext]_svars
    PROVE  GateHoldsInStep
<1> SUFFICES ASSUME NEW s \in Submissions, Opens(s), ~subs[s].overtaken
             PROVE  \A f \in Fields : Passes(f, fields'[f], ValuesIn(fields'))
  BY DEF GateHoldsInStep
<1>0. SubsOK /\ FieldInv'
  BY FieldsKept DEF Control
<1>1. ASSUME Keeps(s) PROVE FALSE
  BY <1>0, <1>1 DEF Keeps, Opens, SubsOK
<1>2. ASSUME NEW t \in Submissions, t # s, OnlyMoves(t) PROVE FALSE
  BY <1>1, <1>2 DEF OnlyMoves
<1>3. ASSUME \A f \in Fields : Judged(f, fields'[f], ValuesIn(fields'), s), Answered(fields', s),
             \A f \in Fields : fields'[f].issues = {}
      PROVE  \A f \in Fields : Passes(f, fields'[f], ValuesIn(fields'))
  BY <1>0, <1>3, JudgedPasses DEF FieldInv, FieldsOK, Answered
<1>4. ASSUME NEW t \in Submissions, NEW policy, NEW way, NEW throws,
             Submit(t, policy, way, throws)
      PROVE  \A f \in Fields : Passes(f, fields'[f], ValuesIn(fields'))
  <2>1. t = s
    BY <1>0, <1>2, <1>4, SubmitMoves
  <2>2. subs'[s].phase = "acting" \/ subs'[s].outcome = "succeeded"
    BY DEF Opens
  <2>3. subs'[s].phase # "validating" /\ (subs'[s].phase # "over" \/ subs'[s].outcome = "succeeded")
    BY <1>0, <1>4, <2>1, <2>2, SubmitMoves DEF Ends, Enters
  <2> QED BY <1>3, <1>4, <2>1, <2>3, SubmitJudged
<1>5. ASSUME NEW t \in Submissions, NEW way, ValidationAnswered(t, way)
      PROVE  \A f \in Fields : Passes(f, fields'[f], ValuesIn(fields'))
  <2>1. t = s
    BY <1>0, <1>2, <1>5, AnsweredMoves
  <2>2. /\ subs[s].phase = "validating" /\ Answered(fields, s) /\ ~subs[s].thrown /\ ~disposed
        /\ Gate(s, subs[s], subs, fields, formServer, way)
        /\ UNCHANGED <<current, fields>>
    BY <1>5, <2>1 DEF ValidationAnswered
  <2>3. subs'[s].phase = "acting" \/ subs'[s].outcome = "succeeded"
    BY DEF Opens
  <2>4. ~Stale(s, subs[s]) /\ ~Invalid(fields, formServer)
    BY <1>0, <2>2, <2>3, GateOpens DEF SubsOK
  <2>5. Waits(s)
    BY <2>2, <2>4 DEF Stale, Waits
  <2>6. \A f \in Fields : fields[f].issues = {}
    BY <2>4 DEF Invalid
  <2> QED BY <1>3, <2>2, <2>5, <2>6 DEF GateInv
<1>6. ASSUME NEW t \in InProgress,
             NEW o \in {"cancelled", "threw", "succeeded", "server-invalid"},
             subs' = [subs EXCEPT ![t] = Over(@, o)], o = "threw" \/ t \in Acting
      PROVE  FALSE
  <2>1. OnlyMoves(t) /\ Ends(t) /\ subs'[t].outcome = o
    BY <1>0, <1>6, OverMoves
  <2>2. t = s
    BY <1>2, <2>1 DEF InProgress, Validating, Acting
  <2> QED BY <1>6, <2>1, <2>2 DEF Opens, Ends, Acting
<1>7. ASSUME NEW t \in Submissions, ValidationThrew(t) PROVE FALSE
  BY <1>6, <1>7 DEF ValidationThrew, InProgress, Validating
<1>8. ASSUME NEW t \in Submissions, ActionIgnored(t) PROVE FALSE
  BY <1>6, <1>8 DEF ActionIgnored, InProgress, Acting
<1>9. ASSUME NEW t \in Submissions, ActionSettles(t) \/ ServerRejects(t) PROVE FALSE
  BY <1>6, <1>9 DEF ActionSettles, ServerRejects, ActionEnds, InProgress, Acting
<1>10. ASSUME CancelSubmit \/ Reset \/ Dispose PROVE FALSE
  BY <1>0, <1>1, <1>10, AbortMoves DEF CancelSubmit, Reset, Dispose
<1>11. ASSUME Edit \/ Overtake \/ RuleFails PROVE FALSE
  BY <1>0, <1>1, <1>11, MarkingKeeps
<1>12. ASSUME OtherEvent \/ UNCHANGED svars PROVE FALSE
  BY <1>0, <1>12 DEF OtherEvent, svars, Opens, SubsOK
<1> QED BY <1>4, <1>5, <1>7, <1>8, <1>9, <1>10, <1>11, <1>12 DEF SNext

(* A call that was not overtaken starts its action, or succeeds without    *)
(* one, on values that passed every rule: none has refused them, though one*)
(* may have given up with an AbortError.                                   *)
THEOREM GateAlwaysHolds == SSpec => GateHolds
<1>1. SInit => Control /\ FieldInv /\ GateInv
  <2>1. SInit => current = None
    BY DEF SInit
  <2>2. SInit => GateInv
    BY <2>1, SubmissionsAssumption DEF GateInv, Waits
  <2> QED BY <2>2, InitControl, InitFields
<1>2. Control /\ FieldInv /\ GateInv /\ [SNext]_svars => (Control /\ FieldInv /\ GateInv)'
  BY NextControl, FieldsKept, GateKept
<1>3. Control /\ FieldInv /\ GateInv /\ [SNext]_svars => [GateHoldsInStep]_svars
  BY GateStep
<1> QED BY <1>1, <1>2, <1>3, PTL DEF SSpec, GateHolds
=============================================================================
