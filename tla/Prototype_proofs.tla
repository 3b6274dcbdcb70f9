-------------------------- MODULE Prototype_proofs --------------------------
(***************************************************************************)
(* The form prototype (research/form/form-core.ts) is what its runs check, *)
(* at any size: the validation of a field, the items of an array, and the  *)
(* submission of a form with the array below it, one after the other.      *)
(***************************************************************************)
EXTENDS PrototypeField, PrototypeForm,
        FiniteSetTheorems, SequenceTheorems, WellFoundedInduction, TLAPS

-----------------------------------------------------------------------------
(* PrototypeField.                                                         *)

(* The run a field waits for is of its revision and about its value, and   *)
(* so is a debounce, which waits for a revision nothing ran for yet.       *)
Steady(f) ==
    /\ f \in FieldType
    /\ f.shown = Combined(f.own, f.server, f.parseIssue)
    /\ (f.parse = "invalid") <=> (f.parseIssue = TRUE)
    /\ setup.parser = FALSE => f.parse = "unparsed"
    /\ f.live \in {0, f.revision}
    /\ f.timer # 0 => f.timer = f.live
    /\ \A r \in f.runs :
        /\ r.revision <= f.revision
        /\ f.timer # 0 => r.revision # f.timer
        /\ r.revision = f.live => r.value = f.value /\ (setup.manual \/ f.pending)
    /\ f.disposed => f.live = 0
    /\ f.disposed \/ setup.rules = {} => setup.manual \/ f.pending = FALSE

(* Where every edit is validated anew, a pending field waits for something.*)
Eager ==
    ~setup.manual /\ "change" \in setup.triggers /\ ~setup.parser /\ "sync" \notin setup.rules
Waits(f) ==
    Eager /\ f.pending => f.timer # 0 \/ \E r \in f.runs : r.revision = f.live

FieldInv == setup \in SetupType /\ Steady(field) /\ Waits(field)
-----------------------------------------------------------------------------
LEMMA FieldInitInv == FieldInit => FieldInv
<1> SUFFICES ASSUME FieldInit PROVE FieldInv
  OBVIOUS
<1>1. setup \in SetupType
  BY SetupsAssumption DEF FieldInit
<1>2. Unparsed \in {"unparsed", "parsed"} /\ (setup.parser = FALSE => Unparsed = "unparsed")
  BY DEF Unparsed
<1>3. field \in FieldType
  BY <1>2, RevisionBound DEF FieldInit, FieldType, Values, Raws, Issues
<1> QED BY <1>1, <1>2, <1>3 DEF FieldInit, FieldInv, Steady, Waits, Combined

LEMMA SyncedFacts ==
    ASSUME NEW f \in FieldType
    PROVE  /\ Synced(f) \in FieldType
           /\ Synced(f).shown = Combined(f.own, f.server, f.parseIssue)
           /\ \E shown \in SUBSET Issues : Synced(f) = [f EXCEPT !.shown = shown]
<1>1. Combined(f.own, f.server, f.parseIssue) \in SUBSET Issues
  BY DEF Combined, FieldType, Issues
<1> HIDE DEF Combined
<1> QED BY <1>1 DEF Synced, FieldType

(* What the end of a wait leaves alone.                                    *)
Same(g, f) ==
    /\ g.value = f.value /\ g.parse = f.parse /\ g.parseIssue = f.parseIssue /\ g.own = f.own
    /\ g.server = f.server /\ g.shown = f.shown /\ g.pending = f.pending
    /\ g.revision = f.revision /\ g.runs = f.runs /\ g.disposed = f.disposed

(* Nothing more is waited for.                                             *)
LEMMA CancelledSteady ==
    ASSUME NEW f, Steady(f)
    PROVE  /\ Steady(Cancelled(f))
           /\ Cancelled(f).live = 0 /\ Cancelled(f).timer = 0
           /\ Cancelled(f).pending = f.pending /\ Cancelled(f).revision = f.revision
           /\ Cancelled(f).disposed = f.disposed /\ Cancelled(f).runs = f.runs
<1> DEFINE c == Cancelled(f)
<1>0. f \in FieldType /\ 0 \in 0..MaxRevision
  BY RevisionBound DEF Steady
<1>1. c \in FieldType
  BY <1>0, Zenon DEF Cancelled, FieldType
<1>2. \A r \in f.runs : r.revision # 0
  BY DEF Steady, FieldType
<1>3. Same(c, f) /\ c.live = 0 /\ c.timer = 0
  BY DEF Cancelled, FieldType, Steady, Same
<1> HIDE DEF c
<1>4. Steady(c)
  BY <1>1, <1>2, <1>3 DEF Steady, Same
<1> QED BY <1>3, <1>4 DEF c, Same

(* A new revision.                                                         *)
LEMMA BegunSteady ==
    ASSUME NEW f, Steady(f), f.revision + 1 <= MaxRevision, ~f.disposed
    PROVE  /\ Steady(Begun(f))
           /\ Begun(f).live = f.revision + 1 /\ Begun(f).revision = f.revision + 1
           /\ Begun(f).timer = 0 /\ Begun(f).disposed = f.disposed
           /\ \A r \in Begun(f).runs : r.revision # f.revision + 1
<1>1. /\ Begun(f) = [f EXCEPT !.live = f.revision + 1, !.timer = 0, !.revision = f.revision + 1]
      /\ f \in FieldType
  BY DEF Begun, Cancelled, Steady, FieldType
<1>2. f.revision + 1 \in 0..MaxRevision /\ f.revision \in Nat
  BY RevisionBound DEF Steady, FieldType
<1>3. Begun(f) \in FieldType
  <2>1. 0 \in 0..MaxRevision
    BY RevisionBound
  <2> QED BY <1>1, <1>2, <2>1, Zenon DEF FieldType
<1>4. \A r \in f.runs : r.revision <= f.revision /\ r.revision \in Nat
  BY DEF Steady, FieldType
<1> DEFINE b == Begun(f)
<1>5. /\ b.live = f.revision + 1 /\ b.timer = 0 /\ b.revision = f.revision + 1
      /\ b.value = f.value /\ b.parse = f.parse /\ b.parseIssue = f.parseIssue /\ b.own = f.own
      /\ b.server = f.server /\ b.shown = f.shown /\ b.pending = f.pending
      /\ b.runs = f.runs /\ b.disposed = f.disposed
  BY <1>1 DEF FieldType
<1> HIDE DEF b
<1>6. \A r \in b.runs : r.revision <= b.revision /\ r.revision # b.revision
  BY <1>2, <1>4, <1>5
<1>7. Steady(b)
  BY <1>2, <1>3, <1>5, <1>6 DEF Steady, b
<1> QED BY <1>5, <1>6, <1>7 DEF b

(* A verdict is about what the field holds.                                *)
LEMMA VerdictSteady ==
    ASSUME NEW f, Steady(f), f.live = 0, f.timer = 0, NEW issues \in SUBSET {"bad", "taken", "manual"}
    PROVE  /\ Steady(Verdict(f, issues)) /\ Verdict(f, issues).pending = FALSE
           /\ Verdict(f, issues).disposed = f.disposed
           /\ Verdict(f, issues).live = f.live /\ Verdict(f, issues).timer = f.timer
           /\ Verdict(f, issues).runs = f.runs
<1> DEFINE s == IF issues = {} /\ ~f.server THEN "valid" ELSE "invalid"
           g == [f EXCEPT !.own = issues, !.pending = FALSE, !.status = s]
<1>0. f \in FieldType /\ s \in {"unvalidated", "valid", "invalid"}
  BY DEF Steady
<1>1. g \in FieldType /\ Verdict(f, issues) = Synced(g)
  <2>1. Verdict(f, issues) = Synced(g)
    BY DEF Verdict
  <2> HIDE DEF s
  <2>2. g \in FieldType
    BY <1>0, Zenon DEF FieldType
  <2> QED BY <2>1, <2>2
<1>2. Synced(g) \in FieldType /\ Synced(g).shown = Combined(g.own, g.server, g.parseIssue)
  BY <1>1, SyncedFacts
<1>3. PICK shown \in SUBSET Issues : Synced(g) = [g EXCEPT !.shown = shown]
  BY <1>1, SyncedFacts
<1>4. f \in FieldType
  BY DEF Steady
<1>5. \A r \in f.runs : r.revision # 0
  BY <1>4 DEF FieldType
<1> DEFINE h == Synced(g)
<1>6. /\ h.own = g.own /\ h.server = f.server /\ h.parseIssue = f.parseIssue /\ h.parse = f.parse
      /\ h.live = f.live /\ h.revision = f.revision /\ h.timer = f.timer /\ h.runs = f.runs
      /\ h.value = f.value /\ h.pending = FALSE /\ h.disposed = f.disposed
      /\ g.own = h.own /\ g.server = h.server /\ g.parseIssue = h.parseIssue
  <2> HIDE DEF g
  <2>1. g \in FieldType /\ h = [g EXCEPT !.shown = shown]
    BY <1>1, <1>3
  <2>2. /\ h.own = g.own /\ h.server = g.server /\ h.parseIssue = g.parseIssue /\ h.parse = g.parse
        /\ h.live = g.live /\ h.revision = g.revision /\ h.timer = g.timer /\ h.runs = g.runs
        /\ h.value = g.value /\ h.pending = g.pending /\ h.disposed = g.disposed
    BY <2>1 DEF FieldType
  <2>3. /\ g.server = f.server /\ g.parseIssue = f.parseIssue /\ g.parse = f.parse
        /\ g.live = f.live /\ g.revision = f.revision /\ g.timer = f.timer /\ g.runs = f.runs
        /\ g.value = f.value /\ g.pending = FALSE /\ g.disposed = f.disposed
    BY <1>4 DEF FieldType, g
  <2> QED BY <2>2, <2>3
<1>7. h \in FieldType /\ h.shown = Combined(h.own, h.server, h.parseIssue) /\ h = Verdict(f, issues)
  BY <1>1, <1>2, <1>6
<1> HIDE DEF h, g
<1>8. Steady(h)
  BY <1>5, <1>6, <1>7 DEF Steady
<1> QED BY <1>6, <1>7, <1>8

(* The rules run for a revision that is begun.                             *)
LEMMA ExecutedSteady ==
    ASSUME NEW f, setup \in SetupType, Steady(f), f.live = f.revision, f.revision # 0,
           f.timer = 0, ~f.disposed
    PROVE  Steady(Executed(f)) /\ Waits(Executed(f)) /\ f.runs \subseteq Executed(f).runs
<1> DEFINE odd == f.parse # "invalid" /\ "sync" \in setup.rules /\ f.value = "odd"
           bad == f.parse # "invalid" /\ "sync" \in setup.rules /\ f.value = "bad"
           c == Cancelled(f)
<1>1. Steady(c) /\ c.live = 0 /\ c.timer = 0 /\ c.runs = f.runs
  BY CancelledSteady
<1> HIDE DEF c
<1>2. CASE f.parse = "invalid" \/ odd
  <2>1. Executed(f) = f
    BY <1>2 DEF Executed
  <2>2. ~Eager
    BY <1>2 DEF Eager, Steady, SetupType
  <2> QED BY <2>1, <2>2 DEF Waits
<1>3. CASE f.parse # "invalid" /\ bad
  <2>1. Executed(f) = Verdict(c, {"bad"})
    BY <1>3 DEF Executed, c
  <2>2. PICK issues \in SUBSET {"bad", "taken", "manual"} : issues = {"bad"}
    OBVIOUS
  <2>3. Steady(Verdict(c, issues)) /\ Verdict(c, issues).pending = FALSE
        /\ Verdict(c, issues).runs = c.runs
    BY <1>1, VerdictSteady
  <2>4. Steady(Executed(f)) /\ Executed(f).pending = FALSE /\ Executed(f).runs = f.runs
    BY <2>1, <2>2, <2>3, <1>1
  <2> QED BY <2>4 DEF Waits
<1>4. CASE f.parse # "invalid" /\ ~bad /\ ~odd /\ "async" \notin setup.rules
  <2>1. Executed(f) = Verdict(c, {})
    BY <1>4 DEF Executed, c
  <2>2. PICK issues \in SUBSET {"bad", "taken", "manual"} : issues = {}
    OBVIOUS
  <2>3. Steady(Verdict(c, issues)) /\ Verdict(c, issues).pending = FALSE
        /\ Verdict(c, issues).runs = c.runs
    BY <1>1, VerdictSteady
  <2>4. Steady(Executed(f)) /\ Executed(f).pending = FALSE /\ Executed(f).runs = f.runs
    BY <2>1, <2>2, <2>3, <1>1
  <2> QED BY <2>4 DEF Waits
<1>5. CASE f.parse # "invalid" /\ ~bad /\ ~odd /\ "async" \in setup.rules
  <2> DEFINE r == [revision |-> f.revision, value |-> f.value]
             e == [f EXCEPT !.pending = TRUE, !.runs = f.runs \cup {r}]
  <2>1. Executed(f) = e
    BY <1>5 DEF Executed, Steady, FieldType
  <2>2. f \in FieldType /\ r \in [revision : 1..MaxRevision, value : Values]
    BY DEF Steady, FieldType
  <2>3. e \in FieldType
    BY <2>2 DEF FieldType
  <2>4. /\ e.own = f.own /\ e.server = f.server /\ e.parseIssue = f.parseIssue /\ e.parse = f.parse
        /\ e.live = f.live /\ e.revision = f.revision /\ e.timer = f.timer
        /\ e.runs = f.runs \cup {r} /\ e.shown = f.shown
        /\ e.value = f.value /\ e.pending = TRUE /\ e.disposed = f.disposed
        /\ r.revision = f.revision /\ r.value = f.value /\ f.revision <= f.revision
    BY <2>2, RevisionBound DEF FieldType
  <2> HIDE DEF e, r
  <2>5. Steady(e)
    BY <1>5, <2>3, <2>4 DEF Steady
  <2>6. Waits(e) /\ f.runs \subseteq e.runs
    BY <2>4 DEF Waits
  <2> QED BY <2>1, <2>5, <2>6
<1> QED BY <1>2, <1>3, <1>4, <1>5

(* A trigger: an edit is the one that the eager field waits upon.          *)
LEMMA TriggeredSteady ==
    ASSUME NEW f, setup \in SetupType, Steady(f), f.revision + 1 <= MaxRevision,
           NEW trigger \in {"change", "blur"}, trigger = "change" \/ Waits(f)
    PROVE  Steady(Triggered(f, trigger)) /\ Waits(Triggered(f, trigger))
<1> DEFINE b == Begun(f)
<1>1. CASE ~f.disposed /\ setup.rules # {} /\ trigger \in setup.triggers
  <2>1. /\ Steady(b) /\ b.live = f.revision + 1 /\ b.revision = f.revision + 1
        /\ b.timer = 0 /\ b.disposed = f.disposed
        /\ \A r \in b.runs : r.revision # f.revision + 1
    BY <1>1, BegunSteady
  <2>2. f.revision \in 0..MaxRevision /\ f.revision + 1 # 0 /\ f.revision + 1 \in 0..MaxRevision
    BY RevisionBound DEF Steady, FieldType
  <2> HIDE DEF b
  <2>3. CASE ~(setup.debounce /\ trigger = "change")
    <3>1. Triggered(f, trigger) = Executed(b)
      BY <1>1, <2>3 DEF Triggered, Scheduled, b
    <3>2. b.live = b.revision /\ b.revision # 0 /\ ~b.disposed
      BY <1>1, <2>1, <2>2
    <3>3. Steady(Executed(b)) /\ Waits(Executed(b))
      <4>1. Steady(b) /\ b.timer = 0
        BY <2>1
      <4>2. b.live = b.revision /\ b.revision # 0 /\ ~b.disposed
        BY <3>2
      <4> QED BY <4>1, <4>2, ExecutedSteady
    <3> QED BY <3>1, <3>3, Zenon
  <2>4. CASE setup.debounce /\ trigger = "change"
    <3> DEFINE n == f.revision + 1
               t == [b EXCEPT !.timer = n]
    <3> HIDE DEF n
    <3>1. Triggered(f, trigger) = t
      BY <1>1, <2>4 DEF Triggered, Scheduled, b, n
    <3>2. b \in FieldType /\ n \in 0..MaxRevision
      BY <2>1, <2>2 DEF Steady, n
    <3>3. t \in FieldType
      BY <3>2, Zenon DEF FieldType
    <3>4. Same(t, b) /\ t.live = b.live /\ t.timer = n
      BY <3>2 DEF FieldType, Same
    <3> HIDE DEF t
    <3>5. n # 0 /\ b.live = n /\ \A r \in b.runs : r.revision # n
      BY <2>1, <2>2 DEF n
    <3>6. Steady(t)
      BY <2>1, <3>3, <3>4, <3>5 DEF Steady, Same
    <3>7. Waits(t)
      BY <3>4, <3>5 DEF Waits
    <3> QED BY <3>1, <3>6, <3>7
  <2> QED BY <2>3, <2>4
<1>2. CASE ~(~f.disposed /\ setup.rules # {} /\ trigger \in setup.triggers)
  <2>1. Triggered(f, trigger) = f
    BY <1>2 DEF Triggered
  <2>2. Waits(f)
    BY <1>2 DEF Waits, Eager, Steady
  <2> QED BY <2>1, <2>2
<1> QED BY <1>1, <1>2

(* What a field holds is replaced, and nothing is waited for.              *)
LEMMA RewrittenSteady ==
    ASSUME NEW f, Steady(f), NEW g \in FieldType,
           g.shown = Combined(g.own, g.server, g.parseIssue),
           (g.parse = "invalid") <=> (g.parseIssue = TRUE),
           setup.parser = FALSE => g.parse = "unparsed",
           g.live = 0, g.timer = 0, g.revision >= f.revision, g.runs = f.runs,
           g.pending \in {f.pending, FALSE}, g.disposed = f.disposed
    PROVE  Steady(g)
<1>1. f.revision \in Nat /\ g.revision \in Nat
  BY RevisionBound DEF Steady, FieldType
<1>2. \A r \in f.runs : r.revision \in Nat /\ r.revision # 0 /\ r.revision <= f.revision
  BY DEF Steady, FieldType
<1>3. \A r \in g.runs : r.revision # 0 /\ r.revision <= g.revision
  BY <1>1, <1>2
<1>4. f.disposed \/ setup.rules = {} => setup.manual \/ f.pending = FALSE
  BY DEF Steady
<1> QED BY <1>3, <1>4 DEF Steady
-----------------------------------------------------------------------------
(* A run that ends with a verdict is about the value.                      *)
Fresh(f, g) == \A r \in f.runs \ g.runs : g.own # f.own => r.value = g.value
FieldStep == Steady(field') /\ Waits(field') /\ Fresh(field, field')

LEMMA KeptRunsFresh == ASSUME NEW f, NEW g, f.runs \subseteq g.runs PROVE Fresh(f, g)
BY DEF Fresh

(* The runs stay while a trigger is heard.                                 *)
LEMMA TriggeredKeeps ==
    ASSUME NEW f, setup \in SetupType, Steady(f), f.revision + 1 <= MaxRevision,
           NEW trigger
    PROVE  f.runs \subseteq Triggered(f, trigger).runs
<1> DEFINE b == Begun(f)
<1>1. CASE ~f.disposed /\ setup.rules # {} /\ trigger \in setup.triggers
  <2>1. /\ Steady(b) /\ b.live = f.revision + 1 /\ b.revision = f.revision + 1
        /\ b.timer = 0 /\ b.disposed = f.disposed
    BY <1>1, BegunSteady
  <2>2. b.runs = f.runs
    BY DEF Begun, Cancelled, Steady, FieldType
  <2>3. f.revision \in 0..MaxRevision /\ f.revision + 1 # 0
    BY RevisionBound DEF Steady, FieldType
  <2> HIDE DEF b
  <2>4. CASE ~(setup.debounce /\ trigger = "change")
    <3>1. Triggered(f, trigger) = Executed(b)
      BY <1>1, <2>4 DEF Triggered, Scheduled, b
    <3>2. b.live = b.revision /\ b.revision # 0 /\ ~b.disposed
      BY <1>1, <2>1, <2>3
    <3>3. b.runs \subseteq Executed(b).runs
      <4>1. Steady(b) /\ b.timer = 0
        BY <2>1
      <4> QED BY <4>1, <3>2, ExecutedSteady
    <3> QED BY <2>2, <3>1, <3>3
  <2>5. CASE setup.debounce /\ trigger = "change"
    <3>1. Triggered(f, trigger) = [b EXCEPT !.timer = f.revision + 1]
      BY <1>1, <2>5 DEF Triggered, Scheduled, b
    <3> DEFINE n == f.revision + 1
    <3> HIDE DEF n
    <3>2. [b EXCEPT !.timer = n].runs = b.runs
      BY <2>1 DEF Steady, FieldType
    <3> QED BY <2>2, <3>1, <3>2 DEF n
  <2> QED BY <2>4, <2>5
<1>2. CASE ~(~f.disposed /\ setup.rules # {} /\ trigger \in setup.triggers)
  BY <1>2 DEF Triggered
<1> QED BY <1>1, <1>2

LEMMA ValidateInv == FieldInv /\ Validate => FieldStep
<1> SUFFICES ASSUME FieldInv, Validate PROVE FieldStep
  OBVIOUS
<1> DEFINE b == Begun(field)
<1>1. /\ Steady(field) /\ setup \in SetupType /\ field' = Executed(b) /\ ~field.disposed
      /\ field.revision \in 0..MaxRevision /\ field.revision + 1 <= MaxRevision
  BY RevisionBound DEF FieldInv, Validate, MayBegin, Steady, FieldType
<1>2. /\ Steady(b) /\ b.live = field.revision + 1 /\ b.revision = field.revision + 1
      /\ b.timer = 0 /\ b.disposed = field.disposed
  BY <1>1, BegunSteady
<1>3. b.runs = field.runs
  BY <1>1 DEF Begun, Cancelled, Steady, FieldType
<1> HIDE DEF b
<1>4. b.live = b.revision /\ b.revision # 0 /\ ~b.disposed
  BY <1>1, <1>2
<1>5. Steady(Executed(b)) /\ Waits(Executed(b)) /\ b.runs \subseteq Executed(b).runs
  <2>1. Steady(b) /\ b.timer = 0 /\ setup \in SetupType
    BY <1>1, <1>2
  <2> QED BY <2>1, <1>4, ExecutedSteady
<1>6. Steady(field') /\ Waits(field') /\ field.runs \subseteq (field').runs
  BY <1>1, <1>3, <1>5
<1> QED BY <1>6, KeptRunsFresh DEF FieldStep

LEMMA DebounceFiresInv == FieldInv /\ DebounceFires => FieldStep
<1> SUFFICES ASSUME FieldInv, DebounceFires PROVE FieldStep
  OBVIOUS
<1> DEFINE f == [field EXCEPT !.timer = 0]
<1>1. /\ Steady(field) /\ setup \in SetupType /\ field \in FieldType /\ field.timer # 0
      /\ field.live = field.timer /\ field.live = field.revision /\ ~field.disposed
  BY DEF FieldInv, DebounceFires, Steady
<1>2. f \in FieldType
  <2>1. 0 \in 0..MaxRevision
    BY RevisionBound
  <2> QED BY <1>1, <2>1, Zenon DEF FieldType
<1>3. Same(f, field) /\ f.live = field.live /\ f.timer = 0
  BY <1>1 DEF FieldType, Same
<1>4. field' = IF field.timer = f.revision /\ f.live = f.revision /\ ~f.disposed THEN Executed(f) ELSE f
  BY DEF DebounceFires
<1> HIDE DEF f
<1>5. field' = Executed(f)
  BY <1>1, <1>3, <1>4 DEF Same
<1>6. Steady(f)
  BY <1>1, <1>2, <1>3 DEF Steady, Same
<1>7. f.live = f.revision /\ f.revision # 0 /\ ~f.disposed
  BY <1>1, <1>3 DEF Same
<1>8. Steady(Executed(f)) /\ Waits(Executed(f)) /\ f.runs \subseteq Executed(f).runs
  BY <1>1, <1>3, <1>6, <1>7, ExecutedSteady
<1>9. Steady(field') /\ Waits(field') /\ field.runs \subseteq (field').runs
  BY <1>3, <1>5, <1>8 DEF Same
<1> QED BY <1>9, KeptRunsFresh DEF FieldStep

LEMMA SettleInv == FieldInv /\ Settle => FieldStep
<1> SUFFICES ASSUME FieldInv, Settle PROVE FieldStep
  OBVIOUS
<1>1. PICK r \in field.runs : Answered(r) \/ Rejected(r)
  BY DEF Settle
<1> DEFINE live == IF field.live = r.revision THEN 0 ELSE field.live
           l == Left(r)
<1>2. Steady(field) /\ field \in FieldType /\ setup \in SetupType
  BY DEF FieldInv, Steady
<1>3. l = [field EXCEPT !.runs = field.runs \ {r}, !.live = live]
  BY <1>2 DEF Left, FieldType
<1>4. l \in FieldType
  <2> HIDE DEF l
  <2>1. live \in 0..MaxRevision
    BY <1>2, RevisionBound DEF FieldType
  <2>2. field.runs \ {r} \in SUBSET [revision : 1..MaxRevision, value : Values]
    BY <1>2 DEF FieldType
  <2> HIDE DEF live
  <2> QED BY <1>2, <1>3, <2>1, <2>2, Zenon DEF FieldType
<1>5. /\ l.value = field.value /\ l.parse = field.parse /\ l.parseIssue = field.parseIssue
      /\ l.own = field.own /\ l.server = field.server /\ l.shown = field.shown
      /\ l.pending = field.pending /\ l.revision = field.revision
      /\ l.disposed = field.disposed /\ l.timer = field.timer
      /\ l.runs = field.runs \ {r} /\ l.live = live
  <2> HIDE DEF l, live
  <2> QED BY <1>2, <1>3 DEF FieldType
<1>6. \A q \in field.runs : q.revision # 0
  BY <1>2 DEF FieldType
<1> HIDE DEF l
<1>7. CASE Current(r)
  <2>1. field.live = r.revision /\ l.live = 0 /\ l.timer = 0 /\ r.value = field.value
    BY <1>2, <1>5, <1>7 DEF Current, Steady
  <2> HIDE DEF live
  <2>2. Steady(l)
    BY <1>2, <1>4, <1>5, <1>6, <2>1 DEF Steady
  <2>3. CASE Answered(r)
    <3>1. PICK issues \in SUBSET {"bad", "taken", "manual"} : field' = Verdict(l, issues)
      <4>1. PICK issues \in {{}, {r.value} \cap {"taken"}} : field' = Verdict(l, issues)
        BY <1>7, <2>3 DEF Answered, l
      <4>2. issues \in SUBSET {"bad", "taken", "manual"}
        BY <4>1
      <4> QED BY <4>1, <4>2
    <3>2. Steady(Verdict(l, issues)) /\ Verdict(l, issues).pending = FALSE
          /\ Verdict(l, issues).runs = l.runs
      BY <2>1, <2>2, VerdictSteady
    <3>3. Verdict(l, issues).value = l.value
      BY <1>4 DEF Verdict, Synced, FieldType
    <3>4. Steady(field') /\ (field').pending = FALSE /\ (field').runs = l.runs
          /\ (field').value = field.value
      BY <1>5, <3>1, <3>2, <3>3
    <3>5. Fresh(field, field')
      BY <1>5, <2>1, <3>4 DEF Fresh
    <3> QED BY <3>4, <3>5 DEF FieldStep, Waits
  <2>4. CASE Rejected(r)
    <3> DEFINE p == [l EXCEPT !.pending = FALSE]
    <3>1. field' = p
      BY <1>7, <2>4 DEF Rejected, l
    <3>2. p \in FieldType
      BY <1>4, Zenon DEF FieldType
    <3>3. /\ p.value = l.value /\ p.parse = l.parse /\ p.parseIssue = l.parseIssue
          /\ p.own = l.own /\ p.server = l.server /\ p.shown = l.shown
          /\ p.pending = FALSE /\ p.revision = l.revision
          /\ p.disposed = l.disposed /\ p.timer = l.timer /\ p.runs = l.runs /\ p.live = l.live
      BY <1>4 DEF FieldType
    <3> HIDE DEF p
    <3>4. Steady(p)
      BY <1>5, <1>6, <2>1, <2>2, <3>2, <3>3 DEF Steady
    <3>5. Waits(p) /\ Fresh(field, p)
      BY <1>5, <2>1, <3>3 DEF Waits, Fresh
    <3> QED BY <3>1, <3>4, <3>5 DEF FieldStep
  <2> QED BY <1>1, <2>3, <2>4
<1>8. CASE ~Current(r)
  <2>1. field' = l
    BY <1>1, <1>8 DEF Answered, Rejected, l
  <2>2. field.live # r.revision
    BY <1>2, <1>6, <1>8 DEF Current, Steady
  <2>3. l.live = field.live
    BY <1>5, <2>2
  <2> HIDE DEF live
  <2>4. Steady(l)
    BY <1>2, <1>4, <1>5, <2>3 DEF Steady
  <2>5. Waits(field)
    BY DEF FieldInv
  <2>6. Waits(l)
    BY <1>5, <2>2, <2>3, <2>5 DEF Waits
  <2>7. Fresh(field, l)
    BY <1>5 DEF Fresh
  <2> QED BY <2>1, <2>4, <2>6, <2>7 DEF FieldStep
<1> QED BY <1>7, <1>8

(* What ends or replaces the issues of the parser and the server.          *)
LEMMA ClearedFacts ==
    ASSUME NEW f \in FieldType
    PROVE  LET c == Cleared(f) IN
           /\ c \in FieldType /\ c.shown = Combined(c.own, c.server, c.parseIssue)
           /\ c.parseIssue = FALSE /\ c.parse = f.parse /\ c.live = f.live /\ c.timer = f.timer
           /\ c.revision = f.revision /\ c.runs = f.runs /\ c.pending = f.pending
           /\ c.disposed = f.disposed
<1> DEFINE e == [f EXCEPT !.parseIssue = FALSE, !.server = FALSE]
           g == Synced(e)
           status == IF f.own = {} THEN "unvalidated" ELSE g.status
           c == [g EXCEPT !.status = status]
<1>1. e \in FieldType
  BY Zenon DEF FieldType
<1>2. /\ e.parseIssue = FALSE /\ e.server = FALSE /\ e.own = f.own /\ e.parse = f.parse
      /\ e.live = f.live /\ e.timer = f.timer /\ e.revision = f.revision /\ e.runs = f.runs
      /\ e.pending = f.pending /\ e.disposed = f.disposed
  BY DEF FieldType
<1> HIDE DEF e
<1>3. /\ g \in FieldType /\ g.shown = Combined(e.own, e.server, e.parseIssue)
      /\ \E shown \in SUBSET Issues : g = [e EXCEPT !.shown = shown]
  BY <1>1, SyncedFacts
<1>4. /\ g.parseIssue = e.parseIssue /\ g.server = e.server /\ g.own = e.own /\ g.parse = e.parse
      /\ g.live = e.live /\ g.timer = e.timer /\ g.revision = e.revision /\ g.runs = e.runs
      /\ g.pending = e.pending /\ g.disposed = e.disposed
  BY <1>1, <1>3 DEF FieldType
<1>5. Cleared(f) = c
  BY <1>3 DEF Cleared, e, FieldType
<1> HIDE DEF g
<1>6. c \in FieldType
  <2>1. status \in {"unvalidated", "valid", "invalid"}
    BY <1>3 DEF FieldType
  <2> HIDE DEF status
  <2> QED BY <1>3, <2>1, Zenon DEF FieldType
<1>7. /\ c.parseIssue = g.parseIssue /\ c.server = g.server /\ c.own = g.own /\ c.parse = g.parse
      /\ c.live = g.live /\ c.timer = g.timer /\ c.revision = g.revision /\ c.runs = g.runs
      /\ c.pending = g.pending /\ c.disposed = g.disposed /\ c.shown = g.shown
  <2> HIDE DEF status
  <2> QED BY <1>3 DEF FieldType
<1> HIDE DEF c
<1> QED BY <1>2, <1>3, <1>4, <1>5, <1>6, <1>7

LEMMA UnparsedType ==
    Unparsed \in {"unparsed", "parsed", "invalid"} /\ Unparsed # "invalid"
    /\ (setup.parser = FALSE => Unparsed = "unparsed")
BY DEF Unparsed

LEMMA WrittenSteady ==
    ASSUME NEW f, Steady(f), NEW v \in Values
    PROVE  Steady(Written(f, v)) /\ Written(f, v).revision = f.revision
           /\ Written(f, v).runs = f.runs
<1> DEFINE c == Cancelled(f)
           g == [c EXCEPT !.value = v, !.parse = Unparsed]
           e == [g EXCEPT !.parseIssue = FALSE, !.server = FALSE]
           w == Written(f, v)
<1>1. /\ Steady(c) /\ c.live = 0 /\ c.timer = 0 /\ c.pending = f.pending
      /\ c.revision = f.revision /\ c.disposed = f.disposed /\ c.runs = f.runs
  BY CancelledSteady
<1>2. c.shown = f.shown /\ c.own = f.own /\ c.server = f.server /\ c.parseIssue = f.parseIssue
  BY DEF Cancelled, Steady, FieldType
<1>3. w = IF f.shown \cap {"parse", "server"} # {} THEN Cleared(g) ELSE e
  BY DEF Written
<1> HIDE DEF c, w
<1>4. c \in FieldType /\ c.shown = Combined(c.own, c.server, c.parseIssue)
  BY <1>1 DEF Steady
<1>5. g \in FieldType
  BY <1>4, UnparsedType, Zenon DEF FieldType
<1>6. /\ g.parse = Unparsed /\ g.live = 0 /\ g.timer = 0 /\ g.pending = f.pending
      /\ g.revision = f.revision /\ g.disposed = f.disposed /\ g.runs = f.runs
      /\ g.shown = c.shown /\ g.own = c.own /\ g.server = c.server /\ g.parseIssue = c.parseIssue
  BY <1>1, <1>4 DEF FieldType
<1> HIDE DEF g
<1>7. f.revision \in Nat
  BY RevisionBound DEF Steady, FieldType
<1>8. /\ w \in FieldType /\ w.shown = Combined(w.own, w.server, w.parseIssue)
      /\ w.parseIssue = FALSE /\ w.parse = g.parse /\ w.live = g.live /\ w.timer = g.timer
      /\ w.revision = g.revision /\ w.runs = g.runs /\ w.pending = g.pending
      /\ w.disposed = g.disposed
  <2>1. CASE f.shown \cap {"parse", "server"} # {}
    BY <1>3, <1>5, <2>1, ClearedFacts
  <2>2. CASE f.shown \cap {"parse", "server"} = {}
    <3>1. w = e
      BY <1>3, <2>2
    <3>2. e \in FieldType
      BY <1>5, Zenon DEF FieldType
    <3>3. /\ e.parseIssue = FALSE /\ e.server = FALSE /\ e.own = g.own /\ e.shown = g.shown
          /\ e.parse = g.parse /\ e.live = g.live /\ e.timer = g.timer
          /\ e.revision = g.revision /\ e.runs = g.runs /\ e.pending = g.pending
          /\ e.disposed = g.disposed
      BY <1>5 DEF FieldType
    <3>4. c.parseIssue = FALSE /\ c.server = FALSE
      <4>1. c.parseIssue \in BOOLEAN /\ c.server \in BOOLEAN
        BY <1>4, Zenon DEF FieldType
      <4>2. c.shown \cap {"parse", "server"} = {}
        BY <1>2, <2>2
      <4> QED BY <1>4, <4>1, <4>2 DEF Combined
    <3> HIDE DEF e
    <3>5. e.shown = Combined(e.own, e.server, e.parseIssue)
      BY <1>4, <1>6, <3>3, <3>4
    <3> QED BY <3>1, <3>2, <3>3, <3>5
  <2> QED BY <2>1, <2>2
<1>9. Steady(w)
  <2>1. w.revision >= f.revision
    BY <1>6, <1>7, <1>8
  <2>2. (w.parse = "invalid") <=> (w.parseIssue = TRUE)
    BY <1>6, <1>8, UnparsedType
  <2>3. setup.parser = FALSE => w.parse = "unparsed"
    BY <1>6, <1>8, UnparsedType
  <2>4. w.live = 0 /\ w.timer = 0 /\ w.runs = f.runs /\ w.pending \in {f.pending, FALSE}
        /\ w.disposed = f.disposed
    BY <1>6, <1>8
  <2> QED BY <1>8, <2>1, <2>2, <2>3, <2>4, RewrittenSteady
<1> QED BY <1>6, <1>8, <1>9 DEF w

LEMMA SetValueInv == FieldInv /\ SetValue => FieldStep
<1> SUFFICES ASSUME FieldInv, SetValue PROVE FieldStep
  OBVIOUS
<1>1. PICK v \in Values : field' = Triggered(Written(field, v), "change")
  BY DEF SetValue
<1> DEFINE w == Written(field, v)
<1>2. Steady(field) /\ setup \in SetupType /\ field.revision + 1 <= MaxRevision
  BY RevisionBound DEF FieldInv, SetValue, MayBegin, Steady, FieldType
<1>3. Steady(w) /\ w.revision + 1 <= MaxRevision /\ w.runs = field.runs
  BY <1>2, WrittenSteady
<1> HIDE DEF w
<1>4. "change" \in {"change", "blur"}
  OBVIOUS
<1>5. PICK change \in {"change", "blur"} : change = "change"
  BY <1>4
<1>6. Steady(Triggered(w, change)) /\ Waits(Triggered(w, change))
  BY <1>2, <1>3, <1>5, TriggeredSteady
<1>7. w.runs \subseteq Triggered(w, change).runs
  BY <1>2, <1>3, TriggeredKeeps
<1>8. Steady(field') /\ Waits(field') /\ field.runs \subseteq (field').runs
  BY <1>1, <1>3, <1>5, <1>6, <1>7 DEF w
<1> QED BY <1>8, KeptRunsFresh DEF FieldStep

LEMMA SetTouchedInv == FieldInv /\ SetTouched => FieldStep
<1> SUFFICES ASSUME FieldInv, SetTouched PROVE FieldStep
  OBVIOUS
<1>1. /\ Steady(field) /\ Waits(field) /\ setup \in SetupType /\ field.revision + 1 <= MaxRevision
      /\ field' = Triggered(field, "blur")
  BY RevisionBound DEF FieldInv, SetTouched, MayBegin, Steady, FieldType
<1>2. PICK blur \in {"change", "blur"} : blur = "blur"
  OBVIOUS
<1>3. Steady(Triggered(field, blur)) /\ Waits(Triggered(field, blur))
  BY <1>1, TriggeredSteady
<1>4. field.runs \subseteq Triggered(field, blur).runs
  BY <1>1, TriggeredKeeps
<1>5. Steady(field') /\ Waits(field') /\ field.runs \subseteq (field').runs
  BY <1>1, <1>2, <1>3, <1>4
<1> QED BY <1>5, KeptRunsFresh DEF FieldStep

LEMMA SetRawValueInv == FieldInv /\ SetRawValue => FieldStep
<1> SUFFICES ASSUME FieldInv, SetRawValue PROVE FieldStep
  OBVIOUS
<1> DEFINE c == Cancelled(field)
           n == field.revision + 1
           F(raw) == [c EXCEPT !.raw = raw, !.revision = n]
<1>1. /\ Steady(c) /\ c.live = 0 /\ c.timer = 0 /\ c.pending = field.pending
      /\ c.revision = field.revision /\ c.disposed = field.disposed /\ c.runs = field.runs
      /\ Steady(field) /\ setup \in SetupType
  BY CancelledSteady DEF FieldInv
<1>2. field.revision \in Nat /\ n \in 0..MaxRevision /\ n + 1 <= MaxRevision
  BY <1>1, RevisionBound DEF SetRawValue, MayBegin, Steady, FieldType
<1>3. PICK raw \in (IF setup.parser THEN Raws ELSE Values) :
         \/ field' = IF raw = "garbage" THEN Refused(F(raw)) ELSE Triggered(Parsed(F(raw), raw), "change")
         \/ setup.parser /\ field' = F(raw)
  BY <1>1 DEF SetRawValue
<1>4. /\ raw \in Raws /\ (raw = "garbage" => setup.parser) /\ (raw # "garbage" => raw \in Values)
  BY <1>3 DEF Raws, Values
<1> HIDE DEF c, n
<1> DEFINE f == F(raw)
<1>5. c \in FieldType /\ c.shown = Combined(c.own, c.server, c.parseIssue)
  BY <1>1 DEF Steady
<1>6. f \in FieldType
  BY <1>2, <1>4, <1>5, Zenon DEF FieldType
<1>7. /\ f.parse = c.parse /\ f.parseIssue = c.parseIssue /\ f.own = c.own /\ f.server = c.server
      /\ f.shown = c.shown /\ f.live = c.live /\ f.timer = c.timer /\ f.runs = c.runs
      /\ f.pending = c.pending /\ f.disposed = c.disposed /\ f.revision = n
  BY <1>5 DEF FieldType
<1>8. n >= c.revision /\ n >= field.revision
  BY <1>1, <1>2 DEF n
<1> HIDE DEF F, f
<1>9. Steady(f)
  <2>1. /\ (f.parse = "invalid") <=> (f.parseIssue = TRUE)
        /\ setup.parser = FALSE => f.parse = "unparsed"
    BY <1>1, <1>7 DEF Steady
  <2>2. f.shown = Combined(f.own, f.server, f.parseIssue)
    BY <1>5, <1>7
  <2>3. f.live = 0 /\ f.timer = 0 /\ f.revision >= c.revision /\ f.runs = c.runs
        /\ f.pending \in {c.pending, FALSE} /\ f.disposed = c.disposed
    BY <1>1, <1>7, <1>8
  <2> QED BY <1>1, <1>6, <2>1, <2>2, <2>3, RewrittenSteady
<1>10. CASE setup.parser /\ field' = f
  BY <1>1, <1>7, <1>9, <1>10, KeptRunsFresh DEF FieldStep, Waits, Eager
<1>11. CASE raw = "garbage" /\ field' = Refused(f)
  <2> DEFINE e == [f EXCEPT !.parseIssue = TRUE, !.server = FALSE, !.parse = "invalid",
                            !.status = "invalid", !.pending = FALSE]
             g == Synced(e)
  <2>1. e \in FieldType
    BY <1>6, Zenon DEF FieldType
  <2>2. /\ e.parseIssue = TRUE /\ e.parse = "invalid" /\ e.pending = FALSE /\ e.own = f.own
        /\ e.live = f.live /\ e.timer = f.timer /\ e.runs = f.runs /\ e.disposed = f.disposed
        /\ e.revision = f.revision
    BY <1>6 DEF FieldType
  <2>3. field' = g
    BY <1>11 DEF Refused
  <2> HIDE DEF e
  <2>4. /\ g \in FieldType /\ g.shown = Combined(e.own, e.server, e.parseIssue)
        /\ \E shown \in SUBSET Issues : g = [e EXCEPT !.shown = shown]
    BY <2>1, SyncedFacts
  <2>5. /\ g.parseIssue = e.parseIssue /\ g.parse = e.parse /\ g.pending = e.pending /\ g.own = e.own
        /\ g.live = e.live /\ g.timer = e.timer /\ g.runs = e.runs /\ g.disposed = e.disposed
        /\ g.revision = e.revision /\ g.server = e.server
    BY <2>1, <2>4 DEF FieldType
  <2> HIDE DEF g
  <2>6. setup.parser # FALSE
    BY <1>4, <1>11
  <2>7. Steady(g)
    <3>1. /\ (g.parse = "invalid") <=> (g.parseIssue = TRUE)
          /\ setup.parser = FALSE => g.parse = "unparsed"
      BY <2>2, <2>5, <2>6
    <3>2. g.shown = Combined(g.own, g.server, g.parseIssue)
      BY <2>4, <2>5
    <3>3. g.live = 0 /\ g.timer = 0 /\ g.revision >= c.revision /\ g.runs = c.runs
          /\ g.pending \in {c.pending, FALSE} /\ g.disposed = c.disposed
      BY <1>1, <1>7, <1>8, <2>2, <2>5
    <3> QED BY <1>1, <2>4, <3>1, <3>2, <3>3, RewrittenSteady
  <2>8. Waits(g) /\ field.runs \subseteq g.runs
    BY <1>1, <1>7, <2>2, <2>5 DEF Waits
  <2> QED BY <2>3, <2>7, <2>8, KeptRunsFresh DEF FieldStep
<1>12. CASE raw # "garbage" /\ field' = Triggered(Parsed(f, raw), "change")
  <2> DEFINE e == [f EXCEPT !.value = raw, !.parse = Unparsed]
             g == Cleared(e)
  <2>1. e \in FieldType
    BY <1>4, <1>6, <1>12, UnparsedType, Zenon DEF FieldType
  <2>2. /\ e.parse = Unparsed /\ e.pending = f.pending
        /\ e.live = f.live /\ e.timer = f.timer /\ e.runs = f.runs /\ e.disposed = f.disposed
        /\ e.revision = f.revision
    BY <1>6 DEF FieldType
  <2>3. field' = Triggered(g, "change")
    BY <1>12 DEF Parsed
  <2> HIDE DEF e
  <2>4. /\ g \in FieldType /\ g.shown = Combined(g.own, g.server, g.parseIssue)
        /\ g.parseIssue = FALSE /\ g.parse = e.parse /\ g.live = e.live /\ g.timer = e.timer
        /\ g.revision = e.revision /\ g.runs = e.runs /\ g.pending = e.pending
        /\ g.disposed = e.disposed
    BY <2>1, ClearedFacts
  <2> HIDE DEF g
  <2>5. Steady(g)
    <3>1. /\ (g.parse = "invalid") <=> (g.parseIssue = TRUE)
          /\ setup.parser = FALSE => g.parse = "unparsed"
      BY <2>2, <2>4, UnparsedType
    <3>2. g.live = 0 /\ g.timer = 0 /\ g.revision >= c.revision /\ g.runs = c.runs
          /\ g.pending \in {c.pending, FALSE} /\ g.disposed = c.disposed
      BY <1>1, <1>7, <1>8, <2>2, <2>4
    <3> QED BY <1>1, <2>4, <3>1, <3>2, RewrittenSteady
  <2>6. g.revision + 1 <= MaxRevision /\ g.runs = field.runs
    BY <1>1, <1>2, <1>7, <2>2, <2>4
  <2>7. PICK change \in {"change", "blur"} : change = "change"
    OBVIOUS
  <2>8. Steady(Triggered(g, change)) /\ Waits(Triggered(g, change))
    BY <1>1, <2>5, <2>6, <2>7, TriggeredSteady
  <2>9. g.runs \subseteq Triggered(g, change).runs
    BY <1>1, <2>5, <2>6, TriggeredKeeps
  <2>10. Steady(field') /\ Waits(field') /\ field.runs \subseteq (field').runs
    BY <2>3, <2>6, <2>7, <2>8, <2>9
  <2> QED BY <2>10, KeptRunsFresh DEF FieldStep
<1> QED BY <1>3, <1>10, <1>11, <1>12 DEF f

LEMMA ResetInv == FieldInv /\ Reset => FieldStep
<1> SUFFICES ASSUME FieldInv, Reset PROVE FieldStep
  OBVIOUS
<1>1. PICK v \in Values :
        field' = [field EXCEPT !.value = v, !.raw = v, !.parse = Unparsed, !.parseIssue = FALSE,
                               !.own = {}, !.server = FALSE, !.shown = {}, !.status = "unvalidated",
                               !.pending = FALSE, !.revision = field.revision + 1, !.live = 0, !.timer = 0]
  BY DEF Reset, FieldInv, Steady, FieldType
<1> DEFINE n == field.revision + 1
<1>2. Steady(field) /\ field \in FieldType
  BY DEF FieldInv, Steady
<1>3. n \in 0..MaxRevision /\ n >= field.revision /\ 0 \in 0..MaxRevision
  BY <1>2, RevisionBound DEF Reset, MayBegin, FieldType
<1> HIDE DEF n
<1> DEFINE g == [field EXCEPT !.value = v, !.raw = v, !.parse = Unparsed, !.parseIssue = FALSE,
                              !.own = {}, !.server = FALSE, !.shown = {}, !.status = "unvalidated",
                              !.pending = FALSE, !.revision = n, !.live = 0, !.timer = 0]
<1>4. field' = g
  BY <1>1 DEF n
<1>5. g \in FieldType
  <2>1. v \in Raws
    BY DEF Raws
  <2>2. {} \in SUBSET Issues /\ {} \in SUBSET {"bad", "taken", "manual"}
    OBVIOUS
  <2> QED BY <1>2, <1>3, <2>1, <2>2, UnparsedType, Zenon DEF FieldType
<1>6. /\ g.parse = Unparsed /\ g.parseIssue = FALSE /\ g.own = {} /\ g.server = FALSE /\ g.shown = {}
      /\ g.pending = FALSE /\ g.revision = n /\ g.live = 0 /\ g.timer = 0
      /\ g.runs = field.runs /\ g.disposed = field.disposed
  BY <1>2 DEF FieldType
<1> HIDE DEF g
<1>7. Steady(g)
  <2>1. g.shown = Combined(g.own, g.server, g.parseIssue)
    BY <1>6 DEF Combined
  <2>2. /\ (g.parse = "invalid") <=> (g.parseIssue = TRUE)
        /\ setup.parser = FALSE => g.parse = "unparsed"
    BY <1>6, UnparsedType
  <2> QED BY <1>2, <1>3, <1>5, <1>6, <2>1, <2>2, RewrittenSteady
<1>8. Waits(g) /\ field.runs \subseteq g.runs
  BY <1>6 DEF Waits
<1> QED BY <1>4, <1>7, <1>8, KeptRunsFresh DEF FieldStep

(* What is left alone by a call that only gives issues.                    *)
Still(g) ==
    /\ g.value = field.value /\ g.parse = field.parse /\ g.parseIssue = field.parseIssue
    /\ g.pending = field.pending /\ g.revision = field.revision /\ g.live = field.live
    /\ g.timer = field.timer /\ g.runs = field.runs /\ g.disposed = field.disposed

LEMMA IssuesInv ==
    ASSUME FieldInv, NEW own \in SUBSET {"bad", "taken", "manual"}, NEW server \in BOOLEAN,
           NEW status \in {"unvalidated", "valid", "invalid"},
           field' = [Synced([field EXCEPT !.own = own, !.server = server]) EXCEPT !.status = status]
    PROVE  FieldStep
<1> DEFINE e == [field EXCEPT !.own = own, !.server = server]
           g == Synced(e)
           h == [g EXCEPT !.status = status]
<1>1. field \in FieldType /\ Steady(field) /\ Waits(field)
  BY DEF FieldInv, Steady
<1>2. e \in FieldType
  BY <1>1, Zenon DEF FieldType
<1>3. Still(e)
  BY <1>1 DEF FieldType, Still
<1>4. field' = h
  OBVIOUS
<1> HIDE DEF e
<1>5. /\ g \in FieldType /\ g.shown = Combined(e.own, e.server, e.parseIssue)
      /\ \E shown \in SUBSET Issues : g = [e EXCEPT !.shown = shown]
  BY <1>2, SyncedFacts
<1>6. Still(g) /\ g.own = e.own /\ g.server = e.server
  BY <1>2, <1>3, <1>5 DEF FieldType, Still
<1> HIDE DEF g
<1>7. h \in FieldType
  BY <1>5, Zenon DEF FieldType
<1>8. Still(h) /\ h.own = g.own /\ h.server = g.server /\ h.shown = g.shown
  BY <1>5, <1>6 DEF FieldType, Still
<1> HIDE DEF h
<1>9. h.shown = Combined(h.own, h.server, h.parseIssue)
  BY <1>3, <1>5, <1>6, <1>8 DEF Still
<1>10. h.parse = field.parse /\ h.parseIssue = field.parseIssue
       /\ h.live = field.live /\ h.timer = field.timer /\ h.revision = field.revision
       /\ h.runs = field.runs /\ h.value = field.value /\ h.disposed = field.disposed
  BY <1>8 DEF Still
<1>11. h.pending = field.pending
  BY <1>8 DEF Still
<1>12. Steady(h)
  BY <1>1, <1>7, <1>9, <1>10, <1>11 DEF Steady
<1>13. Waits(h) /\ field.runs \subseteq h.runs
  BY <1>1, <1>10, <1>11 DEF Waits
<1> QED BY <1>4, <1>12, <1>13, KeptRunsFresh DEF FieldStep

LEMMA SetServerIssuesInv == FieldInv /\ SetServerIssues => FieldStep
<1> SUFFICES ASSUME FieldInv, SetServerIssues PROVE FieldStep
  OBVIOUS
<1>1. PICK some \in BOOLEAN :
        field' = LET f == Synced([field EXCEPT !.server = some]) IN
                 [f EXCEPT !.status = IF some THEN "invalid" ELSE @]
  BY DEF SetServerIssues
<1> DEFINE e == [field EXCEPT !.server = some]
           g == Synced(e)
           status == IF some THEN "invalid" ELSE g.status
           own == field.own
<1>2. field \in FieldType /\ own \in SUBSET {"bad", "taken", "manual"}
  BY DEF FieldInv, Steady, FieldType
<1>3. e \in FieldType /\ e = [field EXCEPT !.own = own, !.server = some]
  BY <1>2, Zenon DEF FieldType
<1>4. g \in FieldType
  BY <1>3, SyncedFacts
<1>5. status \in {"unvalidated", "valid", "invalid"}
  BY <1>4 DEF FieldType
<1>6. field' = [g EXCEPT !.status = status]
  BY <1>1, <1>4 DEF FieldType
<1>7. field' = [Synced([field EXCEPT !.own = own, !.server = some]) EXCEPT !.status = status]
  <2> HIDE DEF status
  <2> QED BY <1>3, <1>6, Zenon
<1> HIDE DEF status, own
<1> QED BY <1>2, <1>5, <1>7, IssuesInv

LEMMA ClearServerIssuesInv == FieldInv /\ ClearServerIssues => FieldStep
<1> SUFFICES ASSUME FieldInv, ClearServerIssues PROVE FieldStep
  OBVIOUS
<1> DEFINE none == FALSE
           e == [field EXCEPT !.server = none]
           g == Synced(e)
           status == IF ~g.parseIssue /\ g.own = {} /\ g.status = "invalid" THEN "unvalidated"
                     ELSE g.status
           own == field.own
<1>2. field \in FieldType /\ own \in SUBSET {"bad", "taken", "manual"} /\ none \in BOOLEAN
  BY DEF FieldInv, Steady, FieldType
<1>3. e \in FieldType /\ e = [field EXCEPT !.own = own, !.server = none]
  BY <1>2, Zenon DEF FieldType
<1>4. g \in FieldType
  BY <1>3, SyncedFacts
<1>5. status \in {"unvalidated", "valid", "invalid"}
  BY <1>4 DEF FieldType
<1>6. field' = [g EXCEPT !.status = status]
  BY <1>4 DEF ClearServerIssues, FieldType
<1>7. field' = [Synced([field EXCEPT !.own = own, !.server = none]) EXCEPT !.status = status]
  <2> HIDE DEF status
  <2> QED BY <1>3, <1>6, Zenon
<1> HIDE DEF status, own, none
<1> QED BY <1>2, <1>5, <1>7, IssuesInv

LEMMA SetPendingInv == FieldInv /\ SetPending => FieldStep
<1> SUFFICES ASSUME FieldInv, SetPending PROVE FieldStep
  OBVIOUS
<1>1. PICK p \in BOOLEAN : field' = [field EXCEPT !.pending = p]
  BY DEF SetPending
<1> DEFINE h == [field EXCEPT !.pending = p]
<1>2. field \in FieldType /\ Steady(field)
  BY DEF FieldInv, Steady
<1>3. h \in FieldType
  BY <1>2, Zenon DEF FieldType
<1>4. /\ h.value = field.value /\ h.parse = field.parse /\ h.parseIssue = field.parseIssue
      /\ h.own = field.own /\ h.server = field.server /\ h.shown = field.shown
      /\ h.revision = field.revision /\ h.live = field.live
      /\ h.timer = field.timer /\ h.runs = field.runs /\ h.disposed = field.disposed
  BY <1>2 DEF FieldType
<1>5. setup.manual
  BY DEF SetPending
<1> HIDE DEF h
<1>6. Steady(h)
  BY <1>2, <1>3, <1>4, <1>5 DEF Steady
<1>7. Waits(h) /\ field.runs \subseteq h.runs
  BY <1>4, <1>5 DEF Waits, Eager
<1> QED BY <1>1, <1>6, <1>7, KeptRunsFresh DEF FieldStep, h

LEMMA SetIssuesInv == FieldInv /\ SetIssues => FieldStep
<1> SUFFICES ASSUME FieldInv, SetIssues PROVE FieldStep
  OBVIOUS
<1>1. PICK issues \in SUBSET {"manual", "parse"} :
        field' = [Synced([field EXCEPT !.own = issues \ {"parse"}, !.server = FALSE])
                     EXCEPT !.status = IF issues = {} THEN "valid" ELSE "invalid"]
  BY DEF SetIssues
<1> DEFINE own == issues \ {"parse"}
           none == FALSE
           status == IF issues = {} THEN "valid" ELSE "invalid"
<1>2. own \in SUBSET {"bad", "taken", "manual"} /\ none \in BOOLEAN
      /\ status \in {"unvalidated", "valid", "invalid"}
  OBVIOUS
<1>3. field' = [Synced([field EXCEPT !.own = own, !.server = none]) EXCEPT !.status = status]
  BY <1>1
<1> HIDE DEF own, none, status
<1> QED BY <1>2, <1>3, IssuesInv

LEMMA SetErrorsInv == FieldInv /\ SetErrors => FieldStep
<1> SUFFICES ASSUME FieldInv, SetErrors PROVE FieldStep
  OBVIOUS
<1>1. PICK own \in {{}, {"manual"}} :
        field' = [Synced([field EXCEPT !.own = own])
                     EXCEPT !.status = IF own = {} /\ ~field.server THEN "valid" ELSE "invalid"]
  BY DEF SetErrors
<1> DEFINE server == field.server
           status == IF own = {} /\ ~server THEN "valid" ELSE "invalid"
<1>2. field \in FieldType /\ own \in SUBSET {"bad", "taken", "manual"}
  BY <1>1 DEF FieldInv, Steady
<1>3. server \in BOOLEAN
  BY <1>2, Zenon DEF FieldType
<1>4. status \in {"unvalidated", "valid", "invalid"}
  OBVIOUS
<1>5. [field EXCEPT !.own = own] = [field EXCEPT !.own = own, !.server = server]
  BY <1>2, Zenon DEF FieldType
<1>6. field' = [Synced([field EXCEPT !.own = own, !.server = server]) EXCEPT !.status = status]
  <2>1. field' = [Synced([field EXCEPT !.own = own]) EXCEPT !.status = status]
    BY <1>1
  <2> HIDE DEF status
  <2> QED BY <1>5, <2>1, Zenon
<1> HIDE DEF server, status
<1> QED BY <1>2, <1>3, <1>4, <1>6, IssuesInv

LEMMA DisposeInv == FieldInv /\ Dispose => FieldStep
<1> SUFFICES ASSUME FieldInv, Dispose PROVE FieldStep
  OBVIOUS
<1> DEFINE c == Cancelled(field)
           n == field.revision + 1
           gone == TRUE
           h == [c EXCEPT !.disposed = gone, !.revision = n, !.pending = FALSE]
<1>1. /\ Steady(c) /\ c.live = 0 /\ c.timer = 0 /\ c.revision = field.revision
      /\ c.runs = field.runs /\ c \in FieldType
  BY CancelledSteady DEF FieldInv, Steady
<1>2. n \in 0..MaxRevision /\ field.revision \in Nat /\ n = field.revision + 1
  BY RevisionBound DEF Dispose, MayBegin, FieldInv, Steady, FieldType
<1>3. field' = h
  BY <1>1 DEF Dispose
<1> HIDE DEF c, n
<1>4. h \in FieldType
  BY <1>1, <1>2, Zenon DEF FieldType
<1>5. /\ h.value = c.value /\ h.parse = c.parse /\ h.parseIssue = c.parseIssue
      /\ h.own = c.own /\ h.server = c.server /\ h.shown = c.shown
      /\ h.revision = n /\ h.live = c.live /\ h.pending = FALSE
      /\ h.timer = c.timer /\ h.runs = c.runs
  BY <1>1 DEF FieldType
<1> HIDE DEF h
<1>6. \A r \in c.runs : r.revision \in Nat /\ r.revision # 0 /\ r.revision <= c.revision
  BY <1>1 DEF Steady, FieldType
<1>7. \A r \in h.runs : r.revision # 0 /\ r.revision <= h.revision
  BY <1>1, <1>2, <1>5, <1>6
<1>8. Steady(h)
  BY <1>1, <1>4, <1>5, <1>7 DEF Steady
<1>9. Waits(h) /\ field.runs \subseteq h.runs
  BY <1>1, <1>5 DEF Waits
<1> QED BY <1>3, <1>8, <1>9, KeptRunsFresh DEF FieldStep

LEMMA FieldNextStep == FieldInv /\ FieldNext => FieldStep
BY ValidateInv, DebounceFiresInv, SettleInv, SetValueInv, SetRawValueInv, SetTouchedInv, ResetInv,
   SetServerIssuesInv, ClearServerIssuesInv, SetPendingInv, SetIssuesInv, SetErrorsInv, DisposeInv
DEF FieldNext

LEMMA FieldNextInv == FieldInv /\ [FieldNext]_fieldvars => FieldInv'
<1> SUFFICES ASSUME FieldInv, [FieldNext]_fieldvars PROVE FieldInv'
  OBVIOUS
<1>1. CASE FieldNext
  <2>1. FieldStep /\ setup' = setup
    BY <1>1, FieldNextStep DEF FieldNext
  <2>2. Eager' <=> Eager
    BY <2>1 DEF Eager
  <2> QED BY <2>1, <2>2 DEF FieldStep, FieldInv, Steady, Waits, FieldType
<1>2. CASE UNCHANGED fieldvars
  BY <1>2 DEF fieldvars, FieldInv, Steady, Waits, Eager, FieldType
<1> QED BY <1>1, <1>2

LEMMA FieldInvariance == FieldSpec => []FieldInv
BY FieldInitInv, FieldNextInv, PTL DEF FieldSpec

LEMMA FieldInvHolds == FieldInv => IssuesAreHeld /\ PendingIsLive
<1> SUFFICES ASSUME FieldInv PROVE IssuesAreHeld /\ PendingIsLive
  OBVIOUS
<1>1. Steady(field) /\ Waits(field) /\ field \in FieldType
  BY DEF FieldInv, Steady
<1>2. IssuesAreHeld
  <2>1. field.own \subseteq {"bad", "taken", "manual"} /\ field.parseIssue \in BOOLEAN
    BY <1>1, Zenon DEF FieldType
  <2>2. (Combined(field.own, field.server, field.parseIssue) = {"parse"}) <=> field.parseIssue = TRUE
    BY <2>1 DEF Combined
  <2> QED BY <1>1, <2>2 DEF IssuesAreHeld, Steady
<1>3. ASSUME ~setup.manual PROVE \A r \in field.runs : Current(r) => field.pending
  BY <1>1, <1>3 DEF Current, Steady
<1>4. ASSUME Eager, field.pending
      PROVE  field.timer # 0 \/ \E r \in field.runs : Current(r)
  <2>1. field.timer # 0 \/ \E r \in field.runs : r.revision = field.live
    BY <1>1, <1>4 DEF Waits
  <2>2. \A r \in field.runs : r.revision # 0
    BY <1>1 DEF FieldType
  <2>3. ~field.disposed
    BY <1>1, <1>4 DEF Steady, Eager
  <2> QED BY <1>1, <2>1, <2>2, <2>3 DEF Steady, Current
<1> QED BY <1>2, <1>3, <1>4 DEF PendingIsLive, Eager

(* createField() of the prototype: a field shows what its parser, its rules*)
(* and the server last said, in whatever order they spoke; it is pending   *)
(* while rules run for its current revision, and, where nothing leaves the *)
(* flag behind, only while something will end it; and a verdict that       *)
(* arrives late is about the value the field holds.                        *)
THEOREM FieldIsAlwaysSound == FieldSpec => FieldIsSound
<1>1. FieldInv /\ [FieldNext]_fieldvars =>
        [(field'.runs # field.runs /\ field'.own # field.own /\ field'.revision = field.revision
          /\ field.runs \ field'.runs # {}) =>
              \A r \in field.runs \ field'.runs : r.value = field'.value]_fieldvars
  BY FieldNextStep DEF FieldStep, Fresh
<1> QED BY <1>1, FieldInvariance, FieldInvHolds, PTL DEF FieldSpec, FieldIsSound, VerdictsAreCurrent
-----------------------------------------------------------------------------
(* PrototypeArray.                                                         *)

ItemRecords == [id : Keys \cup {NoKey} \cup Nat, node : Nat, key : Keys \cup {NoKey}]

(* A list of items that are told apart by their identities and by their    *)
(* nodes, of which n were made; an identity is a key or the node's own.    *)
Tidy(list, n) ==
    /\ list \in Seq(ItemRecords)
    /\ \A i \in 1..Len(list) :
        /\ list[i].node \in 1..n
        /\ list[i].id = list[i].node \/ (options.keyed /\ list[i].id \notin Nat)
    /\ \A i, j \in 1..Len(list) : i # j => list[i].node # list[j].node /\ list[i].id # list[j].id

ArrayInv ==
    /\ options \in ArraySetupType /\ made \in 0..MaxNodes /\ arrayUp \in BOOLEAN
    /\ Tidy(items, made)
    /\ scopes \subseteq 1..made
    /\ arrayUp /\ ~options.fragile => NodesOf(items) \subseteq scopes

(* A step drops no item whose scope it leaves, unless keys clash.          *)
DropsDisposed ==
    ~options.fragile /\ ~(options.keyed /\ Clashing) =>
        (NodesOf(items) \ NodesOf(items')) \cap scopes' = {}
ArrayStep == ArrayInv' /\ DropsDisposed
-----------------------------------------------------------------------------
(* Of the natural numbers of a set one is the least: strict inclusion of   *)
(* intervals is well-founded.                                              *)
LEMMA LeastNatural ==
    ASSUME NEW T \in SUBSET Nat, T # {}
    PROVE  \E n \in T : \A m \in T : n <= m
<1> DEFINE U == {0..n : n \in T}
           R == StrictSubsetOrdering(Nat)
           S == FiniteSubsetsOf(Nat)
<1>1. IsWellFoundedOn(R, S)
  BY FS_StrictSubsetOrderingWellFounded
<1>2. U \subseteq S /\ U # {}
  <2>1. ASSUME NEW n \in T PROVE 0..n \in S
    <3>1. 0..n \subseteq Nat
      BY SMT
    <3>2. IsFiniteSet(0..n)
      BY FS_Interval
    <3> QED BY <3>1, <3>2 DEF FiniteSubsetsOf
  <2> QED BY <2>1
<1>3. PICK u \in U : \A v \in U : ~(<<v, u>> \in R)
  <2> HIDE DEF U, R, S
  <2> QED BY <1>1, <1>2, WFMin
<1>4. PICK n \in T : u = 0..n
  OBVIOUS
<1>5. ASSUME NEW m \in T, m < n PROVE FALSE
  <2>1. 0..m \subseteq 0..n /\ 0..m # 0..n /\ 0..n \subseteq Nat
    BY <1>5, SMT
  <2>2. <<0..m, 0..n>> \in R
    BY <2>1 DEF StrictSubsetOrdering
  <2> QED BY <1>3, <1>4, <2>2
<1> QED BY <1>5, SMT

(* What InsertAt() makes of a sequence of n members.                       *)
IsPlaced(t, s, n, i, e) ==
    /\ Len(t) = n + 1
    /\ \A j \in 1..(n + 1) : t[j] = IF j < i THEN s[j] ELSE IF j = i THEN e ELSE s[j - 1]

LEMMA PlacedIn ==
    ASSUME NEW S, NEW s \in Seq(S), NEW i \in 1..(Len(s) + 1), NEW e \in S
    PROVE  InsertAt(s, i, e) \in Seq(S) /\ IsPlaced(InsertAt(s, i, e), s, Len(s), i, e)
<1> DEFINE x == SubSeq(s, 1, i - 1)
           y == SubSeq(s, i, Len(s))
           z == x \o <<e>>
<1>0. Len(s) \in Nat /\ \A j \in 1..Len(s) : s[j] \in S
  BY LenProperties, ElementOfSeq
<1>1. /\ i - 1 \in Nat /\ i \in Nat /\ Len(s) - i + 1 \in Nat
      /\ 1..(i - 1) \subseteq 1..Len(s) /\ i..Len(s) \subseteq 1..Len(s)
  BY <1>0
<1>2. x \in Seq(S) /\ Len(x) = i - 1 /\ \A j \in 1..(i - 1) : x[j] = s[j]
  BY <1>0, <1>1, SubSeqProperties
<1>3. y \in Seq(S) /\ Len(y) = Len(s) - i + 1
      /\ \A j \in 1..(Len(s) - i + 1) : y[j] = s[i + j - 1]
  BY <1>0, <1>1, SubSeqProperties
<1> DEFINE o == <<e>>
<1>4. o \in Seq(S) /\ Len(o) = 1 /\ o[1] = e
  OBVIOUS
<1> HIDE DEF x, y, o
<1>5. z \in Seq(S) /\ Len(z) = i /\ \A j \in 1..i : z[j] = IF j <= i - 1 THEN x[j] ELSE o[j - (i - 1)]
  <2>1. /\ x \o o \in Seq(S) /\ Len(x \o o) = Len(x) + Len(o)
        /\ \A j \in 1..(Len(x) + Len(o)) : (x \o o)[j] = IF j <= Len(x) THEN x[j] ELSE o[j - Len(x)]
    BY <1>2, <1>4, ConcatProperties
  <2> QED BY <1>1, <1>2, <1>4, <2>1 DEF o
<1> HIDE DEF z
<1>6. /\ z \o y \in Seq(S) /\ Len(z \o y) = Len(z) + Len(y)
      /\ \A j \in 1..(Len(z) + Len(y)) : (z \o y)[j] = IF j <= Len(z) THEN z[j] ELSE y[j - Len(z)]
  BY <1>3, <1>5, ConcatProperties
<1>7. InsertAt(s, i, e) = z \o y
  BY DEF InsertAt, x, y, z, o
<1> DEFINE t == z \o y
<1>8. t \in Seq(S) /\ Len(t) = Len(s) + 1
  BY <1>0, <1>1, <1>3, <1>5, <1>6
<1>9. ASSUME NEW j \in 1..(Len(s) + 1)
      PROVE  t[j] = IF j < i THEN s[j] ELSE IF j = i THEN e ELSE s[j - 1]
  <2>1. t[j] = IF j <= i THEN z[j] ELSE y[j - i]
    BY <1>0, <1>1, <1>3, <1>5, <1>6
  <2> HIDE DEF t
  <2>2. CASE j < i
    <3>1. j \in 1..i /\ j \in 1..(i - 1) /\ j <= i - 1 /\ j <= i
      BY <1>0, <1>1, <2>2
    <3> QED BY <1>2, <1>5, <2>1, <2>2, <3>1
  <2>3. CASE j = i
    <3>1. j \in 1..i /\ ~(j <= i - 1) /\ j - (i - 1) = 1
      BY <1>0, <1>1, <2>3
    <3> QED BY <1>1, <1>4, <1>5, <2>1, <2>3, <3>1
  <2>4. CASE j > i
    <3>1. j - i \in 1..(Len(s) - i + 1) /\ ~(j <= i) /\ i + (j - i) - 1 = j - 1
      BY <1>0, <1>1, <2>4
    <3>2. y[j - i] = s[i + (j - i) - 1]
      BY <1>3, <3>1
    <3> QED BY <1>1, <2>1, <2>4, <3>1, <3>2
  <2> QED BY <1>0, <1>1, <2>2, <2>3, <2>4
<1> HIDE DEF t
<1>10. IsPlaced(t, s, Len(s), i, e)
  BY <1>8, <1>9 DEF IsPlaced
<1> QED BY <1>7, <1>8, <1>10 DEF t

LEMMA TakenOut ==
    ASSUME NEW S, NEW s \in Seq(S), NEW i \in 1..Len(s)
    PROVE  LET t == RemoveAt(s, i) IN
           /\ t \in Seq(S) /\ Len(t) = Len(s) - 1
           /\ \A j \in 1..(Len(s) - 1) : t[j] = IF j < i THEN s[j] ELSE s[j + 1]
<1> DEFINE x == SubSeq(s, 1, i - 1)
           y == SubSeq(s, i + 1, Len(s))
           t == x \o y
<1>0. Len(s) \in Nat /\ \A j \in 1..Len(s) : s[j] \in S
  BY LenProperties, ElementOfSeq
<1>1. /\ i - 1 \in Nat /\ i + 1 \in Nat /\ Len(s) - i \in Nat /\ i \in Nat
      /\ 1..(i - 1) \subseteq 1..Len(s) /\ (i + 1)..Len(s) \subseteq 1..Len(s)
      /\ Len(s) - (i + 1) + 1 = Len(s) - i
  BY <1>0
<1>2. x \in Seq(S) /\ Len(x) = i - 1 /\ \A j \in 1..(i - 1) : x[j] = s[j]
  BY <1>0, <1>1, SubSeqProperties
<1>3. y \in Seq(S) /\ Len(y) = Len(s) - i /\ \A j \in 1..(Len(s) - i) : y[j] = s[i + 1 + j - 1]
  <2> DEFINE m == i + 1
             n == Len(s)
  <2>1. m \in Int /\ n \in Int /\ \A j \in m..n : s[j] \in S
    BY <1>0, <1>1
  <2>2. n - m + 1 = n - i /\ (IF m <= n THEN n - m + 1 ELSE 0) = n - i
    <3>1. n \in Nat /\ i \in 1..n
      BY <1>0
    <3> HIDE DEF n
    <3> QED BY <3>1
  <2> HIDE DEF m, n
  <2>3. /\ SubSeq(s, m, n) \in Seq(S) /\ Len(SubSeq(s, m, n)) = IF m <= n THEN n - m + 1 ELSE 0
        /\ \A j \in 1..(n - m + 1) : SubSeq(s, m, n)[j] = s[m + j - 1]
    BY <2>1, SubSeqProperties
  <2> QED BY <2>2, <2>3 DEF m, n
<1>4. RemoveAt(s, i) = t
  BY DEF RemoveAt
<1> HIDE DEF x, y
<1>5. /\ t \in Seq(S) /\ Len(t) = Len(x) + Len(y)
      /\ \A j \in 1..(Len(x) + Len(y)) : t[j] = IF j <= Len(x) THEN x[j] ELSE y[j - Len(x)]
  BY <1>2, <1>3, ConcatProperties
<1> HIDE DEF t
<1>6. ASSUME NEW j \in 1..(Len(s) - 1) PROVE t[j] = IF j < i THEN s[j] ELSE s[j + 1]
  <2>1. t[j] = IF j <= i - 1 THEN x[j] ELSE y[j - (i - 1)]
    BY <1>0, <1>1, <1>2, <1>3, <1>5
  <2>2. CASE j < i
    <3>1. j \in 1..(i - 1) /\ j <= i - 1
      BY <1>0, <1>1, <2>2
    <3> QED BY <1>2, <2>1, <2>2, <3>1
  <2>3. CASE j >= i
    <3>1. j - (i - 1) \in 1..(Len(s) - i) /\ ~(j <= i - 1) /\ i + 1 + (j - (i - 1)) - 1 = j + 1 /\ ~(j < i)
      BY <1>0, <1>1, <2>3
    <3>2. y[j - (i - 1)] = s[i + 1 + (j - (i - 1)) - 1]
      BY <1>3, <3>1
    <3> QED BY <2>1, <3>1, <3>2
  <2> QED BY <1>0, <1>1, <2>2, <2>3
<1>7. t \in Seq(S) /\ Len(t) = Len(s) - 1
  BY <1>0, <1>1, <1>2, <1>3, <1>5
<1> QED BY <1>4, <1>6, <1>7

LEMMA NodesOfList ==
    ASSUME NEW n, NEW list, Tidy(list, n)
    PROVE  /\ Len(list) \in Nat /\ DOMAIN list = 1..Len(list)
           /\ \A m : m \in NodesOf(list) <=> \E i \in 1..Len(list) : list[i].node = m
           /\ \A m : m \in IdsOf(list) <=> \E i \in 1..Len(list) : list[i].id = m
           /\ NodesOf(list) \subseteq 1..n
BY LenProperties DEF Tidy, NodesOf, IdsOf

LEMMA IdsCount ==
    ASSUME NEW n, NEW list, Tidy(list, n)
    PROVE  Cardinality(IdsOf(list)) = Len(list)
<1> DEFINE f == [i \in 1..Len(list) |-> list[i].id]
<1>1. Len(list) \in Nat /\ IdsOf(list) = {list[i].id : i \in 1..Len(list)}
  BY NodesOfList DEF IdsOf
<1>2. f \in Surjection(1..Len(list), IdsOf(list))
  BY <1>1 DEF Surjection
<1>3. f \in Injection(1..Len(list), IdsOf(list))
  <2>1. f \in [1..Len(list) -> IdsOf(list)]
    BY <1>1
  <2>2. \A i, j \in 1..Len(list) : i # j => list[i].id # list[j].id
    BY DEF Tidy
  <2>3. \A i, j \in 1..Len(list) : f[i] = f[j] => i = j
    BY <2>2
  <2> HIDE DEF f
  <2>4. IsInjective(f)
    BY <2>1, <2>3 DEF IsInjective
  <2> QED BY <2>1, <2>4 DEF Injection
<1>4. IsFiniteSet(1..Len(list)) /\ Cardinality(1..Len(list)) = Len(list)
  <2>1. PICK l \in Nat : l = Len(list)
    BY <1>1
  <2>2. 1 \in Int /\ l \in Int /\ (IF 1 > l THEN 0 ELSE l - 1 + 1) = l
    BY SMT
  <2>3. IsFiniteSet(1..l) /\ Cardinality(1..l) = IF 1 > l THEN 0 ELSE l - 1 + 1
    BY <2>2, FS_Interval
  <2> QED BY <2>1, <2>2, <2>3
<1> HIDE DEF f
<1> QED BY <1>2, <1>3, <1>4, FS_Surjection

(* New items have nodes, and identities, that no other item has.           *)
LEMMA CreatedItems ==
    ASSUME options \in ArraySetupType, NEW n \in Nat,
           NEW values \in Seq(Keys \cup {NoKey}), NEW list, list = Created(values, n)
    PROVE  /\ list \in Seq(ItemRecords) /\ Len(list) = Len(values)
           /\ \A i \in 1..Len(values) :
                /\ list[i].node = n + i /\ list[i].key = values[i]
                /\ \/ list[i].id = n + i
                   \/ options.keyed /\ values[i] # NoKey /\ list[i].id = values[i]
<1>1. Len(values) \in Nat /\ DOMAIN values = 1..Len(values)
  BY LenProperties
<1>2. \A i \in 1..Len(values) :
        /\ n + i \in Nat /\ values[i] \in Keys \cup {NoKey}
        /\ Id(values[i], n + i) \in Keys \cup {NoKey} \cup Nat
        /\ \/ Id(values[i], n + i) = n + i
           \/ options.keyed /\ values[i] # NoKey /\ Id(values[i], n + i) = values[i]
  BY <1>1, ElementOfSeq DEF Id
<1>3. list = [i \in 1..Len(values) |->
                 [id |-> Id(values[i], n + i), node |-> n + i, key |-> values[i]]]
  BY <1>1 DEF Created
<1>4. list \in [1..Len(values) -> ItemRecords]
  BY <1>2, <1>3 DEF ItemRecords
<1>5. list \in Seq(ItemRecords) /\ Len(list) = Len(values)
  BY <1>1, <1>4, IsASeq, LenProperties
<1> QED BY <1>2, <1>3, <1>5

(* The list is replaced, by one that a step may drop items from.           *)
LEMMA ReplaceStep ==
    ASSUME ArrayInv, NEW list, NEW dropped, Replace(list, dropped),
           made' \in 0..MaxNodes, made <= made', Tidy(list, made'),
           UNCHANGED <<options, arrayUp>>, dropped \cap NodesOf(list) = {},
           ~(options.keyed /\ Clashing) => NodesOf(items) \ NodesOf(list) \subseteq dropped
    PROVE  ArrayStep
<1>1. made \in Nat /\ made' \in Nat
  BY ArrayBounds DEF ArrayInv
<1>2. /\ Len(items) \in Nat /\ DOMAIN items = 1..Len(items)
      /\ \A m : m \in NodesOf(items) <=> \E i \in 1..Len(items) : items[i].node = m
      /\ NodesOf(items) \subseteq 1..made
  BY NodesOfList DEF ArrayInv
<1>3. NodesOf(list) \subseteq 1..made'
  BY NodesOfList
<1>4. 1..made \subseteq 1..made' /\ scopes \subseteq 1..made
  BY <1>1 DEF ArrayInv
<1>5. New(list) \subseteq 1..made'
  BY <1>3 DEF New
<1>6. options' = options /\ arrayUp' = arrayUp
  OBVIOUS
<1>7. Tidy(items, made)
  BY DEF ArrayInv
<1>8. CASE options.fragile /\ dropped \cap scopes # {}
  <2>1. /\ scopes' \subseteq scopes \cup New(list)
        /\ items' = [i \in DOMAIN items |-> [items[i] EXCEPT !.key = KeyIn(list, items[i])]]
    BY <1>8 DEF Replace
  <2>2. ASSUME NEW i \in 1..Len(items)
        PROVE  /\ items[i] \in ItemRecords
               /\ KeyIn(list, items[i]) \in Keys \cup {NoKey}
    <3>1. items[i] \in ItemRecords
      BY <1>2, <1>7, ElementOfSeq DEF Tidy
    <3>2. CASE items[i].node \in NodesOf(list)
      <4>1. /\ DOMAIN list = 1..Len(list) /\ list \in Seq(ItemRecords)
            /\ \E j \in 1..Len(list) : list[j].node = items[i].node
        BY <3>2, NodesOfList DEF Tidy
      <4>2. ToSet(list) \subseteq ItemRecords
        BY <4>1, ElementOfSeq DEF ToSet
      <4>3. \E it \in ToSet(list) : it.node = items[i].node
        BY <4>1 DEF ToSet
      <4> DEFINE it == CHOOSE it \in ToSet(list) : it.node = items[i].node
      <4>4. it \in ToSet(list)
        BY <4>3
      <4>5. KeyIn(list, items[i]) = it.key
        BY <3>2 DEF KeyIn
      <4> HIDE DEF it
      <4> QED BY <3>1, <4>2, <4>4, <4>5 DEF ItemRecords
    <3>3. CASE items[i].node \notin NodesOf(list)
      BY <3>1, <3>3 DEF KeyIn, ItemRecords
    <3> QED BY <3>1, <3>2, <3>3
  <2>3. /\ items' \in [1..Len(items) -> ItemRecords]
        /\ \A i \in 1..Len(items) : items'[i].node = items[i].node /\ items'[i].id = items[i].id
    BY <1>2, <2>1, <2>2 DEF ItemRecords
  <2>4. items' \in Seq(ItemRecords) /\ Len(items') = Len(items)
    BY <1>2, <2>3, IsASeq, LenProperties
  <2>5. /\ \A i \in 1..Len(items') :
            /\ items'[i].node \in 1..made'
            /\ items'[i].id = items'[i].node \/ (options'.keyed /\ items'[i].id \notin Nat)
        /\ \A i, j \in 1..Len(items') : i # j =>
            items'[i].node # items'[j].node /\ items'[i].id # items'[j].id
    <3> DEFINE N == 1..Len(items)
    <3>1. /\ \A i \in N : /\ items[i].node \in 1..made
                          /\ items[i].id = items[i].node \/ (options.keyed /\ items[i].id \notin Nat)
          /\ \A i, j \in N : i # j => items[i].node # items[j].node /\ items[i].id # items[j].id
      BY <1>7 DEF Tidy
    <3>2. 1..Len(items') = N /\ \A i \in N : items'[i].node = items[i].node /\ items'[i].id = items[i].id
      BY <2>3, <2>4
    <3> HIDE DEF N
    <3>3. \A i \in N : /\ items'[i].node \in 1..made'
                       /\ items'[i].id = items'[i].node \/ (options'.keyed /\ items'[i].id \notin Nat)
      BY <1>4, <1>6, <3>1, <3>2
    <3>4. \A i, j \in N : i # j => items'[i].node # items'[j].node /\ items'[i].id # items'[j].id
      <4> TAKE i, j \in N
      <4>1. i # j => items[i].node # items[j].node /\ items[i].id # items[j].id
        BY <3>1
      <4> QED BY <3>2, <4>1, Zenon
    <3> QED BY <3>2, <3>3, <3>4
  <2>6. scopes' \subseteq 1..made'
    BY <1>4, <1>5, <2>1
  <2>7. Tidy(items, made)'
    BY <2>4, <2>5 DEF Tidy
  <2>8. options' \in ArraySetupType /\ made' \in 0..MaxNodes /\ arrayUp' \in BOOLEAN /\ options'.fragile
    BY <1>6, <1>8 DEF ArrayInv
  <2>9. ArrayInv'
    BY <2>6, <2>7, <2>8 DEF ArrayInv
  <2> QED BY <1>8, <2>9 DEF ArrayStep, DropsDisposed
<1>9. CASE ~(options.fragile /\ dropped \cap scopes # {})
  <2>1. scopes' = (scopes \cup New(list)) \ dropped /\ items' = list
    BY <1>9 DEF Replace
  <2>2. Tidy(items, made)'
    <3>1. \A l : l = items' => Tidy(l, made')
      BY <2>1
    <3> QED BY <1>6, <2>1 DEF Tidy
  <2>3. NodesOf(items)' = NodesOf(list)
    BY <2>1 DEF NodesOf
  <2>4. arrayUp /\ ~options.fragile => NodesOf(list) \subseteq scopes'
    BY <2>1 DEF ArrayInv, New
  <2>5. DropsDisposed
    BY <2>1, <2>3 DEF DropsDisposed
  <2>6. scopes' \subseteq 1..made'
    BY <1>4, <1>5, <2>1
  <2>7. options' \in ArraySetupType /\ made' \in 0..MaxNodes /\ arrayUp' \in BOOLEAN
    BY <1>6 DEF ArrayInv
  <2>8. arrayUp' /\ ~options'.fragile => NodesOf(items)' \subseteq scopes'
    BY <1>6, <2>3, <2>4
  <2>9. ArrayInv'
    BY <2>2, <2>6, <2>7, <2>8 DEF ArrayInv
  <2> QED BY <2>5, <2>9 DEF ArrayStep
<1> QED BY <1>8, <1>9

(* Items made for values of which no two have one key.                     *)
LEMMA CreatedTidy ==
    ASSUME options \in ArraySetupType, NEW n \in Nat,
           NEW values \in Seq(Keys \cup {NoKey}), NEW list, list = Created(values, n),
           options.keyed => ~Repeats(values, Keys)
    PROVE  Tidy(list, n + Len(values)) /\ \A m \in NodesOf(list) : m > n
<1> DEFINE l == Len(values)
<1>1. l \in Nat /\ DOMAIN values = 1..l
  BY LenProperties
<1>2. /\ list \in Seq(ItemRecords) /\ Len(list) = l
      /\ \A i \in 1..l : /\ list[i].node = n + i
                        /\ \/ list[i].id = n + i
                           \/ options.keyed /\ values[i] # NoKey /\ list[i].id = values[i]
  BY CreatedItems
<1>3. \A i \in 1..l : values[i] \in Keys \cup {NoKey} /\ values[i] \notin Nat
  BY <1>1, ElementOfSeq, KeysAssumption
<1> HIDE DEF l
<1>4. \A i \in 1..l : n + i \in Nat /\ n + i \in 1..(n + l) /\ n + i > n
  BY <1>1
<1>5. \A i, j \in 1..l : i # j => n + i # n + j
  BY <1>1
<1>6. ASSUME NEW i \in 1..l, NEW j \in 1..l, i # j
      PROVE  list[i].node # list[j].node /\ list[i].id # list[j].id
  <2>1. list[i].node # list[j].node
    <3>1. n + i # n + j
      BY <1>5, <1>6
    <3>2. list[i].node = n + i /\ list[j].node = n + j
      BY <1>2
    <3> QED BY <3>1, <3>2, Zenon
  <2>2. CASE list[i].id = n + i \/ list[j].id = n + j
    <3>1. n + i # n + j /\ n + i \in Nat /\ n + j \in Nat /\ values[i] \notin Nat /\ values[j] \notin Nat
      BY <1>3, <1>4, <1>5, <1>6
    <3>2. /\ list[i].id = n + i \/ list[i].id = values[i]
          /\ list[j].id = n + j \/ list[j].id = values[j]
      BY <1>2
    <3>3. list[i].id # list[j].id
      BY <2>2, <3>1, <3>2
    <3> QED BY <2>1, <3>3
  <2>3. CASE list[i].id # n + i /\ list[j].id # n + j
    <3>1. options.keyed /\ values[i] \in Keys /\ values[j] \in Keys
          /\ list[i].id = values[i] /\ list[j].id = values[j]
      BY <1>2, <1>3, <2>3
    <3>2. i < j \/ j < i
      BY <1>1, <1>6
    <3>3. values[i] # values[j]
      BY <1>1, <3>1, <3>2 DEF Repeats
    <3> QED BY <2>1, <3>1, <3>3
  <2> QED BY <2>1, <2>2, <2>3
<1>7. \A i \in 1..l : list[i].node \in 1..(n + l)
          /\ (list[i].id = list[i].node \/ (options.keyed /\ list[i].id \notin Nat))
  BY <1>2, <1>3, <1>4
<1>8. Tidy(list, n + l)
  BY <1>2, <1>6, <1>7 DEF Tidy
<1> QED BY <1>2, <1>4, <1>8, NodesOfList DEF l

LEMMA ArrayInitInv == ArrayInit => ArrayInv
<1> SUFFICES ASSUME ArrayInit PROVE ArrayInv
  OBVIOUS
<1> DEFINE values == options.initial
<1>1. options \in ArraySetupType
  BY ArraySetupsAssumption DEF ArrayInit
<1>2. PICK n \in 0..MaxItems : values \in [1..n -> Keys \cup {NoKey}]
  BY <1>1 DEF ArraySetupType, Lists
<1>3. n \in Nat /\ n <= MaxNodes /\ 0 + n = n
  BY ArrayBounds
<1>4. values \in Seq(Keys \cup {NoKey}) /\ Len(values) = n
  BY <1>2, <1>3, IsASeq, LenProperties
<1>5. options.keyed => ~Repeats(values, Keys)
  BY DEF ArrayInit
<1> HIDE DEF values
<1>6. items = Created(values, 0) /\ made = n /\ scopes = NodesOf(items) /\ arrayUp = TRUE
  BY <1>4 DEF ArrayInit, values
<1>7. Tidy(items, 0 + Len(values))
  BY <1>1, <1>4, <1>5, <1>6, CreatedTidy
<1>8. Tidy(items, made) /\ made \in 0..MaxNodes
  BY <1>3, <1>4, <1>6, <1>7
<1>9. NodesOf(items) \subseteq 1..made
  BY <1>8, NodesOfList
<1> QED BY <1>1, <1>6, <1>8, <1>9 DEF ArrayInv

(* Items are the same, in another order or with other keys.                *)
LEMMA SameItems ==
    ASSUME ArrayInv, items' \in Seq(ItemRecords), Len(items') = Len(items),
           NEW g \in [1..Len(items) -> 1..Len(items)],
           \A i, j \in 1..Len(items) : i # j => g[i] # g[j],
           \A j \in 1..Len(items) : \E i \in 1..Len(items) : g[i] = j,
           \A i \in 1..Len(items) : items'[i].node = items[g[i]].node /\ items'[i].id = items[g[i]].id,
           UNCHANGED <<options, made, scopes, arrayUp>>
    PROVE  ArrayStep
<1>1. Tidy(items, made)
  BY DEF ArrayInv
<1>2. /\ \A i \in 1..Len(items') :
          /\ items'[i].node \in 1..made'
          /\ items'[i].id = items'[i].node \/ (options'.keyed /\ items'[i].id \notin Nat)
      /\ \A i, j \in 1..Len(items') : i # j =>
          items'[i].node # items'[j].node /\ items'[i].id # items'[j].id
  <2> DEFINE N == 1..Len(items)
  <2>1. 1..Len(items') = N /\ made' = made /\ options' = options
    OBVIOUS
  <2>2. /\ \A k \in N :
            items[k].node \in 1..made
            /\ (items[k].id = items[k].node \/ (options.keyed /\ items[k].id \notin Nat))
        /\ \A k, l \in N : k # l => items[k].node # items[l].node /\ items[k].id # items[l].id
    BY <1>1 DEF Tidy
  <2>3. \A k \in N : g[k] \in N
    OBVIOUS
  <2> HIDE DEF N
  <2>4. /\ \A k, l \in N : k # l => g[k] # g[l]
        /\ \A k \in N : items'[k].node = items[g[k]].node /\ items'[k].id = items[g[k]].id
    BY DEF N
  <2>5. \A k \in N : items'[k].node \in 1..made
            /\ (items'[k].id = items'[k].node \/ (options.keyed /\ items'[k].id \notin Nat))
    <3> TAKE k \in N
    <3>1. g[k] \in N /\ items'[k].node = items[g[k]].node /\ items'[k].id = items[g[k]].id
      BY <2>3, <2>4, Zenon
    <3>2. /\ items[g[k]].node \in 1..made
          /\ items[g[k]].id = items[g[k]].node \/ (options.keyed /\ items[g[k]].id \notin Nat)
      BY <2>2, <3>1, Zenon
    <3> QED BY <3>1, <3>2, Zenon
  <2>6. \A k, l \in N : k # l => items'[k].node # items'[l].node /\ items'[k].id # items'[l].id
    <3> TAKE k, l \in N
    <3>1. /\ g[k] \in N /\ items'[k].node = items[g[k]].node /\ items'[k].id = items[g[k]].id
          /\ g[l] \in N /\ items'[l].node = items[g[l]].node /\ items'[l].id = items[g[l]].id
      BY <2>3, <2>4, Zenon
    <3>2. k # l => items[g[k]].node # items[g[l]].node /\ items[g[k]].id # items[g[l]].id
      BY <2>2, <2>4, <3>1, Zenon
    <3> QED BY <3>1, <3>2, Zenon
  <2> QED BY <2>1, <2>5, <2>6
<1>3. Tidy(items, made)'
  BY <1>2 DEF Tidy
<1>4. NodesOf(items)' = NodesOf(items)
  <2> DEFINE N == 1..Len(items)
  <2>1. DOMAIN items = N /\ DOMAIN items' = N
    BY <1>1, LenProperties DEF Tidy
  <2>2. /\ \A k \in N : g[k] \in N /\ items'[k].node = items[g[k]].node
        /\ \A k \in N : \E l \in N : g[l] = k
    OBVIOUS
  <2> HIDE DEF N
  <2>3. NodesOf(items) = {items[k].node : k \in N} /\ NodesOf(items') = {items'[k].node : k \in N}
    BY <2>1 DEF NodesOf
  <2>4. \A m \in NodesOf(items) : m \in NodesOf(items')
    <3> TAKE m \in NodesOf(items)
    <3>1. PICK k \in N : m = items[k].node
      BY <2>3
    <3>2. PICK l \in N : g[l] = k
      BY <2>2
    <3>3. items'[l].node = m
      BY <2>2, <3>1, <3>2, Zenon
    <3> QED BY <2>3, <3>3
  <2>5. \A m \in NodesOf(items') : m \in NodesOf(items)
    <3> TAKE m \in NodesOf(items')
    <3>1. PICK k \in N : m = items'[k].node
      BY <2>3
    <3>2. g[k] \in N /\ items[g[k]].node = m
      BY <2>2, <3>1, Zenon
    <3> QED BY <2>3, <3>2
  <2> QED BY <2>4, <2>5
<1>5. ArrayInv'
  BY <1>3, <1>4 DEF ArrayInv
<1>6. DropsDisposed
  BY <1>4 DEF DropsDisposed
<1> QED BY <1>5, <1>6 DEF ArrayStep

LEMMA SwapStep == ASSUME ArrayInv, NEW i, NEW j, Swap(i, j) PROVE ArrayStep
<1>1. /\ i \in 1..Len(items) /\ j \in 1..Len(items) /\ i # j
      /\ items' = [items EXCEPT ![i] = items[j], ![j] = items[i]]
      /\ items \in Seq(ItemRecords) /\ Len(items) \in Nat
      /\ DOMAIN items = 1..Len(items) /\ items \in [1..Len(items) -> ItemRecords]
      /\ UNCHANGED <<options, made, scopes, arrayUp>>
  BY LenProperties DEF Swap, ArrayInv, Tidy
<1> DEFINE N == 1..Len(items)
           g == [k \in N |-> IF k = i THEN j ELSE IF k = j THEN i ELSE k]
<1>2. items' \in [N -> ItemRecords] /\ \A k \in N : items'[k] = items[g[k]]
  BY <1>1
<1>3. items' \in Seq(ItemRecords) /\ Len(items') = Len(items)
  BY <1>1, <1>2, IsASeq, LenProperties
<1>4. /\ g \in [N -> N] /\ \A k, l \in N : k # l => g[k] # g[l]
      /\ \A k \in N : \E l \in N : g[l] = k
  <2>1. \A k \in N : g[k] \in N /\ g[g[k]] = k
    BY <1>1
  <2> QED BY <2>1
<1> HIDE DEF g
<1> QED BY <1>1, <1>2, <1>3, <1>4, SameItems

LEMMA EditKeyStep == ASSUME ArrayInv, NEW i, NEW key \in Keys \cup {NoKey}, EditKey(i, key) PROVE ArrayStep
<1>1. /\ i \in 1..Len(items) /\ items' = [items EXCEPT ![i].key = key]
      /\ items \in Seq(ItemRecords) /\ Len(items) \in Nat
      /\ DOMAIN items = 1..Len(items) /\ items \in [1..Len(items) -> ItemRecords]
      /\ UNCHANGED <<options, made, scopes, arrayUp>>
  BY LenProperties DEF EditKey, ArrayInv, Tidy
<1> DEFINE N == 1..Len(items)
           g == [k \in N |-> k]
<1>2. /\ items' \in [N -> ItemRecords]
      /\ \A k \in N : items'[k].node = items[g[k]].node /\ items'[k].id = items[g[k]].id
  BY <1>1 DEF ItemRecords
<1>3. items' \in Seq(ItemRecords) /\ Len(items') = Len(items)
  BY <1>1, <1>2, IsASeq, LenProperties
<1>4. /\ g \in [N -> N] /\ \A k, l \in N : k # l => g[k] # g[l]
      /\ \A k \in N : \E l \in N : g[l] = k
  OBVIOUS
<1> HIDE DEF g
<1> QED BY <1>1, <1>2, <1>3, <1>4, SameItems

LEMMA MoveStep == ASSUME ArrayInv, NEW i, NEW j, Move(i, j) PROVE ArrayStep
<1>1. /\ i \in 1..Len(items) /\ j \in 1..Len(items) /\ i # j
      /\ items' = InsertAt(RemoveAt(items, i), j, items[i])
      /\ items \in Seq(ItemRecords) /\ Len(items) \in Nat /\ items[i] \in ItemRecords
      /\ UNCHANGED <<options, made, scopes, arrayUp>>
  BY LenProperties, ElementOfSeq DEF Move, ArrayInv, Tidy
<1> DEFINE n == Len(items)
           N == 1..n
           r == RemoveAt(items, i)
           e == items[i]
<1>2. /\ r \in Seq(ItemRecords) /\ Len(r) = n - 1
      /\ \A k \in 1..(n - 1) : r[k] = IF k < i THEN items[k] ELSE items[k + 1]
  BY <1>1, TakenOut
<1>3. items' = InsertAt(r, j, e)
  BY <1>1
<1> HIDE DEF r, e
<1>4. j \in 1..(Len(r) + 1) /\ Len(r) + 1 = n /\ e \in ItemRecords
  BY <1>1, <1>2 DEF e
<1>5. /\ InsertAt(r, j, e) \in Seq(ItemRecords) /\ Len(InsertAt(r, j, e)) = n
      /\ \A k \in N : InsertAt(r, j, e)[k] = IF k < j THEN r[k] ELSE IF k = j THEN e ELSE r[k - 1]
  <2> DEFINE t == InsertAt(r, j, e)
  <2>1. /\ t \in Seq(ItemRecords) /\ Len(t) = Len(r) + 1
        /\ \A k \in 1..(Len(r) + 1) : t[k] = IF k < j THEN r[k] ELSE IF k = j THEN e ELSE r[k - 1]
    <3>1. r \in Seq(ItemRecords) /\ j \in 1..(Len(r) + 1) /\ e \in ItemRecords
      BY <1>2, <1>4
    <3>2. t \in Seq(ItemRecords) /\ IsPlaced(t, r, Len(r), j, e)
      BY <3>1, PlacedIn
    <3> HIDE DEF t
    <3> QED BY <3>2 DEF IsPlaced
  <2> HIDE DEF t, n
  <2> QED BY <1>4, <2>1 DEF t
<1> DEFINE low(k) == IF k < i THEN k ELSE k + 1
           g == [k \in N |-> IF k < j THEN low(k) ELSE IF k = j THEN i ELSE low(k - 1)]
<1>6. \A k \in 1..(n - 1) : low(k) \in N /\ r[k] = items[low(k)]
  BY <1>1, <1>2
<1>7. ASSUME NEW k \in N PROVE g[k] \in N /\ items'[k] = items[g[k]]
  <2>1. n \in Nat /\ i \in N /\ j \in N
    BY <1>1
  <2> HIDE DEF n, low
  <2>2. CASE k < j
    <3>1. k \in 1..(n - 1)
      BY <2>1, <2>2
    <3> QED BY <1>3, <1>5, <1>6, <2>2, <3>1
  <2>3. CASE k = j
    BY <1>3, <1>5, <2>1, <2>3 DEF e
  <2>4. CASE k > j
    <3>1. k - 1 \in 1..(n - 1) /\ ~(k < j) /\ k # j
      BY <2>1, <2>4
    <3> QED BY <1>3, <1>5, <1>6, <3>1
  <2> QED BY <2>1, <2>2, <2>3, <2>4
<1>8. /\ g \in [N -> N] /\ \A k, l \in N : k # l => g[k] # g[l]
  BY <1>1, <1>7
<1>9. \A k \in N : \E l \in N : g[l] = k
  <2> SUFFICES ASSUME NEW k \in N PROVE \E l \in N : g[l] = k
    OBVIOUS
  <2> DEFINE m == IF k < i THEN k ELSE k - 1
             p == IF m < j THEN m ELSE m + 1
  <2>1. CASE k = i
    <3>1. g[j] = k
      BY <1>1, <2>1
    <3> QED BY <1>1, <3>1
  <2>2. CASE k # i
    <3>1. p \in N /\ g[p] = k
      BY <1>1, <2>2
    <3> QED BY <3>1
  <2> QED BY <2>1, <2>2
<1> HIDE DEF g, low
<1>10. items' \in Seq(ItemRecords) /\ Len(items') = Len(items)
  BY <1>3, <1>5
<1> QED BY <1>1, <1>7, <1>8, <1>9, <1>10, SameItems

LEMMA InsertStep == ASSUME ArrayInv, NEW i, NEW key \in Keys \cup {NoKey}, Insert(i, key) PROVE ArrayStep
<1> DEFINE n == Len(items)
           one == <<key>>
           e == Created(one, made)[1]
           t == InsertAt(items, i, e)
<1>1. /\ i \in 1..(n + 1) /\ n \in Nat /\ made \in Nat /\ made + 1 \in 0..MaxNodes
      /\ ~(options.keyed /\ key # NoKey /\ key \in IdsOf(items))
      /\ Replace(t, {}) /\ made' = made + 1 /\ UNCHANGED <<options, arrayUp>>
      /\ Tidy(items, made) /\ items \in Seq(ItemRecords) /\ options \in ArraySetupType
  BY ArrayBounds, LenProperties DEF Insert, ArrayInv, Tidy
<1>2. /\ e \in ItemRecords /\ e.node = made + 1
      /\ e.id = made + 1 \/ (options.keyed /\ key # NoKey /\ e.id = key)
  <2>1. one \in Seq(Keys \cup {NoKey}) /\ Len(one) = 1 /\ one[1] = key
    OBVIOUS
  <2> HIDE DEF one
  <2> DEFINE list == Created(one, made)
  <2>2. /\ list \in Seq(ItemRecords) /\ Len(list) = Len(one)
        /\ \A k \in 1..Len(one) :
                /\ list[k].node = made + k /\ list[k].key = one[k]
                /\ \/ list[k].id = made + k
                   \/ options.keyed /\ one[k] # NoKey /\ list[k].id = one[k]
    <3>1. options \in ArraySetupType /\ made \in Nat /\ one \in Seq(Keys \cup {NoKey})
      BY <1>1, <2>1
    <3>2. list = Created(one, made)
      OBVIOUS
    <3> HIDE DEF list
    <3> QED BY <3>1, <3>2, CreatedItems
  <2> HIDE DEF list
  <2>3. list[1] \in ItemRecords
    <3>1. 1 \in 1..Len(list)
      BY <2>1, <2>2
    <3> QED BY <2>2, <3>1, ElementOfSeq
  <2>4. 1 \in 1..Len(one)
    BY <2>1
  <2> QED BY <2>1, <2>2, <2>3, <2>4 DEF list
<1> HIDE DEF e
<1>3. /\ t \in Seq(ItemRecords) /\ Len(t) = n + 1
      /\ \A j \in 1..(n + 1) : t[j] = IF j < i THEN items[j] ELSE IF j = i THEN e ELSE items[j - 1]
  <2>1. items \in Seq(ItemRecords) /\ i \in 1..(Len(items) + 1) /\ e \in ItemRecords
    BY <1>1, <1>2
  <2> HIDE DEF ItemRecords, t, n
  <2>2. InsertAt(items, i, e) \in Seq(ItemRecords) /\ IsPlaced(InsertAt(items, i, e), items, Len(items), i, e)
    BY <2>1, PlacedIn
  <2>3. t \in Seq(ItemRecords) /\ IsPlaced(t, items, n, i, e)
    BY <2>2 DEF t, n
  <2> QED BY <2>3 DEF IsPlaced
<1> HIDE DEF t
<1>4. \A j \in 1..n :
        /\ items[j].node \in 1..made
        /\ items[j].id = items[j].node \/ (options.keyed /\ items[j].id \notin Nat)
        /\ items[j].node # e.node /\ items[j].id # e.id
  <2> TAKE j \in 1..n
  <2>1. /\ items[j].node \in 1..made
        /\ items[j].id = items[j].node \/ (options.keyed /\ items[j].id \notin Nat)
    BY <1>1 DEF Tidy
  <2>2. items[j].node \in Nat /\ items[j].node # made + 1 /\ made + 1 \in Nat
    BY <1>1, <2>1
  <2>3. key \in IdsOf(items) \/ items[j].id # key
    BY <1>1, NodesOfList
  <2>4. key \notin Nat
    BY KeysAssumption
  <2> QED BY <1>1, <1>2, <2>1, <2>2, <2>3, <2>4
<1>5. e.node \in 1..(made + 1) /\ (e.id = e.node \/ (options.keyed /\ e.id \notin Nat))
  BY <1>1, <1>2, KeysAssumption
<1> DEFINE p(j) == IF j < i THEN j ELSE j - 1
<1>6. \A j \in 1..(n + 1) : (j = i /\ t[j] = e) \/ (j # i /\ p(j) \in 1..n /\ t[j] = items[p(j)])
  BY <1>1, <1>3
<1>7. \A j, k \in 1..(n + 1) : j # k /\ j # i /\ k # i => p(j) # p(k)
  BY <1>1
<1> HIDE DEF p
<1>8. 1..made \subseteq 1..(made + 1)
  BY <1>1
<1>9. \A j, k \in 1..n : j # k => items[j].node # items[k].node /\ items[j].id # items[k].id
  BY <1>1 DEF Tidy
<1>10. \A j \in 1..(n + 1) :
         t[j].node \in 1..(made + 1) /\ (t[j].id = t[j].node \/ (options.keyed /\ t[j].id \notin Nat))
  BY <1>4, <1>5, <1>6, <1>8
<1>11. \A j, k \in 1..(n + 1) : j # k => t[j].node # t[k].node /\ t[j].id # t[k].id
  <2> TAKE j, k \in 1..(n + 1)
  <2> HAVE j # k
  <2>1. CASE j = i
    BY <1>4, <1>6, <2>1
  <2>2. CASE k = i
    BY <1>4, <1>6, <2>2
  <2>3. CASE j # i /\ k # i
    BY <1>6, <1>7, <1>9, <2>3
  <2> QED BY <2>1, <2>2, <2>3
<1>12. Tidy(t, made + 1)
  BY <1>3, <1>10, <1>11 DEF Tidy
<1>13. NodesOf(items) \ NodesOf(t) \subseteq {}
  <2> SUFFICES ASSUME NEW m \in NodesOf(items) PROVE m \in NodesOf(t)
    OBVIOUS
  <2>1. PICK j \in 1..n : items[j].node = m
    BY <1>1, NodesOfList
  <2> DEFINE k == IF j < i THEN j ELSE j + 1
  <2>2. k \in 1..(n + 1) /\ t[k] = items[j]
    <3> HIDE DEF n
    <3>1. CASE j < i
      <4>1. j \in 1..(n + 1) /\ k = j
        BY <1>1, <3>1
      <4> QED BY <1>3, <3>1, <4>1
    <3>2. CASE ~(j < i)
      <4>1. j + 1 \in 1..(n + 1) /\ k = j + 1 /\ ~(j + 1 < i) /\ j + 1 # i /\ (j + 1) - 1 = j
        BY <1>1, <3>2
      <4> HIDE DEF k
      <4>2. t[j + 1] = items[(j + 1) - 1]
        BY <1>3, <4>1
      <4> QED BY <4>1, <4>2
    <3> QED BY <3>1, <3>2
  <2> HIDE DEF k
  <2>3. t[k].node = m /\ k \in 1..Len(t)
    BY <1>3, <2>1, <2>2
  <2> QED BY <1>12, <2>3, NodesOfList
<1>14. made' \in 0..MaxNodes /\ made <= made' /\ Tidy(t, made') /\ {} \cap NodesOf(t) = {}
  BY <1>1, <1>12
<1> DEFINE none == {}
<1>15. Replace(t, none) /\ none \cap NodesOf(t) = {} /\ NodesOf(items) \ NodesOf(t) \subseteq none
  BY <1>1, <1>13
<1> HIDE DEF none
<1> QED BY <1>1, <1>14, <1>15, ReplaceStep

LEMMA RemoveItemStep == ASSUME ArrayInv, NEW i, RemoveItem(i) PROVE ArrayStep
<1> DEFINE n == Len(items)
           t == RemoveAt(items, i)
           dropped == {items[i].node}
<1>1. /\ i \in 1..n /\ n \in Nat /\ made \in 0..MaxNodes
      /\ Replace(t, dropped) /\ made' = made /\ UNCHANGED <<options, arrayUp>>
      /\ Tidy(items, made) /\ items \in Seq(ItemRecords) /\ DOMAIN items = 1..n
  BY LenProperties DEF RemoveItem, ArrayInv, Tidy
<1>2. /\ t \in Seq(ItemRecords) /\ Len(t) = n - 1
      /\ \A j \in 1..(n - 1) : t[j] = IF j < i THEN items[j] ELSE items[j + 1]
  BY <1>1, TakenOut
<1> HIDE DEF t
<1> DEFINE p(j) == IF j < i THEN j ELSE j + 1
<1>3. \A j \in 1..(n - 1) : p(j) \in 1..n /\ p(j) # i /\ t[j] = items[p(j)]
  BY <1>1, <1>2
<1>4. \A j, k \in 1..(n - 1) : j # k => p(j) # p(k)
  BY <1>1
<1> HIDE DEF p
<1>5. /\ \A j \in 1..n : items[j].node \in 1..made
            /\ (items[j].id = items[j].node \/ (options.keyed /\ items[j].id \notin Nat))
      /\ \A j, k \in 1..n : j # k => items[j].node # items[k].node /\ items[j].id # items[k].id
  BY <1>1 DEF Tidy
<1>6. \A j \in 1..(n - 1) :
         t[j].node \in 1..made /\ (t[j].id = t[j].node \/ (options.keyed /\ t[j].id \notin Nat))
  BY <1>3, <1>5
<1>7. \A j, k \in 1..(n - 1) : j # k => t[j].node # t[k].node /\ t[j].id # t[k].id
  <2> TAKE j, k \in 1..(n - 1)
  <2>1. p(j) \in 1..n /\ t[j] = items[p(j)] /\ p(k) \in 1..n /\ t[k] = items[p(k)]
    BY <1>3
  <2>2. j # k => p(j) # p(k)
    BY <1>4
  <2> QED BY <1>5, <2>1, <2>2, Zenon
<1>8. Tidy(t, made)
  <2>1. t \in Seq(ItemRecords) /\ 1..Len(t) = 1..(n - 1)
    BY <1>2
  <2> DEFINE N == 1..(n - 1)
  <2>2. /\ \A j \in N : t[j].node \in 1..made
                /\ (t[j].id = t[j].node \/ (options.keyed /\ t[j].id \notin Nat))
        /\ \A j, k \in N : j # k => t[j].node # t[k].node /\ t[j].id # t[k].id
        /\ 1..Len(t) = N
    BY <1>6, <1>7, <2>1
  <2> HIDE DEF N
  <2> QED BY <2>1, <2>2 DEF Tidy
<1>9. dropped \cap NodesOf(t) = {}
  <2>1. \A m \in NodesOf(t) : \E j \in 1..(n - 1) : t[j].node = m
    BY <1>2, <1>8, NodesOfList
  <2> QED BY <1>1, <1>3, <1>5, <2>1
<1>10. NodesOf(items) \ NodesOf(t) \subseteq dropped
  <2> SUFFICES ASSUME NEW m \in NodesOf(items), m # items[i].node PROVE m \in NodesOf(t)
    OBVIOUS
  <2>1. PICK j \in 1..n : items[j].node = m
    BY <1>1, NodesOfList
  <2> DEFINE k == IF j < i THEN j ELSE j - 1
  <2>2. k \in 1..(n - 1) /\ t[k] = items[j]
    BY <1>1, <1>2, <2>1
  <2> HIDE DEF k
  <2>3. t[k].node = m /\ k \in 1..Len(t)
    BY <1>2, <2>1, <2>2
  <2> QED BY <1>8, <2>3, NodesOfList
<1>11. made' \in 0..MaxNodes /\ made <= made' /\ Tidy(t, made')
  BY <1>1, <1>8
<1> HIDE DEF dropped
<1> QED BY <1>1, <1>9, <1>10, <1>11, ReplaceStep

LEMMA DisposeArrayStep == ASSUME ArrayInv, DisposeArray PROVE ArrayStep
<1>1. ArrayInv'
  <2>1. /\ options' = options /\ made' = made /\ items' = items /\ arrayUp' = FALSE /\ scopes' = {}
    BY DEF DisposeArray
  <2>2. Tidy(items, made)'
    BY <2>1 DEF ArrayInv, Tidy
  <2> QED BY <2>1, <2>2 DEF ArrayInv
<1> QED BY <1>1 DEF DisposeArray, ArrayStep, DropsDisposed

LEMMA ListsAreSequences ==
    ASSUME NEW next \in Lists
    PROVE  next \in Seq(Keys \cup {NoKey}) /\ Len(next) \in Nat /\ DOMAIN next = 1..Len(next)
<1>1. PICK n \in 0..MaxItems : next \in [1..n -> Keys \cup {NoKey}]
  BY DEF Lists
<1>2. n \in Nat
  BY ArrayBounds
<1> QED BY <1>1, <1>2, IsASeq, LenProperties

LEMMA ResetArrayStep == ASSUME ArrayInv, NEW values \in Lists, ResetArray(values) PROVE ArrayStep
<1> DEFINE list == Created(values, made)
           dropped == NodesOf(items)
<1>1. /\ made' = made + Len(values) /\ made' <= MaxNodes /\ made \in Nat
      /\ options.keyed => ~Repeats(values, Keys)
      /\ Replace(list, dropped) /\ UNCHANGED <<options, arrayUp>>
      /\ options \in ArraySetupType /\ Tidy(items, made)
  BY ArrayBounds DEF ResetArray, ArrayInv
<1>2. values \in Seq(Keys \cup {NoKey}) /\ Len(values) \in Nat
  BY ListsAreSequences
<1>3. made' \in 0..MaxNodes /\ made <= made'
  BY <1>1, <1>2, ArrayBounds
<1>4. PICK l : l = list
  OBVIOUS
<1> HIDE DEF list
<1>5. Tidy(l, made + Len(values)) /\ \A m \in NodesOf(l) : m > made
  BY <1>1, <1>2, <1>4, CreatedTidy DEF list
<1>6. Replace(l, dropped) /\ Tidy(l, made')
  BY <1>1, <1>4, <1>5
<1>7. dropped \cap NodesOf(l) = {}
  <2>1. \A m \in dropped : m \in 1..made /\ ~(m > made)
    BY <1>1, NodesOfList
  <2> QED BY <1>5, <2>1
<1>8. NodesOf(items) \ NodesOf(l) \subseteq dropped
  OBVIOUS
<1> HIDE DEF dropped
<1> QED BY <1>1, <1>3, <1>6, <1>7, <1>8, ReplaceStep

(* One list behind another, with nothing in common.                        *)
LEMMA JoinedTidy ==
    ASSUME NEW n \in Nat, NEW m \in Nat, n <= m, NEW s, NEW t, Tidy(s, n), Tidy(t, m),
           \A i \in 1..Len(s), j \in 1..Len(t) : s[i].node # t[j].node /\ s[i].id # t[j].id
    PROVE  Tidy(s \o t, m) /\ NodesOf(s \o t) = NodesOf(s) \cup NodesOf(t)
<1> DEFINE u == s \o t
           p == Len(s)
           q == Len(t)
<1>1. s \in Seq(ItemRecords) /\ t \in Seq(ItemRecords) /\ p \in Nat /\ q \in Nat
  BY LenProperties DEF Tidy
<1>2. /\ u \in Seq(ItemRecords) /\ Len(u) = p + q
      /\ \A i \in 1..(p + q) : u[i] = IF i <= p THEN s[i] ELSE t[i - p]
  BY <1>1, ConcatProperties
<1>3. /\ \A i \in 1..p : s[i].node \in 1..m /\ (s[i].id = s[i].node \/ (options.keyed /\ s[i].id \notin Nat))
      /\ \A i \in 1..q : t[i].node \in 1..m /\ (t[i].id = t[i].node \/ (options.keyed /\ t[i].id \notin Nat))
      /\ \A i, j \in 1..p : i # j => s[i].node # s[j].node /\ s[i].id # s[j].id
      /\ \A i, j \in 1..q : i # j => t[i].node # t[j].node /\ t[i].id # t[j].id
  <2>1. 1..n \subseteq 1..m
    OBVIOUS
  <2> QED BY <2>1 DEF Tidy
<1>4. \A i \in 1..p, j \in 1..q : s[i].node # t[j].node /\ s[i].id # t[j].id
  OBVIOUS
<1> HIDE DEF u, p, q
<1>5. \A i \in 1..(p + q) : (i \in 1..p /\ u[i] = s[i]) \/ (i \notin 1..p /\ i - p \in 1..q /\ u[i] = t[i - p])
  BY <1>1, <1>2
<1>6. \A i, j \in 1..(p + q) : i # j => i - p # j - p
  BY <1>1
<1>7. \A i \in 1..(p + q) :
         u[i].node \in 1..m /\ (u[i].id = u[i].node \/ (options.keyed /\ u[i].id \notin Nat))
  BY <1>3, <1>5
<1>8. \A i, j \in 1..(p + q) : i # j => u[i].node # u[j].node /\ u[i].id # u[j].id
  <2> TAKE i, j \in 1..(p + q)
  <2> HAVE i # j
  <2>1. CASE i \in 1..p /\ j \in 1..p
    BY <1>3, <1>5, <2>1
  <2>2. CASE i \in 1..p /\ j \notin 1..p
    BY <1>4, <1>5, <2>2
  <2>3. CASE i \notin 1..p /\ j \in 1..p
    BY <1>4, <1>5, <2>3
  <2>4. CASE i \notin 1..p /\ j \notin 1..p
    BY <1>3, <1>5, <1>6, <2>4
  <2> QED BY <2>1, <2>2, <2>3, <2>4
<1>9. Tidy(u, m)
  BY <1>2, <1>7, <1>8 DEF Tidy
<1>10. /\ \A k : k \in NodesOf(u) <=> \E i \in 1..(p + q) : u[i].node = k
       /\ \A k : k \in NodesOf(s) <=> \E i \in 1..p : s[i].node = k
       /\ \A k : k \in NodesOf(t) <=> \E i \in 1..q : t[i].node = k
  <2>1. 1..Len(u) = 1..(p + q)
    BY <1>2
  <2>2. \A k : k \in NodesOf(u) <=> \E i \in 1..Len(u) : u[i].node = k
    BY <1>9, NodesOfList
  <2>3. /\ \A k : k \in NodesOf(s) <=> \E i \in 1..p : s[i].node = k
        /\ \A k : k \in NodesOf(t) <=> \E i \in 1..q : t[i].node = k
    BY NodesOfList DEF p, q
  <2> QED BY <2>1, <2>2, <2>3
<1>11. \A k \in NodesOf(u) : k \in NodesOf(s) \cup NodesOf(t)
  BY <1>5, <1>10
<1>12. \A k \in NodesOf(s) : k \in NodesOf(u)
  <2> TAKE k \in NodesOf(s)
  <2>1. PICK i \in 1..p : s[i].node = k
    BY <1>10
  <2>2. i \in 1..(p + q) /\ u[i] = s[i]
    BY <1>1, <1>2
  <2> QED BY <1>10, <2>1, <2>2
<1>13. \A k \in NodesOf(t) : k \in NodesOf(u)
  <2> TAKE k \in NodesOf(t)
  <2>1. PICK i \in 1..q : t[i].node = k
    BY <1>10
  <2>2. p + i \in 1..(p + q) /\ ~(p + i <= p) /\ (p + i) - p = i
    BY <1>1
  <2>3. u[p + i] = t[i]
    BY <1>2, <2>2
  <2> QED BY <1>10, <2>1, <2>2, <2>3
<1> QED BY <1>9, <1>11, <1>12, <1>13 DEF u

LEMMA SetPlacedStep ==
    ASSUME ArrayInv, NEW next \in Lists, SetPlaced(next), ~options.keyed, made' <= MaxNodes,
           UNCHANGED <<options, arrayUp>>
    PROVE  ArrayStep
<1> DEFINE n == Len(items)
           l == Len(next)
           c == Common(next)
           first == [i \in 1..c |-> [items[i] EXCEPT !.key = next[i]]]
           rest == SubSeq(next, n + 1, l)
           second == Created(rest, made)
           list == first \o second
           beyond == SubSeq(items, l + 1, n)
           dropped == NodesOf(beyond)
<1>1. /\ Tidy(items, made) /\ made \in Nat /\ options \in ArraySetupType
      /\ items \in Seq(ItemRecords) /\ n \in Nat /\ DOMAIN items = 1..n
      /\ made' = made + l - c /\ Replace(list, dropped)
  BY ArrayBounds, LenProperties DEF ArrayInv, SetPlaced, Tidy
<1>2. next \in Seq(Keys \cup {NoKey}) /\ l \in Nat
  BY ListsAreSequences
<1>3. c \in Nat /\ c <= n /\ c <= l /\ (c = n \/ c = l)
  BY <1>1, <1>2 DEF Common
<1>4. \A i \in 1..c : i \in 1..n /\ items[i] \in ItemRecords /\ next[i] \in Keys \cup {NoKey}
  <2>1. \A i \in 1..c : i \in 1..n /\ i \in 1..l
    BY <1>1, <1>2, <1>3
  <2> QED BY <1>1, <1>2, <2>1, ElementOfSeq
<1>5. /\ first \in Seq(ItemRecords) /\ Len(first) = c
      /\ \A i \in 1..c : first[i].node = items[i].node /\ first[i].id = items[i].id
  <2> HIDE DEF n, l, c
  <2>1. first \in [1..c -> ItemRecords]
    BY <1>4 DEF ItemRecords
  <2>2. \A i \in 1..c : first[i].node = items[i].node /\ first[i].id = items[i].id
    BY <1>4 DEF ItemRecords
  <2> HIDE DEF first
  <2> QED BY <1>3, <2>1, <2>2, IsASeq, LenProperties
<1> HIDE DEF first
<1>6. \A i \in 1..n : items[i].node \in 1..made /\ items[i].id = items[i].node
  BY <1>1 DEF Tidy
<1>7. Tidy(first, made)
  <2> HIDE DEF n, c
  <2>1. \A i, j \in 1..c : i # j => first[i].node # first[j].node /\ first[i].id # first[j].id
    <3> TAKE i, j \in 1..c
    <3> HAVE i # j
    <3>1. items[i].node # items[j].node /\ items[i].id # items[j].id
      BY <1>1, <1>4 DEF Tidy, n
    <3> QED BY <1>5, <3>1
  <2>2. \A i \in 1..c : first[i].node \in 1..made /\ first[i].id = first[i].node
    BY <1>4, <1>5, <1>6
  <2> QED BY <1>5, <2>1, <2>2 DEF Tidy
<1>8. rest \in Seq(Keys \cup {NoKey}) /\ Len(rest) = l - c
  <2>1. \A i \in (n + 1)..l : next[i] \in Keys \cup {NoKey}
    <3>1. \A i \in (n + 1)..l : i \in 1..l
      BY <1>1, <1>2
    <3> QED BY <1>2, <3>1, ElementOfSeq
  <2> DEFINE m == n + 1
  <2>2. m \in Int /\ l \in Int /\ (IF m <= l THEN l - m + 1 ELSE 0) = l - c
    <3>1. n \in Nat /\ l \in Nat /\ c = IF l < n THEN l ELSE n
      BY <1>1, <1>2 DEF Common
    <3> HIDE DEF n, l, c
    <3> QED BY <3>1
  <2>4. \A i \in m..l : next[i] \in Keys \cup {NoKey}
    BY <2>1
  <2> HIDE DEF m, n, l, c
  <2> DEFINE K == Keys \cup {NoKey}
  <2>5. \A i \in m..l : next[i] \in K
    BY <2>4
  <2> HIDE DEF K
  <2>6. /\ SubSeq(next, m, l) \in Seq(K)
        /\ Len(SubSeq(next, m, l)) = IF m <= l THEN l - m + 1 ELSE 0
    BY <2>2, <2>5, SubSeqProperties
  <2>3. SubSeq(next, m, l) \in Seq(Keys \cup {NoKey})
        /\ Len(SubSeq(next, m, l)) = IF m <= l THEN l - m + 1 ELSE 0
    BY <2>6 DEF K
  <2> QED BY <2>2, <2>3 DEF m
<1>9. PICK s : s = second
  OBVIOUS
<1> HIDE DEF rest
<1>10. Tidy(s, made + Len(rest)) /\ \A m \in NodesOf(s) : m > made
  BY <1>1, <1>8, <1>9, CreatedTidy
<1> HIDE DEF second
<1>11. /\ made' \in Nat /\ made <= made' /\ made + Len(rest) = made' /\ made' \in 0..MaxNodes
  <2> HIDE DEF l, c, n
  <2> QED BY <1>1, <1>2, <1>3, <1>8, ArrayBounds
<1>12. Tidy(s, made')
  BY <1>10, <1>11
<1>13. \A j \in 1..Len(s) : s[j].node > made /\ s[j].id = s[j].node
  BY <1>10, <1>12, NodesOfList DEF Tidy
<1>14. \A i \in 1..Len(first) : first[i].node \in 1..made /\ first[i].id = first[i].node
  BY <1>7 DEF Tidy
<1>15. \A i \in 1..Len(first), j \in 1..Len(s) : first[i].node # s[j].node /\ first[i].id # s[j].id
  <2> TAKE i \in 1..Len(first), j \in 1..Len(s)
  <2>1. first[i].node \in 1..made /\ s[j].node > made
    BY <1>13, <1>14
  <2>2. first[i].node # s[j].node
    BY <1>1, <2>1
  <2> QED BY <1>13, <1>14, <2>2
<1>16. Tidy(first \o s, made') /\ NodesOf(first \o s) = NodesOf(first) \cup NodesOf(s)
  BY <1>1, <1>7, <1>11, <1>12, <1>15, JoinedTidy
<1>17. beyond = SubSeq(items, l + 1, n) /\ NodesOf(beyond) = {items[k].node : k \in (l + 1)..n}
  <2> DEFINE a == l + 1
  <2>1. a \in Nat /\ \A k \in a..n : items[k] \in ItemRecords
    <3>1. \A k \in a..n : k \in 1..n
      BY <1>1, <1>2
    <3> QED BY <1>1, <1>2, <3>1, ElementOfSeq
  <2>2. n \in Int /\ a \in Int
    BY <1>1, <2>1
  <2> HIDE DEF a, n
  <2>3. /\ SubSeq(items, a, n) \in Seq(ItemRecords)
        /\ Len(SubSeq(items, a, n)) = IF a <= n THEN n - a + 1 ELSE 0
        /\ \A k \in 1..(n - a + 1) : SubSeq(items, a, n)[k] = items[a + k - 1]
    BY <2>1, <2>2, SubSeqProperties
  <2>4. beyond = SubSeq(items, a, n)
    BY DEF a
  <2> HIDE DEF beyond
  <2>5. DOMAIN beyond = 1..(n - a + 1)
    BY <2>2, <2>3, <2>4, LenProperties
  <2>6. \A m \in NodesOf(beyond) : \E k \in a..n : m = items[k].node
    <3> TAKE m \in NodesOf(beyond)
    <3>1. PICK k \in 1..(n - a + 1) : m = beyond[k].node
      BY <2>5 DEF NodesOf
    <3>2. a + k - 1 \in a..n
      BY <2>2
    <3> QED BY <2>3, <2>4, <3>1, <3>2
  <2>7. \A k \in a..n : items[k].node \in NodesOf(beyond)
    <3> TAKE k \in a..n
    <3>1. k - a + 1 \in 1..(n - a + 1) /\ a + (k - a + 1) - 1 = k
      BY <2>2
    <3>2. beyond[k - a + 1] = items[k]
      BY <2>3, <2>4, <3>1
    <3> QED BY <2>5, <3>1, <3>2 DEF NodesOf
  <2>8. NodesOf(beyond) = {items[k].node : k \in a..n}
    BY <2>6, <2>7
  <2> QED BY <2>4, <2>8 DEF a
<1> HIDE DEF beyond
<1>18. \A m : m \in NodesOf(first) <=> \E i \in 1..c : items[i].node = m
  BY <1>5, <1>7, NodesOfList
<1>19. dropped \cap NodesOf(first \o s) = {}
  <2> SUFFICES ASSUME NEW k \in (l + 1)..n PROVE items[k].node \notin NodesOf(first) \cup NodesOf(s)
    BY <1>16, <1>17
  <2>1. k \in 1..n /\ \A i \in 1..c : i # k /\ i \in 1..n
    BY <1>1, <1>2, <1>3
  <2>2. \A i \in 1..c : items[i].node # items[k].node
    BY <1>1, <2>1 DEF Tidy
  <2>3. items[k].node \in 1..made /\ ~(items[k].node > made)
    BY <1>1, <1>6, <2>1
  <2> QED BY <1>10, <1>18, <2>2, <2>3
<1>20. NodesOf(items) \ NodesOf(first \o s) \subseteq dropped
  <2> SUFFICES ASSUME NEW k \in 1..n, items[k].node \notin NodesOf(first)
               PROVE  items[k].node \in dropped
    BY <1>1, <1>16, NodesOfList
  <2>1. ~(k <= c)
    BY <1>3, <1>18
  <2>2. k \in (l + 1)..n
    BY <1>1, <1>2, <1>3, <2>1
  <2> QED BY <1>17, <2>2
<1>21. Replace(first \o s, dropped)
  BY <1>1, <1>9
<1> HIDE DEF dropped
<1>22. PICK new : new = first \o s
  OBVIOUS
<1> QED BY <1>11, <1>16, <1>19, <1>20, <1>21, <1>22, ReplaceStep

(* setValues() with keys. The item that a key is matched with is the last  *)
(* one that holds it.                                                      *)
LEMMA MatchHolds ==
    ASSUME ArrayInv, NEW key, Matching(key) # {}
    PROVE  \E x \in 1..Len(items) : items[x].key = key /\ Match(key) = items[x].node
<1> DEFINE n == Len(items)
           T == {n - i : i \in Matching(key)}
<1>1. n \in Nat /\ Matching(key) = {i \in 1..n : items[i].key = key}
  BY LenProperties DEF Matching, ArrayInv, Tidy
<1>2. T \in SUBSET Nat /\ T # {}
  BY <1>1
<1>3. PICK k \in T : \A m \in T : k <= m
  BY <1>2, LeastNatural
<1>4. PICK x \in Matching(key) : k = n - x
  BY <1>3
<1>5. \A i \in Matching(key) : n - x <= n - i
  BY <1>3, <1>4
<1> HIDE DEF n, T
<1>6. \A i \in Matching(key) : i <= x
  BY <1>1, <1>5
<1>7. \E i \in Matching(key) : \A j \in Matching(key) : j <= i
  BY <1>6
<1> DEFINE y == CHOOSE i \in Matching(key) : \A j \in Matching(key) : j <= i
<1>8. y \in Matching(key)
  BY <1>7
<1>9. Match(key) = items[y].node
  BY DEF Match
<1> HIDE DEF y
<1> QED BY <1>1, <1>8, <1>9 DEF n

(* Newcomers are counted: each is one more than those before it.           *)
LEMMA NewcomersCount ==
    ASSUME NEW next
    PROVE  /\ \A i \in Nat : Newcomers(next, i) \in Nat
           /\ \A i, k \in Nat : i <= k => Newcomers(next, i) <= Newcomers(next, k)
           /\ \A i, k \in Nat : i < k /\ Matching(next[k]) = {} => Newcomers(next, i) < Newcomers(next, k)
<1> DEFINE S(i) == {j \in 1..i : Matching(next[j]) = {}}
<1>1. ASSUME NEW i \in Nat PROVE IsFiniteSet(S(i)) /\ Newcomers(next, i) = Cardinality(S(i))
                               /\ Cardinality(S(i)) \in Nat
  <2>1. IsFiniteSet(1..i)
    BY FS_Interval
  <2>2. S(i) \in SUBSET (1..i)
    OBVIOUS
  <2>3. IsFiniteSet(S(i))
    BY <2>1, <2>2, FS_Subset
  <2> QED BY <2>3, FS_CardinalityType DEF Newcomers
<1>2. ASSUME NEW i \in Nat, NEW k \in Nat, i <= k
      PROVE  Cardinality(S(i)) <= Cardinality(S(k)) /\ (Cardinality(S(k)) = Cardinality(S(i)) => S(k) = S(i))
  <2>1. S(i) \in SUBSET S(k)
    BY <1>2
  <2>2. IsFiniteSet(S(k))
    BY <1>1
  <2> HIDE DEF S
  <2> QED BY <2>1, <2>2, FS_Subset
<1>3. ASSUME NEW i \in Nat, NEW k \in Nat, i < k, Matching(next[k]) = {}
      PROVE  Cardinality(S(i)) < Cardinality(S(k))
  <2>1. k \in S(k) /\ k \notin S(i) /\ i <= k
    BY <1>3
  <2>2. /\ Cardinality(S(i)) <= Cardinality(S(k))
        /\ Cardinality(S(k)) = Cardinality(S(i)) => S(k) = S(i)
    BY <1>2, <2>1
  <2> HIDE DEF S
  <2> QED BY <1>1, <2>1, <2>2
<1> HIDE DEF S
<1> QED BY <1>1, <1>2, <1>3

(* What stands at a place of the next list: an item that was there, under  *)
(* its key, or a new one.                                                  *)
Placed(list, next, i) ==
    \/ Matching(next[i]) # {} /\ list[i].id = next[i] /\ list[i].node = Match(next[i])
    \/ /\ Matching(next[i]) = {} /\ list[i].node = made + Newcomers(next, i)
       /\ list[i].id = list[i].node \/ list[i].id = next[i]

LEMMA KeyedItems ==
    ASSUME ArrayInv, options.keyed, NEW next \in Lists, NEW list, list = KeyedList(next)
    PROVE  /\ list \in Seq(ItemRecords) /\ Len(list) = Len(next)
           /\ \A i \in 1..Len(next) : Placed(list, next, i)
<1> DEFINE l == Len(next)
           it(i) == [id |-> next[i], node |-> Match(next[i]), key |-> next[i]]
           from(i) == made + Newcomers(next, i) - 1
           new(i) == Created(<<next[i]>>, from(i))[1]
<1>1. next \in Seq(Keys \cup {NoKey}) /\ l \in Nat /\ DOMAIN next = 1..l
      /\ \A i \in 1..l : next[i] \in Keys \cup {NoKey}
  BY ListsAreSequences, ElementOfSeq
<1>2. made \in Nat /\ options \in ArraySetupType
  BY ArrayBounds DEF ArrayInv
<1>3. list = [i \in 1..l |-> IF Matching(next[i]) # {} THEN it(i) ELSE new(i)]
  BY <1>1 DEF KeyedList
<1> HIDE DEF l
<1>4. ASSUME NEW i \in 1..l, Matching(next[i]) # {} PROVE it(i) \in ItemRecords
  <2>1. \A x \in 1..Len(items) : items[x].node \in Nat
    BY DEF ArrayInv, Tidy
  <2>2. Match(next[i]) \in Nat
    BY <1>4, <2>1, MatchHolds
  <2> QED BY <1>1, <2>2 DEF ItemRecords
<1>5. ASSUME NEW i \in 1..l, Matching(next[i]) = {}
      PROVE  /\ new(i) \in ItemRecords /\ new(i).node = made + Newcomers(next, i)
             /\ new(i).id = new(i).node \/ new(i).id = next[i]
  <2> DEFINE c == Newcomers(next, i)
             one == <<next[i]>>
  <2>1. 0 \in Nat /\ i \in Nat /\ 0 < i
    BY <1>1
  <2>2. c \in Nat /\ Newcomers(next, 0) \in Nat /\ Newcomers(next, 0) < c
    BY <1>5, <2>1, NewcomersCount
  <2> HIDE DEF c
  <2> DEFINE f == made + c - 1
  <2>3. f \in Nat /\ f + 1 = made + c
    BY <1>2, <2>2
  <2>4. new(i) = Created(one, f)[1]
    BY DEF c
  <2>5. one \in Seq(Keys \cup {NoKey}) /\ Len(one) = 1 /\ one[1] = next[i]
    BY <1>1
  <2>6. PICK made1 : made1 = Created(one, f)
    OBVIOUS
  <2> HIDE DEF f, one
  <2>7. /\ made1 \in Seq(ItemRecords) /\ Len(made1) = Len(one)
        /\ \A k \in 1..Len(one) : /\ made1[k].node = f + k
                                 /\ \/ made1[k].id = f + k
                                    \/ options.keyed /\ one[k] # NoKey /\ made1[k].id = one[k]
    BY <1>2, <2>3, <2>5, <2>6, CreatedItems
  <2>8. 1 \in 1..Len(one) /\ 1 \in 1..Len(made1)
    BY <2>5, <2>7
  <2>9. made1[1] \in ItemRecords
    BY <2>7, <2>8, ElementOfSeq
  <2>10. made1[1].node = f + 1 /\ (made1[1].id = f + 1 \/ made1[1].id = next[i])
    BY <2>5, <2>7, <2>8
  <2> HIDE DEF new
  <2> QED BY <2>3, <2>4, <2>6, <2>9, <2>10 DEF c
<1> HIDE DEF new
<1>6. list \in [1..l -> ItemRecords]
  <2> HIDE DEF it
  <2> QED BY <1>3, <1>4, <1>5
<1>7. list \in Seq(ItemRecords) /\ Len(list) = l
  BY <1>1, <1>6, IsASeq, LenProperties
<1>8. ASSUME NEW i \in 1..l
      PROVE  Placed(list, next, i)
  <2>1. CASE Matching(next[i]) # {}
    <3>1. list[i] = it(i)
      BY <1>3, <2>1
    <3> QED BY <2>1, <3>1 DEF Placed
  <2>2. CASE Matching(next[i]) = {}
    <3>1. list[i] = new(i)
      BY <1>3, <2>2
    <3> QED BY <1>5, <2>2, <3>1 DEF Placed
  <2> QED BY <2>1, <2>2
<1> QED BY <1>7, <1>8 DEF l

LEMMA SetKeyedStep ==
    ASSUME ArrayInv, NEW next \in Lists, SetKeyed(next), options.keyed, made' <= MaxNodes,
           UNCHANGED <<options, arrayUp>>
    PROVE  ArrayStep
<1> DEFINE n == Len(items)
           l == Len(next)
           dropped == Unused(next)
<1>1. /\ Tidy(items, made) /\ made \in Nat /\ n \in Nat /\ DOMAIN items = 1..n
      /\ made' = made + Newcomers(next, l) /\ Replace(KeyedList(next), dropped)
      /\ ~Repeats(next, Keys \cup {NoKey})
  BY ArrayBounds, LenProperties DEF ArrayInv, SetKeyed, Tidy
<1>2. PICK list : list = KeyedList(next)
  OBVIOUS
<1>3. /\ next \in Seq(Keys \cup {NoKey}) /\ l \in Nat /\ DOMAIN next = 1..l
      /\ \A i \in 1..l : next[i] \in Keys \cup {NoKey} /\ next[i] \notin Nat
  BY ListsAreSequences, ElementOfSeq, KeysAssumption
<1>4. /\ list \in Seq(ItemRecords) /\ Len(list) = l
      /\ \A i \in 1..l : Placed(list, next, i)
  BY <1>2, KeyedItems
<1>5. \A i, j \in 1..l : i # j => next[i] # next[j]
  <2> TAKE i, j \in 1..l
  <2>1. i # j => i < j \/ j < i
    BY <1>3
  <2> QED BY <1>1, <1>3, <2>1 DEF Repeats
<1> HIDE DEF n, l, dropped
<1>6. \A i \in 1..l : Matching(next[i]) = {} =>
          /\ Newcomers(next, i) \in 1..Newcomers(next, l)
          /\ \A j \in 1..l : i # j /\ Matching(next[j]) = {} => Newcomers(next, i) # Newcomers(next, j)
  <2> TAKE i \in 1..l
  <2> HAVE Matching(next[i]) = {}
  <2>1. 0 \in Nat /\ i \in Nat /\ 0 < i /\ i <= l
    BY <1>3
  <2>2. Newcomers(next, 0) < Newcomers(next, i) /\ Newcomers(next, i) <= Newcomers(next, l)
    BY <1>3, <2>1, NewcomersCount
  <2>3. Newcomers(next, 0) \in Nat /\ Newcomers(next, i) \in Nat /\ Newcomers(next, l) \in Nat
    BY <1>3, <2>1, NewcomersCount
  <2>4. Newcomers(next, i) \in 1..Newcomers(next, l)
    BY <2>2, <2>3
  <2>5. ASSUME NEW j \in 1..l, i # j, Matching(next[j]) = {} PROVE Newcomers(next, i) # Newcomers(next, j)
    <3>1. j \in Nat /\ (i < j \/ j < i)
      BY <1>3, <2>1, <2>5
    <3>2. Newcomers(next, j) \in Nat
      BY <3>1, NewcomersCount
    <3>3. Newcomers(next, i) < Newcomers(next, j) \/ Newcomers(next, j) < Newcomers(next, i)
      BY <2>1, <2>5, <3>1, NewcomersCount
    <3> QED BY <2>3, <3>2, <3>3
  <2> QED BY <2>4, <2>5
<1>7. \A i \in 1..l : Matching(next[i]) # {} =>
          \E x \in 1..n : items[x].key = next[i] /\ list[i].node = items[x].node
  <2> TAKE i \in 1..l
  <2> HAVE Matching(next[i]) # {}
  <2>1. PICK x \in 1..Len(items) : items[x].key = next[i] /\ Match(next[i]) = items[x].node
    BY MatchHolds
  <2> QED BY <1>4, <2>1 DEF n, Placed
<1>8. /\ \A x \in 1..n : items[x].node \in 1..made
      /\ \A x, y \in 1..n : x # y => items[x].node # items[y].node
  BY <1>1 DEF Tidy, n
<1>9. Newcomers(next, l) \in Nat /\ made' \in Nat /\ made <= made' /\ 1..made \subseteq 1..made'
  <2>1. Newcomers(next, l) \in Nat
    BY <1>3, NewcomersCount
  <2> QED BY <1>1, <2>1
<1>10. \A i \in 1..l :
         /\ Matching(next[i]) # {} => list[i].node \in 1..made
         /\ Matching(next[i]) = {} => list[i].node \in 1..made' /\ list[i].node \notin 1..made
  <2> TAKE i \in 1..l
  <2>1. CASE Matching(next[i]) # {}
    BY <1>7, <1>8, <2>1
  <2>2. CASE Matching(next[i]) = {}
    <3>1. Newcomers(next, i) \in 1..Newcomers(next, l) /\ list[i].node = made + Newcomers(next, i)
      BY <1>4, <1>6, <2>2 DEF Placed
    <3>2. made + Newcomers(next, i) \in 1..made' /\ made + Newcomers(next, i) \notin 1..made
      BY <1>1, <1>9, <3>1
    <3> QED BY <2>2, <3>1, <3>2
  <2> QED BY <2>1, <2>2
<1>11. \A i \in 1..l :
         list[i].node \in 1..made' /\ (list[i].id = list[i].node \/ (options.keyed /\ list[i].id \notin Nat))
  <2> TAKE i \in 1..l
  <2>1. list[i].node \in 1..made'
    BY <1>9, <1>10
  <2> QED BY <1>3, <1>4, <2>1 DEF Placed
<1>12. \A i, j \in 1..l : i # j => list[i].node # list[j].node
  <2> TAKE i, j \in 1..l
  <2> HAVE i # j
  <2>1. CASE Matching(next[i]) # {} /\ Matching(next[j]) # {}
    <3>1. PICK x \in 1..n : items[x].key = next[i] /\ list[i].node = items[x].node
      BY <1>7, <2>1
    <3>2. PICK y \in 1..n : items[y].key = next[j] /\ list[j].node = items[y].node
      BY <1>7, <2>1
    <3>3. x # y
      BY <1>5, <3>1, <3>2
    <3> QED BY <1>8, <3>1, <3>2, <3>3
  <2>2. CASE Matching(next[i]) = {} /\ Matching(next[j]) = {}
    <3>1. Newcomers(next, i) # Newcomers(next, j)
      BY <1>6, <2>2
    <3>2. Newcomers(next, i) \in Nat /\ Newcomers(next, j) \in Nat
      BY <1>6, <1>9, <2>2
    <3>3. list[i].node = made + Newcomers(next, i) /\ list[j].node = made + Newcomers(next, j)
      BY <1>4, <2>2 DEF Placed
    <3> QED BY <1>1, <3>1, <3>2, <3>3
  <2>3. CASE ~(Matching(next[i]) = {} <=> Matching(next[j]) = {})
    BY <1>10, <2>3
  <2> QED BY <2>1, <2>2, <2>3
<1>13. \A i, j \in 1..l : i # j => list[i].id # list[j].id
  <2> TAKE i, j \in 1..l
  <2> HAVE i # j
  <2>1. /\ list[i].id = list[i].node \/ list[i].id = next[i]
        /\ list[j].id = list[j].node \/ list[j].id = next[j]
    BY <1>4 DEF Placed
  <2>2. list[i].node \in Nat /\ list[j].node \in Nat /\ next[i] \notin Nat /\ next[j] \notin Nat
    BY <1>3, <1>9, <1>11
  <2>3. list[i].node # list[j].node /\ next[i] # next[j]
    BY <1>5, <1>12
  <2> QED BY <2>1, <2>2, <2>3
<1>14. Tidy(list, made')
  <2>1. 1..Len(list) = 1..l
    BY <1>4
  <2> QED BY <1>4, <1>11, <1>12, <1>13, <2>1 DEF Tidy
<1>15. ASSUME NEW m \in dropped
       PROVE  \E y \in 1..n : items[y].node = m /\ items[y].key \notin ToSet(next)
  <2>1. PICK it \in ToSet(items) : it.key \notin ToSet(next) /\ m = Match(it.key)
    BY DEF dropped, Unused
  <2>2. PICK z \in 1..n : it = items[z]
    BY <1>1 DEF ToSet
  <2>3. z \in Matching(it.key)
    BY <1>1, <2>2 DEF Matching
  <2>4. \E y \in 1..Len(items) : items[y].key = it.key /\ Match(it.key) = items[y].node
    BY <2>3, MatchHolds
  <2> QED BY <2>1, <2>4 DEF n
<1>16. dropped \cap NodesOf(list) = {}
  <2> SUFFICES ASSUME NEW m \in dropped, m \in NodesOf(list) PROVE FALSE
    OBVIOUS
  <2>1. PICK y \in 1..n : items[y].node = m /\ items[y].key \notin ToSet(next)
    BY <1>15
  <2>2. PICK i \in 1..l : list[i].node = m
    <3>1. \E i \in 1..Len(list) : list[i].node = m
      BY <1>14, NodesOfList
    <3> QED BY <1>4, <3>1
  <2>3. m \in 1..made
    BY <1>8, <2>1
  <2>4. PICK x \in 1..n : items[x].key = next[i] /\ list[i].node = items[x].node
    BY <1>7, <1>10, <2>2, <2>3
  <2>5. next[i] \in ToSet(next)
    BY <1>3 DEF ToSet
  <2>6. x # y
    BY <2>1, <2>4, <2>5
  <2> QED BY <1>8, <2>1, <2>2, <2>4, <2>6
<1>17. ~(options.keyed /\ Clashing) => NodesOf(items) \ NodesOf(list) \subseteq dropped
  <2> SUFFICES ASSUME ~Clashing, NEW m \in NodesOf(items), m \notin NodesOf(list) PROVE m \in dropped
    OBVIOUS
  <2>1. PICK x \in 1..n : items[x].node = m
    BY <1>1, NodesOfList DEF n
  <2>2. Matching(items[x].key) = {x}
    BY <1>1 DEF Matching, Clashing
  <2>3. Match(items[x].key) = m
    <3>1. PICK z \in 1..Len(items) : items[z].key = items[x].key /\ Match(items[x].key) = items[z].node
      BY <2>2, MatchHolds
    <3>2. z = x
      BY <1>1, <3>1 DEF Clashing, n
    <3> QED BY <2>1, <3>1, <3>2
  <2>4. items[x].key \notin ToSet(next)
    <3> SUFFICES ASSUME NEW i \in 1..l, next[i] = items[x].key PROVE FALSE
      BY <1>3 DEF ToSet
    <3>1. list[i].node = m
      BY <1>4, <2>2, <2>3 DEF Placed
    <3>2. m \in NodesOf(list)
      BY <1>4, <1>14, <3>1, NodesOfList
    <3> QED BY <3>2
  <2>5. items[x] \in ToSet(items)
    BY <1>1 DEF ToSet
  <2> QED BY <2>3, <2>4, <2>5 DEF dropped, Unused
<1>18. made' \in 0..MaxNodes
  BY <1>9, ArrayBounds
<1>19. Replace(list, dropped)
  BY <1>1, <1>2
<1> QED BY <1>9, <1>14, <1>16, <1>17, <1>18, <1>19, ReplaceStep

LEMMA ArrayNextStep == ASSUME ArrayInv, ArrayNext PROVE ArrayStep
<1>1. ASSUME NEW key \in Keys \cup {NoKey}, NEW i \in 1..(MaxItems + 1), Insert(i, key) PROVE ArrayStep
  BY <1>1, InsertStep
<1>2. ASSUME NEW i \in 1..MaxItems, RemoveItem(i) PROVE ArrayStep
  BY <1>2, RemoveItemStep
<1>3. ASSUME NEW i \in 1..MaxItems, NEW j \in 1..MaxItems, Swap(i, j) PROVE ArrayStep
  BY <1>3, SwapStep
<1>4. ASSUME NEW i \in 1..MaxItems, NEW j \in 1..MaxItems, Move(i, j) PROVE ArrayStep
  BY <1>4, MoveStep
<1>5. ASSUME NEW i \in 1..MaxItems, NEW key \in Keys \cup {NoKey}, EditKey(i, key) PROVE ArrayStep
  BY <1>5, EditKeyStep
<1>6. ASSUME NEW next \in Lists, SetArrayValues(next) PROVE ArrayStep
  <2>1. made' <= MaxNodes /\ UNCHANGED <<options, arrayUp>>
    BY <1>6 DEF SetArrayValues
  <2>2. CASE options.keyed
    <3>1. SetKeyed(next)
      BY <1>6, <2>2 DEF SetArrayValues
    <3> QED BY <2>1, <2>2, <3>1, SetKeyedStep
  <2>3. CASE ~options.keyed
    <3>1. SetPlaced(next)
      BY <1>6, <2>3 DEF SetArrayValues
    <3> QED BY <2>1, <2>3, <3>1, SetPlacedStep
  <2> QED BY <2>2, <2>3
<1>7. ASSUME NEW next \in Lists, ResetArray(next) PROVE ArrayStep
  BY <1>7, ResetArrayStep
<1>8. CASE DisposeArray
  BY <1>8, DisposeArrayStep
<1> QED BY <1>1, <1>2, <1>3, <1>4, <1>5, <1>6, <1>7, <1>8 DEF ArrayNext

LEMMA ArrayInvKept == ArrayInv /\ UNCHANGED arrayvars => ArrayInv'
<1> SUFFICES ASSUME ArrayInv, UNCHANGED arrayvars PROVE ArrayInv'
  OBVIOUS
<1>1. options' = options /\ items' = items /\ made' = made /\ scopes' = scopes /\ arrayUp' = arrayUp
  BY DEF arrayvars
<1>2. Tidy(items, made)'
  BY <1>1 DEF ArrayInv, Tidy
<1>3. NodesOf(items)' = NodesOf(items)
  BY <1>1 DEF NodesOf
<1> QED BY <1>1, <1>2, <1>3 DEF ArrayInv

(* Between them: identities are as many as items, and their scopes live.   *)
LEMMA ArrayInvariance == ArraySpec => []ArrayInv
<1>1. ArrayInv /\ [ArrayNext]_arrayvars => ArrayInv'
  BY ArrayInvKept, ArrayNextStep DEF ArrayStep
<1> QED BY <1>1, ArrayInitInv, PTL DEF ArraySpec

LEMMA ArrayInvSound == ArrayInv => ItemsAreAlive
<1> SUFFICES ASSUME ArrayInv PROVE ItemsAreAlive
  OBVIOUS
<1>1. Tidy(items, made)
  BY DEF ArrayInv
<1>2. Cardinality(IdsOf(items)) = Len(items)
  BY <1>1, IdsCount
<1> QED BY <1>2 DEF ArrayInv, ItemsAreAlive

(* Whatever is done to an array of the prototype, the identities of its    *)
(* items stay distinct and their scopes alive, and an item that leaves the *)
(* list is disposed in the same step (createFieldArray()).                 *)
THEOREM ArrayIsAlwaysSound == ArraySpec => ArrayIsSound
<1>1. ArrayInv /\ [ArrayNext]_arrayvars =>
          [(~options.fragile /\ ~(options.keyed /\ Clashing)) =>
            (NodesOf(items) \ NodesOf(items')) \cap scopes' = {}]_arrayvars
  BY ArrayNextStep DEF ArrayStep, DropsDisposed
<1> QED BY <1>1, ArrayInvariance, ArrayInvSound, PTL DEF ArraySpec, ArrayIsSound, DroppedAreDisposed
-----------------------------------------------------------------------------
(* PrototypeForm.                                                          *)

GroupType ==
    [status : {"unvalidated", "valid", "invalid"}, issue : {"none", "bad", "taken"}, pending : BOOLEAN,
     revision : Nat, live : Nat, runs : SUBSET [revision : Nat, value : Names]]
SubmissionType ==
    [status : {"idle", "validating", "submitting", "succeeded", "failed", "cancelled"},
     revision : Nat, live : Nat, up : BOOLEAN]
CallType ==
    [phase : {"idle", "validating", "acting", "done"}, revision : Nat, run : Nat, output : Names,
     ids : Seq(Keys \cup {NoKey} \cup Nat), thrown : BOOLEAN, gaveUp : BOOLEAN,
     replaced : BOOLEAN]
FormTyped ==
    /\ name \in Names /\ group \in GroupType
    /\ submission \in SubmissionType /\ calls \in [Calls -> CallType]

(* No two runs of the root are of one revision, and nobody but a newer one *)
(* aborts the latest.                                                      *)
GroupSteady(g) ==
    /\ g.live \in {0, g.revision}
    /\ \A r \in g.runs :
        /\ r.revision <= g.revision
        /\ r.revision = g.revision => g.live = g.revision
        /\ \A q \in g.runs : q.revision = r.revision => q = r

(* A call that no other validation disturbed waits for the latest run,     *)
(* which has its output, or has the judgement of that run before it.       *)
Awaits(call, g) ==
    (call.phase = "validating" /\ ~call.replaced) =>
        /\ HasAsync /\ call.run = g.revision /\ call.output # "bad"
        /\ \/ [revision |-> call.run, value |-> call.output] \in g.runs
           \/ /\ \A r \in g.runs : r.revision # call.run
              /\ call.thrown \/ call.gaveUp \/ (call.output = "taken" => g.issue # "none")
Validated(call) ==
    (call.phase = "acting" /\ ~call.replaced) =>
        call.output # "bad" /\ (HasAsync => call.output # "taken" \/ call.gaveUp)
CallsSteady == \A c \in Calls : Awaits(calls[c], group) /\ Validated(calls[c])

(* Calls under way have revisions of their own.                            *)
Under(call) == call.phase \in {"validating", "acting"}
OneOwner ==
    /\ submission.live \in {0, submission.revision}
    /\ \A c \in Calls : calls[c].revision <= submission.revision
    /\ \A c, d \in Calls :
          Under(calls[c]) /\ Under(calls[d]) /\ calls[c].revision = calls[d].revision => c = d
HasOwner ==
    Busy /\ submission.up =>
        \E c \in Calls :
            Owns(c) /\ calls[c].phase = (IF submission.status = "validating" THEN "validating" ELSE "acting")

(* Without keys an item is its node: what an issue is about is where it is.*)
Aimed == ~options.keyed => \A s \in issuesOn : s.on \in {FormNode, NameNode} \/ s.about = s.on

FormInv ==
    /\ ArrayInv /\ FormTyped /\ GroupSteady(group) /\ CallsSteady
    /\ OneOwner /\ HasOwner /\ Aimed
-----------------------------------------------------------------------------
(* What becomes of calls.                                                  *)

SameCall(d, c) ==
    d.phase = c.phase /\ d.revision = c.revision /\ d.run = c.run /\ d.output = c.output
HeardAlike(d, c) == d.thrown = c.thrown /\ d.gaveUp = c.gaveUp
Over(d) == d.phase = "done" /\ d.revision = 0

LEMMA NoCallTyped == NoCall \in CallType /\ [NoCall EXCEPT !.phase = "done"] \in CallType
                     /\ Over([NoCall EXCEPT !.phase = "done"])
<1>1. NoCall \in CallType
  BY DEF NoCall, CallType, Names
<1>2. NoCall.revision = 0
  BY DEF NoCall
<1> DEFINE d == [NoCall EXCEPT !.phase = "done"]
<1>3. d \in CallType
  BY <1>1, Zenon DEF CallType
<1>4. d.phase = "done" /\ d.revision = NoCall.revision
  BY <1>1 DEF CallType
<1> QED BY <1>1, <1>2, <1>3, <1>4 DEF Over

LEMMA ReplacedCalls ==
    ASSUME calls \in [Calls -> CallType]
    PROVE  /\ Replaced \in [Calls -> CallType]
           /\ \A c \in Calls :
                /\ SameCall(Replaced[c], calls[c]) /\ HeardAlike(Replaced[c], calls[c])
                /\ calls[c].phase = "validating" => Replaced[c].replaced = TRUE
                /\ calls[c].phase # "validating" => Replaced[c].replaced = calls[c].replaced
<1>1. ASSUME NEW c \in Calls
      PROVE  LET d == [calls[c] EXCEPT !.replaced = @ \/ calls[c].phase = "validating"] IN
             /\ d \in CallType /\ SameCall(d, calls[c]) /\ HeardAlike(d, calls[c])
             /\ calls[c].phase = "validating" => d.replaced = TRUE
             /\ calls[c].phase # "validating" => d.replaced = calls[c].replaced
  <2>1. PICK call : call = calls[c] /\ call \in CallType
    OBVIOUS
  <2> DEFINE b == call.replaced \/ call.phase = "validating"
             d == [call EXCEPT !.replaced = b]
  <2>2. call.replaced \in BOOLEAN
    BY <2>1 DEF CallType
  <2>3. b \in BOOLEAN /\ (call.phase = "validating" => b = TRUE)
        /\ (call.phase # "validating" => b = call.replaced)
    BY <2>2, Zenon
  <2> HIDE DEF b
  <2>4. d \in CallType
    BY <2>1, <2>3, Zenon DEF CallType
  <2>5. SameCall(d, call) /\ HeardAlike(d, call) /\ d.replaced = b
    BY <2>1 DEF CallType, SameCall, HeardAlike
  <2>6. PICK e : e = [calls[c] EXCEPT !.replaced = @ \/ calls[c].phase = "validating"]
    OBVIOUS
  <2>7. e = d
    BY <2>1, <2>6 DEF b
  <2> HIDE DEF d
  <2>8. e \in CallType /\ SameCall(e, calls[c]) /\ HeardAlike(e, calls[c])
    BY <2>1, <2>4, <2>5, <2>7, Zenon
  <2>9. /\ calls[c].phase = "validating" => e.replaced = TRUE
        /\ calls[c].phase # "validating" => e.replaced = calls[c].replaced
    BY <2>1, <2>3, <2>5, <2>7, Zenon
  <2> QED BY <2>6, <2>8, <2>9, Zenon
<1> QED BY <1>1 DEF Replaced

LEMMA EndedCalls ==
    ASSUME calls \in [Calls -> CallType], NEW c \in Calls
    PROVE  /\ Ends(c) \in [Calls -> CallType] /\ Over(Ends(c)[c])
           /\ \A d \in Calls : d # c => Ends(c)[d] = calls[d]
BY NoCallTyped DEF Ends

(* The call goes on where it stays under way, or is over.                  *)
Follows == \A c \in Calls : (calls'[c].phase = calls[c].phase /\ calls'[c].revision = calls[c].revision)
                            \/ Over(calls'[c])

LEMMA OwnersStop ==
    ASSUME FormInv, FormTyped', Follows,
           submission'.revision >= submission.revision,
           submission'.live \in {0, submission'.revision},
           ~(submission'.status \in {"validating", "submitting"} /\ submission'.up)
    PROVE  OneOwner' /\ HasOwner'
<1>1. submission.revision \in Nat /\ submission'.revision \in Nat
      /\ \A c \in Calls : calls[c].revision \in Nat /\ calls'[c].revision \in Nat
  BY DEF FormInv, FormTyped, SubmissionType, CallType
<1>2. \A c \in Calls : calls'[c].revision <= submission'.revision
  BY <1>1 DEF Follows, Over, FormInv, OneOwner
<1>3. \A c \in Calls : Under(calls'[c]) => Under(calls[c]) /\ calls'[c].revision = calls[c].revision
  BY DEF Follows, Over, Under
<1>4. \A c, d \in Calls :
          Under(calls'[c]) /\ Under(calls'[d]) /\ calls'[c].revision = calls'[d].revision => c = d
  BY <1>3 DEF FormInv, OneOwner
<1>5. OneOwner'
  BY <1>2, <1>4 DEF OneOwner, Under
<1> QED BY <1>5 DEF HasOwner, Busy

LEMMA OwnersStay ==
    ASSUME FormInv, FormTyped', Follows, submission' = submission,
           \A c \in Calls : Owns(c) /\ Under(calls[c]) => calls'[c].phase = calls[c].phase /\ calls'[c].revision = calls[c].revision
    PROVE  OneOwner' /\ HasOwner'
<1>1. submission.revision \in Nat /\ \A c \in Calls : calls[c].revision \in Nat
  BY DEF FormInv, FormTyped, SubmissionType, CallType
<1>2. \A c \in Calls : calls'[c].revision <= submission.revision
  BY <1>1 DEF Follows, Over, FormInv, OneOwner
<1>3. \A c \in Calls : Under(calls'[c]) => Under(calls[c]) /\ calls'[c].revision = calls[c].revision
  BY DEF Follows, Over, Under
<1>4. \A c, d \in Calls :
          Under(calls'[c]) /\ Under(calls'[d]) /\ calls'[c].revision = calls'[d].revision => c = d
  BY <1>3 DEF FormInv, OneOwner
<1>5. OneOwner'
  BY <1>2, <1>4 DEF OneOwner, Under, FormInv
<1>6. HasOwner'
  BY DEF HasOwner, Busy, Owns, Under, FormInv
<1> QED BY <1>5, <1>6

(* Another call begins.                                                    *)
LEMMA OwnerBegins ==
    ASSUME FormInv, FormTyped', NEW c \in Calls,
           \A d \in Calls : d # c => calls'[d].phase = calls[d].phase /\ calls'[d].revision = calls[d].revision,
           submission'.revision = submission.revision + 1, submission'.live = submission'.revision,
           calls'[c].revision = submission'.revision,
           calls'[c].phase = (IF submission'.status = "validating" THEN "validating" ELSE "acting")
    PROVE  OneOwner' /\ HasOwner'
<1>1. submission.revision \in Nat /\ \A d \in Calls : calls[d].revision \in Nat /\ calls[d].revision <= submission.revision
  BY DEF FormInv, FormTyped, SubmissionType, CallType, OneOwner
<1>2. \A d \in Calls : d # c => calls'[d].revision = calls[d].revision /\ calls'[d].revision # submission'.revision
  BY <1>1
<1>3. \A d \in Calls : calls'[d].revision <= submission'.revision
  BY <1>1, <1>2
<1>4. \A d, e \in Calls :
          Under(calls'[d]) /\ Under(calls'[e]) /\ calls'[d].revision = calls'[e].revision => d = e
  <2> TAKE d, e \in Calls
  <2>1. CASE d = c \/ e = c
    BY <1>2, <2>1
  <2>2. CASE d # c /\ e # c
    BY <2>2 DEF FormInv, OneOwner, Under
  <2> QED BY <2>1, <2>2
<1>5. OneOwner'
  BY <1>3, <1>4 DEF OneOwner, Under
<1>6. HasOwner'
  BY DEF HasOwner, Owns
<1> QED BY <1>5, <1>6
-----------------------------------------------------------------------------
(* The validation of the root.                                             *)

LEMMA JudgedGroup ==
    ASSUME NEW g \in GroupType, NEW issue \in {"none", "bad", "taken"}
    PROVE  /\ Judged(g, issue) \in GroupType
           /\ Judged(g, issue).issue = issue /\ Judged(g, issue).pending = FALSE
           /\ Judged(g, issue).revision = g.revision /\ Judged(g, issue).live = g.live
           /\ Judged(g, issue).runs = g.runs
<1> DEFINE s == IF issue = "none" THEN "valid" ELSE "invalid"
           h == [g EXCEPT !.issue = issue, !.status = s, !.pending = FALSE]
<1>1. s \in {"unvalidated", "valid", "invalid"} /\ FALSE \in BOOLEAN
  OBVIOUS
<1> HIDE DEF s
<1>2. h \in GroupType
  BY <1>1, Zenon DEF GroupType
<1>3. h.issue = issue /\ h.pending = FALSE /\ h.revision = g.revision /\ h.live = g.live /\ h.runs = g.runs
  BY DEF GroupType
<1> QED BY <1>2, <1>3 DEF Judged, s

LEMMA ExecutedGroup ==
    ASSUME group \in GroupType, GroupSteady(group), NEW n \in Names
    PROVE  LET g == GroupExecuted(n) IN
           /\ g \in GroupType /\ GroupSteady(g) /\ g.revision = group.revision + 1
           /\ g.pending => HasAsync /\ n # "bad" /\ [revision |-> g.revision, value |-> n] \in g.runs
           /\ ~g.pending /\ g.issue = "none" => ~HasAsync /\ n # "bad"
<1> DEFINE v == group.revision + 1
           h == [group EXCEPT !.revision = v, !.live = v]
           k == [h EXCEPT !.live = 0]
           r == [revision |-> v, value |-> n]
           R == h.runs \cup {r}
           w == [h EXCEPT !.pending = TRUE, !.runs = R]
<1>1. v \in Nat /\ 0 \in Nat /\ v > group.revision /\ group.revision \in Nat
      /\ group.runs \in SUBSET [revision : Nat, value : Names]
  BY DEF GroupType
<1>2. /\ h \in GroupType /\ h.revision = v /\ h.live = v /\ h.runs = group.runs
      /\ h = [group EXCEPT !.revision = @ + 1, !.live = group.revision + 1]
  <2> HIDE DEF v
  <2>1. h \in GroupType
    BY <1>1, Zenon DEF GroupType
  <2>2. h.revision = v /\ h.live = v /\ h.runs = group.runs
    BY DEF GroupType
  <2>3. h = [group EXCEPT !.revision = @ + 1, !.live = group.revision + 1]
    BY DEF v
  <2> QED BY <2>1, <2>2, <2>3
<1> HIDE DEF h
<1>3. /\ k \in GroupType /\ k.revision = v /\ k.live = 0 /\ k.runs = group.runs
  <2> HIDE DEF v
  <2>1. k \in GroupType
    BY <1>1, <1>2, Zenon DEF GroupType
  <2>2. k.revision = v /\ k.live = 0 /\ k.runs = group.runs
    BY <1>2 DEF GroupType
  <2> QED BY <2>1, <2>2
<1>4. r \in [revision : Nat, value : Names] /\ r.revision = v /\ r.value = n
  BY <1>1
<1> HIDE DEF k, r
<1>5. /\ w \in GroupType /\ w.revision = v /\ w.live = v /\ w.runs = group.runs \cup {r}
      /\ w.pending = TRUE
  <2>1. R \in SUBSET [revision : Nat, value : Names] /\ TRUE \in BOOLEAN
    BY <1>1, <1>2, <1>4
  <2> HIDE DEF v, R
  <2>2. w \in GroupType
    BY <1>2, <2>1, Zenon DEF GroupType
  <2>3. w.revision = v /\ w.live = v /\ w.runs = R
    BY <1>2 DEF GroupType
  <2>4. w.pending = TRUE
    BY <1>2 DEF GroupType
  <2> QED BY <1>2, <2>2, <2>3, <2>4 DEF R
<1>6. \A q \in group.runs : q.revision <= v /\ q.revision # v
      /\ \A p \in group.runs : p.revision = q.revision => p = q
  <2> TAKE q \in group.runs
  <2>1. q.revision \in Nat /\ q.revision <= group.revision
    BY <1>1 DEF GroupSteady
  <2>2. q.revision <= v /\ q.revision # v
    BY <1>1, <2>1
  <2> QED BY <2>2 DEF GroupSteady
<1>7. ASSUME NEW issue \in {"none", "bad", "taken"}
      PROVE  LET g == Judged(k, issue) IN
             g \in GroupType /\ GroupSteady(g) /\ g.revision = v /\ g.issue = issue /\ g.pending = FALSE
  <2>1. PICK g : g = Judged(k, issue)
    OBVIOUS
  <2>2. /\ g \in GroupType /\ g.issue = issue /\ g.pending = FALSE
        /\ g.revision = v /\ g.live = 0 /\ g.runs = group.runs
    BY <1>3, <2>1, JudgedGroup
  <2>3. GroupSteady(g)
    BY <1>6, <2>2 DEF GroupSteady
  <2> QED BY <2>1, <2>2, <2>3
<1> HIDE DEF w
<1>8. GroupSteady(w)
  <2> HIDE DEF v
  <2>1. v <= v
    BY <1>1
  <2> QED BY <1>4, <1>5, <1>6, <2>1 DEF GroupSteady
<1>9. CASE n = "bad"
  <2>1. GroupExecuted(n) = Judged(k, "bad")
    BY <1>2, <1>9 DEF GroupExecuted, k
  <2> QED BY <1>7, <2>1
<1>10. CASE n # "bad" /\ HasAsync
  <2>1. GroupExecuted(n) = w
    BY <1>2, <1>10 DEF GroupExecuted, w, R, r
  <2> QED BY <1>5, <1>8, <1>10, <2>1 DEF r
<1>11. CASE n # "bad" /\ ~HasAsync
  <2>1. GroupExecuted(n) = Judged(k, "none")
    BY <1>2, <1>11 DEF GroupExecuted, k
  <2> QED BY <1>7, <1>11, <2>1
<1> QED BY <1>9, <1>10, <1>11

(* Validation that answers, waits or throws.                               *)
LEMMA ThrownGroup ==
    ASSUME group \in GroupType, GroupSteady(group)
    PROVE  GroupThrown \in GroupType /\ GroupSteady(GroupThrown)
<1> DEFINE v == group.revision + 1
           h == [group EXCEPT !.revision = v, !.live = v]
<1>1. v \in Nat /\ v > group.revision /\ group.revision \in Nat
      /\ group.runs \in SUBSET [revision : Nat, value : Names]
  BY DEF GroupType
<1>2. h = GroupThrown
  BY DEF GroupThrown
<1>3. \A q \in group.runs : q.revision <= v /\ q.revision # v
  BY <1>1 DEF GroupSteady
<1> HIDE DEF v
<1>4. h \in GroupType
  BY <1>1, Zenon DEF GroupType
<1>5. h.revision = v /\ h.live = v /\ h.runs = group.runs
  BY DEF GroupType
<1> HIDE DEF h
<1>6. GroupSteady(h)
  BY <1>3, <1>5 DEF GroupSteady
<1> QED BY <1>2, <1>4, <1>6

LEMMA ValidatedGroup ==
    ASSUME group \in GroupType, GroupSteady(group), NEW n \in Names, NEW g \in GroupValidated(n)
    PROVE  g \in GroupType /\ GroupSteady(g)
<1>1. CASE g = GroupThrown
  BY <1>1, ThrownGroup
<1>2. CASE g = GroupExecuted(n)
  <2>1. GroupExecuted(n) \in GroupType /\ GroupSteady(GroupExecuted(n))
    BY ExecutedGroup
  <2> QED BY <1>2, <2>1
<1> QED BY <1>1, <1>2 DEF GroupValidated

(* Nothing of the validation changes.                                      *)
SameOrOver(d, c) == (SameCall(d, c) /\ HeardAlike(d, c) /\ d.replaced = c.replaced) \/ Over(d)

LEMMA CallsRest ==
    ASSUME FormInv, group' = group, \A c \in Calls : SameOrOver(calls'[c], calls[c])
    PROVE  GroupSteady(group)' /\ CallsSteady'
<1>1. GroupSteady(group)'
  BY DEF FormInv, GroupSteady
<1>2. ASSUME NEW c \in Calls PROVE Awaits(calls'[c], group) /\ Validated(calls'[c])
  BY DEF FormInv, CallsSteady, SameOrOver, SameCall, HeardAlike, Over, Awaits, Validated
<1> QED BY <1>1, <1>2 DEF CallsSteady, Awaits, Validated

(* Another validation takes the place of the ones that calls wait for.     *)
Interrupted(d, c) ==
    \/ SameCall(d, c) /\ HeardAlike(d, c)
                      /\ (c.phase = "validating" => d.replaced = TRUE)
                      /\ (c.phase # "validating" => d.replaced = c.replaced)
    \/ Over(d)

LEMMA CallsInterrupted ==
    ASSUME FormInv, NEW c \in Calls, Interrupted(calls'[c], calls[c]), NEW g
    PROVE  Awaits(calls'[c], g) /\ Validated(calls'[c])
BY DEF FormInv, CallsSteady, SameCall, HeardAlike, Over, Interrupted, Awaits, Validated

LEMMA GroupInterrupted ==
    ASSUME FormInv, GroupSteady(group'), \A c \in Calls : Interrupted(calls'[c], calls[c])
    PROVE  GroupSteady(group)' /\ CallsSteady'
<1>1. GroupSteady(group)'
  BY DEF GroupSteady
<1>2. \A c \in Calls : Awaits(calls'[c], group') /\ Validated(calls'[c])
  BY CallsInterrupted
<1> QED BY <1>1, <1>2 DEF CallsSteady, Awaits, Validated

(* Issues.                                                                 *)
LEMMA AimedKept ==
    ASSUME FormInv, options' = options, issuesOn' \subseteq issuesOn
    PROVE  Aimed'
BY DEF FormInv, Aimed, FormNode, NameNode

LEMMA ItemsAreNodes ==
    ASSUME ArrayInv, ~options.keyed
    PROVE  \A i \in DOMAIN items : items[i].id = items[i].node /\ items[i].node \in 1..MaxNodes
<1>1. DOMAIN items = 1..Len(items) /\ made <= MaxNodes /\ made \in Nat
  BY LenProperties, ArrayBounds DEF ArrayInv, Tidy
<1>2. \A i \in 1..Len(items) : items[i].node \in 1..made /\ items[i].id = items[i].node
  BY DEF ArrayInv, Tidy
<1>3. 1..made \subseteq 1..MaxNodes
  BY <1>1, ArrayBounds
<1> QED BY <1>1, <1>2, <1>3

LEMMA RoutedAimed ==
    ASSUME ArrayInv, ~options.keyed, NEW path \in Paths, NEW ids
    PROVE  Routed(path, ids) \in {FormNode, NameNode} \/ Meant(path, ids) = Routed(path, ids)
<1>1. \A i \in DOMAIN items : items[i].id = items[i].node
  BY ItemsAreNodes
<1>2. path.to = ItemNode \/ path.to \in {FormNode, NameNode}
  BY DEF Paths
<1>3. CASE path.to = ItemNode /\ path.index \in DOMAIN ids
  <2>1. PICK id : id = ids[path.index]
    OBVIOUS
  <2>2. Routed(path, ids) = NodeById(id) /\ Meant(path, ids) = id
    BY <1>3, <2>1 DEF Routed, Meant
  <2> DEFINE found == {i \in DOMAIN items : items[i].id = id}
             x == CHOOSE i \in found : TRUE
  <2>3. CASE found = {}
    BY <2>2, <2>3 DEF NodeById
  <2>4. CASE found # {}
    <3>1. x \in found
      BY <2>4
    <3>2. NodeById(id) = items[x].node
      BY <2>4 DEF NodeById
    <3> HIDE DEF x
    <3> QED BY <1>1, <2>2, <3>1, <3>2
  <2> QED BY <2>3, <2>4
<1>4. CASE path.to = ItemNode /\ path.index \notin DOMAIN ids
  <2>1. Routed(path, ids) = At(path.index)
    BY <1>4 DEF Routed
  <2>2. CASE path.index \in DOMAIN items
    BY <1>1, <1>4, <2>1, <2>2 DEF At, Meant
  <2>3. CASE path.index \notin DOMAIN items
    BY <2>1, <2>3 DEF At
  <2> QED BY <2>2, <2>3
<1>5. CASE path.to # ItemNode
  BY <1>2, <1>5 DEF Routed
<1> QED BY <1>3, <1>4, <1>5

LEMMA AimedAdded ==
    ASSUME FormInv, NEW path \in Paths, NEW ids, options' = options,
           issuesOn' = issuesOn \cup {[on |-> Routed(path, ids), about |-> Meant(path, ids)]}
    PROVE  Aimed'
<1> SUFFICES ASSUME ~options.keyed, NEW s \in issuesOn'
             PROVE  s.on \in {FormNode, NameNode} \/ s.about = s.on
  BY DEF Aimed, FormNode, NameNode
<1>1. CASE s \in issuesOn
  BY <1>1 DEF FormInv, Aimed
<1>2. CASE s = [on |-> Routed(path, ids), about |-> Meant(path, ids)]
  <2>1. Routed(path, ids) \in {FormNode, NameNode} \/ Meant(path, ids) = Routed(path, ids)
    BY RoutedAimed DEF FormInv
  <2>2. s.on = Routed(path, ids) /\ s.about = Meant(path, ids)
    BY <1>2
  <2> QED BY <2>1, <2>2
<1> QED BY <1>1, <1>2
-----------------------------------------------------------------------------
(* What becomes of the submission.                                         *)

EndedWith(s, st) == [s EXCEPT !.status = st, !.live = 0]
LEMMA Ended ==
    ASSUME NEW s \in SubmissionType, NEW st \in {"idle", "failed", "succeeded", "cancelled"}
    PROVE  /\ EndedWith(s, st) \in SubmissionType /\ EndedWith(s, st).status = st
           /\ EndedWith(s, st).live = 0 /\ EndedWith(s, st).revision = s.revision
<1>1. st \in {"idle", "validating", "submitting", "succeeded", "failed", "cancelled"} /\ 0 \in Nat
  OBVIOUS
<1>2. PICK e : e = [s EXCEPT !.status = st, !.live = 0]
  OBVIOUS
<1>3. e \in SubmissionType
  BY <1>1, <1>2, Zenon DEF SubmissionType
<1>4. e.status = st /\ e.live = 0 /\ e.revision = s.revision
  BY <1>2 DEF SubmissionType
<1> QED BY <1>2, <1>3, <1>4 DEF EndedWith

LEMMA Going ==
    ASSUME NEW s \in SubmissionType, NEW st \in {"idle", "submitting"}, NEW e, e = [s EXCEPT !.status = st]
    PROVE  e \in SubmissionType /\ e.status = st /\ e.live = s.live /\ e.revision = s.revision /\ e.up = s.up
<1>1. st \in {"idle", "validating", "submitting", "succeeded", "failed", "cancelled"}
  OBVIOUS
<1>2. e \in SubmissionType
  BY <1>1, Zenon DEF SubmissionType
<1> QED BY <1>2 DEF SubmissionType

LEMMA BegunSubmission ==
    ASSUME submission \in SubmissionType, NEW c
    PROVE  /\ Begin(c) \in SubmissionType /\ Begin(c).status = "validating"
           /\ Begin(c).revision = submission.revision + 1 /\ Begin(c).live = submission.revision + 1
           /\ Begin(c).up = submission.up
<1> DEFINE v == submission.revision + 1
<1>1. v \in Nat
  BY DEF SubmissionType
<1>2. PICK e : e = [submission EXCEPT !.status = "validating", !.revision = v, !.live = v]
  OBVIOUS
<1>3. e = Begin(c)
  BY <1>2 DEF Begin
<1> HIDE DEF v
<1>4. e \in SubmissionType
  BY <1>1, <1>2, Zenon DEF SubmissionType
<1>5. e.status = "validating" /\ e.revision = v /\ e.live = v /\ e.up = submission.up
  BY <1>2 DEF SubmissionType
<1> QED BY <1>3, <1>4, <1>5 DEF v

LEMMA StoppedSubmission ==
    ASSUME submission \in SubmissionType
    PROVE  /\ Stopped \in SubmissionType /\ Stopped.status = "cancelled"
           /\ Stopped.revision = submission.revision + 1 /\ Stopped.live = 0 /\ Stopped.up = submission.up
<1> DEFINE v == submission.revision + 1
<1>1. v \in Nat /\ 0 \in Nat
  BY DEF SubmissionType
<1>2. PICK e : e = [submission EXCEPT !.status = "cancelled", !.revision = v, !.live = 0]
  OBVIOUS
<1>3. e = Stopped
  BY <1>2 DEF Stopped
<1> HIDE DEF v
<1>4. e \in SubmissionType
  BY <1>1, <1>2, Zenon DEF SubmissionType
<1>5. e.status = "cancelled" /\ e.revision = v /\ e.live = 0 /\ e.up = submission.up
  BY <1>2 DEF SubmissionType
<1> QED BY <1>3, <1>4, <1>5 DEF v
-----------------------------------------------------------------------------
(* The steps.                                                              *)

LEMMA ArrayKept == ASSUME FormInv, UNCHANGED arrayvars PROVE ArrayInv' /\ options' = options
<1>1. ArrayInv'
  BY ArrayInvKept DEF FormInv
<1> QED BY <1>1 DEF arrayvars

LEMMA OptionsKept == ArrayNext => options' = options
BY DEF ArrayNext, Insert, RemoveItem, Swap, Move, EditKey, SetArrayValues, ResetArray, DisposeArray

LEMMA RunSettlesStep ==
    ASSUME FormInv, NEW r \in group.runs, NEW outcome \in {"answers", "rejects", "gives up"},
           RunSettles(r, outcome)
    PROVE  FormInv'
<1> DEFINE b == outcome = "rejects" /\ RunCurrent(r)
           a == outcome = "gives up" /\ RunCurrent(r)
           left == IF group.live = r.revision THEN 0 ELSE group.live
           runs == group.runs \ {r}
           g == [group EXCEPT !.runs = runs, !.live = left]
           verdict == IF outcome = "answers" /\ r.value = "taken" THEN "taken" ELSE "none"
<1>1. /\ group \in GroupType /\ calls \in [Calls -> CallType] /\ GroupSteady(group)
      /\ UNCHANGED <<arrayvars, name, issuesOn, submission>>
      /\ calls' = [c \in Calls |-> IF calls[c].phase = "validating" /\ calls[c].run = r.revision
                                   THEN [calls[c] EXCEPT !.thrown = b, !.gaveUp = a] ELSE calls[c]]
      /\ group' = IF ~RunCurrent(r) THEN g
                  ELSE IF outcome = "rejects" THEN [g EXCEPT !.pending = FALSE]
                  ELSE Judged(g, verdict)
  BY DEF FormInv, FormTyped, RunSettles
<1>2. left \in Nat /\ runs \in SUBSET [revision : Nat, value : Names] /\ r \in [revision : Nat, value : Names]
  BY <1>1 DEF GroupType
<1>3. verdict \in {"none", "bad", "taken"}
  OBVIOUS
<1> HIDE DEF left, runs, verdict
<1>4. g \in GroupType
  BY <1>1, <1>2, Zenon DEF GroupType
<1>5. g.runs = runs /\ g.live = left /\ g.revision = group.revision /\ g.issue = group.issue
  BY <1>1 DEF GroupType
<1> HIDE DEF g
<1>6. /\ group' \in GroupType /\ group'.runs = runs /\ group'.live = left
      /\ group'.revision = group.revision
      /\ ~RunCurrent(r) \/ outcome = "rejects" => group'.issue = group.issue
      /\ RunCurrent(r) /\ outcome # "rejects" => group'.issue = verdict
  <2>1. CASE ~RunCurrent(r)
    BY <1>1, <1>4, <1>5, <2>1
  <2>2. CASE RunCurrent(r) /\ outcome = "rejects"
    <3>1. group' = [g EXCEPT !.pending = FALSE]
      BY <1>1, <2>2
    <3>2. group' \in GroupType
      BY <1>4, <3>1, Zenon DEF GroupType
    <3>3. /\ group'.runs = g.runs /\ group'.live = g.live /\ group'.revision = g.revision
          /\ group'.issue = g.issue
      BY <1>4, <3>1 DEF GroupType
    <3> QED BY <1>5, <2>2, <3>2, <3>3
  <2>3. CASE RunCurrent(r) /\ outcome # "rejects"
    <3>1. group' = Judged(g, verdict)
      BY <1>1, <2>3
    <3> QED BY <1>3, <1>4, <1>5, <2>3, <3>1, JudgedGroup
  <2> QED BY <2>1, <2>2, <2>3
<1>7. \A q \in runs : q \in group.runs /\ q.revision # r.revision
  BY <1>1 DEF runs, GroupSteady
<1>8. GroupSteady(group)'
  <2>1. left \in {0, group.revision}
    BY <1>1 DEF left, GroupSteady
  <2>2. ASSUME NEW q \in runs
        PROVE  /\ q.revision <= group.revision
               /\ q.revision = group.revision => left = group.revision
               /\ \A p \in runs : p.revision = q.revision => p = q
    BY <1>1, <1>7 DEF GroupSteady, left
  <2> QED BY <1>6, <2>1, <2>2 DEF GroupSteady
<1>9. a \in BOOLEAN /\ b \in BOOLEAN
  OBVIOUS
<1> HIDE DEF a, b
<1>10. ASSUME NEW c \in Calls
       PROVE  LET d == calls'[c] IN
              /\ d \in CallType /\ SameCall(d, calls[c]) /\ d.replaced = calls[c].replaced
              /\ calls[c].phase = "validating" /\ calls[c].run = r.revision => d.thrown = b /\ d.gaveUp = a
              /\ calls[c].phase # "validating" \/ calls[c].run # r.revision => HeardAlike(d, calls[c])
  <2>1. PICK call : call = calls[c] /\ call \in CallType
    BY <1>1
  <2>2. PICK d : d = calls'[c]
    OBVIOUS
  <2>3. CASE call.phase = "validating" /\ call.run = r.revision
    <3>1. d = [call EXCEPT !.thrown = b, !.gaveUp = a]
      BY <1>1, <2>1, <2>2, <2>3
    <3>2. d \in CallType
      BY <1>9, <2>1, <3>1, Zenon DEF CallType
    <3>3. SameCall(d, call)
      BY <2>1, <3>1 DEF CallType, SameCall
    <3>4. d.thrown = b /\ d.gaveUp = a
      BY <2>1, <3>1 DEF CallType
    <3>5. d.replaced = call.replaced
      BY <2>1, <3>1 DEF CallType
    <3> QED BY <2>1, <2>2, <2>3, <3>2, <3>3, <3>4, <3>5, Zenon
  <2>4. CASE ~(call.phase = "validating" /\ call.run = r.revision)
    <3>1. d = call
      BY <1>1, <2>1, <2>2, <2>4
    <3> QED BY <2>1, <2>2, <2>4, <3>1 DEF SameCall, HeardAlike
  <2> QED BY <2>3, <2>4
<1>11. ASSUME NEW c \in Calls PROVE Awaits(calls'[c], group') /\ Validated(calls'[c])
  <2>1. PICK d : d = calls'[c]
    OBVIOUS
  <2>2. PICK call : call = calls[c] /\ Awaits(call, group) /\ Validated(call)
    BY DEF FormInv, CallsSteady
  <2>3. /\ SameCall(d, call) /\ d.replaced = call.replaced
        /\ call.phase = "validating" /\ call.run = r.revision => d.thrown = b /\ d.gaveUp = a
        /\ call.phase # "validating" \/ call.run # r.revision => HeardAlike(d, call)
    BY <1>10, <2>1, <2>2
  <2>4. Validated(d)
    BY <2>2, <2>3 DEF Validated, SameCall, HeardAlike
  <2>5. ASSUME d.phase = "validating", ~d.replaced
        PROVE  /\ HasAsync /\ d.run = group'.revision /\ d.output # "bad"
               /\ \/ [revision |-> d.run, value |-> d.output] \in group'.runs
                  \/ /\ \A q \in group'.runs : q.revision # d.run
                     /\ d.thrown \/ d.gaveUp \/ (d.output = "taken" => group'.issue # "none")
    <3>1. /\ HasAsync /\ call.run = group.revision /\ call.output # "bad"
          /\ \/ [revision |-> call.run, value |-> call.output] \in group.runs
             \/ /\ \A q \in group.runs : q.revision # call.run
                /\ call.thrown \/ call.gaveUp \/ (call.output = "taken" => group.issue # "none")
      BY <2>2, <2>3, <2>5 DEF SameCall, Awaits
    <3>2. d.run = call.run /\ d.output = call.output /\ call.phase = "validating"
      BY <2>3, <2>5 DEF SameCall
    <3>3. CASE call.run = r.revision
      <4>1. RunCurrent(r)
        BY <1>1, <3>1, <3>3 DEF RunCurrent, GroupSteady
      <4>2. PICK q \in group.runs : q = [revision |-> call.run, value |-> call.output]
        BY <3>1, <3>3
      <4>3. q = r
        BY <1>1, <3>3, <4>2 DEF GroupSteady
      <4>4. r.value = call.output
        <5>1. q.value = call.output
          BY <4>2
        <5> QED BY <4>3, <5>1, Zenon
      <4>5. \A p \in group'.runs : p.revision # d.run
        BY <1>6, <1>7, <3>2, <3>3
      <4>6. CASE outcome = "rejects"
        <5>1. d.thrown
          BY <2>3, <3>2, <3>3, <4>1, <4>6 DEF b
        <5> QED BY <1>6, <3>1, <3>2, <4>5, <5>1
      <4>7. CASE outcome = "gives up"
        <5>1. d.gaveUp
          BY <2>3, <3>2, <3>3, <4>1, <4>7 DEF a
        <5> QED BY <1>6, <3>1, <3>2, <4>5, <5>1
      <4>8. CASE outcome = "answers"
        <5>1. d.output = "taken" => group'.issue # "none"
          BY <1>6, <3>2, <4>1, <4>4, <4>8 DEF verdict
        <5> QED BY <1>6, <3>1, <3>2, <4>5, <5>1
      <4> QED BY <4>6, <4>7, <4>8
    <3>4. CASE call.run # r.revision
      <4>1. ~RunCurrent(r)
        BY <3>1, <3>4 DEF RunCurrent
      <4>2. group'.issue = group.issue /\ HeardAlike(d, call)
        BY <1>6, <2>3, <3>4, <4>1
      <4>3. CASE [revision |-> call.run, value |-> call.output] \in group.runs
        <5>1. PICK q \in group.runs : q = [revision |-> call.run, value |-> call.output]
          BY <4>3
        <5>2. q.revision = call.run
          BY <5>1
        <5>3. q \in runs
          BY <3>4, <5>2 DEF runs
        <5>4. q = [revision |-> d.run, value |-> d.output]
          BY <3>2, <5>1
        <5>5. [revision |-> d.run, value |-> d.output] \in group'.runs
          BY <1>6, <5>3, <5>4, Zenon
        <5>6. HasAsync /\ d.run = group'.revision /\ d.output # "bad"
          BY <1>6, <3>1, <3>2
        <5> QED BY <5>5, <5>6, Zenon
      <4>4. CASE /\ \A q \in group.runs : q.revision # call.run
                 /\ call.thrown \/ call.gaveUp \/ (call.output = "taken" => group.issue # "none")
        <5>1. \A q \in group'.runs : q.revision # d.run
          BY <1>6, <1>7, <3>2, <4>4
        <5>2. d.thrown \/ d.gaveUp \/ (d.output = "taken" => group'.issue # "none")
          BY <3>2, <4>2, <4>4 DEF HeardAlike
        <5> QED BY <1>6, <3>1, <3>2, <5>1, <5>2
      <4> QED BY <3>1, <4>3, <4>4
    <3> QED BY <3>3, <3>4
  <2>6. Awaits(d, group')
    BY <2>5 DEF Awaits
  <2> QED BY <2>1, <2>4, <2>6
<1>12. CallsSteady'
  BY <1>11 DEF CallsSteady, Awaits, Validated
<1>13. FormTyped'
  <2>1. calls' \in [Calls -> CallType]
    <3>1. DOMAIN calls' = Calls /\ calls' = [c \in Calls |-> calls'[c]]
      BY <1>1
    <3> QED BY <1>10, <3>1
  <2> QED BY <1>1, <1>6, <2>1 DEF FormInv, FormTyped
<1>14. \A c \in Calls : calls'[c].phase = calls[c].phase /\ calls'[c].revision = calls[c].revision
  BY <1>10 DEF SameCall
<1>15. OneOwner' /\ HasOwner'
  BY <1>1, <1>13, <1>14, OwnersStay DEF Follows
<1>16. ArrayInv' /\ Aimed'
  BY <1>1, ArrayKept, AimedKept
<1> QED BY <1>8, <1>12, <1>13, <1>15, <1>16 DEF FormInv

(* Only the root is validated: with new values, or by its rules alone.     *)
LEMMA ValidatedStep ==
    ASSUME FormInv, NEW n \in Names, group' \in GroupValidated(n), calls' = Replaced,
           name' \in Names, submission' = submission, UNCHANGED arrayvars, issuesOn' \subseteq issuesOn
    PROVE  FormInv'
<1>1. calls \in [Calls -> CallType] /\ group \in GroupType /\ GroupSteady(group)
  BY DEF FormInv, FormTyped
<1>2. group' \in GroupType /\ GroupSteady(group')
  BY <1>1, ValidatedGroup
<1>3. /\ calls' \in [Calls -> CallType]
      /\ \A c \in Calls : SameCall(calls'[c], calls[c]) /\ Interrupted(calls'[c], calls[c])
  BY <1>1, ReplacedCalls DEF Interrupted
<1>4. FormTyped'
  BY <1>2, <1>3 DEF FormInv, FormTyped
<1>5. GroupSteady(group)' /\ CallsSteady'
  BY <1>2, <1>3, GroupInterrupted
<1>6. \A c \in Calls : calls'[c].phase = calls[c].phase /\ calls'[c].revision = calls[c].revision
  BY <1>3 DEF SameCall
<1>7. OneOwner' /\ HasOwner'
  BY <1>4, <1>6, OwnersStay DEF Follows
<1>8. ArrayInv' /\ Aimed'
  BY ArrayKept, AimedKept
<1> QED BY <1>4, <1>5, <1>7, <1>8 DEF FormInv

(* Neither the validation nor the submission is touched.                   *)
LEMMA RestStep ==
    ASSUME FormInv, ArrayInv', Aimed', name' \in Names, UNCHANGED <<group, submission, calls>>
    PROVE  FormInv'
<1>1. group' = group /\ submission' = submission /\ calls' = calls
  OBVIOUS
<1>2. FormTyped'
  BY <1>1 DEF FormInv, FormTyped
<1>3. \A c \in Calls : SameOrOver(calls'[c], calls[c])
  BY <1>1 DEF SameOrOver, SameCall, HeardAlike
<1>4. GroupSteady(group)' /\ CallsSteady'
  BY <1>1, <1>3, CallsRest
<1>5. OneOwner' /\ HasOwner'
  BY <1>1, <1>2, OwnersStay DEF Follows
<1> QED BY <1>2, <1>4, <1>5 DEF FormInv

LEMMA SetNameStep == ASSUME FormInv, SetName PROVE FormInv'
<1>1. name' \in Names /\ UNCHANGED <<arrayvars, submission>> /\ issuesOn' \subseteq issuesOn
  BY DEF SetName, Without
<1>2. ArrayInv' /\ Aimed'
  BY <1>1, ArrayKept, AimedKept
<1>3. CASE UNCHANGED <<group, calls>>
  BY <1>1, <1>2, <1>3, RestStep
<1>4. CASE group' \in GroupValidated(name') /\ calls' = Replaced
  <2>1. PICK n \in Names : n = name'
    BY <1>1
  <2> QED BY <1>1, <1>4, <2>1, ValidatedStep
<1> QED BY <1>3, <1>4 DEF SetName

LEMMA ValidateFormStep == ASSUME FormInv, ValidateForm PROVE FormInv'
<1>1. /\ group' \in GroupValidated(name) /\ calls' = Replaced
      /\ UNCHANGED <<arrayvars, name, issuesOn, submission>>
  BY DEF ValidateForm
<1>2. PICK n \in Names : n = name
  BY DEF FormInv, FormTyped
<1>3. group' \in GroupValidated(n) /\ name' \in Names /\ submission' = submission /\ issuesOn' \subseteq issuesOn
  BY <1>1, <1>2
<1> QED BY <1>1, <1>3, ValidatedStep

LEMMA ChangeItemsStep == ASSUME FormInv, ChangeItems PROVE FormInv'
<1>1. /\ ArrayNext /\ issuesOn' \subseteq issuesOn /\ UNCHANGED <<name, group, submission, calls>>
  BY DEF ChangeItems, OnLive
<1>2. ArrayInv' /\ options' = options
  BY <1>1, ArrayNextStep, OptionsKept DEF ArrayStep, FormInv
<1>3. Aimed'
  BY <1>1, <1>2, AimedKept
<1>4. name' \in Names
  BY <1>1 DEF FormInv, FormTyped
<1> QED BY <1>1, <1>2, <1>3, <1>4, RestStep

LEMMA GiveServerIssuesStep == ASSUME FormInv, GiveServerIssues PROVE FormInv'
<1>1. UNCHANGED <<arrayvars, name, group, submission, calls>>
  BY DEF GiveServerIssues
<1> DEFINE ids == <<>>
<1>2. PICK path \in Paths :
          issuesOn' = issuesOn \cup {[on |-> Routed(path, ids), about |-> Meant(path, ids)]}
  BY DEF GiveServerIssues
<1> HIDE DEF ids
<1>3. ArrayInv' /\ options' = options
  BY <1>1, ArrayKept
<1>4. Aimed'
  BY <1>2, <1>3, AimedAdded
<1>5. name' \in Names
  BY <1>1 DEF FormInv, FormTyped
<1> QED BY <1>1, <1>3, <1>4, <1>5, RestStep

LEMMA ClearServerStep == ASSUME FormInv, ClearServer PROVE FormInv'
<1>1. UNCHANGED <<arrayvars, name, group, submission, calls>> /\ issuesOn' \subseteq issuesOn
  BY DEF ClearServer
<1>2. name' \in Names
  BY <1>1 DEF FormInv, FormTyped
<1> QED BY <1>1, <1>2, ArrayKept, AimedKept, RestStep

(* The submission stops; calls go on as they were, or are over.            *)
LEMMA StoppedStep ==
    ASSUME FormInv, ArrayInv', Aimed', name' \in Names, group' = group,
           submission' \in SubmissionType, calls' \in [Calls -> CallType],
           \A c \in Calls : SameOrOver(calls'[c], calls[c]),
           submission'.revision >= submission.revision,
           submission'.live \in {0, submission'.revision},
           submission'.status \notin {"validating", "submitting"}
    PROVE  FormInv'
<1>1. FormTyped'
  BY DEF FormInv, FormTyped
<1>2. GroupSteady(group)' /\ CallsSteady'
  BY CallsRest
<1>3. Follows
  BY DEF Follows, SameOrOver, SameCall
<1>4. OneOwner' /\ HasOwner'
  BY <1>1, <1>3, OwnersStop
<1> QED BY <1>1, <1>2, <1>4 DEF FormInv

LEMMA EndedSame ==
    ASSUME FormInv, NEW c \in Calls, calls' = Ends(c)
    PROVE  calls' \in [Calls -> CallType] /\ \A d \in Calls : SameOrOver(calls'[d], calls[d])
BY EndedCalls DEF FormInv, FormTyped, SameOrOver, SameCall, HeardAlike

LEMMA FailsFacts ==
    ASSUME FormInv, NEW c, Fails(c)
    PROVE  /\ submission' \in SubmissionType /\ submission'.status = "failed" /\ submission'.live = 0
           /\ submission'.revision >= submission.revision
<1>1. submission' = [Begin(c) EXCEPT !.status = "failed", !.live = 0]
  BY DEF Fails
<1>2. submission \in SubmissionType /\ submission.revision \in Nat
  BY DEF FormInv, FormTyped, SubmissionType
<1>3. PICK s : s = Begin(c)
  OBVIOUS
<1>4. s \in SubmissionType /\ s.revision = submission.revision + 1
  BY <1>2, <1>3, BegunSubmission
<1>5. submission' \in SubmissionType /\ submission'.status = "failed" /\ submission'.live = 0
      /\ submission'.revision = s.revision
  <2>1. submission' = EndedWith(s, "failed")
    BY <1>1, <1>3 DEF EndedWith
  <2> QED BY <1>4, <2>1, Ended
<1> QED BY <1>2, <1>4, <1>5

LEMMA OutputThrowsStep == ASSUME FormInv, NEW c \in Calls, OutputThrows(c) PROVE FormInv'
<1>1. calls' = Ends(c) /\ UNCHANGED <<arrayvars, name, group, issuesOn>> /\ Fails(c)
  BY DEF OutputThrows
<1>2. name' \in Names /\ issuesOn' \subseteq issuesOn
  BY <1>1 DEF FormInv, FormTyped
<1>3. calls' \in [Calls -> CallType] /\ \A d \in Calls : SameOrOver(calls'[d], calls[d])
  BY <1>1, EndedSame
<1>4. ArrayInv' /\ Aimed'
  BY <1>1, <1>2, ArrayKept, AimedKept
<1> QED BY <1>1, <1>2, <1>3, <1>4, FailsFacts, StoppedStep

LEMMA RuleThrowsStep == ASSUME FormInv, NEW c \in Calls, RuleThrows(c) PROVE FormInv'
<1> DEFINE x == [NoCall EXCEPT !.phase = "done"]
<1>1. /\ calls' = [Replaced EXCEPT ![c] = x] /\ issuesOn' \subseteq issuesOn
      /\ group' = GroupThrown /\ UNCHANGED <<arrayvars, name>> /\ Fails(c)
  BY DEF RuleThrows
<1>2. x \in CallType /\ Over(x)
  BY NoCallTyped
<1> HIDE DEF x
<1>3. /\ calls \in [Calls -> CallType] /\ group \in GroupType /\ GroupSteady(group)
      /\ name' \in Names
  BY <1>1 DEF FormInv, FormTyped
<1>4. group' \in GroupType /\ GroupSteady(group')
  BY <1>1, <1>3, ThrownGroup
<1>5. /\ calls' \in [Calls -> CallType] /\ calls'[c] = x
      /\ \A d \in Calls : d # c => calls'[d] = Replaced[d]
  BY <1>1, <1>2, <1>3, ReplacedCalls
<1>6. \A d \in Calls : Interrupted(calls'[d], calls[d])
  BY <1>2, <1>3, <1>5, ReplacedCalls DEF Interrupted
<1>7. FormTyped'
  BY <1>1, <1>3, <1>4, <1>5, FailsFacts DEF FormTyped
<1>8. GroupSteady(group)' /\ CallsSteady'
  BY <1>4, <1>6, GroupInterrupted
<1>9. Follows
  BY <1>6 DEF Follows, Interrupted, SameCall
<1>10. OneOwner' /\ HasOwner'
  BY <1>1, <1>7, <1>9, FailsFacts, OwnersStop
<1>11. ArrayInv' /\ Aimed'
  BY <1>1, ArrayKept, AimedKept
<1> QED BY <1>7, <1>8, <1>10, <1>11 DEF FormInv

(* The call that ends, or another one, had the controller.                 *)
LEMMA EndsOwnStep ==
    ASSUME FormInv, NEW c \in Calls, NEW st \in {"idle", "failed", "succeeded", "cancelled"},
           submission' = [submission EXCEPT !.status = st, !.live = 0], calls' = Ends(c),
           Aimed', UNCHANGED <<arrayvars, name, group>>
    PROVE  FormInv'
<1>1. submission \in SubmissionType /\ submission.revision \in Nat /\ name' \in Names
  BY DEF FormInv, FormTyped, SubmissionType
<1>2. submission' \in SubmissionType /\ submission'.status = st /\ submission'.live = 0
      /\ submission'.revision = submission.revision
  <2>1. submission' = EndedWith(submission, st)
    BY DEF EndedWith
  <2> QED BY <1>1, <2>1, Ended
<1>3. submission'.revision >= submission.revision /\ submission'.status \notin {"validating", "submitting"}
  BY <1>1, <1>2
<1>4. calls' \in [Calls -> CallType] /\ \A d \in Calls : SameOrOver(calls'[d], calls[d])
  BY EndedSame
<1>5. ArrayInv'
  BY ArrayKept
<1> QED BY <1>1, <1>2, <1>3, <1>4, <1>5, StoppedStep

LEMMA EndsOtherStep ==
    ASSUME FormInv, NEW c \in Calls, ~Owns(c), calls' = Ends(c), UNCHANGED <<submission, issuesOn>>,
           UNCHANGED <<arrayvars, name, group>>
    PROVE  FormInv'
<1>1. /\ calls \in [Calls -> CallType] /\ name' \in Names
      /\ submission' = submission /\ group' = group /\ issuesOn' = issuesOn
  BY DEF FormInv, FormTyped
<1>2. calls' \in [Calls -> CallType] /\ \A d \in Calls : SameOrOver(calls'[d], calls[d])
  BY EndedSame
<1>3. FormTyped'
  BY <1>1, <1>2 DEF FormInv, FormTyped
<1>4. GroupSteady(group)' /\ CallsSteady'
  BY <1>1, <1>2, CallsRest
<1>5. Follows
  BY <1>2 DEF Follows, SameOrOver, SameCall
<1>6. \A d \in Calls : Owns(d) /\ Under(calls[d]) =>
          calls'[d].phase = calls[d].phase /\ calls'[d].revision = calls[d].revision
  <2> TAKE d \in Calls
  <2>1. d # c => calls'[d] = calls[d]
    BY <1>1, EndedCalls
  <2> QED BY <2>1
<1>7. OneOwner' /\ HasOwner'
  BY <1>1, <1>3, <1>5, <1>6, OwnersStay
<1>8. ArrayInv' /\ Aimed'
  BY <1>1, ArrayKept, AimedKept
<1> QED BY <1>3, <1>4, <1>7, <1>8 DEF FormInv

LEMMA ContinueActsStep ==
    ASSUME FormInv, NEW c \in Calls, ContinueActs(c), UNCHANGED <<arrayvars, name, group, issuesOn>>
    PROVE  FormInv'
<1>1. /\ calls[c].phase = "validating" /\ Owns(c) /\ ~calls[c].thrown
      /\ \A r \in group.runs : r.revision # calls[c].run
      /\ group.issue = "none"
      /\ submission' = [submission EXCEPT !.status = "submitting"]
      /\ calls' = [calls EXCEPT ![c].phase = "acting"]
      /\ calls \in [Calls -> CallType] /\ submission \in SubmissionType /\ calls[c] \in CallType
  BY DEF ContinueActs, Waiting, Blocked, FormInv, FormTyped
<1>2. /\ submission' \in SubmissionType /\ submission'.status = "submitting"
      /\ submission'.revision = submission.revision /\ submission'.live = submission.live
      /\ submission'.up = submission.up
  BY <1>1, Going
<1>3. PICK d : d = [calls[c] EXCEPT !.phase = "acting"]
  OBVIOUS
<1>4. PICK call : call = calls[c] /\ call \in CallType
  BY <1>1
<1>5. "acting" \in {"idle", "validating", "acting", "done"} /\ d = [call EXCEPT !.phase = "acting"]
  BY <1>3, <1>4
<1>6. d \in CallType
  BY <1>4, <1>5, Zenon DEF CallType
<1>7. /\ d.phase = "acting" /\ d.revision = call.revision /\ d.run = call.run /\ d.output = call.output
      /\ d.replaced = call.replaced /\ d.gaveUp = call.gaveUp
  BY <1>4, <1>5 DEF CallType
<1>8. calls' \in [Calls -> CallType] /\ calls'[c] = d /\ \A e \in Calls : e # c => calls'[e] = calls[e]
  BY <1>1, <1>3, <1>6
<1>9. FormTyped'
  BY <1>2, <1>8 DEF FormInv, FormTyped
<1>10. Awaits(call, group)
  BY <1>4 DEF FormInv, CallsSteady
<1>11. ASSUME ~call.replaced
       PROVE  call.output # "bad" /\ (HasAsync => call.output # "taken" \/ call.gaveUp)
  <2>1. /\ call.output # "bad"
        /\ \/ [revision |-> call.run, value |-> call.output] \in group.runs
           \/ call.thrown \/ call.gaveUp \/ (call.output = "taken" => group.issue # "none")
    BY <1>1, <1>4, <1>10, <1>11 DEF Awaits
  <2>2. [revision |-> call.run, value |-> call.output] \notin group.runs
    BY <1>1, <1>4
  <2> QED BY <1>1, <1>4, <2>1, <2>2
<1>12. Awaits(d, group') /\ Validated(d)
  BY <1>7, <1>11 DEF Awaits, Validated
<1>13. \A e \in Calls : Awaits(calls'[e], group') /\ Validated(calls'[e])
  BY <1>8, <1>12 DEF FormInv, CallsSteady
<1>14. CallsSteady' /\ GroupSteady(group)'
  BY <1>13 DEF FormInv, CallsSteady, Awaits, Validated, GroupSteady
<1>15. \A e \in Calls : calls'[e].revision = calls[e].revision /\ (Under(calls'[e]) => Under(calls[e]))
  BY <1>1, <1>4, <1>7, <1>8 DEF Under
<1>16. OneOwner'
  BY <1>2, <1>15 DEF FormInv, OneOwner, Under
<1>17. HasOwner'
  <2>1. calls'[c].phase = "acting" /\ calls'[c].revision = submission'.revision
        /\ calls'[c].revision = submission'.live
    BY <1>1, <1>2, <1>4, <1>7, <1>8 DEF Owns
  <2> QED BY <1>2, <2>1 DEF HasOwner, Owns
<1>18. ArrayInv' /\ Aimed'
  BY ArrayKept, AimedKept
<1> QED BY <1>9, <1>14, <1>16, <1>17, <1>18 DEF FormInv

LEMMA ContinueStep == ASSUME FormInv, NEW c \in Calls, Continue(c) PROVE FormInv'
<1>1. UNCHANGED <<arrayvars, name, group, issuesOn>>
  BY DEF Continue
<1>2. Aimed'
  BY <1>1, ArrayKept, AimedKept
<1>3. CASE ContinueStale(c)
  BY <1>1, <1>3, EndsOtherStep DEF ContinueStale
<1>4. CASE ContinueThrown(c)
  BY <1>1, <1>2, <1>4, EndsOwnStep DEF ContinueThrown
<1>5. CASE ContinueBlocked(c)
  BY <1>1, <1>2, <1>5, EndsOwnStep DEF ContinueBlocked
<1>6. CASE ContinueActs(c)
  BY <1>1, <1>6, ContinueActsStep
<1> QED BY <1>3, <1>4, <1>5, <1>6 DEF Continue

LEMMA ActionEndsStep == ASSUME FormInv, NEW c \in Calls, ActionEnds(c) PROVE FormInv'
<1>1. UNCHANGED <<arrayvars, name, group>> /\ calls' = Ends(c)
  BY DEF ActionEnds
<1>2. options' = options
  BY <1>1, ArrayKept
<1>3. CASE ~Owns(c)
  <2>1. UNCHANGED <<submission, issuesOn>>
    BY <1>3 DEF ActionEnds
  <2> QED BY <1>1, <1>3, <2>1, EndsOtherStep
<1>4. ASSUME NEW status \in {"succeeded", "failed", "cancelled"}, UNCHANGED issuesOn,
             submission' = [submission EXCEPT !.status = status, !.live = 0]
      PROVE  FormInv'
  <2>1. Aimed'
    BY <1>2, <1>4, AimedKept
  <2> QED BY <1>1, <1>4, <2>1, EndsOwnStep
<1>5. ASSUME NEW path \in Paths,
             submission' = [submission EXCEPT !.status = "failed", !.live = 0],
             issuesOn' = issuesOn \cup {[on |-> Routed(path, calls[c].ids),
                                         about |-> Meant(path, calls[c].ids)]}
      PROVE  FormInv'
  <2>1. PICK ids : ids = calls[c].ids
    OBVIOUS
  <2>2. issuesOn' = issuesOn \cup {[on |-> Routed(path, ids), about |-> Meant(path, ids)]}
    BY <1>5, <2>1
  <2>3. Aimed'
    BY <1>2, <2>2, AimedAdded
  <2> QED BY <1>1, <1>5, <2>3, EndsOwnStep
<1> QED BY <1>3, <1>4, <1>5 DEF ActionEnds

LEMMA CancelSubmitStep == ASSUME FormInv, CancelSubmit PROVE FormInv'
<1>1. submission' = Stopped /\ UNCHANGED <<arrayvars, name, group, issuesOn, calls>>
  BY DEF CancelSubmit
<1>2. submission \in SubmissionType /\ submission.revision \in Nat /\ name' \in Names
      /\ calls' \in [Calls -> CallType] /\ calls' = calls
  BY <1>1 DEF FormInv, FormTyped, SubmissionType
<1>3. submission' \in SubmissionType /\ submission'.status = "cancelled" /\ submission'.live = 0
      /\ submission'.revision >= submission.revision
  BY <1>1, <1>2, StoppedSubmission
<1>4. \A c \in Calls : SameOrOver(calls'[c], calls[c])
  BY <1>2 DEF SameOrOver, SameCall, HeardAlike
<1>5. ArrayInv' /\ Aimed'
  BY <1>1, ArrayKept, AimedKept
<1> QED BY <1>1, <1>2, <1>3, <1>4, <1>5, StoppedStep

LEMMA GroupStops ==
    ASSUME FormInv, group' \in GroupType, group'.revision = group.revision + 1,
           group'.live = 0, group'.runs = group.runs
    PROVE  GroupSteady(group')
<1>1. /\ group.revision \in Nat /\ group.runs \in SUBSET [revision : Nat, value : Names]
      /\ GroupSteady(group)
  BY DEF FormInv, FormTyped, GroupType
<1>2. \A r \in group.runs : r.revision \in Nat /\ r.revision <= group.revision
      /\ \A q \in group.runs : q.revision = r.revision => q = r
  BY <1>1 DEF GroupSteady
<1>3. \A r \in group.runs : r.revision <= group.revision + 1 /\ r.revision # group.revision + 1
  BY <1>1, <1>2
<1> QED BY <1>2, <1>3 DEF GroupSteady

(* The validation and the submission stop together.                        *)
LEMMA AllStopped ==
    ASSUME FormInv, ArrayInv', Aimed', name' \in Names, calls' = Replaced,
           group' \in GroupType, group'.revision = group.revision + 1,
           group'.live = 0, group'.runs = group.runs,
           submission' \in SubmissionType, submission'.revision >= submission.revision,
           submission'.live \in {0, submission'.revision},
           ~(submission'.status \in {"validating", "submitting"} /\ submission'.up)
    PROVE  FormInv'
<1>1. calls \in [Calls -> CallType]
  BY DEF FormInv, FormTyped
<1>2. /\ calls' \in [Calls -> CallType]
      /\ \A c \in Calls : SameCall(calls'[c], calls[c]) /\ Interrupted(calls'[c], calls[c])
  BY <1>1, ReplacedCalls DEF Interrupted
<1>3. FormTyped'
  BY <1>2 DEF FormTyped
<1>4. GroupSteady(group)' /\ CallsSteady'
  BY <1>2, GroupStops, GroupInterrupted
<1>5. Follows
  BY <1>2 DEF Follows, SameCall
<1>6. OneOwner' /\ HasOwner'
  BY <1>3, <1>5, OwnersStop
<1> QED BY <1>3, <1>4, <1>6 DEF FormInv

LEMMA ResetFormStep == ASSUME FormInv, ResetForm PROVE FormInv'
<1> DEFINE from == IF Busy THEN Stopped ELSE submission
           v == group.revision + 1
<1>1. /\ submission' = [from EXCEPT !.status = "idle"]
      /\ ResetArray(options.initial) /\ name' \in Names /\ issuesOn' \subseteq issuesOn /\ calls' = Replaced
      /\ group' = [group EXCEPT !.status = "unvalidated", !.issue = "none", !.pending = FALSE,
                                !.revision = v, !.live = 0]
  BY DEF ResetForm, Names
<1>2. submission \in SubmissionType /\ submission.revision \in Nat /\ group \in GroupType /\ v \in Nat
      /\ submission.live \in {0, submission.revision}
  BY DEF FormInv, FormTyped, SubmissionType, GroupType, OneOwner
<1>3. from \in SubmissionType /\ from.live \in {0, from.revision} /\ from.revision >= submission.revision
  BY <1>2, StoppedSubmission
<1> HIDE DEF from, v
<1>4. submission' \in SubmissionType /\ submission'.status = "idle" /\ submission'.revision = from.revision
      /\ submission'.live = from.live
  BY <1>1, <1>3, Going
<1>5. group' \in GroupType
  <2>1. "unvalidated" \in {"unvalidated", "valid", "invalid"} /\ "none" \in {"none", "bad", "taken"}
        /\ FALSE \in BOOLEAN /\ 0 \in Nat
    OBVIOUS
  <2> QED BY <1>1, <1>2, <2>1, Zenon DEF GroupType
<1>6. group'.revision = v /\ group'.live = 0 /\ group'.runs = group.runs
  BY <1>1, <1>2 DEF GroupType
<1>7. options.initial \in Lists
  BY DEF FormInv, ArrayInv, ArraySetupType
<1>8. ArrayInv' /\ options' = options
  <2>1. PICK values \in Lists : values = options.initial
    BY <1>7
  <2>2. ArrayStep
    BY <1>1, <2>1, ResetArrayStep DEF FormInv
  <2> QED BY <1>1, <2>2 DEF ArrayStep, ResetArray
<1>9. Aimed'
  BY <1>1, <1>8, AimedKept
<1>10. /\ submission'.revision >= submission.revision /\ submission'.live \in {0, submission'.revision}
       /\ ~(submission'.status \in {"validating", "submitting"} /\ submission'.up)
  BY <1>3, <1>4
<1> QED BY <1>1, <1>4, <1>5, <1>6, <1>8, <1>9, <1>10, AllStopped DEF v

LEMMA DisposeFormStep == ASSUME FormInv, DisposeForm PROVE FormInv'
<1> DEFINE v == group.revision + 1
<1>1. /\ submission' = [submission EXCEPT !.up = FALSE, !.live = 0]
      /\ DisposeArray /\ calls' = Replaced /\ UNCHANGED <<name, issuesOn>>
      /\ group' = [group EXCEPT !.revision = v, !.live = 0, !.pending = FALSE]
  BY DEF DisposeForm
<1>2. submission \in SubmissionType /\ submission.revision \in Nat /\ group \in GroupType /\ v \in Nat
      /\ name' \in Names /\ issuesOn' \subseteq issuesOn
  BY <1>1 DEF FormInv, FormTyped, SubmissionType, GroupType
<1>3. FALSE \in BOOLEAN /\ 0 \in Nat
  OBVIOUS
<1> HIDE DEF v
<1>4. submission' \in SubmissionType
  BY <1>1, <1>2, <1>3, Zenon DEF SubmissionType
<1>5. submission'.live = 0 /\ submission'.revision = submission.revision
  BY <1>1, <1>2 DEF SubmissionType
<1>6. ~submission'.up
  BY <1>1, <1>2 DEF SubmissionType
<1>7. group' \in GroupType
  BY <1>1, <1>2, <1>3, Zenon DEF GroupType
<1>8. group'.revision = v /\ group'.live = 0 /\ group'.runs = group.runs
  BY <1>1, <1>2 DEF GroupType
<1>9. ArrayInv' /\ options' = options
  <2>1. ArrayStep
    BY <1>1, DisposeArrayStep DEF FormInv
  <2> QED BY <1>1, <2>1 DEF ArrayStep, DisposeArray
<1>10. Aimed'
  BY <1>2, <1>9, AimedKept
<1>11. submission'.revision >= submission.revision /\ submission'.live \in {0, submission'.revision}
  BY <1>2, <1>5
<1> QED BY <1>1, <1>2, <1>4, <1>6, <1>7, <1>8, <1>9, <1>10, <1>11, AllStopped DEF v

LEMMA SnapshotTyped ==
    ASSUME FormInv, NEW c, NEW run \in Nat
    PROVE  /\ Snapshot(c, run) \in CallType /\ Snapshot(c, run).phase = "validating"
           /\ Snapshot(c, run).revision = submission.revision + 1
           /\ Snapshot(c, run).run = run /\ Snapshot(c, run).output = name
           /\ Snapshot(c, run).replaced = FALSE
<1> DEFINE ids == [i \in DOMAIN items |-> items[i].id]
           v == submission.revision + 1
<1>1. name \in Names /\ v \in Nat
  BY DEF FormInv, FormTyped, SubmissionType
<1>2. ids \in Seq(Keys \cup {NoKey} \cup Nat)
  <2>1. Len(items) \in Nat /\ DOMAIN items = 1..Len(items) /\ \A i \in 1..Len(items) : items[i] \in ItemRecords
    BY LenProperties, ElementOfSeq DEF FormInv, ArrayInv, Tidy
  <2>2. ids \in [1..Len(items) -> Keys \cup {NoKey} \cup Nat]
    BY <2>1 DEF ItemRecords
  <2> QED BY <2>1, <2>2, IsASeq
<1> HIDE DEF ids, v
<1>3. PICK s : s = [phase |-> "validating", revision |-> v, run |-> run, output |-> name,
                    ids |-> ids, thrown |-> FALSE, gaveUp |-> FALSE, replaced |-> FALSE]
  OBVIOUS
<1>4. s = Snapshot(c, run)
  BY <1>3 DEF Snapshot, ids, v
<1>5. "validating" \in {"idle", "validating", "acting", "done"} /\ FALSE \in BOOLEAN
  OBVIOUS
<1>6. s \in CallType
  BY <1>1, <1>2, <1>3, <1>5, Zenon DEF CallType
<1>7. s.phase = "validating" /\ s.revision = v /\ s.run = run /\ s.output = name
  BY <1>3
<1>8. s.replaced = FALSE
  BY <1>3
<1> QED BY <1>4, <1>6, <1>7, <1>8 DEF v

LEMMA SubmitStep == ASSUME FormInv, NEW c \in Calls, Submit(c) PROVE FormInv'
<1>1. group' = GroupExecuted(name) /\ issuesOn' \subseteq issuesOn /\ UNCHANGED <<arrayvars, name>>
  BY DEF Submit
<1>2. /\ calls \in [Calls -> CallType] /\ group \in GroupType /\ GroupSteady(group) /\ name \in Names
      /\ submission \in SubmissionType /\ submission.revision \in Nat
  BY DEF FormInv, FormTyped, SubmissionType
<1>3. /\ group' \in GroupType /\ GroupSteady(group')
      /\ group'.pending => HasAsync /\ name # "bad"
                           /\ [revision |-> group'.revision, value |-> name] \in group'.runs
      /\ ~group'.pending /\ group'.issue = "none" => ~HasAsync /\ name # "bad"
  BY <1>1, <1>2, ExecutedGroup
<1>4. /\ ArrayInv' /\ Aimed' /\ name' \in Names
  BY <1>1, <1>2, ArrayKept, AimedKept
<1>5. PICK s : s = Begin(c)
  OBVIOUS
<1>6. /\ s \in SubmissionType /\ s.status = "validating" /\ s.revision = submission.revision + 1
      /\ s.live = submission.revision + 1
  BY <1>2, <1>5, BegunSubmission
<1>7. ASSUME NEW x \in CallType, calls' = [Replaced EXCEPT ![c] = x], submission' \in SubmissionType,
             Awaits(x, group'), Validated(x)
      PROVE  /\ FormTyped' /\ GroupSteady(group)' /\ CallsSteady' /\ calls'[c] = x
             /\ \A d \in Calls : d # c => SameCall(calls'[d], calls[d])
  <2>1. calls' \in [Calls -> CallType] /\ calls'[c] = x /\ \A d \in Calls : d # c => calls'[d] = Replaced[d]
    BY <1>2, <1>7, ReplacedCalls
  <2>2. \A d \in Calls : d # c => SameCall(calls'[d], calls[d]) /\ Interrupted(calls'[d], calls[d])
    BY <1>2, <2>1, ReplacedCalls DEF Interrupted
  <2>3. FormTyped'
    BY <1>3, <1>4, <1>7, <2>1 DEF FormTyped
  <2>4. \A d \in Calls : Awaits(calls'[d], group') /\ Validated(calls'[d])
    BY <1>7, <2>1, <2>2, CallsInterrupted
  <2>5. GroupSteady(group)' /\ CallsSteady'
    BY <1>3, <2>4 DEF GroupSteady, CallsSteady, Awaits, Validated
  <2> QED BY <2>1, <2>2, <2>3, <2>5
<1>8. CASE group'.pending
  <2>1. PICK x : x = Snapshot(c, group'.revision)
    OBVIOUS
  <2>2. submission' = s /\ calls' = [Replaced EXCEPT ![c] = x]
    BY <1>5, <1>8, <2>1 DEF Submit
  <2>3. group'.revision \in Nat
    BY <1>3 DEF GroupType
  <2>4. PICK v \in Nat : v = group'.revision
    BY <2>3
  <2>5. x = Snapshot(c, v)
    BY <2>1, <2>4
  <2>6. /\ x \in CallType /\ x.phase = "validating" /\ x.revision = submission.revision + 1
        /\ x.run = group'.revision /\ x.output = name
    BY <2>4, <2>5, SnapshotTyped
  <2>7. Awaits(x, group') /\ Validated(x)
    BY <1>3, <1>8, <2>6 DEF Awaits, Validated
  <2>8. /\ FormTyped' /\ GroupSteady(group)' /\ CallsSteady' /\ calls'[c] = x
        /\ \A d \in Calls : d # c => SameCall(calls'[d], calls[d])
    BY <1>6, <1>7, <2>2, <2>6, <2>7
  <2>9. OneOwner' /\ HasOwner'
    BY <1>6, <2>2, <2>6, <2>8, OwnerBegins DEF SameCall
  <2> QED BY <1>4, <2>8, <2>9 DEF FormInv
<1>9. CASE ~group'.pending /\ submission' = [Begin(c) EXCEPT !.status = "idle", !.live = 0]
           /\ calls' = [Replaced EXCEPT ![c] = [NoCall EXCEPT !.phase = "done"]]
  <2>1. submission' = EndedWith(s, "idle")
    BY <1>5, <1>9 DEF EndedWith
  <2>2. submission' \in SubmissionType /\ submission'.status = "idle" /\ submission'.live = 0
        /\ submission'.revision = s.revision
    BY <1>6, <2>1, Ended
  <2>3. PICK x : x = [NoCall EXCEPT !.phase = "done"]
    OBVIOUS
  <2>4. x \in CallType /\ Over(x)
    BY <2>3, NoCallTyped
  <2>5. Awaits(x, group') /\ Validated(x)
    BY <2>4 DEF Over, Awaits, Validated
  <2>6. /\ FormTyped' /\ GroupSteady(group)' /\ CallsSteady' /\ calls'[c] = x
        /\ \A d \in Calls : d # c => SameCall(calls'[d], calls[d])
    BY <1>7, <1>9, <2>2, <2>3, <2>4, <2>5
  <2>7. Follows
    BY <2>4, <2>6 DEF Follows, SameCall
  <2>8. submission'.revision >= submission.revision
    BY <1>2, <1>6, <2>2
  <2>9. OneOwner' /\ HasOwner'
    BY <2>2, <2>6, <2>7, <2>8, OwnersStop
  <2> QED BY <1>4, <2>6, <2>9 DEF FormInv
<1>10. CASE ~group'.pending /\ ~Blocked(group', {})
            /\ submission' = [Begin(c) EXCEPT !.status = "submitting"]
            /\ calls' = [Replaced EXCEPT ![c] = [Snapshot(c, 0) EXCEPT !.phase = "acting"]]
  <2>1. ~HasAsync /\ name # "bad"
    BY <1>3, <1>10 DEF Blocked
  <2>2. submission' \in SubmissionType /\ submission'.status = "submitting"
        /\ submission'.live = s.live /\ submission'.revision = s.revision
    BY <1>5, <1>6, <1>10, Going
  <2>3. PICK y : y = Snapshot(c, 0)
    OBVIOUS
  <2>4. 0 \in Nat
    OBVIOUS
  <2>5. y \in CallType /\ y.revision = submission.revision + 1 /\ y.output = name
    BY <2>3, <2>4, SnapshotTyped
  <2>6. PICK x : x = [y EXCEPT !.phase = "acting"]
    OBVIOUS
  <2>7. "acting" \in {"idle", "validating", "acting", "done"}
    OBVIOUS
  <2>8. x \in CallType
    BY <2>5, <2>6, <2>7, Zenon DEF CallType
  <2>9. x.phase = "acting" /\ x.revision = y.revision /\ x.output = y.output
    BY <2>5, <2>6 DEF CallType
  <2>10. Awaits(x, group') /\ Validated(x)
    BY <2>1, <2>5, <2>9 DEF Awaits, Validated
  <2>11. /\ FormTyped' /\ GroupSteady(group)' /\ CallsSteady' /\ calls'[c] = x
         /\ \A d \in Calls : d # c => SameCall(calls'[d], calls[d])
    BY <1>7, <1>10, <2>2, <2>3, <2>6, <2>8, <2>10
  <2>12. OneOwner' /\ HasOwner'
    BY <1>6, <2>2, <2>5, <2>9, <2>11, OwnerBegins DEF SameCall
  <2> QED BY <1>4, <2>11, <2>12 DEF FormInv
<1> QED BY <1>8, <1>9, <1>10 DEF Submit

LEMMA FormInitInv == FormInit => FormInv
<1> SUFFICES ASSUME FormInit PROVE FormInv
  OBVIOUS
<1>1. /\ name = "good" /\ issuesOn = {} /\ calls = [c \in Calls |-> NoCall]
      /\ group = [status |-> "unvalidated", issue |-> "none", pending |-> FALSE,
                  revision |-> 0, live |-> 0, runs |-> {}]
      /\ submission = [status |-> "idle", revision |-> 0, live |-> 0, up |-> TRUE]
  BY DEF FormInit, FormOnlyInit
<1>2. group \in GroupType
  BY <1>1 DEF GroupType
<1>3. submission \in SubmissionType
  BY <1>1 DEF SubmissionType
<1>4. calls \in [Calls -> CallType] /\ \A c \in Calls : calls[c].phase = "idle" /\ calls[c].revision = 0
  BY <1>1, NoCallTyped DEF NoCall
<1>5. FormTyped
  BY <1>1, <1>2, <1>3, <1>4 DEF FormTyped, Names
<1>6. GroupSteady(group)
  BY <1>1 DEF GroupSteady
<1>7. CallsSteady
  BY <1>4 DEF CallsSteady, Awaits, Validated
<1>8. OneOwner
  BY <1>1, <1>4 DEF OneOwner, Under
<1>9. HasOwner /\ Aimed
  BY <1>1 DEF HasOwner, Busy, Aimed
<1>10. ArrayInv
  BY ArrayInitInv DEF FormInit
<1> QED BY <1>5, <1>6, <1>7, <1>8, <1>9, <1>10 DEF FormInv

LEMMA FormNextStep == ASSUME FormInv, FormNext PROVE FormInv'
<1>1. CASE SettleRun
  BY <1>1, RunSettlesStep DEF SettleRun
<1>2. CASE ValidateForm
  BY <1>2, ValidateFormStep
<1>3. CASE SetName
  BY <1>3, SetNameStep
<1>4. CASE ChangeItems
  BY <1>4, ChangeItemsStep
<1>5. CASE GiveServerIssues
  BY <1>5, GiveServerIssuesStep
<1>6. CASE ClearServer
  BY <1>6, ClearServerStep
<1>7. ASSUME NEW c \in Calls, OutputThrows(c) \/ RuleThrows(c) PROVE FormInv'
  BY <1>7, OutputThrowsStep, RuleThrowsStep
<1>8. ASSUME NEW c \in Calls, Submit(c) PROVE FormInv'
  BY <1>8, SubmitStep
<1>9. ASSUME NEW c \in Calls, Continue(c) PROVE FormInv'
  BY <1>9, ContinueStep
<1>10. ASSUME NEW c \in Calls, ActionEnds(c) PROVE FormInv'
  BY <1>10, ActionEndsStep
<1>11. CASE CancelSubmit
  BY <1>11, CancelSubmitStep
<1>12. CASE ResetForm
  BY <1>12, ResetFormStep
<1>13. CASE DisposeForm
  BY <1>13, DisposeFormStep
<1> QED BY <1>1, <1>2, <1>3, <1>4, <1>5, <1>6, <1>7, <1>8, <1>9, <1>10, <1>11, <1>12, <1>13 DEF FormNext

LEMMA FormInvariance == FormSpec => []FormInv
<1>1. ASSUME FormInv, UNCHANGED formvars PROVE FormInv'
  <2>1. UNCHANGED arrayvars /\ UNCHANGED <<name, group, issuesOn, submission, calls>>
    BY <1>1 DEF formvars, formonly
  <2>2. name' \in Names /\ issuesOn' \subseteq issuesOn
    BY <1>1, <2>1 DEF FormInv, FormTyped
  <2>3. ArrayInv' /\ Aimed'
    BY <1>1, <2>1, <2>2, ArrayKept, AimedKept
  <2> QED BY <1>1, <2>1, <2>2, <2>3, RestStep
<1>2. FormInv /\ [FormNext]_formvars => FormInv'
  BY <1>1, FormNextStep
<1> QED BY <1>2, FormInitInv, PTL DEF FormSpec

LEMMA FormInvSound == FormInv => SubmissionsAreSound
<1> SUFFICES ASSUME FormInv PROVE SubmissionsAreSound
  OBVIOUS
<1>1. SubmissionIsLive
  <2>1. \A c, d \in Calls :
          (calls[c].phase = "acting" /\ Owns(c) /\ calls[d].phase \in {"validating", "acting"} /\ Owns(d)) => c = d
    BY DEF FormInv, OneOwner, Under, Owns
  <2> QED BY <2>1 DEF FormInv, HasOwner, SubmissionIsLive
<1>2. ActsOnValidated
  BY DEF FormInv, CallsSteady, Validated, ActsOnValidated
<1>3. IssuesFindTheirItem
  <2> SUFFICES ASSUME NEW s \in issuesOn, NEW i \in DOMAIN items, s.on = items[i].node, ~options.keyed
               PROVE  s.about = items[i].id
    BY DEF IssuesFindTheirItem
  <2>1. items[i].id = items[i].node /\ items[i].node \in 1..MaxNodes
    BY ItemsAreNodes DEF FormInv
  <2>2. items[i].node # FormNode /\ items[i].node # NameNode
    BY <2>1, ArrayBounds DEF FormNode, NameNode
  <2> QED BY <2>1, <2>2 DEF FormInv, Aimed
<1> QED BY <1>1, <1>2, <1>3 DEF SubmissionsAreSound

(* A form of the prototype that says it submits has one call that will end *)
(* it, an action gets the output that was validated, and without keys an   *)
(* issue of the server is never on an item that it is not about: at any    *)
(* number of calls, runs and items (createForm().submit()).                *)
THEOREM SubmissionsAreAlwaysSound == FormSpec => []SubmissionsAreSound
BY FormInvariance, FormInvSound, PTL

(* The form does nothing to its array but what the array offers: what is   *)
(* proved of the array holds in the form (ChangeItems, reset(), dispose()).*)
THEOREM FormImplementsArray == FormSpec => ArraySpec
<1>1. ASSUME FormInv, FormNext PROVE [ArrayNext]_arrayvars
  <2>1. options.initial \in Lists
    BY <1>1 DEF FormInv, ArrayInv, ArraySetupType
  <2>2. ResetForm => ArrayNext
    BY <2>1 DEF ResetForm, ArrayNext
  <2>3. DisposeForm => ArrayNext
    BY DEF DisposeForm, ArrayNext
  <2>4. ChangeItems => ArrayNext
    BY DEF ChangeItems
  <2>5. ASSUME NEW c \in Calls, OutputThrows(c) \/ RuleThrows(c) \/ Submit(c) \/ Continue(c) \/ ActionEnds(c)
        PROVE  UNCHANGED arrayvars
    BY <2>5 DEF OutputThrows, RuleThrows, Submit, Continue, ActionEnds
  <2>6. SettleRun \/ ValidateForm \/ SetName \/ GiveServerIssues \/ ClearServer \/ CancelSubmit
        => UNCHANGED arrayvars
    BY DEF SettleRun, RunSettles, ValidateForm, SetName, GiveServerIssues, ClearServer, CancelSubmit
  <2> QED BY <1>1, <2>2, <2>3, <2>4, <2>5, <2>6 DEF FormNext
<1>2. FormInv /\ [FormNext]_formvars => [ArrayNext]_arrayvars
  BY <1>1 DEF formvars
<1>3. FormInit => ArrayInit
  BY DEF FormInit
<1> QED BY <1>2, <1>3, FormInvariance, PTL DEF FormSpec, ArraySpec
=============================================================================
