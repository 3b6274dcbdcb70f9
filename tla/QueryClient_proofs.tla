------------------------- MODULE QueryClient_proofs -------------------------
(***************************************************************************)
(* Proofs about the query client of research/query: what the records and   *)
(* the mutation say of themselves is true in every reachable state, for    *)
(* every set of keys, handles and calls, every GcTime and every bound, and *)
(* nothing an execution does late undoes what came after it.               *)
(*                                                                         *)
(* Both follow from one inductive invariant, QueryInv: each record is      *)
(* sound by itself (RecordOK), the records are made one after the other    *)
(* and mapped by their keys (MadeInOrder), a record waits for its          *)
(* collection only unobserved (CollectsUnused), the mutation holds the     *)
(* controller of the one call not told to stop (ControlsCall), and a call  *)
(* under way knows what it wrote (OwnData).                                *)
(***************************************************************************)
EXTENDS QueryClient, FiniteSetTheorems, TLAPS

(* The phases in which a call of mutate() is under way.                    *)
Under(x) == x.phase \in {"sending", "confirming", "failing"}

ExecutionType ==
    [phase : {"none", "sending", "confirming", "failing", "over"}, aborted : BOOLEAN,
     record : Ids \cup {0}, gen : Nat, previous : Nat]

MutationType ==
    [status : {"idle", "pending", "success", "error"}, controller : Executions \cup {None},
     disposed : BOOLEAN]

(* A record by itself: a generation names one fetch at most; the one that  *)
(* was not told to stop is the one whose controller the record holds.      *)
RecordOK(x) ==
    /\ x.data <= x.generation /\ x.controller <= x.generation /\ x.execution <= x.generation
    /\ \A f \in x.fetches : 1 <= f.gen /\ f.gen <= x.generation
    /\ \A f, g \in x.fetches : f.gen = g.gen => f = g
    /\ \A f \in x.fetches : ~f.aborted => f.gen = x.controller
    /\ \A f \in x.fetches : f.gen = x.generation => x.controller \in {0, f.gen}
    /\ x.fetching => \E f \in x.fetches : Current(x, f)

(* Records are made one after the other, and the client has one per key.   *)
MadeInOrder ==
    /\ \E n \in 0 .. MaxRecord : Made(records) = 1 .. n
    /\ \A r \in Ids : records[r].key = None => records[r] = Unused
    /\ \A k \in Keys : map[k] # 0 => records[map[k]].key = k
    /\ \A h \in Handles : handles[h] # 0 => handles[h] \in Made(records)

(* A record waits for its collection only while nobody observes it, and    *)
(* only it goes then.                                                      *)
CollectsUnused ==
    \A r \in Ids : records[r].gc =>
        /\ GcTime = "later" /\ Observing(handles, r) = {}
        /\ map[records[r].key] = r \/ records[r].key \in orphaned

(* The mutation holds the controller of the call that was not told to stop.*)
ControlsCall ==
    \A e \in Executions :
        mutation.controller = e <=> Under(executions[e]) /\ ~executions[e].aborted

(* While nothing was written after its optimistic data, that is the data.  *)
OwnData(x, rs) ==
    Under(x) =>
        /\ x.record \in Made(rs)
        /\ x.previous <= rs[x.record].generation
        /\ x.gen <= rs[x.record].generation
        /\ rs[x.record].generation = x.gen => rs[x.record].data = x.gen

OwnDataStands == \A e \in Executions : OwnData(executions[e], records)

RecordsOK == \A r \in Ids : RecordOK(records[r])

RecordsPart ==
    /\ map \in [Keys -> Ids \cup {0}]
    /\ records \in [Ids -> RecordType]
    /\ handles \in [Handles -> Ids \cup {0}]
    /\ RecordsOK
    /\ MadeInOrder
    /\ CollectsUnused /\ ActiveKept

MutationPart ==
    /\ mutation \in MutationType
    /\ executions \in [Executions -> ExecutionType]
    /\ ControlsCall /\ PendingIsTrue
    /\ OwnDataStands

QueryInv == RecordsPart /\ MutationPart
-----------------------------------------------------------------------------
(* Records one by one.                                                     *)

FetchType == [gen : Nat, aborted : BOOLEAN]

(* What a step may do to a record: it stays sound and keeps its key, and   *)
(* other data comes with another generation, or is named by the one it has.*)
Grows(x, y) ==
    /\ y \in RecordType /\ RecordOK(y) /\ y.key = x.key
    /\ y.generation >= x.generation
    /\ y.generation = x.generation => y.data \in {x.data, y.generation}

LEMMA SettingGrows ==
    ASSUME NEW x \in RecordType, RecordOK(x)
    PROVE  /\ Grows(x, Setting(x)) /\ Setting(x).gc = x.gc
           /\ Setting(x).generation = x.generation + 1 /\ Setting(x).data = x.generation + 1
<1> DEFINE g == x.generation + 1
           y == [x EXCEPT !.generation = g]
           z == UpdateSuccess(y, g)
<1>1. /\ y \in RecordType /\ y.generation = g /\ y.key = x.key /\ y.controller = x.controller
      /\ y.execution = x.execution /\ y.fetches = x.fetches /\ y.gc = x.gc /\ g \in Nat
  BY DEF RecordType
<1>2. Setting(x) = z
  BY DEF Setting
<1> HIDE DEF y
<1>3. /\ z \in RecordType /\ z.generation = g /\ z.key = x.key /\ z.controller = x.controller
      /\ z.execution = x.execution /\ z.fetches = x.fetches /\ z.gc = x.gc
      /\ z.data = g /\ z.fetching = FALSE
  BY <1>1 DEF RecordType, UpdateSuccess
<1> HIDE DEF z
<1>4. RecordOK(z)
  <2>1. \A f \in x.fetches : f.gen \in Nat
    BY DEF RecordType
  <2>2. x.generation \in Nat /\ x.data \in Nat /\ x.controller \in Nat /\ x.execution \in Nat
    BY DEF RecordType
  <2> QED BY <1>3, <2>1, <2>2 DEF RecordOK
<1>5. z.generation > x.generation
  BY <1>3 DEF RecordType
<1> QED BY <1>2, <1>3, <1>4, <1>5 DEF Grows, RecordType

(* After an abort no fetch is left that was not told to stop.              *)
LEMMA AbortingStops ==
    ASSUME NEW x \in RecordType, RecordOK(x)
    PROVE  LET y == Aborting(x) IN
           /\ y \in RecordType /\ y.controller = 0
           /\ y.key = x.key /\ y.data = x.data /\ y.generation = x.generation /\ y.gc = x.gc
           /\ y.status = x.status /\ y.fetching = x.fetching /\ y.execution = x.execution
           /\ \A f \in y.fetches : f.aborted /\ 1 <= f.gen /\ f.gen <= x.generation
           /\ \A f, h \in y.fetches : f.gen = h.gen => f = h
<1> DEFINE Told(f) == [f EXCEPT !.aborted = f.aborted \/ f.gen = x.controller]
           fetches == {Told(f) : f \in x.fetches}
<1>1. x.fetches \subseteq FetchType
  BY DEF RecordType, FetchType
<1>2. ASSUME NEW f \in x.fetches
      PROVE  /\ Told(f) \in FetchType /\ Told(f).gen = f.gen /\ Told(f).aborted
             /\ f.gen \in Nat /\ 1 <= f.gen /\ f.gen <= x.generation
  <2>1. f \in FetchType /\ f.gen \in Nat
    BY <1>1 DEF FetchType
  <2>2. f.aborted \/ f.gen = x.controller
    BY DEF RecordOK
  <2>3. Told(f) = [f EXCEPT !.aborted = TRUE]
    BY <2>2, Zenon
  <2>4. 1 <= f.gen /\ f.gen <= x.generation
    BY DEF RecordOK
  <2> HIDE DEF Told
  <2>5. Told(f) \in FetchType /\ Told(f).gen = f.gen /\ Told(f).aborted
    BY <2>1, <2>3 DEF FetchType
  <2> QED BY <2>1, <2>4, <2>5
<1>4. Aborting(x) = [x EXCEPT !.controller = 0, !.fetches = fetches]
  BY Zenon DEF Aborting
<1> HIDE DEF Told
<1>5. fetches \subseteq FetchType
  BY <1>2
<1>6. /\ \A f \in fetches : f.aborted /\ 1 <= f.gen /\ f.gen <= x.generation
      /\ \A f, h \in fetches : f.gen = h.gen => f = h
  <2>1. \A f, h \in x.fetches : f.gen = h.gen => f = h
    BY DEF RecordOK
  <2> QED BY <1>2, <2>1
<1> HIDE DEF fetches
<1> DEFINE y == [x EXCEPT !.controller = 0, !.fetches = fetches]
<1>7. /\ y \in RecordType /\ y.controller = 0
      /\ y.key = x.key /\ y.data = x.data /\ y.generation = x.generation /\ y.gc = x.gc
      /\ y.status = x.status /\ y.fetching = x.fetching /\ y.execution = x.execution
      /\ y.fetches = fetches
  BY <1>5 DEF RecordType, FetchType
<1>8. Aborting(x) = y
  BY <1>4
<1> HIDE DEF y
<1> QED BY <1>6, <1>7, <1>8

LEMMA StartingGrows ==
    ASSUME NEW x \in RecordType, RecordOK(x)
    PROVE  /\ Grows(x, Starting(x)) /\ Starting(x).gc = x.gc /\ Starting(x).data = x.data
           /\ Starting(x).generation = x.generation + 1
<1> DEFINE g == x.generation + 1
           y == Aborting(x)
           new == [gen |-> g, aborted |-> FALSE]
           z == [y EXCEPT !.generation = g, !.controller = g, !.fetching = TRUE, !.execution = g,
                          !.fetches = y.fetches \cup {new}]
<1>1. /\ y \in RecordType /\ y.key = x.key /\ y.data = x.data /\ y.gc = x.gc
      /\ \A f \in y.fetches : f.aborted /\ 1 <= f.gen /\ f.gen <= x.generation
      /\ \A f, h \in y.fetches : f.gen = h.gen => f = h
  BY AbortingStops
<1>2. Starting(x) = z
  BY DEF Starting, StartingFrom
<1>3. g \in Nat /\ g >= 1 /\ x.generation \in Nat /\ x.data \in Nat /\ x.data <= x.generation
  BY DEF RecordType, RecordOK
<1>4. new \in FetchType /\ new.gen = g /\ new.aborted = FALSE
  BY <1>3 DEF FetchType
<1> HIDE DEF y, new
<1>5. /\ z \in RecordType /\ z.key = x.key /\ z.data = x.data /\ z.generation = g
      /\ z.controller = g /\ z.fetching = TRUE /\ z.execution = g /\ z.gc = x.gc
      /\ z.fetches = y.fetches \cup {new}
  <2> HIDE DEF g
  <2> QED BY <1>1, <1>3, <1>4 DEF RecordType, FetchType
<1> HIDE DEF z
<1>6. \A f \in y.fetches : f.gen \in Nat
  BY <1>1 DEF RecordType
<1>7. RecordOK(z)
  <2>1. \A f \in z.fetches : 1 <= f.gen /\ f.gen <= z.generation
    BY <1>1, <1>3, <1>4, <1>5, <1>6
  <2>2. \A f, h \in z.fetches : f.gen = h.gen => f = h
    BY <1>1, <1>3, <1>4, <1>5, <1>6
  <2>3. \A f \in z.fetches : ~f.aborted => f.gen = z.controller
    BY <1>1, <1>4, <1>5
  <2>4. Current(z, new) /\ new \in z.fetches
    BY <1>4, <1>5 DEF Current
  <2>5. \A f \in z.fetches : f.gen = z.generation => z.controller \in {0, f.gen}
    BY <1>5
  <2> QED BY <1>3, <1>5, <2>1, <2>2, <2>3, <2>4, <2>5 DEF RecordOK
<1> QED BY <1>2, <1>3, <1>5, <1>7 DEF Grows

LEMMA CancellingGrows ==
    ASSUME NEW x \in RecordType, RecordOK(x)
    PROVE  /\ Grows(x, Cancelling(x)) /\ Cancelling(x).gc = x.gc /\ Cancelling(x).data = x.data
           /\ Cancelling(x).generation = x.generation
<1> DEFINE y == Aborting(x)
           z == [y EXCEPT !.fetching = FALSE, !.execution = 0]
<1>1. /\ y \in RecordType /\ y.key = x.key /\ y.data = x.data /\ y.gc = x.gc
      /\ y.controller = 0 /\ y.generation = x.generation
      /\ \A f \in y.fetches : f.aborted /\ 1 <= f.gen /\ f.gen <= x.generation
      /\ \A f, h \in y.fetches : f.gen = h.gen => f = h
  BY AbortingStops
<1>2. Cancelling(x) = z
  BY DEF Cancelling
<1> HIDE DEF y
<1>3. /\ z \in RecordType /\ z.key = x.key /\ z.data = x.data /\ z.generation = x.generation
      /\ z.controller = 0 /\ z.fetching = FALSE /\ z.execution = 0 /\ z.gc = x.gc
      /\ z.fetches = y.fetches
  BY <1>1 DEF RecordType
<1> HIDE DEF z
<1>4. RecordOK(z)
  <2>1. x.generation \in Nat /\ x.data <= x.generation
    BY DEF RecordType, RecordOK
  <2> QED BY <1>1, <1>3, <2>1 DEF RecordOK
<1>5. x.generation \in Nat
  BY DEF RecordType
<1> QED BY <1>2, <1>3, <1>4, <1>5 DEF Grows

(* A settled fetch leaves the record; one that was current settles it.     *)
LEMMA LandedGrows ==
    ASSUME NEW x \in RecordType, RecordOK(x), NEW f \in x.fetches, NEW y \in RecordType,
           y.key = x.key, y.generation = x.generation, y.gc = x.gc,
           y.controller = x.controller, y.execution = x.execution, y.fetches = x.fetches,
           y.data \in {x.data, x.generation},
           y.fetching => x.fetching,
           f.gen = x.generation => ~y.fetching
    PROVE  /\ Grows(x, Landed(y, f)) /\ Landed(y, f).gc = x.gc
           /\ Landed(y, f).data = y.data /\ Landed(y, f).generation = x.generation
<1> DEFINE z == [y EXCEPT !.fetches = y.fetches \ {f}]
           w == [z EXCEPT !.execution = 0, !.controller = 0]
<1>1. /\ z \in RecordType /\ z.key = x.key /\ z.data = y.data /\ z.generation = x.generation
      /\ z.controller = x.controller /\ z.fetching = y.fetching /\ z.execution = x.execution
      /\ z.gc = x.gc /\ z.fetches = x.fetches \ {f}
  BY DEF RecordType
<1>2. Landed(y, f) = IF f.gen = x.generation THEN w ELSE z
  BY DEF Landed
<1> HIDE DEF z
<1>3. /\ w \in RecordType /\ w.key = x.key /\ w.data = y.data /\ w.generation = x.generation
      /\ w.controller = 0 /\ w.fetching = y.fetching /\ w.execution = 0
      /\ w.gc = x.gc /\ w.fetches = x.fetches \ {f}
  BY <1>1 DEF RecordType
<1> HIDE DEF w
<1>4. x.generation \in Nat /\ y.data <= x.generation /\ x.controller \in Nat /\ x.data \in Nat
  BY DEF RecordType, RecordOK
<1>5. CASE f.gen = x.generation
  <2>1. \A h \in x.fetches \ {f} : h.aborted
    <3> SUFFICES ASSUME NEW h \in x.fetches \ {f}, ~h.aborted PROVE FALSE
      OBVIOUS
    <3>1. h.gen = x.controller /\ h.gen # f.gen /\ x.controller \in {0, f.gen} /\ 1 <= h.gen
      BY <1>5 DEF RecordOK
    <3> QED BY <3>1
  <2>2. RecordOK(w)
    BY <1>3, <1>4, <1>5, <2>1 DEF RecordOK
  <2> QED BY <1>2, <1>3, <1>4, <1>5, <2>2 DEF Grows
<1>6. CASE f.gen # x.generation
  <2>1. x.fetching => \E h \in x.fetches \ {f} : Current(x, h)
    BY <1>6 DEF RecordOK, Current
  <2>2. RecordOK(z)
    BY <1>1, <1>4, <2>1 DEF RecordOK, Current
  <2> QED BY <1>1, <1>2, <1>4, <1>6, <2>2 DEF Grows
<1> QED BY <1>5, <1>6

(* The flags that are not the fetches' own.                                *)
LEMMA FlagsGrow ==
    ASSUME NEW x \in RecordType, RecordOK(x), NEW b \in BOOLEAN
    PROVE  /\ Grows(x, [x EXCEPT !.invalidated = b]) /\ [x EXCEPT !.invalidated = b].gc = x.gc
           /\ [x EXCEPT !.invalidated = b].data = x.data
           /\ Grows(x, [x EXCEPT !.gc = b]) /\ [x EXCEPT !.gc = b].gc = b
           /\ [x EXCEPT !.gc = b].data = x.data
<1> DEFINE y == [x EXCEPT !.invalidated = b]
           z == [x EXCEPT !.gc = b]
<1>1. /\ y \in RecordType /\ y.key = x.key /\ y.data = x.data /\ y.generation = x.generation
      /\ y.controller = x.controller /\ y.fetching = x.fetching /\ y.execution = x.execution
      /\ y.gc = x.gc /\ y.fetches = x.fetches
  BY DEF RecordType
<1>2. /\ z \in RecordType /\ z.key = x.key /\ z.data = x.data /\ z.generation = x.generation
      /\ z.controller = x.controller /\ z.fetching = x.fetching /\ z.execution = x.execution
      /\ z.gc = b /\ z.fetches = x.fetches
  BY DEF RecordType
<1> HIDE DEF y, z
<1>3. RecordOK(y) /\ RecordOK(z)
  BY <1>1, <1>2 DEF RecordOK, Current
<1>4. x.generation \in Nat
  BY DEF RecordType
<1>5. Grows(x, y) /\ Grows(x, z)
  BY <1>1, <1>2, <1>3, <1>4 DEF Grows
<1> QED BY <1>1, <1>2, <1>5 DEF y, z

(* What a fetch leaves, as it resolves or rejects.                         *)
LEMMA ResolvedGrows ==
    ASSUME NEW x \in RecordType, RecordOK(x), NEW f \in x.fetches
    PROVE  LET y == Landed(IF Current(x, f) THEN UpdateSuccess(x, f.gen) ELSE x, f) IN
           Grows(x, y) /\ y.gc = x.gc /\ y.data >= x.data
<1> DEFINE s == UpdateSuccess(x, f.gen)
<1>1. f.gen \in Nat /\ x.generation \in Nat /\ x.data \in Nat /\ x.data <= x.generation
  BY DEF RecordType, RecordOK
<1>2. /\ s \in RecordType /\ s.key = x.key /\ s.generation = x.generation /\ s.gc = x.gc
      /\ s.controller = x.controller /\ s.execution = x.execution /\ s.fetches = x.fetches
      /\ s.data = f.gen /\ s.fetching = FALSE
  BY <1>1 DEF UpdateSuccess, RecordType
<1> HIDE DEF s
<1>3. CASE Current(x, f)
  <2>1. f.gen = x.generation
    BY <1>3 DEF Current
  <2>2. Grows(x, Landed(s, f)) /\ Landed(s, f).gc = x.gc /\ Landed(s, f).data = x.generation
    BY <1>2, <2>1, LandedGrows
  <2> QED BY <1>1, <1>3, <2>2 DEF s
<1>4. CASE ~Current(x, f)
  <2>1. f.gen = x.generation => ~x.fetching
    BY <1>4 DEF RecordOK, Current
  <2>2. Grows(x, Landed(x, f)) /\ Landed(x, f).gc = x.gc /\ Landed(x, f).data = x.data
    BY <2>1, LandedGrows
  <2> QED BY <1>1, <1>4, <2>2
<1> QED BY <1>3, <1>4

LEMMA RejectedGrows ==
    ASSUME NEW x \in RecordType, RecordOK(x), NEW f \in x.fetches
    PROVE  LET y == IF Current(x, f) THEN [x EXCEPT !.status = "error", !.fetching = FALSE]
                    ELSE IF f.gen = x.generation THEN [x EXCEPT !.fetching = FALSE]
                    ELSE x
               z == Landed(y, f)
           IN  Grows(x, z) /\ z.gc = x.gc /\ z.data = x.data
<1> DEFINE y == IF Current(x, f) THEN [x EXCEPT !.status = "error", !.fetching = FALSE]
                ELSE IF f.gen = x.generation THEN [x EXCEPT !.fetching = FALSE]
                ELSE x
<1>1. /\ y \in RecordType /\ y.key = x.key /\ y.generation = x.generation /\ y.gc = x.gc
      /\ y.controller = x.controller /\ y.execution = x.execution /\ y.fetches = x.fetches
      /\ y.data = x.data /\ (y.fetching => x.fetching)
      /\ f.gen = x.generation => ~y.fetching
  <2>1. CASE Current(x, f)
    BY <2>1 DEF RecordType
  <2>2. CASE ~Current(x, f) /\ f.gen = x.generation
    BY <2>2 DEF RecordType
  <2>3. CASE ~Current(x, f) /\ f.gen # x.generation
    BY <2>3
  <2> QED BY <2>1, <2>2, <2>3
<1> HIDE DEF y
<1>2. Grows(x, Landed(y, f)) /\ Landed(y, f).gc = x.gc /\ Landed(y, f).data = x.data
  BY <1>1, LandedGrows
<1> QED BY <1>2 DEF y

(* A rollback writes what was there, under a generation of its own.        *)
LEMMA RollbackGrows ==
    ASSUME NEW x \in RecordType, RecordOK(x), NEW e \in Executions,
           executions[e].previous \in Nat, executions[e].previous <= x.generation
    PROVE  /\ Grows(x, Rollback(e, x)) /\ Rollback(e, x).gc = x.gc
           /\ x.generation # executions[e].gen => Rollback(e, x) = x
<1> DEFINE p == executions[e].previous
           g == x.generation + 1
           y == [x EXCEPT !.generation = g]
           z == UpdateSuccess(y, p)
<1>1. /\ y \in RecordType /\ y.generation = g /\ y.key = x.key /\ y.controller = x.controller
      /\ y.execution = x.execution /\ y.fetches = x.fetches /\ y.gc = x.gc /\ g \in Nat
  BY DEF RecordType
<1>2. Rollback(e, x) = IF x.generation = executions[e].gen THEN z ELSE x
  BY DEF Rollback, RollingBack
<1> HIDE DEF y
<1>3. /\ z \in RecordType /\ z.generation = g /\ z.key = x.key /\ z.controller = x.controller
      /\ z.execution = x.execution /\ z.fetches = x.fetches /\ z.gc = x.gc
      /\ z.data = p /\ z.fetching = FALSE
  BY <1>1 DEF RecordType, UpdateSuccess
<1> HIDE DEF z
<1>4. x.generation \in Nat /\ x.controller \in Nat /\ x.execution \in Nat
      /\ \A f \in x.fetches : f.gen \in Nat
  BY DEF RecordType
<1>5. RecordOK(z)
  BY <1>3, <1>4 DEF RecordOK
<1> QED BY <1>2, <1>3, <1>4, <1>5 DEF Grows
-----------------------------------------------------------------------------
(* All records at once.                                                    *)

(* Records stay sound, and what was made goes on as it may.                *)
RecordsGoOn ==
    /\ records' \in [Ids -> RecordType] /\ RecordsOK'
    /\ \A r \in Made(records) : r \in Made(records') /\ Grows(records[r], records'[r])

LEMMA GrowsFromItself ==
    ASSUME NEW x \in RecordType, RecordOK(x)
    PROVE  Grows(x, x)
  BY DEF Grows, RecordType

LEMMA UnusedOK ==
    ASSUME NEW k \in Keys
    PROVE  LET x == [Unused EXCEPT !.key = k] IN
           x \in RecordType /\ RecordOK(x) /\ x.key = k /\ x.gc = FALSE
<1> DEFINE x == [Unused EXCEPT !.key = k]
<1>1. Unused \in RecordType /\ Unused.data = 0 /\ Unused.generation = 0 /\ Unused.gc = FALSE
      /\ Unused.controller = 0 /\ Unused.execution = 0 /\ Unused.fetches = {}
      /\ Unused.fetching = FALSE
  BY DEF Unused, RecordType
<1>2. x \in RecordType /\ x.key = k /\ x.gc = FALSE /\ x.data = 0 /\ x.generation = 0
      /\ x.controller = 0 /\ x.execution = 0 /\ x.fetches = {} /\ x.fetching = FALSE
  BY <1>1 DEF RecordType
<1> HIDE DEF x
<1>3. RecordOK(x)
  BY <1>2 DEF RecordOK
<1> QED BY <1>2, <1>3 DEF x

LEMMA OwnDataKept ==
    ASSUME NEW rs, NEW qs, NEW x,
           \A r \in Made(rs) : r \in Made(qs) /\ Grows(rs[r], qs[r]) /\ rs[r] \in RecordType,
           x.gen \in Nat, x.previous \in Nat,
           OwnData(x, rs)
    PROVE  OwnData(x, qs)
<1> SUFFICES ASSUME Under(x) PROVE OwnData(x, qs)
  BY DEF OwnData
<1> DEFINE p == rs[x.record]
           q == qs[x.record]
<1>1. /\ x.record \in Made(rs) /\ x.previous <= p.generation /\ x.gen <= p.generation
      /\ p.generation = x.gen => p.data = x.gen
  BY DEF OwnData
<1>2. /\ x.record \in Made(qs) /\ q.generation >= p.generation
      /\ q.generation = p.generation => q.data \in {p.data, q.generation}
      /\ p.generation \in Nat /\ q.generation \in Nat
  BY <1>1 DEF Grows, RecordType
<1>3. x.previous <= q.generation /\ x.gen <= q.generation
  BY <1>1, <1>2
<1>4. q.generation = x.gen => q.data = x.gen
  BY <1>1, <1>2
<1> QED BY <1>2, <1>3, <1>4 DEF OwnData

(* Steps that leave the mutation alone.                                    *)
LEMMA MutationLeft ==
    ASSUME QueryInv, RecordsGoOn, UNCHANGED <<mutation, executions>>
    PROVE  MutationPart'
<1>1. mutation' = mutation /\ executions' = executions
  OBVIOUS
<1>2. ControlsCall' /\ PendingIsTrue'
  BY <1>1 DEF QueryInv, MutationPart, ControlsCall, PendingIsTrue
<1>3. ASSUME NEW e \in Executions PROVE OwnData(executions[e], records')
  <2>1. executions[e].gen \in Nat /\ executions[e].previous \in Nat
        /\ OwnData(executions[e], records)
    BY DEF QueryInv, MutationPart, ExecutionType, OwnDataStands
  <2>2. \A r \in Made(records) : records[r] \in RecordType
    BY DEF QueryInv, RecordsPart, Made
  <2> QED BY <2>1, <2>2, OwnDataKept DEF RecordsGoOn
<1>4. OwnDataStands'
  BY <1>1, <1>3 DEF OwnDataStands
<1> QED BY <1>1, <1>2, <1>4 DEF QueryInv, MutationPart

(* Records changed where they are.                                         *)
LEMMA RecordsInPlace ==
    ASSUME QueryInv, DOMAIN records' = Ids, records' = [r \in Ids |-> records'[r]],
           \A r \in Ids : \/ records'[r] = records[r]
                          \/ r \in Made(records) /\ Grows(records[r], records'[r])
    PROVE  /\ RecordsGoOn /\ Made(records') = Made(records)
           /\ \A r \in Ids : records'[r].key = records[r].key
           /\ \A r \in Ids : records'[r].key = None => records'[r] = Unused
<1>1. \A r \in Ids : records[r] \in RecordType /\ RecordOK(records[r])
  BY DEF QueryInv, RecordsPart, RecordsOK
<1>2. \A r \in Ids : Grows(records[r], records'[r])
  BY <1>1, GrowsFromItself
<1>3. \A r \in Ids : records'[r].key = records[r].key
  BY <1>2 DEF Grows
<1>4. Made(records') = Made(records)
  BY <1>3 DEF Made
<1>5. \A r \in Ids : records'[r].key = None => records'[r] = Unused
  BY <1>3 DEF QueryInv, RecordsPart, MadeInOrder, Made
<1>6. records' \in [Ids -> RecordType] /\ RecordsOK'
  <2>1. \A r \in Ids : records'[r] \in RecordType /\ RecordOK(records'[r])
    BY <1>2 DEF Grows
  <2>2. records' \in [Ids -> RecordType]
    BY <2>1
  <2>3. RecordsOK'
    BY <2>1 DEF RecordsOK, RecordOK, Current
  <2> QED BY <2>2, <2>3
<1>7. \A r \in Made(records) : r \in Ids
  BY DEF Made
<1> QED BY <1>2, <1>3, <1>4, <1>5, <1>6, <1>7 DEF RecordsGoOn

(* Records written by their keys: at most one of them is made for it.      *)
Writes(ks) ==
    /\ ks \subseteq Keys
    /\ \A k, l \in ks : map[k] = 0 /\ map[l] = 0 => k = l
    /\ \A k \in ks : RecordOf(k) \in Ids
    /\ map' = [k \in Keys |-> IF k \in ks THEN RecordOf(k) ELSE map[k]]
    /\ records' = [r \in Ids |-> records'[r]]
    /\ \A k \in ks : Grows(Record(k), records'[RecordOf(k)])
    /\ \A r \in Ids : (\A k \in ks : RecordOf(k) # r) => records'[r] = records[r]

LEMMA RecordsWritten ==
    ASSUME QueryInv, NEW ks, Writes(ks)
    PROVE  /\ RecordsGoOn /\ map' \in [Keys -> Ids \cup {0}]
           /\ \A k \in ks : records'[RecordOf(k)].key = k
           /\ \A k \in ks : Record(k) \in RecordType /\ RecordOK(Record(k))
           /\ \E n \in 0 .. MaxRecord : Made(records') = 1 .. n
           /\ \A r \in Ids : records'[r].key = None => records'[r] = Unused
           /\ \A k \in Keys : map'[k] # 0 => records'[map'[k]].key = k
           /\ \A k \in ks : map[k] = 0 => records[RecordOf(k)] = Unused
<1>0. /\ ks \subseteq Keys
      /\ \A k, l \in ks : map[k] = 0 /\ map[l] = 0 => k = l
      /\ \A k \in ks : RecordOf(k) \in Ids
      /\ map' = [k \in Keys |-> IF k \in ks THEN RecordOf(k) ELSE map[k]]
      /\ records' = [r \in Ids |-> records'[r]]
      /\ \A k \in ks : Grows(Record(k), records'[RecordOf(k)])
      /\ \A r \in Ids : (\A k \in ks : RecordOf(k) # r) => records'[r] = records[r]
  BY DEF Writes
<1>1. PICK n \in 0 .. MaxRecord : Made(records) = 1 .. n
  BY DEF QueryInv, RecordsPart, MadeInOrder
<1>2. Fresh = n + 1 /\ n \in Nat /\ MaxRecord \in Nat
  <2>1. n \in Nat /\ n \in Int /\ 1 \in Int /\ MaxRecord \in Nat
    BY QueryBounds
  <2>2. Cardinality(1 .. n) = IF 1 > n THEN 0 ELSE n - 1 + 1
    BY <2>1, FS_Interval
  <2>3. Cardinality(1 .. n) = n
    BY <2>1, <2>2
  <2> QED BY <1>1, <2>1, <2>3 DEF Fresh
<1>3. /\ \A r \in Ids : records[r] \in RecordType /\ RecordOK(records[r])
      /\ map \in [Keys -> Ids \cup {0}]
      /\ \A k \in Keys : map[k] # 0 => records[map[k]].key = k
      /\ \A r \in Ids : records[r].key = None => records[r] = Unused
  BY DEF QueryInv, RecordsPart, RecordsOK, MadeInOrder
<1>4. ASSUME NEW k \in ks
      PROVE  /\ Record(k) \in RecordType /\ RecordOK(Record(k)) /\ Record(k).key = k
             /\ map[k] # 0 => /\ RecordOf(k) = map[k] /\ Record(k) = records[RecordOf(k)]
                              /\ records[RecordOf(k)].key = k
             /\ map[k] = 0 => RecordOf(k) = n + 1 /\ records[RecordOf(k)] = Unused
  <2>1. CASE map[k] # 0
    BY <1>0, <1>3, <2>1 DEF RecordOf, Record
  <2>2. CASE map[k] = 0
    <3>1. Record(k) \in RecordType /\ RecordOK(Record(k)) /\ Record(k).key = k
      BY <1>0, <2>2, UnusedOK DEF Record
    <3>2. RecordOf(k) = n + 1 /\ RecordOf(k) \notin 1 .. n
      BY <1>0, <1>2, <2>2 DEF RecordOf
    <3>3. records[RecordOf(k)] = Unused
      BY <1>0, <1>1, <1>3, <3>2 DEF Made
    <3> QED BY <2>2, <3>1, <3>2, <3>3
  <2> QED BY <2>1, <2>2
<1>5. \A k \in ks : /\ records'[RecordOf(k)] \in RecordType /\ RecordOK(records'[RecordOf(k)])
                   /\ records'[RecordOf(k)].key = k
  BY <1>0, <1>4 DEF Grows
<1>6. \A r \in Ids : records'[r] \in RecordType /\ RecordOK(records'[r])
  BY <1>0, <1>3, <1>5
<1>7. records' \in [Ids -> RecordType] /\ RecordsOK'
  <2>1. records' \in [Ids -> RecordType]
    BY <1>0, <1>6
  <2>2. RecordsOK'
    BY <1>0, <1>6 DEF RecordsOK, RecordOK, Current
  <2> QED BY <2>1, <2>2
<1>8. ASSUME NEW r \in Made(records) PROVE r \in Made(records') /\ Grows(records[r], records'[r])
  <2>1. r \in Ids /\ r \in 1 .. n /\ records[r].key # None
    BY <1>0, <1>1 DEF Made
  <2>2. CASE \E k \in ks : RecordOf(k) = r
    <3>1. PICK k \in ks : RecordOf(k) = r
      BY <2>2
    <3>2. map[k] # 0
      BY <1>0, <1>2, <1>4, <2>1, <3>1
    <3>3. Grows(records[r], records'[r])
      BY <1>0, <1>4, <3>1, <3>2
    <3> QED BY <2>1, <3>3 DEF Grows, Made
  <2>3. CASE \A k \in ks : RecordOf(k) # r
    <3>1. records'[r] = records[r]
      BY <1>0, <2>1, <2>3
    <3> QED BY <1>0, <1>3, <2>1, <3>1, GrowsFromItself DEF Made
  <2> QED BY <2>2, <2>3
<1>9. \E m \in 0 .. MaxRecord : Made(records') = 1 .. m
  <2>1. CASE \E k \in ks : map[k] = 0
    <3>1. PICK k \in ks : map[k] = 0
      BY <2>1
    <3>2. n + 1 \in Ids
      BY <1>0, <1>4, <3>1
    <3>3. \A r \in Ids : r \in Made(records') <=> r \in Made(records) \/ r = n + 1
      <4>1. ASSUME NEW r \in Ids, r # n + 1, r \in Made(records') PROVE r \in Made(records)
        <5>1. CASE \E l \in ks : RecordOf(l) = r
          BY <1>0, <1>4, <4>1, <5>1, NoneAssumption DEF Made
        <5>2. CASE \A l \in ks : RecordOf(l) # r
          BY <1>0, <4>1, <5>2 DEF Made
        <5> QED BY <5>1, <5>2
      <4>2. n + 1 \in Made(records')
        BY <1>0, <1>4, <1>5, <3>1, <3>2, NoneAssumption DEF Made
      <4> QED BY <1>0, <1>8, <4>1, <4>2
    <3>4. Made(records') \subseteq Ids /\ Made(records) \subseteq Ids
      BY DEF Made
    <3>5. Made(records') = 1 .. n + 1
      <4>1. \A r : r \in Made(records') <=> r \in 1 .. n \/ r = n + 1
        BY <1>0, <1>1, <3>2, <3>3, <3>4
      <4>2. \A r : r \in 1 .. n + 1 <=> r \in 1 .. n \/ r = n + 1
        BY <1>0, <1>2
      <4> QED BY <4>1, <4>2
    <3>6. n + 1 \in 0 .. MaxRecord
      BY <1>0, <1>2, <3>2 DEF Ids
    <3> QED BY <3>5, <3>6
  <2>2. CASE \A k \in ks : map[k] # 0
    <3>1. \A r \in Ids : r \in Made(records') => r \in Made(records)
      <4>1. ASSUME NEW r \in Ids, r \in Made(records') PROVE r \in Made(records)
        <5>1. CASE \E l \in ks : RecordOf(l) = r
          BY <1>0, <1>4, <2>2, <5>1, NoneAssumption DEF Made
        <5>2. CASE \A l \in ks : RecordOf(l) # r
          BY <1>0, <4>1, <5>2 DEF Made
        <5> QED BY <5>1, <5>2
      <4> QED BY <4>1
    <3>2. Made(records') = Made(records)
      BY <1>0, <1>8, <3>1 DEF Made
    <3> QED BY <1>0, <1>1, <3>2
  <2> QED BY <2>1, <2>2
<1>10. \A r \in Ids : records'[r].key = None => records'[r] = Unused
  <2>1. ASSUME NEW r \in Ids, records'[r].key = None PROVE records'[r] = Unused
    <3>1. \A k \in ks : RecordOf(k) # r
      BY <1>0, <1>5, <2>1, NoneAssumption
    <3> QED BY <1>0, <1>3, <2>1, <3>1
  <2> QED BY <2>1
<1>11. /\ map' \in [Keys -> Ids \cup {0}]
       /\ \A k \in Keys : map'[k] # 0 => records'[map'[k]].key = k
  <2>1. map' \in [Keys -> Ids \cup {0}]
    BY <1>0, <1>3
  <2>2. ASSUME NEW k \in Keys, map'[k] # 0 PROVE records'[map'[k]].key = k
    <3>1. CASE k \in ks
      BY <1>0, <1>5, <3>1
    <3>2. CASE k \notin ks
      <4>1. map'[k] = map[k] /\ map[k] \in Ids /\ records[map[k]].key = k
        BY <1>0, <1>3, <2>2, <3>2
      <4>2. \A l \in ks : RecordOf(l) # map[k]
        BY <1>0, <1>4, <3>2, <4>1, NoneAssumption DEF Unused
      <4> QED BY <1>0, <4>1, <4>2
    <3> QED BY <3>1, <3>2
  <2> QED BY <2>1, <2>2
<1>12. \A k \in ks : map[k] = 0 => records[RecordOf(k)] = Unused
  BY <1>0, <1>4
<1> QED BY <1>0, <1>4, <1>5, <1>7, <1>8, <1>9, <1>10, <1>11, <1>12 DEF RecordsGoOn
-----------------------------------------------------------------------------
(* What the client and the handles have of the records.                    *)

LEMMA WrittenKept ==
    ASSUME QueryInv, NEW ks, Writes(ks), orphaned' = orphaned,
           handles' \in [Handles -> Ids \cup {0}],
           \A h \in Handles : handles'[h] # 0 => handles'[h] \in Made(records'),
           \A r \in Ids : (\A k \in ks : RecordOf(k) # r) =>
               Observing(handles', r) \subseteq Observing(handles, r),
           \A k \in ks : records'[RecordOf(k)].gc =>
               /\ Record(k).gc
               /\ Observing(handles', RecordOf(k)) \subseteq Observing(handles, RecordOf(k))
    PROVE  RecordsPart' /\ RecordsGoOn
<1>1. /\ ks \subseteq Keys
      /\ \A k \in ks : RecordOf(k) \in Ids
      /\ map' = [k \in Keys |-> IF k \in ks THEN RecordOf(k) ELSE map[k]]
      /\ \A r \in Ids : (\A k \in ks : RecordOf(k) # r) => records'[r] = records[r]
  BY DEF Writes
<1>2. /\ RecordsGoOn /\ map' \in [Keys -> Ids \cup {0}]
      /\ \A k \in ks : records'[RecordOf(k)].key = k
      /\ \E n \in 0 .. MaxRecord : Made(records') = 1 .. n
      /\ \A r \in Ids : records'[r].key = None => records'[r] = Unused
      /\ \A k \in Keys : map'[k] # 0 => records'[map'[k]].key = k
  BY RecordsWritten
<1>3. MadeInOrder'
  BY <1>2 DEF MadeInOrder
<1>4. \A r \in Ids : 0 # r
  BY DEF Ids
<1>5. ASSUME NEW r \in Ids, \A k \in ks : RecordOf(k) # r, map[records[r].key] = r,
             records[r].key \in Keys
      PROVE  map'[records[r].key] = r
  BY <1>1, <1>4, <1>5 DEF RecordOf
<1>6. \A k \in ks : map'[k] = RecordOf(k)
  BY <1>1
<1>7. ASSUME NEW r \in Ids, records'[r].gc
      PROVE  /\ GcTime = "later" /\ Observing(handles', r) = {}
             /\ map'[records'[r].key] = r \/ records'[r].key \in orphaned'
  <2>1. CASE \E k \in ks : RecordOf(k) = r
    <3>1. PICK k \in ks : RecordOf(k) = r
      BY <2>1
    <3>2. Record(k).gc /\ Observing(handles', r) \subseteq Observing(handles, r)
      BY <1>7, <3>1
    <3>3. map[k] # 0 /\ Record(k) = records[r]
      BY <3>1, <3>2 DEF Record, RecordOf, Unused
    <3>4. GcTime = "later" /\ Observing(handles, r) = {}
      BY <3>2, <3>3 DEF QueryInv, RecordsPart, CollectsUnused
    <3> QED BY <1>2, <1>6, <3>1, <3>2, <3>4
  <2>2. CASE \A k \in ks : RecordOf(k) # r
    <3>1. records'[r] = records[r] /\ records[r].gc
      BY <1>1, <1>7, <2>2
    <3>2. /\ GcTime = "later" /\ Observing(handles, r) = {}
          /\ map[records[r].key] = r \/ records[r].key \in orphaned
      BY <3>1 DEF QueryInv, RecordsPart, CollectsUnused
    <3>3. records[r].key \in Keys
      BY <3>1 DEF QueryInv, RecordsPart, MadeInOrder, Unused, RecordType
    <3>4. Observing(handles', r) = {}
      BY <2>2, <3>2
    <3> QED BY <1>5, <2>2, <3>1, <3>2, <3>3, <3>4
  <2> QED BY <2>1, <2>2
<1>8. CollectsUnused'
  BY <1>7 DEF CollectsUnused, Observing
<1>9. ASSUME NEW r \in Made(records'), Observing(handles', r) # {},
             records'[r].key \notin orphaned'
      PROVE  map'[records'[r].key] = r
  <2>1. CASE \E k \in ks : RecordOf(k) = r
    BY <1>2, <1>6, <2>1
  <2>2. CASE \A k \in ks : RecordOf(k) # r
    <3>1. r \in Ids /\ records'[r].key # None
      BY DEF Made
    <3>2. records'[r] = records[r] /\ r \in Made(records) /\ Observing(handles, r) # {}
      BY <1>1, <1>9, <2>2, <3>1 DEF Made
    <3>3. map[records[r].key] = r
      BY <1>9, <3>2 DEF QueryInv, RecordsPart, ActiveKept
    <3>4. records[r].key \in Keys
      BY <3>1, <3>2 DEF QueryInv, RecordsPart, RecordType
    <3> QED BY <1>5, <2>2, <3>1, <3>2, <3>3, <3>4
  <2> QED BY <2>1, <2>2
<1>10. ActiveKept'
  BY <1>9 DEF ActiveKept, Observing, Made
<1> QED BY <1>2, <1>3, <1>8, <1>10 DEF RecordsPart, RecordsGoOn

(* getRecord() and a change of the record it returns.                      *)
LEMMA PutWrites ==
    ASSUME QueryInv, NEW k \in Keys, GetRecord(k), NEW y, Put(RecordOf(k), y),
           Grows(Record(k), y)
    PROVE  Writes({k}) /\ records'[RecordOf(k)] = y
<1>1. map \in [Keys -> Ids \cup {0}] /\ records \in [Ids -> RecordType]
  BY DEF QueryInv, RecordsPart
<1>2. RecordOf(k) \in Ids /\ map' = [map EXCEPT ![k] = RecordOf(k)]
      /\ records' = [records EXCEPT ![RecordOf(k)] = y]
  BY DEF GetRecord, Put
<1> QED BY <1>1, <1>2 DEF Writes

LEMMA RecordIsOK ==
    ASSUME QueryInv, NEW k \in Keys, RecordOf(k) \in Ids
    PROVE  Record(k) \in RecordType /\ RecordOK(Record(k))
<1>1. CASE map[k] = 0
  BY <1>1, UnusedOK DEF Record
<1>2. CASE map[k] # 0
  BY <1>2 DEF Record, QueryInv, RecordsPart, RecordsOK
<1> QED BY <1>1, <1>2

(* A change of the record of a key that is not about its collection.       *)
LEMMA WrittenInv ==
    ASSUME QueryInv, NEW ks, Writes(ks), UNCHANGED <<handles, orphaned>>,
           \A k \in ks : records'[RecordOf(k)].gc = Record(k).gc
    PROVE  RecordsPart' /\ RecordsGoOn
<1>1. /\ handles' \in [Handles -> Ids \cup {0}] /\ handles' = handles /\ orphaned' = orphaned
      /\ \A h \in Handles : handles[h] # 0 => handles[h] \in Made(records)
  BY DEF QueryInv, RecordsPart, MadeInOrder
<1>2. RecordsGoOn
  BY RecordsWritten
<1>3. \A h \in Handles : handles'[h] # 0 => handles'[h] \in Made(records')
  BY <1>1, <1>2 DEF RecordsGoOn
<1> QED BY <1>1, <1>3, WrittenKept

(* Nothing written so is older than what was there.                        *)
LEMMA WrittenForward ==
    ASSUME QueryInv, NEW ks, Writes(ks), \A k \in ks : records'[RecordOf(k)].data >= Record(k).data
    PROVE  \A r \in Ids : records'[r].data >= records[r].data
<1>1. SUFFICES ASSUME NEW r \in Ids PROVE records'[r].data >= records[r].data
  OBVIOUS
<1>2. /\ records[r] \in RecordType /\ records[r].data \in Nat
  BY DEF QueryInv, RecordsPart, RecordType
<1>3. ks \subseteq Keys /\ \A k \in ks : RecordOf(k) \in Ids
  BY DEF Writes
<1>4. CASE \E k \in ks : RecordOf(k) = r
  <2>1. PICK k \in ks : RecordOf(k) = r
    BY <1>4
  <2>2. CASE map[k] # 0
    BY <2>1, <2>2 DEF RecordOf, Record
  <2>3. CASE map[k] = 0
    <3>1. records[r] = Unused /\ Record(k) = [Unused EXCEPT !.key = k]
      BY <2>1, <2>3, RecordsWritten DEF Record
    <3>2. records[r].data = 0 /\ Record(k).data = 0
      BY <3>1 DEF Unused
    <3> QED BY <2>1, <3>2
  <2> QED BY <2>2, <2>3
<1>5. CASE \A k \in ks : RecordOf(k) # r
  BY <1>2, <1>5 DEF Writes
<1> QED BY <1>4, <1>5

(* Records changed where they are, while the client may let go of some.    *)
LEMMA InPlaceKept ==
    ASSUME QueryInv, DOMAIN records' = Ids, records' = [r \in Ids |-> records'[r]],
           \A r \in Ids : \/ records'[r] = records[r]
                          \/ r \in Made(records) /\ Grows(records[r], records'[r]),
           map' \in [Keys -> Ids \cup {0}], \A k \in Keys : map'[k] \in {map[k], 0},
           handles' \in [Handles -> Ids \cup {0}], \A h \in Handles : handles'[h] \in {handles[h], 0},
           \A r \in Ids : records'[r].gc =>
               /\ GcTime = "later" /\ Observing(handles', r) = {}
               /\ map'[records[r].key] = r \/ records[r].key \in orphaned',
           \A r \in Made(records) :
               Observing(handles', r) # {} /\ records[r].key \notin orphaned' =>
                   map'[records[r].key] = r
    PROVE  RecordsPart' /\ RecordsGoOn
<1>1. /\ RecordsGoOn /\ Made(records') = Made(records)
      /\ \A r \in Ids : records'[r].key = records[r].key
      /\ \A r \in Ids : records'[r].key = None => records'[r] = Unused
  BY RecordsInPlace
<1>2. MadeInOrder'
  <2>1. /\ \E n \in 0 .. MaxRecord : Made(records) = 1 .. n
        /\ \A k \in Keys : map[k] # 0 => records[map[k]].key = k
        /\ \A h \in Handles : handles[h] # 0 => handles[h] \in Made(records)
    BY DEF QueryInv, RecordsPart, MadeInOrder
  <2>2. \A k \in Keys : map'[k] # 0 => records'[map'[k]].key = k
    BY <1>1, <2>1
  <2>3. \A h \in Handles : handles'[h] # 0 => handles'[h] \in Made(records')
    BY <1>1, <2>1
  <2> QED BY <1>1, <2>1, <2>2, <2>3 DEF MadeInOrder
<1>3. CollectsUnused'
  BY <1>1 DEF CollectsUnused, Observing
<1>4. ActiveKept'
  <2>1. \A r \in Made(records') : records'[r].key = records[r].key
    BY <1>1 DEF Made
  <2> QED BY <1>1, <2>1 DEF ActiveKept, Observing
<1> QED BY <1>1, <1>2, <1>3, <1>4 DEF RecordsPart, RecordsGoOn

(* The same, when the collection is not touched.                           *)
LEMMA InPlaceInv ==
    ASSUME QueryInv, DOMAIN records' = Ids, records' = [r \in Ids |-> records'[r]],
           \A r \in Ids : \/ records'[r] = records[r]
                          \/ /\ r \in Made(records) /\ Grows(records[r], records'[r])
                             /\ records'[r].gc = records[r].gc,
           UNCHANGED <<map, handles, orphaned>>
    PROVE  RecordsPart' /\ RecordsGoOn
<1>1. /\ map \in [Keys -> Ids \cup {0}] /\ handles \in [Handles -> Ids \cup {0}]
      /\ map' = map /\ handles' = handles /\ orphaned' = orphaned
      /\ \A r \in Ids : records'[r].gc = records[r].gc
  BY DEF QueryInv, RecordsPart
<1>2. \A r \in Ids : records[r].gc =>
          /\ GcTime = "later" /\ Observing(handles, r) = {}
          /\ map[records[r].key] = r \/ records[r].key \in orphaned
  BY DEF QueryInv, RecordsPart, CollectsUnused
<1>3. \A r \in Made(records) :
          Observing(handles, r) # {} /\ records[r].key \notin orphaned => map[records[r].key] = r
  BY DEF QueryInv, RecordsPart, ActiveKept
<1>4. \A r \in Ids : \/ records'[r] = records[r]
                     \/ r \in Made(records) /\ Grows(records[r], records'[r])
  OBVIOUS
<1> QED BY <1>1, <1>2, <1>3, <1>4, InPlaceKept

LEMMA MatchingMade ==
    ASSUME QueryInv, NEW prefix
    PROVE  /\ Matching(prefix) \subseteq Made(records)
           /\ \A r \in Made(records) : r \in Ids /\ records[r] \in RecordType /\ RecordOK(records[r])
<1>1. \A k \in Keys : map[k] # 0 => map[k] \in Ids /\ records[map[k]].key = k
  BY DEF QueryInv, RecordsPart, MadeInOrder
<1>2. Family(prefix) \subseteq Keys
  BY DEF Family
<1>3. Matching(prefix) \subseteq Made(records)
  BY <1>1, <1>2, NoneAssumption DEF Matching, Made
<1> QED BY <1>3 DEF QueryInv, RecordsPart, RecordsOK, Made
-----------------------------------------------------------------------------
(* The steps of the records.                                               *)

LEMMA SetQueryDataInv ==
    ASSUME QueryInv, NEW k \in Keys, SetQueryData(k)
    PROVE  QueryInv'
<1>1. GetRecord(k) /\ Put(RecordOf(k), Setting(Record(k))) /\ RecordOf(k) \in Ids
      /\ UNCHANGED <<handles, mutation, executions, orphaned>>
  BY DEF SetQueryData, GetRecord
<1>2. Grows(Record(k), Setting(Record(k))) /\ Setting(Record(k)).gc = Record(k).gc
  BY <1>1, RecordIsOK, SettingGrows
<1>3. Writes({k}) /\ records'[RecordOf(k)] = Setting(Record(k))
  BY <1>1, <1>2, PutWrites
<1>4. RecordsPart' /\ RecordsGoOn
  BY <1>1, <1>2, <1>3, WrittenInv
<1> QED BY <1>1, <1>4, MutationLeft DEF QueryInv

LEMMA FetchQueryInv ==
    ASSUME QueryInv, NEW k \in Keys, NEW b, FetchQuery(k, b)
    PROVE  QueryInv'
<1>1. GetRecord(k) /\ Put(RecordOf(k), Starting(Record(k))) /\ RecordOf(k) \in Ids
      /\ UNCHANGED <<handles, mutation, executions, orphaned>>
  BY DEF FetchQuery, GetRecord
<1>2. Grows(Record(k), Starting(Record(k))) /\ Starting(Record(k)).gc = Record(k).gc
  BY <1>1, RecordIsOK, StartingGrows
<1>3. Writes({k}) /\ records'[RecordOf(k)] = Starting(Record(k))
  BY <1>1, <1>2, PutWrites
<1>4. RecordsPart' /\ RecordsGoOn
  BY <1>1, <1>2, <1>3, WrittenInv
<1> QED BY <1>1, <1>4, MutationLeft DEF QueryInv

LEMMA HydrateWrites ==
    ASSUME QueryInv, NEW ks \in SUBSET Keys, Hydrate(ks)
    PROVE  Writes(ks) /\ \A k \in ks : records'[RecordOf(k)] = Setting(Record(k))
<1>1. /\ \A k, l \in ks : map[k] = 0 /\ map[l] = 0 => k = l
      /\ map' = [k \in Keys |-> IF k \in ks THEN RecordOf(k) ELSE map[k]]
      /\ \A k \in ks : RecordOf(k) \in Ids
      /\ records' = [r \in Ids |-> IF \E k \in ks : RecordOf(k) = r
                                   THEN Setting(Record(CHOOSE k \in ks : RecordOf(k) = r))
                                   ELSE records[r]]
  BY DEF Hydrate
<1>2. \A k, l \in ks : RecordOf(k) = RecordOf(l) => k = l
  <2>1. PICK n \in 0 .. MaxRecord : Made(records) = 1 .. n
    BY DEF QueryInv, RecordsPart, MadeInOrder
  <2>2. Fresh = n + 1 /\ n \in Nat
    <3>1. n \in Nat /\ n \in Int /\ 1 \in Int /\ MaxRecord \in Nat
      BY QueryBounds
    <3>2. Cardinality(1 .. n) = IF 1 > n THEN 0 ELSE n - 1 + 1
      BY <3>1, FS_Interval
    <3>3. Cardinality(1 .. n) = n
      BY <3>1, <3>2
    <3> QED BY <2>1, <3>1, <3>3 DEF Fresh
  <2>3. \A k \in Keys : map[k] # 0 => records[map[k]].key = k /\ map[k] \in 1 .. n
    <3>1. \A k \in Keys : map[k] # 0 => map[k] \in Ids /\ records[map[k]].key = k
      BY DEF QueryInv, RecordsPart, MadeInOrder
    <3> QED BY <2>1, <3>1, NoneAssumption DEF Made
  <2>4. Fresh \notin 1 .. n
    BY <2>2
  <2> QED BY <1>1, <2>3, <2>4 DEF RecordOf
<1>3. ASSUME NEW k \in ks PROVE records'[RecordOf(k)] = Setting(Record(k))
  <2>1. (CHOOSE l \in ks : RecordOf(l) = RecordOf(k)) = k
    BY <1>2
  <2> QED BY <1>1, <2>1
<1>4. \A k \in ks : Grows(Record(k), Setting(Record(k)))
  BY <1>1, RecordIsOK, SettingGrows
<1>5. \A r \in Ids : (\A k \in ks : RecordOf(k) # r) => records'[r] = records[r]
  BY <1>1
<1>6. records' = [r \in Ids |-> records'[r]]
  BY <1>1
<1> QED BY <1>1, <1>3, <1>4, <1>5, <1>6 DEF Writes

LEMMA HydrateInv ==
    ASSUME QueryInv, NEW ks \in SUBSET Keys, Hydrate(ks)
    PROVE  QueryInv'
<1>1. UNCHANGED <<handles, mutation, executions, orphaned>> /\ \A k \in ks : RecordOf(k) \in Ids
  BY DEF Hydrate
<1>2. Writes(ks) /\ \A k \in ks : records'[RecordOf(k)] = Setting(Record(k))
  BY HydrateWrites
<1>3. \A k \in ks : Setting(Record(k)).gc = Record(k).gc
  BY <1>1, RecordIsOK, SettingGrows
<1>4. RecordsPart' /\ RecordsGoOn
  BY <1>1, <1>2, <1>3, WrittenInv
<1> QED BY <1>1, <1>4, MutationLeft DEF QueryInv

LEMMA InvalidateInv ==
    ASSUME QueryInv, NEW prefix, InvalidateQueries(prefix)
    PROVE  QueryInv'
<1>1. /\ records' = [r \in Ids |-> IF r \in Matching(prefix)
                                   THEN [records[r] EXCEPT !.invalidated = TRUE] ELSE records[r]]
      /\ UNCHANGED <<handles, map, mutation, executions, orphaned>>
  BY DEF InvalidateQueries
<1>2. \A r \in Matching(prefix) : r \in Made(records) /\
          LET y == [records[r] EXCEPT !.invalidated = TRUE] IN
          Grows(records[r], y) /\ y.gc = records[r].gc
  BY MatchingMade, FlagsGrow
<1>3. \A r \in Ids : \/ records'[r] = records[r]
                     \/ /\ r \in Made(records) /\ Grows(records[r], records'[r])
                        /\ records'[r].gc = records[r].gc
  BY <1>1, <1>2
<1>4. RecordsPart' /\ RecordsGoOn
  BY <1>1, <1>3, InPlaceInv
<1> QED BY <1>1, <1>4, MutationLeft DEF QueryInv

LEMMA CancelQueriesInv ==
    ASSUME QueryInv, NEW prefix, CancelQueries(prefix)
    PROVE  QueryInv'
<1>1. /\ records' = [r \in Ids |-> IF r \in Matching(prefix) THEN Cancelling(records[r])
                                   ELSE records[r]]
      /\ UNCHANGED <<handles, map, mutation, executions, orphaned>>
  BY DEF CancelQueries
<1>2. \A r \in Matching(prefix) : r \in Made(records) /\ Grows(records[r], Cancelling(records[r]))
          /\ Cancelling(records[r]).gc = records[r].gc
  BY MatchingMade, CancellingGrows
<1>3. \A r \in Ids : \/ records'[r] = records[r]
                     \/ /\ r \in Made(records) /\ Grows(records[r], records'[r])
                        /\ records'[r].gc = records[r].gc
  BY <1>1, <1>2
<1>4. RecordsPart' /\ RecordsGoOn
  BY <1>1, <1>3, InPlaceInv
<1> QED BY <1>1, <1>4, MutationLeft DEF QueryInv

(* A fetch settles, whatever it says, and nothing but its record changes.  *)
LEMMA FetchSettles ==
    ASSUME QueryInv, NEW r \in Ids, NEW f \in records[r].fetches,
           FetchResolves(r, f) \/ FetchRejects(r, f)
    PROVE  QueryInv'
<1>1. records \in [Ids -> RecordType] /\ records[r] \in RecordType /\ RecordOK(records[r])
  BY DEF QueryInv, RecordsPart, RecordsOK
<1>2. r \in Made(records)
  BY DEF QueryInv, RecordsPart, MadeInOrder, Made, Unused
<1>3. PICK y : Put(r, y) /\ Grows(records[r], y) /\ y.gc = records[r].gc
  <2>1. CASE FetchResolves(r, f)
    BY <1>1, <2>1, ResolvedGrows DEF FetchResolves
  <2>2. CASE FetchRejects(r, f)
    BY <1>1, <2>2, RejectedGrows DEF FetchRejects
  <2> QED BY <2>1, <2>2
<1>4. UNCHANGED <<handles, map, mutation, executions, orphaned>>
  BY DEF FetchResolves, FetchRejects
<1>5. /\ DOMAIN records' = Ids /\ records' = [s \in Ids |-> records'[s]]
      /\ \A s \in Ids : \/ records'[s] = records[s]
                        \/ /\ s \in Made(records) /\ Grows(records[s], records'[s])
                           /\ records'[s].gc = records[s].gc
  BY <1>1, <1>2, <1>3 DEF Put
<1>6. RecordsPart' /\ RecordsGoOn
  BY <1>4, <1>5, InPlaceInv
<1> QED BY <1>4, <1>6, MutationLeft DEF QueryInv

LEMMA PrefetchQueryInv ==
    ASSUME QueryInv, NEW k \in Keys, NEW b, PrefetchQuery(k, b)
    PROVE  QueryInv'
<1>1. FetchQuery(k, FALSE)
  BY DEF PrefetchQuery
<1> QED BY <1>1, FetchQueryInv

LEMMA ObserveInv ==
    ASSUME QueryInv, NEW k \in Keys, NEW h \in Handles, Observe(h, k)
    PROVE  QueryInv'
<1>1. /\ GetRecord(k) /\ Put(RecordOf(k), Subscribed(Record(k))) /\ RecordOf(k) \in Ids
      /\ handles' = [handles EXCEPT ![h] = RecordOf(k)] /\ handles[h] = 0
      /\ UNCHANGED <<mutation, executions, orphaned>>
  BY DEF Observe, GetRecord
<1>2. Grows(Record(k), Subscribed(Record(k))) /\ Subscribed(Record(k)).gc = FALSE
  BY <1>1, RecordIsOK, FlagsGrow DEF Subscribed
<1>3. Writes({k}) /\ records'[RecordOf(k)] = Subscribed(Record(k))
  BY <1>1, <1>2, PutWrites
<1>4. handles \in [Handles -> Ids \cup {0}] /\ \A g \in Handles : handles[g] # 0 => handles[g] \in Made(records)
  BY DEF QueryInv, RecordsPart, MadeInOrder
<1>5. RecordsGoOn /\ records'[RecordOf(k)].key = k
  BY <1>3, RecordsWritten
<1>6. /\ handles' \in [Handles -> Ids \cup {0}]
      /\ \A g \in Handles : handles'[g] = IF g = h THEN RecordOf(k) ELSE handles[g]
  BY <1>1, <1>4
<1>7. RecordOf(k) \in Made(records')
  BY <1>1, <1>5, NoneAssumption DEF Made
<1>8. \A g \in Handles : handles'[g] # 0 => handles'[g] \in Made(records')
  BY <1>4, <1>5, <1>6, <1>7 DEF RecordsGoOn
<1>9. \A r \in Ids : RecordOf(k) # r => Observing(handles', r) \subseteq Observing(handles, r)
  BY <1>6 DEF Observing
<1>10. RecordsPart' /\ RecordsGoOn
  <2>1. \A l \in {k} : records'[RecordOf(l)].gc = FALSE
    BY <1>2, <1>3
  <2>2. \A r \in Ids : (\A l \in {k} : RecordOf(l) # r) =>
            Observing(handles', r) \subseteq Observing(handles, r)
    BY <1>9
  <2>3. orphaned' = orphaned
    BY <1>1
  <2> QED BY <1>3, <1>6, <1>8, <2>1, <2>2, <2>3, WrittenKept
<1> QED BY <1>1, <1>10, MutationLeft DEF QueryInv

(* The record a handle or a timer is about.                                *)
LEMMA RecordsHave ==
    ASSUME QueryInv
    PROVE  /\ records \in [Ids -> RecordType] /\ map \in [Keys -> Ids \cup {0}]
           /\ handles \in [Handles -> Ids \cup {0}] /\ 0 \notin Ids
           /\ \A r \in Made(records) : /\ r \in Ids /\ records[r].key \in Keys
                                       /\ records[r] \in RecordType /\ RecordOK(records[r])
           /\ \A h \in Handles : handles[h] # 0 => handles[h] \in Made(records)
           /\ \A r \in Ids : records[r].gc => r \in Made(records)
           /\ \A r \in Ids : records[r].gc =>
                 /\ GcTime = "later" /\ Observing(handles, r) = {}
                 /\ map[records[r].key] = r \/ records[r].key \in orphaned
           /\ \A r \in Made(records) :
                 Observing(handles, r) # {} /\ records[r].key \notin orphaned =>
                     map[records[r].key] = r
<1>1. records \in [Ids -> RecordType] /\ map \in [Keys -> Ids \cup {0}]
      /\ handles \in [Handles -> Ids \cup {0}] /\ 0 \notin Ids
  BY DEF QueryInv, RecordsPart, Ids
<1>2. \A r \in Made(records) : /\ r \in Ids /\ records[r].key \in Keys
                               /\ records[r] \in RecordType /\ RecordOK(records[r])
  BY <1>1 DEF QueryInv, RecordsPart, RecordsOK, Made, RecordType
<1>3. \A h \in Handles : handles[h] # 0 => handles[h] \in Made(records)
  BY DEF QueryInv, RecordsPart, MadeInOrder
<1>4. \A r \in Ids : records[r].gc => r \in Made(records)
  BY DEF QueryInv, RecordsPart, MadeInOrder, Made, Unused
<1>5. \A r \in Ids : records[r].gc =>
          /\ GcTime = "later" /\ Observing(handles, r) = {}
          /\ map[records[r].key] = r \/ records[r].key \in orphaned
  BY DEF QueryInv, RecordsPart, CollectsUnused
<1>6. \A r \in Made(records) :
          Observing(handles, r) # {} /\ records[r].key \notin orphaned => map[records[r].key] = r
  BY DEF QueryInv, RecordsPart, ActiveKept
<1> QED BY <1>1, <1>2, <1>3, <1>4, <1>5, <1>6

LEMMA DisposeHandleInv ==
    ASSUME QueryInv, NEW h \in Handles, DisposeHandle(h)
    PROVE  QueryInv'
<1> DEFINE r == handles[h]
           k == records[r].key
<1>1. /\ r # 0 /\ handles' = [handles EXCEPT ![h] = 0]
      /\ records' = [records EXCEPT ![r].gc =
                        IF Observing(handles', r) = {} THEN GcTime = "later" ELSE records[r].gc]
      /\ map' = IF Observing(handles', r) = {} /\ GcTime = "now" THEN Collected(r) ELSE map
      /\ UNCHANGED <<mutation, executions, orphaned>>
  BY Zenon DEF DisposeHandle
<1>2. r \in Made(records) /\ r \in Ids /\ k \in Keys /\ h \in Observing(handles, r)
      /\ records[r] \in RecordType /\ RecordOK(records[r])
  BY <1>1, RecordsHave DEF Observing
<1>3. /\ handles' \in [Handles -> Ids \cup {0}] /\ \A g \in Handles : handles'[g] \in {handles[g], 0}
      /\ \A s \in Ids : Observing(handles', s) \subseteq Observing(handles, s)
  BY <1>1, RecordsHave DEF Observing
<1>4. ~records[r].gc
  BY <1>2, RecordsHave
<1>5. k \in orphaned \/ map[k] = r
  BY <1>2, RecordsHave
<1>6. PICK b \in BOOLEAN : /\ b = (Observing(handles', r) = {} /\ GcTime = "later")
                           /\ records' = [records EXCEPT ![r].gc = b]
  <2>1. CASE Observing(handles', r) = {} /\ GcTime = "later"
    <3>1. records' = [records EXCEPT ![r].gc = TRUE]
      BY <1>1, <2>1, Zenon
    <3> QED BY <2>1, <3>1
  <2>2. CASE Observing(handles', r) = {} /\ GcTime # "later"
    <3>1. (GcTime = "later") = FALSE
      BY <2>2
    <3>2. records' = [records EXCEPT ![r].gc = FALSE]
      BY <1>1, <2>2, <3>1, Zenon
    <3> QED BY <2>2, <3>2
  <2>3. CASE Observing(handles', r) # {}
    <3>1. records[r].gc = FALSE
      BY <1>2, <1>4 DEF RecordType
    <3>2. records' = [records EXCEPT ![r].gc = FALSE]
      BY <1>1, <2>3, <3>1, Zenon
    <3> QED BY <2>3, <3>2
  <2> QED BY <2>1, <2>2, <2>3
<1>7. Grows(records[r], [records[r] EXCEPT !.gc = b]) /\ [records[r] EXCEPT !.gc = b].gc = b
  BY <1>2, FlagsGrow
<1>8. /\ DOMAIN records' = Ids /\ records' = [s \in Ids |-> records'[s]]
      /\ \A s \in Ids : s # r => records'[s] = records[s]
      /\ records'[r] = [records[r] EXCEPT !.gc = b]
  BY <1>2, <1>6, RecordsHave
<1>9. /\ map' \in [Keys -> Ids \cup {0}]
      /\ \A l \in Keys : map'[l] = IF Observing(handles', r) = {} /\ GcTime = "now" /\ l = k
                                   THEN 0 ELSE map[l]
  BY <1>1, <1>2, RecordsHave DEF Collected
<1>10. \A s \in Ids : \/ records'[s] = records[s]
                      \/ s \in Made(records) /\ Grows(records[s], records'[s])
  BY <1>2, <1>7, <1>8
<1>11. ASSUME NEW s \in Ids, records'[s].gc
       PROVE  /\ GcTime = "later" /\ Observing(handles', s) = {}
              /\ map'[records[s].key] = s \/ records[s].key \in orphaned'
  <2>1. CASE s = r
    <3>1. GcTime = "later" /\ Observing(handles', r) = {}
      BY <1>6, <1>7, <1>8, <1>11, <2>1
    <3>2. map' = map /\ orphaned' = orphaned
      BY <1>1, <3>1
    <3> QED BY <1>5, <2>1, <3>1, <3>2
  <2>2. CASE s # r
    <3>1. records[s].gc
      BY <1>8, <1>11, <2>2
    <3>2. /\ GcTime = "later" /\ Observing(handles, s) = {}
          /\ map[records[s].key] = s \/ records[s].key \in orphaned
      BY <3>1, RecordsHave
    <3>3. map' = map /\ orphaned' = orphaned
      BY <1>1, <3>2
    <3>4. Observing(handles', s) = {}
      BY <1>3, <3>2
    <3> QED BY <3>2, <3>3, <3>4
  <2> QED BY <2>1, <2>2
<1>12. ASSUME NEW s \in Made(records), Observing(handles', s) # {}, records[s].key \notin orphaned'
       PROVE  map'[records[s].key] = s
  <2>1. s \in Ids /\ records[s].key \in Keys /\ orphaned' = orphaned
    BY <1>1, RecordsHave
  <2>2. Observing(handles, s) # {}
    BY <1>3, <1>12, <2>1
  <2>3. map[records[s].key] = s
    BY <1>12, <2>1, <2>2, RecordsHave
  <2>4. Observing(handles', r) = {} => records[s].key # k
    BY <1>5, <1>12, <2>1, <2>3
  <2> QED BY <1>9, <2>1, <2>3, <2>4
<1>13. \A l \in Keys : map'[l] \in {map[l], 0}
  BY <1>9
<1> HIDE DEF r, k
<1>14. RecordsPart' /\ RecordsGoOn
  BY <1>3, <1>8, <1>9, <1>10, <1>11, <1>12, <1>13, InPlaceKept
<1> QED BY <1>1, <1>14, MutationLeft DEF QueryInv

LEMMA CollectTimerInv ==
    ASSUME QueryInv, NEW r \in Ids, CollectTimer(r)
    PROVE  QueryInv'
<1> DEFINE k == records[r].key
<1>1. /\ records[r].gc /\ records' = [records EXCEPT ![r].gc = FALSE] /\ map' = [map EXCEPT ![k] = 0]
      /\ UNCHANGED <<handles, mutation, executions, orphaned>>
  BY DEF CollectTimer, Collected
<1>2. /\ r \in Made(records) /\ k \in Keys /\ records[r] \in RecordType /\ RecordOK(records[r])
      /\ Observing(handles, r) = {} /\ (map[k] = r \/ k \in orphaned)
  BY <1>1, RecordsHave
<1>3. Grows(records[r], [records[r] EXCEPT !.gc = FALSE]) /\ [records[r] EXCEPT !.gc = FALSE].gc = FALSE
  BY <1>2, FlagsGrow
<1>4. /\ DOMAIN records' = Ids /\ records' = [s \in Ids |-> records'[s]]
      /\ \A s \in Ids : s # r => records'[s] = records[s]
      /\ records'[r] = [records[r] EXCEPT !.gc = FALSE]
      /\ map' \in [Keys -> Ids \cup {0}] /\ \A l \in Keys : map'[l] = IF l = k THEN 0 ELSE map[l]
      /\ handles' = handles /\ handles \in [Handles -> Ids \cup {0}] /\ orphaned' = orphaned
  BY <1>1, <1>2, RecordsHave
<1>5. \A s \in Ids : \/ records'[s] = records[s]
                     \/ s \in Made(records) /\ Grows(records[s], records'[s])
  BY <1>2, <1>3, <1>4
<1>6. ASSUME NEW s \in Ids, records'[s].gc
      PROVE  /\ GcTime = "later" /\ Observing(handles', s) = {}
             /\ map'[records[s].key] = s \/ records[s].key \in orphaned'
  <2>1. s # r /\ records[s].gc
    BY <1>3, <1>4, <1>6
  <2>2. /\ GcTime = "later" /\ Observing(handles, s) = {} /\ records[s].key \in Keys
        /\ map[records[s].key] = s \/ records[s].key \in orphaned
    BY <2>1, RecordsHave
  <2> QED BY <1>2, <1>4, <2>1, <2>2
<1>7. ASSUME NEW s \in Made(records), Observing(handles', s) # {}, records[s].key \notin orphaned'
      PROVE  map'[records[s].key] = s
  <2>1. map[records[s].key] = s /\ records[s].key \in Keys /\ Observing(handles, s) # {}
    BY <1>4, <1>7, RecordsHave
  <2> QED BY <1>2, <1>4, <1>7, <2>1
<1>8. /\ \A l \in Keys : map'[l] \in {map[l], 0}
      /\ handles' \in [Handles -> Ids \cup {0}] /\ \A h \in Handles : handles'[h] \in {handles[h], 0}
  BY <1>4
<1> HIDE DEF k
<1>9. RecordsPart' /\ RecordsGoOn
  BY <1>4, <1>5, <1>6, <1>7, <1>8, InPlaceKept
<1> QED BY <1>1, <1>9, MutationLeft DEF QueryInv

LEMMA ClearedGrows ==
    ASSUME NEW x \in RecordType, RecordOK(x)
    PROVE  /\ Grows(x, [Cancelling(x) EXCEPT !.gc = FALSE])
           /\ [Cancelling(x) EXCEPT !.gc = FALSE].gc = FALSE
           /\ [Cancelling(x) EXCEPT !.gc = FALSE].data = x.data
<1> DEFINE y == Cancelling(x)
           z == [y EXCEPT !.gc = FALSE]
<1>1. Grows(x, y) /\ y.data = x.data /\ y.generation = x.generation
  BY CancellingGrows
<1>2. y \in RecordType /\ RecordOK(y) /\ y.key = x.key
  BY <1>1 DEF Grows
<1> HIDE DEF y
<1>3. Grows(y, z) /\ z.gc = FALSE /\ z.data = y.data
  BY <1>2, FlagsGrow
<1> HIDE DEF z
<1>4. Grows(x, z)
  BY <1>1, <1>2, <1>3 DEF Grows
<1> QED BY <1>1, <1>3, <1>4 DEF y, z

LEMMA ClearInv ==
    ASSUME QueryInv, Clear, UNCHANGED <<mutation, executions>>
    PROVE  QueryInv'
<1>1. /\ records' = [r \in Ids |-> IF \E k \in Keys : map[k] = r
                                   THEN [Cancelling(records[r]) EXCEPT !.gc = FALSE]
                                   ELSE records[r]]
      /\ map' = [k \in Keys |-> 0]
      /\ orphaned' = orphaned \cup {k \in Keys : map[k] # 0 /\ Observing(handles, map[k]) # {}}
      /\ handles' = handles /\ handles \in [Handles -> Ids \cup {0}] /\ 0 \notin Ids
  BY RecordsHave DEF Clear
<1>2. ASSUME NEW r \in Ids, \E k \in Keys : map[k] = r
      PROVE  /\ r \in Made(records) /\ Grows(records[r], records'[r]) /\ ~records'[r].gc
  <2>1. r \in Made(records)
    BY <1>1, <1>2, NoneAssumption DEF QueryInv, RecordsPart, MadeInOrder, Made
  <2>2. records[r] \in RecordType /\ RecordOK(records[r])
    BY <2>1, RecordsHave
  <2> QED BY <1>1, <1>2, <2>1, <2>2, ClearedGrows
<1>3. /\ DOMAIN records' = Ids /\ records' = [s \in Ids |-> records'[s]]
      /\ \A r \in Ids : (\A k \in Keys : map[k] # r) => records'[r] = records[r]
      /\ map' \in [Keys -> Ids \cup {0}] /\ \A l \in Keys : map'[l] \in {map[l], 0}
      /\ handles' \in [Handles -> Ids \cup {0}] /\ \A h \in Handles : handles'[h] \in {handles[h], 0}
  BY <1>1
<1>4. \A s \in Ids : \/ records'[s] = records[s]
                     \/ s \in Made(records) /\ Grows(records[s], records'[s])
  BY <1>2, <1>3
<1>5. ASSUME NEW s \in Ids, records'[s].gc
      PROVE  /\ GcTime = "later" /\ Observing(handles', s) = {}
             /\ map'[records[s].key] = s \/ records[s].key \in orphaned'
  <2>1. (\A k \in Keys : map[k] # s) /\ records[s].gc
    BY <1>2, <1>3, <1>5
  <2> QED BY <1>1, <2>1, RecordsHave
<1>6. ASSUME NEW s \in Made(records), Observing(handles', s) # {}, records[s].key \notin orphaned'
      PROVE  map'[records[s].key] = s
  <2>1. map[records[s].key] = s /\ records[s].key \in Keys /\ Observing(handles, s) # {} /\ s # 0
    BY <1>1, <1>6, RecordsHave
  <2> QED BY <1>1, <1>6, <2>1
<1>7. RecordsPart' /\ RecordsGoOn
  BY <1>3, <1>4, <1>5, <1>6, InPlaceKept
<1> QED BY <1>7, MutationLeft DEF QueryInv
-----------------------------------------------------------------------------
(* The steps of the mutation.                                              *)

LEMMA MutationHas ==
    ASSUME QueryInv
    PROVE  /\ mutation \in MutationType /\ executions \in [Executions -> ExecutionType]
           /\ None \notin Executions
           /\ \A e \in Executions : /\ executions[e] \in ExecutionType
                                    /\ executions[e].gen \in Nat /\ executions[e].previous \in Nat
                                    /\ OwnData(executions[e], records)
           /\ \A e \in Executions :
                 mutation.controller = e <=> Under(executions[e]) /\ ~executions[e].aborted
           /\ \A r \in Made(records) : records[r] \in RecordType
<1>1. mutation \in MutationType /\ executions \in [Executions -> ExecutionType]
  BY DEF QueryInv, MutationPart
<1>2. None \notin Executions
  BY NoneAssumption
<1>3. \A e \in Executions : /\ executions[e] \in ExecutionType
                            /\ executions[e].gen \in Nat /\ executions[e].previous \in Nat
  BY <1>1 DEF ExecutionType
<1>4. \A e \in Executions : OwnData(executions[e], records)
  BY DEF QueryInv, MutationPart, OwnDataStands
<1>5. \A e \in Executions :
          mutation.controller = e <=> Under(executions[e]) /\ ~executions[e].aborted
  BY Zenon DEF QueryInv, MutationPart, ControlsCall
<1>6. \A r \in Made(records) : records[r] \in RecordType
  BY DEF QueryInv, RecordsPart, Made
<1>7. \A e \in Executions : /\ executions[e] \in ExecutionType
                            /\ executions[e].gen \in Nat /\ executions[e].previous \in Nat
                            /\ OwnData(executions[e], records)
  BY <1>3, <1>4
<1> QED BY <1>1, <1>2, <1>5, <1>6, <1>7, Zenon

(* What a call has of its record stays true while its locals stay.         *)
LEMMA OwnDataGoesOn ==
    ASSUME QueryInv, RecordsGoOn, NEW e \in Executions, NEW x,
           x.record = executions[e].record, x.gen = executions[e].gen,
           x.previous = executions[e].previous, Under(x) => Under(executions[e])
    PROVE  OwnData(x, records')
<1>1. /\ executions[e].gen \in Nat /\ executions[e].previous \in Nat
      /\ OwnData(executions[e], records)
      /\ \A r \in Made(records) : records[r] \in RecordType
  BY MutationHas
<1>2. OwnData(executions[e], records')
  BY <1>1, OwnDataKept DEF RecordsGoOn
<1> QED BY <1>2 DEF OwnData

(* The records may be as they are.                                         *)
LEMMA RecordsRest ==
    ASSUME QueryInv, UNCHANGED <<map, records, handles, orphaned>>
    PROVE  RecordsPart' /\ RecordsGoOn
<1>1. /\ records \in [Ids -> RecordType]
  BY DEF QueryInv, RecordsPart
<1>2. /\ DOMAIN records' = Ids /\ records' = [r \in Ids |-> records'[r]]
      /\ \A r \in Ids : records'[r] = records[r]
  BY <1>1
<1> QED BY <1>2, InPlaceInv

LEMMA ToldType ==
    ASSUME NEW x \in ExecutionType
    PROVE  [x EXCEPT !.aborted = TRUE] \in ExecutionType
  BY DEF ExecutionType

(* After AbortActive() no call goes on that was not told to stop.          *)
LEMMA AllAreTold ==
    ASSUME QueryInv
    PROVE  /\ AbortActive(executions) \in [Executions -> ExecutionType]
           /\ \A e \in Executions :
                 /\ Under(AbortActive(executions)[e]) => AbortActive(executions)[e].aborted
                 /\ AbortActive(executions)[e].phase = executions[e].phase
                 /\ AbortActive(executions)[e].record = executions[e].record
                 /\ AbortActive(executions)[e].gen = executions[e].gen
                 /\ AbortActive(executions)[e].previous = executions[e].previous
<1> DEFINE c == mutation.controller
           es == [executions EXCEPT ![c].aborted = TRUE]
<1>1. /\ executions \in [Executions -> ExecutionType] /\ c \in Executions \cup {None}
      /\ None \notin Executions
      /\ \A e \in Executions : c = e <=> Under(executions[e]) /\ ~executions[e].aborted
  BY MutationHas DEF MutationType
<1>2. CASE c = None
  <2>1. AbortActive(executions) = executions
    BY <1>2 DEF AbortActive
  <2>2. \A e \in Executions : Under(executions[e]) => executions[e].aborted
    BY <1>1, <1>2
  <2> QED BY <1>1, <2>1, <2>2
<1>3. CASE c # None
  <2>1. AbortActive(executions) = es /\ c \in Executions
    BY <1>1, <1>3 DEF AbortActive
  <2>2. es \in [Executions -> ExecutionType]
    <3> DEFINE y == [executions[c] EXCEPT !.aborted = TRUE]
    <3>1. y \in ExecutionType
      <4>1. executions[c] \in ExecutionType
        BY <1>1, <2>1
      <4> QED BY <4>1, ToldType
    <3>2. es = [executions EXCEPT ![c] = y]
      BY Zenon
    <3> HIDE DEF es, y
    <3> QED BY <1>1, <3>1, <3>2
  <2>3. ASSUME NEW e \in Executions
        PROVE  /\ Under(es[e]) => es[e].aborted
               /\ es[e].phase = executions[e].phase /\ es[e].record = executions[e].record
               /\ es[e].gen = executions[e].gen /\ es[e].previous = executions[e].previous
    <3>1. CASE e = c
      BY <1>1, <2>1, <3>1 DEF ExecutionType
    <3>2. CASE e # c
      <4>1. es[e] = executions[e]
        BY <1>1, <2>1, <3>2
      <4> QED BY <1>1, <3>2, <4>1
    <3> QED BY <3>1, <3>2
  <2> HIDE DEF es
  <2> QED BY <2>1, <2>2, <2>3
<1> QED BY <1>2, <1>3

LEMMA MutateInv ==
    ASSUME QueryInv, NEW e \in Executions, NEW k \in Keys, Mutate(e, k)
    PROVE  QueryInv'
<1> DEFINE x == Setting(Record(k))
           call == [phase |-> "sending", aborted |-> FALSE, record |-> RecordOf(k),
                    gen |-> x.generation, previous |-> Record(k).data]
           es == AbortActive(executions)
<1>1. /\ GetRecord(k) /\ Put(RecordOf(k), x) /\ RecordOf(k) \in Ids
      /\ executions' = [es EXCEPT ![e] = call]
      /\ mutation' = [mutation EXCEPT !.status = "pending", !.controller = e]
      /\ UNCHANGED <<handles, orphaned>>
  BY DEF Mutate, GetRecord
<1>2. /\ Record(k) \in RecordType /\ RecordOK(Record(k))
      /\ Grows(Record(k), x) /\ x.gc = Record(k).gc
      /\ x.generation = Record(k).generation + 1 /\ x.data = x.generation
  BY <1>1, RecordIsOK, SettingGrows
<1> HIDE DEF x
<1>3. Writes({k}) /\ records'[RecordOf(k)] = x
  BY <1>1, <1>2, PutWrites
<1>4. RecordsPart' /\ RecordsGoOn
  BY <1>1, <1>2, <1>3, WrittenInv
<1>5. /\ Record(k).data \in Nat /\ Record(k).generation \in Nat
      /\ Record(k).data <= Record(k).generation /\ x.generation \in Nat
  BY <1>2 DEF RecordType, RecordOK
<1>6. /\ call \in ExecutionType /\ call.phase = "sending" /\ call.aborted = FALSE
      /\ call.record = RecordOf(k) /\ call.gen = x.generation /\ call.previous = Record(k).data
  BY <1>1, <1>5 DEF ExecutionType
<1> HIDE DEF call
<1>7. /\ es \in [Executions -> ExecutionType]
      /\ \A d \in Executions : /\ Under(es[d]) => es[d].aborted
                               /\ es[d].phase = executions[d].phase
                               /\ es[d].record = executions[d].record
                               /\ es[d].gen = executions[d].gen
                               /\ es[d].previous = executions[d].previous
  BY AllAreTold
<1> HIDE DEF es
<1>8. /\ executions' \in [Executions -> ExecutionType] /\ executions'[e] = call
      /\ \A d \in Executions : d # e => executions'[d] = es[d]
  BY <1>1, <1>6, <1>7
<1>9. /\ mutation' \in MutationType /\ mutation'.status = "pending" /\ mutation'.controller = e
  BY <1>1, MutationHas DEF MutationType
<1>10. \A d \in Executions :
          mutation'.controller = d <=> Under(executions'[d]) /\ ~executions'[d].aborted
  BY <1>6, <1>7, <1>8, <1>9 DEF Under
<1>11. PendingIsTrue'
  BY <1>6, <1>8, <1>9, MutationHas DEF PendingIsTrue
<1>12. RecordOf(k) \in Made(records')
  BY <1>1, <1>3, RecordsWritten, NoneAssumption DEF Made
<1>13. ASSUME NEW d \in Executions PROVE OwnData(executions'[d], records')
  <2>1. CASE d = e
    BY <1>2, <1>3, <1>5, <1>6, <1>8, <1>12, <2>1 DEF OwnData
  <2>2. CASE d # e
    <3>1. Under(executions'[d]) => Under(executions[d])
      BY <1>7, <1>8, <2>2 DEF Under
    <3> QED BY <1>4, <1>7, <1>8, <2>2, <3>1, OwnDataGoesOn
  <2> QED BY <2>1, <2>2
<1>14. MutationPart'
  BY <1>8, <1>9, <1>10, <1>11, <1>13 DEF MutationPart, ControlsCall, OwnDataStands, Under, OwnData
<1> QED BY <1>4, <1>14 DEF QueryInv

(* A call that goes on, or is over, when it is the only one that changes.  *)
LEMMA OneCallInv ==
    ASSUME QueryInv, RecordsPart', RecordsGoOn, NEW e \in Executions, NEW x \in ExecutionType,
           executions' = [executions EXCEPT ![e] = x],
           mutation' \in MutationType,
           \A d \in Executions : d # e =>
               (mutation'.controller = d <=> mutation.controller = d),
           mutation'.controller = e <=> Under(x) /\ ~x.aborted,
           PendingIsTrue',
           Under(x) => /\ Under(executions[e]) /\ x.record = executions[e].record
                       /\ x.gen = executions[e].gen /\ x.previous = executions[e].previous
    PROVE  QueryInv'
<1>1. /\ executions' \in [Executions -> ExecutionType] /\ executions'[e] = x
      /\ \A d \in Executions : d # e => executions'[d] = executions[d]
  BY MutationHas
<1>2. \A d \in Executions :
          mutation'.controller = d <=> Under(executions'[d]) /\ ~executions'[d].aborted
  BY <1>1, MutationHas
<1>3. ASSUME NEW d \in Executions PROVE OwnData(executions'[d], records')
  <2>1. CASE d = e /\ Under(x)
    BY <1>1, <2>1, OwnDataGoesOn
  <2>2. CASE d = e /\ ~Under(x)
    BY <1>1, <2>2 DEF OwnData
  <2>3. CASE d # e
    BY <1>1, <2>3, OwnDataGoesOn
  <2> QED BY <2>1, <2>2, <2>3
<1>4. MutationPart'
  BY <1>1, <1>2, <1>3 DEF MutationPart, ControlsCall, OwnDataStands, Under, OwnData
<1> QED BY <1>4 DEF QueryInv

LEMMA CallIsOver ==
    [NotStarted EXCEPT !.phase = "over"] \in ExecutionType
    /\ [NotStarted EXCEPT !.phase = "over"].phase = "over"
  BY DEF NotStarted, ExecutionType

(* AnswerIgnored and Settled.                                              *)
LEMMA EndedInv ==
    ASSUME QueryInv, NEW e \in Executions, AnswerIgnored(e) \/ Settled(e)
    PROVE  QueryInv'
<1> DEFINE x == [NotStarted EXCEPT !.phase = "over"]
<1>1. /\ executions' = [executions EXCEPT ![e] = x]
      /\ mutation' = [mutation EXCEPT !.controller = Released(e)]
      /\ UNCHANGED <<map, records, handles, orphaned>>
      /\ executions[e].phase = "sending" => executions[e].aborted
  BY DEF AnswerIgnored, Settled, Over, Aborted
<1>2. x \in ExecutionType /\ ~Under(x) /\ x.phase = "over"
  BY CallIsOver DEF Under
<1> HIDE DEF x
<1>3. RecordsPart' /\ RecordsGoOn
  BY <1>1, RecordsRest
<1>4. /\ mutation' \in MutationType /\ mutation'.controller = Released(e)
      /\ mutation'.status = mutation.status /\ mutation'.controller # e
      /\ \A d \in Executions : d # e => (mutation'.controller = d <=> mutation.controller = d)
      /\ mutation'.controller # None => mutation'.controller = mutation.controller
  BY <1>1, MutationHas DEF Released, MutationType
<1>5. /\ executions'[e] = x /\ \A d \in Executions : d # e => executions'[d] = executions[d]
  BY <1>1, MutationHas
<1>6. PendingIsTrue'
  <2>1. PendingIsTrue /\ mutation.controller \in Executions \cup {None}
    BY MutationHas DEF QueryInv, MutationPart, MutationType
  <2>2. mutation.controller = e => mutation.status # "pending"
    BY <1>1, <2>1, MutationHas DEF PendingIsTrue
  <2>3. CASE mutation.controller = e
    <3>1. mutation'.controller = None /\ mutation'.status # "pending"
      BY <1>4, <2>2, <2>3 DEF Released
    <3> QED BY <3>1 DEF PendingIsTrue
  <2>4. CASE mutation.controller # e
    <3>1. mutation'.controller = mutation.controller
      BY <1>4, <2>4 DEF Released
    <3> QED BY <1>4, <1>5, <2>1, <2>4, <3>1 DEF PendingIsTrue
  <2> QED BY <2>3, <2>4
<1> QED BY <1>1, <1>2, <1>3, <1>4, <1>6, OneCallInv

LEMMA AcceptedInv ==
    ASSUME QueryInv, NEW e \in Executions, Accepted(e)
    PROVE  QueryInv' /\ \A r \in Ids : records'[r].data >= records[r].data
<1> DEFINE x == [executions[e] EXCEPT !.phase = "confirming"]
           k == records[executions[e].record].key
<1>1. /\ executions[e].phase = "sending" /\ ~executions[e].aborted
      /\ executions' = [executions EXCEPT ![e] = x]
      /\ mutation' = [mutation EXCEPT !.status = "success"]
      /\ GetRecord(k) /\ Put(RecordOf(k), Setting(Record(k))) /\ RecordOf(k) \in Ids
      /\ UNCHANGED <<handles, orphaned>>
  BY Zenon DEF Accepted, Aborted, GetRecord
<1>2. /\ Under(executions[e]) /\ executions[e] \in ExecutionType /\ mutation.controller = e
      /\ executions[e].record \in Made(records)
  BY <1>1, MutationHas DEF Under, OwnData
<1>3. k \in Keys
  BY <1>2, RecordsHave
<1>4. /\ x \in ExecutionType /\ x.phase = "confirming" /\ Under(x) /\ ~x.aborted
      /\ x.record = executions[e].record /\ x.gen = executions[e].gen
      /\ x.previous = executions[e].previous
  BY <1>1, <1>2 DEF ExecutionType, Under
<1> HIDE DEF x, k
<1>5. /\ Record(k) \in RecordType /\ RecordOK(Record(k))
      /\ Grows(Record(k), Setting(Record(k))) /\ Setting(Record(k)).gc = Record(k).gc
      /\ Setting(Record(k)).data = Record(k).generation + 1
  BY <1>1, <1>3, RecordIsOK, SettingGrows
<1>6. Writes({k}) /\ records'[RecordOf(k)] = Setting(Record(k))
  BY <1>1, <1>3, <1>5, PutWrites
<1>7. RecordsPart' /\ RecordsGoOn
  BY <1>1, <1>5, <1>6, WrittenInv
<1>8. mutation' \in MutationType /\ mutation'.controller = e /\ mutation'.status = "success"
  BY <1>1, <1>2, MutationHas DEF MutationType
<1>9. executions'[e] = x
  BY <1>1, MutationHas
<1>10. PendingIsTrue'
  BY <1>4, <1>8, <1>9 DEF PendingIsTrue
<1>11. QueryInv'
  BY <1>1, <1>2, <1>4, <1>7, <1>8, <1>10, OneCallInv
<1>12. Setting(Record(k)).data >= Record(k).data
  BY <1>5 DEF RecordType, RecordOK
<1> QED BY <1>6, <1>11, <1>12, WrittenForward

LEMMA FailedInv ==
    ASSUME QueryInv, NEW e \in Executions, Failed(e)
    PROVE  /\ QueryInv'
           /\ executions[e].phase # "failing" /\ executions'[e].phase = "failing"
           /\ \A d \in Executions : d # e => executions'[d] = executions[d]
           /\ \A r \in Ids : r # executions[e].record => records'[r] = records[r]
           /\ records'[executions[e].record] # records[executions[e].record] =>
                 records[executions[e].record].data = executions[e].gen
<1> DEFINE x == [executions[e] EXCEPT !.phase = "failing"]
           r == executions[e].record
<1>1. /\ executions[e].phase \in {"sending", "confirming"} /\ ~executions[e].aborted
      /\ executions' = [executions EXCEPT ![e] = x]
      /\ mutation' = [mutation EXCEPT !.status = "error"]
      /\ Put(r, Rollback(e, records[r]))
      /\ UNCHANGED <<handles, map, orphaned>>
  BY Zenon DEF Failed, Aborted
<1>2. /\ Under(executions[e]) /\ executions[e] \in ExecutionType /\ mutation.controller = e
      /\ r \in Made(records) /\ executions[e].previous \in Nat
      /\ executions[e].previous <= records[r].generation
      /\ records[r].generation = executions[e].gen => records[r].data = executions[e].gen
  BY <1>1, MutationHas DEF Under, OwnData
<1>3. records[r] \in RecordType /\ RecordOK(records[r]) /\ r \in Ids
  BY <1>2, RecordsHave
<1>4. /\ x \in ExecutionType /\ x.phase = "failing" /\ Under(x) /\ ~x.aborted
      /\ x.record = executions[e].record /\ x.gen = executions[e].gen
      /\ x.previous = executions[e].previous
  BY <1>1, <1>2 DEF ExecutionType, Under
<1> HIDE DEF x, r
<1>5. /\ Grows(records[r], Rollback(e, records[r]))
      /\ Rollback(e, records[r]).gc = records[r].gc
      /\ records[r].generation # executions[e].gen => Rollback(e, records[r]) = records[r]
  BY <1>2, <1>3, RollbackGrows
<1>6. /\ DOMAIN records' = Ids /\ records' = [s \in Ids |-> records'[s]]
      /\ \A s \in Ids : s # r => records'[s] = records[s]
      /\ records'[r] = Rollback(e, records[r])
  BY <1>1, <1>3, RecordsHave DEF Put
<1>7. RecordsPart' /\ RecordsGoOn
  <2>1. \A s \in Ids : \/ records'[s] = records[s]
                       \/ /\ s \in Made(records) /\ Grows(records[s], records'[s])
                          /\ records'[s].gc = records[s].gc
    BY <1>2, <1>5, <1>6
  <2> QED BY <1>1, <1>6, <2>1, InPlaceInv
<1>8. mutation' \in MutationType /\ mutation'.controller = e /\ mutation'.status = "error"
  BY <1>1, <1>2, MutationHas DEF MutationType
<1>9. executions'[e] = x /\ \A d \in Executions : d # e => executions'[d] = executions[d]
  BY <1>1, MutationHas
<1>10. PendingIsTrue'
  BY <1>4, <1>8, <1>9 DEF PendingIsTrue
<1>11. QueryInv'
  BY <1>1, <1>2, <1>4, <1>7, <1>8, <1>10, OneCallInv
<1>12. executions[e].phase # "failing"
  BY <1>1
<1> QED BY <1>2, <1>4, <1>5, <1>6, <1>9, <1>11, <1>12 DEF r

LEMMA CancelInv ==
    ASSUME QueryInv, CancelMutation \/ DisposeMutation
    PROVE  QueryInv'
<1> DEFINE es == AbortActive(executions)
<1>1. executions' = es /\ UNCHANGED <<map, records, handles, orphaned>>
  BY DEF CancelMutation, DisposeMutation
<1>2. RecordsPart' /\ RecordsGoOn
  BY <1>1, RecordsRest
<1>3. /\ es \in [Executions -> ExecutionType]
      /\ \A d \in Executions : /\ Under(es[d]) => es[d].aborted
                               /\ es[d].phase = executions[d].phase
                               /\ es[d].record = executions[d].record
                               /\ es[d].gen = executions[d].gen
                               /\ es[d].previous = executions[d].previous
  BY AllAreTold
<1> HIDE DEF es
<1>4. /\ mutation' \in MutationType /\ mutation'.controller = None /\ mutation'.status # "pending"
  <2> DEFINE s == IF mutation.controller # None /\ mutation.status = "pending" THEN "idle"
                  ELSE mutation.status
             m == [mutation EXCEPT !.controller = None, !.status = s]
  <2>1. s \in {"idle", "success", "error"}
    BY MutationHas DEF QueryInv, MutationPart, PendingIsTrue, MutationType
  <2>2. Cancelled(mutation) = m
    BY DEF Cancelled
  <2> HIDE DEF s
  <2>3. m \in MutationType /\ m.controller = None /\ m.status = s
    BY <2>1, MutationHas DEF MutationType
  <2> HIDE DEF m
  <2>4. [m EXCEPT !.disposed = TRUE] \in MutationType
        /\ [m EXCEPT !.disposed = TRUE].controller = None
        /\ [m EXCEPT !.disposed = TRUE].status = s
    BY <2>3 DEF MutationType
  <2> QED BY <2>1, <2>2, <2>3, <2>4 DEF CancelMutation, DisposeMutation
<1>5. \A d \in Executions :
          mutation'.controller = d <=> Under(executions'[d]) /\ ~executions'[d].aborted
  BY <1>1, <1>3, <1>4, MutationHas
<1>6. PendingIsTrue'
  BY <1>4 DEF PendingIsTrue
<1>7. ASSUME NEW d \in Executions PROVE OwnData(executions'[d], records')
  <2>1. Under(executions'[d]) => Under(executions[d])
    BY <1>1, <1>3 DEF Under
  <2> QED BY <1>1, <1>2, <1>3, <2>1, OwnDataGoesOn
<1>8. MutationPart'
  BY <1>1, <1>3, <1>4, <1>5, <1>6, <1>7
  DEF MutationPart, ControlsCall, OwnDataStands, Under, OwnData
<1> QED BY <1>2, <1>8 DEF QueryInv
-----------------------------------------------------------------------------
(* The client as a whole.                                                  *)

LEMMA InitInv == QInit => QueryInv
<1> SUFFICES ASSUME QInit PROVE QueryInv
  OBVIOUS
<1>1. /\ map = [k \in Keys |-> 0] /\ records = [r \in Ids |-> Unused]
      /\ handles = [h \in Handles |-> 0]
      /\ mutation = [status |-> "idle", controller |-> None, disposed |-> FALSE]
      /\ executions = [e \in Executions |-> NotStarted]
  BY DEF QInit
<1>2. /\ Unused \in RecordType /\ RecordOK(Unused) /\ ~Unused.gc /\ Unused.key = None
  BY DEF Unused, RecordType, RecordOK
<1>3. \A r \in Ids : records[r] = Unused
  BY <1>1
<1>4. Made(records) = {} /\ Made(records) = 1 .. 0 /\ 0 \in 0 .. MaxRecord
  BY <1>2, <1>3, QueryBounds DEF Made
<1>5. RecordsPart
  <2>1. RecordsOK /\ records \in [Ids -> RecordType]
    BY <1>1, <1>2, <1>3 DEF RecordsOK
  <2>2. MadeInOrder
    BY <1>1, <1>3, <1>4 DEF MadeInOrder
  <2>3. CollectsUnused
    BY <1>2, <1>3 DEF CollectsUnused
  <2>4. ActiveKept
    BY <1>4 DEF ActiveKept
  <2> QED BY <1>1, <2>1, <2>2, <2>3, <2>4 DEF RecordsPart
<1>6. NotStarted \in ExecutionType /\ NotStarted.phase = "none" /\ ~Under(NotStarted)
  BY DEF NotStarted, ExecutionType, Under
<1>7. \A e \in Executions : executions[e] = NotStarted
  BY <1>1
<1>8. MutationPart
  <2>1. mutation \in MutationType /\ executions \in [Executions -> ExecutionType]
    BY <1>1, <1>6 DEF MutationType
  <2>2. ControlsCall
    BY <1>1, <1>6, <1>7, NoneAssumption DEF ControlsCall
  <2>3. PendingIsTrue
    BY <1>1 DEF PendingIsTrue
  <2>4. OwnDataStands
    BY <1>6, <1>7 DEF OwnDataStands, OwnData
  <2> QED BY <2>1, <2>2, <2>3, <2>4 DEF MutationPart
<1> QED BY <1>5, <1>8 DEF QueryInv

LEMMA StutterInv == QueryInv /\ UNCHANGED qvars => QueryInv'
<1> SUFFICES ASSUME QueryInv, UNCHANGED qvars PROVE QueryInv'
  OBVIOUS
<1>1. UNCHANGED <<map, records, handles, mutation, executions, orphaned>>
  BY DEF qvars
<1>2. RecordsPart' /\ RecordsGoOn
  BY <1>1, RecordsRest
<1> QED BY <1>1, <1>2, MutationLeft DEF QueryInv

LEMMA NextInv == QueryInv /\ QNext => QueryInv'
<1> SUFFICES ASSUME QueryInv, QNext PROVE QueryInv'
  OBVIOUS
<1>1. CASE RecordCall
  BY <1>1, SetQueryDataInv, FetchQueryInv, PrefetchQueryInv, HydrateInv, InvalidateInv,
     CancelQueriesInv, ClearInv
  DEF RecordCall, ClearClient, DisposeClient
<1>2. CASE RecordEvent
  BY <1>2, FetchSettles, CollectTimerInv DEF RecordEvent
<1>3. CASE HandleCall
  BY <1>3, ObserveInv, DisposeHandleInv DEF HandleCall
<1>4. CASE MutationStep
  BY <1>4, MutateInv, EndedInv, AcceptedInv, FailedInv, CancelInv DEF MutationStep
<1> QED BY <1>1, <1>2, <1>3, <1>4 DEF QNext

(* The inductive invariant holds of the client in every reachable state.   *)
LEMMA QueryInvariance == QSpec => []QueryInv
<1>1. QueryInv /\ [QNext]_qvars => QueryInv'
  BY NextInv, StutterInv
<1> QED BY <1>1, InitInv, PTL DEF QSpec

LEMMA TrueFromInv == QueryInv => RecordsAreTrue
<1> SUFFICES ASSUME QueryInv PROVE RecordsAreTrue
  OBVIOUS
<1>1. QTypeOK
  <2>1. \A r \in Ids : records[r] \in RecordType /\ RecordOK(records[r])
    BY DEF QueryInv, RecordsPart, RecordsOK
  <2>2. \A r \in Ids : {records[r].data, records[r].controller, records[r].execution}
                           \subseteq 0 .. records[r].generation
    BY <2>1 DEF RecordType, RecordOK
  <2> QED BY <2>2 DEF QTypeOK, QueryInv, RecordsPart, MutationPart, MutationType
<1>2. FetchingIsTrue
  <2>1. ASSUME NEW r \in Ids
        PROVE  /\ records[r].fetching => \E f \in records[r].fetches : Current(records[r], f)
               /\ \A f, g \in records[r].fetches : f # g => f.aborted \/ g.aborted
    BY DEF QueryInv, RecordsPart, RecordsOK, RecordOK
  <2> QED BY <2>1 DEF FetchingIsTrue
<1> QED BY <1>1, <1>2 DEF RecordsAreTrue, QueryInv, RecordsPart, MutationPart

(* What a record and the mutation say of themselves is true in every state *)
(* a client reaches, whatever its keys, handles and calls: a record that is*)
(* fetching has an execution that will settle it and never two that were   *)
(* not told to stop, the mutation is pending exactly while its call waits, *)
(* and an observed record stays the one of its key (query-record.ts,       *)
(* query-client-prototype.ts, mutation-record.ts).                         *)
THEOREM RecordsAreAlwaysTrue == QSpec => []RecordsAreTrue
BY QueryInvariance, TrueFromInv, PTL
-----------------------------------------------------------------------------
(* What a step does to the data.                                           *)

Forward == \A r \in Ids : records'[r].data >= records[r].data

LEMMA RecordCallForward == QueryInv /\ RecordCall => Forward
<1> SUFFICES ASSUME QueryInv, RecordCall PROVE Forward
  OBVIOUS
<1>1. \A r \in Ids : records[r].data \in Nat
  BY DEF QueryInv, RecordsPart, RecordType
<1>2. ASSUME NEW x \in RecordType, RecordOK(x) PROVE Setting(x).data >= x.data
  <2>1. Setting(x).data = x.generation + 1
    BY <1>2, SettingGrows
  <2> QED BY <1>2, <2>1 DEF RecordType, RecordOK
<1>3. CASE \E k \in Keys : SetQueryData(k)
  <2>1. PICK k \in Keys : SetQueryData(k)
    BY <1>3
  <2>2. GetRecord(k) /\ Put(RecordOf(k), Setting(Record(k))) /\ RecordOf(k) \in Ids
    BY <2>1 DEF SetQueryData, GetRecord
  <2>3. Record(k) \in RecordType /\ RecordOK(Record(k)) /\ Grows(Record(k), Setting(Record(k)))
    BY <2>2, RecordIsOK, SettingGrows
  <2>4. Writes({k}) /\ records'[RecordOf(k)] = Setting(Record(k))
    BY <2>2, <2>3, PutWrites
  <2> QED BY <1>2, <2>3, <2>4, WrittenForward DEF Forward
<1>4. CASE \E k \in Keys, b \in BOOLEAN : FetchQuery(k, b) \/ PrefetchQuery(k, b)
  <2>1. PICK k \in Keys : GetRecord(k) /\ Put(RecordOf(k), Starting(Record(k)))
    BY <1>4 DEF FetchQuery, PrefetchQuery
  <2>2. RecordOf(k) \in Ids
    BY <2>1 DEF GetRecord
  <2>3. /\ Record(k) \in RecordType /\ Grows(Record(k), Starting(Record(k)))
        /\ Starting(Record(k)).data = Record(k).data
    BY <2>2, RecordIsOK, StartingGrows
  <2>4. Writes({k}) /\ records'[RecordOf(k)] = Starting(Record(k))
    BY <2>1, <2>3, PutWrites
  <2>5. Starting(Record(k)).data >= Record(k).data
    BY <2>3 DEF RecordType
  <2> QED BY <2>4, <2>5, WrittenForward DEF Forward
<1>5. CASE \E ks \in SUBSET Keys : Hydrate(ks)
  <2>1. PICK ks \in SUBSET Keys : Hydrate(ks)
    BY <1>5
  <2>2. Writes(ks) /\ \A k \in ks : records'[RecordOf(k)] = Setting(Record(k))
    BY <2>1, HydrateWrites
  <2>3. \A k \in ks : Record(k) \in RecordType /\ RecordOK(Record(k))
    BY <2>2, RecordsWritten
  <2> QED BY <1>2, <2>2, <2>3, WrittenForward DEF Forward
<1>6. CASE \E prefix \in Filters : InvalidateQueries(prefix)
  <2>1. PICK prefix \in Filters : InvalidateQueries(prefix)
    BY <1>6
  <2>2. \A r \in Matching(prefix) : [records[r] EXCEPT !.invalidated = TRUE].data = records[r].data
    BY MatchingMade, FlagsGrow
  <2> QED BY <1>1, <2>1, <2>2 DEF InvalidateQueries, Forward
<1>7. CASE \E prefix \in Filters : CancelQueries(prefix)
  <2>1. PICK prefix \in Filters : CancelQueries(prefix)
    BY <1>7
  <2>2. \A r \in Matching(prefix) : Cancelling(records[r]).data = records[r].data
    BY MatchingMade, CancellingGrows
  <2> QED BY <1>1, <2>1, <2>2 DEF CancelQueries, Forward
<1>8. CASE Clear
  <2>1. \A r \in Ids : [Cancelling(records[r]) EXCEPT !.gc = FALSE].data = records[r].data
    BY ClearedGrows DEF QueryInv, RecordsPart, RecordsOK
  <2> QED BY <1>1, <1>8, <2>1 DEF Clear, Forward
<1> QED BY <1>3, <1>4, <1>5, <1>6, <1>7, <1>8 DEF RecordCall, ClearClient, DisposeClient

LEMMA RecordEventForward == QueryInv /\ RecordEvent => Forward
<1> SUFFICES ASSUME QueryInv, RecordEvent PROVE Forward
  OBVIOUS
<1>1. /\ records \in [Ids -> RecordType]
      /\ \A r \in Ids : records[r] \in RecordType /\ RecordOK(records[r]) /\ records[r].data \in Nat
  BY DEF QueryInv, RecordsPart, RecordsOK, RecordType
<1>2. PICK r \in Ids : (\E f \in records[r].fetches : FetchResolves(r, f) \/ FetchRejects(r, f))
                       \/ CollectTimer(r)
  BY DEF RecordEvent
<1>3. PICK y : records' = [records EXCEPT ![r] = y] /\ y.data >= records[r].data
  <2>1. CASE \E f \in records[r].fetches : FetchResolves(r, f)
    BY <1>1, <2>1, ResolvedGrows DEF FetchResolves, Put
  <2>2. CASE \E f \in records[r].fetches : FetchRejects(r, f)
    <3>1. PICK f \in records[r].fetches : FetchRejects(r, f)
      BY <2>2
    <3> DEFINE y == IF Current(records[r], f)
                    THEN [records[r] EXCEPT !.status = "error", !.fetching = FALSE]
                    ELSE IF f.gen = records[r].generation THEN [records[r] EXCEPT !.fetching = FALSE]
                    ELSE records[r]
    <3>2. records' = [records EXCEPT ![r] = Landed(y, f)]
      BY <3>1 DEF FetchRejects, Put
    <3>3. Landed(y, f).data = records[r].data
      BY <1>1, RejectedGrows
    <3> HIDE DEF y
    <3>4. records[r].data >= records[r].data
      BY <1>1
    <3> QED BY <3>2, <3>3, <3>4, Zenon
  <2>3. CASE CollectTimer(r)
    <3>1. records' = [records EXCEPT ![r] = [records[r] EXCEPT !.gc = FALSE]]
      BY <2>3 DEF CollectTimer
    <3> DEFINE z == [records[r] EXCEPT !.gc = FALSE]
    <3>2. z.data = records[r].data
      BY <1>1, FlagsGrow
    <3>3. records' = [records EXCEPT ![r] = z]
      BY <3>1
    <3> HIDE DEF z
    <3>4. records[r].data >= records[r].data
      BY <1>1
    <3> QED BY <3>2, <3>3, <3>4, Zenon
  <2> QED BY <1>2, <2>1, <2>2, <2>3
<1> QED BY <1>1, <1>3 DEF Forward

LEMMA HandleCallForward == QueryInv /\ HandleCall => Forward
<1> SUFFICES ASSUME QueryInv, HandleCall PROVE Forward
  OBVIOUS
<1>1. \A r \in Ids : records[r] \in RecordType /\ records[r].data \in Nat
  BY DEF QueryInv, RecordsPart, RecordType
<1>2. CASE \E h \in Handles : DisposeHandle(h)
  <2>1. PICK h \in Handles : DisposeHandle(h)
    BY <1>2
  <2>2. PICK b : records' = [records EXCEPT ![handles[h]].gc = b]
    BY <2>1, Zenon DEF DisposeHandle
  <2>3. records \in [Ids -> RecordType]
    BY DEF QueryInv, RecordsPart
  <2>4. \A r \in Ids : records'[r].data = records[r].data
    BY <2>2, <2>3 DEF RecordType
  <2> QED BY <1>1, <2>4 DEF Forward
<1>3. CASE \E h \in Handles, k \in Keys : Observe(h, k)
  <2>1. PICK k \in Keys : GetRecord(k) /\ Put(RecordOf(k), Subscribed(Record(k)))
    BY <1>3 DEF Observe
  <2>2. RecordOf(k) \in Ids
    BY <2>1 DEF GetRecord
  <2>3. /\ Record(k) \in RecordType /\ Grows(Record(k), Subscribed(Record(k)))
        /\ Subscribed(Record(k)).data = Record(k).data
    BY <2>2, RecordIsOK, FlagsGrow DEF Subscribed
  <2>4. Writes({k}) /\ records'[RecordOf(k)] = Subscribed(Record(k))
    BY <2>1, <2>3, PutWrites
  <2>5. Subscribed(Record(k)).data >= Record(k).data
    BY <2>3 DEF RecordType
  <2> QED BY <2>4, <2>5, WrittenForward DEF Forward
<1> QED BY <1>2, <1>3 DEF HandleCall

LEMMA MutateForward ==
    ASSUME QueryInv, NEW e \in Executions, NEW k \in Keys, Mutate(e, k)
    PROVE  Forward /\ \A d \in Executions :
                          executions'[d].phase = "failing" => executions[d].phase = "failing"
<1> DEFINE es == AbortActive(executions)
           call == [phase |-> "sending", aborted |-> FALSE, record |-> RecordOf(k),
                    gen |-> Setting(Record(k)).generation, previous |-> Record(k).data]
<1>1. /\ GetRecord(k) /\ Put(RecordOf(k), Setting(Record(k))) /\ RecordOf(k) \in Ids
      /\ executions' = [es EXCEPT ![e] = call]
  BY DEF Mutate, GetRecord
<1>2. /\ Record(k) \in RecordType /\ RecordOK(Record(k)) /\ Grows(Record(k), Setting(Record(k)))
      /\ Setting(Record(k)).data = Record(k).generation + 1
  BY <1>1, RecordIsOK, SettingGrows
<1>3. Writes({k}) /\ records'[RecordOf(k)] = Setting(Record(k))
  BY <1>1, <1>2, PutWrites
<1>4. Setting(Record(k)).data >= Record(k).data
  BY <1>2 DEF RecordType, RecordOK
<1>5. Forward
  BY <1>3, <1>4, WrittenForward DEF Forward
<1>6. call.phase = "sending"
  OBVIOUS
<1>7. es \in [Executions -> ExecutionType]
      /\ \A d \in Executions : es[d].phase = executions[d].phase
  BY AllAreTold
<1> HIDE DEF es, call
<1> QED BY <1>1, <1>5, <1>6, <1>7

(* No step of the client starts to fail a call except Failed, and every    *)
(* other step leaves data that is as late or later.                        *)
LEMMA StepsGoForward ==
    ASSUME QueryInv, QNext, \A e \in Executions : ~Failed(e)
    PROVE  Forward /\ \A e \in Executions :
                          executions'[e].phase = "failing" => executions[e].phase = "failing"
<1>0. \A r \in Ids : records[r].data \in Nat
  BY DEF QueryInv, RecordsPart, RecordType
<1>1. CASE RecordCall
  <2>1. executions' = executions
    BY <1>1 DEF RecordCall, SetQueryData, FetchQuery, PrefetchQuery, Hydrate, InvalidateQueries,
                CancelQueries, ClearClient, DisposeClient
  <2> QED BY <1>1, <2>1, RecordCallForward
<1>2. CASE RecordEvent
  <2>1. executions' = executions
    BY <1>2 DEF RecordEvent, FetchResolves, FetchRejects, CollectTimer
  <2> QED BY <1>2, <2>1, RecordEventForward
<1>3. CASE HandleCall
  <2>1. executions' = executions
    BY <1>3 DEF HandleCall, Observe, DisposeHandle
  <2> QED BY <1>3, <2>1, HandleCallForward
<1>4. CASE \E e \in Executions, k \in Keys : Mutate(e, k)
  BY <1>4, MutateForward
<1>5. CASE \E e \in Executions : AnswerIgnored(e) \/ Settled(e)
  <2>1. PICK e \in Executions : Over(e) /\ records' = records
    BY <1>5 DEF AnswerIgnored, Settled
  <2>2. \A d \in Executions : executions'[d].phase = "failing" => executions[d].phase = "failing"
    BY <2>1, CallIsOver, MutationHas DEF Over
  <2> QED BY <1>0, <2>1, <2>2 DEF Forward
<1>6. CASE \E e \in Executions : Accepted(e)
  <2>1. PICK e \in Executions : Accepted(e)
    BY <1>6
  <2>2. executions' = [executions EXCEPT ![e].phase = "confirming"]
    BY <2>1 DEF Accepted
  <2>3. \A d \in Executions : executions'[d].phase = "failing" => executions[d].phase = "failing"
    BY <2>2, MutationHas DEF ExecutionType
  <2> QED BY <2>1, <2>3, AcceptedInv DEF Forward
<1>7. CASE CancelMutation \/ DisposeMutation
  <2>1. records' = records /\ executions' = AbortActive(executions)
    BY <1>7 DEF CancelMutation, DisposeMutation
  <2> QED BY <1>0, <2>1, AllAreTold DEF Forward
<1> QED BY <1>1, <1>2, <1>3, <1>4, <1>5, <1>6, <1>7 DEF QNext, MutationStep

(* The two formulas of NothingComesLate, of one step.                      *)
NeverBack ==
    \A r \in Ids :
        \/ records'[r].data >= records[r].data
        \/ \E e \in Executions : executions[e].record = r /\ executions[e].phase # "failing"
                                   /\ executions'[e].phase = "failing"

TakesOwn ==
    \A e \in Executions :
        LET r == executions[e].record
        IN  executions[e].phase # "failing" /\ executions'[e].phase = "failing"
                /\ records'[r] # records[r] =>
            records[r].data = executions[e].gen

LEMMA StepNeverLate == QueryInv /\ [QNext]_qvars => [NeverBack]_qvars /\ [TakesOwn]_qvars
<1> SUFFICES ASSUME QueryInv, QNext PROVE NeverBack /\ TakesOwn
  OBVIOUS
<1>0. \A r \in Ids : records[r].data \in Nat
  BY DEF QueryInv, RecordsPart, RecordType
<1>1. CASE \A e \in Executions : ~Failed(e)
  BY <1>1, StepsGoForward DEF Forward, NeverBack, TakesOwn
<1>2. CASE \E e \in Executions : Failed(e)
  <2>1. PICK e \in Executions : Failed(e)
    BY <1>2
  <2>2. /\ executions[e].phase # "failing" /\ executions'[e].phase = "failing"
        /\ \A d \in Executions : d # e => executions'[d] = executions[d]
        /\ \A r \in Ids : r # executions[e].record => records'[r] = records[r]
        /\ records'[executions[e].record] # records[executions[e].record] =>
              records[executions[e].record].data = executions[e].gen
    BY <2>1, FailedInv
  <2>3. NeverBack
    BY <1>0, <2>2 DEF NeverBack
  <2>4. TakesOwn
    BY <2>2 DEF TakesOwn
  <2> QED BY <2>3, <2>4
<1> QED BY <1>1, <1>2

(* Whatever answers when, the data of a record is never replaced by what   *)
(* an older call has found, and a rollback takes back the optimistic data  *)
(* of its own call and nothing written after it (query-record.ts,          *)
(* mutation-record.ts).                                                    *)
THEOREM NothingEverComesLate == QSpec => NothingComesLate
<1>1. QSpec => [][NeverBack]_qvars /\ [][TakesOwn]_qvars
  BY QueryInvariance, StepNeverLate, PTL DEF QSpec
<1> QED BY <1>1, PTL DEF NothingComesLate, LateNeverWins, RollbackTakesOwn, NeverBack, TakesOwn
=============================================================================
