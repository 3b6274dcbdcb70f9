---------------------------- MODULE Installer ----------------------------
(***************************************************************************)
(* The commands that write source files into a project: the research       *)
(* installer of registry items (research/source-distribution,              *)
(* research/registry/lockfile.ts) and the shipped `vii init` and           *)
(* `vii add state` (packages/cli-core).  Each await of the code ends a     *)
(* step, so a user's edits, a second run of the command and a crash fall   *)
(* between any two of them.                                                *)
(***************************************************************************)
EXTENDS Naturals, FiniteSets, FiniteSetsExt

CONSTANTS
  Runs,       \* runs of the command, one process each
  Files,      \* the item's files in the order of its manifest: 1..n
  Old,        \* an item the lock file records already
  MaxEdits    \* bound: edits of the user

ASSUME InstallerAssumption ==
  /\ Files \subseteq Nat \ {0} /\ Files # {}
  /\ Old \notin Runs /\ "user" \notin Runs
  /\ MaxEdits \in Nat

Commands == {"ui add", "init", "add state"}

\* Contents of a path: nothing, what the command writes, the first bytes of it,
\* something of the user's, or a symbolic link.
Contents == {"missing", "source", "torn", "local", "link"}

VARIABLES
  command,   \* the command every run is a run of
  disk,      \* the content of each target
  author,    \* the run that wrote a target's content, or "user"
  folder,    \* what `src` is: "directory", "missing" or "other"
  lockText,  \* vii.lock: "absent", "empty" (or cut short to nothing), "broken", "items"
  recorded,  \* the items vii.lock records
  run,       \* per run its locals, below
  edits

installerVars == <<command, disk, author, folder, lockText, recorded, run, edits>>

\* Only an item has several files; the other commands have one target each.
Targets == IF command = "ui add" THEN Files ELSE {Min(Files)}

Fresh == [at |-> "start",      \* where the run stands
          dry |-> FALSE,       \* options.dryRun
          left |-> {},         \* targets the loop at hand has not reached
          plan |-> {},         \* targets planned with action "create"
          conflicts |-> FALSE, \* whether there are any
          created |-> {},      \* createdPaths
          unlinks |-> 0,       \* rollbacks still to come after this one
          stuck |-> {},        \* targets whose removal failed
          read |-> {},         \* the items of the lock it read
          result |-> "none"]   \* report.status, or "threw"

InstallerInit ==
  /\ command \in Commands
  /\ disk \in [Targets -> Contents \ {"torn"}]
  /\ author = [f \in Targets |-> "user"]
  /\ folder \in IF command = "add state" THEN {"directory", "missing", "other"} ELSE {"directory"}
  /\ IF command = "ui add"
     THEN \/ lockText \in {"absent", "empty", "broken"} /\ recorded = {}
          \/ lockText = "items" /\ recorded = {Old}
     ELSE lockText = "absent" /\ recorded = {}
  /\ run = [r \in Runs |-> Fresh]
  /\ edits = 0

Files_ == <<disk, author, folder>>
Lock_ == <<lockText, recorded>>

At(r, place) == run[r].at = place
Put(r, local) == run' = [run EXCEPT ![r] = local]

\* A run that is over keeps none of its locals; stuck is kept to judge it by.
EndsAs(local, result) == [Fresh EXCEPT !.at = "ended", !.result = result, !.stuck = local.stuck]

Writes(f, content, who) ==
  /\ disk' = [disk EXCEPT ![f] = content]
  /\ author' = [author EXCEPT ![f] = who]
  /\ UNCHANGED folder

\* The manifest and the payloads (the detected project) are judged before any
\* path is looked at: a bad manifest throws, a payload that is missing or does
\* not match its hash (a framework that is not clear) is a conflict.
Start(r) ==
  /\ At(r, "start")
  /\ \E dry \in BOOLEAN, input \in {"bad", "conflict", "good"} :
       LET local == [Fresh EXCEPT !.dry = dry, !.left = Targets]
       IN Put(r, CASE input = "bad" -> EndsAs(local, "threw")
                   [] input = "conflict" /\ command = "ui add" -> EndsAs(local, "blocked")
                   [] OTHER -> [local EXCEPT !.at = "inspect", !.conflicts = input = "conflict"])
  /\ UNCHANGED <<command, Files_, Lock_, edits>>

\* inspectDestination, inspectExistingFile: a link is never followed.
Inspection(f) ==
  CASE disk[f] = "missing" -> "missing"
    [] disk[f] = "source" -> "same"
    [] disk[f] = "link" -> "symlink"
    [] OTHER -> "different"

\* One turn of the loop that plans.  A read that fails is "different".
Inspect(r) ==
  LET f == Min(run[r].left)
  IN /\ At(r, "inspect") /\ run[r].left # {}
     /\ \E found \in {Inspection(f), "different"} :
          Put(r, [run[r] EXCEPT !.left = @ \ {f},
                                !.plan = IF found = "missing" THEN @ \union {f} ELSE @,
                                !.conflicts = @ \/ found \in {"different", "symlink"}])
     /\ UNCHANGED <<command, Files_, Lock_, edits>>

\* `vii add state` also looks at `src`; a folder that is no directory is a
\* conflict.
InspectFolder(r) ==
  /\ At(r, "inspect") /\ run[r].left = {} /\ command = "add state"
  /\ Put(r, [run[r] EXCEPT !.at = "plan", !.conflicts = @ \/ folder # "directory"])
  /\ UNCHANGED <<command, Files_, Lock_, edits>>

\* What is planned is applied when there is no conflict, this is no dry run and
\* there is something to create.
Decide(r) ==
  LET local == run[r]
  IN /\ \/ At(r, "plan")
        \/ At(r, "inspect") /\ local.left = {} /\ command # "add state"
     /\ Put(r, CASE local.conflicts -> EndsAs(local, "blocked")
                 [] local.dry -> EndsAs(local, "dry-run")
                 [] local.plan = {} -> EndsAs(local, "unchanged")
                 [] OTHER -> [local EXCEPT !.left = local.plan,
                                           !.at = IF command = "add state" THEN "folder" ELSE "create"])
     /\ UNCHANGED <<command, Files_, Lock_, edits>>

\* realpath and lstat before the write: a folder that is no plain directory any
\* more is an error.
CheckFolder(r) ==
  /\ At(r, "folder")
  /\ Put(r, IF folder = "directory" THEN [run[r] EXCEPT !.at = "create"]
            ELSE EndsAs(run[r], "threw"))
  /\ UNCHANGED <<command, Files_, Lock_, edits>>

\* An error of the apply phase.  The item's installer rolls back: twice when a
\* file could not be written, since applyFilePlan and installSourceItem both
\* walk createdPaths, once when the lock could not be.
\* FailedInnerOnly, mutated: only the loop that writes the files undoes them.
FailedInnerOnly(local, times) ==
  IF command = "ui add" /\ times = 2
  THEN [local EXCEPT !.at = "rollback", !.left = local.created, !.unlinks = 0]
  ELSE EndsAs(local, "threw")
Failed(local, times) ==
  IF command = "ui add"
  THEN [local EXCEPT !.at = "rollback", !.left = local.created, !.unlinks = times - 1]
  ELSE EndsAs(local, "threw")

\* writeFile with flag "wx" opens the file only when the path holds nothing, not
\* even a link ...
MayOpenAny(f) == folder = "directory"  \* mutated: flag "w"
MayOpen(f) == disk[f] = "missing" /\ folder = "directory"

Open(r) ==
  LET f == Min(run[r].left)
  IN /\ At(r, "create") /\ run[r].left # {} /\ MayOpen(f)
     /\ Writes(f, "torn", r)
     /\ Put(r, [run[r] EXCEPT !.at = "fill"])
     /\ UNCHANGED <<command, Lock_, edits>>

\* ... and then writes its content.
Fill(r) ==
  LET f == Min(run[r].left)
  IN /\ At(r, "fill")
     /\ IF disk[f] = "torn" /\ author[f] = r THEN Writes(f, "source", r) ELSE UNCHANGED Files_
     /\ Put(r, [run[r] EXCEPT !.at = "create", !.left = @ \ {f}, !.created = @ \union {f}])
     /\ UNCHANGED <<command, Lock_, edits>>

\* The path is taken, or the disk refuses: a file that was opened stays as it is
\* and is in no list of created paths.
WriteFails(r) ==
  /\ \/ At(r, "create") /\ run[r].left # {}
     \/ At(r, "fill")
  /\ Put(r, Failed(run[r], 2))
  /\ UNCHANGED <<command, Files_, Lock_, edits>>

\* After the files the item is recorded; the other commands are done.
Written(r) ==
  /\ At(r, "create") /\ run[r].left = {}
  /\ Put(r, IF command = "ui add" THEN [run[r] EXCEPT !.at = "lock"] ELSE EndsAs(run[r], "applied"))
  /\ UNCHANGED <<command, Files_, Lock_, edits>>

\* updateProjectLockfile reads the lock file; none and an empty one hold no
\* items, a broken one or one that cannot be read is an error.
ReadLock(r) ==
  /\ At(r, "lock")
  /\ \/ lockText # "broken" /\ Put(r, [run[r] EXCEPT !.at = "truncate", !.read = recorded])
     \/ Put(r, Failed(run[r], 1))
  /\ UNCHANGED <<command, Files_, Lock_, edits>>

\* writeFile of the lock file truncates it first ...
Truncate(r) ==
  /\ At(r, "truncate")
  /\ Put(r, [run[r] EXCEPT !.at = "record"])
  /\ lockText' = "empty" /\ recorded' = {}
  /\ UNCHANGED <<command, Files_, edits>>

\* ... then writes every item read and this one, and the run is done.
Record(r) ==
  /\ At(r, "record")
  /\ Put(r, EndsAs(run[r], "applied"))
  /\ lockText' = "items" /\ recorded' = run[r].read \union {r}
  /\ UNCHANGED <<command, Files_, edits>>

RecordFails(r) ==
  /\ At(r, "truncate") \/ At(r, "record")
  /\ Put(r, Failed(run[r], 1))
  /\ IF At(r, "record") THEN lockText' \in {"empty", "broken"} /\ UNCHANGED recorded
                        ELSE UNCHANGED Lock_
  /\ UNCHANGED <<command, Files_, edits>>

\* A rollback unlinks the created paths one by one and minds no error; the path
\* is removed whatever it holds by now.
Unlink(r) ==
  LET f == Min(run[r].left)
  IN /\ At(r, "rollback") /\ run[r].left # {}
     /\ \/ disk[f] # "missing" /\ Writes(f, "missing", "user")
           /\ Put(r, [run[r] EXCEPT !.left = @ \ {f}])
        \/ UNCHANGED Files_
           /\ Put(r, [run[r] EXCEPT !.left = @ \ {f},
                                    !.stuck = IF disk[f] = "missing" THEN @ ELSE @ \union {f}])
     /\ UNCHANGED <<command, Lock_, edits>>

RolledBack(r) ==
  /\ At(r, "rollback") /\ run[r].left = {}
  /\ Put(r, IF run[r].unlinks > 0
            THEN [run[r] EXCEPT !.unlinks = @ - 1, !.left = run[r].created]
            ELSE EndsAs(run[r], "threw"))
  /\ UNCHANGED <<command, Files_, Lock_, edits>>

\* The process is killed; another run may follow.
Crash(r) ==
  /\ ~ At(r, "start") /\ ~ At(r, "ended") /\ ~ At(r, "crashed")
  /\ Put(r, [Fresh EXCEPT !.at = "crashed"])
  /\ UNCHANGED <<command, Files_, Lock_, edits>>

\* The user writes, links, restores or removes a target no run is writing.
UserEdits(f, content) ==
  /\ edits < MaxEdits /\ edits' = edits + 1
  /\ disk[f] # content
  /\ \A r \in Runs : ~ (At(r, "fill") /\ f = Min(run[r].left))
  /\ Writes(f, content, "user")
  /\ UNCHANGED <<command, Lock_, run>>

\* The user makes `src`, or removes it while it is empty.
UserFolder ==
  /\ command = "add state" /\ edits < MaxEdits /\ edits' = edits + 1
  /\ \A f \in Targets : disk[f] = "missing"
  /\ folder' = IF folder = "directory" THEN "missing" ELSE "directory"
  /\ UNCHANGED <<command, disk, author, Lock_, run>>

\* The user takes an item out of the lock file (detachRegistryItem): its files
\* stay, and an item that is not there is an error.
Detach(i) ==
  /\ command = "ui add" /\ edits < MaxEdits /\ edits' = edits + 1
  /\ lockText = "items" /\ i \in recorded
  /\ recorded' = recorded \ {i}
  /\ UNCHANGED <<command, Files_, lockText, run>>

InstallerNext ==
  \/ \E r \in Runs :
       \/ Start(r) \/ Inspect(r) \/ InspectFolder(r) \/ Decide(r) \/ CheckFolder(r)
       \/ Open(r) \/ Fill(r) \/ WriteFails(r) \/ Written(r)
       \/ ReadLock(r) \/ Truncate(r) \/ Record(r) \/ RecordFails(r)
       \/ Unlink(r) \/ RolledBack(r) \/ Crash(r)
  \/ \E f \in Targets, content \in Contents \ {"torn"} : UserEdits(f, content)
  \/ UserFolder
  \/ \E i \in Runs \union {Old} : Detach(i)

InstallerSpec == InstallerInit /\ [][InstallerNext]_installerVars

(***************************************************************************)
(* Properties                                                              *)
(***************************************************************************)

\* A run that fails leaves none of the files it wrote whole, save those the
\* system would not remove, and a run that reports "blocked", "dry-run" or
\* "unchanged" wrote nothing (source-installer.ts:70-84).
FailedLeavesNothing ==
  \A r \in Runs : At(r, "ended") =>
    \A f \in Targets :
      author[f] = r /\ disk[f] = "source" =>
        \/ run[r].result = "applied"
        \/ run[r].result = "threw" /\ f \in run[r].stuck

\* Whatever the inspection saw and the user did since, a run writes only where
\* there is nothing and removes only what it, or someone in its place, put at a
\* path it created (source-installer.ts:217, init-project.ts:34,
\* add-state.ts:49).
NeverOverwrites ==
  [][\A f \in DOMAIN disk : disk'[f] # disk[f] /\ edits' = edits =>
       \/ disk[f] = "missing"
       \/ disk[f] = "torn" /\ author[f] \in Runs /\ disk'[f] = "source"
       \/ disk'[f] = "missing" /\ \E r \in Runs : f \in run[r].created]_installerVars

\* Both directions of a failure: nothing of the installer's stays, nothing of the
\* user's goes.
InstallsWhole == []FailedLeavesNothing /\ NeverOverwrites
=============================================================================
