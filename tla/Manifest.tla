---------------------------- MODULE Manifest ----------------------------
(***************************************************************************)
(* What the source registry accepts as a manifest                          *)
(* (research/registry/manifest-validator.ts): a manifest is read from the  *)
(* outside, its head is judged, then each file entry in turn.  A path is   *)
(* the sequence of its segments between slashes, so <<"", "dir">> is the   *)
(* absolute path "/dir" and <<"dir", "">> is "dir/".                       *)
(***************************************************************************)
EXTENDS Integers, Sequences, SequencesExt

CONSTANTS
  Segments,     \* the segments paths are made of
  MaxSegments,  \* how many segments the longest path has
  MaxEntries,   \* how many file entries a manifest has
  Roots         \* options.allowedRoots: a set of paths, {} for no such option

ASSUME ManifestAssumption == MaxSegments \in Nat /\ MaxEntries \in Nat \ {0}

VARIABLES
  asked,     \* the targets of the accepted entries, as they were spelled
  accepted,  \* validatedFiles: the cleaned sources and targets
  verdict    \* "reading", "valid" or the code of the ManifestValidationError

manifestVars == <<asked, accepted, verdict>>

Paths == SeqOf(Segments, MaxSegments) \ {<<>>}

Climbing == {"..", "%2e%2e"}
Hidden == {".env", "..", "."}
Toolchain == {"package.json", "tsconfig.json", "vite.config.ts"}
Executables == {"run.sh"}

Absolute(p) == p[1] = "C:" \/ (p[1] = "" /\ Len(p) > 1)

\* Mutant: the path is kept as it is spelled.
CleanedNot(p) == p

Kept(kept, s) == IF s \in {"", "."} THEN kept ELSE Append(kept, s)
Cleaned(p) == FoldLeft(Kept, <<>>, p)

\* The first rule of containment the path breaks, or "" for a path that stays
\* below the directory it is resolved against.
Containment(p) ==
  CASE p = <<"">> -> "EMPTY_PATH"
    [] Absolute(p) -> "ABSOLUTE_PATH"
    [] \E k \in DOMAIN p : p[k] \in Climbing -> "PATH_TRAVERSAL"
    [] Cleaned(p) = <<>> -> "EMPTY_PATH"
    [] OTHER -> ""

Within(roots, p) == roots = {} \/ \E r \in roots : IsPrefix(r, p)

\* The first rule for a destination a contained path breaks, or "".
Destination(p) ==
  CASE \E k \in DOMAIN p : p[k] \in Hidden -> "FORBIDDEN_ROOT_DOTPATH"
    [] \E k \in DOMAIN p : p[k] = "node_modules" -> "FORBIDDEN_NODE_MODULES"
    [] Last(p) \in Toolchain -> "FORBIDDEN_CONFIG_FILE"
    [] ~ Within(Roots, p) -> "DISALLOWED_ROOT"
    [] Last(p) \in Executables -> "EXECUTABLE_REJECTED"
    [] OTHER -> ""

SanitizePath(p) ==
  IF Containment(p) # "" THEN Containment(p) ELSE Destination(Cleaned(p))

\* The targets of the entries accepted before.
SeenTargets == {accepted[k].target : k \in DOMAIN accepted}

\* What validateFileEntry answers: sources are only contained, targets are also
\* judged as places to write to.
EntryVerdict(source, target, executable, integrity) ==
  CASE executable -> "EXECUTABLE_REJECTED"
    [] Containment(source) # "" -> Containment(source)
    [] SanitizePath(target) # "" -> SanitizePath(target)
    [] Cleaned(target) \in SeenTargets -> "DUPLICATE_DESTINATION"
    [] ~ integrity -> "INVALID_INTEGRITY"
    [] OTHER -> "reading"

ManifestInit == asked = <<>> /\ accepted = <<>> /\ verdict = "head"

\* The fields before the files: nesting and keys, version, name, type, target,
\* mode, and a list of files that is not empty.
ValidateHead ==
  /\ verdict = "head"
  /\ verdict' \in {"reading", "DEPTH_LIMIT_EXCEEDED", "INVALID_MANIFEST", "EMPTY_FILES"}
  /\ UNCHANGED <<asked, accepted>>

ValidateFileEntry(source, target, executable, integrity) ==
  LET answer == EntryVerdict(source, target, executable, integrity)
  IN /\ verdict = "reading" /\ Len(asked) < MaxEntries
     /\ verdict' = answer
     /\ IF answer = "reading"
        THEN /\ asked' = Append(asked, target)
             /\ accepted' = Append(accepted, [source |-> Cleaned(source), target |-> Cleaned(target)])
        ELSE UNCHANGED <<asked, accepted>>

Accept ==
  /\ verdict = "reading" /\ asked # <<>>
  /\ verdict' = "valid"
  /\ UNCHANGED <<asked, accepted>>

ManifestNext ==
  \/ ValidateHead
  \/ \E target \in Paths : ValidateFileEntry(<<"file">>, target, FALSE, TRUE)
  \/ \E s \in Segments, executable, integrity \in BOOLEAN :
       ValidateFileEntry(<<s>>, <<"dir", "file">>, executable, integrity)
  \/ Accept

ManifestSpec == ManifestInit /\ [][ManifestNext]_manifestVars

\* Reference: where a path leads, climbing with ".." and stopping at nothing.
\* The depth may go below zero, which is outside of the project.
Onward(at, s) ==
  IF s = ".." THEN [at EXCEPT !.depth = @ - 1, !.low = @ \/ at.depth = 0]
  ELSE IF s \in {"", "."} THEN at
  ELSE [at EXCEPT !.depth = @ + 1, !.place = Append(@, s)]
Walk(p) == FoldLeft(Onward, [depth |-> 0, low |-> FALSE, place |-> <<>>], p)

\* Every entry of a valid manifest is written to a place of its own, below the
\* project and one of its allowed roots, however the paths were spelled, and
\* the plan keeps the place the manifest asked for (the duplicate rule compares
\* cleaned targets: manifest-validator.ts:216).
TargetsAreApart ==
  verdict = "valid" =>
    /\ Len(accepted) = Len(asked)
    /\ \A k \in DOMAIN asked :
         /\ accepted[k].target = Walk(asked[k]).place /\ ~ Walk(asked[k]).low
         /\ Within(Roots, accepted[k].target)
         /\ SanitizePath(accepted[k].target) = ""
    /\ \A j, k \in DOMAIN asked : Walk(asked[j]).place = Walk(asked[k]).place => j = k
=============================================================================
