--------------------------- MODULE Research_proofs ---------------------------
(***************************************************************************)
(* Proofs about one call of the HTTP client (HttpClient), about the        *)
(* commands that write files into a project (Installer), about a           *)
(* subscription to a flow (Flow) and about what the source registry        *)
(* accepts as a manifest (Manifest).                                       *)
(***************************************************************************)
EXTENDS HttpClient, Installer, Flow, Manifest, FiniteSetTheorems, SequenceTheorems,
        WellFoundedInduction, TLAPS

-----------------------------------------------------------------------------
(* Of the natural numbers of a set one is the least: strict inclusion of   *)
(* intervals is well-founded.                                              *)
LEMMA MinIsLeast ==
    ASSUME NEW T, T \subseteq Nat, T # {}
    PROVE  Min(T) \in T /\ \A m \in T : Min(T) <= m
<1> DEFINE U == {0..n : n \in T}
           R == StrictSubsetOrdering(Nat)
           S == FiniteSubsetsOf(Nat)
<1>1. IsWellFoundedOn(R, S)
  BY FS_StrictSubsetOrderingWellFounded
<1>2. U \subseteq S /\ U # {}
  <2>1. ASSUME NEW n \in T PROVE 0..n \in S
    <3>1. 0..n \subseteq Nat
      BY SMT
    <3>2. IsFiniteSet(0..n)
      BY FS_Interval
    <3> QED BY <3>1, <3>2 DEF FiniteSubsetsOf
  <2> QED BY <2>1
<1>3. PICK u \in U : \A v \in U : ~(<<v, u>> \in R)
  <2> HIDE DEF U, R, S
  <2> QED BY <1>1, <1>2, WFMin
<1>4. PICK n \in T : u = 0..n
  OBVIOUS
<1>5. ASSUME NEW m \in T, m < n PROVE FALSE
  <2>1. 0..m \subseteq 0..n /\ 0..m # 0..n /\ 0..n \subseteq Nat
    BY <1>5, SMT
  <2>2. <<0..m, 0..n>> \in R
    BY <2>1 DEF StrictSubsetOrdering
  <2> QED BY <1>3, <1>4, <2>2
<1>6. \E k \in T : \A m \in T : k <= m
  BY <1>5, SMT
<1> QED BY <1>6 DEF Min

-----------------------------------------------------------------------------
(* One call of the HTTP client.                                            *)

HopType ==
    [number : 0 .. MaxRedirects, method : {"GET", "POST"}, body : {"none", "text", "stream"},
     origin : Origins, credentials : BOOLEAN]

Errors == {"network", "thrown"} \cup Reasons

CallType ==
    /\ config \in ConfigType
    /\ at \in {"start", "attempt", "fetching", "judging", "sleeping", "reading", "done"}
    /\ hop \in HopType
    /\ attempt \in Nat
    /\ open \in Int
    /\ at = "judging" => subject \in Statuses \cup Errors
    /\ DOMAIN source = {"user", "timeout", "scope"}
    /\ active \in Reasons \cup {"no"}
    /\ sent \in Seq(Nat) /\ Len(sent) = hop.number + 1
    /\ outcome # "none" <=> at = "done"

(* How often a hop may send its request.                                   *)
Allowance == IF hop.method = "POST" \/ ~config.retry THEN 1 ELSE MaxRetries + 1
Tries == sent[hop.number + 1]

(* What was sent is what was attempted, and another attempt begins only    *)
(* while one is left.  A stream is of the first hop, and is not sent at all*)
(* under a retry policy.                                                   *)
TriesCounted ==
    /\ at \notin {"reading", "done"} => Tries = attempt
    /\ at \in {"start", "attempt", "sleeping"} => attempt < Allowance
    /\ Tries <= Allowance
    /\ hop.body = "stream" =>
        /\ hop.number = 0
        /\ config.retry => Tries = 0 /\ at \in {"start", "attempt", "done"}

(* A hop with credentials is at home.                                      *)
CredentialsAtHome == hop.credentials => hop.origin = Home

(* A failure that is an abort is that of the signal the requests have.     *)
AbortKnown ==
    /\ at = "judging" /\ subject \in Reasons => subject = active
    /\ outcome \in Reasons => outcome = active

(* Nothing is bound before the call begins.                                *)
StartsFree ==
    at = "start" => ~wired /\ \A n \in DOMAIN source : source[n] # "armed"

CallInv ==
    /\ CallType /\ TriesCounted /\ CredentialsAtHome /\ AbortKnown
    /\ StartsFree /\ NothingStaysBound /\ BodiesAreDrained


LEMMA CallInitInv == HttpInit => CallInv
<1> SUFFICES ASSUME HttpInit PROVE CallInv
  OBVIOUS
<1>1. /\ config \in ConfigType /\ at = "start" /\ attempt = 0 /\ subject = "none" /\ open = 0
      /\ hop = [number |-> 0, method |-> config.method, body |-> config.body,
                origin |-> Home, credentials |-> TRUE]
      /\ source = [user |-> "idle", timeout |-> "idle", scope |-> "idle"]
      /\ active = "no" /\ wired = FALSE /\ outcome = "none" /\ sent = <<0>>
      /\ MaxRetries \in Nat /\ MaxRedirects \in Nat /\ Home \in Origins
  BY ConfigsAssumption, HttpBounds DEF HttpInit
<1>2. /\ hop \in HopType /\ hop.number = 0 /\ hop.credentials = TRUE /\ hop.origin = Home
  BY <1>1 DEF HopType, ConfigType
<1>3. DOMAIN source = {"user", "timeout", "scope"} /\ \A n \in DOMAIN source : source[n] # "armed"
  BY <1>1
<1>4. sent \in Seq(Nat) /\ Len(sent) = hop.number + 1 /\ Tries = 0
  BY <1>1, <1>2 DEF Tries
<1>5. CallType
  BY <1>1, <1>2, <1>3, <1>4 DEF CallType
<1>6. TriesCounted
  BY <1>1, <1>2, <1>4 DEF TriesCounted, Allowance
<1>7. StartsFree /\ NothingStaysBound
  BY <1>1, <1>3 DEF StartsFree, NothingStaysBound
<1>8. AbortKnown /\ CredentialsAtHome
  <2>1. at # "judging" /\ outcome \notin Reasons
    BY <1>1 DEF Reasons
  <2> QED BY <1>2, <2>1 DEF AbortKnown, CredentialsAtHome
<1>9. BodiesAreDrained
  BY <1>1 DEF BodiesAreDrained
<1> QED BY <1>5, <1>6, <1>7, <1>8, <1>9 DEF CallInv

(* The first of the sources that are aborted already is one.               *)
LEMMA FirstBefore ==
    ASSUME Before # {}
    PROVE  source[Names[Min(Before)]] \in Reasons
<1>1. Before \subseteq Nat /\ \A i \in Before : source[Names[i]] \in Reasons
  BY DEF Before, Names
<1> QED BY <1>1, MinIsLeast


(* The signals: an abort is heard once, and nothing else of the call moves.*)
LEMMA SignalsInv == CallInv /\ SignalStep => CallInv'
<1> SUFFICES ASSUME CallInv, SignalStep PROVE CallInv'
  OBVIOUS
<1>1. PICK n \in {"user", "timeout", "scope"}, reason \in Reasons : Abort(n, reason)
  BY DEF SignalStep, UserAborts, TimerFires, ScopeDisposed, Reasons
<1>2. /\ source' = [source EXCEPT ![n] = reason]
      /\ active' = IF Hears(n) THEN reason ELSE active
      /\ wired' = IF Hears(n) THEN FALSE ELSE wired
      /\ UNCHANGED <<config, at, hop, attempt, subject, open, outcome, sent>>
  BY <1>1 DEF Abort
<1>3. CallType' /\ TriesCounted' /\ CredentialsAtHome' /\ BodiesAreDrained'
  BY <1>2
  DEF CallInv, CallType, TriesCounted, Tries, Allowance, CredentialsAtHome, BodiesAreDrained
<1>4. AbortKnown'
  BY <1>2 DEF CallInv, CallType, AbortKnown, Hears, Reasons
<1>5. \A m \in DOMAIN source' : source'[m] = "armed" => m \in DOMAIN source /\ source[m] = "armed"
  BY <1>2 DEF CallInv, CallType, Reasons
<1>6. (wired' => wired) /\ at' = at /\ outcome' = outcome
  BY <1>2
<1>7. StartsFree' /\ NothingStaysBound'
  BY <1>5, <1>6 DEF CallInv, StartsFree, NothingStaysBound
<1> QED BY <1>3, <1>4, <1>7 DEF CallInv

(* What is given up when the call settles.                                 *)
LEMMA CleanupFrees ==
    ASSUME CallType, Cleanup
    PROVE  /\ ~wired' /\ DOMAIN source' = {"user", "timeout", "scope"}
           /\ \A n \in DOMAIN source' : source'[n] # "armed"
BY DEF Cleanup, CallType

(* The call fails before the response: it is settled and cleaned up.       *)
LEMMA FailInv ==
    ASSUME CallInv, NEW result, Fail(result), UNCHANGED <<config, hop, sent>>, attempt' \in Nat,
           open' \in Int, ~config.condition => open' = 0,
           result \notin {"none", "TypeError", "response", "status"},
           result \in Reasons => result = active
    PROVE  CallInv'
<1>1. at' = "done" /\ outcome' = result /\ Cleanup /\ active' = active
  BY DEF Fail, Settle
<1>2. CallType'
  BY <1>1, CleanupFrees DEF CallInv, CallType
<1>3. TriesCounted'
  BY <1>1 DEF CallInv, TriesCounted, Tries, Allowance
<1>4. CredentialsAtHome' /\ AbortKnown' /\ StartsFree' /\ BodiesAreDrained'
  BY <1>1 DEF CallInv, CredentialsAtHome, AbortKnown, StartsFree, BodiesAreDrained
<1>5. NothingStaysBound'
  BY <1>1, CleanupFrees DEF CallInv, NothingStaysBound
<1> QED BY <1>2, <1>3, <1>4, <1>5 DEF CallInv

LEMMA BeginsInv == CallInv /\ (RefusedAtOnce \/ Begin) => CallInv'
<1>1. ASSUME CallInv, RefusedAtOnce PROVE CallInv'
  <2>1. /\ at = "start" /\ at' = "done" /\ outcome' = "security"
        /\ UNCHANGED <<config, hop, attempt, subject, open, source, active, wired, sent>>
    BY <1>1 DEF RefusedAtOnce, Settle
  <2>2. CallType' /\ TriesCounted' /\ CredentialsAtHome'
    BY <1>1, <2>1 DEF CallInv, CallType, TriesCounted, Tries, Allowance, CredentialsAtHome
  <2>3. AbortKnown' /\ BodiesAreDrained'
    BY <1>1, <2>1 DEF CallInv, CallType, AbortKnown, Reasons, BodiesAreDrained
  <2>4. StartsFree' /\ NothingStaysBound'
    BY <1>1, <2>1 DEF CallInv, StartsFree, NothingStaysBound
  <2> QED BY <2>2, <2>3, <2>4 DEF CallInv
<1>2. ASSUME CallInv, Begin PROVE CallInv'
  <2>1. /\ at = "start" /\ Bind
        /\ \/ at' = "done" /\ outcome' = "TypeError"
           \/ at' = "attempt" /\ outcome' = outcome
        /\ UNCHANGED <<config, hop, attempt, subject, open, sent>>
    BY <1>2 DEF Begin, Settle
  <2>2. active' \in Reasons \cup {"no"} /\ DOMAIN source' = {"user", "timeout", "scope"}
    BY <1>2, <2>1, FirstBefore DEF Bind, CallInv, CallType
  <2>3. CallType' /\ TriesCounted' /\ CredentialsAtHome'
    BY <1>2, <2>1, <2>2 DEF CallInv, CallType, TriesCounted, Tries, Allowance, CredentialsAtHome
  <2>4. AbortKnown' /\ BodiesAreDrained'
    BY <1>2, <2>1 DEF CallInv, CallType, AbortKnown, Reasons, BodiesAreDrained
  <2>5. StartsFree' /\ NothingStaysBound'
    BY <2>1, <2>3 DEF CallType, StartsFree, NothingStaysBound
  <2> QED BY <2>3, <2>4, <2>5 DEF CallInv
<1> QED BY <1>1, <1>2

(* One attempt, and what comes back.                                       *)
LEMMA AttemptInv == CallInv /\ Attempt => CallInv'
<1> SUFFICES ASSUME CallInv, Attempt PROVE CallInv'
  OBVIOUS
<1>1. /\ at = "attempt" /\ ~(config.retry /\ hop.body = "stream") /\ at' = "fetching"
      /\ attempt' = attempt + 1 /\ sent' = [sent EXCEPT ![hop.number + 1] = @ + 1]
      /\ UNCHANGED <<config, hop, subject, open, source, active, wired, outcome>>
  BY DEF Attempt
<1>2. sent \in Seq(Nat) /\ Len(sent) = hop.number + 1 /\ hop.number \in Nat /\ attempt \in Nat
  BY HttpBounds DEF CallInv, CallType, HopType
<1>3. hop.number + 1 \in DOMAIN sent /\ Tries \in Nat
  BY <1>2 DEF Tries
<1>4. sent' \in Seq(Nat) /\ Len(sent') = Len(sent) /\ Tries' = Tries + 1
  BY <1>1, <1>2, <1>3 DEF Tries
<1>5. CallType'
  BY <1>1, <1>2, <1>4 DEF CallInv, CallType
<1>6. Allowance \in Nat /\ Allowance' = Allowance
  BY <1>1, HttpBounds DEF Allowance
<1>7. TriesCounted'
  BY <1>1, <1>2, <1>3, <1>4, <1>6 DEF CallInv, TriesCounted
<1>8. CredentialsAtHome' /\ AbortKnown' /\ BodiesAreDrained' /\ StartsFree' /\ NothingStaysBound'
  BY <1>1
  DEF CallInv, CallType, CredentialsAtHome, AbortKnown, BodiesAreDrained, StartsFree, NothingStaysBound,
      Reasons
<1> QED BY <1>5, <1>7, <1>8 DEF CallInv

LEMMA AnswerInv ==
    ASSUME CallInv, NEW status \in Statuses, Answer(status)
    PROVE  CallInv'
<1>1. /\ at = "fetching" /\ at' = "judging" /\ subject' = status /\ open' = open + 1
      /\ UNCHANGED <<config, hop, attempt, source, active, wired, outcome, sent>>
  BY DEF Answer
<1>2. CallType' /\ CredentialsAtHome'
  BY <1>1 DEF CallInv, CallType, CredentialsAtHome
<1>3. TriesCounted'
  BY <1>1 DEF CallInv, TriesCounted, Tries, Allowance
<1>4. AbortKnown' /\ BodiesAreDrained'
  BY <1>1 DEF CallInv, CallType, AbortKnown, BodiesAreDrained, Statuses, Reasons
<1>5. StartsFree' /\ NothingStaysBound'
  BY <1>1 DEF CallInv, StartsFree, NothingStaysBound
<1> QED BY <1>2, <1>3, <1>4, <1>5 DEF CallInv

LEMMA RejectedInv == CallInv /\ Rejected => CallInv'
<1> SUFFICES ASSUME CallInv, Rejected PROVE CallInv'
  OBVIOUS
<1>1. /\ at = "fetching" /\ at' = "judging"
      /\ subject' \in Errors /\ (subject' \in Reasons => subject' = active)
      /\ UNCHANGED <<config, hop, attempt, open, source, active, wired, outcome, sent>>
  BY DEF Rejected, Wrapped, Errors, Reasons, CallInv, CallType
<1>2. CallType' /\ CredentialsAtHome'
  BY <1>1 DEF CallInv, CallType, CredentialsAtHome
<1>3. TriesCounted'
  BY <1>1 DEF CallInv, TriesCounted, Tries, Allowance
<1>4. AbortKnown' /\ BodiesAreDrained'
  BY <1>1 DEF CallInv, CallType, AbortKnown, BodiesAreDrained, Statuses, Errors, Reasons
<1>5. StartsFree' /\ NothingStaysBound'
  BY <1>1 DEF CallInv, StartsFree, NothingStaysBound
<1> QED BY <1>2, <1>3, <1>4, <1>5 DEF CallInv

LEMMA StreamRefusedInv == CallInv /\ StreamRefused => CallInv'
<1> SUFFICES ASSUME CallInv, StreamRefused PROVE CallInv'
  OBVIOUS
<1>1. /\ at = "attempt" /\ Fail("stream") /\ attempt' = attempt + 1
      /\ UNCHANGED <<config, hop, open, sent>>
  BY DEF StreamRefused
<1>2. open' \in Int /\ (~config.condition => open' = 0) /\ attempt' \in Nat
  BY <1>1 DEF CallInv, CallType, BodiesAreDrained
<1> QED BY <1>1, <1>2, FailInv DEF Reasons

(* What is judged is tried again, is given up, or throws on the way.       *)
LEMMA BackoffInv == CallInv /\ Backoff => CallInv'
<1> SUFFICES ASSUME CallInv, Backoff PROVE CallInv'
  OBVIOUS
<1>1. /\ at = "judging" /\ at' = "sleeping" /\ MayRetry
      /\ open' = IF subject \in Statuses THEN open - 1 ELSE open
      /\ UNCHANGED <<config, hop, attempt, subject, source, active, wired, outcome, sent>>
  BY DEF Backoff, DrainedOpen
<1>2. attempt \in Nat /\ MaxRetries \in Nat /\ attempt < Allowance
  BY <1>1, HttpBounds DEF CallInv, CallType, MayRetry, Allowance
<1>3. CallType' /\ CredentialsAtHome'
  BY <1>1 DEF CallInv, CallType, CredentialsAtHome
<1>4. TriesCounted'
  <2>1. Tries' = Tries /\ Allowance' = Allowance /\ hop.body # "stream"
    BY <1>1 DEF CallInv, TriesCounted, Tries, Allowance, MayRetry
  <2> QED BY <1>1, <1>2, <2>1 DEF CallInv, TriesCounted
<1>5. BodiesAreDrained'
  BY <1>1 DEF CallInv, CallType, BodiesAreDrained
<1>6. AbortKnown' /\ StartsFree' /\ NothingStaysBound'
  BY <1>1 DEF CallInv, AbortKnown, StartsFree, NothingStaysBound
<1> QED BY <1>3, <1>4, <1>5, <1>6 DEF CallInv

LEMMA ConditionThrowsInv == CallInv /\ ConditionThrows => CallInv'
<1> SUFFICES ASSUME CallInv, ConditionThrows PROVE CallInv'
  OBVIOUS
<1>1. /\ at = "judging" /\ config.condition
      /\ UNCHANGED <<config, hop, attempt, open, sent>>
      /\ \/ subject' = "thrown" /\ UNCHANGED <<at, outcome, source, wired, active>>
         \/ Fail("condition")
  BY DEF ConditionThrows
<1>2. attempt' \in Nat /\ open' \in Int
  BY <1>1 DEF CallInv, CallType
<1>3. CASE Fail("condition")
  BY <1>1, <1>2, <1>3, FailInv DEF Reasons
<1>4. CASE subject' = "thrown" /\ UNCHANGED <<at, outcome, source, wired, active>>
  <2>1. CallType' /\ CredentialsAtHome' /\ StartsFree' /\ NothingStaysBound'
    BY <1>1, <1>4
    DEF CallInv, CallType, CredentialsAtHome, StartsFree, NothingStaysBound, Errors
  <2>2. TriesCounted'
    BY <1>1, <1>4 DEF CallInv, TriesCounted, Tries, Allowance
  <2>3. AbortKnown' /\ BodiesAreDrained'
    BY <1>1, <1>4 DEF CallInv, AbortKnown, BodiesAreDrained, Reasons
  <2> QED BY <2>1, <2>2, <2>3 DEF CallInv
<1> QED BY <1>1, <1>3, <1>4

LEMMA ErrorStandsInv == CallInv /\ ErrorStands => CallInv'
<1> SUFFICES ASSUME CallInv, ErrorStands PROVE CallInv'
  OBVIOUS
<1>1. /\ at = "judging" /\ subject \notin Statuses /\ Fail(subject)
      /\ UNCHANGED <<config, hop, attempt, open, sent>>
  BY DEF ErrorStands
<1>2. subject \in Errors /\ (subject \in Reasons => subject = active)
  BY <1>1 DEF CallInv, CallType, AbortKnown
<1>3. attempt' \in Nat /\ open' \in Int /\ (~config.condition => open' = 0)
  BY <1>1 DEF CallInv, CallType, BodiesAreDrained
<1> QED BY <1>1, <1>2, <1>3, FailInv DEF Errors, Reasons

LEMMA WakeInv == CallInv /\ Wake => CallInv'
<1> SUFFICES ASSUME CallInv, Wake PROVE CallInv'
  OBVIOUS
<1>1. /\ at = "sleeping" /\ at' = "attempt"
      /\ UNCHANGED <<config, hop, attempt, subject, open, source, active, wired, outcome, sent>>
  BY DEF Wake
<1>2. CallType' /\ CredentialsAtHome' /\ AbortKnown'
  BY <1>1 DEF CallInv, CallType, CredentialsAtHome, AbortKnown
<1>3. TriesCounted'
  BY <1>1 DEF CallInv, TriesCounted, Tries, Allowance
<1>4. BodiesAreDrained' /\ StartsFree' /\ NothingStaysBound'
  BY <1>1 DEF CallInv, BodiesAreDrained, StartsFree, NothingStaysBound
<1> QED BY <1>2, <1>3, <1>4 DEF CallInv

LEMMA SleepAbortedInv == CallInv /\ SleepAborted => CallInv'
<1> SUFFICES ASSUME CallInv, SleepAborted PROVE CallInv'
  OBVIOUS
<1>1. /\ at = "sleeping" /\ active # "no" /\ (Fail(active) \/ Fail("condition"))
      /\ UNCHANGED <<config, hop, attempt, open, sent>>
  BY DEF SleepAborted
<1>2. active \in Reasons
  BY <1>1 DEF CallInv, CallType
<1>3. attempt' \in Nat /\ open' \in Int /\ (~config.condition => open' = 0)
  BY <1>1 DEF CallInv, CallType, BodiesAreDrained
<1> QED BY <1>1, <1>2, <1>3, FailInv DEF Reasons

(* A redirect is refused, or begins a hop of its own.                      *)
LEMMA RedirectRefusedInv == CallInv /\ RedirectRefused => CallInv'
<1> SUFFICES ASSUME CallInv, RedirectRefused PROVE CallInv'
  OBVIOUS
<1>1. /\ at = "judging" /\ subject \in Statuses /\ open' = open - 1
      /\ Fail("network") \/ Fail("security")
      /\ UNCHANGED <<config, hop, attempt, sent>>
  BY DEF RedirectRefused, Returned
<1>2. attempt' \in Nat /\ open' \in Int /\ (~config.condition => open' = 0)
  BY <1>1 DEF CallInv, CallType, BodiesAreDrained
<1> QED BY <1>1, <1>2, FailInv DEF Reasons

LEMMA RedirectFollowedInv ==
    ASSUME CallInv, NEW o \in Origins, RedirectFollowed(o)
    PROVE  CallInv'
<1>1. /\ at = "judging" /\ subject \in Statuses /\ hop.number < MaxRedirects
      /\ at' = "attempt" /\ attempt' = 0 /\ open' = open - 1 /\ sent' = Append(sent, 0)
      /\ UNCHANGED <<config, subject, source, active, wired, outcome>>
  BY DEF RedirectFollowed, Returned, HopLeft
<1>2. /\ hop.number \in 0 .. MaxRedirects /\ MaxRedirects \in Nat /\ MaxRetries \in Nat
      /\ hop.method \in {"GET", "POST"} /\ hop.body \in {"none", "text", "stream"}
      /\ sent \in Seq(Nat) /\ Len(sent) = hop.number + 1
  BY HttpBounds DEF CallInv, CallType, HopType
<1>3. PICK m \in {"GET", "POST"}, b \in {"none", "text"} :
        hop' = [number |-> hop.number + 1, origin |-> o, credentials |-> Stripped(o),
                method |-> m, body |-> b]
  BY <1>2 DEF RedirectFollowed
<1>4. Stripped(o) \in BOOLEAN
  BY Zenon DEF Stripped, CallInv, CallType, HopType
<1>5. hop' \in HopType /\ hop'.number = hop.number + 1 /\ hop'.body # "stream"
      /\ hop'.origin = o /\ hop'.credentials = Stripped(o)
  BY <1>1, <1>2, <1>3, <1>4 DEF HopType
<1>6. sent' \in Seq(Nat) /\ Len(sent') = hop'.number + 1 /\ Tries' = 0
  BY <1>1, <1>2, <1>5 DEF Tries
<1>7. CallType'
  BY <1>1, <1>5, <1>6 DEF CallInv, CallType
<1>8. CredentialsAtHome'
  BY <1>5 DEF CallInv, CredentialsAtHome, Stripped
<1>9. TriesCounted'
  BY <1>1, <1>2, <1>5, <1>6 DEF TriesCounted, Allowance
<1>10. BodiesAreDrained'
  BY <1>1 DEF CallInv, CallType, BodiesAreDrained
<1>11. AbortKnown' /\ StartsFree' /\ NothingStaysBound'
  BY <1>1 DEF CallInv, AbortKnown, StartsFree, NothingStaysBound
<1> QED BY <1>7, <1>8, <1>9, <1>10, <1>11 DEF CallInv

(* The response, and the reading of its body.                              *)
LEMMA RespondInv == CallInv /\ Respond => CallInv'
<1> SUFFICES ASSUME CallInv, Respond PROVE CallInv'
  OBVIOUS
<1>1. /\ at = "judging" /\ subject \in Statuses /\ Cleanup
      /\ \/ at' = "done" /\ outcome' \in {"status", "response"}
         \/ at' = "reading" /\ outcome' = outcome
      /\ UNCHANGED <<config, hop, attempt, subject, open, active, sent>>
  BY DEF Respond, Returned, Settle
<1>2. CallType' /\ CredentialsAtHome'
  BY <1>1, CleanupFrees DEF CallInv, CallType, CredentialsAtHome
<1>3. TriesCounted'
  <2>1. ~(hop.body = "stream" /\ config.retry)
    BY <1>1 DEF CallInv, TriesCounted
  <2> QED BY <1>1, <2>1 DEF CallInv, TriesCounted, Tries, Allowance
<1>4. AbortKnown' /\ StartsFree'
  BY <1>1 DEF CallInv, AbortKnown, StartsFree, Reasons
<1>5. BodiesAreDrained'
  BY <1>1 DEF CallInv, CallType, BodiesAreDrained
<1>6. NothingStaysBound'
  BY <1>1, CleanupFrees DEF CallInv, NothingStaysBound
<1> QED BY <1>2, <1>3, <1>4, <1>5, <1>6 DEF CallInv

LEMMA ReadEndsInv ==
    ASSUME CallInv, at = "reading", NEW result, ReadEnds(result),
           result \notin {"none", "TypeError", "response", "status"},
           result \in Reasons => result = active
    PROVE  CallInv'
<1>1. /\ at' = "done" /\ outcome' = result /\ open' = 0
      /\ UNCHANGED <<config, hop, attempt, subject, source, active, wired, sent>>
  BY DEF ReadEnds, Settle
<1>2. CallType' /\ CredentialsAtHome'
  BY <1>1 DEF CallInv, CallType, CredentialsAtHome
<1>3. TriesCounted'
  BY <1>1 DEF CallInv, TriesCounted, Tries, Allowance
<1>4. AbortKnown' /\ StartsFree' /\ BodiesAreDrained'
  BY <1>1 DEF AbortKnown, StartsFree, BodiesAreDrained
<1>5. outcome = "none"
  BY DEF CallInv, CallType
<1>6. NothingStaysBound'
  BY <1>1, <1>5 DEF CallInv, NothingStaysBound
<1> QED BY <1>2, <1>3, <1>4, <1>6 DEF CallInv

LEMMA CallUnchanged == CallInv /\ UNCHANGED callvars => CallInv'
BY DEF callvars, CallInv, CallType, TriesCounted, Tries, Allowance, CredentialsAtHome, AbortKnown,
       StartsFree, NothingStaysBound, BodiesAreDrained

LEMMA ReadingInv == CallInv /\ (ReadJson \/ BodyFails \/ ReadEvents) => CallInv'
<1>1. ASSUME CallInv, ReadJson PROVE CallInv'
  BY <1>1, ReadEndsInv DEF ReadJson, Reasons
<1>2. ASSUME CallInv, BodyFails PROVE CallInv'
  <2>1. active \in Reasons \cup {"no"}
    BY <1>2 DEF CallInv, CallType
  <2>2. CASE active = "no"
    BY <1>2, <2>2, ReadEndsInv DEF BodyFails, Reasons
  <2>3. CASE active # "no"
    BY <1>2, <2>1, <2>3, ReadEndsInv DEF BodyFails, Reasons
  <2> QED BY <2>2, <2>3
<1>3. ASSUME CallInv, ReadEvents PROVE CallInv'
  BY <1>3, ReadEndsInv, CallUnchanged DEF ReadEvents, Reasons
<1> QED BY <1>1, <1>2, <1>3

(* What a call has sent, what it holds and what it reports, at every step. *)
LEMMA CallInvariance == HttpSpec => []CallInv
<1>1. HttpInit => CallInv
  BY CallInitInv
<1>2. CallInv /\ [HttpNext]_httpvars => CallInv'
  <2> SUFFICES ASSUME CallInv, [HttpNext]_httpvars PROVE CallInv'
    OBVIOUS
  <2>1. CASE CallStep
    BY <2>1, BeginsInv, StreamRefusedInv, AttemptInv, BackoffInv, ConditionThrowsInv, ErrorStandsInv,
       SleepAbortedInv, RedirectRefusedInv, RedirectFollowedInv, RespondInv DEF CallStep
  <2>2. CASE NetworkStep
    BY <2>2, AnswerInv, RejectedInv, ReadingInv DEF NetworkStep
  <2>3. CASE SignalStep
    BY <2>3, SignalsInv
  <2>4. CASE ReadStep
    BY <2>4, ReadingInv DEF ReadStep
  <2>5. CASE Wake
    BY <2>5, WakeInv
  <2>6. CASE UNCHANGED httpvars
    BY <2>6, CallUnchanged DEF httpvars
  <2> QED BY <2>1, <2>2, <2>3, <2>4, <2>5, <2>6 DEF HttpNext
<1> QED BY <1>1, <1>2, PTL DEF HttpSpec

(* A request that is not idempotent is sent once for every hop, one under a*)
(* retry policy no more often than the policy says, a stream once in all;  *)
(* credentials stay with the origin of the call; and the abort that is     *)
(* reported is the one that ended the call.  For every policy and every    *)
(* order of answers, failures and aborts.                                  *)
THEOREM CallsAreAlwaysTrue == HttpSpec => []CallsAreTrue
<1>1. CallInv => CallsAreTrue
  <2> SUFFICES ASSUME CallInv PROVE CallsAreTrue
    OBVIOUS
  <2>1. sent[hop.number + 1] <= Allowance
    BY DEF CallInv, TriesCounted, Tries
  <2>2. hop.body = "stream" => \A i \in 1 .. Len(sent) : sent[i] <= IF i = 1 THEN 1 ELSE 0
    <3> SUFFICES ASSUME hop.body = "stream", NEW i \in 1 .. Len(sent)
                 PROVE  sent[i] <= IF i = 1 THEN 1 ELSE 0
      OBVIOUS
    <3>1. hop.number = 0 /\ Len(sent) = 1 /\ i = 1
      BY DEF CallInv, CallType, TriesCounted
    <3>2. sent[1] <= Allowance /\ (config.retry => sent[1] = 0)
      BY <2>1, <3>1 DEF CallInv, TriesCounted, Tries
    <3> QED BY <3>1, <3>2 DEF Allowance
  <2> QED BY <2>1, <2>2
       DEF CallInv, CallsAreTrue, SentAsAllowed, Allowance, CredentialsAtHome, CredentialsStayHome,
           AbortKnown, AbortIsReported
<1> QED BY <1>1, CallInvariance, PTL

(* A call that has its response or has failed keeps no timer, registration *)
(* or listener, and no body is left undrained on the way to it.            *)
THEOREM CallsNeverLeak == HttpSpec => [](HTypeOK /\ NothingStaysBound /\ BodiesAreDrained)
<1>1. CallInv => HTypeOK /\ NothingStaysBound /\ BodiesAreDrained
  BY DEF CallInv, CallType, HopType, HTypeOK
<1> QED BY <1>1, CallInvariance, PTL

-----------------------------------------------------------------------------
(* The installer.                                                          *)

LocalOK(local) ==
    /\ DOMAIN local = {"at", "dry", "left", "plan", "conflicts", "created", "unlinks", "stuck",
                       "read", "result"}
    /\ local.left \subseteq Targets /\ local.plan \subseteq Targets
    /\ local.created \subseteq Targets /\ local.stuck \subseteq Targets

(* The next file a run writes or unlinks is one it has left.               *)
LEMMA LeastTarget ==
    ASSUME NEW T, T \subseteq Targets, T # {}
    PROVE  Min(T) \in T /\ Min(T) \in Targets
<1>1. Targets \subseteq Nat
  <2>1. Files \subseteq Nat /\ Files # {}
    BY InstallerAssumption
  <2>2. Min(Files) \in Files
    BY <2>1, MinIsLeast
  <2> QED BY <2>1, <2>2 DEF Targets
<1>2. Min(T) \in T
  BY <1>1, MinIsLeast
<1> QED BY <1>2

InstallerType ==
    /\ disk \in [Targets -> Contents]
    /\ author \in [Targets -> Runs \cup {"user"}]
    /\ DOMAIN run = Runs /\ \A r \in Runs : LocalOK(run[r])
    /\ edits \in Nat

(* A file that is there whole by a run is one it has created, or, when it  *)
(* rolls back, one it has yet to remove or could not remove.  A run that   *)
(* has not come to its writing, or has ended otherwise, has none.          *)
Accounted(local, f) ==
    /\ local.at \in {"create", "fill", "lock", "truncate", "record"} => f \in local.created
    /\ local.at = "rollback" => f \in local.left \cup local.stuck
    /\ local.at = "ended" => \/ local.result = "applied"
                             \/ local.result = "threw" /\ f \in local.stuck
    /\ local.at \notin {"start", "inspect", "plan", "folder"}
OwnWork ==
    \A r \in Runs, f \in Targets : author[f] = r /\ disk[f] = "source" => Accounted(run[r], f)

(* Only an item has a lock to update and a rollback to walk; a run creates *)
(* each target once, and removes only what it created.                     *)
Walks(local) ==
    /\ local.at \in {"lock", "truncate", "record", "rollback"} => command = "ui add"
    /\ local.at \in {"create", "fill"} => local.left \cap local.created = {}
    /\ local.at = "fill" => local.left # {}
    /\ local.at = "rollback" => local.left \subseteq local.created
    /\ local.at \in {"start", "inspect", "plan", "folder"} => local.created = {}

InstallerInv == InstallerType /\ OwnWork /\ \A r \in Runs : Walks(run[r])

LEMMA InstallerInitInv == InstallerInit => InstallerInv
<1> SUFFICES ASSUME InstallerInit PROVE InstallerInv
  OBVIOUS
<1>1. LocalOK(Fresh) /\ Walks(Fresh)
  BY DEF Fresh, LocalOK, Walks
<1>2. /\ edits = 0 /\ run = [r \in Runs |-> Fresh]
      /\ disk \in [Targets -> Contents] /\ author = [f \in Targets |-> "user"]
  BY DEF InstallerInit
<1>3. InstallerType
  BY <1>1, <1>2 DEF InstallerType
<1>4. OwnWork
  BY <1>2, InstallerAssumption DEF OwnWork
<1> QED BY <1>1, <1>2, <1>3, <1>4 DEF InstallerInv

(* A step of one run.  What it writes it accounts for, and of the others'  *)
(* work it writes none.                                                    *)
LEMMA RunStep ==
    ASSUME InstallerInv, NEW r \in Runs, NEW local, Put(r, local), UNCHANGED <<command, edits>>,
           disk' \in [Targets -> Contents], author' \in [Targets -> Runs \cup {"user"}],
           LocalOK(local), Walks(local),
           \A f \in Targets : disk'[f] = "source" =>
              IF author'[f] = r THEN Accounted(local, f)
                                ELSE author'[f] = author[f] /\ disk[f] = "source"
    PROVE  InstallerInv'
<1>1. DOMAIN run = Runs /\ run' = [run EXCEPT ![r] = local] /\ Targets' = Targets
  BY DEF InstallerInv, InstallerType, Put, Targets
<1>2. DOMAIN run' = Runs /\ run'[r] = local /\ \A s \in Runs \ {r} : run'[s] = run[s]
  BY <1>1
<1>3. InstallerType'
  BY <1>1, <1>2 DEF InstallerInv, InstallerType, LocalOK
<1>4. OwnWork'
  BY <1>1, <1>2 DEF InstallerInv, OwnWork, Accounted
<1>5. \A s \in Runs : Walks(run[s])'
  <2> SUFFICES ASSUME NEW s \in Runs PROVE Walks(run[s])'
    OBVIOUS
  <2>1. CASE s = r
    BY <1>2, <2>1 DEF Walks
  <2>2. CASE s # r
    <3>1. run'[s] = run[s] /\ Walks(run[s])
      BY <1>2, <2>2 DEF InstallerInv
    <3> QED BY <3>1 DEF Walks
  <2> QED BY <2>1, <2>2
<1> QED BY <1>3, <1>4, <1>5 DEF InstallerInv

(* A step that writes nothing need only account for what is there.         *)
LEMMA LocalStep ==
    ASSUME InstallerInv, NEW r \in Runs, NEW local, Put(r, local),
           UNCHANGED <<command, edits, Files_>>, LocalOK(local), Walks(local),
           \A f \in Targets : Accounted(run[r], f) => Accounted(local, f)
    PROVE  InstallerInv'
<1>1. disk' = disk /\ author' = author
  BY DEF Files_
<1>2. disk' \in [Targets -> Contents] /\ author' \in [Targets -> Runs \cup {"user"}]
  BY <1>1 DEF InstallerInv, InstallerType
<1>3. \A f \in Targets : disk'[f] = "source" =>
              IF author'[f] = r THEN Accounted(local, f)
                                ELSE author'[f] = author[f] /\ disk[f] = "source"
  BY <1>1 DEF InstallerInv, OwnWork
<1> QED BY <1>2, <1>3, RunStep

(* What a run that ends keeps.                                            *)
LEMMA EndsWith ==
    ASSUME InstallerInv, NEW local, LocalOK(local), NEW result
    PROVE  /\ LocalOK(EndsAs(local, result)) /\ Walks(EndsAs(local, result))
           /\ EndsAs(local, result).at = "ended" /\ EndsAs(local, result).result = result
           /\ EndsAs(local, result).stuck = local.stuck
BY DEF EndsAs, Fresh, LocalOK, Walks

(* An error while it writes.                                               *)
LEMMA FailedStep ==
    ASSUME InstallerInv, NEW r \in Runs, NEW times, Put(r, Failed(run[r], times)),
           UNCHANGED <<command, edits, Files_>>,
           run[r].at \in {"create", "fill", "lock", "truncate", "record"},
           run[r].at \in {"create", "fill"} => run[r].left # {}
    PROVE  InstallerInv'
<1>1. LocalOK(run[r]) /\ Walks(run[r])
  BY DEF InstallerInv, InstallerType
<1>2. CASE command = "ui add"
  <2> DEFINE local == [run[r] EXCEPT !.at = "rollback", !.left = run[r].created,
                                     !.unlinks = times - 1]
  <2>1. Failed(run[r], times) = local
    BY <1>2 DEF Failed
  <2>2. /\ LocalOK(local) /\ local.at = "rollback" /\ local.left = run[r].created
        /\ local.created = run[r].created
    BY <1>1 DEF LocalOK
  <2> HIDE DEF local
  <2>3. Walks(local)
    BY <1>2, <2>2 DEF Walks
  <2>4. \A f \in Targets : Accounted(run[r], f) => Accounted(local, f)
    BY <2>2 DEF Accounted
  <2> QED BY <2>1, <2>2, <2>3, <2>4, LocalStep
<1>3. CASE command # "ui add"
  <2> DEFINE local == EndsAs(run[r], "threw")
  <2>1. Failed(run[r], times) = local
    BY <1>3 DEF Failed
  <2>2. LocalOK(local) /\ Walks(local)
    BY <1>1, EndsWith
  <2>3. \A f \in Targets : f \notin run[r].created
    <3>1. Targets = {Min(Files)}
      BY <1>3 DEF Targets
    <3>2. run[r].left # {} /\ run[r].left \cap run[r].created = {}
      BY <1>1, <1>3 DEF Walks
    <3> QED BY <1>1, <3>1, <3>2 DEF LocalOK
  <2>4. \A f \in Targets : ~ Accounted(run[r], f)
    BY <2>3 DEF Accounted
  <2> HIDE DEF local
  <2> QED BY <2>1, <2>2, <2>4, LocalStep
<1> QED BY <1>2, <1>3

LEMMA StartInv == \A r \in Runs : InstallerInv /\ Start(r) => InstallerInv'
<1> SUFFICES ASSUME NEW r \in Runs, InstallerInv, Start(r) PROVE InstallerInv'
  OBVIOUS
<1>1. PICK dry \in BOOLEAN, input \in {"bad", "conflict", "good"} :
        LET local == [Fresh EXCEPT !.dry = dry, !.left = Targets]
        IN Put(r, CASE input = "bad" -> EndsAs(local, "threw")
                    [] input = "conflict" /\ command = "ui add" -> EndsAs(local, "blocked")
                    [] OTHER -> [local EXCEPT !.at = "inspect", !.conflicts = input = "conflict"])
  BY DEF Start
<1> DEFINE local == [Fresh EXCEPT !.dry = dry, !.left = Targets]
           begun == [local EXCEPT !.at = "inspect", !.conflicts = input = "conflict"]
<1>2. run[r].at = "start" /\ UNCHANGED <<command, edits, Files_>>
  BY DEF Start, At
<1>3. \A f \in Targets : ~ Accounted(run[r], f)
  BY <1>2 DEF Accounted
<1>4. LocalOK(local)
  BY DEF Fresh, LocalOK
<1>5. LocalOK(begun) /\ Walks(begun)
  BY DEF Fresh, LocalOK, Walks
<1>6. \/ \E result : Put(r, EndsAs(local, result))
      \/ Put(r, begun)
  BY <1>1
<1> HIDE DEF local, begun
<1> QED BY <1>2, <1>3, <1>4, <1>5, <1>6, EndsWith, LocalStep

LEMMA InspectInv == \A r \in Runs : InstallerInv /\ (Inspect(r) \/ InspectFolder(r)) => InstallerInv'
<1> SUFFICES ASSUME NEW r \in Runs, InstallerInv, Inspect(r) \/ InspectFolder(r) PROVE InstallerInv'
  OBVIOUS
<1>1. LocalOK(run[r]) /\ Walks(run[r])
  BY DEF InstallerInv, InstallerType
<1>2. run[r].at = "inspect" /\ UNCHANGED <<command, edits, Files_>>
  BY DEF Inspect, InspectFolder, At
<1>3. \A f \in Targets : ~ Accounted(run[r], f)
  BY <1>2 DEF Accounted
<1>4. CASE Inspect(r)
  <2> DEFINE f == Min(run[r].left)
  <2>1. f \in Targets
    <3>1. run[r].left # {} /\ run[r].left \subseteq Targets
      BY <1>1, <1>4 DEF Inspect, LocalOK
    <3>2. Files \subseteq Nat /\ Files # {}
      BY InstallerAssumption
    <3>3. Targets \subseteq Nat
      BY <3>2, MinIsLeast DEF Targets
    <3> QED BY <3>1, <3>3, MinIsLeast
  <2>2. PICK found \in {Inspection(f), "different"} :
          Put(r, [run[r] EXCEPT !.left = @ \ {f},
                                !.plan = IF found = "missing" THEN @ \union {f} ELSE @,
                                !.conflicts = @ \/ found \in {"different", "symlink"}])
    BY <1>4 DEF Inspect
  <2> DEFINE local == [run[r] EXCEPT !.left = @ \ {f},
                                     !.plan = IF found = "missing" THEN @ \union {f} ELSE @,
                                     !.conflicts = @ \/ found \in {"different", "symlink"}]
  <2> HIDE DEF f
  <2>3. LocalOK(local) /\ local.at = "inspect" /\ local.created = run[r].created
    BY <1>1, <1>2, <2>1 DEF LocalOK
  <2>4. Put(r, local)
    BY <2>2
  <2> HIDE DEF local
  <2>5. Walks(local)
    BY <1>1, <1>2, <2>3 DEF Walks
  <2> QED BY <1>2, <1>3, <2>3, <2>4, <2>5, LocalStep
<1>5. CASE InspectFolder(r)
  <2> DEFINE local == [run[r] EXCEPT !.at = "plan", !.conflicts = @ \/ folder # "directory"]
  <2>1. Put(r, local)
    BY <1>5 DEF InspectFolder
  <2>2. LocalOK(local) /\ local.at = "plan" /\ local.created = run[r].created
    BY <1>1 DEF LocalOK
  <2> HIDE DEF local
  <2>3. Walks(local)
    BY <1>1, <1>2, <2>2 DEF Walks
  <2> QED BY <1>2, <1>3, <2>1, <2>2, <2>3, LocalStep
<1> QED BY <1>4, <1>5

LEMMA DecideInv == \A r \in Runs : InstallerInv /\ (Decide(r) \/ CheckFolder(r)) => InstallerInv'
<1> SUFFICES ASSUME NEW r \in Runs, InstallerInv, Decide(r) \/ CheckFolder(r) PROVE InstallerInv'
  OBVIOUS
<1>1. LocalOK(run[r]) /\ Walks(run[r])
  BY DEF InstallerInv, InstallerType
<1>2. run[r].at \in {"inspect", "plan", "folder"} /\ UNCHANGED <<command, edits, Files_>>
  BY DEF Decide, CheckFolder, At
<1>3. \A f \in Targets : ~ Accounted(run[r], f)
  BY <1>2 DEF Accounted
<1>4. ASSUME NEW place \in {"folder", "create"}, NEW rest, rest \subseteq Targets,
             Put(r, [run[r] EXCEPT !.left = rest, !.at = place])
      PROVE  InstallerInv'
  <2> DEFINE local == [run[r] EXCEPT !.left = rest, !.at = place]
  <2>1. LocalOK(local) /\ local.at = place /\ local.created = run[r].created
    BY <1>1, <1>4 DEF LocalOK
  <2>2. Put(r, local)
    BY <1>4
  <2> HIDE DEF local
  <2>3. Walks(local)
    BY <1>1, <1>2, <2>1 DEF Walks
  <2> QED BY <1>2, <1>3, <2>1, <2>2, <2>3, LocalStep
<1>5. ASSUME NEW result, Put(r, EndsAs(run[r], result)) PROVE InstallerInv'
  BY <1>1, <1>2, <1>3, <1>5, EndsWith, LocalStep
<1>6. CASE Decide(r)
  <2>1. \/ \E result : Put(r, EndsAs(run[r], result))
        \/ \E place \in {"folder", "create"} :
             Put(r, [run[r] EXCEPT !.left = run[r].plan, !.at = place])
    BY <1>6 DEF Decide
  <2>2. run[r].plan \subseteq Targets
    BY <1>1 DEF LocalOK
  <2> QED BY <1>4, <1>5, <2>1, <2>2
<1>7. CASE CheckFolder(r)
  <2>1. [run[r] EXCEPT !.at = "create"] = [run[r] EXCEPT !.left = run[r].left, !.at = "create"]
    BY <1>1 DEF LocalOK
  <2>2. run[r].left \subseteq Targets
    BY <1>1 DEF LocalOK
  <2> QED BY <1>4, <1>5, <1>7, <2>1, <2>2 DEF CheckFolder
<1> QED BY <1>6, <1>7

(* The writing of the files.                                               *)
LEMMA OpenInv == \A r \in Runs : InstallerInv /\ Open(r) => InstallerInv'
<1> SUFFICES ASSUME NEW r \in Runs, InstallerInv, Open(r) PROVE InstallerInv'
  OBVIOUS
<1> DEFINE f == Min(run[r].left)
           local == [run[r] EXCEPT !.at = "fill"]
<1>1. LocalOK(run[r]) /\ Walks(run[r])
  BY DEF InstallerInv, InstallerType
<1>2. /\ run[r].at = "create" /\ run[r].left # {} /\ Writes(f, "torn", r) /\ Put(r, local)
      /\ UNCHANGED <<command, edits>>
  BY DEF Open, At
<1>3. f \in Targets
  BY <1>1, <1>2, LeastTarget DEF LocalOK
<1>4. /\ LocalOK(local) /\ local.at = "fill" /\ local.created = run[r].created
      /\ local.left = run[r].left
  BY <1>1 DEF LocalOK
<1> HIDE DEF f, local
<1>5. Walks(local)
  BY <1>1, <1>2, <1>4 DEF Walks
<1>6. disk \in [Targets -> Contents] /\ author \in [Targets -> Runs \cup {"user"}]
  BY DEF InstallerInv, InstallerType
<1>7. disk' \in [Targets -> Contents] /\ author' \in [Targets -> Runs \cup {"user"}]
  BY <1>2, <1>3, <1>6 DEF Writes, Contents
<1>8. \A g \in Targets : disk'[g] = "source" => g # f /\ disk[g] = "source" /\ author'[g] = author[g]
  BY <1>2, <1>3, <1>6 DEF Writes
<1>9. \A g \in Targets : Accounted(run[r], g) => Accounted(local, g)
  BY <1>2, <1>4 DEF Accounted
<1>10. \A g \in Targets : author[g] = r /\ disk[g] = "source" => Accounted(run[r], g)
  BY DEF InstallerInv, OwnWork
<1> QED BY <1>2, <1>4, <1>5, <1>7, <1>8, <1>9, <1>10, RunStep

LEMMA FillInv == \A r \in Runs : InstallerInv /\ Fill(r) => InstallerInv'
<1> SUFFICES ASSUME NEW r \in Runs, InstallerInv, Fill(r) PROVE InstallerInv'
  OBVIOUS
<1> DEFINE f == Min(run[r].left)
           local == [run[r] EXCEPT !.at = "create", !.left = @ \ {f}, !.created = @ \union {f}]
<1>1. LocalOK(run[r]) /\ Walks(run[r])
  BY DEF InstallerInv, InstallerType
<1>2. /\ run[r].at = "fill" /\ Put(r, local) /\ UNCHANGED <<command, edits>>
      /\ IF disk[f] = "torn" /\ author[f] = r THEN Writes(f, "source", r) ELSE UNCHANGED Files_
  BY DEF Fill, At
<1>3. f \in Targets
  <2>1. run[r].left # {}
    BY <1>1, <1>2 DEF Walks
  <2> QED BY <1>1, <2>1, LeastTarget DEF LocalOK
<1> HIDE DEF f
<1>4. /\ LocalOK(local) /\ local.at = "create" /\ local.created = run[r].created \cup {f}
      /\ local.left = run[r].left \ {f}
  BY <1>1, <1>3 DEF LocalOK
<1> HIDE DEF local
<1>5. Walks(local)
  BY <1>1, <1>2, <1>4 DEF Walks
<1>6. disk \in [Targets -> Contents] /\ author \in [Targets -> Runs \cup {"user"}]
  BY DEF InstallerInv, InstallerType
<1>7. disk' \in [Targets -> Contents] /\ author' \in [Targets -> Runs \cup {"user"}]
  BY <1>2, <1>3, <1>6 DEF Writes, Files_, Contents
<1>8. \A g \in Targets \ {f} : disk'[g] = disk[g] /\ author'[g] = author[g]
  BY <1>2, <1>3, <1>6 DEF Writes, Files_
<1>9. \A g \in Targets : Accounted(run[r], g) => Accounted(local, g)
  BY <1>2, <1>4 DEF Accounted
<1>10. \A g \in Targets : author[g] = r /\ disk[g] = "source" => Accounted(run[r], g)
  BY DEF InstallerInv, OwnWork
<1>11. Accounted(local, f)
  BY <1>4 DEF Accounted
<1>12. disk'[f] = "source" /\ author'[f] # r => author'[f] = author[f] /\ disk[f] = "source"
  BY <1>2, <1>3, <1>6 DEF Writes, Files_
<1> QED BY <1>2, <1>4, <1>5, <1>7, <1>8, <1>9, <1>10, <1>11, <1>12, RunStep

LEMMA WriteFailsInv == \A r \in Runs : InstallerInv /\ WriteFails(r) => InstallerInv'
<1> SUFFICES ASSUME NEW r \in Runs, InstallerInv, WriteFails(r) PROVE InstallerInv'
  OBVIOUS
<1>1. /\ run[r].at \in {"create", "fill"} /\ run[r].left # {} /\ Put(r, Failed(run[r], 2))
      /\ UNCHANGED <<command, edits, Files_>>
  BY DEF WriteFails, At, InstallerInv, Walks
<1> QED BY <1>1, FailedStep

LEMMA WrittenInv == \A r \in Runs : InstallerInv /\ Written(r) => InstallerInv'
<1> SUFFICES ASSUME NEW r \in Runs, InstallerInv, Written(r) PROVE InstallerInv'
  OBVIOUS
<1>1. LocalOK(run[r]) /\ Walks(run[r])
  BY DEF InstallerInv, InstallerType
<1>2. /\ run[r].at = "create" /\ UNCHANGED <<command, edits, Files_>>
      /\ IF command = "ui add" THEN Put(r, [run[r] EXCEPT !.at = "lock"])
                               ELSE Put(r, EndsAs(run[r], "applied"))
  BY DEF Written, At
<1>3. CASE command = "ui add"
  <2> DEFINE local == [run[r] EXCEPT !.at = "lock"]
  <2>1. LocalOK(local) /\ local.at = "lock" /\ local.created = run[r].created
    BY <1>1 DEF LocalOK
  <2>2. Put(r, local)
    BY <1>2, <1>3
  <2> HIDE DEF local
  <2>3. Walks(local) /\ \A g \in Targets : Accounted(run[r], g) => Accounted(local, g)
    BY <1>2, <1>3, <2>1 DEF Walks, Accounted
  <2> QED BY <1>2, <2>1, <2>2, <2>3, LocalStep
<1>4. CASE command # "ui add"
  <2> DEFINE local == EndsAs(run[r], "applied")
  <2>1. LocalOK(local) /\ Walks(local) /\ local.at = "ended" /\ local.result = "applied"
    BY <1>1, EndsWith
  <2>2. Put(r, local)
    BY <1>2, <1>4
  <2> HIDE DEF local
  <2>3. \A g \in Targets : Accounted(local, g)
    BY <2>1 DEF Accounted
  <2> QED BY <1>2, <2>1, <2>2, <2>3, LocalStep
<1> QED BY <1>3, <1>4

(* The lock file.                                                          *)
LEMMA LockInv ==
    \A r \in Runs :
      InstallerInv /\ (ReadLock(r) \/ Truncate(r) \/ Record(r) \/ RecordFails(r)) => InstallerInv'
<1> SUFFICES ASSUME NEW r \in Runs, InstallerInv,
                    ReadLock(r) \/ Truncate(r) \/ Record(r) \/ RecordFails(r)
             PROVE  InstallerInv'
  OBVIOUS
<1>1. LocalOK(run[r]) /\ Walks(run[r])
  BY DEF InstallerInv, InstallerType
<1>2. run[r].at \in {"lock", "truncate", "record"} /\ UNCHANGED <<command, edits, Files_>>
  BY DEF ReadLock, Truncate, Record, RecordFails, At
<1>3. ASSUME NEW read, NEW place \in {"truncate", "record"},
             Put(r, [run[r] EXCEPT !.at = place, !.read = read])
      PROVE  InstallerInv'
  <2> DEFINE local == [run[r] EXCEPT !.at = place, !.read = read]
  <2>1. LocalOK(local) /\ local.at = place /\ local.created = run[r].created
    BY <1>1 DEF LocalOK
  <2>2. Put(r, local)
    BY <1>3
  <2> HIDE DEF local
  <2>3. Walks(local) /\ \A g \in Targets : Accounted(run[r], g) => Accounted(local, g)
    BY <1>1, <1>2, <2>1 DEF Walks, Accounted
  <2> QED BY <1>2, <2>1, <2>2, <2>3, LocalStep
<1>4. CASE Put(r, Failed(run[r], 1))
  BY <1>2, <1>4, FailedStep
<1>5. CASE Put(r, EndsAs(run[r], "applied"))
  <2> DEFINE local == EndsAs(run[r], "applied")
  <2>1. LocalOK(local) /\ Walks(local) /\ local.at = "ended" /\ local.result = "applied"
    BY <1>1, EndsWith
  <2> HIDE DEF local
  <2>2. \A g \in Targets : Accounted(local, g)
    BY <2>1 DEF Accounted
  <2> QED BY <1>2, <1>5, <2>1, <2>2, LocalStep DEF local
<1>6. CASE ReadLock(r)
  BY <1>3, <1>4, <1>6 DEF ReadLock
<1>7. CASE Truncate(r)
  <2>1. [run[r] EXCEPT !.at = "record"] = [run[r] EXCEPT !.at = "record", !.read = run[r].read]
    BY <1>1 DEF LocalOK
  <2> QED BY <1>3, <1>7, <2>1 DEF Truncate
<1>8. CASE Record(r)
  BY <1>5, <1>8 DEF Record
<1>9. CASE RecordFails(r)
  BY <1>4, <1>9 DEF RecordFails
<1> QED BY <1>6, <1>7, <1>8, <1>9

(* The rollback, and the end of the process.                               *)
LEMMA UnlinkInv == \A r \in Runs : InstallerInv /\ Unlink(r) => InstallerInv'
<1> SUFFICES ASSUME NEW r \in Runs, InstallerInv, Unlink(r) PROVE InstallerInv'
  OBVIOUS
<1> DEFINE f == Min(run[r].left)
           gone == [run[r] EXCEPT !.left = @ \ {f}]
           kept == [run[r] EXCEPT !.left = @ \ {f},
                                  !.stuck = IF disk[f] = "missing" THEN @ ELSE @ \union {f}]
<1>1. LocalOK(run[r]) /\ Walks(run[r])
  BY DEF InstallerInv, InstallerType
<1>2. /\ run[r].at = "rollback" /\ run[r].left # {} /\ UNCHANGED <<command, edits>>
      /\ \/ Writes(f, "missing", "user") /\ Put(r, gone)
         \/ UNCHANGED Files_ /\ Put(r, kept)
  BY DEF Unlink, At
<1>3. f \in Targets
  BY <1>1, <1>2, LeastTarget DEF LocalOK
<1> HIDE DEF f
<1>4. disk \in [Targets -> Contents] /\ author \in [Targets -> Runs \cup {"user"}]
  BY DEF InstallerInv, InstallerType
<1>5. \A g \in Targets : author[g] = r /\ disk[g] = "source" => Accounted(run[r], g)
  BY DEF InstallerInv, OwnWork
<1>6. CASE Writes(f, "missing", "user") /\ Put(r, gone)
  <2>1. /\ LocalOK(gone) /\ gone.at = "rollback" /\ gone.left = run[r].left \ {f}
        /\ gone.created = run[r].created /\ gone.stuck = run[r].stuck
    BY <1>1, <1>2 DEF LocalOK
  <2> HIDE DEF gone
  <2>2. Walks(gone)
    BY <1>1, <1>2, <2>1 DEF Walks
  <2>3. disk' \in [Targets -> Contents] /\ author' \in [Targets -> Runs \cup {"user"}]
    BY <1>3, <1>4, <1>6 DEF Writes, Contents
  <2>4. \A g \in Targets :
          disk'[g] = "source" => g # f /\ disk[g] = "source" /\ author'[g] = author[g]
    BY <1>3, <1>4, <1>6 DEF Writes
  <2>5. \A g \in Targets \ {f} : Accounted(run[r], g) => Accounted(gone, g)
    BY <1>2, <2>1 DEF Accounted
  <2> QED BY <1>2, <1>5, <1>6, <2>1, <2>2, <2>3, <2>4, <2>5, RunStep
<1>7. CASE UNCHANGED Files_ /\ Put(r, kept)
  <2>1. /\ LocalOK(kept) /\ kept.at = "rollback" /\ kept.left = run[r].left \ {f}
        /\ kept.created = run[r].created
        /\ kept.stuck = IF disk[f] = "missing" THEN run[r].stuck ELSE run[r].stuck \cup {f}
    BY <1>1, <1>2, <1>3 DEF LocalOK
  <2> HIDE DEF kept
  <2>2. Walks(kept)
    BY <1>1, <1>2, <2>1 DEF Walks
  <2>3. disk' = disk /\ author' = author
    BY <1>7 DEF Files_
  <2>4. \A g \in Targets : disk[g] = "source" /\ Accounted(run[r], g) => Accounted(kept, g)
    BY <1>2, <2>1 DEF Accounted
  <2> QED BY <1>2, <1>4, <1>5, <1>7, <2>1, <2>2, <2>3, <2>4, RunStep
<1> QED BY <1>2, <1>6, <1>7

LEMMA RolledBackInv == \A r \in Runs : InstallerInv /\ RolledBack(r) => InstallerInv'
<1> SUFFICES ASSUME NEW r \in Runs, InstallerInv, RolledBack(r) PROVE InstallerInv'
  OBVIOUS
<1> DEFINE again == [run[r] EXCEPT !.unlinks = @ - 1, !.left = run[r].created]
<1>1. LocalOK(run[r]) /\ Walks(run[r])
  BY DEF InstallerInv, InstallerType
<1>2. /\ run[r].at = "rollback" /\ run[r].left = {} /\ UNCHANGED <<command, edits, Files_>>
      /\ Put(r, again) \/ Put(r, EndsAs(run[r], "threw"))
  BY DEF RolledBack, At
<1>3. CASE Put(r, again)
  <2>1. /\ LocalOK(again) /\ again.at = "rollback" /\ again.left = run[r].created
        /\ again.created = run[r].created /\ again.stuck = run[r].stuck
    BY <1>1, <1>2 DEF LocalOK
  <2> HIDE DEF again
  <2>2. Walks(again) /\ \A g \in Targets : Accounted(run[r], g) => Accounted(again, g)
    BY <1>1, <1>2, <2>1 DEF Walks, Accounted
  <2> QED BY <1>2, <1>3, <2>1, <2>2, LocalStep
<1>4. CASE Put(r, EndsAs(run[r], "threw"))
  <2> DEFINE local == EndsAs(run[r], "threw")
  <2>1. /\ LocalOK(local) /\ Walks(local) /\ local.at = "ended" /\ local.result = "threw"
        /\ local.stuck = run[r].stuck
    BY <1>1, EndsWith
  <2> HIDE DEF local
  <2>2. \A g \in Targets : Accounted(run[r], g) => Accounted(local, g)
    BY <1>2, <2>1 DEF Accounted
  <2> QED BY <1>2, <1>4, <2>1, <2>2, LocalStep DEF local
<1> QED BY <1>2, <1>3, <1>4

LEMMA CrashInv == \A r \in Runs : InstallerInv /\ Crash(r) => InstallerInv'
<1> SUFFICES ASSUME NEW r \in Runs, InstallerInv, Crash(r) PROVE InstallerInv'
  OBVIOUS
<1> DEFINE local == [Fresh EXCEPT !.at = "crashed"]
<1>1. Put(r, local) /\ UNCHANGED <<command, edits, Files_>>
  BY DEF Crash
<1>2. LocalOK(local) /\ Walks(local) /\ \A g \in Targets : Accounted(local, g)
  BY DEF Fresh, LocalOK, Walks, Accounted
<1> HIDE DEF local
<1> QED BY <1>1, <1>2, LocalStep

(* The user takes files and folders away and puts others there.            *)
LEMMA UserInv ==
    ASSUME InstallerInv,
           \/ \E f \in Targets, content \in Contents \ {"torn"} : UserEdits(f, content)
           \/ UserFolder
           \/ \E i \in Runs \union {Old} : Detach(i)
    PROVE  InstallerInv'
<1>1. /\ disk \in [Targets -> Contents] /\ author \in [Targets -> Runs \cup {"user"}]
      /\ edits \in Nat
  BY DEF InstallerInv, InstallerType
<1>2. command' = command /\ run' = run /\ edits' = edits + 1 /\ Targets' = Targets
  BY DEF UserEdits, UserFolder, Detach, Targets
<1>3. /\ disk' \in [Targets -> Contents] /\ author' \in [Targets -> Runs \cup {"user"}]
      /\ \A g \in Targets : author'[g] \in Runs => author'[g] = author[g] /\ disk'[g] = disk[g]
  <2>1. CASE disk' = disk /\ author' = author
    BY <1>1, <2>1
  <2>2. ASSUME NEW f \in Targets, NEW content \in Contents, Writes(f, content, "user")
        PROVE  <1>3!:
    BY <1>1, <2>2, InstallerAssumption DEF Writes
  <2> QED BY <2>1, <2>2 DEF UserEdits, UserFolder, Detach, Files_
<1>4. InstallerType'
  BY <1>1, <1>2, <1>3 DEF InstallerInv, InstallerType, LocalOK
<1>5. OwnWork'
  BY <1>2, <1>3 DEF InstallerInv, OwnWork, Accounted
<1> QED BY <1>2, <1>4, <1>5 DEF InstallerInv, Walks

LEMMA InstallerInvariance == InstallerSpec => []InstallerInv
<1>1. InstallerInv /\ [InstallerNext]_installerVars => InstallerInv'
  <2> SUFFICES ASSUME InstallerInv, [InstallerNext]_installerVars PROVE InstallerInv'
    OBVIOUS
  <2>1. CASE InstallerNext
    BY <2>1, StartInv, InspectInv, DecideInv, OpenInv, FillInv, WriteFailsInv, WrittenInv, LockInv,
       UnlinkInv, RolledBackInv, CrashInv, UserInv DEF InstallerNext
  <2>2. CASE UNCHANGED installerVars
    <3>1. /\ UNCHANGED <<command, disk, author, run, edits>>
          /\ Targets' = Targets
      BY <2>2 DEF installerVars, Files_, Targets
    <3>2. InstallerType' /\ OwnWork'
      BY <3>1 DEF InstallerInv, InstallerType, LocalOK, OwnWork, Accounted
    <3> QED BY <3>1, <3>2 DEF InstallerInv, Walks
  <2> QED BY <2>1, <2>2
<1> QED BY <1>1, InstallerInitInv, PTL DEF InstallerSpec

(* No step of a run, in whatever order it meets those of other runs, of the*)
(* user and of a crash, overwrites or removes what it did not write.       *)
LEMMA StepOverwritesNothing ==
    ASSUME InstallerInv, [InstallerNext]_installerVars,
           NEW f \in DOMAIN disk, disk'[f] # disk[f], edits' = edits
    PROVE  \/ disk[f] = "missing"
           \/ disk[f] = "torn" /\ author[f] \in Runs /\ disk'[f] = "source"
           \/ disk'[f] = "missing" /\ \E r \in Runs : f \in run[r].created
<1>1. disk \in [Targets -> Contents] /\ edits \in Nat /\ edits + 1 # edits
  BY DEF InstallerInv, InstallerType
<1>2. PICK r \in Runs : Open(r) \/ Fill(r) \/ Unlink(r)
  BY <1>1
  DEF InstallerNext, installerVars, Files_, Start, Inspect, InspectFolder, Decide, CheckFolder, WriteFails,
      Written, ReadLock, Truncate, Record, RecordFails, RolledBack, Crash, UserEdits, UserFolder, Detach
<1>3. CASE Open(r)
  BY <1>1, <1>3 DEF Open, MayOpen, Writes
<1>4. CASE Fill(r)
  BY <1>1, <1>4 DEF Fill, Writes, Files_
<1>5. CASE Unlink(r)
  <2> DEFINE g == Min(run[r].left)
  <2>1. run[r].left # {} /\ run[r].left \subseteq run[r].created /\ run[r].left \subseteq Nat
    BY <1>5, InstallerAssumption
    DEF Unlink, At, InstallerInv, InstallerType, LocalOK, Walks, Targets
  <2>2. g \in run[r].created
    BY <2>1, MinIsLeast
  <2>3. Writes(g, "missing", "user")
    BY <1>5 DEF Unlink, Files_
  <2> HIDE DEF g
  <2>4. f = g /\ disk'[f] = "missing"
    BY <1>1, <2>3 DEF Writes
  <2> QED BY <2>2, <2>4
<1> QED BY <1>2, <1>3, <1>4, <1>5

(* Nothing of the installer's stays where it failed, other than what the   *)
(* system would not remove, and nothing of the user's goes: for any number *)
(* of files and of runs side by side, with crashes and the user's edits    *)
(* between any two steps.                                                  *)
THEOREM InstallerLeavesTheProjectWhole == InstallerSpec => InstallsWhole
<1>1. InstallerInv => FailedLeavesNothing
  BY DEF InstallerInv, OwnWork, Accounted, FailedLeavesNothing, At
<1>2. InstallerInv /\ [InstallerNext]_installerVars
        => [\A f \in DOMAIN disk : disk'[f] # disk[f] /\ edits' = edits =>
               \/ disk[f] = "missing"
               \/ disk[f] = "torn" /\ author[f] \in Runs /\ disk'[f] = "source"
               \/ disk'[f] = "missing" /\ \E r \in Runs : f \in run[r].created]_installerVars
  BY StepOverwritesNothing
<1> QED BY <1>1, <1>2, InstallerInvariance, PTL DEF InstallerSpec, InstallsWhole, NeverOverwrites

-----------------------------------------------------------------------------
(* Flow: a subscription and its consumer.  The queue of a manual source    *)
(* holds what comes after the last value looked at (Row), and all that was *)
(* due up to there has been heard (Upto); of the searches at most one runs,*)
(* and while the end does not come inside a callback it is the current one.*)

Callbacks == {"drain", "return", "promise", "pump"}
FlowTypeOK ==
    /\ kind \in {"direct", "search", "pulled"} /\ dropped \in 0..MaxEmits /\ poison \in 0..MaxEmits
    /\ closed \in BOOLEAN /\ stopped \in BOOLEAN /\ timer \in BOOLEAN /\ debounced \in BOOLEAN
    /\ switching \in BOOLEAN /\ outerDone \in BOOLEAN /\ left \in BOOLEAN /\ nestedEnd \in BOOLEAN
    /\ queue \in Seq(Values \cup Ends) /\ heard \in Seq(Values \cup Ends) /\ inside \in Seq(Callbacks)
    /\ previous \in Nat /\ latest \in 0..MaxEmits /\ current \in 0..MaxEmits
    /\ inner \in [Values -> {"none", "running", "aborted", "settled"}]
    /\ emits \in 0..MaxEmits /\ taken \in 0..MaxEmits

(* Who is called back by what, and who left hears nothing.                 *)
KindsApart ==
    /\ kind = "direct" => inside \in {<<>>, <<"drain">>} /\ (switching <=> ~stopped)
    /\ kind = "search" => \A i \in DOMAIN inside : inside[i] \in {"return", "promise"}
    /\ kind = "pulled" => \A i \in DOMAIN inside : inside[i] \in {"return", "pump"}
    /\ left => ~switching /\ stopped
    /\ heard # <<>> /\ Last(heard) \in Ends => IF kind = "pulled" THEN closed ELSE ~switching

(* Of the searches: what is closed with what, and the one that may run.    *)
Running(v) == v \in Values /\ inner[v] = "running"
DebounceInv ==
    /\ (debounced <=> stopped)
    /\ ~switching \/ closed \/ outerDone => stopped
    /\ nestedEnd => closed
    /\ debounced => ~timer
    /\ timer => latest # 0
    /\ latest # 0 /\ ~debounced => timer
    /\ latest <= emits
    /\ \A v \in Values : inner[v] # "none" => v <= emits /\ (latest # 0 => v < latest)
SwitchInv ==
    /\ \A v, w \in Values : Running(v) /\ Running(w) => v = w
    /\ ~debounced => \A v \in Values : Running(v) => v = current
    /\ ~nestedEnd => \A v \in Values : Running(v) => v = current /\ switching
    /\ ~nestedEnd => \A i \in DOMAIN inside, v \in Values : inside[i] = "promise" => ~Running(v)
    /\ ~nestedEnd /\ switching /\ outerDone => current # 0
    /\ \A i \in DOMAIN heard : heard[i] \in Values => inner[heard[i]] = "settled"
    /\ \A i \in DOMAIN heard, v \in Values : heard[i] \in Values /\ Running(v) => heard[i] < v
    /\ \A i, j \in DOMAIN heard : i < j /\ heard[j] \in Values => heard[i] < heard[j]
SearchInv == kind = "search" => DebounceInv /\ SwitchInv

(* Of the queue: it holds what comes after r, and the end if there is one. *)
Row(q, r, ended, last) ==
    /\ r \in 0..last
    /\ q \in Seq(Values \cup Ends)
    /\ \A i \in 1..(last - r) : q[i] = r + i
    /\ ended => Len(q) = (last - r) + 1 /\ q[(last - r) + 1] \in Ends
    /\ ~ended => Len(q) = last - r
(* What is known once all up to r has been taken from it.                  *)
Upto(r) ==
    /\ poison \in {0, dropped} \/ r < poison
    /\ \A u \in 1..r : Fit(u) => Key(u) <= previous
    /\ previous # 0 => \E u \in 1..r : Fit(u) /\ Key(u) = previous
    /\ \A i \in DOMAIN heard : heard[i] \in 1..r
    /\ \A v \in 1..r : Turn(v) => \E i \in DOMAIN heard : heard[i] = v
HeardInv ==
    /\ \A i, j \in DOMAIN heard : i < j /\ heard[j] \in Values => heard[i] \in Values /\ heard[i] < heard[j]
    /\ \A i \in DOMAIN heard : heard[i] \in Values => heard[i] \in Due
    /\ \A i \in DOMAIN heard, v \in Due : heard[i] \in Values /\ v < heard[i] =>
          \E j \in DOMAIN heard : heard[j] = v
    /\ stopped /\ ~left => \A v \in Due : \E i \in DOMAIN heard : heard[i] = v
DirectInv == kind = "direct" =>
    /\ HeardInv
    /\ queue # <<>> /\ ~stopped => inside # <<>>
    /\ ~stopped => emits = taken /\ \E r \in 0..taken : Row(queue, r, closed, taken) /\ Upto(r)

FlowInv == FlowTypeOK /\ KindsApart /\ SearchInv /\ DirectInv

-----------------------------------------------------------------------------
(* What Front, Last and Append give.                                       *)
LEMMA FrontOfSeq ==
    ASSUME NEW S, NEW s \in Seq(S), s # <<>>
    PROVE  /\ Front(s) \in Seq(S) /\ Last(s) \in S /\ Len(Front(s)) = Len(s) - 1
           /\ Last(s) = s[Len(s)] /\ Len(s) \in DOMAIN s
           /\ \A i \in DOMAIN Front(s) : i \in DOMAIN s /\ Front(s)[i] = s[i]
<1>1. Len(s) \in Nat /\ Len(s) > 0 /\ DOMAIN s = 1..Len(s)
  OBVIOUS
<1>2. Front(s) = SubSeq(s, 1, Len(s) - 1)
  BY DEF Front
<1>3. Front(s) \in Seq(S) /\ Len(Front(s)) = Len(s) - 1
  BY <1>1, <1>2
<1>4. \A i \in 1..(Len(s) - 1) : Front(s)[i] = s[i]
  BY <1>1, <1>2
<1>5. Last(s) = s[Len(s)] /\ Last(s) \in S
  BY <1>1 DEF Last
<1> HIDE DEF Front, Last
<1> QED BY <1>1, <1>3, <1>4, <1>5

LEMMA AppendToSeq ==
    ASSUME NEW S, NEW s \in Seq(S), NEW x \in S
    PROVE  /\ Append(s, x) \in Seq(S) /\ Append(s, x) # <<>>
           /\ Last(Append(s, x)) = x
           /\ \A i \in DOMAIN Append(s, x) :
                 \/ i \in DOMAIN s /\ Append(s, x)[i] = s[i]
                 \/ i = Len(s) + 1 /\ Append(s, x)[i] = x
           /\ \A i \in DOMAIN s : i \in Int /\ i < Len(s) + 1 /\ i \in DOMAIN Append(s, x) /\ Append(s, x)[i] = s[i]
           /\ Len(s) + 1 \in DOMAIN Append(s, x) /\ Append(s, x)[Len(s) + 1] = x
BY DEF Last

(* A callback: one thing more was heard, one frame more is on the stack.   *)
Heard(what) ==
    /\ heard' \in Seq(Values \cup Ends) /\ heard' # <<>> /\ Last(heard') = what
    /\ \A i \in DOMAIN heard' : \/ i \in DOMAIN heard /\ heard'[i] = heard[i]
                                \/ i = Len(heard) + 1 /\ heard'[i] = what
    /\ \A i \in DOMAIN heard : i \in Int /\ i < Len(heard) + 1 /\ i \in DOMAIN heard' /\ heard'[i] = heard[i]
    /\ Len(heard) + 1 \in DOMAIN heard' /\ heard'[Len(heard) + 1] = what
Framed(then) ==
    /\ inside' \in Seq(Callbacks) /\ inside' # <<>>
    /\ \A i \in DOMAIN inside' : (i \in DOMAIN inside /\ inside'[i] = inside[i]) \/ inside'[i] = then
Unframed ==
    /\ inside' \in Seq(Callbacks)
    /\ \A i \in DOMAIN inside' : i \in DOMAIN inside /\ inside'[i] = inside[i]

LEMMA AppendHeard ==
    ASSUME FlowTypeOK, NEW what \in Values \cup Ends, heard' = Append(heard, what)
    PROVE  Heard(what)
<1>1. heard \in Seq(Values \cup Ends)
  BY DEF FlowTypeOK
<1> QED BY <1>1, AppendToSeq DEF Heard

LEMMA ToldIsHeard ==
    ASSUME FlowTypeOK, NEW what \in Values \cup Ends, NEW then \in Callbacks, Told(what, then)
    PROVE  Heard(what) /\ Framed(then)
<1>1. inside \in Seq(Callbacks)
  BY DEF FlowTypeOK
<1>2. Heard(what)
  BY AppendHeard DEF Told
<1>3. Framed(then)
  BY <1>1, AppendToSeq DEF Told, Framed
<1> QED BY <1>2, <1>3

LEMMA FrontIsUnframed ==
    ASSUME FlowTypeOK, inside # <<>>
    PROVE  /\ Last(inside) = inside[Len(inside)] /\ Len(inside) \in DOMAIN inside
           /\ inside' = Front(inside) => Unframed
<1>1. inside \in Seq(Callbacks)
  BY DEF FlowTypeOK
<1> QED BY <1>1, FrontOfSeq DEF Unframed

(* Values are numbers from 1, ends are below.                              *)
LEMMA ValuesAndEnds ==
    /\ Values \subseteq Nat /\ Values \subseteq 0..MaxEmits /\ Values \cap Ends = {} /\ 0 \notin Values
    /\ Complete \in Ends /\ Failure \in Ends /\ Complete # Failure
    /\ \A e \in Ends : e \in Int /\ e < 0
    /\ \A v \in 0..MaxEmits : v # 0 => v \in Values
    /\ \A v \in Values : v \in Nat /\ v > 0
    /\ \A v \in Nat : v < MaxEmits => v + 1 \in Values
BY FlowBounds DEF Values, Ends, Complete, Failure

LEMMA FlowInvInitially == FlowInit => FlowInv
<1> SUFFICES ASSUME FlowInit PROVE FlowInv
  OBVIOUS
<1>1. FlowTypeOK
  <2>1. /\ kind \in {"direct", "search", "pulled"} /\ dropped \in 0..MaxEmits /\ poison \in 0..MaxEmits
        /\ closed \in BOOLEAN /\ stopped \in BOOLEAN /\ timer \in BOOLEAN /\ debounced \in BOOLEAN
        /\ switching \in BOOLEAN /\ outerDone \in BOOLEAN /\ left \in BOOLEAN /\ nestedEnd \in BOOLEAN
    BY ZenonT(30) DEF FlowInit
  <2>2. 0 \in Nat /\ 0 \in 0..MaxEmits
    BY FlowBounds
  <2>3. /\ previous \in Nat /\ latest \in 0..MaxEmits /\ current \in 0..MaxEmits
        /\ emits \in 0..MaxEmits /\ taken \in 0..MaxEmits
    BY <2>2 DEF FlowInit
  <2>4. queue \in Seq(Values \cup Ends) /\ heard \in Seq(Values \cup Ends) /\ inside \in Seq(Callbacks)
    BY DEF FlowInit
  <2>5. inner \in [Values -> {"none", "running", "aborted", "settled"}]
    BY DEF FlowInit
  <2> QED BY <2>1, <2>3, <2>4, <2>5 DEF FlowTypeOK
<1>2. KindsApart
  BY DEF FlowInit, KindsApart
<1>3. DebounceInv
  BY FlowBounds DEF FlowInit, DebounceInv
<1>4. SwitchInv
  BY DEF FlowInit, SwitchInv, Running
<1>5. DirectInv
  <2>1. DOMAIN heard = {} /\ queue = <<>> /\ Len(queue) = 0 /\ taken = 0 /\ ~stopped /\ emits = 0 /\ ~closed
    BY DEF FlowInit
  <2>2. HeardInv
    BY <2>1 DEF HeardInv
  <2>4. ASSUME kind = "direct" PROVE Row(queue, 0, closed, taken) /\ Upto(0)
    <3>1. previous = 0 /\ (poison = 0 \/ 0 < poison)
      BY FlowBounds DEF FlowInit
    <3>2. Row(queue, 0, closed, taken)
      BY <2>1 DEF Row
    <3>3. Upto(0)
      BY <2>1, <3>1 DEF Upto
    <3> QED BY <3>2, <3>3
  <2> QED BY <2>1, <2>2, <2>4 DEF DirectInv
<1> QED BY <1>1, <1>2, <1>3, <1>4, <1>5 DEF FlowInv, SearchInv

-----------------------------------------------------------------------------
(* The searches.                                                           *)
LEMMA OtherKinds ==
    ASSUME UNCHANGED settings
    PROVE  /\ kind # "direct" => DirectInv'
           /\ kind # "search" => SearchInv'
BY DEF settings, DirectInv, SearchInv

(* The promises after the current one was aborted, and after another began.*)
LEMMA AbortedPromises ==
    ASSUME NEW p \in [Values -> {"none", "running", "aborted", "settled"}]
    PROVE  /\ Aborted(p) \in [Values -> {"none", "running", "aborted", "settled"}]
           /\ \A v \in Values : Aborted(p)[v] = "running" => p[v] = "running" /\ v # current
           /\ \A v \in Values : p[v] = "settled" => Aborted(p)[v] = "settled"
           /\ \A v \in Values : Aborted(p)[v] # "none" => p[v] # "none"
BY DEF Aborted

LEMMA SearchEmit ==
    ASSUME FlowInv, kind = "search", Emit
    PROVE  FlowInv'
<1>1. FlowTypeOK /\ KindsApart /\ DebounceInv /\ SwitchInv
  BY DEF FlowInv, SearchInv
<1>2. /\ UNCHANGED <<settings, closed, left, nestedEnd, heard, inside, queue, previous, stopped, switchVars>>
      /\ ~closed /\ emits < MaxEmits /\ emits' = emits + 1
      /\ taken' \in {taken, emits + 1}
      /\ IF stopped \/ debounced THEN UNCHANGED debounceVars
         ELSE latest' = emits + 1 /\ timer' = TRUE /\ UNCHANGED debounced
  BY DEF Emit, Quiet, Debounce
<1>3. FlowTypeOK'
  <2>1. emits' \in 0..MaxEmits /\ taken' \in 0..MaxEmits /\ latest' \in 0..MaxEmits
    BY <1>1, <1>2, FlowBounds DEF FlowTypeOK, debounceVars
  <2>2. timer' \in BOOLEAN /\ debounced' \in BOOLEAN
    BY <1>1, <1>2 DEF FlowTypeOK, debounceVars
  <2> QED BY <1>1, <1>2, <2>1, <2>2 DEF FlowTypeOK, settings, switchVars
<1>4. KindsApart'
  BY <1>1, <1>2 DEF KindsApart, settings, switchVars
<1>5. DebounceInv'
  BY <1>1, <1>2, ValuesAndEnds, FlowBounds DEF DebounceInv, FlowTypeOK, debounceVars, switchVars
<1>6. SwitchInv'
  BY <1>1, <1>2 DEF SwitchInv, Running, debounceVars, switchVars, DebounceInv
<1> QED BY <1>2, <1>3, <1>4, <1>5, <1>6, OtherKinds DEF FlowInv, SearchInv

(* The pipeline is torn down, in silence or with one thing told.           *)
PromisesAborted ==
    /\ inner' \in [Values -> {"none", "running", "aborted", "settled"}]
    /\ \A v \in Values : Running(v)' => Running(v) /\ v # current
    /\ \A v \in Values : inner[v] = "settled" => inner'[v] = "settled"
    /\ \A v \in Values : inner'[v] # "none" => inner[v] # "none"

LEMMA AbortedAreAborted ==
    ASSUME FlowTypeOK, inner' = Aborted(inner)
    PROVE  PromisesAborted
BY AbortedPromises DEF FlowTypeOK, Aborted, PromisesAborted, Running

LEMMA SettledAreAborted ==
    ASSUME FlowTypeOK, NEW w \in Values, inner[w] # "none", inner' = Aborted([inner EXCEPT ![w] = "settled"])
    PROVE  PromisesAborted
BY DEF FlowTypeOK, Aborted, PromisesAborted, Running

LEMMA SearchTornDown ==
    ASSUME FlowInv, kind = "search", UNCHANGED <<settings, previous, emits, taken, current>>,
           queue' \in Seq(Values \cup Ends),
           switching' = FALSE, stopped' = TRUE, timer' = FALSE, debounced' = TRUE, UNCHANGED <<latest, outerDone>>,
           PromisesAborted,
           closed' \in BOOLEAN, left' \in BOOLEAN, nestedEnd' \in BOOLEAN,
           closed => closed', ~closed' => ~nestedEnd', ~nestedEnd' => ~nestedEnd,
           \/ UNCHANGED <<heard, inside>>
           \/ switching /\ left' = left /\ Told(Failure, "return")
    PROVE  FlowInv'
<1>1. FlowTypeOK /\ KindsApart /\ DebounceInv /\ SwitchInv
  BY DEF FlowInv, SearchInv
<1>2. /\ switching' = FALSE /\ stopped' = TRUE /\ timer' = FALSE /\ debounced' = TRUE
      /\ UNCHANGED <<latest, outerDone>>
  OBVIOUS
<1>3. /\ inner' \in [Values -> {"none", "running", "aborted", "settled"}]
      /\ \A v \in Values : Running(v)' => Running(v) /\ v # current
      /\ \A v \in Values : inner[v] = "settled" => inner'[v] = "settled"
      /\ \A v \in Values : inner'[v] # "none" => inner[v] # "none"
  BY DEF PromisesAborted
<1>4. CASE UNCHANGED <<heard, inside>>
  <2>1. FlowTypeOK'
    BY <1>1, <1>2, <1>3, <1>4 DEF FlowTypeOK, settings
  <2>2. KindsApart'
    BY <1>1, <1>2, <1>4 DEF KindsApart, settings
  <2>3. DebounceInv'
    BY <1>1, <1>2, <1>3 DEF DebounceInv
  <2>4. SwitchInv'
    BY <1>1, <1>2, <1>3, <1>4 DEF SwitchInv
  <2> QED BY <2>1, <2>2, <2>3, <2>4, OtherKinds DEF FlowInv, SearchInv
<1>5. CASE switching /\ left' = left /\ Told(Failure, "return")
  <2>0. Heard(Failure) /\ Framed("return") /\ Failure \in Ends /\ Failure \notin Values /\ left' = left
    BY <1>1, <1>5, ToldIsHeard, ValuesAndEnds DEF Callbacks
  <2>1. FlowTypeOK'
    <3>1. heard' \in Seq(Values \cup Ends) /\ inside' \in Seq(Callbacks)
      BY <2>0 DEF Heard, Framed
    <3> QED BY <1>1, <1>2, <1>3, <2>0, <3>1 DEF FlowTypeOK, settings
  <2>2. KindsApart'
    BY <1>1, <1>2, <2>0 DEF KindsApart, Heard, Framed, settings
  <2>3. DebounceInv'
    BY <1>1, <1>2, <1>3 DEF DebounceInv
  <2>4. SwitchInv'
    <3>1. \A i \in DOMAIN heard' : heard'[i] \in Values => i \in DOMAIN heard /\ heard'[i] = heard[i]
      BY <2>0 DEF Heard
    <3>2. \A i \in DOMAIN inside' : inside'[i] = "promise" => i \in DOMAIN inside /\ inside[i] = "promise"
      BY <2>0 DEF Framed
    <3>3. \A i, j \in DOMAIN heard' : i < j /\ heard'[j] \in Values => heard'[i] < heard'[j]
      <4> SUFFICES ASSUME NEW i \in DOMAIN heard', NEW j \in DOMAIN heard', i < j, heard'[j] \in Values
                   PROVE  heard'[i] < heard'[j]
        OBVIOUS
      <4>1. j \in DOMAIN heard /\ heard'[j] = heard[j]
        BY <3>1
      <4>2. i \in DOMAIN heard /\ heard'[i] = heard[i]
        BY <2>0, <4>1 DEF Heard
      <4> QED BY <1>1, <4>1, <4>2 DEF SwitchInv
    <3> QED BY <1>1, <1>2, <1>3, <3>1, <3>2, <3>3 DEF SwitchInv
  <2> QED BY <2>1, <2>2, <2>3, <2>4, OtherKinds DEF FlowInv, SearchInv
<1> QED BY <1>4, <1>5

(* What was heard grows by one thing above all before it, or by an end.    *)
LEMMA HeardInOrder ==
    ASSUME SwitchInv, NEW what, Heard(what),
           what \in Values => \A i \in DOMAIN heard : heard[i] \in Values => heard[i] < what,
           \A i \in DOMAIN heard : heard[i] \in Values \cup Ends,
           what \in Values \/ what \in Ends
    PROVE  \A i, j \in DOMAIN heard' : i < j /\ heard'[j] \in Values => heard'[i] < heard'[j]
<1> SUFFICES ASSUME NEW i \in DOMAIN heard', NEW j \in DOMAIN heard', i < j, heard'[j] \in Values
             PROVE  heard'[i] < heard'[j]
  OBVIOUS
<1>1. i \in DOMAIN heard /\ heard'[i] = heard[i]
  BY DEF Heard
<1>2. CASE j \in DOMAIN heard /\ heard'[j] = heard[j]
  BY <1>1, <1>2 DEF SwitchInv
<1>3. CASE j = Len(heard) + 1 /\ heard'[j] = what
  <2>1. what \in Values /\ what \in Nat /\ what > 0
    BY <1>3, ValuesAndEnds
  <2>2. CASE heard[i] \in Values
    BY <1>1, <1>3, <2>1, <2>2
  <2>3. CASE heard[i] \in Ends
    BY <1>1, <1>3, <2>1, <2>3, ValuesAndEnds
  <2> QED BY <1>1, <2>2, <2>3
<1> QED BY <1>2, <1>3 DEF Heard

(* debounce() asks for the value it has: the promise before is aborted.    *)
LEMMA SearchSwitched ==
    ASSUME FlowInv, kind = "search", UNCHANGED <<settings, queue, previous, emits, taken, left, heard, inside, switching>>,
           ~debounced, latest # 0, Switched(latest), latest' = 0, timer' = FALSE,
           closed => closed', closed' \in BOOLEAN,
           nestedEnd' \in BOOLEAN, nestedEnd' => closed', ~nestedEnd' => ~nestedEnd,
           \/ UNCHANGED <<debounced, outerDone, stopped, closed>>
           \/ debounced' = TRUE /\ stopped' = TRUE /\ outerDone' = TRUE /\ (nestedEnd' <=> inside # <<>>),
           nestedEnd' \/ inside = <<>>, switching
    PROVE  FlowInv'
<1>1. FlowTypeOK /\ KindsApart /\ DebounceInv /\ SwitchInv
  BY DEF FlowInv, SearchInv
<1>2. latest \in Values /\ current' = latest
  BY <1>1, ValuesAndEnds DEF FlowTypeOK, Switched
<1>3. /\ inner' \in [Values -> {"none", "running", "aborted", "settled"}]
      /\ \A v \in Values : Running(v)' => v = latest
      /\ \A v \in Values : inner[v] = "settled" => inner'[v] = "settled"
      /\ \A v \in Values : inner'[v] # "none" => inner[v] # "none" \/ v = latest
  <2>1. inner \in [Values -> {"none", "running", "aborted", "settled"}]
    BY <1>1 DEF FlowTypeOK
  <2>2. inner' = [Aborted(inner) EXCEPT ![latest] = "running"]
    BY DEF Switched
  <2>3. \A v \in Values : Aborted(inner)[v] # "running"
    BY <1>1, <2>1, AbortedPromises DEF SwitchInv, Running
  <2>4. inner[latest] = "none"
    BY <1>1, <1>2, ValuesAndEnds DEF DebounceInv
  <2> QED BY <1>2, <2>1, <2>2, <2>3, <2>4, AbortedPromises DEF Running
<1>4. latest \in Nat /\ latest <= emits
  BY <1>1, <1>2, ValuesAndEnds DEF DebounceInv
<1>5. FlowTypeOK'
  <2>1. latest' \in 0..MaxEmits /\ current' \in 0..MaxEmits
    BY <1>1, <1>2, FlowBounds DEF FlowTypeOK
  <2>2. timer' \in BOOLEAN /\ debounced' \in BOOLEAN /\ stopped' \in BOOLEAN /\ outerDone' \in BOOLEAN
    BY <1>1 DEF FlowTypeOK
  <2> QED BY <1>1, <1>3, <2>1, <2>2 DEF FlowTypeOK, settings
<1>6. KindsApart'
  BY <1>1 DEF KindsApart, settings
<1>7. DebounceInv'
  <2>1. latest' <= emits' /\ emits' = emits
    BY <1>1 DEF FlowTypeOK
  <2> QED BY <1>1, <1>3, <1>4, <2>1 DEF DebounceInv
<1>8. SwitchInv'
  <2>1. \A i \in DOMAIN heard : heard[i] \in Values => heard[i] < latest
    BY <1>1, <1>2 DEF SwitchInv, DebounceInv
  <2>2. latest # 0
    OBVIOUS
  <2> QED BY <1>1, <1>2, <1>3, <2>1, <2>2 DEF SwitchInv
<1> QED BY <1>5, <1>6, <1>7, <1>8, OtherKinds DEF FlowInv, SearchInv

LEMMA SearchFlushes ==
    ASSUME FlowInv, NEW throws \in BOOLEAN, FlushTimer(throws)
    PROVE  FlowInv'
<1>1. FlowTypeOK /\ KindsApart /\ (kind = "search" => DebounceInv /\ SwitchInv)
  BY DEF FlowInv, SearchInv
<1>2. /\ kind = "search" /\ inside = <<>> /\ timer /\ latest' = 0
      /\ UNCHANGED <<settings, closed, queue, previous, left, emits, taken, nestedEnd>>
  BY DEF FlushTimer, InFlow
<1>3. ~debounced /\ latest # 0 /\ ~stopped /\ switching /\ ~closed /\ ~outerDone /\ ~nestedEnd
  BY <1>1, <1>2 DEF DebounceInv
<1>4. CASE throws
  <2>1. /\ switching' = FALSE /\ inner' = Aborted(inner) /\ stopped' = TRUE
        /\ timer' = FALSE /\ debounced' = TRUE
        /\ Told(Failure, "return") /\ UNCHANGED <<outerDone, current>>
    BY <1>4 DEF FlushTimer
  <2>2. Heard(Failure) /\ Framed("return") /\ Failure \in Ends /\ Failure \notin Values
    BY <1>1, <2>1, ToldIsHeard, ValuesAndEnds DEF Callbacks
  <2>3. inner \in [Values -> {"none", "running", "aborted", "settled"}]
    BY <1>1 DEF FlowTypeOK
  <2>4. /\ inner' \in [Values -> {"none", "running", "aborted", "settled"}]
        /\ \A v \in Values : Running(v)' => Running(v) /\ v # current
        /\ \A v \in Values : inner[v] = "settled" => inner'[v] = "settled"
        /\ \A v \in Values : inner'[v] # "none" => inner[v] # "none"
    BY <2>1, <2>3, AbortedPromises DEF Running
  <2>5. FlowTypeOK'
    <3>1. heard' \in Seq(Values \cup Ends) /\ inside' \in Seq(Callbacks)
      BY <2>2 DEF Heard, Framed
    <3>2. 0 \in 0..MaxEmits
      BY FlowBounds
    <3> QED BY <1>1, <1>2, <2>1, <2>4, <3>1, <3>2 DEF FlowTypeOK, settings
  <2>6. KindsApart'
    BY <1>1, <1>2, <2>1, <2>2 DEF KindsApart, Heard, Framed, settings
  <2>7. DebounceInv'
    BY <1>1, <1>2, <1>3, <2>1, <2>4, FlowBounds DEF DebounceInv, FlowTypeOK
  <2>8. SwitchInv'
    <3>1. \A i \in DOMAIN heard' : heard'[i] \in Values => i \in DOMAIN heard /\ heard'[i] = heard[i]
      BY <2>2 DEF Heard
    <3>2. \A i \in DOMAIN inside' : inside'[i] = "promise" => i \in DOMAIN inside /\ inside[i] = "promise"
      BY <2>2 DEF Framed
    <3>3. \A i \in DOMAIN heard : heard[i] \in Values \cup Ends
      BY <1>1 DEF FlowTypeOK
    <3>4. \A i, j \in DOMAIN heard' : i < j /\ heard'[j] \in Values => heard'[i] < heard'[j]
      BY <1>1, <1>2, <2>2, <3>3, HeardInOrder
    <3>5. \A v \in Values : ~Running(v)'
      BY <1>1, <1>2, <1>3, <2>4 DEF SwitchInv
    <3> QED BY <1>1, <1>2, <2>1, <2>4, <3>1, <3>2, <3>4, <3>5 DEF SwitchInv
  <2> QED BY <1>2, <2>5, <2>6, <2>7, <2>8, OtherKinds DEF FlowInv, SearchInv
<1>5. CASE ~throws
  <2>1. /\ timer' = FALSE /\ Switched(latest)
        /\ UNCHANGED <<heard, inside>> /\ UNCHANGED <<debounced, switching, outerDone, stopped>>
    BY <1>5 DEF FlushTimer, Quiet
  <2>2. closed \in BOOLEAN /\ nestedEnd \in BOOLEAN
    BY <1>1 DEF FlowTypeOK
  <2> QED BY <1>2, <1>3, <2>1, <2>2, SearchSwitched
<1> QED BY <1>4, <1>5

LEMMA SearchUnsubscribe ==
    ASSUME FlowInv, kind = "search", Unsubscribe
    PROVE  FlowInv'
<1>1. FlowTypeOK /\ KindsApart /\ (kind = "search" => DebounceInv)
  BY DEF FlowInv, SearchInv
<1>2. /\ left' = TRUE /\ TornDown(inner) /\ queue' = <<>>
      /\ UNCHANGED <<settings, current, closed, previous, heard, inside, emits, taken, nestedEnd>>
  BY DEF Unsubscribe
<1>3. PromisesAborted
  BY <1>1, <1>2, AbortedAreAborted DEF TornDown
<1>4. queue' \in Seq(Values \cup Ends) /\ closed' \in BOOLEAN /\ left' \in BOOLEAN /\ nestedEnd' \in BOOLEAN
  BY <1>1, <1>2 DEF FlowTypeOK
<1>5. (closed => closed') /\ (~closed' => ~nestedEnd') /\ (~nestedEnd' => ~nestedEnd)
  BY <1>1, <1>2 DEF DebounceInv
<1> QED BY <1>2, <1>3, <1>4, <1>5, SearchTornDown DEF TornDown

(* What maybeComplete() does, when it is not called in a promise's callback.*)
LEMMA SearchCompletes ==
    ASSUME FlowInv, kind = "search", SourceEnds(Complete)
    PROVE  FlowInv'
<1>1. FlowTypeOK /\ KindsApart /\ DebounceInv /\ SwitchInv
  BY DEF FlowInv, SearchInv
<1>2. /\ ~closed /\ closed' = TRUE /\ nestedEnd' = (inside # <<>>)
      /\ CompleteSearch
      /\ UNCHANGED <<queue, previous, settings, left, emits, taken>>
  BY DEF SourceEnds, Complete, Failure
<1>3. nestedEnd' \in BOOLEAN /\ (nestedEnd' <=> inside # <<>>) /\ ~nestedEnd
  BY <1>1, <1>2 DEF DebounceInv
<1>4. CASE debounced
  <2>1. UNCHANGED <<heard, inside, debounceVars, switchVars, stopped>>
    BY <1>2, <1>4 DEF CompleteSearch, Quiet
  <2>2. FlowTypeOK'
    BY <1>1, <1>2, <1>3, <2>1 DEF FlowTypeOK, settings, debounceVars, switchVars
  <2>3. KindsApart'
    BY <1>1, <1>2, <2>1 DEF KindsApart, settings, debounceVars, switchVars
  <2>4. DebounceInv'
    BY <1>1, <1>2, <1>4, <2>1 DEF DebounceInv, debounceVars, switchVars
  <2>5. SwitchInv'
    BY <1>1, <1>3, <2>1 DEF SwitchInv, Running, debounceVars, switchVars
  <2> QED BY <1>2, <2>2, <2>3, <2>4, <2>5, OtherKinds DEF FlowInv, SearchInv
<1>5. CASE ~debounced
  <2>1. /\ stopped' = TRUE /\ debounced' = TRUE /\ timer' = FALSE /\ latest' = 0 /\ outerDone' = TRUE
        /\ IF latest # 0 /\ switching
           THEN Switched(latest) /\ UNCHANGED switching /\ Quiet
           ELSE MaybeComplete(TRUE, current) /\ UNCHANGED <<current, inner>>
    BY <1>1, <1>2, <1>5 DEF CompleteSearch, DebounceInv
  <2>2. switching /\ ~stopped /\ ~outerDone
    BY <1>1, <1>5 DEF DebounceInv
  <2>3. CASE latest # 0
    <3>1. Switched(latest) /\ UNCHANGED <<switching, heard, inside>>
      BY <2>1, <2>2, <2>3 DEF Quiet
    <3> QED BY <1>2, <1>3, <1>5, <2>1, <2>2, <2>3, <3>1, SearchSwitched
  <2>4. CASE latest = 0 /\ current = 0
    <3>1. switching' = FALSE /\ Told(Complete, "return") /\ UNCHANGED <<current, inner>>
      BY <2>1, <2>2, <2>4 DEF MaybeComplete
    <3>2. Heard(Complete) /\ Framed("return") /\ Complete \in Ends /\ Complete \notin Values
      BY <1>1, <3>1, ToldIsHeard, ValuesAndEnds DEF Callbacks
    <3>3. \A v \in Values : ~Running(v)
      BY <1>1, <1>5, <2>4, ValuesAndEnds DEF SwitchInv
    <3>4. FlowTypeOK'
      <4>1. heard' \in Seq(Values \cup Ends) /\ inside' \in Seq(Callbacks)
        BY <3>2 DEF Heard, Framed
      <4> QED BY <1>1, <1>2, <1>3, <2>1, <2>4, <3>1, <4>1 DEF FlowTypeOK, settings
    <3>5. KindsApart'
      BY <1>1, <1>2, <2>1, <3>1, <3>2 DEF KindsApart, Heard, Framed, settings
    <3>6. DebounceInv'
      BY <1>1, <1>2, <2>1, <2>4, <3>1 DEF DebounceInv
    <3>7. SwitchInv'
      <4>1. \A i \in DOMAIN heard' : heard'[i] \in Values => i \in DOMAIN heard /\ heard'[i] = heard[i]
        BY <3>2 DEF Heard
      <4>2. \A i \in DOMAIN heard : heard[i] \in Values \cup Ends
        BY <1>1 DEF FlowTypeOK
      <4>3. \A i, j \in DOMAIN heard' : i < j /\ heard'[j] \in Values => heard'[i] < heard'[j]
        BY <1>1, <3>2, <4>2, HeardInOrder
      <4>4. \A v \in Values : ~Running(v)'
        BY <3>1, <3>3 DEF Running
      <4> QED BY <1>1, <2>1, <3>1, <4>1, <4>3, <4>4 DEF SwitchInv
    <3> QED BY <1>2, <3>4, <3>5, <3>6, <3>7, OtherKinds DEF FlowInv, SearchInv
  <2>5. CASE latest = 0 /\ current # 0
    <3>1. UNCHANGED <<switching, heard, inside, current, inner>>
      BY <2>1, <2>5 DEF MaybeComplete, Quiet
    <3>2. FlowTypeOK'
      BY <1>1, <1>2, <1>3, <2>1, <2>5, <3>1 DEF FlowTypeOK, settings
    <3>3. KindsApart'
      BY <1>1, <1>2, <2>1, <3>1 DEF KindsApart, settings
    <3>4. DebounceInv'
      BY <1>1, <1>2, <2>1, <2>5, <3>1 DEF DebounceInv
    <3>5. SwitchInv'
      <4>1. \A v : Running(v)' <=> Running(v)
        BY <3>1 DEF Running
      <4> QED BY <1>1, <1>3, <2>1, <2>5, <3>1, <4>1 DEF SwitchInv
    <3> QED BY <1>2, <3>2, <3>3, <3>4, <3>5, OtherKinds DEF FlowInv, SearchInv
  <2> QED BY <2>3, <2>4, <2>5
<1> QED BY <1>4, <1>5

LEMMA SearchFails ==
    ASSUME FlowInv, kind = "search", SourceEnds(Failure)
    PROVE  FlowInv'
<1>1. FlowTypeOK /\ KindsApart /\ DebounceInv /\ SwitchInv
  BY DEF FlowInv, SearchInv
<1>2. /\ ~closed /\ closed' = TRUE /\ nestedEnd' = (inside # <<>>)
      /\ IF stopped THEN UNCHANGED <<heard, inside, debounceVars, switchVars, stopped>> ELSE Terminate(inner)
      /\ UNCHANGED <<queue, previous, settings, left, emits, taken>>
  BY DEF SourceEnds, Complete, Failure, Quiet
<1>3. nestedEnd' \in BOOLEAN /\ (nestedEnd' <=> inside # <<>>) /\ ~nestedEnd
  BY <1>1, <1>2 DEF DebounceInv
<1>4. CASE stopped
  <2>1. UNCHANGED <<heard, inside, debounceVars, switchVars, stopped>>
    BY <1>2, <1>4
  <2>2. FlowTypeOK'
    BY <1>1, <1>2, <1>3, <2>1 DEF FlowTypeOK, settings, debounceVars, switchVars
  <2>3. KindsApart'
    BY <1>1, <1>2, <2>1 DEF KindsApart, settings, debounceVars, switchVars
  <2>4. DebounceInv'
    BY <1>1, <1>2, <1>4, <2>1 DEF DebounceInv, debounceVars, switchVars
  <2>5. SwitchInv'
    BY <1>1, <1>3, <2>1 DEF SwitchInv, Running, debounceVars, switchVars
  <2> QED BY <1>2, <2>2, <2>3, <2>4, <2>5, OtherKinds DEF FlowInv, SearchInv
<1>5. CASE ~stopped
  <2>1. switching
    BY <1>1, <1>5 DEF DebounceInv
  <2>2. TornDown(inner) /\ Told(Failure, "return") /\ UNCHANGED current
    BY <1>2, <1>5, <2>1 DEF Terminate
  <2>3. /\ PromisesAborted
        /\ queue' \in Seq(Values \cup Ends) /\ left' \in BOOLEAN /\ closed' \in BOOLEAN
    <3>1. PromisesAborted
      BY <1>1, <2>2, AbortedAreAborted DEF TornDown
    <3> QED BY <1>1, <1>2, <3>1 DEF FlowTypeOK
  <2>4. /\ UNCHANGED <<settings, previous, emits, taken, current>> /\ left' = left
        /\ (closed => closed') /\ (~closed' => ~nestedEnd') /\ (~nestedEnd' => ~nestedEnd)
    BY <1>2, <1>3, <2>2
  <2> QED BY <1>3, <2>1, <2>2, <2>3, <2>4, SearchTornDown DEF TornDown
<1> QED BY <1>4, <1>5

LEMMA SearchSettles ==
    ASSUME FlowInv, NEW w \in Values, NEW ok \in BOOLEAN, PromiseSettles(w, ok)
    PROVE  FlowInv'
<1>1. FlowTypeOK /\ KindsApart /\ (kind = "search" => DebounceInv /\ SwitchInv)
  BY DEF FlowInv, SearchInv
<1>2. /\ kind = "search" /\ inside = <<>> /\ inner[w] \in {"running", "aborted"}
      /\ UNCHANGED <<settings, closed, queue, previous, left, emits, taken, nestedEnd>>
  BY DEF PromiseSettles, InFlow
<1>3. inner \in [Values -> {"none", "running", "aborted", "settled"}]
  BY <1>1 DEF FlowTypeOK
<1>4. ASSUME inner' = [inner EXCEPT ![w] = "settled"]
      PROVE  /\ inner' \in [Values -> {"none", "running", "aborted", "settled"}]
             /\ \A v \in Values : Running(v)' <=> Running(v) /\ v # w
             /\ \A v \in Values : inner'[v] = "settled" <=> inner[v] = "settled" \/ v = w
             /\ \A v \in Values : inner'[v] # "none" => inner[v] # "none"
  BY <1>2, <1>3, <1>4 DEF Running
<1>5. CASE /\ inner' = [inner EXCEPT ![w] = "settled"]
           /\ Quiet /\ UNCHANGED <<debounceVars, switching, outerDone, current, stopped>>
  <2>1. FlowTypeOK'
    BY <1>1, <1>2, <1>4, <1>5 DEF FlowTypeOK, settings, debounceVars, Quiet
  <2>2. KindsApart'
    BY <1>1, <1>2, <1>5 DEF KindsApart, settings, debounceVars, Quiet
  <2>3. DebounceInv'
    BY <1>1, <1>2, <1>4, <1>5 DEF DebounceInv, debounceVars
  <2>4. SwitchInv'
    BY <1>1, <1>2, <1>4, <1>5 DEF SwitchInv, debounceVars, Quiet
  <2> QED BY <1>2, <2>1, <2>2, <2>3, <2>4, OtherKinds DEF FlowInv, SearchInv
<1>6. CASE inner[w] = "running" /\ ok
  <2>1. /\ inner' = [inner EXCEPT ![w] = "settled"] /\ Told(w, "promise")
        /\ UNCHANGED <<debounceVars, switching, outerDone, current, stopped>>
    BY <1>6 DEF PromiseSettles
  <2>2. Heard(w) /\ Framed("promise") /\ Running(w) /\ w \notin Ends
    BY <1>1, <1>6, <2>1, ToldIsHeard, ValuesAndEnds DEF Callbacks, Running
  <2>3. FlowTypeOK'
    <3>1. heard' \in Seq(Values \cup Ends) /\ inside' \in Seq(Callbacks)
      BY <2>2 DEF Heard, Framed
    <3> QED BY <1>1, <1>2, <1>4, <2>1, <3>1 DEF FlowTypeOK, settings, debounceVars
  <2>4. KindsApart'
    BY <1>1, <1>2, <2>1, <2>2 DEF KindsApart, Heard, Framed, settings
  <2>5. DebounceInv'
    BY <1>1, <1>2, <1>4, <2>1 DEF DebounceInv, debounceVars
  <2>6. SwitchInv'
    <3>1. \A v \in Values : ~Running(v)'
      BY <1>1, <1>2, <1>4, <2>1, <2>2 DEF SwitchInv
    <3>2. \A i \in DOMAIN heard : heard[i] \in Values \cup Ends
      BY <1>1 DEF FlowTypeOK
    <3>3. \A i, j \in DOMAIN heard' : i < j /\ heard'[j] \in Values => heard'[i] < heard'[j]
      <4>1. \A i \in DOMAIN heard : heard[i] \in Values => heard[i] < w
        BY <1>1, <1>2, <2>2 DEF SwitchInv
      <4> QED BY <1>1, <1>2, <2>2, <3>2, <4>1, HeardInOrder
    <3>4. \A i \in DOMAIN heard' : heard'[i] \in Values => inner'[heard'[i]] = "settled"
      BY <1>1, <1>2, <1>4, <2>1, <2>2 DEF SwitchInv, Heard
    <3> QED BY <1>1, <1>2, <2>1, <3>1, <3>3, <3>4 DEF SwitchInv, debounceVars
  <2> QED BY <1>2, <2>3, <2>4, <2>5, <2>6, OtherKinds DEF FlowInv, SearchInv
<1>7. CASE inner[w] = "running" /\ ~ok /\ switching
  <2>1. TornDown([inner EXCEPT ![w] = "settled"]) /\ Told(Failure, "return") /\ UNCHANGED current
    BY <1>7 DEF PromiseSettles, Terminate
  <2>2. PromisesAborted
    BY <1>1, <1>7, <2>1, SettledAreAborted DEF TornDown
  <2>3. queue' \in Seq(Values \cup Ends) /\ closed' \in BOOLEAN /\ left' \in BOOLEAN /\ nestedEnd' \in BOOLEAN
    BY <1>1, <1>2 DEF FlowTypeOK
  <2>4. (closed => closed') /\ (~closed' => ~nestedEnd') /\ (~nestedEnd' => ~nestedEnd)
    BY <1>1, <1>2 DEF DebounceInv
  <2>5. /\ switching' = FALSE /\ stopped' = TRUE /\ timer' = FALSE /\ debounced' = TRUE
        /\ UNCHANGED <<latest, outerDone>>
    BY <2>1 DEF TornDown
  <2> QED BY <1>2, <1>7, <2>1, <2>2, <2>3, <2>4, <2>5, SearchTornDown
<1>8. CASE inner[w] = "running" /\ ~ok /\ ~switching
  BY <1>5, <1>8 DEF PromiseSettles, Terminate
<1>9. CASE inner[w] = "aborted"
  BY <1>5, <1>9 DEF PromiseSettles
<1> QED BY <1>2, <1>6, <1>7, <1>8, <1>9

LEMMA SearchInnerCompletes ==
    ASSUME FlowInv, InnerCompletes
    PROVE  FlowInv'
<1>1. FlowTypeOK /\ KindsApart /\ (kind = "search" => DebounceInv /\ SwitchInv)
  BY DEF FlowInv, SearchInv
<1>2. /\ inside # <<>> /\ Last(inside) = "promise" /\ current' = 0
      /\ UNCHANGED <<settings, closed, queue, stopped, previous, debounceVars, outerDone, inner, left,
                     emits, taken, nestedEnd>>
  BY DEF InnerCompletes
<1>3. Len(inside) \in DOMAIN inside /\ inside[Len(inside)] = "promise"
  BY <1>1, <1>2, FrontIsUnframed
<1>4. kind = "search"
  <2>1. CASE kind = "direct"
    BY <1>1, <1>3, <2>1 DEF KindsApart
  <2>2. CASE kind = "pulled"
    BY <1>1, <1>3, <2>2 DEF KindsApart
  <2> QED BY <1>1, <2>1, <2>2 DEF FlowTypeOK
<1>5. 0 \in 0..MaxEmits
  BY FlowBounds
<1>6. \A v \in Values : ~nestedEnd => ~Running(v)
  BY <1>1, <1>3, <1>4 DEF SwitchInv
<1>7. \A v : Running(v)' <=> Running(v)
  BY <1>2 DEF Running
<1>8. ~debounced => \A v \in Values : ~Running(v)
  BY <1>1, <1>4, <1>6 DEF DebounceInv
<1>9. CASE switching /\ outerDone
  <2>1. /\ switching' = FALSE
        /\ heard' = Append(heard, Complete) /\ inside' = Append(Front(inside), "return")
    BY <1>9 DEF InnerCompletes
  <2>2. Heard(Complete) /\ Complete \in Ends /\ Complete \notin Values
    BY <1>1, <2>1, AppendHeard, ValuesAndEnds
  <2>3. Framed("return")
    <3>1. inside \in Seq(Callbacks)
      BY <1>1 DEF FlowTypeOK
    <3>2. Front(inside) \in Seq(Callbacks) /\ \A i \in DOMAIN Front(inside) : i \in DOMAIN inside /\ Front(inside)[i] = inside[i]
      BY <1>2, <3>1, FrontOfSeq
    <3>3. "return" \in Callbacks
      BY DEF Callbacks
    <3> QED BY <2>1, <3>2, <3>3, AppendToSeq DEF Framed
  <2>4. FlowTypeOK'
    <3>1. heard' \in Seq(Values \cup Ends) /\ inside' \in Seq(Callbacks)
      BY <2>2, <2>3 DEF Heard, Framed
    <3> QED BY <1>1, <1>2, <1>5, <2>1, <3>1 DEF FlowTypeOK, settings, debounceVars
  <2>5. KindsApart'
    BY <1>1, <1>2, <1>4, <2>1, <2>2, <2>3 DEF KindsApart, Heard, Framed, settings
  <2>6. DebounceInv'
    BY <1>1, <1>2, <1>4, <1>9, <2>1 DEF DebounceInv, debounceVars
  <2>7. SwitchInv'
    <3>1. \A i \in DOMAIN heard' : heard'[i] \in Values => i \in DOMAIN heard /\ heard'[i] = heard[i]
      BY <2>2 DEF Heard
    <3>2. \A i \in DOMAIN heard : heard[i] \in Values \cup Ends
      BY <1>1 DEF FlowTypeOK
    <3>3. \A i, j \in DOMAIN heard' : i < j /\ heard'[j] \in Values => heard'[i] < heard'[j]
      BY <1>1, <1>4, <2>2, <3>2, HeardInOrder
    <3> QED BY <1>1, <1>2, <1>4, <1>6, <1>7, <1>8, <2>1, <3>1, <3>3 DEF SwitchInv, debounceVars
  <2> QED BY <1>2, <1>4, <2>4, <2>5, <2>6, <2>7, OtherKinds DEF FlowInv, SearchInv
<1>10. CASE ~(switching /\ outerDone)
  <2>1. UNCHANGED <<switching, heard>> /\ inside' = Front(inside)
    BY <1>10 DEF InnerCompletes
  <2>2. Unframed
    BY <1>1, <1>2, <2>1, FrontIsUnframed
  <2>3. FlowTypeOK'
    BY <1>1, <1>2, <1>5, <2>1, <2>2 DEF FlowTypeOK, settings, debounceVars, Unframed
  <2>4. KindsApart'
    BY <1>1, <1>2, <1>4, <2>1, <2>2 DEF KindsApart, Unframed, settings
  <2>5. DebounceInv'
    BY <1>1, <1>2, <1>4, <2>1 DEF DebounceInv, debounceVars
  <2>6. SwitchInv'
    BY <1>1, <1>2, <1>4, <1>6, <1>7, <1>8, <1>10, <2>1, <2>2 DEF SwitchInv, debounceVars, Unframed
  <2> QED BY <1>2, <1>4, <2>3, <2>4, <2>5, <2>6, OtherKinds DEF FlowInv, SearchInv
<1> QED BY <1>9, <1>10

LEMMA CallbackReturnsKeeps ==
    ASSUME FlowInv, CallbackReturns
    PROVE  FlowInv'
<1>1. FlowTypeOK /\ KindsApart /\ (kind = "search" => DebounceInv /\ SwitchInv)
  BY DEF FlowInv, SearchInv
<1>2. /\ inside # <<>> /\ Last(inside) \in {"return", "pump"} /\ inside' = Front(inside)
      /\ UNCHANGED <<settings, closed, queue, stopped, previous, debounceVars, switchVars, heard, left,
                     emits, taken, nestedEnd>>
  BY DEF CallbackReturns
<1>3. Unframed /\ Len(inside) \in DOMAIN inside /\ inside[Len(inside)] \in {"return", "pump"}
  BY <1>1, <1>2, FrontIsUnframed
<1>4. kind # "direct"
  BY <1>1, <1>3 DEF KindsApart
<1>5. FlowTypeOK'
  BY <1>1, <1>2, <1>3 DEF FlowTypeOK, settings, debounceVars, switchVars, Unframed
<1>6. KindsApart'
  BY <1>1, <1>2, <1>3, <1>4 DEF KindsApart, Unframed, settings, switchVars
<1>7. ASSUME kind = "search" PROVE DebounceInv' /\ SwitchInv'
  <2>1. DebounceInv'
    BY <1>1, <1>2, <1>7 DEF DebounceInv, debounceVars, switchVars
  <2>2. \A v : Running(v)' <=> Running(v)
    BY <1>2 DEF Running, switchVars
  <2>3. SwitchInv'
    BY <1>1, <1>2, <1>3, <1>7, <2>2 DEF SwitchInv, debounceVars, switchVars, Unframed
  <2> QED BY <2>1, <2>3
<1> QED BY <1>2, <1>4, <1>5, <1>6, <1>7, OtherKinds DEF FlowInv, SearchInv, settings

-----------------------------------------------------------------------------
(* The pump.                                                               *)
LEMMA PulledUnsubscribe ==
    ASSUME FlowInv, kind = "pulled", Unsubscribe
    PROVE  FlowInv'
<1>1. FlowTypeOK /\ KindsApart
  BY DEF FlowInv
<1>2. /\ left' = TRUE /\ queue' = <<>> /\ switching' = FALSE /\ stopped' = TRUE
      /\ timer' = FALSE /\ debounced' = TRUE /\ UNCHANGED <<latest, outerDone>>
      /\ UNCHANGED <<settings, current, closed, previous, heard, inside, emits, taken, nestedEnd>>
  BY DEF Unsubscribe, TornDown
<1>3. PromisesAborted
  BY <1>1, AbortedAreAborted DEF Unsubscribe, TornDown
<1>4. FlowTypeOK'
  <2>1. /\ left' \in BOOLEAN /\ switching' \in BOOLEAN /\ stopped' \in BOOLEAN
        /\ timer' \in BOOLEAN /\ debounced' \in BOOLEAN
    BY <1>2
  <2>2. queue' \in Seq(Values \cup Ends)
    BY <1>2
  <2> QED BY <1>1, <1>2, <1>3, <2>1, <2>2 DEF FlowTypeOK, settings, PromisesAborted
<1>5. KindsApart'
  BY <1>1, <1>2 DEF KindsApart, settings
<1> QED BY <1>2, <1>4, <1>5, OtherKinds DEF FlowInv

LEMMA Pumps ==
    ASSUME FlowInv, NEW what, what \in Ends \/ (what = emits + 1 /\ emits < MaxEmits), Pump(what)
    PROVE  FlowInv'
<1>1. FlowTypeOK /\ KindsApart
  BY DEF FlowInv
<1>2. /\ kind = "pulled" /\ ~closed /\ switching
      /\ closed' = (what \in Ends)
      /\ emits' = IF what \in Values THEN what ELSE emits
      /\ Told(what, "pump")
      /\ UNCHANGED <<settings, queue, stopped, previous, debounceVars, switchVars, left, taken, nestedEnd>>
  BY DEF Pump
<1>3. what \in Values \cup Ends
  BY <1>1, ValuesAndEnds DEF FlowTypeOK
<1>4. Heard(what) /\ Framed("pump")
  BY <1>1, <1>2, <1>3, ToldIsHeard DEF Callbacks
<1>5. FlowTypeOK'
  <2>1. heard' \in Seq(Values \cup Ends) /\ inside' \in Seq(Callbacks)
    BY <1>4 DEF Heard, Framed
  <2>2. emits' \in 0..MaxEmits /\ closed' \in BOOLEAN
    BY <1>1, <1>2, ValuesAndEnds DEF FlowTypeOK
  <2> QED BY <1>1, <1>2, <2>1, <2>2 DEF FlowTypeOK, settings, debounceVars, switchVars
<1>6. KindsApart'
  BY <1>1, <1>2, <1>4 DEF KindsApart, settings, switchVars, Heard, Framed
<1> QED BY <1>2, <1>5, <1>6, OtherKinds DEF FlowInv

LEMMA ThrowingKeeps ==
    ASSUME FlowInv, ConsumerThrows
    PROVE  FlowInv'
<1>1. FlowTypeOK /\ KindsApart
  BY DEF FlowInv
<1>2. /\ kind = "pulled" /\ closed' = TRUE
      /\ IF switching THEN heard' = Append(heard, Failure) /\ inside' = <<"return">>
                      ELSE heard' = heard /\ inside' = <<>>
      /\ UNCHANGED <<settings, queue, stopped, previous, debounceVars, switchVars, left, emits, taken, nestedEnd>>
  BY DEF ConsumerThrows
<1>3. /\ heard' \in Seq(Values \cup Ends) /\ inside' \in Seq(Callbacks)
      /\ \A i \in DOMAIN inside' : inside'[i] = "return"
  <2>1. CASE switching
    <3>1. heard' \in Seq(Values \cup Ends)
      BY <1>1, <1>2, <2>1, AppendHeard, ValuesAndEnds DEF Heard
    <3>2. inside' = <<"return">> /\ "return" \in Callbacks
      BY <1>2, <2>1 DEF Callbacks
    <3> QED BY <3>1, <3>2
  <2>2. CASE ~switching
    BY <1>1, <1>2, <2>2 DEF FlowTypeOK
  <2> QED BY <2>1, <2>2
<1>4. FlowTypeOK'
  BY <1>1, <1>2, <1>3 DEF FlowTypeOK, settings, debounceVars, switchVars
<1>5. KindsApart'
  BY <1>1, <1>2, <1>3 DEF KindsApart, settings, switchVars
<1> QED BY <1>2, <1>4, <1>5, OtherKinds DEF FlowInv

-----------------------------------------------------------------------------
(* The queue.  What a pipeline lets through, and what it may repeat.       *)
LEMMA KeysGrow ==
    ASSUME NEW u \in Nat, NEW v \in Nat, u <= v
    PROVE  Key(u) \in Nat /\ Key(v) \in Nat /\ Key(u) <= Key(v) /\ (u > 0 => Key(u) > 0)
BY DEF Key

LEMMA SettingsStay ==
    ASSUME UNCHANGED settings
    PROVE  /\ \A v : Fit(v)' <=> Fit(v)
           /\ \A v : Turn(v)' <=> Turn(v)
BY DEF settings, Fit, Turn

(* The next value passes distinct() exactly if its key has not been let    *)
(* through before.                                                         *)
LEMMA PassesInTurn ==
    ASSUME FlowTypeOK, NEW r \in Nat, Upto(r), NEW w \in Nat, r < w,
           \A u \in (r + 1)..(w - 1) : Fit(u) => Key(u) = previous
    PROVE  /\ Fit(w) /\ Key(w) # previous => Turn(w)
           /\ Key(w) = previous => ~Turn(w)
<1>1. ASSUME Fit(w), Key(w) # previous PROVE Turn(w)
  <2> SUFFICES ASSUME NEW u \in 1..(w - 1), Fit(u), Key(u) = Key(w)
               PROVE  FALSE
    BY <1>1 DEF Turn
  <2>1. u <= r
    BY <1>1
  <2>2. Key(w) <= previous /\ previous \in Nat
    BY <2>1 DEF Upto, FlowTypeOK
  <2>3. Key(w) \in Nat /\ Key(w) > 0
    BY KeysGrow
  <2>4. PICK t \in 1..r : Fit(t) /\ Key(t) = previous
    BY <2>2, <2>3 DEF Upto
  <2>5. previous <= Key(w)
    BY <2>4, KeysGrow
  <2> QED BY <1>1, <2>2, <2>3, <2>5
<1>2. ASSUME Key(w) = previous PROVE ~Turn(w)
  <2>1. previous # 0
    BY <1>2, KeysGrow
  <2>2. PICK t \in 1..r : Fit(t) /\ Key(t) = previous
    BY <2>1 DEF Upto
  <2> QED BY <1>2, <2>2 DEF Turn
<1> QED BY <1>1, <1>2

(* What does not pass is in nobody's turn.                                 *)
LEMMA SkippedIsNotDue ==
    ASSUME FlowTypeOK, NEW r \in Nat, Upto(r), NEW m \in Nat, r <= m, m <= MaxEmits,
           \A w \in (r + 1)..m : ~Passes(w)
    PROVE  /\ \A v \in (r + 1)..m : ~Turn(v) /\ (Fit(v) => Key(v) = previous)
           /\ poison \in {0, dropped} \/ m < poison
<1>1. \A v \in (r + 1)..m : Fit(v) => Key(v) = previous
  BY DEF Passes, Fit
<1>2. ASSUME NEW v \in (r + 1)..m PROVE ~Turn(v)
  <2>1. CASE Fit(v)
    <3>1. \A u \in (r + 1)..(v - 1) : Fit(u) => Key(u) = previous
      BY <1>1
    <3>2. Key(v) = previous /\ v \in Nat /\ r < v
      BY <1>1, <1>2, <2>1
    <3> QED BY <3>1, <3>2, PassesInTurn
  <2>2. CASE ~Fit(v)
    BY <2>2 DEF Turn
  <2> QED BY <2>1, <2>2
<1>3. poison \in {0, dropped} \/ m < poison
  <2> SUFFICES ASSUME poison \notin {0, dropped}, poison <= m PROVE FALSE
    BY FlowBounds DEF FlowTypeOK
  <2>1. poison \in (r + 1)..m
    BY FlowBounds DEF Upto, FlowTypeOK
  <2> QED BY <2>1 DEF Passes
<1> QED BY <1>1, <1>2, <1>3

(* The loop up to the next callback.                                       *)
Drained(q) ==
    \/ /\ \A i \in DOMAIN q : ~Passes(q[i])
       /\ queue' = <<>> /\ UNCHANGED <<heard, previous, stopped, switching>>
    \/ \E first \in DOMAIN q :
          /\ Passes(q[first]) /\ \A i \in 1..(first - 1) : ~Passes(q[i])
          /\ queue' = SubSeq(q, first + 1, Len(q))
          /\ IF q[first] \in Values \ {poison}
             THEN /\ heard' = Append(heard, q[first]) /\ previous' = Key(q[first])
                  /\ UNCHANGED <<stopped, switching>>
             ELSE /\ heard' = Append(heard, IF q[first] = poison THEN Failure ELSE q[first])
                  /\ stopped' = TRUE /\ switching' = FALSE /\ UNCHANGED previous
DrainKept ==
    /\ HeardInv' /\ queue' \in Seq(Values \cup Ends) /\ heard' \in Seq(Values \cup Ends)
    /\ previous' \in Nat /\ stopped' \in BOOLEAN /\ switching' \in BOOLEAN
    /\ (switching' <=> ~stopped')
    /\ heard' # <<>> /\ Last(heard') \in Ends => stopped'
    /\ heard' = heard => queue' = <<>>
    /\ ~stopped' => \E s \in 0..taken' : Row(queue', s, closed', taken') /\ Upto(s)'

LEMMA DrainedNothing ==
    ASSUME FlowTypeOK, HeardInv, ~stopped, switching,
           heard # <<>> => Last(heard) \notin Ends,
           UNCHANGED settings, closed' \in BOOLEAN,
           NEW last \in 0..MaxEmits, taken' = last, taken <= last, NEW r \in 0..last, NEW q,
           Row(q, r, closed', last), Upto(r),
           \A i \in DOMAIN q : ~Passes(q[i]),
           queue' = <<>>, UNCHANGED <<heard, previous, stopped, switching>>
    PROVE  DrainKept
<1>1. last \in Nat /\ r \in Nat /\ taken \in Nat /\ last <= MaxEmits /\ r <= last
  BY FlowBounds DEF FlowTypeOK
<1>2. q \in Seq(Values \cup Ends) /\ DOMAIN q = 1..Len(q)
  BY DEF Row
<1>3. closed' = FALSE
  <2> SUFFICES ASSUME closed' PROVE FALSE
    OBVIOUS
  <2>1. last - r + 1 \in DOMAIN q /\ q[last - r + 1] \in Ends
    BY <1>1, <1>2 DEF Row
  <2> QED BY <2>1 DEF Passes
<1>4. \A w \in (r + 1)..last : ~Passes(w)
  <2> SUFFICES ASSUME NEW w \in (r + 1)..last PROVE ~Passes(w)
    OBVIOUS
  <2>1. w - r \in 1..(last - r) /\ w - r \in DOMAIN q /\ r + (w - r) = w
    BY <1>1, <1>2, <1>3 DEF Row
  <2>2. q[w - r] = w
    BY <2>1 DEF Row
  <2> QED BY <2>1, <2>2
<1>5. /\ \A v \in (r + 1)..last : ~Turn(v) /\ (Fit(v) => Key(v) = previous)
      /\ poison \in {0, dropped} \/ last < poison
  BY <1>1, <1>4, SkippedIsNotDue
<1>6. Upto(last)'
  <2>1. \A u \in 1..last : Fit(u) => Key(u) <= previous
    <3>1. previous \in Nat /\ \A u \in 1..r : Fit(u) => Key(u) <= previous
      BY DEF FlowTypeOK, Upto
    <3> QED BY <1>1, <1>5, <3>1
  <2>2. previous # 0 => \E u \in 1..last : Fit(u) /\ Key(u) = previous
    BY <1>1 DEF Upto
  <2>3. \A i \in DOMAIN heard : heard[i] \in 1..last
    BY <1>1 DEF Upto
  <2>4. \A v \in 1..last : Turn(v) => \E i \in DOMAIN heard : heard[i] = v
    BY <1>1, <1>5 DEF Upto
  <2> QED BY <1>5, <2>1, <2>2, <2>3, <2>4, SettingsStay DEF Upto, settings
<1>7. HeardInv'
  <2>1. Due \subseteq Due'
    BY <1>1, SettingsStay DEF Due
  <2>2. \A i \in DOMAIN heard, v \in Due' : heard[i] \in Values /\ v < heard[i] =>
           \E j \in DOMAIN heard : heard[j] = v
    <3> SUFFICES ASSUME NEW i \in DOMAIN heard, NEW v \in Due', v < heard[i]
                 PROVE  \E j \in DOMAIN heard : heard[j] = v
      OBVIOUS
    <3>1. v \in 1..last /\ Turn(v)
      BY SettingsStay DEF Due
    <3>2. heard[i] \in 1..r
      BY DEF Upto
    <3> QED BY <1>1, <3>1, <3>2 DEF Upto
  <2> QED BY <2>1, <2>2 DEF HeardInv
<1>8. Row(queue', last, closed', taken')
  BY <1>1, <1>3 DEF Row
<1>9. queue' = <<>> /\ queue' \in Seq(Values \cup Ends) /\ heard' \in Seq(Values \cup Ends)
  BY DEF FlowTypeOK
<1>10. previous' \in Nat /\ stopped' \in BOOLEAN /\ switching' \in BOOLEAN /\ (switching' <=> ~stopped')
  BY DEF FlowTypeOK
<1> QED BY <1>1, <1>6, <1>7, <1>8, <1>9, <1>10 DEF DrainKept

(* The values before the first that passes were nobody's turn.             *)
LEMMA RowSeq ==
    ASSUME NEW q, NEW r, NEW ended, NEW last, Row(q, r, ended, last)
    PROVE  /\ q \in Seq(Values \cup Ends) /\ Len(q) \in Nat
           /\ \A i \in DOMAIN q : i \in 1..Len(q)
           /\ \A i \in 1..Len(q) : i \in DOMAIN q
           /\ \A i \in 1..(last - r) : q[i] = r + i
BY DEF Row

LEMMA SubSeqAfter ==
    ASSUME NEW S, NEW s \in Seq(S), NEW n \in 1..Len(s)
    PROVE  /\ SubSeq(s, n + 1, Len(s)) \in Seq(S) /\ Len(SubSeq(s, n + 1, Len(s))) = Len(s) - n
           /\ \A i \in 1..(Len(s) - n) : SubSeq(s, n + 1, Len(s))[i] = s[n + i]
OBVIOUS

(* Where the first that passes is: a value, or the end.                    *)
LEMMA PlaceInRow ==
    ASSUME NEW last \in Nat, NEW r \in 0..last, NEW q, NEW ended \in BOOLEAN,
           Row(q, r, ended, last), NEW first \in DOMAIN q
    PROVE  \/ /\ q[first] = r + first /\ r + first \in (r + 1)..last
              /\ (r + first) - 1 \in r..last /\ ((r + first) - 1) - r <= first - 1
           \/ /\ ended /\ q[first] \in Ends /\ last - r <= first - 1
<1>1. first \in 1..Len(q) /\ Len(q) \in Nat
  BY RowSeq
<1>2. CASE first <= last - r
  BY <1>1, <1>2, RowSeq
<1>3. CASE first > last - r
  BY <1>1, <1>3 DEF Row
<1> QED BY <1>1, <1>2, <1>3

LEMMA RowAfter ==
    ASSUME NEW last \in Nat, NEW r \in 0..last, NEW q, NEW ended \in BOOLEAN,
           Row(q, r, ended, last), NEW first \in DOMAIN q, r + first <= last
    PROVE  Row(SubSeq(q, first + 1, Len(q)), r + first, ended, last)
<1> DEFINE rest == SubSeq(q, first + 1, Len(q))
<1>1. q \in Seq(Values \cup Ends) /\ first \in 1..Len(q) /\ Len(q) \in Nat
  BY RowSeq
<1>2. /\ rest \in Seq(Values \cup Ends) /\ Len(rest) = Len(q) - first
      /\ \A i \in 1..(Len(q) - first) : rest[i] = q[first + i]
  BY <1>1, SubSeqAfter
<1> HIDE DEF rest
<1>3. \A i \in 1..(last - (r + first)) : rest[i] = (r + first) + i
  <2> SUFFICES ASSUME NEW i \in 1..(last - (r + first)) PROVE rest[i] = (r + first) + i
    OBVIOUS
  <2>1. first + i \in 1..(last - r) /\ r + (first + i) = (r + first) + i
    BY <1>1
  <2>2. Len(q) >= last - r
    BY <1>1 DEF Row
  <2>3. i \in 1..(Len(q) - first)
    BY <1>1, <2>2
  <2>4. \A j \in 1..(last - r) : q[j] = r + j
    BY RowSeq
  <2>5. q[first + i] = r + (first + i)
    BY <2>1, <2>4
  <2> QED BY <1>2, <2>1, <2>3, <2>5
<1>4. ASSUME ended PROVE Len(rest) = (last - (r + first)) + 1 /\ rest[(last - (r + first)) + 1] \in Ends
  <2>1. Len(q) = (last - r) + 1 /\ q[(last - r) + 1] \in Ends
    BY <1>4 DEF Row
  <2> DEFINE k == (last - (r + first)) + 1
  <2>2. k = Len(q) - first /\ first + k = (last - r) + 1
    BY <1>1, <2>1
  <2>3. k \in 1..(Len(q) - first)
    <3>1. k \in Int /\ k >= 1
      BY <1>1
    <3> QED BY <2>2, <3>1
  <2> HIDE DEF k
  <2>4. Len(rest) = k /\ rest[k] = q[first + k]
    BY <1>2, <2>2, <2>3
  <2>5. Len(rest) = k /\ rest[k] \in Ends
    BY <2>1, <2>2, <2>4
  <2> QED BY <2>5 DEF k
<1>5. ASSUME ~ended PROVE Len(rest) = last - (r + first)
  <2>1. Len(q) = last - r
    BY <1>5 DEF Row
  <2> QED BY <1>1, <1>2, <2>1
<1>6. r + first \in 0..last
  BY <1>1
<1>7. Row(rest, r + first, ended, last)
  BY <1>2, <1>3, <1>4, <1>5, <1>6 DEF Row
<1> QED BY <1>7 DEF rest

LEMMA BeforeFirst ==
    ASSUME FlowTypeOK, NEW last \in 0..MaxEmits, NEW r \in 0..last, NEW q, NEW ended \in BOOLEAN,
           Row(q, r, ended, last), Upto(r), NEW first \in DOMAIN q,
           \A i \in 1..(first - 1) : ~Passes(q[i]), NEW m \in r..last, m - r <= first - 1
    PROVE  /\ \A v \in (r + 1)..m : ~Turn(v) /\ (Fit(v) => Key(v) = previous)
           /\ poison \in {0, dropped} \/ m < poison
<1>1. last \in Nat /\ r \in Nat /\ m \in Nat /\ r <= m /\ m <= last /\ m <= MaxEmits
  BY FlowBounds
<1>2. q \in Seq(Values \cup Ends) /\ DOMAIN q = 1..Len(q) /\ Len(q) \in Nat
  BY DEF Row
<1>3. ASSUME NEW w \in (r + 1)..m PROVE ~Passes(w)
  <2>1. w - r \in 1..(last - r) /\ w - r \in 1..(first - 1) /\ r + (w - r) = w
    BY <1>1, <1>2
  <2>2. q[w - r] = w
    BY <2>1 DEF Row
  <2> QED BY <2>1, <2>2
<1> QED BY <1>1, <1>3, SkippedIsNotDue

LEMMA DrainedValue ==
    ASSUME FlowTypeOK, HeardInv, ~stopped, switching, kind = "direct",
           UNCHANGED settings, closed' \in BOOLEAN,
           NEW last \in 0..MaxEmits, taken' = last, taken <= last, NEW r \in 0..last, NEW q,
           Row(q, r, closed', last), Upto(r),
           NEW first \in DOMAIN q, Passes(q[first]), \A i \in 1..(first - 1) : ~Passes(q[i]),
           queue' = SubSeq(q, first + 1, Len(q)), q[first] \in Values \ {poison},
           heard' = Append(heard, q[first]), previous' = Key(q[first]), UNCHANGED <<stopped, switching>>
    PROVE  DrainKept
<1>1. last \in Nat /\ r \in Nat /\ taken \in Nat /\ last <= MaxEmits /\ r <= last
  BY FlowBounds DEF FlowTypeOK
<1>2. q \in Seq(Values \cup Ends) /\ Len(q) \in Nat /\ first \in 1..Len(q)
  BY RowSeq
<1> DEFINE w == r + first
<1>3. /\ q[first] = w /\ w \in (r + 1)..last
      /\ w - 1 \in r..last /\ (w - 1) - r <= first - 1
  BY <1>1, PlaceInRow, ValuesAndEnds
<1> HIDE DEF w
<1>4. q[first] = w /\ w \in Nat /\ r < w /\ w <= last /\ w \in Values
  BY <1>1, <1>3
<1>5. /\ \A v \in (r + 1)..(w - 1) : ~Turn(v) /\ (Fit(v) => Key(v) = previous)
      /\ poison \in {0, dropped} \/ w - 1 < poison
  BY <1>3, BeforeFirst
<1>6. Fit(w) /\ Turn(w) /\ (poison \in {0, dropped} \/ w < poison)
  <2>1. w # dropped /\ w # poison /\ Key(w) # previous
    BY <1>4, ValuesAndEnds DEF Passes
  <2>2. poison \in {0, dropped} \/ w < poison
    BY <1>4, <1>5, <2>1, FlowBounds DEF FlowTypeOK
  <2>3. Fit(w)
    BY <2>1, <2>2 DEF Fit
  <2> QED BY <1>1, <1>4, <1>5, <2>1, <2>2, <2>3, PassesInTurn
<1>7. Heard(w) /\ previous' = Key(w) /\ w \notin Ends
  BY <1>4, AppendHeard, ValuesAndEnds
<1>8. \A v \in 1..w : Turn(v) => (\E i \in DOMAIN heard : heard[i] = v) \/ v = w
  BY <1>1, <1>4, <1>5 DEF Upto
<1>9. \A i \in DOMAIN heard : heard[i] \in 1..r
  BY DEF Upto
<1>10. Upto(w)'
  <2>1. \A u \in 1..w : Fit(u) => Key(u) <= Key(w)
    BY <1>4, KeysGrow
  <2>2. \A i \in DOMAIN heard' : heard'[i] \in 1..w
    BY <1>1, <1>4, <1>7, <1>9 DEF Heard
  <2>3. \A v \in 1..w : Turn(v) => \E i \in DOMAIN heard' : heard'[i] = v
    BY <1>7, <1>8 DEF Heard
  <2>4. w \in 1..w
    BY <1>1, <1>4
  <2> QED BY <1>6, <1>7, <2>1, <2>2, <2>3, <2>4, SettingsStay DEF Upto, settings
<1>11. HeardInv'
  <2>1. Due \subseteq Due' /\ w \in Due'
    BY <1>1, <1>4, <1>6, SettingsStay DEF Due
  <2>2. \A i, j \in DOMAIN heard' : i < j /\ heard'[j] \in Values => heard'[i] \in Values /\ heard'[i] < heard'[j]
    <3> SUFFICES ASSUME NEW i \in DOMAIN heard', NEW j \in DOMAIN heard', i < j, heard'[j] \in Values
                 PROVE  heard'[i] \in Values /\ heard'[i] < heard'[j]
      OBVIOUS
    <3>0. Len(heard) \in Nat
      BY DEF FlowTypeOK
    <3>1. i \in DOMAIN heard /\ heard'[i] = heard[i]
      BY <1>7, <3>0 DEF Heard
    <3>2. CASE j \in DOMAIN heard /\ heard'[j] = heard[j]
      BY <3>1, <3>2 DEF HeardInv
    <3>3. CASE j = Len(heard) + 1 /\ heard'[j] = w
      <4>1. heard[i] \in 1..r
        BY <1>9, <3>1
      <4>2. heard[i] \in Values /\ heard[i] < w
        BY <1>1, <1>4, <4>1, FlowBounds DEF Values
      <4> QED BY <3>1, <3>3, <4>2
    <3> QED BY <1>7, <3>2, <3>3 DEF Heard
  <2>3. \A i \in DOMAIN heard' : heard'[i] \in Values => heard'[i] \in Due'
    BY <1>7, <2>1 DEF HeardInv, Heard
  <2>4. \A i \in DOMAIN heard', v \in Due' : heard'[i] \in Values /\ v < heard'[i] =>
           \E j \in DOMAIN heard' : heard'[j] = v
    <3> SUFFICES ASSUME NEW i \in DOMAIN heard', NEW v \in Due', v < heard'[i]
                 PROVE  \E j \in DOMAIN heard' : heard'[j] = v
      OBVIOUS
    <3>1. v \in 1..last /\ Turn(v)
      BY SettingsStay DEF Due
    <3>2. heard'[i] \in 1..w
      BY <1>1, <1>4, <1>7, <1>9 DEF Heard
    <3>3. v \in 1..w
      BY <1>1, <1>4, <3>1, <3>2
    <3> QED BY <1>7, <1>8, <3>1, <3>3 DEF Heard
  <2> QED BY <2>2, <2>3, <2>4 DEF HeardInv
<1>12. queue' \in Seq(Values \cup Ends) /\ Row(queue', w, closed', taken')
  <2>1. w = r + first
    BY DEF w
  <2>2. Row(queue', w, closed', last)
    BY <1>1, <1>4, <2>1, RowAfter
  <2> QED BY <2>2, RowSeq
<1>13. /\ heard' \in Seq(Values \cup Ends) /\ heard' # <<>> /\ Last(heard') \notin Ends
       /\ heard' # heard
  <2>1. Len(heard) \in Nat
    BY DEF FlowTypeOK
  <2>2. Len(heard) + 1 \notin DOMAIN heard
    BY DEF FlowTypeOK
  <2> QED BY <1>7, <2>1, <2>2 DEF Heard
<1>14. previous' \in Nat /\ stopped' \in BOOLEAN /\ switching' \in BOOLEAN /\ (switching' <=> ~stopped')
  <2>1. Key(w) \in Nat
    BY <1>4, KeysGrow
  <2> QED BY <1>7, <2>1 DEF FlowTypeOK
<1>15. w \in 0..taken'
  BY <1>1, <1>4
<1> QED BY <1>10, <1>11, <1>12, <1>13, <1>14, <1>15 DEF DrainKept

LEMMA DrainedEnd ==
    ASSUME FlowTypeOK, HeardInv, ~stopped, switching, kind = "direct", ~left, left' = left,
           UNCHANGED settings, closed' \in BOOLEAN,
           NEW last \in 0..MaxEmits, taken' = last, taken <= last, NEW r \in 0..last, NEW q,
           Row(q, r, closed', last), Upto(r),
           NEW first \in DOMAIN q, Passes(q[first]), \A i \in 1..(first - 1) : ~Passes(q[i]),
           queue' = SubSeq(q, first + 1, Len(q)), q[first] \notin Values \ {poison},
           heard' = Append(heard, IF q[first] = poison THEN Failure ELSE q[first]),
           stopped' = TRUE, switching' = FALSE, UNCHANGED previous
    PROVE  DrainKept
<1>1. last \in Nat /\ r \in Nat /\ taken \in Nat /\ last <= MaxEmits /\ r <= last
  BY FlowBounds DEF FlowTypeOK
<1>2. q \in Seq(Values \cup Ends) /\ Len(q) \in Nat /\ first \in 1..Len(q)
  BY RowSeq
<1>3. PICK what \in Ends : heard' = Append(heard, what)
  <2>1. q[first] \in Values \cup Ends
    BY <1>2
  <2>2. CASE q[first] = poison
    BY <2>2, ValuesAndEnds
  <2>3. CASE q[first] # poison
    BY <2>1, <2>3
  <2> QED BY <2>2, <2>3
<1>4. Heard(what) /\ what \notin Values
  BY <1>3, AppendHeard, ValuesAndEnds
<1>5. \A v \in 1..last : Turn(v) => \E i \in DOMAIN heard : heard[i] = v
  <2>1. CASE q[first] = poison
    <3>0. poison \notin Ends
      BY FlowBounds, ValuesAndEnds DEF FlowTypeOK
    <3>1. /\ poison \in (r + 1)..last
          /\ poison - 1 \in r..last /\ (poison - 1) - r <= first - 1
      <4> DEFINE w == r + first
      <4>1. \/ q[first] = w /\ w \in (r + 1)..last /\ w - 1 \in r..last /\ (w - 1) - r <= first - 1
            \/ q[first] \in Ends
        BY <1>1, PlaceInRow
      <4> HIDE DEF w
      <4> QED BY <2>1, <3>0, <4>1
    <3>2. poison \notin {0, dropped}
      BY <1>1, <2>1, <3>1, ValuesAndEnds DEF Passes
    <3>3. \A v \in (r + 1)..(poison - 1) : ~Turn(v)
      BY <3>1, BeforeFirst
    <3>4. \A v : Turn(v) => v < poison
      BY <3>2 DEF Turn, Fit
    <3> QED BY <1>1, <3>1, <3>3, <3>4 DEF Upto
  <2>2. CASE q[first] # poison
    <3>1. q[first] \notin Values
      BY <2>2
    <3>2. \A w \in (r + 1)..last : w \in Values
      BY <1>1, FlowBounds DEF Values
    <3>3. last \in r..last /\ last - r <= first - 1
      BY <1>1, <3>1, <3>2, PlaceInRow
    <3>4. \A v \in (r + 1)..last : ~Turn(v)
      BY <3>3, BeforeFirst
    <3> QED BY <1>1, <3>4 DEF Upto
  <2> QED BY <2>1, <2>2
<1>6. \A v \in Due' : \E i \in DOMAIN heard' : heard'[i] = v
  <2>1. \A v \in Due' : v \in 1..last /\ Turn(v)
    BY SettingsStay DEF Due
  <2> QED BY <1>4, <1>5, <2>1 DEF Heard
<1>7. HeardInv'
  <2>1. Due \subseteq Due'
    BY <1>1, SettingsStay DEF Due
  <2>2. \A i \in DOMAIN heard' : heard'[i] \in Values => i \in DOMAIN heard /\ heard'[i] = heard[i]
    BY <1>4 DEF Heard
  <2>3. \A i, j \in DOMAIN heard' : i < j /\ heard'[j] \in Values => heard'[i] \in Values /\ heard'[i] < heard'[j]
    <3> SUFFICES ASSUME NEW i \in DOMAIN heard', NEW j \in DOMAIN heard', i < j, heard'[j] \in Values
                 PROVE  heard'[i] \in Values /\ heard'[i] < heard'[j]
      OBVIOUS
    <3>0. Len(heard) \in Nat
      BY DEF FlowTypeOK
    <3>1. j \in DOMAIN heard /\ heard'[j] = heard[j]
      BY <2>2
    <3>2. i \in DOMAIN heard /\ heard'[i] = heard[i]
      BY <1>4, <3>0, <3>1 DEF Heard
    <3> QED BY <3>1, <3>2 DEF HeardInv
  <2> QED BY <1>6, <2>1, <2>2, <2>3 DEF HeardInv
<1>8. queue' \in Seq(Values \cup Ends)
  BY <1>2
<1>9. heard' \in Seq(Values \cup Ends) /\ heard' # heard
  <2>1. Len(heard) + 1 \notin DOMAIN heard
    BY DEF FlowTypeOK
  <2> QED BY <1>4, <2>1 DEF Heard
<1>10. previous' \in Nat /\ stopped' \in BOOLEAN /\ switching' \in BOOLEAN /\ (switching' <=> ~stopped')
  BY DEF FlowTypeOK
<1> QED BY <1>7, <1>8, <1>9, <1>10 DEF DrainKept

LEMMA DrainedKeeps ==
    ASSUME FlowTypeOK, HeardInv, KindsApart, ~stopped, switching, kind = "direct", left' = left,
           UNCHANGED settings, closed' \in BOOLEAN,
           taken' \in 0..MaxEmits, taken <= taken', NEW r \in 0..taken', NEW q,
           Row(q, r, closed', taken'), Upto(r), Drained(q)
    PROVE  DrainKept
<1> PICK last \in 0..MaxEmits : last = taken'
  OBVIOUS
<1>1. ~left /\ (heard # <<>> => Last(heard) \notin Ends)
  BY DEF KindsApart
<1>2. CASE \A i \in DOMAIN q : ~Passes(q[i])
  <2>1. queue' = <<>> /\ UNCHANGED <<heard, previous, stopped, switching>>
    BY <1>2 DEF Drained
  <2> QED BY <1>1, <1>2, <2>1, DrainedNothing
<1>3. CASE \E i \in DOMAIN q : Passes(q[i])
  <2>1. PICK first \in DOMAIN q :
           /\ Passes(q[first]) /\ \A i \in 1..(first - 1) : ~Passes(q[i])
           /\ queue' = SubSeq(q, first + 1, Len(q))
           /\ IF q[first] \in Values \ {poison}
              THEN /\ heard' = Append(heard, q[first]) /\ previous' = Key(q[first])
                   /\ UNCHANGED <<stopped, switching>>
              ELSE /\ heard' = Append(heard, IF q[first] = poison THEN Failure ELSE q[first])
                   /\ stopped' = TRUE /\ switching' = FALSE /\ UNCHANGED previous
    BY <1>3 DEF Drained
  <2>2. CASE q[first] \in Values \ {poison}
    BY <2>1, <2>2, DrainedValue
  <2>3. CASE q[first] \notin Values \ {poison}
    BY <1>1, <2>1, <2>3, DrainedEnd
  <2> QED BY <2>2, <2>3
<1> QED BY <1>2, <1>3

(* The loop has run, or gone on, inside enqueue() or after a callback.     *)
LEMMA DrainKeptIsSound ==
    ASSUME FlowInv, DrainKept, kind = "direct", ~stopped, UNCHANGED settings, left' = left,
           closed' \in BOOLEAN, nestedEnd' \in BOOLEAN, emits' = taken', taken' \in 0..MaxEmits,
           UNCHANGED <<debounceVars, outerDone, current, inner>>,
           inside' \in {<<>>, <<"drain">>}, heard' # heard => inside' # <<>>
    PROVE  FlowInv'
<1>1. FlowTypeOK /\ KindsApart
  BY DEF FlowInv
<1>2. FlowTypeOK'
  <2>1. inside' \in Seq(Callbacks)
    <3>1. "drain" \in Callbacks
      BY DEF Callbacks
    <3>2. <<>> \in Seq(Callbacks) /\ <<"drain">> \in Seq(Callbacks)
      BY <3>1
    <3> QED BY <3>2
  <2>2. /\ queue' \in Seq(Values \cup Ends) /\ heard' \in Seq(Values \cup Ends)
        /\ previous' \in Nat /\ stopped' \in BOOLEAN /\ switching' \in BOOLEAN
    BY DEF DrainKept
  <2>3. emits' \in 0..MaxEmits
    OBVIOUS
  <2> QED BY <1>1, <2>1, <2>2, <2>3 DEF FlowTypeOK, settings, debounceVars
<1>3. KindsApart'
  <2>1. ~left'
    BY <1>1 DEF KindsApart
  <2> QED BY <1>1, <2>1 DEF KindsApart, DrainKept, settings
<1>4. DirectInv'
  BY DEF DirectInv, DrainKept, settings
<1> QED BY <1>2, <1>3, <1>4, OtherKinds DEF FlowInv, settings

LEMMA Enqueues ==
    ASSUME FlowInv, kind = "direct", NEW action \in Values \cup Ends, Enqueue(action),
           UNCHANGED settings, left' = left,
           closed' \in BOOLEAN, nestedEnd' \in BOOLEAN, emits' \in 0..MaxEmits, taken' \in 0..MaxEmits,
           taken <= taken', IF stopped THEN taken' = taken ELSE emits' = taken',
           UNCHANGED <<debounceVars, outerDone, current, inner>>,
           NEW r \in 0..taken', NEW q, q = Append(queue, action),
           ~stopped => Row(q, r, closed', taken') /\ Upto(r)
    PROVE  FlowInv'
<1>1. FlowTypeOK /\ KindsApart /\ DirectInv
  BY DEF FlowInv
<1>2. CASE stopped
  <2>1. UNCHANGED <<queue, heard, previous, stopped, switching, inside>> /\ taken' = taken
    BY <1>2 DEF Enqueue
  <2>2. FlowTypeOK'
    BY <1>1, <2>1 DEF FlowTypeOK, settings, debounceVars
  <2>3. KindsApart'
    BY <1>1, <1>2, <2>1 DEF KindsApart, settings
  <2>4. HeardInv'
    <3>1. Due' = Due
      BY <2>1, SettingsStay DEF Due
    <3> QED BY <1>1, <2>1, <3>1 DEF DirectInv, HeardInv
  <2>5. DirectInv'
    BY <1>2, <2>1, <2>4 DEF DirectInv
  <2> QED BY <2>2, <2>3, <2>5, OtherKinds DEF FlowInv, settings
<1>3. CASE ~stopped /\ inside # <<>>
  <2>1. inside = <<"drain">> /\ Draining /\ switching /\ ~left
    <3>1. inside = <<"drain">>
      BY <1>1, <1>3 DEF KindsApart
    <3>2. 1 \in DOMAIN inside /\ inside[1] = "drain"
      BY <3>1
    <3> QED BY <1>1, <1>3, <3>1, <3>2 DEF KindsApart, Draining
  <2>2. queue' = q /\ UNCHANGED <<heard, previous, stopped, switching, inside>>
    BY <1>3, <2>1 DEF Enqueue
  <2>3. Row(q, r, closed', taken') /\ Upto(r)
    BY <1>3
  <2>4. q \in Seq(Values \cup Ends)
    BY <2>3 DEF Row
  <2>5. FlowTypeOK'
    BY <1>1, <2>2, <2>4 DEF FlowTypeOK, settings, debounceVars
  <2>6. KindsApart'
    BY <1>1, <2>1, <2>2 DEF KindsApart, settings
  <2>7. Upto(r)'
    BY <2>2, <2>3, SettingsStay DEF Upto, settings
  <2>8. HeardInv'
    <3>1. Due \subseteq Due'
      <4>1. taken \in Nat /\ taken' \in Nat
        BY <1>1, FlowBounds DEF FlowTypeOK
      <4> QED BY <4>1, SettingsStay DEF Due
    <3>2. \A i \in DOMAIN heard, v \in Due' : v < heard[i] => \E j \in DOMAIN heard : heard[j] = v
      <4> SUFFICES ASSUME NEW i \in DOMAIN heard, NEW v \in Due', v < heard[i]
                   PROVE  \E j \in DOMAIN heard : heard[j] = v
        OBVIOUS
      <4>1. v \in Nat /\ v > 0 /\ Turn(v) /\ r \in Nat
        BY SettingsStay, FlowBounds DEF Due
      <4>2. heard[i] \in 1..r
        BY <2>3 DEF Upto
      <4>3. v \in 1..r
        BY <4>1, <4>2
      <4> QED BY <2>3, <4>1, <4>3 DEF Upto
    <3> QED BY <1>1, <1>3, <2>2, <3>1, <3>2 DEF DirectInv, HeardInv
  <2>9. DirectInv'
    <3>1. Row(queue', r, closed', taken')
      BY <2>2, <2>3
    <3>2. inside' # <<>> /\ emits' = taken'
      BY <1>3, <2>2
    <3> QED BY <2>7, <2>8, <3>1, <3>2 DEF DirectInv
  <2> QED BY <2>5, <2>6, <2>9, OtherKinds DEF FlowInv, settings
<1>4. CASE ~stopped /\ inside = <<>>
  <2>1. ~Draining /\ switching
    BY <1>1, <1>4 DEF KindsApart, Draining
  <2>2. /\ Take(Append(queue, action))
        /\ inside' = IF heard' = heard THEN inside ELSE <<"drain">> \o inside
    BY <1>4, <2>1 DEF Enqueue
  <2>3. Drained(q)
    BY <2>2 DEF Take, Drained
  <2>4. DrainKept
    BY <1>1, <1>4, <2>1, <2>3, DrainedKeeps DEF DirectInv
  <2>5. inside' \in {<<>>, <<"drain">>} /\ (heard' # heard => inside' # <<>>)
    BY <1>4, <2>2
  <2> QED BY <1>4, <2>4, <2>5, DrainKeptIsSound
<1> QED BY <1>2, <1>3, <1>4

LEMMA DirectEmit ==
    ASSUME FlowInv, kind = "direct", Emit
    PROVE  FlowInv'
<1>1. FlowTypeOK /\ DirectInv
  BY DEF FlowInv
<1>2. /\ UNCHANGED <<settings, closed, left, nestedEnd, debounceVars, outerDone, current, inner>>
      /\ ~closed /\ emits < MaxEmits /\ emits' = emits + 1
      /\ taken' = IF stopped THEN taken ELSE emits + 1
      /\ Enqueue(emits + 1)
  BY DEF Emit, Direct
<1>3. /\ emits \in Nat /\ taken \in Nat /\ emits + 1 \in Values /\ MaxEmits \in Nat
      /\ taken <= MaxEmits /\ emits' \in 0..MaxEmits
  BY <1>1, <1>2, ValuesAndEnds, FlowBounds DEF FlowTypeOK
<1>4. ~stopped => emits = taken
  BY <1>1 DEF DirectInv
<1>5. taken' \in 0..MaxEmits /\ taken <= taken' /\ (IF stopped THEN taken' = taken ELSE emits' = taken')
  BY <1>2, <1>3, <1>4
<1>6. PICK action : action = emits + 1
  OBVIOUS
<1>7. PICK q : q = Append(queue, action)
  OBVIOUS
<1>8. closed' \in BOOLEAN /\ nestedEnd' \in BOOLEAN /\ left' = left
  BY <1>1, <1>2 DEF FlowTypeOK
<1>9. Enqueue(action)
  BY <1>2, <1>6 DEF Enqueue, Take, Passes
<1>10. CASE stopped
  <2>1. 0 \in 0..taken'
    BY <1>5, FlowBounds
  <2> QED BY <1>2, <1>3, <1>5, <1>6, <1>7, <1>8, <1>9, <1>10, <2>1, Enqueues
<1>11. CASE ~stopped
  <2>1. PICK r \in 0..taken : Row(queue, r, closed, taken) /\ Upto(r)
    BY <1>1, <1>11 DEF DirectInv
  <2>2. r \in 0..taken' /\ taken' = taken + 1 /\ r \in Nat
    BY <1>2, <1>3, <1>4, <1>11
  <2>3. Row(q, r, closed', taken')
    <3>1. queue \in Seq(Values \cup Ends) /\ Len(queue) = taken - r
      BY <1>2, <2>1 DEF Row
    <3>2. /\ q \in Seq(Values \cup Ends) /\ Len(q) = Len(queue) + 1 /\ q[Len(queue) + 1] = action
          /\ \A i \in 1..Len(queue) : q[i] = queue[i]
      BY <1>3, <1>6, <1>7, <3>1
    <3>3. Len(q) = taken' - r
      BY <1>3, <2>2, <3>1, <3>2
    <3>4. \A i \in 1..(taken' - r) : q[i] = r + i
      <4> SUFFICES ASSUME NEW i \in 1..(taken' - r) PROVE q[i] = r + i
        OBVIOUS
      <4>1. CASE i <= Len(queue)
        <5>1. i \in 1..Len(queue) /\ i \in 1..(taken - r)
          BY <1>3, <2>2, <3>1, <4>1
        <5> QED BY <2>1, <3>2, <5>1 DEF Row
      <4>2. CASE i > Len(queue)
        <5>1. i = Len(queue) + 1 /\ action = r + i
          BY <1>3, <1>4, <1>6, <1>11, <2>2, <3>1, <4>2
        <5> QED BY <3>2, <5>1
      <4> QED BY <1>3, <2>2, <3>1, <4>1, <4>2
    <3> QED BY <1>2, <2>2, <3>2, <3>3, <3>4 DEF Row
  <2> QED BY <1>2, <1>3, <1>5, <1>6, <1>7, <1>8, <1>9, <1>11, <2>1, <2>2, <2>3, Enqueues
<1> QED BY <1>10, <1>11

LEMMA DirectEnds ==
    ASSUME FlowInv, kind = "direct", NEW how \in Ends, SourceEnds(how)
    PROVE  FlowInv'
<1>1. FlowTypeOK /\ DirectInv
  BY DEF FlowInv
<1>2. /\ UNCHANGED <<settings, left, emits, taken, debounceVars, outerDone, current, inner>>
      /\ ~closed /\ closed' = TRUE /\ nestedEnd' = (inside # <<>>)
      /\ Enqueue(how)
  BY DEF SourceEnds, Direct
<1>3. closed' \in BOOLEAN /\ left' = left /\ taken \in Nat
  BY <1>1, <1>2, FlowBounds DEF FlowTypeOK
<1>4. nestedEnd' \in BOOLEAN
  BY <1>2
<1>5. /\ emits' \in 0..MaxEmits /\ taken' \in 0..MaxEmits /\ taken <= taken'
      /\ IF stopped THEN taken' = taken ELSE emits' = taken'
  BY <1>1, <1>2, FlowBounds DEF FlowTypeOK, DirectInv
<1>6. PICK q : q = Append(queue, how)
  OBVIOUS
<1>7. CASE stopped
  <2>1. 0 \in 0..taken'
    BY <1>5, FlowBounds
  <2> QED BY <1>2, <1>3, <1>4, <1>5, <1>6, <1>7, <2>1, Enqueues
<1>8. CASE ~stopped
  <2>1. PICK r \in 0..taken : Row(queue, r, closed, taken) /\ Upto(r)
    BY <1>1, <1>8 DEF DirectInv
  <2>2. Row(q, r, closed', taken')
    <3>1. queue \in Seq(Values \cup Ends) /\ Len(queue) = taken - r
      BY <1>2, <2>1 DEF Row
    <3>2. /\ q \in Seq(Values \cup Ends) /\ Len(q) = Len(queue) + 1 /\ q[Len(queue) + 1] = how
          /\ \A i \in 1..Len(queue) : q[i] = queue[i]
      BY <1>6, <3>1
    <3> QED BY <1>2, <2>1, <3>1, <3>2 DEF Row
  <2>3. r \in 0..taken'
    BY <1>2
  <2> QED BY <1>2, <1>3, <1>4, <1>5, <1>6, <1>8, <2>1, <2>2, <2>3, Enqueues
<1> QED BY <1>7, <1>8

LEMMA DrainKeeps ==
    ASSUME FlowInv, Drain
    PROVE  FlowInv'
<1>1. FlowTypeOK /\ KindsApart /\ DirectInv
  BY DEF FlowInv
<1>2. /\ kind = "direct" /\ inside # <<>>
      /\ IF stopped THEN UNCHANGED <<queue, heard, previous, stopped, switching>> ELSE Take(queue)
      /\ inside' = IF heard' = heard THEN Front(inside) ELSE inside
      /\ UNCHANGED <<settings, closed, debounceVars, outerDone, current, inner, left, emits, taken, nestedEnd>>
  BY DEF Drain
<1>3. inside = <<"drain">> /\ Front(inside) = <<>>
  <2>1. inside = <<"drain">>
    BY <1>1, <1>2 DEF KindsApart
  <2> QED BY <2>1 DEF Front
<1>4. CASE stopped
  <2>1. UNCHANGED <<queue, heard, previous, stopped, switching>> /\ inside' = <<>>
    BY <1>2, <1>3, <1>4
  <2>2. FlowTypeOK'
    BY <1>1, <1>2, <2>1 DEF FlowTypeOK, settings, debounceVars
  <2>3. KindsApart'
    BY <1>1, <1>2, <1>4, <2>1 DEF KindsApart, settings
  <2>4. HeardInv'
    <3>1. Due' = Due
      BY <1>2, SettingsStay DEF Due
    <3> QED BY <1>1, <1>2, <2>1, <3>1 DEF DirectInv, HeardInv
  <2>5. DirectInv'
    BY <1>4, <2>1, <2>4 DEF DirectInv
  <2> QED BY <1>2, <2>2, <2>3, <2>5, OtherKinds DEF FlowInv, settings
<1>5. CASE ~stopped
  <2>1. emits = taken
    BY <1>1, <1>2, <1>5 DEF DirectInv
  <2>2. PICK r \in 0..taken : Row(queue, r, closed, taken) /\ Upto(r)
    BY <1>1, <1>2, <1>5 DEF DirectInv
  <2>3. PICK q : q = queue
    OBVIOUS
  <2>4. Drained(q)
    BY <1>2, <1>5, <2>3 DEF Take, Drained
  <2>5. Row(q, r, closed', taken') /\ r \in 0..taken'
    BY <1>2, <2>2, <2>3
  <2>6. /\ closed' \in BOOLEAN /\ nestedEnd' \in BOOLEAN /\ taken' \in 0..MaxEmits /\ taken <= taken'
        /\ emits' = taken' /\ left' = left
    BY <1>1, <1>2, <2>1, FlowBounds DEF FlowTypeOK
  <2>7. DrainKept
    BY <1>1, <1>2, <1>5, <2>2, <2>4, <2>5, <2>6, DrainedKeeps DEF DirectInv, KindsApart
  <2>8. inside' \in {<<>>, <<"drain">>} /\ (heard' # heard => inside' # <<>>)
    BY <1>2, <1>3
  <2> QED BY <1>2, <1>5, <2>6, <2>7, <2>8, DrainKeptIsSound
<1> QED BY <1>4, <1>5

LEMMA DirectUnsubscribe ==
    ASSUME FlowInv, kind = "direct", Unsubscribe
    PROVE  FlowInv'
<1>1. FlowTypeOK /\ KindsApart /\ DirectInv
  BY DEF FlowInv
<1>2. /\ left' = TRUE /\ queue' = <<>> /\ switching' = FALSE /\ stopped' = TRUE
      /\ timer' = FALSE /\ debounced' = TRUE /\ UNCHANGED <<latest, outerDone>>
      /\ UNCHANGED <<settings, current, closed, previous, heard, inside, emits, taken, nestedEnd>>
  BY DEF Unsubscribe, TornDown
<1>3. PromisesAborted
  BY <1>1, AbortedAreAborted DEF Unsubscribe, TornDown
<1>4. FlowTypeOK'
  <2>1. /\ left' \in BOOLEAN /\ switching' \in BOOLEAN /\ stopped' \in BOOLEAN
        /\ timer' \in BOOLEAN /\ debounced' \in BOOLEAN
    BY <1>2
  <2>2. queue' \in Seq(Values \cup Ends)
    BY <1>2
  <2> QED BY <1>1, <1>2, <1>3, <2>1, <2>2 DEF FlowTypeOK, settings, PromisesAborted
<1>5. KindsApart'
  BY <1>1, <1>2 DEF KindsApart, settings
<1>6. HeardInv'
  <2>1. Due' = Due
    BY <1>2, SettingsStay DEF Due
  <2> QED BY <1>1, <1>2, <2>1 DEF DirectInv, HeardInv
<1>7. DirectInv'
  BY <1>2, <1>6 DEF DirectInv
<1> QED BY <1>2, <1>4, <1>5, <1>7, OtherKinds DEF FlowInv, settings

-----------------------------------------------------------------------------
LEMMA FlowInvKept == FlowInv /\ [FlowNext]_wvars => FlowInv'
<1> SUFFICES ASSUME FlowInv, [FlowNext]_wvars PROVE FlowInv'
  OBVIOUS
<1>1. FlowTypeOK
  BY DEF FlowInv
<1>2. kind \in {"direct", "search", "pulled"}
  BY <1>1 DEF FlowTypeOK
<1>3. CASE Emit
  BY <1>2, <1>3, DirectEmit, SearchEmit DEF Emit
<1>4. ASSUME NEW how \in Ends, SourceEnds(how) PROVE FlowInv'
  <2>1. how = Complete \/ how = Failure
    BY DEF Ends
  <2>2. kind # "pulled"
    BY <1>4 DEF SourceEnds
  <2>3. CASE kind = "direct"
    BY <1>4, <2>3, DirectEnds
  <2>4. CASE kind = "search" /\ how = Complete
    BY <1>4, <2>4, SearchCompletes DEF SourceEnds
  <2>5. CASE kind = "search" /\ how = Failure
    BY <1>4, <2>5, SearchFails DEF SourceEnds
  <2> QED BY <1>2, <2>1, <2>2, <2>3, <2>4, <2>5
<1>5. CASE Unsubscribe
  BY <1>2, <1>5, DirectUnsubscribe, SearchUnsubscribe, PulledUnsubscribe
<1>6. CASE Drain
  BY <1>6, DrainKeeps
<1>7. CASE InnerCompletes
  BY <1>7, SearchInnerCompletes
<1>8. CASE CallbackReturns
  BY <1>8, CallbackReturnsKeeps
<1>9. CASE ConsumerThrows
  BY <1>9, ThrowingKeeps
<1>10. ASSUME NEW throws \in BOOLEAN, FlushTimer(throws) PROVE FlowInv'
  BY <1>10, SearchFlushes
<1>11. ASSUME NEW v \in Values, NEW ok \in BOOLEAN, PromiseSettles(v, ok) PROVE FlowInv'
  BY <1>11, SearchSettles
<1>12. CASE emits < MaxEmits /\ Pump(emits + 1)
  <2>1. PICK what : what = emits + 1
    OBVIOUS
  <2>2. Pump(what)
    BY <1>12, <2>1 DEF Pump
  <2> QED BY <1>12, <2>1, <2>2, Pumps
<1>13. ASSUME NEW how \in Ends, Pump(how) PROVE FlowInv'
  <2>1. PICK what : what = how
    OBVIOUS
  <2>2. Pump(what) /\ what \in Ends
    BY <1>13, <2>1
  <2> QED BY <2>2, Pumps
<1>14. CASE UNCHANGED wvars
  <2> USE <1>14 DEF wvars, settings, debounceVars, switchVars
  <2>1. FlowTypeOK'
    BY <1>1 DEF FlowTypeOK
  <2>2. KindsApart'
    BY DEF FlowInv, KindsApart
  <2>3. SearchInv'
    BY DEF FlowInv, SearchInv, DebounceInv, SwitchInv, Running
  <2>4. DirectInv'
    <3>1. Due' = Due
      BY SettingsStay DEF Due
    <3>2. HeardInv' <=> HeardInv
      BY <3>1 DEF HeardInv
    <3>3. \A r : Row(queue, r, closed, taken) => Row(queue', r, closed', taken')
      OBVIOUS
    <3>4. \A r : Upto(r) => Upto(r)'
      BY SettingsStay DEF Upto
    <3> QED BY <3>2, <3>3, <3>4 DEF FlowInv, DirectInv
  <2> QED BY <2>1, <2>2, <2>3, <2>4 DEF FlowInv
<1> QED BY <1>3, <1>4, <1>5, <1>6, <1>7, <1>8, <1>9, <1>10, <1>11, <1>12, <1>13, <1>14 DEF FlowNext

LEMMA FlowInvariance == FlowSpec => []FlowInv
BY FlowInvInitially, FlowInvKept, PTL DEF FlowSpec

(* What the invariant says of the consumer.                                *)
LEMMA ValuesAreInOrder == FlowInv => EmissionsInOrder
<1> SUFFICES ASSUME FlowInv, kind = "direct" PROVE EmissionsInOrder
  BY DEF EmissionsInOrder
<1>1. FlowTypeOK /\ KindsApart /\ HeardInv /\ DirectInv
  BY DEF FlowInv, DirectInv
<1>2. Due \subseteq Values
  BY <1>1, FlowBounds DEF FlowTypeOK, Due, Values
<1>3. ASSUME inside = <<>>, ~left PROVE \A v \in Due : \E i \in DOMAIN heard : heard[i] = v
  <2>1. CASE stopped
    BY <1>1, <1>3, <2>1 DEF HeardInv
  <2>2. CASE ~stopped
    <3>1. PICK r \in 0..taken : Row(queue, r, closed, taken) /\ Upto(r)
      BY <1>1, <2>2 DEF DirectInv
    <3>2. queue = <<>>
      BY <1>1, <1>3, <2>2 DEF DirectInv
    <3>3. taken \in Nat /\ r \in Nat
      BY <1>1, FlowBounds DEF FlowTypeOK
    <3>4. r = taken
      BY <3>1, <3>2, <3>3 DEF Row
    <3> QED BY <3>1, <3>4 DEF Upto, Due
  <2> QED BY <2>1, <2>2
<1> QED BY <1>1, <1>2, <1>3 DEF EmissionsInOrder, HeardInv

LEMMA LatestAreHeard == FlowInv => OnlyTheLatestIsHeard
<1> SUFFICES ASSUME FlowInv, kind = "search" PROVE OnlyTheLatestIsHeard
  BY DEF OnlyTheLatestIsHeard
<1>1. KindsApart /\ DebounceInv /\ SwitchInv
  BY DEF FlowInv, SearchInv
<1>2. heard # <<>> /\ Last(heard) = Complete /\ ~nestedEnd => \A v \in Values : inner[v] # "running"
  BY <1>1, ValuesAndEnds DEF KindsApart, SwitchInv, Running
<1> QED BY <1>1, <1>2 DEF OnlyTheLatestIsHeard, DebounceInv, SwitchInv, Running

LEMMA ToldInTime == FlowInv /\ [FlowNext]_wvars => [NothingAfterTheEndInStep]_wvars
<1> SUFFICES ASSUME FlowInv, FlowNext, ~nestedEnd, heard' # heard PROVE NothingAfterTheEndInStep
  BY DEF NothingAfterTheEndInStep
<1>1. FlowTypeOK /\ KindsApart /\ (kind = "search" => DebounceInv /\ SwitchInv)
  BY DEF FlowInv, SearchInv
<1>2. ASSUME kind # "pulled", switching PROVE NothingAfterTheEndInStep
  BY <1>1, <1>2 DEF NothingAfterTheEndInStep, KindsApart
<1>3. CASE Emit
  <2>1. kind = "direct" /\ ~stopped
    BY <1>3 DEF Emit, Direct, Enqueue, Quiet
  <2> QED BY <1>1, <1>2, <2>1 DEF KindsApart
<1>4. ASSUME NEW how \in Ends, SourceEnds(how) PROVE NothingAfterTheEndInStep
  <2>1. kind # "pulled"
    BY <1>4 DEF SourceEnds
  <2>2. CASE kind = "direct"
    <3>1. ~stopped
      BY <1>4, <2>2 DEF SourceEnds, Direct, Enqueue
    <3> QED BY <1>1, <1>2, <2>2, <3>1 DEF KindsApart
  <2>3. CASE kind # "direct"
    <3>1. switching
      BY <1>4, <2>3 DEF SourceEnds, CompleteSearch, MaybeComplete, Terminate, Quiet
    <3> QED BY <1>2, <2>1, <3>1
  <2> QED BY <2>2, <2>3
<1>5. CASE Unsubscribe
  BY <1>5 DEF Unsubscribe
<1>6. CASE Drain
  <2>1. kind = "direct" /\ ~stopped
    BY <1>6 DEF Drain
  <2> QED BY <1>1, <1>2, <2>1 DEF KindsApart
<1>7. CASE InnerCompletes
  <2>1. switching
    BY <1>7 DEF InnerCompletes
  <2>2. inside # <<>> /\ Last(inside) = "promise"
    BY <1>7 DEF InnerCompletes
  <2>3. kind # "pulled"
    BY <1>1, <2>2, FrontIsUnframed DEF KindsApart
  <2> QED BY <1>2, <2>1, <2>3
<1>8. CASE CallbackReturns
  BY <1>8 DEF CallbackReturns
<1>9. CASE ConsumerThrows
  <2>1. kind = "pulled" /\ Last(heard) # Failure /\ switching /\ heard' = Append(heard, Failure)
    BY <1>9 DEF ConsumerThrows
  <2>2. Last(heard') = Failure
    BY <1>1, <2>1, AppendHeard, ValuesAndEnds DEF Heard
  <2> QED BY <1>1, <2>1, <2>2 DEF NothingAfterTheEndInStep, KindsApart, Ends
<1>10. ASSUME NEW throws \in BOOLEAN, FlushTimer(throws) PROVE NothingAfterTheEndInStep
  <2>1. kind = "search" /\ timer
    BY <1>10 DEF FlushTimer
  <2> QED BY <1>1, <1>2, <2>1 DEF DebounceInv
<1>11. ASSUME NEW v \in Values, NEW ok \in BOOLEAN, PromiseSettles(v, ok) PROVE NothingAfterTheEndInStep
  <2>1. kind = "search" /\ (Running(v) \/ switching)
    BY <1>11 DEF PromiseSettles, Terminate, Quiet, Running
  <2> QED BY <1>1, <1>2, <2>1 DEF SwitchInv
<1>12. ASSUME NEW what, Pump(what) PROVE NothingAfterTheEndInStep
  BY <1>1, <1>12 DEF Pump, NothingAfterTheEndInStep, KindsApart
<1>13. CASE emits < MaxEmits /\ Pump(emits + 1)
  BY <1>1, <1>13 DEF Pump, NothingAfterTheEndInStep, KindsApart
<1> QED BY <1>3, <1>4, <1>5, <1>6, <1>7, <1>8, <1>9, <1>10, <1>11, <1>12, <1>13 DEF FlowNext

(* The stream contract (createQueuedObserver(), switchLatest(),            *)
(* debounce(), the pumps): a consumer of a manual source hears what its    *)
(* pipeline lets through, once and in order, however its callbacks emit    *)
(* and end; of searches only the latest is heard and the end waits for it; *)
(* and nothing is told after an end or after the consumer left.            *)
THEOREM FlowIsAlwaysSound == FlowSpec => FlowIsSound
<1>1. FlowInv => EmissionsInOrder /\ OnlyTheLatestIsHeard
  BY ValuesAreInOrder, LatestAreHeard
<1> QED BY <1>1, FlowInvariance, ToldInTime, PTL DEF FlowSpec, FlowIsSound, NothingAfterTheEnd

-----------------------------------------------------------------------------
(* Folds.  What FoldLeft computes is defined by a recursion over the sets  *)
(* of indices, from which the last is taken: there is such a function.     *)
LEMMA LastIndex ==
    ASSUME NEW n \in Nat, NEW s \in SUBSET (1..n), s # {}
    PROVE  Max(s) \in s /\ \A k \in s : k <= Max(s)
<1> DEFINE T == {n - k : k \in s}
<1>1. T \subseteq Nat /\ T # {}
  <2>1. \A k \in s : n - k \in Nat
    OBVIOUS
  <2> QED BY <2>1
<1>2. Min(T) \in T /\ \A m \in T : Min(T) <= m
  <2> HIDE DEF T
  <2> QED BY <1>1, MinIsLeast
<1>3. PICK k \in s : Min(T) = n - k
  BY <1>2
<1>4. \A m \in s : n - k <= n - m
  BY <1>2, <1>3
<1>5. \A m \in s : k >= m
  BY <1>4
<1>6. \A m \in s : m <= k /\ (m >= k => m = k)
  BY <1>5
<1> QED BY <1>5, <1>6 DEF Max

Folds(h, n, base, g, t) ==
    \A s \in SUBSET (1..n) : h[s] = IF s = {} THEN base ELSE g[h[s \ {Max(s)}]][t[Max(s)]]

LEMMA FoldExists ==
    ASSUME NEW A, NEW E, NEW g \in [A -> [E -> A]], NEW base \in A, NEW t \in Seq(E)
    PROVE  \E h \in [SUBSET (1..Len(t)) -> A] : Folds(h, Len(t), base, g, t)
<1> DEFINE Goes(n) == \E h \in [SUBSET (1..n) -> A] : Folds(h, n, base, g, t)
           Fails == {n \in 0..Len(t) : ~Goes(n)}
<1>1. Len(t) \in Nat /\ \A k \in 1..Len(t) : t[k] \in E
  OBVIOUS
<1>2. Goes(0)
  <2> DEFINE h == [s \in SUBSET (1..0) |-> base]
  <2>1. SUBSET (1..0) = {{}}
    BY SMT
  <2>2. h \in [SUBSET (1..0) -> A] /\ Folds(h, 0, base, g, t)
    BY <2>1 DEF Folds
  <2> QED BY <2>2
<1>3. ASSUME NEW n \in 1..Len(t), Goes(n - 1) PROVE Goes(n)
  <2>0. n \in Nat /\ (\A x \in 1..n : x \in Nat /\ x <= n /\ (x # n => x \in 1..(n - 1)))
    BY <1>1
  <2>1. PICK b \in [SUBSET (1..(n - 1)) -> A] : Folds(b, n - 1, base, g, t)
    BY <1>3
  <2> DEFINE h == [s \in SUBSET (1..n) |-> IF n \in s THEN g[b[s \ {n}]][t[n]] ELSE b[s]]
  <2>2. ASSUME NEW s \in SUBSET (1..n)
        PROVE  /\ n \notin s => s \in SUBSET (1..(n - 1))
               /\ s \ {n} \in SUBSET (1..(n - 1))
               /\ n \in s => Max(s) = n
    <3>1. (n \notin s => s \in SUBSET (1..(n - 1))) /\ s \ {n} \in SUBSET (1..(n - 1))
      BY <2>0
    <3>2. n \in s => Max(s) = n
      <4> SUFFICES ASSUME n \in s PROVE Max(s) = n
        OBVIOUS
      <4>1. Max(s) \in s /\ n <= Max(s)
        BY <2>0, LastIndex
      <4>2. Max(s) \in Nat /\ Max(s) <= n
        BY <2>0, <4>1
      <4> QED BY <2>0, <4>1, <4>2
    <3> QED BY <3>1, <3>2
  <2>3. h \in [SUBSET (1..n) -> A]
    <3>1. t[n] \in E
      BY <1>1
    <3>2. ASSUME NEW s \in SUBSET (1..n) PROVE (IF n \in s THEN g[b[s \ {n}]][t[n]] ELSE b[s]) \in A
      <4>1. CASE n \in s
        <5>1. b[s \ {n}] \in A
          BY <2>2
        <5>2. g[b[s \ {n}]] \in [E -> A]
          BY <5>1
        <5>3. g[b[s \ {n}]][t[n]] \in A
          BY <3>1, <5>2
        <5> QED BY <4>1, <5>3
      <4>2. CASE n \notin s
        BY <2>2, <4>2
      <4> QED BY <4>1, <4>2
    <3> QED BY <3>2
  <2>4. ASSUME NEW s \in SUBSET (1..n)
        PROVE  h[s] = IF s = {} THEN base ELSE g[h[s \ {Max(s)}]][t[Max(s)]]
    <3>1. CASE n \in s
      <4>1. h[s] = g[b[s \ {n}]][t[n]] /\ h[s \ {n}] = b[s \ {n}]
        BY <3>1
      <4> HIDE DEF h
      <4> QED BY <2>2, <3>1, <4>1
    <3>2. CASE n \notin s
      <4>1. h[s] = b[s] /\ h[s \ {Max(s)}] = b[s \ {Max(s)}]
        BY <3>2
      <4>2. b[s] = IF s = {} THEN base ELSE g[b[s \ {Max(s)}]][t[Max(s)]]
        BY <2>1, <2>2, <3>2 DEF Folds
      <4> HIDE DEF h
      <4> QED BY <4>1, <4>2
    <3> QED BY <3>1, <3>2
  <2> HIDE DEF h
  <2>5. Folds(h, n, base, g, t)
    BY <2>4 DEF Folds
  <2> QED BY <2>3, <2>5
<1> HIDE DEF Goes
<1>4. Fails = {}
  <2> SUFFICES ASSUME Fails # {} PROVE FALSE
    OBVIOUS
  <2>1. Fails \subseteq Nat
    BY <1>1
  <2>2. Min(Fails) \in Fails /\ \A m \in Fails : Min(Fails) <= m
    BY <2>1, MinIsLeast
  <2>3. PICK n \in Fails : \A m \in Fails : n <= m
    BY <2>2
  <2>4. n # 0 /\ n \in 1..Len(t)
    BY <1>1, <1>2, <2>3
  <2>5. n - 1 \in 0..Len(t) /\ n - 1 \notin Fails
    BY <1>1, <2>3, <2>4
  <2> QED BY <1>3, <2>3, <2>4, <2>5
<1>5. Goes(Len(t))
  BY <1>1, <1>4
<1> QED BY <1>5 DEF Goes

LEMMA Intervals ==
    ASSUME NEW n \in Nat, NEW k \in 1..n
    PROVE  /\ 1..k \in SUBSET (1..n) /\ 1..k # {} /\ Max(1..k) = k /\ (1..k) \ {k} = 1..(k - 1)
           /\ k \in 0..n /\ k - 1 \in 0..n
<1>1. k \in Nat /\ k >= 1 /\ k <= n
  OBVIOUS
<1>2. k \in 1..k /\ 1..k \subseteq 1..n
  BY <1>1
<1>3. Max(1..k) \in 1..k /\ k <= Max(1..k)
  BY <1>1, <1>2, LastIndex
<1>4. Max(1..k) = k
  BY <1>1, <1>3
<1>5. (1..k) \ {k} = 1..(k - 1)
  BY <1>1
<1> QED BY <1>1, <1>2, <1>4, <1>5

LEMMA StaysIn ==
    ASSUME NEW n \in Nat, NEW F, NEW A, F[0] \in A, \A k \in 1..n : F[k - 1] \in A => F[k] \in A
    PROVE  \A k \in 0..n : F[k] \in A
<1> DEFINE Fails == {k \in 0..n : F[k] \notin A}
<1>1. Fails = {}
  <2> SUFFICES ASSUME Fails # {} PROVE FALSE
    OBVIOUS
  <2>1. Fails \subseteq Nat
    OBVIOUS
  <2>2. PICK k \in Fails : \A m \in Fails : k <= m
    <3> HIDE DEF Fails
    <3> QED BY <2>1, MinIsLeast
  <2>3. k \in Nat /\ k <= n /\ k # 0
    BY <2>2
  <2>4. k \in 1..n /\ k - 1 \in 0..n /\ ~(k <= k - 1)
    BY <2>3
  <2>5. k - 1 \notin Fails
    BY <2>2, <2>4
  <2> QED BY <2>2, <2>4, <2>5
<1> QED BY <1>1

LEMMA Reaches ==
    ASSUME NEW n \in Nat, NEW P, 0 \in P, \A k \in 1..n : k - 1 \in P => k \in P
    PROVE  \A k \in 0..n : k \in P
<1> DEFINE Fails == {k \in 0..n : k \notin P}
<1>1. Fails = {}
  <2> SUFFICES ASSUME Fails # {} PROVE FALSE
    OBVIOUS
  <2>1. Fails \subseteq Nat
    OBVIOUS
  <2>2. PICK k \in Fails : \A m \in Fails : k <= m
    <3> HIDE DEF Fails
    <3> QED BY <2>1, MinIsLeast
  <2>3. k \in Nat /\ k <= n /\ k # 0
    BY <2>2
  <2>4. k \in 1..n /\ k - 1 \in 0..n /\ ~(k <= k - 1)
    BY <2>3
  <2>5. k - 1 \notin Fails
    BY <2>2, <2>4
  <2> QED BY <2>2, <2>4, <2>5
<1> QED BY <1>1

-----------------------------------------------------------------------------
(* The event stream: what is cut from a text and heard of its lines, one   *)
(* symbol and one line after the other.                                    *)
Lines == Seq(STRING)
Cuts == [lines : Seq(Lines), rest : Lines]
Events == [data : Seq(Lines), name : BOOLEAN, id : BOOLEAN]
Gatherings == [event : Events, emitted : Seq(Events)]
Silence == [event |-> NoEvent, emitted |-> <<>>]

SplitsBy(F, t) == /\ F \in [0..Len(t) -> Cuts] /\ F[0] = Uncut /\ Split(t) = F[Len(t)]
                  /\ \A k \in 1..Len(t) : F[k] = Scan(F[k - 1], t[k])
HearsBy(G, whole) == /\ G \in [0..Len(whole) -> Gatherings] /\ G[0] = Silence
                     /\ Consumed(whole) = G[Len(whole)]
                     /\ \A k \in 1..Len(whole) : G[k] = Consume(G[k - 1], whole[k])

LEMMA ChopType == ASSUME NEW p \in Lines PROVE Chop(p) \in Lines
<1>1. CASE p # <<>> /\ Last(p) = "cr"
  <2>1. Chop(p) = SubSeq(p, 1, Len(p) - 1)
    BY <1>1 DEF Chop, Front
  <2> QED BY <1>1, <2>1 DEF Lines
<1>2. CASE ~(p # <<>> /\ Last(p) = "cr")
  BY <1>2 DEF Chop
<1> QED BY <1>1, <1>2

LEMMA ScanType == ASSUME NEW cut \in Cuts, NEW s \in STRING PROVE Scan(cut, s) \in Cuts
<1>1. cut.lines \in Seq(Lines) /\ cut.rest \in Lines
  BY DEF Cuts
<1>2. CASE s = "lf"
  <2>1. Scan(cut, s) = [lines |-> Append(cut.lines, Chop(cut.rest)), rest |-> <<>>]
    BY <1>2 DEF Scan
  <2>2. Append(cut.lines, Chop(cut.rest)) \in Seq(Lines)
    BY <1>1, ChopType
  <2>3. <<>> \in Lines
    BY DEF Lines
  <2> QED BY <2>1, <2>2, <2>3 DEF Cuts
<1>3. CASE s # "lf"
  <2>1. Scan(cut, s) = [cut EXCEPT !.rest = Append(@, s)]
    BY <1>3 DEF Scan
  <2>2. Append(cut.rest, s) \in Lines
    BY <1>1 DEF Lines
  <2> QED BY <2>1, <2>2 DEF Cuts
<1> QED BY <1>2, <1>3

LEMMA ConsumeType ==
    ASSUME NEW so \in Gatherings, NEW line \in Lines
    PROVE  Consume(so, line) \in Gatherings /\ After(so.event, line) \in Events
           /\ Yields(so.event, line) \in Seq(Events)
<1>1. so.event \in Events /\ so.emitted \in Seq(Events)
  BY DEF Gatherings
<1>2. NoEvent \in Events
  <2>1. <<>> \in Seq(Lines)
    OBVIOUS
  <2> QED BY <2>1 DEF NoEvent, Events
<1>3. line # <<>> => Field(so.event, line) \in Events
  <2> SUFFICES ASSUME line # <<>> PROVE Field(so.event, line) \in Events
    OBVIOUS
  <2>1. so.event.data \in Seq(Lines)
    BY <1>1 DEF Events
  <2>2. Tail(line) \in Lines
    BY DEF Lines
  <2>3. Append(so.event.data, Tail(line)) \in Seq(Lines)
    BY <2>1, <2>2
  <2>4. [so.event EXCEPT !.data = Append(@, Tail(line))] \in Events
    BY <1>1, <2>3 DEF Events
  <2>5. [so.event EXCEPT !.name = TRUE] \in Events /\ [so.event EXCEPT !.id = TRUE] \in Events
    BY <1>1 DEF Events
  <2> QED BY <1>1, <2>4, <2>5, Zenon DEF Field
<1>4. After(so.event, line) \in Events
  BY <1>2, <1>3 DEF After
<1>5. Yields(so.event, line) \in Seq(Events)
  <2>1. <<so.event>> \in Seq(Events) /\ <<>> \in Seq(Events)
    BY <1>1
  <2> QED BY <2>1, Zenon DEF Yields
<1>6. so.emitted \o Yields(so.event, line) \in Seq(Events)
  BY <1>1, <1>5
<1>7. Consume(so, line) \in Gatherings
  BY <1>4, <1>6 DEF Consume, Gatherings
<1> QED BY <1>4, <1>5, <1>7

LEMMA SplitSteps ==
    ASSUME NEW p \in Seq(STRING)
    PROVE  \E F : SplitsBy(F, p)
<1> DEFINE A == Cuts
           n == Len(p)
           g == [a \in A |-> [e \in STRING |-> Scan(a, e)]]
           Rule(F) == F = [s \in SUBSET DOMAIN p |-> IF s = {} THEN Uncut
                                                     ELSE Scan(F[s \ {Max(s)}], p[Max(s)])]
           H == CHOOSE F : Rule(F)
<1>1. n \in Nat /\ DOMAIN p = 1..n /\ \A k \in 1..n : p[k] \in STRING
  OBVIOUS
<1>2. Uncut \in A /\ \A a \in A, e \in STRING : Scan(a, e) \in A
  <2>1. Uncut \in A
    <3>1. <<>> \in Seq(Lines) /\ <<>> \in Lines
      BY DEF Lines
    <3> QED BY <3>1 DEF Uncut, Cuts
  <2>2. \A a \in A, e \in STRING : Scan(a, e) \in A
    BY ScanType
  <2> QED BY <2>1, <2>2
<1>3. PICK h \in [SUBSET (1..n) -> A] : Folds(h, n, Uncut, g, p)
  <2>1. g \in [A -> [STRING -> A]]
    <3> HIDE DEF A
    <3> QED BY <1>2
  <2> HIDE DEF A, g
  <2> QED BY <1>2, <2>1, FoldExists
<1>4. Rule(h)
  <2>1. ASSUME NEW s \in SUBSET (1..n), s # {}
        PROVE  h[s] = Scan(h[s \ {Max(s)}], p[Max(s)])
    <3>1. p[Max(s)] \in STRING /\ h[s \ {Max(s)}] \in A
      BY <1>1, <1>3, <2>1, LastIndex
    <3>2. h[s] = g[h[s \ {Max(s)}]][p[Max(s)]]
      BY <1>3, <2>1 DEF Folds
    <3> HIDE DEF A
    <3> QED BY <3>1, <3>2
  <2>2. h[{}] = Uncut
    BY <1>3 DEF Folds
  <2> HIDE DEF A
  <2> QED BY <1>1, <1>3, <2>1, <2>2
<1>5. Rule(H)
  <2> HIDE DEF Rule
  <2> QED BY <1>4
<1>6. Split(p) = H[1..n]
  <2>1. Split(p) = H[DOMAIN p]
    BY Zenon DEF Split, FoldLeft, MapThenFoldSet
  <2> HIDE DEF H
  <2> QED BY <1>1, <2>1
<1> HIDE DEF H
<1> DEFINE F == [k \in 0..n |-> H[1..k]]
<1>7. F[0] = Uncut /\ F[n] = H[1..n]
  <2>1. 1..0 = {} /\ {} \in SUBSET DOMAIN p /\ 0 \in 0..n /\ n \in 0..n
    BY <1>1, SMT
  <2> QED BY <1>5, <2>1
<1>8. ASSUME NEW k \in 1..n PROVE F[k] = Scan(F[k - 1], p[k])
  <2>1. H[1..k] = Scan(H[(1..k) \ {Max(1..k)}], p[Max(1..k)])
    BY <1>1, <1>5, Intervals
  <2>2. Max(1..k) = k /\ (1..k) \ {k} = 1..(k - 1) /\ k \in 0..n /\ k - 1 \in 0..n
    BY <1>1, Intervals
  <2> QED BY <2>1, <2>2
<1>9. \A k \in 0..n : F[k] \in A
  <2> HIDE DEF F, A
  <2>1. \A k \in 1..n : F[k - 1] \in A => F[k] \in A
    BY <1>1, <1>2, <1>8
  <2> QED BY <1>1, <1>2, <1>7, <2>1, StaysIn
<1>10. F \in [0..n -> A]
  <2> HIDE DEF A
  <2> QED BY <1>9
<1> HIDE DEF F
<1> QED BY <1>1, <1>6, <1>7, <1>8, <1>10, Zenon DEF SplitsBy


LEMMA HeardSteps ==
    ASSUME NEW p \in Seq(Lines)
    PROVE  \E F : HearsBy(F, p)
<1> DEFINE A == Gatherings
           n == Len(p)
           g == [a \in A |-> [e \in Lines |-> Consume(a, e)]]
           Rule(F) == F = [s \in SUBSET DOMAIN p |-> IF s = {} THEN Silence
                                                     ELSE Consume(F[s \ {Max(s)}], p[Max(s)])]
           H == CHOOSE F : Rule(F)
<1>1. n \in Nat /\ DOMAIN p = 1..n /\ \A k \in 1..n : p[k] \in Lines
  OBVIOUS
<1>2. Silence \in A /\ \A a \in A, e \in Lines : Consume(a, e) \in A
  <2>1. Silence \in A
    <3>1. <<>> \in Seq(Lines) /\ <<>> \in Seq(Events)
      OBVIOUS
    <3> QED BY <3>1 DEF Silence, NoEvent, Gatherings, Events
  <2>2. \A a \in A, e \in Lines : Consume(a, e) \in A
    BY ConsumeType
  <2> QED BY <2>1, <2>2
<1>3. PICK h \in [SUBSET (1..n) -> A] : Folds(h, n, Silence, g, p)
  <2>1. g \in [A -> [Lines -> A]]
    <3> HIDE DEF A
    <3> QED BY <1>2
  <2> HIDE DEF A, g
  <2> QED BY <1>2, <2>1, FoldExists
<1>4. Rule(h)
  <2>1. ASSUME NEW s \in SUBSET (1..n), s # {}
        PROVE  h[s] = Consume(h[s \ {Max(s)}], p[Max(s)])
    <3>1. p[Max(s)] \in Lines /\ h[s \ {Max(s)}] \in A
      BY <1>1, <1>3, <2>1, LastIndex
    <3>2. h[s] = g[h[s \ {Max(s)}]][p[Max(s)]]
      BY <1>3, <2>1 DEF Folds
    <3> HIDE DEF A
    <3> QED BY <3>1, <3>2
  <2>2. h[{}] = Silence
    BY <1>3 DEF Folds
  <2> HIDE DEF A
  <2> QED BY <1>1, <1>3, <2>1, <2>2
<1>5. Rule(H)
  <2> HIDE DEF Rule
  <2> QED BY <1>4
<1>6. Consumed(p) = H[1..n]
  <2>1. Consumed(p) = H[DOMAIN p]
    BY Zenon DEF Consumed, Silence, FoldLeft, MapThenFoldSet
  <2> HIDE DEF H
  <2> QED BY <1>1, <2>1
<1> HIDE DEF H
<1> DEFINE F == [k \in 0..n |-> H[1..k]]
<1>7. F[0] = Silence /\ F[n] = H[1..n]
  <2>1. 1..0 = {} /\ {} \in SUBSET DOMAIN p /\ 0 \in 0..n /\ n \in 0..n
    BY <1>1, SMT
  <2> QED BY <1>5, <2>1
<1>8. ASSUME NEW k \in 1..n PROVE F[k] = Consume(F[k - 1], p[k])
  <2>1. H[1..k] = Consume(H[(1..k) \ {Max(1..k)}], p[Max(1..k)])
    BY <1>1, <1>5, Intervals
  <2>2. Max(1..k) = k /\ (1..k) \ {k} = 1..(k - 1) /\ k \in 0..n /\ k - 1 \in 0..n
    BY <1>1, Intervals
  <2> QED BY <2>1, <2>2
<1>9. \A k \in 0..n : F[k] \in A
  <2> HIDE DEF F, A
  <2>1. \A k \in 1..n : F[k - 1] \in A => F[k] \in A
    BY <1>1, <1>2, <1>8
  <2> QED BY <1>1, <1>2, <1>7, <2>1, StaysIn
<1>10. F \in [0..n -> A]
  <2> HIDE DEF A
  <2> QED BY <1>9
<1> HIDE DEF F
<1> QED BY <1>1, <1>6, <1>7, <1>8, <1>10, Zenon DEF HearsBy


(* What is left over has no line feed in it.                               *)
Unbroken(p) == \A i \in 1..Len(p) : p[i] # "lf"

LEMMA RestIsUnbroken ==
    ASSUME NEW t \in Lines, NEW F, SplitsBy(F, t)
    PROVE  \A k \in 0..Len(t) : Unbroken(F[k].rest)
<1> DEFINE P == {k \in 0..Len(t) : Unbroken(F[k].rest)}
<1>1. Len(t) \in Nat /\ F \in [0..Len(t) -> Cuts] /\ \A k \in 1..Len(t) : t[k] \in STRING
  BY DEF SplitsBy, Lines
<1>2. 0 \in P
  <2>1. F[0].rest = <<>>
    BY DEF SplitsBy, Uncut
  <2> QED BY <1>1, <2>1 DEF Unbroken
<1>3. ASSUME NEW k \in 1..Len(t), k - 1 \in P PROVE k \in P
  <2>1. F[k] = Scan(F[k - 1], t[k]) /\ k - 1 \in 0..Len(t) /\ k \in 0..Len(t)
    BY <1>1 DEF SplitsBy
  <2>2. F[k - 1] \in Cuts /\ F[k - 1].rest \in Lines /\ Unbroken(F[k - 1].rest)
    BY <1>1, <1>3, <2>1 DEF Cuts
  <2>3. CASE t[k] = "lf"
    <3>1. F[k].rest = <<>>
      BY <2>1, <2>3 DEF Scan
    <3> QED BY <2>1, <3>1 DEF Unbroken
  <2>4. CASE t[k] # "lf"
    <3>1. F[k].rest = Append(F[k - 1].rest, t[k])
      BY <2>1, <2>2, <2>4 DEF Scan, Cuts
    <3>2. Unbroken(Append(F[k - 1].rest, t[k]))
      BY <1>1, <2>2, <2>4 DEF Unbroken, Lines
    <3> QED BY <2>1, <3>1, <3>2
  <2> QED BY <2>3, <2>4
<1> HIDE DEF P
<1>4. \A k \in 0..Len(t) : k \in P
  BY <1>1, <1>2, <1>3, Reaches
<1> QED BY <1>4 DEF P

LEMMA Joined ==
    ASSUME NEW S, NEW a \in Seq(S), NEW b \in Seq(S)
    PROVE  /\ a \o b \in Seq(S) /\ Len(a \o b) = Len(a) + Len(b)
           /\ \A i \in 1..Len(a) : (a \o b)[i] = a[i]
           /\ \A i \in 1..Len(b) : (a \o b)[Len(a) + i] = b[i]
  OBVIOUS

LEMMA BeginningIs ==
    ASSUME NEW S, NEW a \in Seq(S), NEW u \in Seq(S), Len(a) <= Len(u), \A i \in 1..Len(a) : u[i] = a[i]
    PROVE  SubSeq(u, 1, Len(a)) = a
  OBVIOUS

LEMMA AppendJoined ==
    ASSUME NEW a \in Seq(Lines), NEW b \in Seq(Lines), NEW e \in Lines
    PROVE  Append(a \o b, e) = a \o Append(b, e)
  OBVIOUS

(* A line that is not ended is all rest.                                   *)
LEMMA SplitOfRest ==
    ASSUME NEW u \in Lines, NEW H, SplitsBy(H, u), NEW r \in 0..Len(u), \A i \in 1..r : u[i] # "lf"
    PROVE  H[r].lines = <<>> /\ H[r].rest = SubSeq(u, 1, r)
<1> DEFINE P == {i \in 0..r : H[i].lines = <<>> /\ H[i].rest = SubSeq(u, 1, i)}
<1>1. /\ Len(u) \in Nat /\ r \in Nat /\ r <= Len(u) /\ H \in [0..Len(u) -> Cuts]
      /\ \A k \in 1..Len(u) : u[k] \in STRING
  BY DEF SplitsBy, Lines
<1>2. 0 \in P
  <2>1. SubSeq(u, 1, 0) = <<>>
    BY DEF Lines
  <2>2. H[0].lines = <<>> /\ H[0].rest = <<>>
    BY DEF SplitsBy, Uncut
  <2>3. 0 \in 0..r
    BY <1>1
  <2> QED BY <2>1, <2>2, <2>3
<1>3. ASSUME NEW i \in 1..r, i - 1 \in P PROVE i \in P
  <2>1. i \in 1..Len(u) /\ i - 1 \in 0..Len(u) /\ i \in 0..r /\ u[i] # "lf"
    BY <1>1
  <2>2. H[i] = Scan(H[i - 1], u[i]) /\ H[i - 1] \in Cuts
    BY <1>1, <2>1 DEF SplitsBy
  <2>3. H[i] = [H[i - 1] EXCEPT !.rest = Append(@, u[i])]
    BY <2>1, <2>2 DEF Scan
  <2>4. H[i].lines = H[i - 1].lines /\ H[i].rest = Append(H[i - 1].rest, u[i])
    BY <2>2, <2>3 DEF Cuts
  <2>5. Append(SubSeq(u, 1, i - 1), u[i]) = SubSeq(u, 1, i)
    BY <1>1, <2>1 DEF Lines
  <2> QED BY <1>3, <2>1, <2>4, <2>5
<1> HIDE DEF P
<1>4. \A i \in 0..r : i \in P
  BY <1>1, <1>2, <1>3, Reaches
<1> QED BY <1>1, <1>4 DEF P

(* Cutting on from a rest gives what cutting the whole gives from there.   *)
GoesOn(F, t, k, m) ==
    LET u == F[k].rest \o SubSeq(t, k + 1, k + m)
    IN  Split(u) \in Cuts /\ Split(u).rest = F[k + m].rest /\ F[k + m].lines = F[k].lines \o Split(u).lines

LEMMA SplitGoesOn ==
    ASSUME NEW t \in Lines, NEW F, SplitsBy(F, t), NEW k \in 0..Len(t), NEW m, m \in 0..(Len(t) - k)
    PROVE  GoesOn(F, t, k, m)
<1> DEFINE u == F[k].rest \o SubSeq(t, k + 1, k + m)
           rest == F[k].rest
           r == Len(rest)
<1>1. /\ Len(t) \in Nat /\ k \in Nat /\ m \in Nat /\ k + m <= Len(t)
      /\ F \in [0..Len(t) -> Cuts] /\ \A i \in 1..Len(t) : t[i] \in STRING
  BY DEF SplitsBy, Lines
<1>2. F[k] \in Cuts /\ rest \in Lines /\ F[k].lines \in Seq(Lines) /\ r \in Nat
  <2>1. F[k] \in Cuts
    BY <1>1
  <2>2. rest \in Lines /\ F[k].lines \in Seq(Lines)
    BY <2>1 DEF Cuts
  <2>3. Len(rest) \in Nat
    <3> HIDE DEF rest
    <3> QED BY <2>2 DEF Lines
  <2> QED BY <2>1, <2>2, <2>3
<1>3. /\ u \in Lines /\ Len(u) = r + m
      /\ \A i \in 1..r : u[i] = rest[i]
      /\ \A i \in 1..m : u[r + i] = t[k + i]
  <2>1. SubSeq(t, k + 1, k + m) \in Lines /\ Len(SubSeq(t, k + 1, k + m)) = m
        /\ \A i \in 1..m : SubSeq(t, k + 1, k + m)[i] = t[k + i]
    BY <1>1 DEF Lines
  <2> HIDE DEF rest
  <2>2. u = rest \o SubSeq(t, k + 1, k + m)
    BY DEF rest
  <2>3. rest \in Seq(STRING) /\ SubSeq(t, k + 1, k + m) \in Seq(STRING)
    BY <1>2, <2>1 DEF Lines
  <2> DEFINE more == SubSeq(t, k + 1, k + m)
  <2> HIDE DEF more
  <2>4. /\ rest \o more \in Seq(STRING) /\ Len(rest \o more) = Len(rest) + Len(more)
        /\ \A i \in 1..Len(rest) : (rest \o more)[i] = rest[i]
        /\ \A i \in 1..Len(more) : (rest \o more)[Len(rest) + i] = more[i]
    BY <2>3, Joined DEF more
  <2>5. u = rest \o more /\ Len(more) = m /\ \A i \in 1..m : more[i] = t[k + i]
    BY <2>1, <2>2 DEF more
  <2> QED BY <2>4, <2>5 DEF Lines
<1>0. u = rest \o SubSeq(t, k + 1, k + m)
  OBVIOUS
<1> HIDE DEF u
<1>4. PICK H : SplitsBy(H, u)
  BY <1>3, SplitSteps DEF Lines
<1>5. H \in [0..(r + m) -> Cuts] /\ Split(u) = H[r + m] /\ \A i \in 1..(r + m) : H[i] = Scan(H[i - 1], u[i])
  BY <1>3, <1>4, Zenon DEF SplitsBy
<1>6. H[r].lines = <<>> /\ H[r].rest = rest
  <2>1. \A i \in 1..r : u[i] # "lf"
    BY <1>1, <1>3, RestIsUnbroken DEF Unbroken
  <2>2. r \in 0..Len(u)
    BY <1>1, <1>2, <1>3
  <2>3. H[r].lines = <<>> /\ H[r].rest = SubSeq(u, 1, r)
    BY <1>3, <1>4, <2>1, <2>2, SplitOfRest
  <2>4. SubSeq(u, 1, r) = rest
    <3> HIDE DEF rest
    <3>1. rest \in Seq(STRING) /\ u \in Seq(STRING)
      BY <1>2, <1>3 DEF Lines
    <3>2. Len(rest) <= Len(u) /\ \A i \in 1..Len(rest) : u[i] = rest[i]
      <4>1. r = Len(rest)
        BY DEF rest
      <4> HIDE DEF r
      <4>2. r <= Len(u)
        BY <1>1, <1>2, <1>3
      <4> QED BY <1>3, <4>1, <4>2
    <3> QED BY <3>1, <3>2, BeginningIs
  <2> QED BY <2>3, <2>4
<1> DEFINE P == {i \in 0..m : H[r + i].rest = F[k + i].rest /\ F[k + i].lines = F[k].lines \o H[r + i].lines}
<1>7. 0 \in P
  <2>1. r + 0 = r /\ k + 0 = k /\ 0 \in 0..m
    BY <1>1, <1>2
  <2>2. F[k].lines \o <<>> = F[k].lines
    BY <1>2
  <2> QED BY <1>6, <2>1, <2>2
<1>8. ASSUME NEW i \in 1..m, i - 1 \in P PROVE i \in P
  <2> DEFINE own == H[r + (i - 1)]
             all == F[k + (i - 1)]
  <2>1. /\ r + i \in 1..(r + m) /\ k + i \in 1..Len(t) /\ (r + i) - 1 = r + (i - 1) /\ (k + i) - 1 = k + (i - 1)
        /\ r + (i - 1) \in 0..(r + m) /\ k + (i - 1) \in 0..Len(t) /\ i \in 0..m
    BY <1>1, <1>2
  <2>2. H[r + i] = Scan(own, t[k + i]) /\ F[k + i] = Scan(all, t[k + i])
    <3>1. u[r + i] = t[k + i]
      BY <1>3
    <3>2. F[k + i] = Scan(F[(k + i) - 1], t[k + i])
      BY <2>1, Zenon DEF SplitsBy
    <3> QED BY <1>5, <2>1, <3>1, <3>2
  <2>3. own \in Cuts /\ all \in Cuts
    BY <1>1, <1>5, <2>1
  <2>4. own.rest = all.rest /\ all.lines = F[k].lines \o own.lines
    BY <1>8
  <2> HIDE DEF own, all
  <2>5. own.lines \in Seq(Lines) /\ own.rest \in Lines
    BY <2>3 DEF Cuts
  <2>6. CASE t[k + i] = "lf"
    <3>1. H[r + i] = [lines |-> Append(own.lines, Chop(own.rest)), rest |-> <<>>]
      BY <2>2, <2>6 DEF Scan
    <3>2. F[k + i] = [lines |-> Append(all.lines, Chop(all.rest)), rest |-> <<>>]
      BY <2>2, <2>6 DEF Scan
    <3>3. Chop(own.rest) \in Lines
      BY <2>5, ChopType
    <3> DEFINE x == F[k].lines
               y == own.lines
               z == Chop(own.rest)
    <3>41. x \in Seq(Lines) /\ y \in Seq(Lines) /\ z \in Lines
      BY <1>2, <2>5, <3>3
    <3> HIDE DEF x, y, z
    <3>42. Append(x \o y, z) = x \o Append(y, z)
      BY <3>41, AppendJoined
    <3>4. Append(F[k].lines \o own.lines, Chop(own.rest)) = F[k].lines \o Append(own.lines, Chop(own.rest))
      BY <3>42 DEF x, y, z
    <3>5. /\ H[r + i].rest = <<>> /\ F[k + i].rest = <<>>
          /\ H[r + i].lines = Append(own.lines, Chop(own.rest)) /\ F[k + i].lines = Append(all.lines, Chop(all.rest))
      BY <3>1, <3>2
    <3> QED BY <2>1, <2>4, <3>4, <3>5, Zenon
  <2>7. CASE t[k + i] # "lf"
    <3>1. /\ H[r + i].rest = Append(own.rest, t[k + i]) /\ H[r + i].lines = own.lines
          /\ F[k + i].rest = Append(all.rest, t[k + i]) /\ F[k + i].lines = all.lines
      BY <2>2, <2>3, <2>7 DEF Scan, Cuts
    <3> QED BY <2>1, <2>4, <3>1
  <2> QED BY <2>6, <2>7
<1>9. m \in P
  <2> HIDE DEF P
  <2>1. \A i \in 0..m : i \in P
    BY <1>1, <1>7, <1>8, Reaches
  <2>2. m \in 0..m
    BY <1>1
  <2> QED BY <2>1, <2>2
<1>10. H[r + m] \in Cuts
  <2>1. r + m \in 0..(r + m)
    BY <1>1, <1>2
  <2> QED BY <1>5, <2>1
<1>11. Split(u) \in Cuts /\ Split(u).rest = F[k + m].rest /\ F[k + m].lines = F[k].lines \o Split(u).lines
  BY <1>5, <1>9, <1>10
<1> QED BY <1>11, Zenon DEF GoesOn, u

(* Where one sequence begins another.                                      *)
Begins(a, b) == Len(a) <= Len(b) /\ \A i \in 1..Len(a) : a[i] = b[i]

LEMMA BeginsFacts ==
    ASSUME NEW S, NEW a \in Seq(S), NEW b \in Seq(S), NEW c \in Seq(S), NEW e \in S
    PROVE  /\ Begins(a, a) /\ Begins(a, a \o b) /\ Begins(a, Append(a, e))
           /\ Begins(a, b) /\ Begins(b, c) => Begins(a, c)
           /\ Begins(a, b) => IsPrefix(a, b)
<1>1. Len(a) \in Nat /\ Len(b) \in Nat /\ Len(c) \in Nat
  OBVIOUS
<1>2. Begins(a, a)
  BY <1>1 DEF Begins
<1>3. Begins(a, a \o b)
  <2>1. Len(a \o b) = Len(a) + Len(b) /\ \A i \in 1..Len(a) : (a \o b)[i] = a[i]
    OBVIOUS
  <2> QED BY <1>1, <2>1 DEF Begins
<1>4. Begins(a, Append(a, e))
  <2>1. Len(Append(a, e)) = Len(a) + 1 /\ \A i \in 1..Len(a) : Append(a, e)[i] = a[i]
    OBVIOUS
  <2> QED BY <1>1, <2>1 DEF Begins
<1>5. ASSUME Begins(a, b), Begins(b, c) PROVE Begins(a, c)
  <2>1. Len(a) <= Len(b) /\ Len(b) <= Len(c)
    BY <1>5 DEF Begins
  <2>2. \A i \in 1..Len(a) : i \in 1..Len(b)
    BY <1>1, <2>1
  <2> QED BY <1>1, <1>5, <2>1, <2>2 DEF Begins
<1>6. ASSUME Begins(a, b) PROVE IsPrefix(a, b)
  <2>1. Len(a) <= Len(b) /\ \A i \in 1..Len(a) : b[i] = a[i]
    BY <1>6 DEF Begins
  <2>2. SubSeq(b, 1, Len(a)) = a /\ SubSeq(a, 1, Len(a)) = a
    BY <1>1, <2>1, BeginningIs
  <2> QED BY <2>1, <2>2 DEF IsPrefix
<1> QED BY <1>2, <1>3, <1>4, <1>5, <1>6

LEMMA EmittedGrows ==
    ASSUME NEW whole \in Seq(Lines), NEW G, HearsBy(G, whole), NEW j \in 0..Len(whole)
    PROVE  \A i \in 0..(Len(whole) - j) : Begins(G[j].emitted, G[j + i].emitted)
<1> DEFINE n == Len(whole) - j
           P == {i \in 0..n : Begins(G[j].emitted, G[j + i].emitted)}
<1>1. Len(whole) \in Nat /\ j \in Nat /\ n \in Nat /\ \A i \in 1..Len(whole) : whole[i] \in Lines
  OBVIOUS
<1>2. G \in [0..Len(whole) -> Gatherings]
  BY DEF HearsBy
<1>3. \A i \in 0..Len(whole) : G[i] \in Gatherings /\ G[i].emitted \in Seq(Events)
  BY <1>2 DEF Gatherings
<1>4. NoEvent \in Events
  <2>1. <<>> \in Seq(Lines)
    OBVIOUS
  <2> QED BY <2>1 DEF NoEvent, Events
<1>5. 0 \in P
  <2>1. j + 0 = j /\ 0 \in 0..n
    BY <1>1
  <2>2. Begins(G[j].emitted, G[j].emitted)
    BY <1>3, <1>4, BeginsFacts
  <2> QED BY <2>1, <2>2
<1>6. ASSUME NEW i \in 1..n, i - 1 \in P PROVE i \in P
  <2> DEFINE old == G[j + (i - 1)]
  <2>1. /\ j + i \in 1..Len(whole) /\ (j + i) - 1 = j + (i - 1) /\ j + (i - 1) \in 0..Len(whole) /\ i \in 0..n
        /\ j + i \in 0..Len(whole)
    BY <1>1
  <2>2. G[j + i] = Consume(old, whole[j + i])
    BY <2>1, Zenon DEF HearsBy
  <2>3. old \in Gatherings /\ old.emitted \in Seq(Events) /\ whole[j + i] \in Lines
    BY <1>1, <1>3, <2>1
  <2>4. Begins(G[j].emitted, old.emitted)
    BY <1>6
  <2> HIDE DEF old
  <2>5. G[j + i].emitted = old.emitted \o Yields(old.event, whole[j + i])
    <3> DEFINE line == whole[j + i]
               event1 == After(old.event, line)
               more == Yields(old.event, line)
    <3>1. G[j + i] = [event |-> event1, emitted |-> old.emitted \o more]
      BY <2>2, Zenon DEF Consume
    <3> HIDE DEF event1, more
    <3>2. G[j + i].emitted = old.emitted \o more
      BY <3>1
    <3> QED BY <3>2 DEF more
  <2>6. Yields(old.event, whole[j + i]) \in Seq(Events)
    BY <2>3, ConsumeType
  <2>7. Begins(old.emitted, G[j + i].emitted)
    BY <1>4, <2>3, <2>5, <2>6, BeginsFacts
  <2>8. Begins(G[j].emitted, G[j + i].emitted)
    <3>1. G[j].emitted \in Seq(Events) /\ G[j + i].emitted \in Seq(Events)
      BY <1>3, <2>1
    <3> QED BY <1>4, <2>3, <2>4, <2>7, <3>1, BeginsFacts
  <2> QED BY <2>1, <2>8
<1> HIDE DEF P, n
<1>7. \A i \in 0..n : i \in P
  BY <1>1, <1>5, <1>6, Reaches
<1> QED BY <1>7 DEF P, n

LEMMA EventsGoOn ==
    ASSUME NEW t \in Lines, NEW G, HearsBy(G, Split(t).lines), NEW j \in 0..Len(Split(t).lines)
    PROVE  /\ G[j] \in Gatherings /\ G[j].emitted \in Seq(Events) /\ EventsOf(t) \in Seq(Events)
           /\ IsPrefix(G[j].emitted, EventsOf(t))
<1> DEFINE whole == Split(t).lines
           n == Len(whole)
           body == Consumed(whole)
           last == IF Split(t).rest = <<>> THEN body.event ELSE After(body.event, Split(t).rest)
<1>1. Split(t) \in Cuts
  <2>1. PICK F : SplitsBy(F, t)
    BY SplitSteps DEF Lines
  <2>2. Len(t) \in 0..Len(t)
    BY DEF Lines
  <2> QED BY <2>1, <2>2 DEF SplitsBy
<1>2. whole \in Seq(Lines) /\ Split(t).rest \in Lines
  BY <1>1 DEF Cuts
<1>3. n \in Nat /\ j \in Nat /\ n \in 0..n /\ n - j \in 0..(n - j) /\ j + (n - j) = n
  <2> HIDE DEF whole
  <2>1. Len(whole) \in Nat
    BY <1>2
  <2>2. j \in 0..Len(whole)
    BY DEF whole
  <2> QED BY <2>1, <2>2
<1>4. body = G[n] /\ \A i \in 0..n : G[i] \in Gatherings /\ G[i].event \in Events /\ G[i].emitted \in Seq(Events)
  <2>1. body = G[n] /\ G \in [0..n -> Gatherings]
    BY Zenon DEF HearsBy
  <2> HIDE DEF body, n, whole
  <2> QED BY <2>1 DEF Gatherings
<1>5. Begins(G[j].emitted, body.emitted)
  <2>1. \A i \in 0..(n - j) : Begins(G[j].emitted, G[j + i].emitted)
    BY <1>2, EmittedGrows
  <2> HIDE DEF body, n, whole
  <2>2. Begins(G[j].emitted, G[j + (n - j)].emitted)
    BY <1>3, <2>1
  <2> QED BY <1>3, <1>4, <2>2
<1>6. last \in Events
  <2> HIDE DEF body, n, whole
  <2>1. body \in Gatherings /\ body.event \in Events
    BY <1>3, <1>4
  <2>2. After(body.event, Split(t).rest) \in Events
    BY <1>2, <2>1, ConsumeType
  <2> QED BY <2>1, <2>2
<1>7. EventsOf(t) = IF Gathered(last) THEN Append(body.emitted, last) ELSE body.emitted
  BY Zenon DEF EventsOf
<1>8. G[j] \in Gatherings /\ G[j].emitted \in Seq(Events) /\ body.emitted \in Seq(Events)
  <2> HIDE DEF body, whole, n
  <2>1. j \in 0..n
    BY DEF n, whole
  <2> QED BY <1>3, <1>4, <2>1
<1> HIDE DEF body, whole, n, last
<1>9. EventsOf(t) \in Seq(Events) /\ Begins(body.emitted, EventsOf(t))
  <2>1. CASE Gathered(last)
    <3>1. EventsOf(t) = Append(body.emitted, last)
      BY <1>7, <2>1
    <3>2. Append(body.emitted, last) \in Seq(Events)
      BY <1>6, <1>8
    <3> QED BY <1>6, <1>8, <3>1, <3>2, BeginsFacts
  <2>2. CASE ~ Gathered(last)
    <3>1. EventsOf(t) = body.emitted
      BY <1>7, <2>2
    <3> QED BY <1>6, <1>8, <3>1, BeginsFacts
  <2> QED BY <2>1, <2>2
<1>10. Begins(G[j].emitted, EventsOf(t))
  BY <1>5, <1>6, <1>8, <1>9, BeginsFacts
<1>11. IsPrefix(G[j].emitted, EventsOf(t))
  BY <1>6, <1>8, <1>9, <1>10, BeginsFacts
<1> QED BY <1>8, <1>9, <1>11

(* Where the reader is: k symbols of the text are read and cut, j of the    *)
(* lines are consumed.                                                      *)
Reading(F, G, k, j) ==
    /\ SplitsBy(F, text) /\ HearsBy(G, Split(text).lines)
    /\ k \in 0..Len(text) /\ unread = SubSeq(text, k + 1, Len(text)) /\ buffer = F[k].rest
    /\ j \in Nat /\ lines \in Seq(Lines) /\ Len(F[k].lines) = j + Len(lines)
    /\ \A i \in 1..Len(lines) : lines[i] = F[k].lines[j + i]
    /\ event = G[j].event /\ emitted = G[j].emitted

StreamInv ==
    /\ text \in Lines /\ reader \in {"unlocked", "locked", "left", "released"}
    /\ reader \in {"unlocked", "locked"} => \E F, G, k, j : Reading(F, G, k, j)
    /\ reader = "left" => IsPrefix(emitted, EventsOf(text))
    /\ reader = "released" => emitted = EventsOf(text) /\ IsPrefix(emitted, EventsOf(text))

(* The lines so far are the first ones of the text.                        *)
LEMMA LinesSoFar ==
    ASSUME NEW t \in Lines, NEW F, SplitsBy(F, t), NEW k \in 0..Len(t)
    PROVE  /\ F[k] \in Cuts /\ F[k].lines \in Seq(Lines) /\ Split(t) \in Cuts /\ Split(t).lines \in Seq(Lines)
           /\ Begins(F[k].lines, Split(t).lines)
<1> DEFINE m == Len(t) - k
           u == F[k].rest \o SubSeq(t, k + 1, k + m)
<1>1. Len(t) \in Nat /\ k \in Nat /\ m \in 0..(Len(t) - k) /\ k + m = Len(t) /\ Len(t) \in 0..Len(t)
  BY DEF Lines
<1>2. Split(u) \in Cuts /\ F[k + m].lines = F[k].lines \o Split(u).lines
  <2>1. GoesOn(F, t, k, m)
    <3> HIDE DEF m
    <3> QED BY <1>1, SplitGoesOn
  <2> QED BY <2>1, Zenon DEF GoesOn
<1>3. F[k] \in Cuts /\ F[Len(t)] \in Cuts /\ Split(t) = F[Len(t)]
  BY <1>1 DEF SplitsBy
<1>4. F[k].lines \in Seq(Lines) /\ Split(t).lines \in Seq(Lines) /\ Split(u).lines \in Seq(Lines)
  <2> HIDE DEF u
  <2> QED BY <1>2, <1>3 DEF Cuts
<1>5. Split(t).lines = F[k].lines \o Split(u).lines
  BY <1>1, <1>2, <1>3
<1>6. <<>> \in Lines
  BY DEF Lines
<1>7. Begins(F[k].lines, F[k].lines \o Split(u).lines)
  <2> HIDE DEF u
  <2> QED BY <1>4, <1>6, BeginsFacts
<1> QED BY <1>3, <1>4, <1>5, <1>7

LEMMA StreamInitInv == StreamInit => StreamInv
<1> SUFFICES ASSUME StreamInit PROVE StreamInv
  OBVIOUS
<1>1. /\ text \in Lines /\ unread = text /\ buffer = <<>> /\ lines = <<>> /\ event = NoEvent
      /\ emitted = <<>> /\ reader = "unlocked"
  BY TextsAssumption DEF StreamInit, Lines
<1>2. PICK F : SplitsBy(F, text)
  BY <1>1, SplitSteps DEF Lines
<1>3. 0 \in 0..Len(text) /\ Len(text) \in Nat /\ SubSeq(text, 1, Len(text)) = text
  BY <1>1 DEF Lines
<1>4. Split(text).lines \in Seq(Lines) /\ F[0].lines = <<>> /\ F[0].rest = <<>>
  <2>1. Split(text).lines \in Seq(Lines)
    BY <1>1, <1>2, <1>3, LinesSoFar
  <2> QED BY <1>2, <2>1 DEF SplitsBy, Uncut
<1>5. PICK G : HearsBy(G, Split(text).lines)
  BY <1>4, HeardSteps
<1>6. G[0].event = NoEvent /\ G[0].emitted = <<>>
  BY <1>5 DEF HearsBy, Silence
<1>7. Reading(F, G, 0, 0)
  <2>1. lines \in Seq(Lines) /\ Len(lines) = 0 /\ Len(F[0].lines) = 0 + Len(lines) /\ 1..Len(lines) = {}
    BY <1>1, <1>4
  <2>2. unread = SubSeq(text, 0 + 1, Len(text))
    BY <1>1, <1>3
  <2> QED BY <1>1, <1>2, <1>3, <1>4, <1>5, <1>6, <2>1, <2>2 DEF Reading
<1> QED BY <1>1, <1>7 DEF StreamInv

LEMMA ReadChunkInv ==
    ASSUME StreamInv, NEW n \in 1..Len(unread), ReadChunk(n)
    PROVE  StreamInv'
<1> DEFINE cut == Cut(buffer, SubSeq(unread, 1, n))
<1>1. /\ text \in Lines /\ text' = text /\ event' = event /\ emitted' = emitted /\ reader' = "locked"
      /\ reader \in {"unlocked", "locked"} /\ lines = <<>>
      /\ lines' = cut.lines /\ buffer' = cut.rest /\ unread' = SubSeq(unread, n + 1, Len(unread))
  BY DEF StreamInv, ReadChunk
<1>2. PICK F, G, k, j : Reading(F, G, k, j)
  BY <1>1 DEF StreamInv
<1>3. /\ SplitsBy(F, text) /\ HearsBy(G, Split(text).lines) /\ k \in 0..Len(text) /\ j \in Nat
      /\ unread = SubSeq(text, k + 1, Len(text)) /\ buffer = F[k].rest /\ Len(F[k].lines) = j + Len(lines)
      /\ event = G[j].event /\ emitted = G[j].emitted
  BY <1>2 DEF Reading
<1>4. Len(F[k].lines) = j
  BY <1>1, <1>3
<1>5. /\ n \in 0..(Len(text) - k) /\ k + n \in 0..Len(text)
      /\ SubSeq(unread, 1, n) = SubSeq(text, k + 1, k + n)
      /\ unread' = SubSeq(text, (k + n) + 1, Len(text))
  <2>1. text \in Seq(STRING) /\ Len(text) \in Nat /\ k \in Nat /\ k <= Len(text)
    BY <1>1, <1>3 DEF Lines
  <2>2. unread \in Seq(STRING) /\ Len(unread) = Len(text) - k /\ \A i \in 1..Len(unread) : unread[i] = text[k + i]
    BY <1>3, <2>1
  <2>3. n \in Nat /\ 1 <= n /\ n <= Len(text) - k
    BY <2>1, <2>2
  <2>4. SubSeq(unread, 1, n) = SubSeq(text, k + 1, k + n)
    BY <2>1, <2>2, <2>3
  <2>5. SubSeq(unread, n + 1, Len(unread)) = SubSeq(text, (k + n) + 1, Len(text))
    BY <2>1, <2>2, <2>3
  <2> QED BY <1>1, <2>1, <2>3, <2>4, <2>5
<1>6. /\ cut \in Cuts /\ cut.rest = F[k + n].rest /\ F[k + n].lines = F[k].lines \o cut.lines
  <2> DEFINE u == F[k].rest \o SubSeq(text, k + 1, k + n)
  <2>1. cut = Split(u)
    BY <1>3, <1>5 DEF Cut
  <2>2. GoesOn(F, text, k, n)
    BY <1>1, <1>3, <1>5, SplitGoesOn
  <2>3. Split(u) \in Cuts /\ Split(u).rest = F[k + n].rest /\ F[k + n].lines = F[k].lines \o Split(u).lines
    BY <2>2, Zenon DEF GoesOn
  <2> HIDE DEF cut, u
  <2> QED BY <2>1, <2>3
<1> HIDE DEF cut
<1>7. cut.lines \in Seq(Lines) /\ F[k].lines \in Seq(Lines)
  BY <1>1, <1>3, <1>6, LinesSoFar DEF Cuts
<1>8. /\ Len(F[k + n].lines) = j + Len(cut.lines)
      /\ \A i \in 1..Len(cut.lines) : F[k + n].lines[j + i] = cut.lines[i]
  <2> DEFINE x == F[k].lines
             y == cut.lines
  <2>1. x \in Seq(Lines) /\ y \in Seq(Lines) /\ Len(x) = j /\ F[k + n].lines = x \o y
    BY <1>4, <1>6, <1>7
  <2> HIDE DEF x, y
  <2>2. Len(x \o y) = Len(x) + Len(y) /\ \A i \in 1..Len(y) : (x \o y)[Len(x) + i] = y[i]
    <3>1. x \in Seq(Lines) /\ y \in Seq(Lines)
      BY <2>1
    <3>2. Len(x \o y) = Len(x) + Len(y)
      BY <3>1, Joined
    <3>3. ASSUME NEW i \in 1..Len(y) PROVE (x \o y)[Len(x) + i] = y[i]
      BY <3>1, Joined
    <3> QED BY <3>2, <3>3
  <2>3. Len(F[k + n].lines) = j + Len(y) /\ \A i \in 1..Len(y) : F[k + n].lines[j + i] = y[i]
    BY <2>1, <2>2
  <2> QED BY <2>3 DEF y
<1>9. Reading(F, G, k + n, j)'
  BY <1>1, <1>3, <1>5, <1>6, <1>7, <1>8, Zenon DEF Reading
<1> QED BY <1>1, <1>9, Zenon DEF StreamInv

LEMMA ConsumeLineInv ==
    ASSUME StreamInv, ConsumeLine
    PROVE  StreamInv'
<1>1. /\ text \in Lines /\ text' = text /\ unread' = unread /\ buffer' = buffer /\ reader' = reader
      /\ reader = "locked" /\ lines # <<>> /\ lines' = Tail(lines)
      /\ event' = After(event, Head(lines)) /\ emitted' = emitted \o Yields(event, Head(lines))
  BY DEF StreamInv, ConsumeLine
<1>2. PICK F, G, k, j : Reading(F, G, k, j)
  BY <1>1 DEF StreamInv
<1>3. /\ SplitsBy(F, text) /\ HearsBy(G, Split(text).lines) /\ k \in 0..Len(text) /\ j \in Nat
      /\ unread = SubSeq(text, k + 1, Len(text)) /\ buffer = F[k].rest /\ Len(F[k].lines) = j + Len(lines)
      /\ lines \in Seq(Lines) /\ \A i \in 1..Len(lines) : lines[i] = F[k].lines[j + i]
      /\ event = G[j].event /\ emitted = G[j].emitted
  BY <1>2 DEF Reading
<1> DEFINE whole == Split(text).lines
<1>4. F[k].lines \in Seq(Lines) /\ whole \in Seq(Lines) /\ Begins(F[k].lines, whole)
  BY <1>1, <1>3, LinesSoFar
<1> HIDE DEF whole
<1>5. Len(lines) \in Nat /\ Len(lines) >= 1 /\ Head(lines) = lines[1] /\ Tail(lines) \in Seq(Lines)
      /\ Len(Tail(lines)) = Len(lines) - 1 /\ \A i \in 1..(Len(lines) - 1) : Tail(lines)[i] = lines[i + 1]
  BY <1>1, <1>3
<1>6. /\ j + 1 \in 1..Len(F[k].lines) /\ j + 1 \in 1..Len(whole) /\ (j + 1) - 1 = j
      /\ Head(lines) = whole[j + 1]
  <2>1. Len(F[k].lines) <= Len(whole) /\ \A i \in 1..Len(F[k].lines) : F[k].lines[i] = whole[i]
    BY <1>4 DEF Begins
  <2>2. Len(F[k].lines) \in Nat /\ Len(whole) \in Nat /\ 1 \in 1..Len(lines)
    BY <1>4, <1>5
  <2>3. j + 1 \in 1..Len(F[k].lines) /\ j + 1 \in 1..Len(whole) /\ (j + 1) - 1 = j
    BY <1>3, <1>5, <2>1, <2>2
  <2> QED BY <1>3, <1>5, <2>1, <2>2, <2>3
<1>7. G[j + 1] = Consume(G[j], Head(lines))
  <2>1. G[j + 1] = Consume(G[(j + 1) - 1], whole[j + 1])
    BY <1>3, <1>6, Zenon DEF HearsBy, whole
  <2> QED BY <1>6, <2>1
<1>8. event' = G[j + 1].event /\ emitted' = G[j + 1].emitted
  <2> DEFINE now == After(event, Head(lines))
             more == Yields(event, Head(lines))
  <2>1. G[j + 1] = [event |-> now, emitted |-> emitted \o more]
    BY <1>3, <1>7, Zenon DEF Consume
  <2>2. event' = now /\ emitted' = emitted \o more
    BY <1>1
  <2> HIDE DEF now, more
  <2> QED BY <2>1, <2>2
<1>9. /\ j + 1 \in Nat /\ Len(F[k].lines) = (j + 1) + Len(lines')
      /\ \A i \in 1..Len(lines') : lines'[i] = F[k].lines[(j + 1) + i]
  <2>1. Len(lines') = Len(lines) - 1
    BY <1>1, <1>5
  <2>2. ASSUME NEW i \in 1..Len(lines') PROVE lines'[i] = F[k].lines[(j + 1) + i]
    <3>0. i \in 1..(Len(lines) - 1)
      BY <2>1
    <3>1. i + 1 \in 1..Len(lines) /\ j + (i + 1) = (j + 1) + i
      BY <1>3, <1>5, <3>0
    <3> QED BY <1>1, <1>3, <1>5, <3>0, <3>1
  <2> QED BY <1>3, <1>5, <2>1, <2>2
<1>10. lines' \in Seq(Lines)
  BY <1>1, <1>5
<1>11. Reading(F, G, k, j + 1)'
  BY <1>1, <1>3, <1>8, <1>9, <1>10, Zenon DEF Reading
<1> QED BY <1>1, <1>11, Zenon DEF StreamInv

LEMMA EndOfStreamInv ==
    ASSUME StreamInv, EndOfStream
    PROVE  StreamInv'
<1> DEFINE last == IF buffer = <<>> THEN event ELSE After(event, buffer)
<1>1. /\ text \in Lines /\ text' = text /\ reader' = "released" /\ reader \in {"unlocked", "locked"}
      /\ unread = <<>> /\ lines = <<>>
      /\ emitted' = IF Gathered(last) THEN Append(emitted, last) ELSE emitted
  BY DEF StreamInv, EndOfStream
<1>2. PICK F, G, k, j : Reading(F, G, k, j)
  BY <1>1 DEF StreamInv
<1>3. /\ SplitsBy(F, text) /\ HearsBy(G, Split(text).lines) /\ k \in 0..Len(text) /\ j \in Nat
      /\ unread = SubSeq(text, k + 1, Len(text)) /\ buffer = F[k].rest /\ Len(F[k].lines) = j + Len(lines)
      /\ event = G[j].event /\ emitted = G[j].emitted
  BY <1>2 DEF Reading
<1>4. k = Len(text)
  <2>1. text \in Seq(STRING) /\ Len(text) \in Nat /\ k \in Nat /\ k <= Len(text)
    BY <1>1, <1>3 DEF Lines
  <2>2. Len(SubSeq(text, k + 1, Len(text))) = Len(text) - k
    BY <2>1
  <2>3. Len(unread) = 0
    BY <1>1
  <2> QED BY <1>3, <2>1, <2>2, <2>3
<1>5. F[k] = Split(text)
  BY <1>3, <1>4 DEF SplitsBy
<1>6. buffer = Split(text).rest /\ Len(Split(text).lines) = j
  BY <1>1, <1>3, <1>5
<1>7. G[j] = Consumed(Split(text).lines)
  BY <1>3, <1>6, Zenon DEF HearsBy
<1>8. emitted' = EventsOf(text)
  <2> DEFINE body == Consumed(Split(text).lines)
             rest == Split(text).rest
             end == IF rest = <<>> THEN body.event ELSE After(body.event, rest)
  <2>1. EventsOf(text) = IF Gathered(end) THEN Append(body.emitted, end) ELSE body.emitted
    BY Zenon DEF EventsOf
  <2>2. event = body.event /\ emitted = body.emitted /\ buffer = rest
    BY <1>3, <1>6, <1>7
  <2>3. last = end
    BY <2>2
  <2> HIDE DEF last, end, body, rest
  <2> QED BY <1>1, <2>1, <2>2, <2>3
<1>9. EventsOf(text) \in Seq(Events)
  <2>1. 0 \in 0..Len(Split(text).lines)
    BY <1>3, <1>6
  <2> QED BY <1>1, <1>3, <2>1, EventsGoOn
<1>10. IsPrefix(EventsOf(text), EventsOf(text))
  BY <1>9 DEF IsPrefix
<1> QED BY <1>1, <1>8, <1>10 DEF StreamInv

(* While it reads, the consumer has heard a first part of what there is.    *)
LEMMA ReadingIsPrefix ==
    ASSUME text \in Lines, NEW F, NEW G, NEW k, NEW j, Reading(F, G, k, j)
    PROVE  IsPrefix(emitted, EventsOf(text))
<1>1. /\ SplitsBy(F, text) /\ HearsBy(G, Split(text).lines) /\ k \in 0..Len(text) /\ j \in Nat
      /\ Len(F[k].lines) = j + Len(lines) /\ lines \in Seq(Lines) /\ emitted = G[j].emitted
  BY DEF Reading
<1>2. F[k].lines \in Seq(Lines) /\ Split(text).lines \in Seq(Lines) /\ Begins(F[k].lines, Split(text).lines)
  BY <1>1, LinesSoFar
<1>3. j \in 0..Len(Split(text).lines)
  <2>1. Len(F[k].lines) <= Len(Split(text).lines)
    BY <1>2 DEF Begins
  <2>2. Len(lines) \in Nat /\ Len(F[k].lines) \in Nat /\ Len(Split(text).lines) \in Nat
    BY <1>1, <1>2
  <2> QED BY <1>1, <2>1, <2>2
<1> QED BY <1>1, <1>3, EventsGoOn

LEMMA LeaveEarlyInv ==
    ASSUME StreamInv, LeaveEarly
    PROVE  StreamInv'
<1>1. text \in Lines /\ text' = text /\ emitted' = emitted /\ reader = "locked" /\ reader' = "left"
  BY DEF StreamInv, LeaveEarly
<1>2. PICK F, G, k, j : Reading(F, G, k, j)
  BY <1>1 DEF StreamInv
<1>3. IsPrefix(emitted, EventsOf(text))
  BY <1>1, <1>2, ReadingIsPrefix
<1> QED BY <1>1, <1>3 DEF StreamInv

LEMMA StreamUnchanged == StreamInv /\ UNCHANGED svars => StreamInv'
<1> SUFFICES ASSUME StreamInv, UNCHANGED svars PROVE StreamInv'
  OBVIOUS
<1>1. /\ text' = text /\ unread' = unread /\ buffer' = buffer /\ lines' = lines /\ event' = event
      /\ emitted' = emitted /\ reader' = reader
  BY DEF svars
<1>2. ASSUME NEW F, NEW G, NEW k, NEW j, Reading(F, G, k, j) PROVE Reading(F, G, k, j)'
  BY <1>1, <1>2, Zenon DEF Reading
<1> QED BY <1>1, <1>2, Zenon DEF StreamInv

LEMMA StreamInvariance == HttpSpec => []StreamInv
<1>1. HttpInit => StreamInv
  BY StreamInitInv DEF HttpInit
<1>2. StreamInv /\ StreamNext => StreamInv'
  BY ReadChunkInv, ConsumeLineInv, EndOfStreamInv, LeaveEarlyInv DEF StreamNext
<1>3. StreamInv /\ [HttpNext]_httpvars => StreamInv'
  <2> SUFFICES ASSUME StreamInv, [HttpNext]_httpvars PROVE StreamInv'
    OBVIOUS
  <2>1. ASSUME CallStep PROVE UNCHANGED svars
    BY <2>1, Zenon DEF CallStep, RefusedAtOnce, Begin, StreamRefused, Attempt, Backoff, ConditionThrows,
       ErrorStands, SleepAborted, RedirectRefused, RedirectFollowed, Respond
  <2>2. ASSUME NetworkStep \/ SignalStep \/ ReadJson \/ Wake PROVE UNCHANGED svars
    BY <2>2, Zenon DEF NetworkStep, Answer, Rejected, BodyFails, SignalStep, UserAborts, TimerFires,
       ScopeDisposed, Abort, ReadJson, Wake
  <2>3. ASSUME UNCHANGED httpvars PROVE UNCHANGED svars
    BY <2>3, Zenon DEF httpvars
  <2>4. ASSUME ReadEvents PROVE StreamNext
    BY <2>4, Zenon DEF ReadEvents
  <2> QED BY <1>2, <2>1, <2>2, <2>3, <2>4, StreamUnchanged DEF HttpNext, ReadStep
<1> QED BY <1>1, <1>3, PTL DEF HttpSpec

LEMMA CutsNeverMatter == HttpSpec => []CutsDoNotMatter
<1>1. StreamInv => CutsDoNotMatter
  BY ReadingIsPrefix DEF StreamInv, CutsDoNotMatter
<1> QED BY <1>1, StreamInvariance, PTL

(* README 6: a call that has its response or has failed keeps no timer,    *)
(* registration or listener and leaves no body undrained; and the events a *)
(* consumer hears are those of the text, wherever the network cuts it and  *)
(* whenever the consumer leaves.                                           *)
THEOREM CallsAlwaysCleanUp == HttpSpec => []CallsCleanUp
<1>1. (HTypeOK /\ NothingStaysBound /\ BodiesAreDrained) /\ CutsDoNotMatter => CallsCleanUp
  BY Zenon DEF CallsCleanUp
<1> QED BY <1>1, CallsNeverLeak, CutsNeverMatter, PTL

-----------------------------------------------------------------------------
(* The paths: segments of the manifest and of the entries it always names. *)
Spelled == Segments \cup {"dir", "file"}

LEMMA CleanedSteps ==
    ASSUME NEW p \in Seq(Spelled)
    PROVE  \E F \in [0..Len(p) -> Seq(Spelled)] :
             /\ F[0] = <<>> /\ Cleaned(p) = F[Len(p)]
             /\ \A k \in 1..Len(p) : F[k] = Kept(F[k - 1], p[k])
<1> DEFINE A == Seq(Spelled)
           n == Len(p)
           g == [a \in A |-> [e \in Spelled |-> Kept(a, e)]]
           Rule(F) == F = [s \in SUBSET DOMAIN p |-> IF s = {} THEN <<>>
                                                     ELSE Kept(F[s \ {Max(s)}], p[Max(s)])]
           H == CHOOSE F : Rule(F)
<1>1. n \in Nat /\ DOMAIN p = 1..n /\ \A k \in 1..n : p[k] \in Spelled
  OBVIOUS
<1>2. <<>> \in A /\ \A a \in A, e \in Spelled : Kept(a, e) \in A
  <2>1. ASSUME NEW a \in Seq(Spelled), NEW e \in Spelled PROVE Kept(a, e) \in Seq(Spelled)
    <3>1. Append(a, e) \in Seq(Spelled)
      OBVIOUS
    <3> QED BY <3>1, Zenon DEF Kept
  <2> QED BY <2>1
<1>3. PICK h \in [SUBSET (1..n) -> A] : Folds(h, n, <<>>, g, p)
  <2>1. g \in [A -> [Spelled -> A]]
    <3> HIDE DEF A
    <3> QED BY <1>2
  <2> HIDE DEF A, g
  <2> QED BY <1>2, <2>1, FoldExists
<1>4. Rule(h)
  <2>1. ASSUME NEW s \in SUBSET (1..n), s # {}
        PROVE  h[s] = Kept(h[s \ {Max(s)}], p[Max(s)])
    <3>1. p[Max(s)] \in Spelled /\ h[s \ {Max(s)}] \in A
      BY <1>1, <1>3, <2>1, LastIndex
    <3>2. h[s] = g[h[s \ {Max(s)}]][p[Max(s)]]
      BY <1>3, <2>1 DEF Folds
    <3> HIDE DEF A
    <3> QED BY <3>1, <3>2
  <2>2. h[{}] = <<>>
    BY <1>3 DEF Folds
  <2> HIDE DEF A
  <2> QED BY <1>1, <1>3, <2>1, <2>2
<1>5. Rule(H)
  <2> HIDE DEF Rule
  <2> QED BY <1>4
<1>6. Cleaned(p) = H[1..n]
  <2>1. Cleaned(p) = H[DOMAIN p]
    BY Zenon DEF Cleaned, FoldLeft, MapThenFoldSet
  <2> HIDE DEF H
  <2> QED BY <1>1, <2>1
<1> HIDE DEF H
<1> DEFINE F == [k \in 0..n |-> H[1..k]]
<1>7. F[0] = <<>> /\ F[n] = H[1..n]
  <2>1. 1..0 = {} /\ {} \in SUBSET DOMAIN p /\ 0 \in 0..n /\ n \in 0..n
    BY <1>1, SMT
  <2> QED BY <1>5, <2>1
<1>8. ASSUME NEW k \in 1..n PROVE F[k] = Kept(F[k - 1], p[k])
  <2>1. H[1..k] = Kept(H[(1..k) \ {Max(1..k)}], p[Max(1..k)])
    BY <1>1, <1>5, Intervals
  <2>2. Max(1..k) = k /\ (1..k) \ {k} = 1..(k - 1) /\ k \in 0..n /\ k - 1 \in 0..n
    BY <1>1, Intervals
  <2> QED BY <2>1, <2>2
<1>9. \A k \in 0..n : F[k] \in A
  <2> HIDE DEF F, A
  <2>1. \A k \in 1..n : F[k - 1] \in A => F[k] \in A
    BY <1>1, <1>2, <1>8
  <2> QED BY <1>1, <1>2, <1>7, <2>1, StaysIn
<1>10. F \in [0..n -> A]
  <2> HIDE DEF A
  <2> QED BY <1>9
<1> HIDE DEF F
<1> QED BY <1>6, <1>7, <1>8, <1>10

Walkers == [depth : Int, low : BOOLEAN, place : Seq(Spelled)]

LEMMA WalkSteps ==
    ASSUME NEW p \in Seq(Spelled)
    PROVE  \E F \in [0..Len(p) -> Walkers] :
             /\ F[0] = [depth |-> 0, low |-> FALSE, place |-> <<>>] /\ Walk(p) = F[Len(p)]
             /\ \A k \in 1..Len(p) : F[k] = Onward(F[k - 1], p[k])
<1> DEFINE A == Walkers
           start == [depth |-> 0, low |-> FALSE, place |-> <<>>]
           n == Len(p)
           g == [a \in A |-> [e \in Spelled |-> Onward(a, e)]]
           Rule(F) == F = [s \in SUBSET DOMAIN p |-> IF s = {} THEN start
                                                     ELSE Onward(F[s \ {Max(s)}], p[Max(s)])]
           H == CHOOSE F : Rule(F)
<1>1. n \in Nat /\ DOMAIN p = 1..n /\ \A k \in 1..n : p[k] \in Spelled
  OBVIOUS
<1>2. start \in A /\ \A a \in A, e \in Spelled : Onward(a, e) \in A
  <2>1. ASSUME NEW a \in Walkers, NEW e \in Spelled PROVE Onward(a, e) \in Walkers
    <3>1. a.depth \in Int /\ a.low \in BOOLEAN /\ a.place \in Seq(Spelled)
      BY DEF Walkers
    <3>2. Append(a.place, e) \in Seq(Spelled)
      BY <3>1
    <3>3. CASE e = ".."
      <4>1. Onward(a, e) = [a EXCEPT !.depth = @ - 1, !.low = @ \/ a.depth = 0]
        BY <3>3, Zenon DEF Onward
      <4>2. (a.low \/ a.depth = 0) \in BOOLEAN /\ a.depth - 1 \in Int
        BY <3>1
      <4> QED BY <4>1, <4>2 DEF Walkers
    <3>4. CASE e # ".." /\ e \in {"", "."}
      <4>1. Onward(a, e) = a
        BY <3>4, Zenon DEF Onward
      <4> QED BY <4>1
    <3>5. CASE e # ".." /\ e \notin {"", "."}
      <4>1. Onward(a, e) = [a EXCEPT !.depth = @ + 1, !.place = Append(@, e)]
        BY <3>5, Zenon DEF Onward
      <4>2. a.depth + 1 \in Int
        BY <3>1
      <4> QED BY <3>2, <4>1, <4>2 DEF Walkers
    <3> QED BY <3>3, <3>4, <3>5
  <2>2. <<>> \in Seq(Spelled)
    OBVIOUS
  <2>3. start \in Walkers
    BY <2>2 DEF Walkers
  <2> QED BY <2>1, <2>3
<1>3. PICK h \in [SUBSET (1..n) -> A] : Folds(h, n, start, g, p)
  <2>1. g \in [A -> [Spelled -> A]]
    <3> HIDE DEF A
    <3> QED BY <1>2
  <2> HIDE DEF A, g
  <2> QED BY <1>2, <2>1, FoldExists
<1>4. Rule(h)
  <2>1. ASSUME NEW s \in SUBSET (1..n), s # {}
        PROVE  h[s] = Onward(h[s \ {Max(s)}], p[Max(s)])
    <3>1. p[Max(s)] \in Spelled /\ h[s \ {Max(s)}] \in A
      BY <1>1, <1>3, <2>1, LastIndex
    <3>2. h[s] = g[h[s \ {Max(s)}]][p[Max(s)]]
      BY <1>3, <2>1 DEF Folds
    <3> HIDE DEF A
    <3> QED BY <3>1, <3>2
  <2>2. h[{}] = start
    BY <1>3 DEF Folds
  <2> HIDE DEF A
  <2> QED BY <1>1, <1>3, <2>1, <2>2
<1>5. Rule(H)
  <2> HIDE DEF Rule
  <2> QED BY <1>4
<1>6. Walk(p) = H[1..n]
  <2>1. Walk(p) = H[DOMAIN p]
    BY Zenon DEF Walk, FoldLeft, MapThenFoldSet
  <2> HIDE DEF H
  <2> QED BY <1>1, <2>1
<1> HIDE DEF H
<1> DEFINE F == [k \in 0..n |-> H[1..k]]
<1>7. F[0] = start /\ F[n] = H[1..n]
  <2>1. 1..0 = {} /\ {} \in SUBSET DOMAIN p /\ 0 \in 0..n /\ n \in 0..n
    BY <1>1, SMT
  <2> QED BY <1>5, <2>1
<1>8. ASSUME NEW k \in 1..n PROVE F[k] = Onward(F[k - 1], p[k])
  <2>1. H[1..k] = Onward(H[(1..k) \ {Max(1..k)}], p[Max(1..k)])
    BY <1>1, <1>5, Intervals
  <2>2. Max(1..k) = k /\ (1..k) \ {k} = 1..(k - 1) /\ k \in 0..n /\ k - 1 \in 0..n
    BY <1>1, Intervals
  <2> QED BY <2>1, <2>2
<1>9. \A k \in 0..n : F[k] \in A
  <2> HIDE DEF F, A
  <2>1. \A k \in 1..n : F[k - 1] \in A => F[k] \in A
    BY <1>1, <1>2, <1>8
  <2> QED BY <1>1, <1>2, <1>7, <2>1, StaysIn
<1>10. F \in [0..n -> A]
  <2> HIDE DEF A
  <2> QED BY <1>9
<1> HIDE DEF F
<1> QED BY <1>6, <1>7, <1>8, <1>10
(* What cleaning does: the parts of a path that stay put are dropped.      *)
Staying == {"", "."}

LEMMA CleanedIsPlain ==
    ASSUME NEW p \in Seq(Spelled)
    PROVE  /\ Cleaned(p) \in Seq(Spelled)
           /\ \A k \in DOMAIN Cleaned(p) :
                /\ Cleaned(p)[k] \notin Staying
                /\ \E j \in DOMAIN p : Cleaned(p)[k] = p[j]
<1> DEFINE Parts == {e \in Spelled : e \notin Staying /\ \E j \in DOMAIN p : e = p[j]}
<1>1. Len(p) \in Nat /\ DOMAIN p = 1..Len(p) /\ \A k \in DOMAIN p : p[k] \in Spelled
  OBVIOUS
<1>2. PICK F \in [0..Len(p) -> Seq(Spelled)] :
        /\ F[0] = <<>> /\ Cleaned(p) = F[Len(p)]
        /\ \A k \in 1..Len(p) : F[k] = Kept(F[k - 1], p[k])
  BY CleanedSteps
<1>3. ASSUME NEW k \in 1..Len(p), F[k - 1] \in Seq(Parts) PROVE F[k] \in Seq(Parts)
  <2>1. F[k] = Kept(F[k - 1], p[k]) /\ p[k] \in Spelled /\ k \in DOMAIN p
    BY <1>1, <1>2
  <2>2. CASE p[k] \in Staying
    <3>1. F[k] = F[k - 1]
      BY <2>1, <2>2, Zenon DEF Kept, Staying
    <3> QED BY <1>3, <3>1
  <2>3. CASE p[k] \notin Staying
    <3>1. F[k] = Append(F[k - 1], p[k])
      BY <2>1, <2>3, Zenon DEF Kept, Staying
    <3>2. p[k] \in Parts
      BY <2>1, <2>3, Zenon
    <3> HIDE DEF Parts
    <3> QED BY <1>3, <3>1, <3>2
  <2> QED BY <2>2, <2>3
<1>4. F[0] \in Seq(Parts)
  <2> HIDE DEF Parts
  <2> QED BY <1>2
<1>5. Cleaned(p) \in Seq(Parts)
  <2> HIDE DEF Parts
  <2>1. \A k \in 0..Len(p) : F[k] \in Seq(Parts)
    BY <1>1, <1>3, <1>4, StaysIn
  <2> QED BY <1>1, <1>2, <2>1
<1>6. \A k \in DOMAIN Cleaned(p) : Cleaned(p)[k] \in Parts
  <2> HIDE DEF Parts
  <2> QED BY <1>5
<1>7. Cleaned(p) \in Seq(Spelled)
  BY <1>1, <1>2
<1> QED BY <1>6, <1>7, Zenon

LEMMA CleanedOnce ==
    ASSUME NEW p \in Seq(Spelled), \A k \in DOMAIN p : p[k] \notin Staying
    PROVE  Cleaned(p) = p
<1>1. Len(p) \in Nat /\ DOMAIN p = 1..Len(p) /\ \A k \in DOMAIN p : p[k] \in Spelled
  OBVIOUS
<1>2. PICK F \in [0..Len(p) -> Seq(Spelled)] :
        /\ F[0] = <<>> /\ Cleaned(p) = F[Len(p)]
        /\ \A k \in 1..Len(p) : F[k] = Kept(F[k - 1], p[k])
  BY CleanedSteps
<1> DEFINE SoFar == [k \in 0..Len(p) |-> Len(F[k]) = k /\ \A j \in 1..k : F[k][j] = p[j]]
<1>3. ASSUME NEW k \in 1..Len(p), SoFar[k - 1] PROVE SoFar[k]
  <2>1. F[k] = Kept(F[k - 1], p[k]) /\ p[k] \in Spelled /\ k \in DOMAIN p
    BY <1>1, <1>2
  <2>2. F[k] = Append(F[k - 1], p[k])
    BY <2>1, Zenon DEF Kept, Staying
  <2>3. k \in Nat /\ k \in 0..Len(p) /\ k - 1 \in 0..Len(p) /\ k >= 1
    BY <1>1
  <2>4. F[k - 1] \in Seq(Spelled) /\ Len(F[k - 1]) = k - 1 /\ \A j \in 1..(k - 1) : F[k - 1][j] = p[j]
    BY <1>2, <1>3, <2>3
  <2>5. Len(F[k]) = k /\ \A j \in 1..k : F[k][j] = p[j]
    BY <2>1, <2>2, <2>3, <2>4
  <2> QED BY <2>3, <2>5
<1>4. SoFar[0]
  <2>1. Len(F[0]) = 0 /\ 0 \in 0..Len(p) /\ 1..0 = {}
    BY <1>1, <1>2
  <2> QED BY <2>1
<1>5. \A k \in 0..Len(p) : SoFar[k]
  <2>1. SoFar[0] \in {TRUE}
    BY <1>4
  <2>2. \A k \in 1..Len(p) : SoFar[k - 1] \in {TRUE} => SoFar[k] \in {TRUE}
    <3> SUFFICES ASSUME NEW k \in 1..Len(p), SoFar[k - 1] \in {TRUE} PROVE SoFar[k] \in {TRUE}
      OBVIOUS
    <3>1. k - 1 \in 0..Len(p) /\ k \in 0..Len(p)
      BY <1>1
    <3>2. SoFar[k] \in BOOLEAN
      BY <3>1
    <3>3. SoFar[k - 1]
      OBVIOUS
    <3>4. SoFar[k]
      BY <1>3, <3>3
    <3> HIDE DEF SoFar
    <3> QED BY <3>2, <3>4
  <2> HIDE DEF SoFar
  <2>3. \A k \in 0..Len(p) : SoFar[k] \in {TRUE}
    BY <1>1, <2>1, <2>2, StaysIn
  <2> QED BY <2>3
<1>6. Len(F[Len(p)]) = Len(p) /\ \A j \in 1..Len(p) : F[Len(p)][j] = p[j]
  <2>1. Len(p) \in 0..Len(p)
    BY <1>1
  <2> QED BY <1>5, <2>1
<1>7. F[Len(p)] \in Seq(Spelled)
  BY <1>1, <1>2
<1> QED BY <1>1, <1>2, <1>6, <1>7

(* A path that does not climb leads where it leads when it is cleaned.     *)
LEMMA WalkIsCleaned ==
    ASSUME NEW p \in Seq(Spelled), \A k \in DOMAIN p : p[k] # ".."
    PROVE  Walk(p).place = Cleaned(p) /\ ~ Walk(p).low
<1>1. Len(p) \in Nat /\ DOMAIN p = 1..Len(p) /\ \A k \in DOMAIN p : p[k] \in Spelled
  OBVIOUS
<1>2. PICK F \in [0..Len(p) -> Seq(Spelled)] :
        /\ F[0] = <<>> /\ Cleaned(p) = F[Len(p)]
        /\ \A k \in 1..Len(p) : F[k] = Kept(F[k - 1], p[k])
  BY CleanedSteps
<1>3. PICK W \in [0..Len(p) -> Walkers] :
        /\ W[0] = [depth |-> 0, low |-> FALSE, place |-> <<>>] /\ Walk(p) = W[Len(p)]
        /\ \A k \in 1..Len(p) : W[k] = Onward(W[k - 1], p[k])
  BY WalkSteps
<1> DEFINE Fails == {k \in 0..Len(p) : ~(W[k].place = F[k] /\ W[k].low = FALSE)}
<1>4. ASSUME NEW k \in 1..Len(p), W[k - 1].place = F[k - 1], W[k - 1].low = FALSE
      PROVE  W[k].place = F[k] /\ W[k].low = FALSE
  <2>1. /\ F[k] = Kept(F[k - 1], p[k]) /\ W[k] = Onward(W[k - 1], p[k])
        /\ p[k] # ".." /\ k - 1 \in 0..Len(p)
    BY <1>1, <1>2, <1>3
  <2>2. CASE p[k] \in Staying
    <3>1. F[k] = F[k - 1] /\ W[k] = W[k - 1]
      BY <2>1, <2>2, Zenon DEF Kept, Onward, Staying
    <3> QED BY <1>4, <3>1
  <2>3. CASE p[k] \notin Staying
    <3>1. F[k] = Append(F[k - 1], p[k])
      BY <2>1, <2>3, Zenon DEF Kept, Staying
    <3>2. W[k] = [W[k - 1] EXCEPT !.depth = @ + 1, !.place = Append(@, p[k])]
      BY <2>1, <2>3, Zenon DEF Onward, Staying
    <3>3. W[k - 1] \in Walkers
      BY <1>3, <2>1
    <3>4. W[k].place = Append(W[k - 1].place, p[k]) /\ W[k].low = W[k - 1].low
      BY <3>2, <3>3 DEF Walkers
    <3> QED BY <1>4, <3>1, <3>4
  <2> QED BY <2>2, <2>3
<1>5. W[0].place = F[0] /\ W[0].low = FALSE
  BY <1>2, <1>3
<1>6. Fails = {}
  <2> SUFFICES ASSUME Fails # {} PROVE FALSE
    OBVIOUS
  <2>1. Fails \subseteq Nat
    OBVIOUS
  <2>2. PICK k \in Fails : \A m \in Fails : k <= m
    <3> HIDE DEF Fails
    <3> QED BY <2>1, MinIsLeast
  <2>3. k \in Nat /\ k <= Len(p) /\ k # 0
    BY <1>5, <2>2
  <2>4. k \in 1..Len(p) /\ k - 1 \in 0..Len(p) /\ ~(k <= k - 1)
    BY <1>1, <2>3
  <2>5. k - 1 \notin Fails
    BY <2>2, <2>4
  <2> QED BY <1>4, <2>2, <2>4, <2>5
<1>7. Len(p) \in 0..Len(p)
  BY <1>1
<1> QED BY <1>2, <1>3, <1>6, <1>7
-----------------------------------------------------------------------------
(* What was accepted: each entry is its path cleaned, which no rule of     *)
(* containment or of destinations forbids, and no other entry's.           *)
Acceptable(p) == Containment(p) = "" /\ Destination(Cleaned(p)) = ""

Entries == [source : Seq(Spelled), target : Seq(Spelled)]

ManifestInv ==
    /\ asked \in Seq(Seq(Spelled)) /\ accepted \in Seq(Entries) /\ Len(accepted) = Len(asked)
    /\ \A k \in 1..Len(asked) :
         Acceptable(asked[k]) /\ accepted[k].target = Cleaned(asked[k])
    /\ \A j, k \in 1..Len(asked) : accepted[j].target = accepted[k].target => j = k

LEMMA PathsAreSpelled == Paths \subseteq Seq(Spelled)
<1> SUFFICES ASSUME NEW p \in Paths PROVE p \in Seq(Spelled)
  OBVIOUS
<1>1. PICK n \in 0..MaxSegments : p \in [1..n -> Segments]
  BY Zenon DEF Paths, SeqOf
<1>2. n \in Nat
  BY <1>1, ManifestAssumption
<1> QED BY <1>1, <1>2, SeqDef DEF Spelled

LEMMA EntryIsAccepted ==
    ASSUME NEW origin \in Seq(Spelled), NEW target \in Seq(Spelled),
           NEW executable \in BOOLEAN, NEW integrity \in BOOLEAN,
           ManifestInv, ValidateFileEntry(origin, target, executable, integrity)
    PROVE  ManifestInv'
<1> DEFINE answer == EntryVerdict(origin, target, executable, integrity)
           entry == [source |-> Cleaned(origin), target |-> Cleaned(target)]
<1>1. CASE answer # "reading"
  <2>1. asked' = asked /\ accepted' = accepted
    BY <1>1, Zenon DEF ValidateFileEntry
  <2> QED BY <2>1, Zenon DEF ManifestInv
<1>2. CASE answer = "reading"
  <2>1. asked' = Append(asked, target) /\ accepted' = Append(accepted, entry)
    BY <1>2, Zenon DEF ValidateFileEntry
  <2>2. SanitizePath(target) = "" /\ Cleaned(target) \notin SeenTargets
    <3>1. "INVALID_INTEGRITY" # "reading" /\ "DUPLICATE_DESTINATION" # "reading" /\ "EXECUTABLE_REJECTED" # "reading"
      BY Zenon
    <3>2. Containment(origin) # "reading" /\ SanitizePath(target) # "reading"
      BY Zenon DEF Containment, SanitizePath, Destination
    <3> QED BY <1>2, <3>1, <3>2, Zenon DEF EntryVerdict
  <2>3. Acceptable(target)
    BY <2>2, Zenon DEF SanitizePath, Acceptable
  <2>4. Cleaned(origin) \in Seq(Spelled) /\ Cleaned(target) \in Seq(Spelled)
    BY CleanedIsPlain
  <2>5. entry \in Entries
    BY <2>4 DEF Entries
  <2>6. /\ asked \in Seq(Seq(Spelled)) /\ accepted \in Seq(Entries) /\ Len(accepted) = Len(asked)
        /\ Len(asked) \in Nat
    BY DEF ManifestInv
  <2>7. \A k \in 1..Len(asked) : accepted[k].target # Cleaned(target)
    <3>1. \A k \in 1..Len(asked) : k \in DOMAIN accepted
      BY <2>6
    <3> QED BY <2>2, <3>1, Zenon DEF SeenTargets
  <2> DEFINE n == Len(asked)
             Sound(path, e) == Acceptable(path) /\ e.target = Cleaned(path)
  <2>8. Sound(target, entry)
    BY <2>3
  <2>9. \A k \in 1..n : Sound(asked[k], accepted[k])
    BY Zenon DEF ManifestInv
  <2>10. \A j, k \in 1..n : accepted[j].target = accepted[k].target => j = k
    BY Zenon DEF ManifestInv
  <2>11. entry.target = Cleaned(target)
    OBVIOUS
  <2>12. /\ asked' \in Seq(Seq(Spelled)) /\ accepted' \in Seq(Entries)
         /\ Len(asked') = n + 1 /\ Len(accepted') = n + 1
         /\ asked'[n + 1] = target /\ accepted'[n + 1] = entry
         /\ \A k \in 1..n : asked'[k] = asked[k] /\ accepted'[k] = accepted[k]
    <3> HIDE DEF entry
    <3> QED BY <2>1, <2>5, <2>6
  <2>13. \A k \in 1..(n + 1) : k \in 1..n \/ k = n + 1
    BY <2>6
  <2> HIDE DEF Sound, entry, n
  <2>14. \A k \in 1..(n + 1) : Sound(asked'[k], accepted'[k])
    BY <2>8, <2>9, <2>12, <2>13, Zenon
  <2>15. \A j, k \in 1..(n + 1) : accepted'[j].target = accepted'[k].target => j = k
    <3>1. \A k \in 1..n : accepted[k].target # entry.target
      BY <2>7, <2>11, Zenon DEF n
    <3> QED BY <2>10, <2>12, <2>13, <3>1, Zenon
  <2> QED BY <2>12, <2>14, <2>15, Zenon DEF ManifestInv, Sound
<1> QED BY <1>1, <1>2

LEMMA ManifestStep ==
    ASSUME ManifestInv, [ManifestNext]_manifestVars
    PROVE  ManifestInv'
<1>1. CASE ValidateHead
  <2>1. asked' = asked /\ accepted' = accepted
    BY <1>1, Zenon DEF ValidateHead
  <2> QED BY <2>1, Zenon DEF ManifestInv
<1>2. ASSUME NEW target \in Paths, ValidateFileEntry(<<"file">>, target, FALSE, TRUE)
      PROVE  ManifestInv'
  <2>1. <<"file">> \in Seq(Spelled) /\ target \in Seq(Spelled)
    BY PathsAreSpelled DEF Spelled
  <2> QED BY <1>2, <2>1, EntryIsAccepted, Zenon
<1>3. ASSUME NEW s \in Segments, NEW executable \in BOOLEAN, NEW integrity \in BOOLEAN,
             ValidateFileEntry(<<s>>, <<"dir", "file">>, executable, integrity)
      PROVE  ManifestInv'
  <2>1. <<s>> \in Seq(Spelled) /\ <<"dir", "file">> \in Seq(Spelled)
    BY DEF Spelled
  <2> QED BY <1>3, <2>1, EntryIsAccepted
<1>4. CASE Accept
  <2>1. asked' = asked /\ accepted' = accepted
    BY <1>4, Zenon DEF Accept
  <2> QED BY <2>1, Zenon DEF ManifestInv
<1>5. CASE UNCHANGED manifestVars
  <2>1. asked' = asked /\ accepted' = accepted
    BY <1>5, Zenon DEF manifestVars
  <2> QED BY <2>1, Zenon DEF ManifestInv
<1> QED BY <1>1, <1>2, <1>3, <1>4, <1>5, Zenon DEF ManifestNext

THEOREM AlwaysManifestInv == ManifestSpec => []ManifestInv
<1>1. ManifestInit => ManifestInv
  <2> SUFFICES ASSUME ManifestInit PROVE ManifestInv
    OBVIOUS
  <2>1. asked = <<>> /\ accepted = <<>>
    BY Zenon DEF ManifestInit
  <2>2. /\ asked \in Seq(Seq(Spelled)) /\ accepted \in Seq(Entries)
        /\ Len(accepted) = Len(asked) /\ 1..Len(asked) = {}
    BY <2>1
  <2> QED BY <2>2, Zenon DEF ManifestInv
<1>2. ManifestInv /\ [ManifestNext]_manifestVars => ManifestInv'
  BY ManifestStep
<1> QED BY <1>1, <1>2, PTL DEF ManifestSpec

(* With roots to write below, a cleaned path is as acceptable as the path  *)
(* it was cleaned from: it starts with what a root starts with.            *)
RootsAreRelative == Roots # {} /\ \A r \in Roots : r \in Seq(Spelled) /\ r # <<>> /\ r[1] # "C:"

LEMMA CleanedIsAccepted ==
    ASSUME RootsAreRelative, NEW p \in Seq(Spelled), Acceptable(p)
    PROVE  /\ Walk(p).place = Cleaned(p) /\ ~ Walk(p).low
           /\ Within(Roots, Cleaned(p)) /\ SanitizePath(Cleaned(p)) = ""
<1> DEFINE c == Cleaned(p)
<1>1. \A k \in DOMAIN p : p[k] \notin Climbing
  BY Zenon DEF Acceptable, Containment
<1>2. c # <<>>
  BY Zenon DEF Acceptable, Containment
<1>3. \A k \in DOMAIN p : p[k] # ".."
  BY <1>1, Zenon DEF Climbing
<1>4. Walk(p).place = c /\ ~ Walk(p).low
  BY <1>3, WalkIsCleaned
<1>5. /\ c \in Seq(Spelled)
      /\ \A k \in DOMAIN c : c[k] \notin Staying /\ \E j \in DOMAIN p : c[k] = p[j]
  BY CleanedIsPlain, Zenon
<1>6. Cleaned(c) = c
  <2> HIDE DEF c
  <2> QED BY <1>5, CleanedOnce
<1>7. Within(Roots, c)
  BY Zenon DEF Acceptable, Destination
<1>8. PICK r \in Roots : IsPrefix(r, c)
  BY <1>7, RootsAreRelative, Zenon DEF Within, RootsAreRelative
<1>9. r \in Seq(Spelled) /\ r # <<>> /\ r[1] # "C:"
  BY RootsAreRelative, Zenon DEF RootsAreRelative
<1>10. c[1] = r[1] /\ 1 \in DOMAIN c
  <2> HIDE DEF c
  <2>1. Len(r) \in Nat /\ Len(r) >= 1 /\ Len(c) \in Nat
    BY <1>5, <1>9
  <2>2. Len(r) <= Len(c) /\ SubSeq(r, 1, Len(r)) = SubSeq(c, 1, Len(r))
    BY <1>8, Zenon DEF IsPrefix
  <2>3. SubSeq(r, 1, Len(r))[1] = r[1] /\ SubSeq(c, 1, Len(r))[1] = c[1]
    BY <1>5, <1>9, <2>1, <2>2
  <2> QED BY <1>5, <2>1, <2>2, <2>3
<1>11. c[1] # ""
  BY <1>5, <1>10, Zenon DEF Staying
<1>12. ~ Absolute(c) /\ c # <<"">>
  <2>1. c[1] # "C:"
    BY <1>9, <1>10, Zenon
  <2>2. \A e : c = <<e>> => c[1] = e
    OBVIOUS
  <2>3. c # <<"">>
    BY <1>11, <2>2, Zenon
  <2> QED BY <1>11, <2>1, <2>3, Zenon DEF Absolute
<1>13. ~ \E k \in DOMAIN c : c[k] \in Climbing
  BY <1>1, <1>5, Zenon
<1>14. Containment(c) = ""
  <2> HIDE DEF c
  <2>1. ~(c = <<"">>) /\ ~Absolute(c) /\ ~(\E k \in DOMAIN c : c[k] \in Climbing) /\ ~(Cleaned(c) = <<>>)
    BY <1>2, <1>6, <1>12, <1>13, Zenon
  <2> QED BY <2>1, Zenon DEF Containment
<1>15. SanitizePath(c) = ""
  <2>1. SanitizePath(c) = Destination(Cleaned(c))
    BY <1>14, Zenon DEF SanitizePath
  <2> QED BY <1>6, <2>1, Zenon DEF Acceptable
<1> QED BY <1>4, <1>7, <1>15, Zenon

(* Entries of a valid manifest are written to places of their own, below   *)
(* the project and a root, and judging a target again accepts it, as       *)
(* validateFileEntry keeps it (manifest-validator.ts:196-240).             *)
THEOREM TargetsStayApart ==
    ASSUME RootsAreRelative
    PROVE  ManifestSpec => []TargetsAreApart
<1>1. ManifestInv => TargetsAreApart
  <2> SUFFICES ASSUME ManifestInv PROVE TargetsAreApart
    OBVIOUS
  <2>1. /\ asked \in Seq(Seq(Spelled)) /\ Len(accepted) = Len(asked)
        /\ DOMAIN asked = 1..Len(asked) /\ \A k \in DOMAIN asked : asked[k] \in Seq(Spelled)
    BY DEF ManifestInv
  <2>2. ASSUME NEW k \in DOMAIN asked
        PROVE  /\ accepted[k].target = Walk(asked[k]).place /\ ~ Walk(asked[k]).low
               /\ Within(Roots, accepted[k].target)
               /\ SanitizePath(accepted[k].target) = ""
    <3>1. Acceptable(asked[k]) /\ accepted[k].target = Cleaned(asked[k])
      BY <2>1, Zenon DEF ManifestInv
    <3>2. asked[k] \in Seq(Spelled)
      BY <2>1
    <3> QED BY <3>1, <3>2, CleanedIsAccepted, Zenon
  <2>3. \A j, k \in DOMAIN asked : accepted[j].target = accepted[k].target => j = k
    BY <2>1, Zenon DEF ManifestInv
  <2> QED BY <2>1, <2>2, <2>3, Zenon DEF TargetsAreApart
<1> QED BY <1>1, AlwaysManifestInv, PTL
=============================================================================
