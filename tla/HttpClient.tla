----------------------------- MODULE HttpClient -----------------------------
(***************************************************************************)
(* One call of the HTTP client prototype (research/http): request() with   *)
(* its signals (cancellation.ts), the redirect loop of a security policy   *)
(* (client.ts, security.ts), retries with backoff (retry.ts), and the      *)
(* reading of the body by requestJson() and the stream helpers.            *)
(*                                                                         *)
(* The call runs on its own between its awaits; the network answers or     *)
(* fails, the caller aborts, the timer fires and the scope is disposed at  *)
(* any of them.                                                            *)
(***************************************************************************)
EXTENDS EventStream

CONSTANTS
    Configs,      \* the options of the call
    Origins,      \* origins a redirect may lead to
    Home,         \* the origin of the call
    MaxRetries,   \* policy.maxRetries
    MaxRedirects  \* policy.maxRedirects

ConfigType ==
    [method : {"GET", "POST"}, body : {"none", "text", "stream"},
     security : BOOLEAN,                          \* a security policy is given
     redirect : {"follow", "manual", "error"},
     retry : BOOLEAN, condition : BOOLEAN,        \* a retry policy, with a retryCondition
     user : BOOLEAN, timeout : BOOLEAN,           \* options.signal, options.timeout
     scope : {"none", "signal", "callback"},      \* options.scope, and what it offers
     throws : BOOLEAN,                            \* throwOnError
     reads : {"response", "json", "events"}]      \* request(), requestJson(), streamEvents()

ASSUME ConfigsAssumption == Configs \subseteq ConfigType
ASSUME HttpBounds == MaxRetries \in Nat /\ MaxRedirects \in Nat /\ Home \in Origins

VARIABLES
    config,  \* the options of this call
    at,      \* where the call is
    hop,     \* the request of the current redirect hop
    attempt, \* executeWithRetry(): the attempt of this hop
    subject, \* what is being judged for a retry, and the response at hand
    open,    \* bodies of responses the client holds undrained
    source,  \* the three signals: "idle", "armed", or aborted: "abort", "custom", ...
    active,  \* why the signal of the requests is aborted, or "no"
    wired,   \* the composed signal listens to its sources
    outcome, \* how the call settled
    sent     \* history: requests sent, per hop

callvars == <<config, at, hop, attempt, subject, open, source, active, wired, outcome, sent>>
httpvars == <<callvars, svars>>

Reasons == {"abort", "custom", "timeout", "scope"}
Statuses == {"ok", "busy", "gone", "moved", "other", "same"}
Redirects == {"moved", "other", "same"}  \* 301 or 302, 303, 307 or 308

HttpInit ==
    /\ config \in Configs
    /\ at = "start"
    /\ hop = [number |-> 0, method |-> config.method, body |-> config.body,
              origin |-> Home, credentials |-> TRUE]
    /\ attempt = 0 /\ subject = "none" /\ open = 0
    /\ source = [user |-> "idle", timeout |-> "idle", scope |-> "idle"]
    /\ active = "no" /\ wired = FALSE /\ outcome = "none"
    /\ sent = <<0>>
    /\ StreamInit
-----------------------------------------------------------------------------
(* Signals.                                                                *)

Names == <<"user", "timeout", "scope">>
Given(n) ==
    CASE n = "user"    -> config.user
      [] n = "timeout" -> config.timeout
      [] n = "scope"   -> config.scope # "none"
Sources == {n \in ToSet(Names) : Given(n)}

(* composeSignals(): one signal is passed on as it is; of several, one that*)
(* is aborted already is, or a controller that listens to all of them.     *)
Composes == Cardinality(Sources) > 1
Before == {i \in DOMAIN Names : Names[i] \in Sources /\ source[Names[i]] \in Reasons}

(* A source aborts: those that listen hear it, once.                       *)
Hears(n) ==
    /\ active = "no" /\ at # "start"
    /\ n \in Sources
    /\ Composes => wired
Abort(n, reason) ==
    /\ source' = [source EXCEPT ![n] = reason]
    /\ active' = IF Hears(n) THEN reason ELSE active
    /\ wired' = IF Hears(n) THEN FALSE ELSE wired  \* onAbort() cleans up
    /\ UNCHANGED <<config, at, hop, attempt, subject, open, outcome, sent, svars>>

UserAborts ==
    /\ config.user /\ source.user = "idle"
    /\ \E reason \in {"abort", "custom"} : Abort("user", reason)

TimerFires == source.timeout = "armed" /\ Abort("timeout", "timeout")

(* A scope with a signal aborts it whenever it is disposed; one with       *)
(* onDispose() calls back whoever is still registered.                     *)
ScopeDisposed ==
    /\ source.scope = IF config.scope = "signal" THEN "idle" ELSE "armed"
    /\ config.scope # "none"
    /\ Abort("scope", "scope")
-----------------------------------------------------------------------------
(* request().                                                              *)

(* finally: the timer, the registration and the listeners are given up.    *)
KeptBindings == source' = source /\ wired' = wired  \* mutated: no cleanup
Cleanup ==
    /\ source' = [n \in DOMAIN source |-> IF source[n] = "armed" THEN "idle" ELSE source[n]]
    /\ wired' = FALSE

Settle(result) == at' = "done" /\ outcome' = result

(* Up to the first await.  The URL may be refused before anything is bound,*)
(* and the Request constructor may throw after all is bound.               *)
RefusedAtOnce ==
    /\ at = "start" /\ config.security
    /\ Settle("security")
    /\ UNCHANGED <<config, hop, attempt, subject, open, source, active, wired, sent, svars>>

Bind ==
    /\ source' = [n \in DOMAIN source |->
                    IF \/ n = "timeout" /\ config.timeout
                       \/ n = "scope" /\ config.scope = "callback"
                    THEN "armed" ELSE source[n]]
    /\ active' = IF Before # {} THEN source[Names[Min(Before)]] ELSE "no"
    /\ wired' = (Composes /\ Before = {})

Begin ==
    /\ at = "start"
    /\ Bind
    /\ IF config.body # "none" /\ config.method = "GET" THEN Settle("TypeError")
       ELSE at' = "attempt" /\ UNCHANGED outcome
    /\ UNCHANGED <<config, hop, attempt, subject, open, sent, svars>>

(* The catch and finally of request(): the error is passed on.             *)
Fail(result) == Settle(result) /\ Cleanup /\ UNCHANGED active

(* executeWithRetry(): one attempt.  A stream is never sent under a policy.*)
StreamRefused ==
    /\ at = "attempt" /\ config.retry /\ hop.body = "stream"
    /\ Fail("stream")
    /\ attempt' = attempt + 1
    /\ UNCHANGED <<config, hop, subject, open, sent, svars>>

Attempt ==
    /\ at = "attempt" /\ ~(config.retry /\ hop.body = "stream")
    /\ at' = "fetching"
    /\ attempt' = attempt + 1
    /\ sent' = [sent EXCEPT ![hop.number + 1] = @ + 1]
    /\ UNCHANGED <<config, hop, subject, open, source, active, wired, outcome, svars>>

(* fetch() answers, or rejects: with the reason of an aborted signal, or   *)
(* for reasons of its own.  The transport wraps what is not an abort.      *)
Answer(status) ==
    /\ at = "fetching" /\ active = "no"
    /\ status \in Redirects => config.security \/ config.redirect = "manual"
    /\ at' = "judging" /\ subject' = status
    /\ open' = open + 1
    /\ UNCHANGED <<config, hop, attempt, source, active, wired, outcome, sent, svars>>

WrappedAsAbort(reason) == IF reason = "custom" THEN "network" ELSE "abort"  \* mutated: a timeout is an abort
Wrapped(reason) == IF reason = "custom" THEN "network" ELSE reason

Rejected ==
    /\ at = "fetching"
    /\ at' = "judging"
    /\ subject' = IF active = "no" THEN "network" ELSE Wrapped(active)
    /\ UNCHANGED <<config, hop, attempt, open, source, active, wired, outcome, sent, svars>>
-----------------------------------------------------------------------------
(* executeWithRetry(): is what came back worth another attempt?            *)

RetryOnceMore ==  \* mutated: one attempt too many
    /\ config.retry /\ attempt <= MaxRetries + 1
    /\ hop.method = "GET"
    /\ subject \in {"busy", "network", "thrown"}
MayRetry ==
    /\ config.retry /\ attempt <= MaxRetries
    /\ hop.method = "GET"
    /\ subject \in {"busy", "network", "thrown"}

(* The response that is replaced is drained, then the backoff begins.      *)
UndrainedOpen == open  \* mutated: the body is left
DrainedOpen == IF subject \in Statuses THEN open - 1 ELSE open

Backoff ==
    /\ at = "judging" /\ MayRetry
    /\ at' = "sleeping" /\ open' = DrainedOpen
    /\ UNCHANGED <<config, hop, attempt, subject, source, active, wired, outcome, sent, svars>>

(* retryCondition() of a response throws: that is caught as a failure of   *)
(* the attempt, and the response is forgotten.                             *)
ConditionThrows ==
    /\ at = "judging" /\ MayRetry /\ config.condition
    /\ IF subject \in Statuses
       THEN subject' = "thrown" /\ UNCHANGED <<at, outcome, source, wired, active>>
       ELSE Fail("condition") /\ UNCHANGED subject
    /\ UNCHANGED <<config, hop, attempt, open, sent, svars>>

(* No attempt is left, or none is due, or retryCondition() says no.        *)
NoRetry == ~MayRetry \/ config.condition

ErrorStands ==
    /\ at = "judging" /\ NoRetry /\ subject \notin Statuses
    /\ Fail(subject)
    /\ UNCHANGED <<config, hop, attempt, subject, open, sent, svars>>

(* The timer of the backoff fires, or the signal is aborted: an abort is   *)
(* thrown on, a reason of the caller's own is judged like a failure, whose *)
(* backoff throws it on at once.                                           *)
Wake ==
    /\ at = "sleeping" /\ active = "no"
    /\ at' = "attempt"
    /\ UNCHANGED <<config, hop, attempt, subject, open, source, active, wired, outcome, sent, svars>>

SleepThrough == FALSE  \* mutated: the backoff does not listen to the signal
SleepAborted ==
    /\ at = "sleeping" /\ active # "no"
    /\ \/ Fail(active)
       \/ active = "custom" /\ config.condition /\ Fail("condition")
    /\ UNCHANGED <<config, hop, attempt, subject, open, sent, svars>>
-----------------------------------------------------------------------------
(* The loop over redirects, and the response that ends it.                 *)

Follows == config.security /\ subject \in Redirects
Returned == at = "judging" /\ NoRetry /\ subject \in Statuses

RedirectRefused ==
    /\ Returned /\ Follows /\ config.redirect # "manual"
    /\ open' = open - 1
    /\ \/ config.redirect = "error" /\ Fail("network")
       \/ config.redirect = "follow" /\ Fail("security")  \* one too many, a target not allowed,
                                                          \* or a stream to send again
    /\ UNCHANGED <<config, hop, attempt, subject, sent, svars>>

(* stripSensitiveHeaders(): a header once stripped is not given back.      *)
KeptCredentials(o) == hop.credentials  \* mutated: nothing is stripped
Stripped(o) == hop.credentials /\ hop.origin = o

HopLeft == hop.number < MaxRedirects

(* Method and body change as fetch does.                                   *)
RewritesPost == \/ subject = "other"
                \/ subject = "moved" /\ hop.method = "POST"

RedirectFollowed(o) ==
    /\ Returned /\ Follows /\ config.redirect = "follow"
    /\ HopLeft
    /\ RewritesPost \/ hop.body # "stream"
    /\ hop' = [number |-> hop.number + 1, origin |-> o, credentials |-> Stripped(o),
               method |-> IF RewritesPost THEN "GET" ELSE hop.method,
               body |-> IF RewritesPost THEN "none" ELSE hop.body]
    /\ at' = "attempt" /\ attempt' = 0 /\ open' = open - 1
    /\ sent' = Append(sent, 0)
    /\ UNCHANGED <<config, subject, source, active, wired, outcome, svars>>

(* The response is the answer; with throwOnError a failure is thrown with  *)
(* its response attached, else its body may be read.                       *)
Respond ==
    /\ Returned
    /\ Follows => config.redirect = "manual"
    /\ Cleanup /\ UNCHANGED active
    /\ IF config.throws /\ subject # "ok" THEN Settle("status")
       ELSE IF config.reads = "response" THEN Settle("response")
       ELSE at' = "reading" /\ UNCHANGED outcome
    /\ UNCHANGED <<config, hop, attempt, subject, open, sent, svars>>
-----------------------------------------------------------------------------
(* Reading the body.  The request keeps its signal, and what is left of it.*)

ReadEnds(result) ==
    /\ Settle(result) /\ open' = 0
    /\ UNCHANGED <<config, hop, attempt, subject, source, active, wired, sent>>

(* text(), then nothing, JSON, a parse error or a value the schema refuses.*)
ReadJson ==
    /\ at = "reading" /\ config.reads = "json" /\ active = "no"
    /\ \E result \in {"value", "nothing", "parse", "validation"} : ReadEnds(result)
    /\ UNCHANGED svars

BodyFails ==
    /\ at = "reading"
    /\ ReadEnds(IF active = "no" THEN "network" ELSE active)
    /\ UNCHANGED svars

ReadEvents ==
    /\ at = "reading" /\ config.reads = "events" /\ active = "no"
    /\ StreamNext
    /\ IF reader' \in {"released", "left"} THEN ReadEnds("events") ELSE UNCHANGED callvars
-----------------------------------------------------------------------------
CallStep ==
    \/ RefusedAtOnce \/ Begin \/ StreamRefused \/ Attempt
    \/ Backoff \/ ConditionThrows \/ ErrorStands \/ SleepAborted
    \/ RedirectRefused \/ (\E o \in Origins : RedirectFollowed(o)) \/ Respond

NetworkStep == (\E status \in Statuses : Answer(status)) \/ Rejected \/ BodyFails
SignalStep == UserAborts \/ TimerFires \/ ScopeDisposed
ReadStep == ReadJson \/ ReadEvents

HttpNext == CallStep \/ NetworkStep \/ SignalStep \/ ReadStep \/ Wake

(* The call takes its steps, and fetch() and a body reject once their      *)
(* signal is aborted.  Nothing else need ever happen: a server may keep    *)
(* silent and a backoff may be long.                                       *)
HttpFairness == WF_httpvars(CallStep) /\ WF_httpvars(active # "no" /\ (Rejected \/ BodyFails))

HttpSpec == HttpInit /\ [][HttpNext]_httpvars /\ HttpFairness
-----------------------------------------------------------------------------
HTypeOK ==
    /\ at \in {"start", "attempt", "fetching", "judging", "sleeping", "reading", "done"}
    /\ hop.method \in {"GET", "POST"} /\ hop.number \in 0..MaxRedirects
    /\ active \in Reasons \cup {"no"}
    /\ outcome # "none" <=> at = "done"
    /\ Len(sent) = hop.number + 1

(* README 6: zero-leak signal composition.  A call that has its response or*)
(* has failed keeps no timer, no registration with the scope and no        *)
(* listener.  Left out is a call whose Request cannot be constructed.      *)
NothingStaysBound ==
    at \in {"reading", "done"} /\ outcome # "TypeError" =>
        /\ ~wired
        /\ \A n \in DOMAIN source : source[n] # "armed"

(* A response that is retried or redirected away is drained: one body is   *)
(* open at most, and only with the response in hand.  Left out are calls   *)
(* whose retryCondition() threw.                                           *)
BodiesAreDrained ==
    ~config.condition =>
        open = IF \/ at = "judging" /\ subject \in Statuses
                  \/ at = "reading"
                  \/ outcome \in {"response", "status"}
               THEN 1 ELSE 0

(* A call cleans up behind itself: signals, bodies and the stream it read. *)
CallsCleanUp == HTypeOK /\ NothingStaysBound /\ BodiesAreDrained /\ CutsDoNotMatter

(* README 8: a request that is not idempotent is not sent twice, one that  *)
(* is no more often than the policy says, whatever redirects, failures and *)
(* aborts come in between; and a stream is sent once in all.               *)
SentAsAllowed ==
    /\ sent[hop.number + 1] <= IF hop.method = "POST" \/ ~config.retry THEN 1 ELSE MaxRetries + 1
    /\ hop.body = "stream" => \A i \in 1..Len(sent) : sent[i] <= IF i = 1 THEN 1 ELSE 0

(* README 10: credentials do not follow a redirect to another origin.      *)
CredentialsStayHome ==
    at \in {"attempt", "fetching"} /\ hop.credentials => hop.origin = Home

(* The call reports the abort that ended it: a timeout is not reported as  *)
(* an abort of the caller, nor as a failure of the network.                *)
AbortIsReported ==
    outcome \in Reasons => outcome = active

(* What is sent, with what, and what is reported of it.                    *)
CallsAreTrue == SentAsAllowed /\ CredentialsStayHome /\ AbortIsReported

(* README 8: an abort ends a backoff, a request in flight, the redirect    *)
(* loop and the reading of a body; the call settles.                       *)
AbortEndsCall == active # "no" ~> at = "done"

(* README 6: cancellation is not failure.                                  *)
CancellationIsNotFailure ==
    [][at = "judging" /\ at' = "done" /\ outcome' = "network" => active = "no"]_httpvars
=============================================================================
