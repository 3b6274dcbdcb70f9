------------------------------- MODULE Scope -------------------------------
(***************************************************************************)
(* A scope of @vii-labs/core (scope.ts, scope-context.ts): it owns         *)
(* resources in a doubly linked list, disposes them from the tail when it  *)
(* is disposed, and goes on past the ones that fail.                       *)
(*                                                                         *)
(* A disposer is the program's code.  While one runs it may do what the    *)
(* program may: attach, detach, create children, dispose any scope.  calls *)
(* is the stack of dispose() calls, with the resource each is disposing.   *)
(***************************************************************************)
EXTENDS Integers, Sequences, FiniteSets, SequencesExt

CONSTANTS
    Root,     \* the scope the program starts with
    Children, \* the scopes createChild() makes
    Plain,    \* resources and cleanup functions of the program
    Null

Scopes == {Root} \cup Children
Unlink(c) == <<"unlink", c>>  \* what createChild() puts in the child
Resources == Plain \cup Children \cup {Unlink(c) : c \in Children}

(* Objects of the program are themselves and nothing else.                 *)
ASSUME ScopeAssumption ==
    /\ IsFiniteSet(Children \cup Plain) /\ Children \cap Plain = {}
    /\ Root \notin Children /\ Null \notin Resources \cup {Root}
    /\ \A s \in Scopes : Unlink(s) \notin Children \cup Plain \cup {Null}

VARIABLES
    owner,    \* the scope a resource was attached to, or Null
    tail,     \* of each scope
    prev,     \* of each resource's list node
    next,
    detached, \* resources whose node is detached
    disposed, \* scopes whose dispose() was called
    calls,    \* the dispose() calls in progress: [scope, running, failed]
    ended,    \* resources in the order their disposal began (history)
    failing,  \* resources of the program whose disposer threw (history)
    threw     \* scopes whose dispose() threw

cvars == <<owner, tail, prev, next, detached, disposed, calls, ended, failing, threw>>
list == <<tail, prev, next>>

ScopeInit ==
    /\ owner = [r \in Resources |-> Null] /\ tail = [s \in Scopes |-> Null]
    /\ prev = [r \in Resources |-> Null] /\ next = [r \in Resources |-> Null]
    /\ detached = {} /\ disposed = {} /\ calls = <<>> /\ ended = <<>>
    /\ failing = {} /\ threw = {}

(* A scope exists when it is the root, or was created.                     *)
Exists(s) == s # Root => owner[s] # Null
Active(s) == Exists(s) /\ s \notin disposed

(* Code of the program runs: none, or the innermost disposer.              *)
InProgram == calls # <<>> => Last(calls).running \in Plain

-----------------------------------------------------------------------------
(* use(): the new node becomes the tail.  t is the tail of s before.       *)
Appended(s, r, t) ==
    /\ prev' = [prev EXCEPT ![r] = t]
    /\ next' = IF t = Null THEN next ELSE [next EXCEPT ![t] = r]
    /\ tail' = [tail EXCEPT ![s] = r]

Use(s, r) ==
    /\ InProgram /\ Active(s) /\ owner[r] = Null
    /\ owner' = [owner EXCEPT ![r] = s]
    /\ Appended(s, r, tail[s])
    /\ UNCHANGED <<detached, disposed, calls, ended, failing, threw>>

(* createChild(): the child is a resource of s, and the first resource of  *)
(* the child takes it out of s again.                                      *)
CreateChild(s, c) ==
    /\ InProgram /\ Active(s) /\ owner[c] = Null
    /\ owner' = [owner EXCEPT ![c] = s, ![Unlink(c)] = c]
    /\ prev' = [prev EXCEPT ![c] = tail[s]]
    /\ next' = IF tail[s] = Null THEN next ELSE [next EXCEPT ![tail[s]] = c]
    /\ tail' = [tail EXCEPT ![s] = c, ![c] = Unlink(c)]
    /\ UNCHANGED <<detached, disposed, calls, ended, failing, threw>>

(* The handle use() returns: nothing once the scope is disposed.           *)
RemovedForward(r) ==  \* mutated: the node after keeps its way back
    /\ LET before == prev[r]  after == next[r]
       IN  /\ next' = [[x \in Resources |-> IF x = before THEN after ELSE next[x]] EXCEPT ![r] = Null]
           /\ prev' = [prev EXCEPT ![r] = Null]
           /\ tail' = IF after = Null THEN [tail EXCEPT ![owner[r]] = before] ELSE tail
    /\ detached' = detached \cup {r}
Removed(r) ==
    /\ LET before == prev[r]  after == next[r]
       IN  /\ next' = [[x \in Resources |-> IF x = before THEN after ELSE next[x]] EXCEPT ![r] = Null]
           /\ prev' = [[x \in Resources |-> IF x = after THEN before ELSE prev[x]] EXCEPT ![r] = Null]
           /\ tail' = IF after = Null THEN [tail EXCEPT ![owner[r]] = before] ELSE tail
    /\ detached' = detached \cup {r}

Detachable(r) == owner[r] # Null /\ r \notin detached /\ owner[r] \notin disposed

Detach(r) ==
    /\ InProgram /\ r \in Plain \cup Children /\ Detachable(r)
    /\ Removed(r)
    /\ UNCHANGED <<owner, disposed, calls, ended, failing, threw>>

-----------------------------------------------------------------------------
Call(s) == Append(calls, [scope |-> s, running |-> Null, failed |-> FALSE])

(* dispose() from the program, or from a disposer; again, it does nothing. *)
Dispose(s) ==
    /\ InProgram /\ Active(s)
    /\ disposed' = disposed \cup {s} /\ calls' = Call(s)
    /\ UNCHANGED <<owner, list, detached, ended, failing, threw>>

(* The loop takes the tail and disposes it.  Disposing a child that is not *)
(* disposed yet is a call of its own.                                      *)
TakeTail ==
    LET me == Last(calls)  r == tail[me.scope]  before == prev[r]
        running == Append(Front(calls), [me EXCEPT !.running = r])
    IN  /\ calls # <<>> /\ me.running = Null /\ r # Null
        /\ tail' = [tail EXCEPT ![me.scope] = before]
        /\ next' = [[x \in Resources |-> IF x = before THEN Null ELSE next[x]] EXCEPT ![r] = Null]
        /\ prev' = [prev EXCEPT ![r] = Null]
        /\ detached' = detached \cup {r} /\ ended' = Append(ended, r)
        /\ IF r \in Children /\ r \notin disposed
           THEN /\ disposed' = disposed \cup {r}
                /\ calls' = Append(running, [scope |-> r, running |-> Null, failed |-> FALSE])
           ELSE disposed' = disposed /\ calls' = IF r \in Children THEN calls ELSE running
        /\ UNCHANGED <<owner, failing, threw>>

FinishedLast(fails) ==  \* mutated: the last disposer decides
    calls' = Append(Front(calls), [Last(calls) EXCEPT !.running = Null, !.failed = fails])
Finished(fails) ==
    calls' = Append(Front(calls), [Last(calls) EXCEPT !.running = Null, !.failed = @ \/ fails])

(* A disposer of the program returns or throws.                            *)
Return(fails) ==
    /\ calls # <<>> /\ Last(calls).running \in Plain
    /\ Finished(fails)
    /\ failing' = IF fails THEN failing \cup {Last(calls).running} ELSE failing
    /\ UNCHANGED <<owner, list, detached, disposed, ended, threw>>

(* What a child put in itself: it leaves its parent, unless that is being  *)
(* disposed.  A child that was disposed before is nothing to do.           *)
ReturnUnlink ==
    LET me == Last(calls)
    IN  /\ calls # <<>> /\ me.running = Unlink(me.scope)
        /\ IF Detachable(me.scope) THEN Removed(me.scope) ELSE UNCHANGED <<list, detached>>
        /\ Finished(FALSE)
        /\ UNCHANGED <<owner, disposed, ended, failing, threw>>

ReturnChild ==
    /\ calls # <<>> /\ Last(calls).running \in Children
    /\ Finished(Last(calls).running \in threw)
    /\ UNCHANGED <<owner, list, detached, disposed, ended, failing, threw>>

EndOfDispose ==
    LET me == Last(calls)
    IN  /\ calls # <<>> /\ me.running = Null /\ tail[me.scope] = Null
        /\ calls' = Front(calls)
        /\ threw' = IF me.failed THEN threw \cup {me.scope} ELSE threw
        /\ UNCHANGED <<owner, list, detached, disposed, ended, failing>>

ScopeNext ==
    \/ \E s \in Scopes, r \in Plain : Use(s, r)
    \/ \E s \in Scopes, c \in Children : s # c /\ CreateChild(s, c)
    \/ \E r \in Resources : Detach(r)
    \/ \E s \in Scopes : Dispose(s)
    \/ TakeTail \/ ReturnUnlink \/ ReturnChild \/ EndOfDispose
    \/ \E fails \in BOOLEAN : Return(fails)

ScopeSpec == ScopeInit /\ [][ScopeNext]_cvars
-----------------------------------------------------------------------------
(* The list of a scope read backwards, and forwards.                       *)
Chain(s) ==
    LET Back[n \in 0..Cardinality(Resources)] == IF n = 0 THEN <<tail[s]>>
                           ELSE IF Last(Back[n - 1]) = Null THEN Back[n - 1]
                           ELSE Append(Back[n - 1], prev[Last(Back[n - 1])])
        back == Back[Cardinality(Resources)]
    IN  Front(back)

Attached(s) == {r \in Resources : owner[r] = s /\ r \notin detached}
Running == {calls[i].scope : i \in DOMAIN calls}

(* Whatever is detached or disposed, also by a disposer while its scope    *)
(* disposes: the list holds exactly what is attached, its links agree both *)
(* ways, a disposed scope has disposed of all it owned, and each resource  *)
(* at most once.                                                           *)
NothingIsForgotten ==
    /\ \A s \in Scopes :
        /\ ToSet(Chain(s)) = Attached(s) /\ Len(Chain(s)) = Cardinality(Attached(s))
        /\ \A i \in 1..(Len(Chain(s)) - 1) : next[Chain(s)[i + 1]] = Chain(s)[i]
        /\ s \in disposed \ Running => Attached(s) = {}
    /\ IsInjective(ended)
    /\ ToSet(ended) \subseteq detached

(* Disposing a scope disposes its children, unless they were detached, and *)
(* a child disposed on its own leaves its parent.                          *)
ChildrenFollow == \A c \in Children : owner[c] # Null =>
    /\ c \in ToSet(ended) => c \in disposed
    /\ c \in disposed \ Running => c \in detached \/ owner[c] \in Running

(* dispose() of a scope throws when one of its disposers did, though the   *)
(* ones after it succeed, and only when one or a child scope did.          *)
ErrorsAreThrown == \A s \in disposed \ Running :
    /\ (\E r \in failing : owner[r] = s) => s \in threw
    /\ s \in threw => \E r \in failing \cup (threw \cap Children) : owner[r] = s

(* Disposal is whole, reaches the children and reports what failed.        *)
ScopesAreSound == NothingIsForgotten /\ ChildrenFollow /\ ErrorsAreThrown
=============================================================================
