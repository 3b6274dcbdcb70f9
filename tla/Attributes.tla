------------------------------ MODULE Attributes ------------------------------
(***************************************************************************)
(* The aria-invalid and aria-describedby attributes the vanilla bindings   *)
(* give a control and take back (a11y.ts).  Several holders (bindings of a *)
(* field to a control) may share a control; each is told of the issues of  *)
(* its field on its own, later when a batch is open.                       *)
(***************************************************************************)
EXTENDS Naturals, FiniteSets

CONSTANTS Judged,   \* fields
          Spots,    \* controls
          Holders   \* bindings made in a behaviour

VARIABLES faulty, \* field -> it has issues, server issues or a failed parse
          own,    \* [aria, tokens]: what the application gave every control
          aria,   \* control -> its aria-invalid, or "absent"
          tokens, \* control -> its aria-describedby, a set of ids
          holder, \* see NoHolder
          stale   \* holders to be told that the issues of their field changed

attributeVars == <<faulty, own, aria, tokens, holder, stale>>

NoHolder == [life |-> "none"]
Holds(h) == holder[h].life = "live"

AttributesInit ==
  /\ faulty \in [Judged -> BOOLEAN]
  /\ own \in [aria : {"absent", "false"}, tokens : {{"hint"}, {"hint", "issue"}}]
  /\ aria = [e \in Spots |-> own.aria]
  /\ tokens = [e \in Spots |-> own.tokens]
  /\ holder = [h \in Holders |-> NoHolder]
  /\ stale = {}

Participants(hs, e) == {h \in Holders : hs[h].life = "live" /\ hs[h].el = e /\ hs[h].aria}

\* syncEffectiveState: "true" if any participant says so, else what the application had
\* (restoreBaseline, also when the last participant goes).
Projected(hs) ==
  [e \in Spots |-> IF \E h \in Participants(hs, e) : hs[h].says THEN "true" ELSE own.aria]

\* isFieldInvalid, read when the holder is made and when it is told.
Says(f) == faulty[f]

\* setupAriaInvalid and setupAriaDescribedBy, then the first updateAriaAndIssues.  The token
\* of the issue element is added unless the attribute has it.
Hold ==
  \E h \in Holders, f \in Judged, e \in Spots, withAria, withIssue \in BOOLEAN :
    /\ holder[h].life = "none"
    /\ LET adds == withIssue /\ "issue" \notin tokens[e] IN
       /\ holder' = [holder EXCEPT ![h] = [life |-> "live", field |-> f, el |-> e,
                                           aria |-> withAria, says |-> Says(f), adds |-> adds]]
       /\ tokens' = IF adds THEN [tokens EXCEPT ![e] = @ \cup {"issue"}] ELSE tokens
    /\ aria' = Projected(holder')
    /\ UNCHANGED <<faulty, own, stale>>

ReleaseAlone(h) ==  \* a mutant
  /\ Holds(h)
  /\ holder' = [holder EXCEPT ![h] = [life |-> "gone"]]
  /\ aria' = [aria EXCEPT ![holder[h].el] = own.aria]
  /\ tokens' = IF holder[h].adds THEN [tokens EXCEPT ![holder[h].el] = @ \ {"issue"}] ELSE tokens
  /\ stale' = stale \ {h}
  /\ UNCHANGED <<faulty, own>>

\* dispose(): the part it has in aria-invalid, and the token if it was the one to add it.
Release(h) ==
  /\ Holds(h)
  /\ holder' = [holder EXCEPT ![h] = [life |-> "gone"]]
  /\ aria' = Projected(holder')
  /\ tokens' = IF holder[h].adds THEN [tokens EXCEPT ![holder[h].el] = @ \ {"issue"}] ELSE tokens
  /\ stale' = stale \ {h}
  /\ UNCHANGED <<faulty, own>>

\* The issues of a field come or go; its holders are told one by one.
Judge(f) ==
  /\ faulty' = [faulty EXCEPT ![f] = ~@]
  /\ stale' = stale \cup {h \in Holders : Holds(h) /\ holder[h].field = f}
  /\ UNCHANGED <<own, aria, tokens, holder>>

\* updateAriaAndIssues reads the field as it is when the notification comes.
UpdateAria(h) ==
  /\ h \in stale
  /\ stale' = stale \ {h}
  /\ holder' = [holder EXCEPT ![h].says = Says(holder[h].field)]
  /\ aria' = Projected(holder')
  /\ UNCHANGED <<faulty, own, tokens>>

AttributesNext ==
  \/ Hold
  \/ \E h \in Holders : Release(h) \/ UpdateAria(h)
  \/ \E f \in Judged : Judge(f)

AttributesSpec == AttributesInit /\ [][AttributesNext]_attributeVars

-------------------------------------------------------------------------------
\* When every notification is delivered, a control says aria-invalid exactly when a live
\* binding that takes part has a faulty field, and else says what the application said; a
\* control with no live binding has back all the application gave it.  That is whatever
\* order the bindings that share it were made, told and disposed in (a11y.ts:49-59, 124-127).
AttributesFollowFields ==
  stale = {} =>
    \A e \in Spots :
      LET here == {h \in Holders : Holds(h) /\ holder[h].el = e} IN
      /\ aria[e] = IF \E h \in here : holder[h].aria /\ faulty[holder[h].field] THEN "true"
                   ELSE own.aria
      /\ here = {} => tokens[e] = own.tokens
===============================================================================
