----------------------------- MODULE MCResearch -----------------------------
(* Finite instances of HttpClient, Flow, Installer and Manifest for TLC.   *)
(* The four are checked side by side: a behaviour is one of them, the      *)
(* others rest in an initial state of theirs.                              *)
EXTENDS HttpClient, Flow, Installer, Manifest

CONSTANTS here, there, r1, r2, old

VARIABLE part

Call == [method |-> "GET", body |-> "none", security |-> FALSE, redirect |-> "follow",
         retry |-> TRUE, condition |-> FALSE, user |-> TRUE, timeout |-> FALSE,
         scope |-> "none", throws |-> TRUE, reads |-> "response"]

(* Every way to give signals, to send a body and to meet redirects.        *)
Signalled == {[Call EXCEPT !.timeout = t, !.scope = s, !.user = u, !.reads = r] :
                t \in BOOLEAN, s \in {"none", "signal", "callback"}, u \in BOOLEAN,
                r \in {"response", "json"}}
Bodied == {[Call EXCEPT !.method = m, !.body = b, !.retry = r, !.security = s, !.redirect = d, !.throws = FALSE] :
             m \in {"GET", "POST"}, b \in {"none", "text", "stream"}, r \in BOOLEAN,
             s \in BOOLEAN, d \in {"follow", "manual", "error"}}
Conditional == {[Call EXCEPT !.condition = TRUE, !.scope = "callback", !.throws = t] : t \in BOOLEAN}
Streamed == {[Call EXCEPT !.retry = FALSE, !.reads = "events", !.user = u] : u \in BOOLEAN}
AllConfigs == Signalled \cup Bodied \cup Conditional \cup Streamed

(* Two events with carriage returns, the second with its end missing; an   *)
(* event without data between comments.                                    *)
Bodies == {<<"data", "x", "cr", "lf", "data", "cr", "lf", "cr", "lf", "event", "lf", "data", "lf">>,
           <<":", "lf", "lf", "id", "lf", "lf", "data", "x">>}

(* options.allowedRoots: one folder of the project.                        *)
Allowed == {<<"dir">>}

ResearchInit ==
    /\ part \in {"http", "flow", "installer", "manifest"}
    /\ HttpInit /\ (part # "http" => config = Call /\ text = CHOOSE t \in Texts : TRUE)
    /\ FlowInit /\ (part # "flow" => kind = "direct" /\ dropped = 0 /\ poison = 0)
    /\ InstallerInit
    /\ part # "installer" =>
         /\ command = "ui add" /\ disk = [f \in Targets |-> "missing"]
         /\ lockText = "absent" /\ recorded = {}
    /\ ManifestInit
HttpPart == part = "http" /\ HttpNext /\ UNCHANGED <<wvars, installerVars, manifestVars>>
FlowPart == part = "flow" /\ FlowNext /\ UNCHANGED <<httpvars, installerVars, manifestVars>>
InstallerPart == part = "installer" /\ InstallerNext /\ UNCHANGED <<httpvars, wvars, manifestVars>>
ManifestPart == part = "manifest" /\ ManifestNext /\ UNCHANGED <<httpvars, wvars, installerVars>>
ResearchNext == UNCHANGED part /\ (HttpPart \/ FlowPart \/ InstallerPart \/ ManifestPart)

ResearchSpec ==
    /\ ResearchInit
    /\ [][ResearchNext]_<<httpvars, wvars, installerVars, manifestVars, part>>
    /\ HttpFairness
=============================================================================
