------------------------------- MODULE Rollout -------------------------------
(***************************************************************************)
(* What a gated pipeline promises, with nothing said of rows, tokens,      *)
(* cursors or request handlers: items are passed in order, a gate by       *)
(* enough distinct and independent approvals given once the pipeline got   *)
(* there, a step by succeeding; a step starts only when everything before  *)
(* it has been passed, and a credential is issued only for such a step,    *)
(* once the gate it names has been passed.                                 *)
(***************************************************************************)
EXTENDS GateRules

CONSTANTS N, GateReq, PreventSelf, CredentialGate, Triggerer

VARIABLES
    approved,    \* <<gate, user>>: the approvals given
    started,     \* the steps handed to an executor
    succeeded,   \* the steps an executor reported successful
    issued       \* the steps a credential was issued for

rolloutVars == <<approved, started, succeeded, issued>>

Gates == DOMAIN GateReq
Steps == (0..(N - 1)) \ Gates

Passed(i) ==
    IF i \in Gates
    THEN Filled(GateReq[i], {u \in Users : <<i, u>> \in approved})
    ELSE i \in succeeded

Reached(i) == \A j \in 0..(i - 1) : Passed(j)

Init ==
    /\ approved = {}
    /\ started = {}
    /\ succeeded = {}
    /\ issued = {}

Approve(g, u) ==
    /\ Reached(g)
    /\ CheckVote(GateReq[g], g \in PreventSelf, {Triggerer}, u)
    /\ approved' = approved \cup {<<g, u>>}
    /\ UNCHANGED <<started, succeeded, issued>>

Start(s) ==
    /\ Reached(s)
    /\ started' = started \cup {s}
    /\ UNCHANGED <<approved, succeeded, issued>>

Succeed(s) ==
    /\ s \in started
    /\ succeeded' = succeeded \cup {s}
    /\ UNCHANGED <<approved, started, issued>>

Issue(s) ==
    /\ Reached(s)
    /\ s \in DOMAIN CredentialGate
    /\ Passed(CredentialGate[s])
    /\ issued' = issued \cup {s}
    /\ UNCHANGED <<approved, started, succeeded>>

Next ==
    \/ \E g \in Gates, u \in Users : Approve(g, u)
    \/ \E s \in Steps : Start(s) \/ Succeed(s) \/ Issue(s)

Spec == Init /\ [][Next]_rolloutVars
=============================================================================
