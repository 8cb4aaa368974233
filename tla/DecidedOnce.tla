----------------------------- MODULE DecidedOnce -----------------------------
(***************************************************************************)
(* What approvals promise to the services that ask for them, with nothing  *)
(* said of votes, expiry or invocations: a request is opened once and      *)
(* decided once, and its approval, and nothing else, gives one invocation  *)
(* the right to run what was asked for.  The right is used, or lost with   *)
(* the invocation that has it.                                             *)
(***************************************************************************)
CONSTANTS
    Asked,    \* the requests
    Acting    \* those with something to run: a review has nothing

VARIABLES
    decision,  \* the state of each request
    granted    \* the requests whose right has been neither used nor lost

contractVars == <<decision, granted>>

Init ==
    /\ decision = [q \in Asked |-> "none"]
    /\ granted = {}

Open(q) ==
    /\ decision[q] = "none"
    /\ decision' = [decision EXCEPT ![q] = "pending"]
    /\ UNCHANGED granted

Approve(q) ==
    /\ decision[q] = "pending"
    /\ decision' = [decision EXCEPT ![q] = "approved"]
    /\ granted' = granted \cup ({q} \cap Acting)

\* An expiry job or a newer change closes several requests together.
Close(S, how) ==
    /\ \A q \in S : decision[q] = "pending"
    /\ decision' = [q \in Asked |-> IF q \in S THEN how ELSE decision[q]]
    /\ UNCHANGED granted

UseOrLose(q) ==
    /\ q \in granted
    /\ granted' = granted \ {q}
    /\ UNCHANGED decision

Next ==
    \/ \E q \in Asked : Open(q) \/ Approve(q) \/ UseOrLose(q)
    \/ \E S \in SUBSET Asked, how \in {"rejected", "expired", "superseded"} : Close(S, how)

Spec == Init /\ [][Next]_contractVars
=============================================================================
