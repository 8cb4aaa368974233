------------------------------ MODULE GateRules ------------------------------
(***************************************************************************)
(* The voting rules shared by run gates and approval requests:             *)
(* governance/vote-policy.ts (who may vote, which roles a vote counts      *)
(* under) and what governance/evaluate-gate.ts promises about the outcome. *)
(*                                                                         *)
(* A requirement list is a function from roles to the number of distinct   *)
(* principals the gate needs in that role; a role the gate does not name   *)
(* has count 0.  The matching algorithm the code runs is in module         *)
(* EvaluateGate, checked there against Outcome below.                      *)
(***************************************************************************)
EXTENDS Naturals, Functions

CONSTANTS
    Users,      \* the members of the workspace
    Roles,      \* the names of its roles
    RolesOf     \* the roles each member holds

ASSUME RolesAssumption == RolesOf \in [Users -> SUBSET Roles]

Requirement == [Roles -> Nat]

RequiredRoles(req) == {r \in Roles : req[r] > 0}

\* The role-slots of a requirement: `count` of them for each role.
RoleSlots(req) == UNION {{r} \X (1..req[r]) : r \in Roles}

(***************************************************************************)
(* checkVote: with prevent_self the proposers may not vote, and a voter    *)
(* holds at least one required role.  A missing reason, when the gate asks *)
(* for one, refuses the vote without a trace and is left out.              *)
(***************************************************************************)
CheckVote(req, preventSelf, proposers, u) ==
    /\ ~(preventSelf /\ u \in proposers)
    /\ RolesOf[u] \cap RequiredRoles(req) # {}

(***************************************************************************)
(* Every slot is filled by a principal of its own who holds its role.      *)
(***************************************************************************)
Filled(req, approvers) ==
    \E f \in [RoleSlots(req) -> approvers] :
        /\ \A s \in RoleSlots(req) : s[1] \in RolesOf[f[s]]
        /\ IsInjective(f)

\* Mutant: each role is counted on its own, one person filling two slots.
CountPerRole(req, approvers, rejecters) ==
    IF rejecters # {} THEN "rejected"
    ELSE IF \A r \in Roles :
              \E f \in [1..req[r] -> approvers] :
                  IsInjective(f) /\ \A k \in 1..req[r] : r \in RolesOf[f[k]]
    THEN "resumed" ELSE "pending"

\* evaluateGate: any reject wins, then N-of-M over distinct principals.
Outcome(req, approvers, rejecters) ==
    IF rejecters # {} THEN "rejected"
    ELSE IF Filled(req, approvers) THEN "resumed"
    ELSE "pending"
=============================================================================
