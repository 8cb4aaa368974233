------------------------------ MODULE MCGatedRun ------------------------------
(***************************************************************************)
(* Instances of GatedRun.  The gate needs two people: a release manager    *)
(* and somebody from QA; ann holds both roles, which must not let her fill *)
(* both slots, and tom, who triggered the run, is barred by prevent_self.  *)
(***************************************************************************)
EXTENDS GatedRun, TLC

MCUsers == {"ann", "bob", "tom"}
MCRoles == {"release", "qa"}
MCRolesOf == [u \in MCUsers |->
                 CASE u = "ann" -> {"release", "qa"}
                   [] u = "bob" -> {"qa"}
                   [] u = "tom" -> {"release"}]
TwoPeople == [r \in MCRoles |-> 1]

\* gate 0, step 1, step 2 with a credential behind gate 0
GateFirst == 0 :> TwoPeople
CredentialLast == 2 :> 0

\* one vote is enough
OnePerson == 0 :> [r \in MCRoles |-> IF r = "qa" THEN 1 ELSE 0]

\* steps only
NoGates == [g \in {} |-> TwoPeople]
NoCredential == [s \in {} |-> 0]

\* gate 0, step 1, step 2 (credential), gate 3, step 4 (no adapter)
LongGates == 0 :> TwoPeople @@ 3 :> [r \in MCRoles |-> IF r = "qa" THEN 1 ELSE 0]
LongCredential == 2 :> 0

HandlerSymmetry == Permutations(Handlers)
=============================================================================
