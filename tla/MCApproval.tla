------------------------------ MODULE MCApproval ------------------------------
(***************************************************************************)
(* An instance of Approval.  "old" and "new" change the same subject and   *)
(* "look" reviews a change of it.  "old" needs two people, a release       *)
(* manager and somebody from QA; ann holds both roles and must not fill    *)
(* both slots; tom proposes and is barred by prevent_self.  "new" needs    *)
(* one person, from QA, and "look" one from security.                      *)
(***************************************************************************)
EXTENDS Approval, TLC

MCUsers == {"ann", "bob", "tom"}
MCRoles == {"release", "qa", "sec"}
MCRolesOf == [u \in MCUsers |->
                 CASE u = "ann" -> {"release", "qa"}
                   [] u = "bob" -> {"qa"}
                   [] u = "tom" -> {"release", "sec"}]

MCKindOf == [q \in Requests |-> IF q = "look" THEN "review" ELSE "pre_approval"]
MCSubjectOf == [q \in Requests |-> "app"]
MCProposers == [q \in Requests |-> {"tom"}]
MCRequired == [q \in Requests |-> [r \in MCRoles |->
                 CASE q = "old" -> IF r = "sec" THEN 0 ELSE 1
                   [] q = "new" -> IF r = "qa" THEN 1 ELSE 0
                   [] q = "look" -> IF r = "sec" THEN 1 ELSE 0]]

WorkerSymmetry == Permutations(Workers)
=============================================================================
