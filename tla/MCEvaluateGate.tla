---------------------------- MODULE MCEvaluateGate ----------------------------
(* Roles that overlap, so that filling a slot may need somebody moved. *)
EXTENDS EvaluateGate

MCRolesOf == [u \in Users |->
                 CASE u = "ann" -> {"dev", "qa"}
                   [] u = "bob" -> {"qa", "sec"}
                   [] u = "cal" -> {"dev"}
                   [] u = "dan" -> {"qa"}]
=============================================================================
