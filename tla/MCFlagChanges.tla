----------------------------- MODULE MCFlagChanges -----------------------------
(* Two changes from the console, two pushes of the flag file, a kill and a new  *)
(* flag, beside three changes of the gate.                                      *)
EXTENDS FlagChanges

MCKindOf == [c \in Changesets |-> CASE c \in {"u1", "u2"} -> "ui" [] c \in {"p1", "p2"} -> "repo"
                                    [] c = "k" -> "kill" [] c = "n" -> "create"]

Load(what, f) == [coming |-> what, faults |-> f]
MCWorkloads == {Load({"u1", "u2"}, 1), Load({"u1", "u2", "k"}, 0), Load({"p1", "p2"}, 1), Load({"k"}, 1),
                Load({"u1", "n"}, 0), Load({"q1", "q2"}, 0), Load({"u1", "q1"}, 1)}
=============================================================================
