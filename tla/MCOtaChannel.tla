----------------------------- MODULE MCOtaChannel -----------------------------
(* Releases a, b, c; b can go back to a, c to a and to b.                      *)
EXTENDS OtaChannel

MCTimeOf == [u \in Updates |-> CASE u = "a" -> 1 [] u = "b" -> 2 [] u = "b:a" -> 3
                                 [] u = "c" -> 5 [] u = "c:b" -> 6 [] u = "c:a" -> 7]
MCSupersedes == [r \in Republishes |-> IF r = "b:a" THEN "b" ELSE "c"]
MCContentOf == [r \in Republishes |-> IF r = "c:b" THEN "b" ELSE "a"]
MCDirectivesOf == [u \in Releases |-> CASE u = "a" -> {} [] u = "b" -> {4} [] u = "c" -> {8}]

At1(u) == [NoHead EXCEPT !.active = u]
RollingOver == [NoHead EXCEPT !.active = "b", !.previous = "a", !.candidate = "c", !.bp = 2]
Rolling == [NoHead EXCEPT !.active = "a", !.candidate = "b", !.bp = 1]
AllReady == [u \in Releases |-> "ready"]
Uploading == [AllReady EXCEPT !["b"] = "uploading", !["c"] = "verifying"]

Load(s, h, pol, n, kinds, ps, f, asks) ==
    [status |-> s, head |-> h, policy |-> pol,
     left |-> [changes |-> n, kinds |-> kinds, policies |-> ps, faults |-> f, asks |-> asks]]
MCWorkloads == {
    Load(AllReady, NoHead, {"open"}, 3, {"promote", "rollback", "embedded"}, 0, 0, FALSE),
    Load(AllReady, Rolling, {"open"}, 3, Forward \cup Stops, 0, 0, FALSE),
    Load(AllReady, Rolling, {"strict"}, 2, Forward \cup Stops, 0, 1, FALSE),
    Load(AllReady, At1("b"), {"open", "strict"}, 1, {"promote"}, 2, 0, FALSE),
    Load(AllReady, Rolling, {"open"}, 2, {"promote", "complete", "rollback"}, 0, 0, TRUE),
    Load(AllReady, RollingOver, {"open"}, 2, Forward \cup Stops, 0, 0, TRUE),
    Load(AllReady, At1("b"), {"strict"}, 1, {"promote"}, 1, 1, FALSE),
    Load(Uploading, NoHead, {"open"}, 1, {"promote"}, 0, 0, FALSE)}
=============================================================================
