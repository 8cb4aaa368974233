-------------------------------- MODULE MCRelay --------------------------------
(* Webhook deliveries for two channels, a second one that takes the workspace  *)
(* to its limits, and a run.succeeded that the release registry and the        *)
(* fan-out both subscribe to.                                                  *)
EXTENDS Relay

MCSubscribersOf == [e \in Events |-> IF e \in Facts THEN <<"release", "fanout">> ELSE <<"fanout">>]
MCMatching == [e \in Events |-> CASE e = "r1" -> {"ops", "dev"} [] e = "run" -> {"ops"} [] OTHER -> {}]

\* Each event of once comes once, each of twice twice.
Load(once, twice, f) ==
    [coming |-> [e \in Events |-> CASE e \in once -> 1 [] e \in twice -> 2 [] OTHER -> 0],
     faults |-> f]
MCWorkloads == {Load({}, {"r1"}, 3), Load({"r1", "r2"}, {}, 1), Load({"r2", "ping"}, {}, 1),
                Load({"r1", "r2", "ping"}, {}, 0), Load({"run"}, {}, 2), Load({"r2", "run"}, {}, 1)}
=============================================================================
