---------------------------- MODULE ExclusiveJobs ----------------------------
(***************************************************************************)
(* What the job queue promises to the services whose work it runs, where   *)
(* its locks outlast every invocation, with nothing said of rows, attempts *)
(* or time: a piece of work has at most one job standing, a job is started *)
(* only from the queue and ends only by the run that was started, and it   *)
(* is taken away from a run only when that has died.                       *)
(***************************************************************************)
CONSTANT Work

VARIABLES
    standing,  \* whether a piece of work has a live job, and which
    busy       \* the work that a live invocation is doing

contractVars == <<standing, busy>>

Init ==
    /\ standing \in [Work -> {"absent", "queued"}]
    /\ busy = {}

\* A tick enqueues the jobs of several schedules together.
Enqueue(S) ==
    /\ \A x \in S : standing[x] = "absent"
    /\ standing' = [x \in Work |-> IF x \in S THEN "queued" ELSE standing[x]]
    /\ UNCHANGED busy

Start(x) ==
    /\ standing[x] = "queued"
    /\ x \notin busy
    /\ standing' = [standing EXCEPT ![x] = "running"]
    /\ busy' = busy \cup {x}

\* Done or given up; or queued again, to be retried or because it asked for later.
End(x, left) ==
    /\ x \in busy
    /\ standing[x] = "running"
    /\ standing' = [standing EXCEPT ![x] = left]
    /\ busy' = busy \ {x}

Die(x) ==
    /\ x \in busy
    /\ busy' = busy \ {x}
    /\ UNCHANGED standing

\* The jobs of dead runs are recovered together, each queued again or given up.
Reclaim(S, T) ==
    /\ \A x \in S : standing[x] = "running" /\ x \notin busy
    /\ standing' = [x \in Work |-> IF x \notin S THEN standing[x]
                                   ELSE IF x \in T THEN "queued" ELSE "absent"]
    /\ UNCHANGED busy

Next ==
    \/ \E S \in SUBSET Work : Enqueue(S) \/ \E T \in SUBSET S : Reclaim(S, T)
    \/ \E x \in Work : Start(x) \/ Die(x) \/ End(x, "absent") \/ End(x, "queued")

Spec == Init /\ [][Next]_contractVars
=============================================================================
