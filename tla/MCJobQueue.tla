------------------------------ MODULE MCJobQueue ------------------------------
(* Instances of JobQueue. *)
EXTENDS JobQueue, TLC

Attempts2 == [j \in Jobs |-> 2]
\* one row has two attempts, the other one
TwoAndOne == [j \in Jobs |-> IF j = CHOOSE i \in Jobs : TRUE THEN 2 ELSE 1]
EveryUnit == [s \in Schedules |-> 1]
Keep == [succeeded |-> 0, dead |-> 1]
PruneAtOnce == [succeeded |-> 0, dead |-> 0]

\* every row carries the one key
AllKeyed == [j \in Jobs |-> CHOOSE k \in Keys : TRUE]
Unkeyed == [j \in {} |-> CHOOSE k \in Keys : TRUE]

Everywhere == PCs
MidRun == {"run"}

RunnerSymmetry == Permutations(Runners) \cup Permutations(Enqueuers)

(***************************************************************************)
(* A runner that is left over: it is started only before the first job has *)
(* run, and then lives as long beside the other as its lifetime allows, so *)
(* that its claim is lost under it and its writes come late.  The driver's *)
(* ticks are the other runner's.                                           *)
(***************************************************************************)
Leftover == CHOOSE r \in Runners : TRUE
NothingRan == \A j \in Jobs : runs[j] = 0
NotRestarted == rn[Leftover].pc = "idle" => rn'[Leftover].pc = "idle"

LeftoverSpec ==
    /\ Init
    /\ [][Next /\ (NothingRan \/ NotRestarted)]_vars
    /\ Fairness(Runners \ {Leftover})
=============================================================================
