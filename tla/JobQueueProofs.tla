---------------------------- MODULE JobQueueProofs ----------------------------
(***************************************************************************)
(* Proofs about JobQueue.  The inductive invariant Inv is taken apart into *)
(* what concerns one runner, what concerns one row, and the keys; each     *)
(* action changes at most a runner and some rows, and each kind of change  *)
(* has a lemma of its own.                                                 *)
(***************************************************************************)
EXTENDS JobQueue, TLAPS

\* What Inv says of one runner.
RunnerOK(r) ==
    /\ rn[r].pc \in {"kick", "run"} => rn[r].job \in Jobs /\ rn[r].left > 0
    /\ rn[r].age <= FunctionMax
    /\ Running(r) /\ Holds(r) =>
          /\ rn[r].attempts = job[rn[r].job].attempts
          /\ rn[r].deferrals = job[rn[r].job].deferrals
    /\ Visibility > FunctionMax /\ Running(r) =>
          Holds(r) /\ job[rn[r].job].lock + rn[r].age >= Visibility

\* What Inv says of a row with n counted runs.
RowOK(j, row, n) ==
    /\ row.status = "absent" => n = 0
    /\ row.status = "queued" =>
          /\ row.attempts < MaxAttempts[j]
          /\ n <= row.attempts * (Cap + 1) + Refunded(row.deferrals)
    /\ row.status = "running" =>
          /\ row.attempts \in 1..MaxAttempts[j]
          /\ row.lockedBy \in Runners
          /\ n >= 1
          /\ n <= (row.attempts - 1) * (Cap + 1) + Refunded(row.deferrals) + 1
    /\ row.status = "dead" => row.attempts >= MaxAttempts[j] \/ j \in BadPayload
    /\ n <= MaxAttempts[j] * (Cap + 1)

\* The invariant, runner by runner and row by row.
LEMMA InvParts ==
    Inv <=> /\ TypeOK
            /\ \A r \in Runners : RunnerOK(r)
            /\ \A j \in Jobs : RowOK(j, job[j], runs[j])
            /\ OneLivePerKey
  BY Zenon DEF Inv, RunnerOK, RowOK, RunnersSane, SnapshotCurrent, RowsSane,
               LocksCover, RunsPaid, DeadIsExhausted

\* The same of the next state, for what a step must establish.
LEMMA InvPartsNext ==
    ASSUME TypeOK', \A r \in Runners : RunnerOK(r)',
           \A j \in Jobs : RowOK(j, job'[j], runs'[j]), OneLivePerKey'
    PROVE  Inv'
  BY Zenon DEF Inv, RunnerOK, RowOK, RunnersSane, SnapshotCurrent, RowsSane,
               LocksCover, RunsPaid, DeadIsExhausted

\* Arithmetic of the retry budget.
LEMMA OneMore ==
    ASSUME NEW a \in Nat, NEW k \in Nat
    PROVE  (a + 1) * k = a * k + k
  BY SMT

\* Multiplication is monotone.
LEMMA Grow ==
    ASSUME NEW a \in Nat, NEW b \in Nat, NEW k \in Nat, a <= b
    PROVE  a * k <= b * k
  BY SMT

\* The refunds a count of deferrals has brought are bounded and counted one by one.
LEMMA RefundedType ==
    ASSUME NEW d \in Nat
    PROVE  Refunded(d) \in Nat /\ Refunded(d) <= Cap /\ (d < Cap => Refunded(d + 1) = Refunded(d) + 1)
  BY BoundAssumption DEF Refunded

\* A retry delay is an integer.
LEMMA DelayType ==
    ASSUME NEW a, NEW w \in RetryDelays(a)
    PROVE  w \in Int
  BY DEF RetryDelays

\* No write to rows makes a row of a key live that was not.
LEMMA KeysKept ==
    ASSUME OneLivePerKey, \A j \in DOMAIN KeyOf : Live(j)' => Live(j)
    PROVE  OneLivePerKey'
  BY DEF OneLivePerKey, Holders

-----------------------------------------------------------------------------
(* Kinds of steps.                                                         *)

\* An idle runner is well formed.
LEMMA IdleType == Idle \in RunnerState /\ Idle.age <= FunctionMax /\ Idle.pc = "idle"
  BY BoundAssumption DEF Idle, RunnerState, PCs

\* The constant rows are well formed.
LEMMA RowTypes == Absent \in Row /\ Inserted \in Row /\ Deleted \in Row
  BY DEF Absent, Inserted, Deleted, Row, LiveStatuses, FinishedStatuses

\* A runner that keeps its state or moves on without starting a handler.
Tame(q) ==
    \/ rn'[q] = rn[q]
    \/ /\ rn'[q].pc # "run" /\ rn'[q].age <= FunctionMax
       /\ rn'[q].pc = "kick" => rn'[q].job \in Jobs /\ rn'[q].left > 0

\* A step that starts no handler and takes rows only from claims that expired.
LEMMA RunnersKept ==
    ASSUME Inv, \A q \in Runners : Tame(q),
           \A j \in Jobs :
              \/ job'[j] = job[j]
              \/ /\ job'[j].status # "running"
                 /\ job[j].status = "running" => job[j].lock < 0
    PROVE  \A q \in Runners : RunnerOK(q)'
<1> SUFFICES ASSUME NEW q \in Runners PROVE RunnerOK(q)'
  OBVIOUS
<1>1. RunnerOK(q) /\ TypeOK
  BY InvParts
<1>2. CASE rn'[q] # rn[q] \/ ~Running(q)
  BY <1>1, <1>2 DEF RunnerOK, Running, Tame
<1>3. CASE rn'[q] = rn[q] /\ Running(q)
  <2>1. rn[q].job \in Jobs /\ rn[q].age \in Nat /\ job[rn[q].job].lock \in Int
    BY <1>1, <1>3 DEF RunnerOK, Running, TypeOK, RunnerState, Row
  <2>2. Visibility > FunctionMax => job'[rn[q].job] = job[rn[q].job]
    BY <1>1, <1>3, <2>1, BoundAssumption DEF RunnerOK, Holds
  <2>3. Holds(q)' => job'[rn[q].job] = job[rn[q].job] /\ Holds(q)
    BY <1>3, <2>1 DEF Holds
  <2>4. job'[rn[q].job] = job[rn[q].job] /\ Holds(q) => Holds(q)'
    BY <1>3 DEF Holds
  <2> QED
    BY <1>1, <1>3, <2>1, <2>2, <2>3, <2>4 DEF RunnerOK, Running
<1> QED
  BY <1>2, <1>3

\* A step that leaves the rows alone.
LEMMA Quiet ==
    ASSUME Inv, TypeOK', UNCHANGED <<job, runs>>, \A q \in Runners : Tame(q)
    PROVE  Inv'
<1>1. \A q \in Runners : RunnerOK(q)'
  BY RunnersKept
<1>2. \A j \in Jobs : RowOK(j, job'[j], runs'[j])
  BY InvParts
<1>3. OneLivePerKey'
  BY KeysKept, InvParts DEF Live
<1> QED
  BY <1>1, <1>2, <1>3, InvPartsNext

\* New rows.
LEMMA NewRows ==
    ASSUME Inv, TypeOK', runs' = runs, \A q \in Runners : Tame(q), OneLivePerKey',
           NEW new \in SUBSET Jobs, \A j \in new : job[j].status = "absent",
           \A j \in new : /\ job'[j].status = "queued" /\ job'[j].attempts = 0
                          /\ job'[j].deferrals = 0,
           \A j \in Jobs \ new : job'[j] = job[j]
    PROVE  Inv'
<1>1. \A q \in Runners : RunnerOK(q)'
  BY RunnersKept
<1>2. ASSUME NEW j \in new PROVE RowOK(j, job'[j], runs'[j])
  <2>1. RowOK(j, job[j], runs[j]) /\ j \in Jobs /\ MaxAttempts[j] \in Nat \ {0}
    BY InvParts, QueueAssumption
  <2>2. runs'[j] = 0
    BY <1>2, <2>1 DEF RowOK
  <2>3. 0 * (Cap + 1) = 0 /\ MaxAttempts[j] * (Cap + 1) >= 0 /\ Refunded(0) >= 0
    BY <2>1, RefundedType, BoundAssumption
  <2> QED
    BY <1>2, <2>1, <2>2, <2>3, RefundedType DEF RowOK
<1>3. \A j \in Jobs : RowOK(j, job'[j], runs'[j])
  BY <1>2, InvParts
<1> QED
  BY <1>1, <1>3, InvPartsNext

\* Where a runner goes after a run.
LEMMA AfterRun ==
    ASSUME TypeOK, NEW r \in Runners, Running(r), RunnerOK(r), NextJob(r)
    PROVE  /\ rn' \in [Runners -> RunnerState]
           /\ \A q \in Runners \ {r} : rn'[q] = rn[q]
           /\ rn'[r].pc \notin {"kick", "run"} /\ rn'[r].age <= FunctionMax
<1>1. rn[r] \in RunnerState /\ rn[r].job \in Jobs
  BY DEF TypeOK, RunnerOK, Running
<1> DEFINE x == [rn[r] EXCEPT !.pc = "drain", !.left = @ - 1, !.job = None,
                              !.done = @ \cup {rn[r].job},
                              !.attempts = 0, !.deferrals = 0]
<1>2. ASSUME rn[r].left > 1
      PROVE  x \in RunnerState /\ x.pc = "drain" /\ x.age = rn[r].age
  <2>1. rn[r].done \cup {rn[r].job} \in SUBSET Jobs
    BY <1>1, Zenon DEF RunnerState
  <2>2. rn[r].left - 1 \in Nat
    BY <1>1, <1>2 DEF RunnerState
  <2> QED
    <3> DEFINE n == rn[r].left - 1
               d == rn[r].done \cup {rn[r].job}
    <3>1. n \in Nat /\ d \in SUBSET Jobs
      BY <2>1, <2>2
    <3>2. x = [rn[r] EXCEPT !.pc = "drain", !.left = n, !.job = None, !.done = d,
                            !.attempts = 0, !.deferrals = 0]
      OBVIOUS
    <3> HIDE DEF n, d, x
    <3> QED
      BY <1>1, <3>1, <3>2 DEF RunnerState, PCs
<1>3. rn' = [rn EXCEPT ![r] = IF rn[r].left > 1 THEN x ELSE Idle]
  BY DEF NextJob, Become
<1> QED
  BY <1>1, <1>2, <1>3, IdleType DEF TypeOK, RunnerOK

\* The write that ends a run.
LEMMA Written ==
    ASSUME Inv, NEW r \in Runners, Running(r),
           NEW row \in Row, WriteClaimed(r, row), NextJob(r),
           runs' \in [Jobs -> Nat], UNCHANGED <<sched, enq>>,
           \A j \in Jobs : j # rn[r].job \/ ~Holds(r) => runs'[j] = runs[j],
           row.status # "running",
           Holds(r) => RowOK(rn[r].job, row, runs'[rn[r].job])
    PROVE  Inv'
<1> DEFINE k == rn[r].job
<1>1. TypeOK /\ RunnerOK(r) /\ OneLivePerKey
  BY InvParts
<1>2. k \in Jobs
  BY <1>1 DEF RunnerOK, Running
<1>3. job' \in [Jobs -> Row] /\ \A j \in Jobs : job'[j] = IF j = k /\ Holds(r) THEN row ELSE job[j]
  BY <1>1, <1>2 DEF WriteClaimed, TypeOK
<1>4. TypeOK'
  BY <1>1, <1>3, AfterRun DEF TypeOK
<1>5. ASSUME NEW q \in Runners PROVE RunnerOK(q)'
  <2>1. CASE q = r
    BY <2>1, <1>1, AfterRun DEF RunnerOK, Running
  <2>2. CASE q # r /\ ~Running(q)
    BY <2>2, <1>1, AfterRun, InvParts DEF RunnerOK, Running
  <2>3. CASE q # r /\ Running(q)
    <3>1. rn'[q] = rn[q] /\ RunnerOK(q) /\ rn[q].job \in Jobs
      BY <2>3, <1>1, AfterRun, InvParts DEF RunnerOK, Running
    <3>2. Holds(q) => job'[rn[q].job] = job[rn[q].job]
      BY <3>1, <2>3, <1>2, <1>3 DEF Holds
    <3>3. Holds(q)' => Holds(q)
      BY <3>1, <1>3, <1>2 DEF Holds
    <3>4. Holds(q) => Holds(q)'
      BY <3>1, <3>2 DEF Holds
    <3> QED
      BY <3>1, <3>2, <3>3, <3>4 DEF RunnerOK, Running
  <2> QED
    BY <2>1, <2>2, <2>3
<1>6. ASSUME NEW j \in Jobs PROVE RowOK(j, job'[j], runs'[j])
  BY <1>2, <1>3, InvParts
<1>7. OneLivePerKey'
  <2>1. \A j \in DOMAIN KeyOf : Live(j)' => Live(j)
    BY <1>2, <1>3, QueueAssumption DEF Live, Holds, LiveStatuses
  <2> QED
    BY <2>1, <1>1, KeysKept
<1> QED
  BY <1>4, <1>5, <1>6, <1>7, InvPartsNext

-----------------------------------------------------------------------------
(* The outcomes of a run.                                                  *)

\* The rows a write leaves behind, updated field by field.
LEMMA FinishType ==
    ASSUME NEW row \in Row, NEW st \in FinishedStatuses
    PROVE  Finish(row, st) \in Row
<1> DEFINE r1 == [row EXCEPT !.status = st]
           r2 == [r1 EXCEPT !.since = 0]
           r3 == [r2 EXCEPT !.lock = 0]
           r4 == [r3 EXCEPT !.deferrals = 0]
<1>0. Finish(row, st) = r4
  BY DEF Finish
<1>1. r1 \in Row
  BY DEF Row, LiveStatuses
<1> HIDE DEF r1
<1>2. r2 \in Row
  BY <1>1 DEF Row, LiveStatuses
<1> HIDE DEF r2
<1>3. r3 \in Row
  BY <1>2 DEF Row, LiveStatuses
<1> HIDE DEF r3
<1>4. r4 \in Row
  BY <1>3 DEF Row, LiveStatuses
<1> QED
  BY <1>0, <1>4

\* Re-queueing a row leaves a row.
LEMMA RequeueType ==
    ASSUME NEW row \in Row, NEW w \in Int
    PROVE  Requeued(row, w) \in Row
<1> DEFINE r1 == [row EXCEPT !.status = "queued"]
           r2 == [r1 EXCEPT !.wait = w]
           r3 == [r2 EXCEPT !.lock = 0]
           r4 == [r3 EXCEPT !.deferrals = 0]
<1>0. Requeued(row, w) = r4
  BY DEF Requeued
<1>1. r1 \in Row
  BY DEF Row, LiveStatuses
<1> HIDE DEF r1
<1>2. r2 \in Row
  BY <1>1 DEF Row, LiveStatuses
<1> HIDE DEF r2
<1>3. r3 \in Row
  BY <1>2 DEF Row, LiveStatuses
<1> HIDE DEF r3
<1>4. r4 \in Row
  BY <1>3 DEF Row, LiveStatuses
<1> QED
  BY <1>0, <1>4

\* Finishing a row keeps its attempts.
LEMMA FinishRow ==
    ASSUME NEW row \in Row, NEW st \in FinishedStatuses
    PROVE  Finish(row, st).status = st /\ Finish(row, st).attempts = row.attempts
  BY DEF Finish, Row

\* Re-queueing a row keeps its attempts and clears its deferrals.
LEMMA RequeueRow ==
    ASSUME NEW row \in Row, NEW w \in Int
    PROVE  /\ Requeued(row, w).status = "queued" /\ Requeued(row, w).deferrals = 0
           /\ Requeued(row, w).attempts = row.attempts
  BY DEF Requeued, Row

\* Deferring a row gives back one attempt at most, and only with a refund.
LEMMA DeferRow ==
    ASSUME NEW row \in Row, NEW w \in Int, row.attempts >= 1,
           NEW refund \in BOOLEAN, NEW counts \in BOOLEAN
    PROVE  LET new == Deferred(row, w, refund, counts)
           IN  /\ new \in Row /\ new.status = "queued"
               /\ new.deferrals = IF counts THEN row.deferrals + 1 ELSE row.deferrals
               /\ new.attempts = IF refund THEN row.attempts - 1 ELSE row.attempts
<1> DEFINE d == IF counts THEN row.deferrals + 1 ELSE row.deferrals
           a == IF refund THEN row.attempts - 1 ELSE row.attempts
           r1 == [row EXCEPT !.status = "queued"]
           r2 == [r1 EXCEPT !.wait = w]
           r3 == [r2 EXCEPT !.lock = 0]
           r4 == [r3 EXCEPT !.deferrals = d]
           r5 == [r4 EXCEPT !.attempts = a]
<1>1. d \in Nat /\ a \in Nat
  BY DEF Row
<1>2. Deferred(row, w, refund, counts) = r5
  BY DEF Deferred
<1> HIDE DEF d, a
<1>3. r1 \in Row /\ r1.status = "queued"
  BY DEF Row, LiveStatuses
<1> HIDE DEF r1
<1>4. r2 \in Row /\ r2.status = "queued"
  BY <1>3 DEF Row
<1> HIDE DEF r2
<1>5. r3 \in Row /\ r3.status = "queued"
  BY <1>4 DEF Row
<1> HIDE DEF r3
<1>6. r4 \in Row /\ r4.status = "queued" /\ r4.deferrals = d
  BY <1>1, <1>5 DEF Row
<1> HIDE DEF r4
<1>7. r5 \in Row /\ r5.status = "queued" /\ r5.deferrals = d /\ r5.attempts = a
  BY <1>1, <1>6 DEF Row
<1> QED
  BY <1>2, <1>7 DEF d, a

\* A running row that is held, seen by the runner that holds it.
LEMMA Held ==
    ASSUME Inv, NEW r \in Runners, Running(r)
    PROVE  LET k == rn[r].job
               row == job[k]
               n == runs[k]
           IN  /\ k \in Jobs /\ row \in Row /\ n \in Nat
               /\ RowOK(k, row, n) /\ rn[r] \in RunnerState
               /\ MaxAttempts[k] \in Nat /\ Cap \in Nat
               /\ Holds(r) => /\ row.status = "running"
                             /\ rn[r].attempts = row.attempts
                             /\ rn[r].deferrals = row.deferrals
  BY InvParts, QueueAssumption, BoundAssumption DEF RunnerOK, Running, TypeOK, Holds

\* The budget of a running row covers the row once the attempt is spent ...
LEMMA Spent ==
    ASSUME NEW a \in Nat, NEW d \in Nat, NEW n \in Nat, a >= 1,
           n <= (a - 1) * (Cap + 1) + Refunded(d) + 1
    PROVE  n <= a * (Cap + 1) /\ \A e \in Nat : n <= a * (Cap + 1) + Refunded(e)
<1>1. a * (Cap + 1) = (a - 1) * (Cap + 1) + (Cap + 1)
  <2>1. a - 1 \in Nat /\ Cap + 1 \in Nat /\ (a - 1) + 1 = a
    BY BoundAssumption
  <2> QED
    BY <2>1, OneMore
<1>2. (a - 1) * (Cap + 1) \in Int /\ a * (Cap + 1) \in Int
  BY BoundAssumption
<1> HIDE DEF Refunded
<1> QED
  BY <1>1, <1>2, RefundedType, BoundAssumption

\* ... and once it is refunded and counted as a deferral below the cap, or waited
\* out for free.
LEMMA GivenBack ==
    ASSUME NEW a \in Nat, NEW d \in Nat, NEW n \in Nat, a >= 1,
           n <= (a - 1) * (Cap + 1) + Refunded(d) + 1
    PROVE  /\ d < Cap => n <= (a - 1) * (Cap + 1) + Refunded(d + 1)
           /\ n - 1 <= (a - 1) * (Cap + 1) + Refunded(d)
<1>1. (a - 1) * (Cap + 1) \in Int
  BY BoundAssumption
<1> QED
  BY <1>1, RefundedType, BoundAssumption

\* Completing a job preserves the invariant.
LEMMA CompleteStep ==
    ASSUME Inv, NEW r \in Runners, Complete(r)
    PROVE  Inv'
<1> DEFINE k == rn[r].job
           row == Finish(job[k], "succeeded")
<1>1. Running(r) /\ WriteClaimed(r, row) /\ NextJob(r) /\ UNCHANGED <<sched, enq, runs>>
  BY DEF Complete
<1>2. row \in Row /\ row.status = "succeeded"
  BY <1>1, Held, FinishType, FinishRow DEF FinishedStatuses
<1>3. RowOK(k, row, runs[k])
  BY <1>1, <1>2, Held DEF RowOK
<1> QED
  BY <1>1, <1>2, <1>3, Written, InvParts DEF TypeOK

\* Burying a job preserves the invariant.
LEMMA DeadStep ==
    ASSUME Inv, NEW r \in Runners, Dead(r)
    PROVE  Inv'
<1> DEFINE k == rn[r].job
           row == Finish(job[k], "dead")
<1>1. /\ Running(r) /\ WriteClaimed(r, row) /\ NextJob(r)
      /\ UNCHANGED <<sched, enq, runs>>
      /\ rn[r].attempts >= MaxAttempts[k] \/ k \in BadPayload
  BY DEF Dead, IsFinalAttempt, Parses
<1>2. row \in Row /\ row.status = "dead" /\ row.attempts = job[k].attempts
  BY <1>1, Held, FinishType, FinishRow DEF FinishedStatuses
<1>3. Holds(r) => RowOK(k, row, runs[k])
  BY <1>1, <1>2, Held DEF RowOK
<1> QED
  BY <1>1, <1>2, <1>3, Written, InvParts DEF TypeOK

\* Failing an attempt preserves the invariant.
LEMMA FailStep ==
    ASSUME Inv, NEW r \in Runners, NEW w, Fail(r, w)
    PROVE  Inv'
<1> DEFINE k == rn[r].job
           row == Requeued(job[k], w)
<1>1. /\ Running(r) /\ WriteClaimed(r, row) /\ NextJob(r)
      /\ UNCHANGED <<sched, enq, runs>>
      /\ ~(rn[r].attempts >= MaxAttempts[k])
      /\ w \in Int
  BY DelayType DEF Fail, IsFinalAttempt
<1>2. /\ row \in Row /\ row.status = "queued" /\ row.attempts = job[k].attempts
      /\ row.deferrals = 0
  BY <1>1, Held, RequeueType, RequeueRow
<1>3. Holds(r) => RowOK(k, row, runs[k])
  <2> SUFFICES ASSUME Holds(r) PROVE RowOK(k, row, runs[k])
    OBVIOUS
  <2>1. /\ job[k].attempts \in Nat /\ job[k].attempts >= 1 /\ runs[k] \in Nat
        /\ job[k].deferrals \in Nat
        /\ runs[k] <= (job[k].attempts - 1) * (Cap + 1) + Refunded(job[k].deferrals) + 1
    BY <1>1, Held DEF RowOK, Row
  <2>2. runs[k] <= job[k].attempts * (Cap + 1) + Refunded(0)
    BY <2>1, Spent
  <2>3. job[k].attempts < MaxAttempts[k]
    BY <1>1, <2>1, Held
  <2> QED
    BY <1>1, <1>2, <2>2, <2>3, Held DEF RowOK
<1> QED
  BY <1>1, <1>2, <1>3, Written, InvParts DEF TypeOK

\* Deferring a job preserves the invariant.
LEMMA DeferStep ==
    ASSUME Inv, NEW r \in Runners, NEW w \in Int, Defer(r, w)
    PROVE  Inv'
<1> DEFINE k == rn[r].job
           refund == ShouldRefund(r)
           row == Deferred(job[k], w, refund, TRUE)
<1>1. /\ Running(r) /\ WriteClaimed(r, row) /\ NextJob(r)
      /\ UNCHANGED <<sched, enq, runs>>
      /\ refund \/ ~(rn[r].attempts >= MaxAttempts[k])
  BY DEF Defer, IsFinalAttempt
<1>2. ASSUME Holds(r)
      PROVE  /\ row \in Row /\ row.status = "queued" /\ row.deferrals = job[k].deferrals + 1
             /\ row.attempts = IF refund THEN job[k].attempts - 1 ELSE job[k].attempts
             /\ RowOK(k, row, runs[k])
  <2>1. /\ job[k] \in Row /\ k \in Jobs
        /\ job[k].attempts \in Nat /\ job[k].attempts >= 1 /\ runs[k] \in Nat
        /\ job[k].attempts <= MaxAttempts[k] /\ MaxAttempts[k] \in Nat
        /\ job[k].deferrals \in Nat
        /\ refund <=> job[k].deferrals < Cap
        /\ runs[k] <= (job[k].attempts - 1) * (Cap + 1) + Refunded(job[k].deferrals) + 1
        /\ runs[k] <= MaxAttempts[k] * (Cap + 1)
        /\ rn[r].attempts = job[k].attempts
    BY <1>1, <1>2, Held DEF RowOK, Row, ShouldRefund
  <2>2. /\ row.status = "queued" /\ row.deferrals = job[k].deferrals + 1
        /\ row.attempts = IF refund THEN job[k].attempts - 1 ELSE job[k].attempts
        /\ row \in Row
    <3>1. refund \in BOOLEAN /\ TRUE \in BOOLEAN
      BY DEF ShouldRefund
    <3>2. job[k] \in Row /\ job[k].attempts >= 1
      BY <2>1
    <3> HIDE DEF refund, k
    <3> QED
      BY <3>1, <3>2, DeferRow
  <2> HIDE DEF row, k, refund
  <2>4. runs[k] <= row.attempts * (Cap + 1) + Refunded(row.deferrals)
    <3>1. CASE refund
      BY <3>1, <2>1, <2>2, GivenBack
    <3>2. CASE ~refund
      BY <3>2, <2>1, <2>2, Spent
    <3> QED
      BY <3>1, <3>2
  <2>5. row.attempts < MaxAttempts[k]
    <3>1. CASE refund
      BY <3>1, <2>1, <2>2
    <3>2. CASE ~refund
      BY <3>2, <1>1, <2>1, <2>2
    <3> QED
      BY <3>1, <3>2
  <2> QED
    BY <2>1, <2>2, <2>4, <2>5 DEF RowOK
<1>3. CASE Holds(r)
  BY <1>1, <1>2, <1>3, Written, InvParts DEF TypeOK
<1>4. CASE ~Holds(r)
  <2>1. WriteClaimed(r, Deleted) /\ Deleted \in Row /\ Deleted.status = "deleted"
    BY <1>1, <1>4, RowTypes DEF WriteClaimed, Deleted, Absent
  <2> QED
    BY <2>1, <1>1, <1>4, Written, InvParts DEF TypeOK
<1> QED
  BY <1>3, <1>4

\* A free wait preserves the invariant.
LEMMA WaitFreeStep ==
    ASSUME Inv, NEW r \in Runners, NEW w \in Int, WaitFree(r, w)
    PROVE  Inv'
<1> DEFINE k == rn[r].job
           row == Deferred(job[k], w, TRUE, FALSE)
<1>1. /\ Running(r) /\ WriteClaimed(r, row) /\ NextJob(r)
      /\ UNCHANGED <<sched, enq>>
      /\ runs' = IF Holds(r) THEN [runs EXCEPT ![k] = @ - 1] ELSE runs
  BY DEF WaitFree
<1>2. CASE Holds(r)
  <2>1. /\ job[k] \in Row /\ k \in Jobs
        /\ job[k].attempts \in Nat /\ job[k].attempts >= 1 /\ runs[k] \in Nat
        /\ job[k].attempts <= MaxAttempts[k] /\ MaxAttempts[k] \in Nat
        /\ job[k].deferrals \in Nat /\ runs[k] >= 1
        /\ runs[k] <= (job[k].attempts - 1) * (Cap + 1) + Refunded(job[k].deferrals) + 1
        /\ runs[k] <= MaxAttempts[k] * (Cap + 1)
    BY <1>1, <1>2, Held DEF RowOK, Row
  <2>2. row.status = "queued" /\ row.deferrals = job[k].deferrals
    BY <2>1, DeferRow
  <2>3. row \in Row /\ row.attempts = job[k].attempts - 1
    BY <2>1, DeferRow
  <2>4. /\ runs' \in [Jobs -> Nat] /\ runs'[k] = runs[k] - 1
        /\ \A j \in Jobs : j # k => runs'[j] = runs[j]
    BY <1>1, <1>2, <2>1, InvParts DEF TypeOK
  <2>5. runs'[k] <= row.attempts * (Cap + 1) + Refunded(row.deferrals)
    BY <2>1, <2>2, <2>3, <2>4, GivenBack
  <2>6. RowOK(k, row, runs'[k])
    <3>1. MaxAttempts[k] * (Cap + 1) \in Int
      BY <2>1, BoundAssumption
    <3>2. row.attempts < MaxAttempts[k]
      <4>1. /\ row.attempts = job[k].attempts - 1 /\ job[k].attempts \in Nat
            /\ job[k].attempts <= MaxAttempts[k] /\ MaxAttempts[k] \in Nat
        BY <2>1, <2>3
      <4> HIDE DEF row, k
      <4> QED
        BY <4>1
    <3>3. runs'[k] <= MaxAttempts[k] * (Cap + 1)
      <4> DEFINE m == MaxAttempts[k] * (Cap + 1)
      <4>1. m \in Int /\ runs[k] <= m /\ runs[k] \in Nat /\ runs'[k] = runs[k] - 1
        BY <3>1, <2>1, <2>4
      <4> HIDE DEF m
      <4>2. runs'[k] <= m
        BY <4>1
      <4> QED
        BY <4>2 DEF m
    <3> QED
      BY <3>2, <3>3, <2>2, <2>5 DEF RowOK
  <2> HIDE DEF row, k
  <2> QED
    BY <1>1, <1>2, <2>2, <2>3, <2>4, <2>6, Written DEF k
<1>3. CASE ~Holds(r)
  <2>1. WriteClaimed(r, Deleted) /\ Deleted \in Row /\ Deleted.status = "deleted"
    BY <1>1, <1>3, RowTypes DEF WriteClaimed, Deleted, Absent
  <2> QED
    BY <2>1, <1>1, <1>3, Written, InvParts DEF TypeOK
<1> QED
  BY <1>2, <1>3

-----------------------------------------------------------------------------
(* Inserting rows.                                                         *)

\* A fresh row is queued and has spent nothing.
LEMMA InsertedRow ==
    ASSUME NEW w \in Int
    PROVE  LET row == [Inserted EXCEPT !.wait = w]
           IN  row \in Row /\ row.status = "queued" /\ row.attempts = 0 /\ row.deferrals = 0
<1>1. Inserted.status = "queued" /\ Inserted.attempts = 0 /\ Inserted.deferrals = 0
  BY DEF Inserted, Absent
<1>2. Inserted \in Row
  BY RowTypes
<1> QED
  BY <1>1, <1>2 DEF Row

\* Enqueueing without a key preserves the invariant.
LEMMA EnqueueStep ==
    ASSUME Inv, NEW j \in Jobs, NEW w \in Int, Enqueue(j, w)
    PROVE  Inv'
<1>1. /\ job[j].status = "absent" /\ j \notin DOMAIN KeyOf
      /\ job' = [job EXCEPT ![j] = [Inserted EXCEPT !.wait = w]]
      /\ UNCHANGED <<sched, rn, enq, runs>>
  BY DEF Enqueue
<1> DEFINE row == [Inserted EXCEPT !.wait = w]
<1>2. row \in Row /\ row.status = "queued" /\ row.attempts = 0 /\ row.deferrals = 0
  BY InsertedRow
<1> HIDE DEF row
<1>3. job \in [Jobs -> Row] /\ job' = [job EXCEPT ![j] = row]
  BY <1>1, InvParts DEF TypeOK, row
<1>4. TypeOK'
  BY <1>1, <1>2, <1>3, InvParts DEF TypeOK
<1>5. OneLivePerKey'
  BY <1>1, <1>3, KeysKept, InvParts, QueueAssumption DEF Live
<1>6. \A i \in Jobs \ {j} : job'[i] = job[i]
  BY <1>3
<1>7. job'[j] = row
  BY <1>3
<1>8. \A q \in Runners : Tame(q)
  BY <1>1 DEF Tame
<1> QED
  <2> DEFINE new == {j}
  <2>1. new \in SUBSET Jobs /\ \A i \in new : i = j
    OBVIOUS
  <2>2. \A i \in Jobs \ new : job'[i] = job[i]
    BY <1>6
  <2> HIDE DEF new
  <2> QED
    BY <2>1, <2>2, <1>1, <1>2, <1>4, <1>5, <1>7, <1>8, NewRows

\* The insert of a keyed job preserves the invariant.
LEMMA InsertCreatesStep ==
    ASSUME Inv, NEW e \in Enqueuers, NEW j \in Jobs, NEW w \in Int, InsertCreates(e, j, w)
    PROVE  Inv'
<1> DEFINE row == [Inserted EXCEPT !.wait = w]
<1>1. /\ job[j].status = "absent" /\ j \in DOMAIN KeyOf
      /\ Holders(KeyOf[j]) = {}
      /\ job' = [job EXCEPT ![j] = row]
      /\ enq' = [enq EXCEPT ![e] = Ready]
      /\ UNCHANGED <<sched, rn, runs>>
  BY DEF InsertCreates
<1>2. row \in Row /\ row.status = "queued" /\ row.attempts = 0 /\ row.deferrals = 0
  BY InsertedRow
<1> HIDE DEF row
<1>3. TypeOK /\ OneLivePerKey
  BY InvParts
<1>4. /\ job' \in [Jobs -> Row] /\ job'[j] = row
      /\ \A i \in Jobs \ {j} : job'[i] = job[i]
  BY <1>1, <1>2, <1>3 DEF TypeOK
<1>5. TypeOK'
  BY <1>1, <1>3, <1>4 DEF TypeOK, Ready, EnqueuerState
<1>6. OneLivePerKey'
  <2> SUFFICES ASSUME NEW k \in Keys, NEW a \in Holders(k)', NEW b \in Holders(k)'
               PROVE  a = b
    BY DEF OneLivePerKey
  <2>1. /\ a \in Jobs /\ b \in Jobs
        /\ a \in DOMAIN KeyOf /\ b \in DOMAIN KeyOf /\ KeyOf[a] = k /\ KeyOf[b] = k
        /\ job'[a].status \in LiveStatuses /\ job'[b].status \in LiveStatuses
    BY QueueAssumption DEF Holders, Live
  <2>2. \A c \in {a, b} : c # j => c \in Holders(k)
    BY <2>1, <1>4 DEF Holders, Live
  <2>3. KeyOf[j] = k => a = j /\ b = j
    BY <2>2, <1>1
  <2>4. KeyOf[j] # k => a # j /\ b # j
    BY <2>1
  <2> QED
    BY <2>2, <2>3, <2>4, <1>3 DEF OneLivePerKey
<1>7. \A q \in Runners : Tame(q)
  BY <1>1 DEF Tame
<1> DEFINE new == {j}
<1>8. new \in SUBSET Jobs /\ \A i \in new : i = j
  OBVIOUS
<1>9. \A i \in Jobs \ new : job'[i] = job[i]
  BY <1>4
<1> HIDE DEF new
<1> QED
  BY <1>1, <1>2, <1>4, <1>5, <1>6, <1>7, <1>8, <1>9, NewRows

\* The next slot is an integer.
LEMMA NextSlotType ==
    ASSUME NEW slot \in Int, NEW i \in Nat \ {0}, NEW now \in Int
    PROVE  NextIntervalSlot(slot, i, now) \in Int
  BY DEF NextIntervalSlot

\* Firing the due schedules preserves the invariant.
LEMMA AdvanceDueStep ==
    ASSUME Inv, NEW r \in Runners, AdvanceDue(r)
    PROVE  Inv'
<1>1. PICK due \in SUBSET DueSchedules, new \in SUBSET (Jobs \ DOMAIN KeyOf) :
         /\ \A j \in new : job[j].status = "absent"
         /\ job' = [j \in Jobs |-> IF j \in new THEN Inserted ELSE job[j]]
         /\ sched' = [s \in Schedules |->
               IF s \in due
               THEN [sched[s] EXCEPT !.next = NextIntervalSlot(sched[s].next, Interval[s], 0)]
               ELSE sched[s]]
  BY DEF AdvanceDue
<1>2. /\ rn[r].pc = "advance" /\ rn' = [rn EXCEPT ![r] = [rn[r] EXCEPT !.pc = "drain"]]
      /\ UNCHANGED <<enq, runs>>
  BY DEF AdvanceDue, Goto, Become
<1>3. TypeOK /\ \A q \in Runners : RunnerOK(q)
  BY InvParts
<1>4. TypeOK'
  <2>1. job' \in [Jobs -> Row]
    BY <1>1, <1>3, RowTypes DEF TypeOK
  <2>2. sched' \in [Schedules -> [exists : BOOLEAN, next : Int]]
    BY <1>1, <1>3, NextSlotType, QueueAssumption DEF TypeOK
  <2>3. rn' \in [Runners -> RunnerState]
    BY <1>2, <1>3 DEF TypeOK, RunnerState, PCs
  <2> QED
    BY <2>1, <2>2, <2>3, <1>2, <1>3 DEF TypeOK
<1>5. \A q \in Runners : Tame(q)
  BY <1>2, <1>3 DEF Tame, RunnerOK, TypeOK, RunnerState
<1>6. OneLivePerKey'
  BY <1>1, KeysKept, InvParts, QueueAssumption DEF Live
<1>7. Inserted.status = "queued" /\ Inserted.attempts = 0 /\ Inserted.deferrals = 0
  BY DEF Inserted, Absent
<1>8. new \in SUBSET Jobs
  OBVIOUS
<1> QED
  BY <1>1, <1>2, <1>4, <1>5, <1>6, <1>7, <1>8, NewRows

-----------------------------------------------------------------------------
(* Claim, reclaim, prune, and time.                                        *)

\* A row that leaves the live ones for a status outside them.
LEMMA RowLeaves ==
    ASSUME NEW j \in Jobs, NEW row, NEW new, NEW n \in Nat, RowOK(j, row, n),
           new.status \in {"succeeded", "deleted"}
    PROVE  RowOK(j, new, n)
  BY DEF RowOK

\* Pruning old rows preserves the invariant.
LEMMA PruneStep ==
    ASSUME Inv, Prune
    PROVE  Inv'
<1>1. /\ job' = [j \in Jobs |-> IF PastRetention(j) THEN Deleted ELSE job[j]]
      /\ UNCHANGED <<sched, rn, enq, runs>>
  BY DEF Prune
<1>2. TypeOK
  BY InvParts
<1>3. TypeOK'
  BY <1>1, <1>2, RowTypes DEF TypeOK
<1>4. Deleted.status = "deleted"
  BY DEF Deleted, Absent
<1>5. ASSUME NEW j \in Jobs
      PROVE  \/ job'[j] = job[j]
             \/ job'[j].status = "deleted" /\ job[j].status \in FinishedStatuses
  BY <1>1, <1>4 DEF PastRetention, Finished
<1>6. \A q \in Runners : RunnerOK(q)'
  BY <1>1, <1>5, RunnersKept DEF Tame, FinishedStatuses
<1>7. \A j \in Jobs : RowOK(j, job'[j], runs'[j])
  BY <1>1, <1>2, <1>5, InvParts, RowLeaves DEF TypeOK
<1>8. OneLivePerKey'
  BY <1>5, KeysKept, InvParts, QueueAssumption DEF Live, LiveStatuses
<1> QED
  BY <1>3, <1>6, <1>7, <1>8, InvPartsNext

\* Reclaiming expired locks preserves the invariant.
LEMMA ReclaimStep ==
    ASSUME Inv, NEW r \in Runners, ReclaimExpired(r)
    PROVE  Inv'
<1>1. /\ rn[r].pc = "reclaim" /\ rn' = [rn EXCEPT ![r] = [rn[r] EXCEPT !.pc = "advance"]]
      /\ UNCHANGED <<sched, enq, runs>>
  BY DEF ReclaimExpired, Goto, Become
<1>2. TypeOK /\ \A q \in Runners : RunnerOK(q)
  BY InvParts
<1>3. ASSUME NEW j \in Jobs
      PROVE  /\ job[j] \in Row /\ job[j].attempts \in Nat /\ MaxAttempts[j] \in Nat
             /\ RowOK(j, job[j], runs[j]) /\ runs[j] \in Nat
  BY <1>2, InvParts, QueueAssumption DEF TypeOK, Row
<1>4. ASSUME NEW j \in Jobs
      PROVE  job'[j] = IF ~Expired(j) THEN job[j]
                       ELSE IF job[j].attempts >= MaxAttempts[j]
                            THEN Finish(job[j], "dead") ELSE Requeued(job[j], 0)
  BY <1>3 DEF ReclaimExpired
<1>5. ASSUME NEW j \in Jobs
      PROVE  /\ job'[j] \in Row
             /\ RowOK(j, job'[j], runs[j])
             /\ job'[j] = job[j] \/ (job'[j].status # "running" /\ Expired(j))
  <2>1. CASE ~Expired(j)
    BY <1>3, <1>4, <2>1
  <2>2. CASE Expired(j) /\ job[j].attempts >= MaxAttempts[j]
    <3> DEFINE row == Finish(job[j], "dead")
    <3>1. row \in Row /\ row.status = "dead" /\ row.attempts = job[j].attempts
      BY <1>3, FinishType, FinishRow DEF FinishedStatuses
    <3>2. job'[j] = row
      BY <1>4, <2>2
    <3> HIDE DEF row
    <3>3. RowOK(j, row, runs[j])
      BY <3>1, <2>2, <1>3 DEF RowOK
    <3> QED
      BY <3>1, <3>2, <3>3, <2>2
  <2>3. CASE Expired(j) /\ ~(job[j].attempts >= MaxAttempts[j])
    <3> DEFINE row == Requeued(job[j], 0)
    <3>1. /\ row \in Row /\ row.status = "queued" /\ row.deferrals = 0
          /\ row.attempts = job[j].attempts
      BY <1>3, RequeueType, RequeueRow
    <3>2. job'[j] = row
      BY <1>4, <2>3
    <3> HIDE DEF row
    <3>3. /\ job[j].attempts >= 1 /\ job[j].deferrals \in Nat
          /\ runs[j] <= (job[j].attempts - 1) * (Cap + 1) + Refunded(job[j].deferrals) + 1
          /\ runs[j] <= MaxAttempts[j] * (Cap + 1)
      BY <2>3, <1>3 DEF RowOK, Expired, Row
    <3>4. runs[j] <= job[j].attempts * (Cap + 1) + Refunded(0)
      BY <3>3, <1>3, Spent
    <3>5. RowOK(j, row, runs[j])
      BY <3>1, <3>3, <3>4, <2>3, <1>3 DEF RowOK
    <3> QED
      BY <3>1, <3>2, <3>5, <2>3
  <2> QED
    BY <2>1, <2>2, <2>3
<1>6. TypeOK'
  <2>1. job' \in [Jobs -> Row]
    <3> DEFINE F(j) == CASE ~Expired(j) -> job[j]
                         [] Expired(j) /\ job[j].attempts >= MaxAttempts[j] -> Finish(job[j], "dead")
                         [] Expired(j) /\ job[j].attempts < MaxAttempts[j] -> Requeued(job[j], 0)
    <3>1. job' = [j \in Jobs |-> F(j)]
      BY DEF ReclaimExpired
    <3> HIDE DEF F
    <3> QED
      BY <3>1, <1>5
  <2>2. rn' \in [Runners -> RunnerState]
    BY <1>1, <1>2 DEF TypeOK, RunnerState, PCs
  <2> QED
    BY <2>1, <2>2, <1>1, <1>2 DEF TypeOK
<1>7. \A q \in Runners : Tame(q)
  BY <1>1, <1>2 DEF Tame, RunnerOK, TypeOK, RunnerState
<1>8. \A q \in Runners : RunnerOK(q)'
  BY <1>5, <1>7, RunnersKept DEF Expired
<1>9. OneLivePerKey'
  BY <1>5, KeysKept, InvParts, QueueAssumption DEF Live, LiveStatuses, Expired
<1> QED
  BY <1>1, <1>5, <1>6, <1>8, <1>9, InvPartsNext

\* Claiming a job preserves the invariant.
LEMMA ClaimStep ==
    ASSUME Inv, NEW r \in Runners, NEW j \in Jobs, Claim(r, j)
    PROVE  Inv'
<1>1. /\ rn[r].pc \in {"kick", "drain"}
      /\ rn[r].pc = "drain" => rn[r].left > 0
      /\ job[j].status = "queued"
  BY DEF Claim, MayClaim, Claimable, Due
<1>2. UNCHANGED <<sched, enq>> /\ runs' = [runs EXCEPT ![j] = @ + 1]
  BY DEF Claim
<1>3. TypeOK /\ RunnerOK(r) /\ RowOK(j, job[j], runs[j]) /\ OneLivePerKey
  BY InvParts
<1>4. /\ job[j] \in Row /\ rn[r] \in RunnerState /\ runs[j] \in Nat /\ MaxAttempts[j] \in Nat
      /\ job[j].attempts \in Nat /\ job[j].deferrals \in Nat
  BY <1>3, QueueAssumption DEF TypeOK, Row
<1> DEFINE row == [job[j] EXCEPT !.status = "running", !.lock = Visibility,
                                 !.lockedBy = r, !.attempts = job[j].attempts + 1]
           x == [rn[r] EXCEPT !.pc = "run", !.job = j,
                              !.attempts = job[j].attempts + 1,
                              !.deferrals = job[j].deferrals]
<1>5. job' = [job EXCEPT ![j] = row] /\ rn' = [rn EXCEPT ![r] = x]
  BY <1>3, <1>4 DEF Claim, Become, TypeOK
<1>6. /\ row \in Row /\ row.status = "running" /\ row.lock = Visibility /\ row.lockedBy = r
      /\ row.attempts = job[j].attempts + 1 /\ row.deferrals = job[j].deferrals
  <2> DEFINE r1 == [job[j] EXCEPT !.status = "running"]
             r2 == [r1 EXCEPT !.lock = Visibility]
             r3 == [r2 EXCEPT !.lockedBy = r]
             r4 == [r3 EXCEPT !.attempts = job[j].attempts + 1]
  <2>1. row = r4
    OBVIOUS
  <2> HIDE DEF row
  <2>2. r1 \in Row /\ r1.status = "running" /\ r1.deferrals = job[j].deferrals
    BY <1>4 DEF Row, LiveStatuses
  <2> HIDE DEF r1
  <2>3. /\ r2 \in Row /\ r2.status = "running" /\ r2.deferrals = job[j].deferrals
        /\ r2.lock = Visibility
    BY <2>2, BoundAssumption DEF Row
  <2> HIDE DEF r2
  <2>4. /\ r3 \in Row /\ r3.status = "running" /\ r3.deferrals = job[j].deferrals
        /\ r3.lock = Visibility /\ r3.lockedBy = r
    BY <2>3 DEF Row
  <2> HIDE DEF r3
  <2>5. /\ r4 \in Row /\ r4.status = "running" /\ r4.deferrals = job[j].deferrals
        /\ r4.lock = Visibility /\ r4.lockedBy = r /\ r4.attempts = job[j].attempts + 1
    BY <2>4, <1>4 DEF Row
  <2> QED
    BY <2>1, <2>5
<1>7. /\ x \in RunnerState /\ x.pc = "run" /\ x.job = j /\ x.attempts = job[j].attempts + 1
      /\ x.deferrals = job[j].deferrals /\ x.age = rn[r].age /\ x.left = rn[r].left
  <2> DEFINE x1 == [rn[r] EXCEPT !.pc = "run"]
             x2 == [x1 EXCEPT !.job = j]
             x3 == [x2 EXCEPT !.attempts = job[j].attempts + 1]
             x4 == [x3 EXCEPT !.deferrals = job[j].deferrals]
  <2>1. x = x4
    OBVIOUS
  <2> HIDE DEF x
  <2>2. x1 \in RunnerState /\ x1.pc = "run" /\ x1.age = rn[r].age /\ x1.left = rn[r].left
    BY <1>4 DEF RunnerState, PCs
  <2> HIDE DEF x1
  <2>3. /\ x2 \in RunnerState /\ x2.pc = "run" /\ x2.age = rn[r].age
        /\ x2.left = rn[r].left /\ x2.job = j
    BY <2>2 DEF RunnerState
  <2> HIDE DEF x2
  <2>4. /\ x3 \in RunnerState /\ x3.pc = "run" /\ x3.age = rn[r].age
        /\ x3.left = rn[r].left /\ x3.job = j /\ x3.attempts = job[j].attempts + 1
    BY <2>3, <1>4 DEF RunnerState
  <2> HIDE DEF x3
  <2>5. /\ x4 \in RunnerState /\ x4.pc = "run" /\ x4.age = rn[r].age
        /\ x4.left = rn[r].left /\ x4.job = j /\ x4.attempts = job[j].attempts + 1
        /\ x4.deferrals = job[j].deferrals
    BY <2>4, <1>4 DEF RunnerState
  <2> QED
    BY <2>1, <2>5
<1> HIDE DEF row, x
<1>8. /\ job' \in [Jobs -> Row] /\ job'[j] = row /\ \A i \in Jobs \ {j} : job'[i] = job[i]
      /\ rn' \in [Runners -> RunnerState] /\ rn'[r] = x
      /\ \A q \in Runners \ {r} : rn'[q] = rn[q]
      /\ runs' \in [Jobs -> Nat] /\ runs'[j] = runs[j] + 1
      /\ \A i \in Jobs \ {j} : runs'[i] = runs[i]
  BY <1>2, <1>3, <1>4, <1>5, <1>6, <1>7 DEF TypeOK
<1>9. TypeOK'
  BY <1>2, <1>3, <1>8 DEF TypeOK
<1>10. ASSUME NEW q \in Runners PROVE RunnerOK(q)'
  <2>1. CASE q = r
    <3>1. Holds(r)'
      BY <1>6, <1>7, <1>8 DEF Holds
    <3>2. rn[r].age \in Nat /\ rn[r].age <= FunctionMax
      BY <1>3, <1>4 DEF RunnerOK, RunnerState
    <3>3. rn[r].left > 0
      BY <1>1, <1>3 DEF RunnerOK
    <3> QED
      BY <2>1, <3>1, <3>2, <3>3, <1>6, <1>7, <1>8, BoundAssumption DEF RunnerOK, Running
  <2>2. CASE q # r /\ ~Running(q)
    BY <2>2, <1>8, InvParts DEF RunnerOK, Running
  <2>3. CASE q # r /\ Running(q)
    <3>1. rn'[q] = rn[q] /\ RunnerOK(q) /\ rn[q].job \in Jobs
      BY <2>3, <1>8, InvParts DEF RunnerOK, Running
    <3>2. Holds(q) => job'[rn[q].job] = job[rn[q].job]
      BY <3>1, <1>1, <1>8 DEF Holds
    <3>3. Holds(q)' => Holds(q)
      BY <3>1, <2>3, <1>6, <1>8 DEF Holds
    <3>4. Holds(q) => Holds(q)'
      BY <3>1, <3>2 DEF Holds
    <3> QED
      BY <3>1, <3>2, <3>3, <3>4 DEF RunnerOK, Running
  <2> QED
    BY <2>1, <2>2, <2>3
<1>11. RowOK(j, row, runs[j] + 1)
  <2> DEFINE a == job[j].attempts
             m == a * (Cap + 1)
             l == MaxAttempts[j] * (Cap + 1)
  <2>1. a < MaxAttempts[j] /\ runs[j] <= m + Refunded(job[j].deferrals)
    BY <1>1, <1>3 DEF RowOK
  <2>2. (a + 1) * (Cap + 1) = m + (Cap + 1)
    BY <1>4, OneMore, BoundAssumption
  <2>3. (a + 1) * (Cap + 1) <= l
    BY <1>4, <2>1, Grow, BoundAssumption
  <2>4. m \in Int /\ l \in Int /\ Refunded(job[j].deferrals) \in Nat
        /\ Refunded(job[j].deferrals) <= Cap
    BY <1>4, RefundedType, BoundAssumption
  <2>5. m = ((a + 1) - 1) * (Cap + 1)
    BY <1>4
  <2>6. runs[j] + 1 <= l /\ runs[j] + 1 <= m + Refunded(job[j].deferrals) + 1
    <3>1. \A c \in Int : (a + 1) * (Cap + 1) = c => c <= l
      BY <2>3
    <3>2. m + (Cap + 1) <= l
      BY <2>2, <2>4, <3>1, BoundAssumption
    <3> HIDE DEF m, l
    <3> QED
      BY <2>1, <2>4, <3>2, <1>4, BoundAssumption
  <2>7. /\ row.attempts = a + 1 /\ a + 1 \in 1..MaxAttempts[j] /\ runs[j] + 1 >= 1
        /\ row.attempts - 1 = (a + 1) - 1
    BY <1>4, <1>6, <2>1
  <2> HIDE DEF a
  <2> QED
    BY <1>6, <2>5, <2>6, <2>7 DEF RowOK
<1>12. \A i \in Jobs : RowOK(i, job'[i], runs'[i])
  BY <1>8, <1>11, InvParts
<1>13. OneLivePerKey'
  BY <1>1, <1>3, <1>8, KeysKept, QueueAssumption DEF Live, LiveStatuses
<1> QED
  BY <1>9, <1>10, <1>12, <1>13, InvPartsNext

\* A moment passing changes nothing of a row but its clocks.
LEMMA RowLaterRow ==
    ASSUME NEW row \in Row
    PROVE  LET new == RowLater(row)
           IN  /\ new \in Row /\ new.status = row.status /\ new.attempts = row.attempts
               /\ new.deferrals = row.deferrals /\ new.lockedBy = row.lockedBy
               /\ row.status = "running" => new.lock >= row.lock - 1
<1>1. CASE row.status = "queued"
  <2>1. RowLater(row) = [row EXCEPT !.wait = Sooner(row.wait, -MaxLate)]
    BY <1>1 DEF RowLater, FinishedStatuses
  <2>2. Sooner(row.wait, -MaxLate) \in Int
    BY BoundAssumption DEF Sooner, Row
  <2> QED
    BY <1>1, <2>1, <2>2 DEF Row
<1>2. CASE row.status = "running"
  <2>1. RowLater(row) = [row EXCEPT !.lock = Sooner(row.lock, -1)]
    BY <1>2 DEF RowLater, FinishedStatuses
  <2>2. Sooner(row.lock, -1) \in Int /\ Sooner(row.lock, -1) >= row.lock - 1
    BY DEF Sooner, Row
  <2> QED
    BY <2>1, <2>2 DEF Row
<1>3. CASE row.status \in FinishedStatuses
  <2> DEFINE n == IF row.since > Retention[row.status] THEN row.since ELSE row.since + 1
  <2>1. RowLater(row) = [row EXCEPT !.since = n]
    BY <1>3 DEF RowLater, FinishedStatuses
  <2>2. n \in Nat
    BY DEF Row
  <2> HIDE DEF n
  <2> QED
    BY <1>3, <2>1, <2>2 DEF Row, FinishedStatuses
<1>4. CASE row.status \in {"absent", "deleted"}
  <2>1. RowLater(row) = row
    BY <1>4 DEF RowLater, FinishedStatuses
  <2> QED
    BY <1>4, <2>1
<1> QED
  BY <1>1, <1>2, <1>3, <1>4 DEF Row, LiveStatuses

\* A moment passing leaves a schedule well formed.
LEMMA ScheduleLaterType ==
    ASSUME TypeOK, NEW s \in Schedules
    PROVE  ScheduleLater(s) \in [exists : BOOLEAN, next : Int]
<1>1. sched[s] \in [exists : BOOLEAN, next : Int] /\ Interval[s] \in Nat
  BY QueueAssumption DEF TypeOK
<1> DEFINE n == CASE ~sched[s].exists -> sched[s].next
                  [] sched[s].exists /\ sched[s].next > 1 - 2 * Interval[s] -> sched[s].next - 1
                  [] OTHER -> -Interval[s]
<1>2. ScheduleLater(s) = [sched[s] EXCEPT !.next = n]
  BY DEF ScheduleLater
<1>3. n \in Int
  BY <1>1
<1> HIDE DEF n
<1> QED
  BY <1>1, <1>2, <1>3

\* Time passing preserves the invariant.
LEMMA ElapseStep ==
    ASSUME Inv, Elapse
    PROVE  Inv'
<1>1. /\ \A r \in Runners : rn[r].pc # "idle" => rn[r].age < FunctionMax
      /\ job' = [j \in Jobs |-> RowLater(job[j])]
      /\ sched' = [s \in Schedules |-> ScheduleLater(s)]
      /\ rn' = [r \in Runners |->
                   IF rn[r].pc = "idle" THEN rn[r] ELSE [rn[r] EXCEPT !.age = rn[r].age + 1]]
      /\ UNCHANGED <<enq, runs>>
  BY DEF Elapse
<1>2. TypeOK /\ OneLivePerKey
  BY InvParts
<1>3. ASSUME NEW j \in Jobs
      PROVE  /\ job[j] \in Row /\ job'[j] \in Row
             /\ job'[j].status = job[j].status /\ job'[j].attempts = job[j].attempts
             /\ job'[j].deferrals = job[j].deferrals /\ job'[j].lockedBy = job[j].lockedBy
             /\ job[j].status = "running" => job'[j].lock >= job[j].lock - 1
  <2>1. job'[j] = RowLater(job[j]) /\ job[j] \in Row
    BY <1>1, <1>2 DEF TypeOK
  <2> QED
    BY <2>1, RowLaterRow
<1>4. ASSUME NEW r \in Runners
      PROVE  /\ rn'[r] \in RunnerState /\ rn[r] \in RunnerState
             /\ rn'[r].pc = rn[r].pc /\ rn'[r].job = rn[r].job /\ rn'[r].left = rn[r].left
             /\ rn'[r].attempts = rn[r].attempts /\ rn'[r].deferrals = rn[r].deferrals
             /\ rn[r].pc # "idle" => rn'[r].age = rn[r].age + 1
             /\ rn[r].pc = "idle" => rn'[r].age = rn[r].age
  <2>1. rn[r] \in RunnerState
    BY <1>2 DEF TypeOK
  <2>2. CASE rn[r].pc = "idle"
    BY <1>1, <2>1, <2>2
  <2>3. CASE rn[r].pc # "idle"
    <3>1. rn'[r] = [rn[r] EXCEPT !.age = rn[r].age + 1]
      BY <1>1, <2>3
    <3> QED
      BY <2>1, <2>3, <3>1 DEF RunnerState
  <2> QED
    BY <2>2, <2>3
<1>5. TypeOK'
  <2>1. job' \in [Jobs -> Row]
    BY <1>1, <1>3
  <2>2. sched' \in [Schedules -> [exists : BOOLEAN, next : Int]]
    BY <1>1, <1>2, ScheduleLaterType
  <2>3. rn' \in [Runners -> RunnerState]
    BY <1>1, <1>4
  <2> QED
    BY <2>1, <2>2, <2>3, <1>1, <1>2 DEF TypeOK
<1>6. ASSUME NEW r \in Runners PROVE RunnerOK(r)'
  <2>1. RunnerOK(r) /\ rn[r].age \in Nat
    BY <1>4, InvParts DEF RunnerState
  <2>2. CASE ~Running(r)
    BY <1>1, <1>4, <2>1, <2>2, BoundAssumption DEF RunnerOK, Running
  <2>3. CASE Running(r)
    <3>1. rn[r].job \in Jobs /\ job[rn[r].job].lock \in Int /\ job'[rn[r].job].lock \in Int
      BY <1>3, <2>1, <2>3 DEF RunnerOK, Running, Row
    <3>2. Holds(r)' <=> Holds(r)
      BY <1>3, <1>4, <3>1 DEF Holds
    <3>3. Holds(r) => job'[rn[r].job].lock >= job[rn[r].job].lock - 1
      BY <1>3, <3>1 DEF Holds
    <3>4. rn'[r].age = rn[r].age + 1 /\ rn'[r].age <= FunctionMax
      BY <1>1, <1>4, <2>1, <2>3, BoundAssumption DEF Running
    <3> QED
      BY <1>3, <1>4, <2>1, <2>3, <3>1, <3>2, <3>3, <3>4, BoundAssumption
         DEF RunnerOK, Running
  <2> QED
    BY <2>2, <2>3
<1>7. ASSUME NEW j \in Jobs PROVE RowOK(j, job'[j], runs'[j])
  <2>1. RowOK(j, job[j], runs[j]) /\ runs'[j] = runs[j]
    BY <1>1, InvParts
  <2> QED
    BY <1>3, <2>1 DEF RowOK
<1>8. OneLivePerKey'
  BY <1>2, <1>3, KeysKept, QueueAssumption DEF Live
<1> QED
  BY <1>5, <1>6, <1>7, <1>8, InvPartsNext

-----------------------------------------------------------------------------
(* The steps that leave the rows alone.                                    *)

\* A runner that only moves on starts no handler.
LEMMA GotoTame ==
    ASSUME Inv, NEW r \in Runners, NEW pc \in PCs \ {"kick", "run"}, Goto(r, pc)
    PROVE  rn' \in [Runners -> RunnerState] /\ \A q \in Runners : Tame(q)
<1>1. TypeOK /\ RunnerOK(r) /\ rn[r] \in RunnerState
  BY InvParts DEF TypeOK
<1> DEFINE x == [rn[r] EXCEPT !.pc = pc]
<1>2. x \in RunnerState /\ x.pc = pc /\ x.age = rn[r].age
  BY <1>1 DEF RunnerState
<1>3. rn' = [rn EXCEPT ![r] = x]
  BY DEF Goto, Become
<1> HIDE DEF x
<1> QED
  BY <1>1, <1>2, <1>3 DEF TypeOK, Tame, RunnerOK

\* Nor does one that stops.
LEMMA StopTame ==
    ASSUME Inv, NEW r \in Runners, Stop(r)
    PROVE  rn' \in [Runners -> RunnerState] /\ \A q \in Runners : Tame(q)
<1>1. TypeOK /\ rn' = [rn EXCEPT ![r] = Idle]
  BY InvParts DEF Stop, Become
<1> QED
  BY <1>1, IdleType DEF TypeOK, Tame

\* The steps that touch no row preserve the invariant.
LEMMA RunnerMoves ==
    ASSUME Inv, NEW r \in Runners,
           \/ StartTick(r) \/ PhaseFails(r) \/ ClaimNothing(r) \/ Crash(r)
           \/ \E j \in Jobs : Kick(r, j)
    PROVE  Inv'
<1>1. TypeOK
  BY InvParts
<1>2. CASE StartTick(r)
  <2> DEFINE x == [Idle EXCEPT !.pc = "ensure", !.left = MaxJobs]
  <2>1. x \in RunnerState /\ x.pc = "ensure" /\ x.age = 0
    BY BoundAssumption DEF Idle, RunnerState, PCs
  <2>2. rn' = [rn EXCEPT ![r] = x] /\ UNCHANGED <<job, sched, enq, runs>>
    BY <1>2 DEF StartTick, Become
  <2> HIDE DEF x
  <2>3. TypeOK'
    BY <1>1, <2>1, <2>2 DEF TypeOK
  <2>4. \A q \in Runners : Tame(q)
    BY <1>1, <2>1, <2>2, BoundAssumption DEF TypeOK, Tame
  <2> QED
    BY <2>2, <2>3, <2>4, Quiet
<1>3. CASE PhaseFails(r)
  <2>1. /\ rn[r].pc \in Bookkeeping /\ Goto(r, NextPhase(rn[r].pc))
        /\ UNCHANGED <<job, sched, enq, runs>>
    BY <1>3 DEF PhaseFails
  <2>2. NextPhase(rn[r].pc) \in PCs \ {"kick", "run"}
    BY <2>1 DEF NextPhase, PCs, Bookkeeping
  <2>3. rn' \in [Runners -> RunnerState] /\ \A q \in Runners : Tame(q)
    BY <2>1, <2>2, GotoTame
  <2>4. TypeOK'
    BY <1>1, <2>1, <2>3 DEF TypeOK
  <2> QED
    BY <2>1, <2>3, <2>4, Quiet
<1>4. CASE ClaimNothing(r) \/ Crash(r)
  <2>1. Stop(r) /\ UNCHANGED <<job, sched, enq, runs>>
    BY <1>4 DEF ClaimNothing, Crash
  <2>2. rn' \in [Runners -> RunnerState] /\ \A q \in Runners : Tame(q)
    BY <2>1, StopTame
  <2>3. TypeOK'
    BY <1>1, <2>1, <2>2 DEF TypeOK
  <2> QED
    BY <2>1, <2>2, <2>3, Quiet
<1>5. ASSUME NEW j \in Jobs, Kick(r, j) PROVE Inv'
  <2> DEFINE x == [Idle EXCEPT !.pc = "kick", !.left = 1, !.job = j]
  <2>1. x \in RunnerState /\ x.pc = "kick" /\ x.age = 0 /\ x.job = j /\ x.left = 1
    BY DEF Idle, RunnerState, PCs
  <2>2. rn' = [rn EXCEPT ![r] = x] /\ UNCHANGED <<job, sched, enq, runs>>
    BY <1>5 DEF Kick, Become
  <2> HIDE DEF x
  <2>3. TypeOK'
    BY <1>1, <2>1, <2>2 DEF TypeOK
  <2>4. \A q \in Runners : Tame(q)
    BY <1>1, <2>1, <2>2, BoundAssumption DEF TypeOK, Tame
  <2> QED
    BY <2>2, <2>3, <2>4, Quiet
<1> QED
  BY <1>2, <1>3, <1>4, <1>5

\* Registering the schedules preserves the invariant.
LEMMA EnsureStep ==
    ASSUME Inv, NEW r \in Runners, EnsureSchedules(r)
    PROVE  Inv'
<1>1. /\ sched' = [s \in Schedules |-> [sched[s] EXCEPT !.exists = TRUE]]
      /\ Goto(r, "reclaim") /\ UNCHANGED <<job, enq, runs>>
  BY DEF EnsureSchedules
<1>2. TypeOK
  BY InvParts
<1>3. rn' \in [Runners -> RunnerState] /\ \A q \in Runners : Tame(q)
  BY <1>1, GotoTame DEF PCs
<1>4. TypeOK'
  BY <1>1, <1>2, <1>3 DEF TypeOK
<1> QED
  BY <1>1, <1>3, <1>4, Quiet

\* The reads of a keyed enqueue preserve the invariant.
LEMMA EnqueuerMoves ==
    ASSUME Inv, NEW e \in Enqueuers,
           \/ InsertConflicts(e) \/ LookupHolder(e)
           \/ \E k \in Keys : EnqueueKeyed(e, k)
    PROVE  Inv'
<1>1. TypeOK /\ enq[e] \in EnqueuerState
  BY InvParts DEF TypeOK
<1>2. UNCHANGED <<job, sched, rn, runs>>
  BY DEF InsertConflicts, LookupHolder, EnqueueKeyed
<1>3. enq' \in [Enqueuers -> EnqueuerState]
  <2>1. CASE \E k \in Keys : EnqueueKeyed(e, k)
    BY <1>1, <2>1, BoundAssumption DEF EnqueueKeyed, TypeOK, EnqueuerState
  <2>2. CASE InsertConflicts(e)
    BY <1>1, <2>2 DEF InsertConflicts, TypeOK, EnqueuerState
  <2>3. CASE LookupHolder(e)
    <3> DEFINE x == [enq[e] EXCEPT !.pc = "insert", !.retries = enq[e].retries - 1]
    <3>1. enq' = [enq EXCEPT ![e] = IF Holders(enq[e].key) # {} \/ enq[e].retries = 0
                                    THEN Ready ELSE x]
      BY <2>3 DEF LookupHolder
    <3>2. Ready \in EnqueuerState
      BY DEF Ready, EnqueuerState
    <3>3. ASSUME enq[e].retries # 0 PROVE x \in EnqueuerState
      <4>1. enq[e].retries - 1 \in Nat
        BY <1>1, <3>3 DEF EnqueuerState
      <4> QED
        BY <1>1, <4>1 DEF EnqueuerState
    <3> HIDE DEF x
    <3> QED
      BY <1>1, <3>1, <3>2, <3>3 DEF TypeOK
  <2> QED
    BY <2>1, <2>2, <2>3
<1>4. TypeOK' /\ \A q \in Runners : Tame(q)
  BY <1>1, <1>2, <1>3 DEF TypeOK, Tame
<1> QED
  BY <1>2, <1>4, Quiet

-----------------------------------------------------------------------------
\* The invariant holds initially.
LEMMA InitInv == Init => Inv
<1> SUFFICES ASSUME Init PROVE Inv
  OBVIOUS
<1>1. TypeOK
  BY RowTypes, IdleType DEF Init, TypeOK, Unscheduled, Ready, EnqueuerState
<1>2. \A r \in Runners : RunnerOK(r)
  BY IdleType DEF Init, RunnerOK, Running
<1>3. ASSUME NEW j \in Jobs PROVE RowOK(j, job[j], runs[j])
  <2>1. job[j].status = "absent" /\ runs[j] = 0
    BY DEF Init, Absent
  <2>2. 0 <= MaxAttempts[j] * (Cap + 1)
    <3>1. MaxAttempts[j] \in Nat /\ Cap + 1 \in Nat
      BY QueueAssumption, BoundAssumption
    <3> QED
      BY <3>1
  <2> QED
    BY <2>1, <2>2 DEF RowOK
<1>4. OneLivePerKey
  BY QueueAssumption DEF Init, OneLivePerKey, Holders, Live, Absent, LiveStatuses
<1> QED
  BY <1>1, <1>2, <1>3, <1>4, InvParts

\* Whatever a handler's outcome, recording it preserves the invariant.
LEMMA OutcomeStep ==
    ASSUME Inv, NEW r \in Runners, Outcome(r)
    PROVE  Inv'
<1>1. CASE Complete(r)
  BY <1>1, CompleteStep
<1>2. CASE Dead(r)
  BY <1>2, DeadStep
<1>3. ASSUME NEW w \in RetryDelays(rn[r].attempts), Fail(r, w) PROVE Inv'
  BY <1>3, FailStep
<1>4. ASSUME NEW w \in 0..MaxRetryAt, Defer(r, w) \/ WaitFree(r, w) PROVE Inv'
  BY <1>4, DeferStep, WaitFreeStep
<1> QED
  BY <1>1, <1>2, <1>3, <1>4 DEF Outcome

\* Every step of the queue preserves the invariant.
LEMMA NextInv == Inv /\ [Next]_vars => Inv'
<1> SUFFICES ASSUME Inv, [Next]_vars PROVE Inv'
  OBVIOUS
<1>1. CASE Inserting
  <2>1. ASSUME NEW j \in Jobs, NEW w \in 0..MaxRetryAt, Enqueue(j, w) PROVE Inv'
    BY <2>1, EnqueueStep
  <2>2. ASSUME NEW e \in Enqueuers, NEW j \in Jobs, NEW w \in 0..MaxRetryAt,
               InsertCreates(e, j, w)
        PROVE  Inv'
    BY <2>2, InsertCreatesStep
  <2>3. ASSUME NEW e \in Enqueuers,
               \/ InsertConflicts(e) \/ LookupHolder(e)
               \/ \E k \in Keys : EnqueueKeyed(e, k)
        PROVE  Inv'
    BY <2>3, EnqueuerMoves
  <2> QED
    BY <1>1, <2>1, <2>2, <2>3 DEF Inserting
<1>2. ASSUME NEW r \in Runners, StartTick(r) \/ PhaseFails(r) \/ Crash(r)
      PROVE  Inv'
  BY <1>2, RunnerMoves
<1>3. ASSUME NEW r \in Runners, NEW j \in Jobs, Kick(r, j) PROVE Inv'
  BY <1>3, RunnerMoves
<1>4. ASSUME NEW r \in Runners, Step(r) PROVE Inv'
  <2>1. CASE Tick(r)
    BY <2>1, EnsureStep, ReclaimStep, AdvanceDueStep DEF Tick
  <2>2. CASE \E j \in Jobs : Claim(r, j)
    BY <2>2, ClaimStep
  <2>3. CASE ClaimNothing(r)
    BY <2>3, RunnerMoves
  <2>4. CASE Outcome(r)
    BY <2>4, OutcomeStep
  <2> QED
    BY <1>4, <2>1, <2>2, <2>3, <2>4 DEF Step
<1>5. CASE Prune
  BY <1>5, PruneStep
<1>6. CASE Elapse
  BY <1>6, ElapseStep
<1>7. CASE UNCHANGED vars
  <2>1. UNCHANGED <<job, sched, rn, enq, runs>>
    BY <1>7 DEF vars
  <2>2. TypeOK' /\ \A q \in Runners : Tame(q)
    BY <2>1, InvParts DEF TypeOK, Tame
  <2> QED
    BY <2>1, <2>2, Quiet
<1> QED
  BY <1>1, <1>2, <1>3, <1>4, <1>5, <1>6, <1>7 DEF Next

\* The invariant holds of every queue, whatever its bounds and time limits.
THEOREM Invariance == Spec => []Inv
<1>1. Init => Inv
  BY InitInv
<1>2. Inv /\ [Next]_vars => Inv'
  BY NextInv
<1> QED
  BY <1>1, <1>2, PTL DEF Spec

\* Claims are exclusive for every visibility and function limit in the order
\* JobTiming demands: reclaimExpired never takes a job from a live runner.
THEOREM ClaimsExclusive == Spec => []ClaimExclusive
<1>1. Inv => ClaimExclusive
  BY DEF Inv, LocksCover, ClaimExclusive
<1> QED
  BY <1>1, Invariance, PTL

\* No handler behaviour and no sequence of crashes runs a job more often than
\* its attempts and the cap on consecutive RetryAt allow.
THEOREM RetriesAreBounded == Spec => []RetriesBounded
<1>1. Inv => RetriesBounded
  BY DEF Inv, RunsPaid, RetriesBounded
<1> QED
  BY <1>1, Invariance, PTL

\* A dead job has used up its attempts or has a payload that does not parse.
THEOREM DeathIsEarned == Spec => []DeadIsExhausted
<1>1. Inv => DeadIsExhausted
  BY DEF Inv
<1> QED
  BY <1>1, Invariance, PTL

\* At most one live row per dedupe key.
THEOREM KeysUnique == Spec => []OneLivePerKey
<1>1. Inv => OneLivePerKey
  BY DEF Inv
<1> QED
  BY <1>1, Invariance, PTL

-----------------------------------------------------------------------------
(* What a step does to a row.                                              *)

RowStep(j) ==
    \/ job'[j].status = job[j].status /\ job'[j].lockedBy = job[j].lockedBy
    \/ job[j].status \in {"absent", "queued"}
    \/ Finished(j) /\ job'[j].status = "deleted"
    \/ Expired(j)
    \/ job[j].status = "running" /\ rn'[job[j].lockedBy] # rn[job[j].lockedBy]

\* A guarded write moves its row as its lifecycle allows.
LEMMA WrittenRowStep ==
    ASSUME Inv, NEW r \in Runners, Running(r), NEW row, WriteClaimed(r, row), NextJob(r)
    PROVE  \A j \in Jobs : RowStep(j)
<1>1. TypeOK /\ RunnerOK(r)
  BY InvParts
<1>2. rn'[r] # rn[r]
  BY <1>1, AfterRun DEF Running
<1>3. CASE ~Holds(r)
  BY <1>3 DEF WriteClaimed, RowStep
<1>4. CASE Holds(r)
  BY <1>1, <1>2, <1>4 DEF WriteClaimed, RowStep, Holds, TypeOK
<1> QED
  BY <1>3, <1>4

\* Every step moves every row as its lifecycle allows.
LEMMA NextRowStep ==
    ASSUME Inv, [Next]_vars, NEW j \in Jobs
    PROVE  RowStep(j)
<1>1. TypeOK
  BY InvParts
<1>2. CASE UNCHANGED job
  BY <1>2 DEF RowStep
<1>3. CASE Inserting
  BY <1>1, <1>3 DEF Inserting, Enqueue, EnqueueKeyed, InsertCreates, InsertConflicts,
                    LookupHolder, RowStep, TypeOK
<1>4. ASSUME NEW r \in Runners, Outcome(r) PROVE RowStep(j)
  <2>1. CASE Complete(r)
    BY <2>1, WrittenRowStep DEF Complete
  <2>2. CASE Dead(r)
    BY <2>2, WrittenRowStep DEF Dead
  <2>3. ASSUME NEW w, Fail(r, w) PROVE RowStep(j)
    BY <2>3, WrittenRowStep DEF Fail
  <2>4. ASSUME NEW w, Defer(r, w) PROVE RowStep(j)
    BY <2>4, WrittenRowStep DEF Defer
  <2>5. ASSUME NEW w, WaitFree(r, w) PROVE RowStep(j)
    BY <2>5, WrittenRowStep DEF WaitFree
  <2> QED
    BY <1>4, <2>1, <2>2, <2>3, <2>4, <2>5 DEF Outcome
<1>5. ASSUME NEW r \in Runners, NEW i \in Jobs, Claim(r, i) PROVE RowStep(j)
  <2>1. job[i].status = "queued"
    BY <1>5 DEF Claim, Claimable, Due
  <2>2. j # i => job'[j] = job[j]
    BY <1>1, <1>5 DEF Claim, TypeOK
  <2> QED
    BY <2>1, <2>2 DEF RowStep
<1>6. ASSUME NEW r \in Runners, ReclaimExpired(r) PROVE RowStep(j)
  <2>1. CASE Expired(j)
    BY <2>1 DEF RowStep
  <2>2. CASE ~Expired(j)
    <3>1. job'[j] = job[j]
      BY <1>6, <2>2 DEF ReclaimExpired
    <3> QED
      BY <3>1 DEF RowStep
  <2> QED
    BY <2>1, <2>2
<1>7. ASSUME NEW r \in Runners, AdvanceDue(r) PROVE RowStep(j)
  <2>1. PICK new \in SUBSET Jobs :
           /\ \A i \in new : job[i].status = "absent"
           /\ job' = [i \in Jobs |-> IF i \in new THEN Inserted ELSE job[i]]
    BY <1>7 DEF AdvanceDue
  <2> QED
    BY <2>1 DEF RowStep
<1>8. CASE Prune
  <2>1. Deleted.status = "deleted"
    BY DEF Deleted, Absent
  <2> QED
    BY <1>8, <2>1 DEF Prune, PastRetention, Finished, RowStep
<1>9. CASE Elapse
  <2>1. job'[j] = RowLater(job[j]) /\ job[j] \in Row
    BY <1>1, <1>9 DEF Elapse, TypeOK
  <2> QED
    BY <2>1, RowLaterRow DEF RowStep
<1>10. ASSUME NEW r \in Runners,
              \/ StartTick(r) \/ PhaseFails(r) \/ Crash(r) \/ ClaimNothing(r)
              \/ EnsureSchedules(r) \/ \E i \in Jobs : Kick(r, i)
       PROVE  UNCHANGED job
  BY <1>10 DEF StartTick, PhaseFails, Crash, ClaimNothing, EnsureSchedules, Kick
<1> QED
  BY <1>2, <1>3, <1>4, <1>5, <1>6, <1>7, <1>8, <1>9, <1>10 DEF Next, Step, Tick, vars

\* A finished job stays what it became until prune deletes it.
THEOREM FinishedStays == Spec => FinishedIsFinal
<1>1. Inv /\ [Next]_vars
         => [\A j \in Jobs : Finished(j) => job'[j].status \in {job[j].status, "deleted"}]_vars
  BY NextRowStep DEF RowStep, Finished, FinishedStatuses, Expired
<1> QED
  BY <1>1, Invariance, PTL DEF Spec, FinishedIsFinal

\* Nobody but its claimer ends a claim whose lock has not expired.
THEOREM OwnersOnly == Spec => OnlyOwnerWrites
<1>1. Inv /\ [Next]_vars
         => [\A j \in Jobs : job[j].status = "running" /\ ~Expired(j) =>
                \/ job'[j].status = "running" /\ job'[j].lockedBy = job[j].lockedBy
                \/ rn'[job[j].lockedBy] # rn[job[j].lockedBy]]_vars
  BY NextRowStep DEF RowStep, Finished, FinishedStatuses
<1> QED
  BY <1>1, Invariance, PTL DEF Spec, OnlyOwnerWrites

-----------------------------------------------------------------------------
(* The schedule slots.                                                     *)

\* Division with remainder, for any integer and positive divisor.
LEMMA Quotient ==
    ASSUME NEW d \in Int, NEW i \in Nat \ {0}
    PROVE  d \div i \in Int /\ (d \div i) * i <= d /\ d < (d \div i) * i + i
  BY SMT

\* A multiple leaves no remainder.
LEMMA Multiple ==
    ASSUME NEW k \in Int, NEW i \in Nat \ {0}
    PROVE  (k * i) % i = 0
  BY SMT

\* nextIntervalSlot is the first slot of the grid after now and after the slot it
\* fired for, for every interval and however late the tick.
THEOREM NextSlotIsFirst ==
    ASSUME NEW slot \in Int, NEW interval \in Nat \ {0}, NEW now \in Int
    PROVE  FirstSlotAfter(NextIntervalSlot(slot, interval, now), slot, interval, now)
<1> DEFINE passed == (now - slot) \div interval
           steps == IF passed + 1 > 1 THEN passed + 1 ELSE 1
           n == slot + steps * interval
           m == passed * interval
<1>1. passed \in Int /\ m <= now - slot /\ now - slot < m + interval
  BY Quotient
<1>2. steps \in Int /\ m \in Int
  BY <1>1
<1>3. NextIntervalSlot(slot, interval, now) = n
  BY DEF NextIntervalSlot
<1>4. n - slot = steps * interval /\ n \in Int
  BY <1>2
<1>5. (n - slot) % interval = 0
  BY <1>2, <1>4, Multiple
<1>6. CASE passed + 1 > 1
  <2>1. n = slot + m + interval /\ m >= 0
    BY <1>1, <1>6
  <2> HIDE DEF n, m, passed, steps
  <2> QED
    BY <2>1, <1>1, <1>2, <1>3, <1>5 DEF FirstSlotAfter
<1>7. CASE ~(passed + 1 > 1)
  <2>1. n = slot + interval /\ m <= 0
    BY <1>1, <1>7
  <2> HIDE DEF n, m, passed, steps
  <2> QED
    BY <2>1, <1>1, <1>2, <1>3, <1>5 DEF FirstSlotAfter
<1> QED
  BY <1>6, <1>7

\* A schedule that fires was due and moves to its first slot in the future.
LEMMA AdvanceSkips ==
    ASSUME Inv, NEW q \in Runners, AdvanceDue(q), NEW s \in Schedules, sched'[s] # sched[s]
    PROVE  sched[s].next <= 0 /\ sched'[s].next \in 1..Interval[s]
<1>1. PICK due \in SUBSET DueSchedules :
         sched' = [t \in Schedules |->
               IF t \in due
               THEN [sched[t] EXCEPT !.next = NextIntervalSlot(sched[t].next, Interval[t], 0)]
               ELSE sched[t]]
  BY DEF AdvanceDue
<1>2. s \in due
  BY <1>1
<1>3. sched[s] \in [exists : BOOLEAN, next : Int] /\ Interval[s] \in Nat \ {0}
  BY InvParts, QueueAssumption DEF TypeOK
<1>4. sched[s].next <= 0
  BY <1>2 DEF DueSchedules
<1> DEFINE n == NextIntervalSlot(sched[s].next, Interval[s], 0)
<1>5. sched'[s].next = n
  BY <1>1, <1>2, <1>3
<1>6. n \in Int /\ FirstSlotAfter(n, sched[s].next, Interval[s], 0)
  <2>1. sched[s].next \in Int /\ 0 \in Int
    BY <1>3
  <2> QED
    BY <2>1, <1>3, NextSlotType, NextSlotIsFirst, Zenon
<1> HIDE DEF n
<1>7. n > 0 /\ n - Interval[s] <= 0
  BY <1>3, <1>4, <1>6 DEF FirstSlotAfter
<1> QED
  BY <1>3, <1>4, <1>5, <1>6, <1>7

\* However late and however many ticks overlap, a firing skips the missed slots.
THEOREM SlotsSkipped == Spec => MissedSlotsSkipped
<1>1. ASSUME Inv, [Next]_vars, NEW r \in Runners, NEW s \in Schedules,
             rn[r].pc = "advance", rn'[r].pc = "drain", sched'[s] # sched[s]
      PROVE  sched[s].next <= 0 /\ sched'[s].next \in 1..Interval[s]
  <2>1. TypeOK
    BY <1>1, InvParts
  <2>2. ~Elapse
    BY <1>1, <2>1 DEF Elapse, TypeOK, RunnerState
  <2>3. ASSUME NEW q \in Runners, EnsureSchedules(q) PROVE FALSE
    BY <1>1, <2>1, <2>3 DEF EnsureSchedules, Goto, Become, TypeOK, RunnerState
  <2>4. CASE Inserting \/ Prune \/ UNCHANGED vars
    BY <1>1, <2>4 DEF Inserting, Enqueue, EnqueueKeyed, InsertCreates, InsertConflicts,
                      LookupHolder, Prune, vars
  <2>5. ASSUME NEW q \in Runners,
               \/ StartTick(q) \/ PhaseFails(q) \/ Crash(q) \/ ClaimNothing(q)
               \/ ReclaimExpired(q) \/ Outcome(q)
               \/ \E j \in Jobs : Kick(q, j) \/ Claim(q, j)
        PROVE  UNCHANGED sched
    BY <2>5 DEF StartTick, PhaseFails, Crash, ClaimNothing, ReclaimExpired, Outcome, Complete,
                Dead, Fail, Defer, WaitFree, Kick, Claim
  <2>6. ASSUME NEW q \in Runners,
               \/ StartTick(q) \/ PhaseFails(q) \/ Crash(q) \/ Step(q)
               \/ \E j \in Jobs : Kick(q, j)
        PROVE  AdvanceDue(q)
    <3>1. ~UNCHANGED sched
      BY <1>1
    <3> QED
      BY <2>3, <2>5, <2>6, <3>1 DEF Step, Tick
  <2>7. CASE \E q \in Runners : AdvanceDue(q)
    BY <1>1, <2>7, AdvanceSkips
  <2> QED
    BY <1>1, <2>2, <2>4, <2>6, <2>7 DEF Next
<1>2. Inv /\ [Next]_vars
         => [\A r \in Runners, s \in Schedules :
                rn[r].pc = "advance" /\ rn'[r].pc = "drain" /\ sched'[s] # sched[s]
                    => sched[s].next <= 0 /\ sched'[s].next \in 1..Interval[s]]_vars
  BY <1>1
<1> QED
  BY <1>2, Invariance, PTL DEF Spec, MissedSlotsSkipped

-----------------------------------------------------------------------------
(* The contract of module ExclusiveJobs.                                   *)

\* A piece of work has at most one live row.
LiveApart == \A i, j \in Jobs : Live(i) /\ Live(j) /\ WorkOf(i) = WorkOf(j) => i = j

\* That is what the unique index of keys gives.
LEMMA OneRowEach == ASSUME OneLivePerKey PROVE LiveApart
<1> SUFFICES ASSUME NEW i \in Jobs, NEW j \in Jobs, Live(i), Live(j), WorkOf(i) = WorkOf(j) PROVE i = j
  BY DEF LiveApart
<1>1. CASE i \in DOMAIN KeyOf /\ j \in DOMAIN KeyOf
  <2>1. KeyOf[i] = KeyOf[j] /\ KeyOf[i] \in Keys
    BY <1>1, QueueAssumption DEF WorkOf
  <2> QED
    BY <1>1, <2>1 DEF OneLivePerKey, Holders
<1>2. CASE i \notin DOMAIN KeyOf \/ j \notin DOMAIN KeyOf
  BY <1>2 DEF WorkOf
<1> QED
  BY <1>1, <1>2

\* The same of the next state.
LEMMA OneRowEachNext == ASSUME OneLivePerKey' PROVE LiveApart'
<1> SUFFICES ASSUME NEW i \in Jobs, NEW j \in Jobs, Live(i)', Live(j)', WorkOf(i) = WorkOf(j) PROVE i = j
  BY DEF LiveApart, WorkOf
<1>1. CASE i \in DOMAIN KeyOf /\ j \in DOMAIN KeyOf
  <2>1. KeyOf[i] = KeyOf[j] /\ KeyOf[i] \in Keys
    BY <1>1, QueueAssumption DEF WorkOf
  <2> QED
    BY <1>1, <2>1 DEF OneLivePerKey, Holders
<1>2. CASE i \notin DOMAIN KeyOf \/ j \notin DOMAIN KeyOf
  BY <1>2 DEF WorkOf
<1> QED
  BY <1>1, <1>2

\* How a piece of work stands, by its rows.
StandsAs(x, f) ==
    /\ f[x] \in {"absent", "queued", "running"}
    /\ f[x] = "running" <=> \E j \in Jobs : WorkOf(j) = x /\ job[j].status = "running"
    /\ f[x] = "queued" <=> \E j \in Jobs : WorkOf(j) = x /\ job[j].status = "queued"

\* The definition of Standing, where no work has two live rows.
LEMMA Stands ==
    ASSUME LiveApart
    PROVE  \A x \in Works : StandsAs(x, Standing)
<1> SUFFICES ASSUME NEW x \in Works PROVE StandsAs(x, Standing)
  OBVIOUS
<1>1. Standing[x] = IF \E j \in Jobs : WorkOf(j) = x /\ job[j].status = "running" THEN "running"
                    ELSE IF \E j \in Jobs : WorkOf(j) = x /\ job[j].status = "queued" THEN "queued" ELSE "absent"
  BY DEF Standing, RowsOf
<1>2. ~ \E i, j \in Jobs : WorkOf(i) = x /\ WorkOf(j) = x /\ job[i].status = "running" /\ job[j].status = "queued"
  BY DEF LiveApart, Live, LiveStatuses
<1> QED
  BY <1>1, <1>2 DEF StandsAs

\* The same of the next state.
LEMMA StandsNext ==
    ASSUME LiveApart'
    PROVE  \A x \in Works : StandsAs(x, Standing)'
<1> SUFFICES ASSUME NEW x \in Works PROVE StandsAs(x, Standing)'
  BY DEF Works, WorkOf
<1>1. Standing'[x] = IF \E j \in Jobs : WorkOf(j) = x /\ job'[j].status = "running" THEN "running"
                     ELSE IF \E j \in Jobs : WorkOf(j) = x /\ job'[j].status = "queued" THEN "queued" ELSE "absent"
  BY DEF Standing, RowsOf, Works, WorkOf
<1>2. ~ \E i, j \in Jobs : WorkOf(i) = x /\ WorkOf(j) = x /\ job'[i].status = "running" /\ job'[j].status = "queued"
  BY DEF LiveApart, Live, LiveStatuses, WorkOf
<1> QED
  BY <1>1, <1>2 DEF StandsAs, WorkOf

\* Both states of a step, as the contract sees them.
LEMMA Views ==
    ASSUME Inv, Inv'
    PROVE  /\ LiveApart /\ LiveApart'
           /\ DOMAIN Standing = Works /\ DOMAIN Standing' = Works
           /\ Standing = [x \in Works |-> Standing[x]] /\ Standing' = [x \in Works |-> Standing'[x]]
           /\ \A x \in Works : StandsAs(x, Standing)
           /\ \A x \in Works : /\ Standing'[x] \in {"absent", "queued", "running"}
                               /\ Standing'[x] = "running" <=>
                                     \E j \in Jobs : WorkOf(j) = x /\ job'[j].status = "running"
                               /\ Standing'[x] = "queued" <=>
                                     \E j \in Jobs : WorkOf(j) = x /\ job'[j].status = "queued"
           /\ \A j \in Jobs : WorkOf(j) \in Works
<1>1. LiveApart /\ LiveApart'
  BY OneRowEach, OneRowEachNext DEF Inv
<1>2. DOMAIN Standing = Works /\ DOMAIN Standing' = Works
      /\ Standing = [x \in Works |-> Standing[x]] /\ Standing' = [x \in Works |-> Standing'[x]]
  BY DEF Standing, Works, WorkOf
<1>3. \A j \in Jobs : WorkOf(j) \in Works
  BY DEF Works
<1>4. \A x \in Works : StandsAs(x, Standing)'
  BY <1>1, StandsNext
<1> QED
  BY <1>1, <1>2, <1>3, <1>4, Stands DEF StandsAs, WorkOf

\* Who is at work, in both states.
LEMMA BusyViews ==
    /\ BusyWith = {x \in Works : \E r \in Runners : Running(r) /\ rn[r].job \in Jobs /\ WorkOf(rn[r].job) = x}
    /\ BusyWith' = {x \in Works : \E r \in Runners : Running(r)' /\ rn'[r].job \in Jobs /\ WorkOf(rn'[r].job) = x}
BY DEF BusyWith, RowsOf, Works, WorkOf

\* A step that moves no row into or out of life and no runner to or from a run.
LEMMA UnmovedStep ==
    ASSUME Inv, Inv', \A j \in Jobs : Live(j) \/ Live(j)' => job'[j].status = job[j].status,
           \A r \in Runners : /\ Running(r)' <=> Running(r)
                              /\ Running(r) => rn'[r].job = rn[r].job
    PROVE  [E!Next]_(E!contractVars)
<1>1. \A x \in Works : Standing'[x] = Standing[x]
  BY Views DEF StandsAs, Live, LiveStatuses
<1>2. Standing' = Standing
  BY <1>1, Views
<1>3. BusyWith' = BusyWith
  BY BusyViews
<1> QED
  BY <1>2, <1>3 DEF E!contractVars

\* New rows.
LEMMA EnqueuedStep ==
    ASSUME Inv, Inv', NEW N \in SUBSET Jobs,
           \A j \in N : job[j].status = "absent" /\ job'[j].status = "queued",
           \A j \in Jobs \ N : job'[j] = job[j],
           \A r \in Runners : /\ Running(r)' <=> Running(r)
                              /\ Running(r) => rn'[r].job = rn[r].job
    PROVE  [E!Next]_(E!contractVars)
<1> DEFINE S == {WorkOf(j) : j \in N}
<1>1. S \in SUBSET Works
  BY DEF Works
<1>2. \A j \in N, i \in Jobs : WorkOf(i) = WorkOf(j) => ~Live(i)
  BY Views DEF LiveApart, Live, LiveStatuses, WorkOf
<1>3. \A x \in S : Standing[x] = "absent"
  BY <1>1, <1>2, Views DEF StandsAs, Live, LiveStatuses
<1>4. \A x \in S : Standing'[x] = "queued"
  BY <1>1, Views
<1>5. \A x \in Works \ S : Standing'[x] = Standing[x]
  BY Views DEF StandsAs
<1>6. Standing' = [x \in Works |-> IF x \in S THEN "queued" ELSE Standing[x]]
  BY <1>4, <1>5, Views
<1>7. BusyWith' = BusyWith
  BY BusyViews
<1>8. E!Enqueue(S)
  BY <1>3, <1>6, <1>7 DEF E!Enqueue
<1> HIDE DEF S
<1> QED
  BY <1>1, <1>8 DEF E!Next

\* One row moves, with the runner that claims or leaves it.
LEMMA OneRowMoves ==
    ASSUME Inv, Inv', NEW j \in Jobs, Live(j), \A i \in Jobs \ {j} : job'[i] = job[i]
    PROVE  /\ \A x \in Works \ {WorkOf(j)} : Standing'[x] = Standing[x]
           /\ Standing[WorkOf(j)] = job[j].status
           /\ Standing'[WorkOf(j)] = IF Live(j)' THEN job'[j].status ELSE "absent"
<1>1. \A x \in Works \ {WorkOf(j)} : Standing'[x] = Standing[x]
  BY Views DEF StandsAs
<1>2. Standing[WorkOf(j)] = job[j].status
  BY Views DEF StandsAs, Live, LiveStatuses
<1>3. \A i \in Jobs : i # j /\ WorkOf(i) = WorkOf(j) => ~Live(i)'
  BY Views DEF LiveApart, Live
<1>4. Standing'[WorkOf(j)] = IF Live(j)' THEN job'[j].status ELSE "absent"
  BY <1>3, Views DEF Live, LiveStatuses
<1> QED
  BY <1>1, <1>2, <1>4

\* Where locks outlast invocations, a runner at work holds the live row of its work, alone.
LEMMA HolderAlone ==
    ASSUME Inv, Visibility > FunctionMax, NEW r \in Runners, Running(r)
    PROVE  /\ rn[r].job \in Jobs /\ job[rn[r].job].status = "running" /\ job[rn[r].job].lockedBy = r
           /\ \A j \in Jobs : Live(j) /\ WorkOf(j) = WorkOf(rn[r].job) => j = rn[r].job
           /\ \A q \in Runners : Running(q) /\ WorkOf(rn[q].job) = WorkOf(rn[r].job) => q = r
<1>1. \A q \in Runners : Running(q) =>
         rn[q].job \in Jobs /\ job[rn[q].job].status = "running" /\ job[rn[q].job].lockedBy = q
  BY InvParts DEF RunnerOK, Running, Holds
<1>2. LiveApart
  BY OneRowEach DEF Inv
<1> QED
  BY <1>1, <1>2 DEF LiveApart, Live, LiveStatuses

\* What the runners see of a step that does not touch them.
LEMMA RunnersStay ==
    ASSUME rn' = rn
    PROVE  \A r \in Runners : (Running(r)' <=> Running(r)) /\ (Running(r) => rn'[r].job = rn[r].job)
BY DEF Running

\* A runner that is not at a run and does not begin one.
LEMMA RunnerAside ==
    ASSUME TypeOK, NEW r \in Runners, ~Running(r), NEW x, Become(r, x), x.pc # "run"
    PROVE  \A q \in Runners : (Running(q)' <=> Running(q)) /\ (Running(q) => rn'[q].job = rn[q].job)
BY DEF TypeOK, Become, Running

\* The same of a runner that goes on to another statement.
LEMMA RunnerGoes ==
    ASSUME TypeOK, NEW r \in Runners, ~Running(r), NEW pc, Goto(r, pc), pc # "run"
    PROVE  \A q \in Runners : (Running(q)' <=> Running(q)) /\ (Running(q) => rn'[q].job = rn[q].job)
<1>1. rn[r] \in RunnerState
  BY DEF TypeOK
<1>2. [rn[r] EXCEPT !.pc = pc].pc = pc
  BY <1>1 DEF RunnerState
<1>3. Become(r, [rn[r] EXCEPT !.pc = pc])
  BY DEF Goto
<1> QED
  BY <1>2, <1>3, RunnerAside

\* Enqueueing.
LEMMA ContractInserting ==
    ASSUME Inv, Inv', Inserting
    PROVE  [E!Next]_(E!contractVars)
<1>1. TypeOK /\ Inserted.status = "queued"
  BY DEF Inv, Inserted, Absent
<1>2. ASSUME NEW j \in Jobs, NEW w, job[j].status = "absent", rn' = rn,
             job' = [job EXCEPT ![j] = [Inserted EXCEPT !.wait = w]]
      PROVE  [E!Next]_(E!contractVars)
  <2>1. [Inserted EXCEPT !.wait = w].status = "queued"
    BY DEF Inserted, Absent
  <2>2. job'[j].status = "queued" /\ \A i \in Jobs \ {j} : job'[i] = job[i]
    BY <1>1, <1>2, <2>1 DEF TypeOK
  <2> QED
    BY <1>2, <2>2, RunnersStay, EnqueuedStep
<1>3. CASE \E j \in Jobs, w \in 0..MaxRetryAt : Enqueue(j, w)
  BY <1>2, <1>3 DEF Enqueue
<1>4. CASE \E e \in Enqueuers, j \in Jobs, w \in 0..MaxRetryAt : InsertCreates(e, j, w)
  BY <1>2, <1>4 DEF InsertCreates
<1>5. CASE \/ \E e \in Enqueuers, k \in Keys : EnqueueKeyed(e, k)
           \/ \E e \in Enqueuers : InsertConflicts(e) \/ LookupHolder(e)
  <2>1. rn' = rn /\ job' = job
    BY <1>5 DEF EnqueueKeyed, InsertConflicts, LookupHolder
  <2> QED
    BY <2>1, RunnersStay, UnmovedStep
<1> QED
  BY <1>3, <1>4, <1>5 DEF Inserting

\* A tick up to its drain, and the steps of a runner that is not at a run.
LEMMA ContractAside ==
    ASSUME Inv, Inv', NEW r \in Runners, ~Running(r),
           \/ StartTick(r) \/ PhaseFails(r) \/ Crash(r) \/ ClaimNothing(r) \/ EnsureSchedules(r)
           \/ \E j \in Jobs : Kick(r, j)
    PROVE  [E!Next]_(E!contractVars)
<1>1. TypeOK /\ job' = job /\ Idle.pc = "idle"
  BY DEF Inv, StartTick, PhaseFails, Crash, ClaimNothing, EnsureSchedules, Kick, Idle
<1>2. \A q \in Runners : (Running(q)' <=> Running(q)) /\ (Running(q) => rn'[q].job = rn[q].job)
  <2>1. CASE StartTick(r) \/ \E j \in Jobs : Kick(r, j)
    <3>1. [Idle EXCEPT !.pc = "ensure", !.left = MaxJobs].pc = "ensure"
      BY DEF Idle
    <3>2. \A j : [Idle EXCEPT !.pc = "kick", !.left = 1, !.job = j].pc = "kick"
      BY DEF Idle
    <3>3. \E x : Become(r, x) /\ x.pc # "run"
      BY <2>1, <3>1, <3>2 DEF StartTick, Kick
    <3> QED
      BY <1>1, <3>3, RunnerAside
  <2>2. CASE PhaseFails(r)
    <3>1. NextPhase(rn[r].pc) # "run"
      BY <2>2 DEF PhaseFails, NextPhase, Bookkeeping
    <3> QED
      BY <1>1, <2>2, <3>1, RunnerGoes DEF PhaseFails
  <2>3. CASE EnsureSchedules(r)
    BY <1>1, <2>3, RunnerGoes DEF EnsureSchedules
  <2>4. CASE Crash(r) \/ ClaimNothing(r)
    BY <1>1, <2>4, RunnerAside DEF Crash, ClaimNothing, Stop
  <2> QED
    BY <2>1, <2>2, <2>3, <2>4
<1> QED
  BY <1>1, <1>2, UnmovedStep

\* The schedules that fire.
LEMMA ContractAdvance ==
    ASSUME Inv, Inv', NEW r \in Runners, AdvanceDue(r)
    PROVE  [E!Next]_(E!contractVars)
<1>1. TypeOK /\ Inserted.status = "queued" /\ ~Running(r)
  BY DEF Inv, Inserted, Absent, AdvanceDue, Running
<1>2. PICK N \in SUBSET Jobs :
         /\ \A j \in N : job[j].status = "absent"
         /\ job' = [j \in Jobs |-> IF j \in N THEN Inserted ELSE job[j]]
  BY DEF AdvanceDue
<1>3. \A q \in Runners : (Running(q)' <=> Running(q)) /\ (Running(q) => rn'[q].job = rn[q].job)
  BY <1>1, RunnerGoes DEF AdvanceDue
<1> QED
  BY <1>1, <1>2, <1>3, EnqueuedStep

\* A claim starts a run, of work that nobody else is at.
LEMMA ContractClaim ==
    ASSUME Inv, Inv', Visibility > FunctionMax, NEW r \in Runners, NEW j \in Jobs, Claim(r, j)
    PROVE  [E!Next]_(E!contractVars)
<1> DEFINE x == WorkOf(j)
<1>1. TypeOK /\ job[j].status = "queued" /\ ~Running(r)
  BY DEF Inv, Claim, Claimable, Due, MayClaim, Running
<1>2. job'[j].status = "running" /\ \A i \in Jobs \ {j} : job'[i] = job[i]
  <2> DEFINE row == [job[j] EXCEPT !.status = "running", !.lock = Visibility, !.lockedBy = r,
                                   !.attempts = job[j].attempts + 1]
  <2>1. job[j] \in Row /\ job' = [job EXCEPT ![j] = row]
    BY <1>1 DEF Claim, TypeOK
  <2>2. row.status = "running"
    BY <2>1 DEF Row
  <2> HIDE DEF row
  <2> QED
    BY <1>1, <2>1, <2>2 DEF TypeOK
<1>3. rn'[r].pc = "run" /\ rn'[r].job = j /\ \A q \in Runners \ {r} : rn'[q] = rn[q]
  <2> DEFINE y == [rn[r] EXCEPT !.pc = "run", !.job = j, !.attempts = job[j].attempts + 1,
                                !.deferrals = job[j].deferrals]
  <2>1. rn[r] \in RunnerState /\ rn' = [rn EXCEPT ![r] = y]
    BY <1>1 DEF Claim, Become, TypeOK
  <2>2. y.pc = "run" /\ y.job = j
    BY <2>1 DEF RunnerState
  <2> HIDE DEF y
  <2> QED
    BY <1>1, <2>1, <2>2 DEF TypeOK
<1>4. Live(j) /\ Live(j)'
  BY <1>1, <1>2 DEF Live, LiveStatuses
<1>5. Standing[x] = "queued" /\ Standing'[x] = "running" /\ \A y \in Works \ {x} : Standing'[y] = Standing[y]
  BY <1>1, <1>2, <1>4, OneRowMoves
<1>6. x \in Works /\ Standing' = [Standing EXCEPT ![x] = "running"]
  BY <1>5, Views
<1>7. x \notin BusyWith
  <2>1. ASSUME NEW q \in Runners, Running(q), WorkOf(rn[q].job) = x PROVE FALSE
    BY <1>1, <1>4, <2>1, HolderAlone
  <2> QED
    BY <2>1, BusyViews
<1>8. BusyWith' = BusyWith \cup {x}
  <2>1. \A y \in Works : y \in BusyWith' <=> y \in BusyWith \/ y = x
    BY <1>1, <1>3, BusyViews DEF Running
  <2> QED
    BY <1>6, <2>1, BusyViews
<1>9. E!Start(x)
  BY <1>5, <1>6, <1>7, <1>8 DEF E!Start
<1> QED
  BY <1>6, <1>9 DEF E!Next

\* A runner that leaves its run frees the work.
LEMMA FreesWork ==
    ASSUME Inv, Visibility > FunctionMax, NEW r \in Runners, Running(r), ~Running(r)',
           \A q \in Runners \ {r} : rn'[q] = rn[q]
    PROVE  /\ WorkOf(rn[r].job) \in BusyWith
           /\ BusyWith' = BusyWith \ {WorkOf(rn[r].job)}
<1> DEFINE x == WorkOf(rn[r].job)
<1>1. rn[r].job \in Jobs /\ x \in Works /\ \A q \in Runners : Running(q) /\ WorkOf(rn[q].job) = x => q = r
  BY HolderAlone DEF Works
<1>2. x \in BusyWith
  BY <1>1, BusyViews
<1>3. \A y \in Works : y \in BusyWith' <=> y \in BusyWith /\ y # x
  <2>1. \A q \in Runners \ {r} : Running(q)' <=> Running(q)
    BY DEF Running
  <2> QED
    BY <1>1, <2>1, BusyViews
<1> QED
  BY <1>2, <1>3, BusyViews

\* The write that ends a run.
LEMMA ContractWritten ==
    ASSUME Inv, Inv', Visibility > FunctionMax, NEW r \in Runners, Running(r), NEW row,
           row.status \in {"queued", "succeeded", "dead"}, WriteClaimed(r, row), NextJob(r)
    PROVE  [E!Next]_(E!contractVars)
<1>0. PICK j \in Jobs : j = rn[r].job
  BY HolderAlone
<1> DEFINE x == WorkOf(j)
           left == IF row.status = "queued" THEN "queued" ELSE "absent"
<1>1. TypeOK /\ RunnerOK(r) /\ Holds(r) /\ job[j].status = "running"
  BY <1>0, InvParts, HolderAlone DEF Holds
<1>2. job'[j] = row /\ \A i \in Jobs \ {j} : job'[i] = job[i]
  BY <1>0, <1>1 DEF WriteClaimed, TypeOK
<1>3. ~Running(r)' /\ \A q \in Runners \ {r} : rn'[q] = rn[q]
  BY <1>1, AfterRun DEF Running
<1>4. Live(j) /\ (Live(j)' <=> row.status = "queued")
  BY <1>1, <1>2 DEF Live, LiveStatuses
<1>5. Standing[x] = "running" /\ Standing'[x] = left /\ \A y \in Works \ {x} : Standing'[y] = Standing[y]
  BY <1>1, <1>2, <1>4, OneRowMoves
<1>6. x \in Works /\ Standing' = [Standing EXCEPT ![x] = left]
  BY <1>1, <1>5, Views
<1>7. x \in BusyWith /\ BusyWith' = BusyWith \ {x}
  BY <1>0, <1>3, FreesWork
<1>8. E!End(x, left)
  BY <1>5, <1>6, <1>7 DEF E!End
<1> QED
  BY <1>6, <1>8 DEF E!Next

\* The outcomes of a run.
LEMMA ContractOutcome ==
    ASSUME Inv, Inv', Visibility > FunctionMax, NEW r \in Runners, Outcome(r)
    PROVE  [E!Next]_(E!contractVars)
<1>1. Running(r)
  BY DEF Outcome, Complete, Dead, Fail, Defer, WaitFree
<1>2. job[rn[r].job] \in Row
  BY <1>1, Held
<1>3. \A st : Finish(job[rn[r].job], st).status = st
  BY <1>2 DEF Finish, Row
<1>4. \A w : Requeued(job[rn[r].job], w).status = "queued"
  BY <1>2 DEF Requeued, Row
<1>5. \A w, refund, counts : Deferred(job[rn[r].job], w, refund, counts).status = "queued"
  BY <1>2 DEF Deferred, Row
<1>6. CASE Complete(r)
  BY <1>1, <1>3, <1>6, ContractWritten DEF Complete
<1>7. CASE Dead(r)
  BY <1>1, <1>3, <1>7, ContractWritten DEF Dead
<1>8. ASSUME NEW w, Fail(r, w) PROVE [E!Next]_(E!contractVars)
  BY <1>1, <1>4, <1>8, ContractWritten DEF Fail
<1>9. ASSUME NEW w, Defer(r, w) PROVE [E!Next]_(E!contractVars)
  <2> DEFINE row == Deferred(job[rn[r].job], w, ShouldRefund(r), TRUE)
  <2>1. row.status = "queued" /\ WriteClaimed(r, row) /\ NextJob(r)
    BY <1>5, <1>9 DEF Defer
  <2> HIDE DEF row
  <2> QED
    BY <1>1, <2>1, ContractWritten
<1>10. ASSUME NEW w, WaitFree(r, w) PROVE [E!Next]_(E!contractVars)
  <2> DEFINE row == Deferred(job[rn[r].job], w, TRUE, FALSE)
  <2>1. row.status = "queued" /\ WriteClaimed(r, row) /\ NextJob(r)
    BY <1>5, <1>10 DEF WaitFree
  <2> HIDE DEF row
  <2> QED
    BY <1>1, <2>1, ContractWritten
<1> QED
  BY <1>6, <1>7, <1>8, <1>9, <1>10 DEF Outcome

\* An invocation that dies in the middle of a run.
LEMMA ContractDeath ==
    ASSUME Inv, Inv', Visibility > FunctionMax, NEW r \in Runners, Running(r), Crash(r)
    PROVE  [E!Next]_(E!contractVars)
<1>1. TypeOK /\ job' = job /\ rn' = [rn EXCEPT ![r] = Idle] /\ Idle.pc = "idle"
  BY DEF Inv, Crash, Stop, Become, Idle
<1>2. ~Running(r)' /\ \A q \in Runners \ {r} : rn'[q] = rn[q]
  BY <1>1 DEF TypeOK, Running
<1>3. \A x \in Works : Standing'[x] = Standing[x]
  BY <1>1, Views DEF StandsAs
<1>4. Standing' = Standing
  BY <1>3, Views
<1>5. WorkOf(rn[r].job) \in Works
  BY HolderAlone DEF Works
<1>6. E!Die(WorkOf(rn[r].job))
  BY <1>2, <1>4, FreesWork DEF E!Die
<1> QED
  BY <1>5, <1>6 DEF E!Next

\* Expired locks belong to dead runs.
LEMMA ContractReclaim ==
    ASSUME Inv, Inv', Visibility > FunctionMax, NEW r \in Runners, ReclaimExpired(r)
    PROVE  [E!Next]_(E!contractVars)
<1> DEFINE M == {j \in Jobs : Expired(j)}
           S == {WorkOf(j) : j \in M}
           T == {WorkOf(j) : j \in {i \in M : job[i].attempts < MaxAttempts[i]}}
<1>1. TypeOK /\ ~Running(r)
  BY DEF Inv, ReclaimExpired, Running
<1>2. \A j \in M : job[j].status = "running" /\ job[j].lock < 0
  BY DEF Expired
<1>3. \A j \in Jobs \ M : job'[j] = job[j]
  BY DEF ReclaimExpired
<1>4. \A j \in M : job'[j].status = IF job[j].attempts < MaxAttempts[j] THEN "queued" ELSE "dead"
  <2> SUFFICES ASSUME NEW j \in M
               PROVE  job'[j].status = IF job[j].attempts < MaxAttempts[j] THEN "queued" ELSE "dead"
    OBVIOUS
  <2>1. job[j] \in Row /\ job[j].attempts \in Nat /\ MaxAttempts[j] \in Nat
    BY <1>1, QueueAssumption DEF TypeOK, Row
  <2>2. Finish(job[j], "dead").status = "dead" /\ Requeued(job[j], 0).status = "queued"
    BY <2>1 DEF Finish, Requeued, Row
  <2>3. job'[j] = IF job[j].attempts < MaxAttempts[j] THEN Requeued(job[j], 0) ELSE Finish(job[j], "dead")
    BY <2>1 DEF ReclaimExpired
  <2> QED
    BY <2>2, <2>3
<1>5. \A q \in Runners : (Running(q)' <=> Running(q)) /\ (Running(q) => rn'[q].job = rn[q].job)
  BY <1>1, RunnerGoes DEF ReclaimExpired
<1>6. BusyWith' = BusyWith
  BY <1>5, BusyViews
<1>7. S \in SUBSET Works /\ T \in SUBSET S
  BY DEF Works
<1>8. \A j \in M : WorkOf(j) \notin BusyWith
  <2> SUFFICES ASSUME NEW j \in M, NEW q \in Runners, Running(q), rn[q].job \in Jobs, WorkOf(rn[q].job) = WorkOf(j)
               PROVE  FALSE
    BY BusyViews
  <2>1. j = rn[q].job
    BY <1>2, HolderAlone DEF Live, LiveStatuses
  <2>2. RunnerOK(q) /\ rn[q].age \in Nat /\ job[j].lock \in Int
    BY <1>1, InvParts DEF TypeOK, RunnerState, Row
  <2> QED
    BY <1>2, <2>1, <2>2, BoundAssumption DEF RunnerOK
<1>9. \A j \in M, i \in Jobs : WorkOf(i) = WorkOf(j) /\ Live(i) => i = j
  BY <1>2, Views DEF LiveApart, Live, LiveStatuses
<1>10. \A x \in S : Standing[x] = "running" /\ x \notin BusyWith
  BY <1>2, <1>7, <1>8, Views DEF StandsAs
<1>11. \A x \in Works \ S : Standing'[x] = Standing[x]
  BY <1>3, Views DEF StandsAs
<1>12. \A x \in T : Standing'[x] = "queued"
  BY <1>4, <1>7, Views
<1>13. \A x \in S \ T : Standing'[x] = "absent"
  <2> SUFFICES ASSUME NEW j \in M, WorkOf(j) \notin T PROVE Standing'[WorkOf(j)] = "absent"
    OBVIOUS
  <2>1. job'[j].status = "dead"
    BY <1>4
  <2>2. \A i \in Jobs : WorkOf(i) = WorkOf(j) => job'[i].status \notin {"queued", "running"}
    <3> SUFFICES ASSUME NEW i \in Jobs, WorkOf(i) = WorkOf(j), i # j
                 PROVE  job'[i].status \notin {"queued", "running"}
      BY <2>1
    <3>1. ~Live(i) /\ i \notin M
      BY <1>2, <1>9 DEF Live, LiveStatuses
    <3> QED
      BY <1>3, <3>1 DEF Live, LiveStatuses
  <2> QED
    BY <1>7, <2>2, Views
<1> HIDE DEF S, T, M
<1>14. Standing' = [x \in Works |-> IF x \notin S THEN Standing[x] ELSE IF x \in T THEN "queued" ELSE "absent"]
  BY <1>11, <1>12, <1>13, Views
<1>15. E!Reclaim(S, T)
  BY <1>6, <1>10, <1>14 DEF E!Reclaim
<1> QED
  BY <1>7, <1>15 DEF E!Next

\* Pruning, and time: no row begins or ends its life.
LEMMA ContractClock ==
    ASSUME Inv, Inv', Prune \/ Elapse \/ UNCHANGED vars
    PROVE  [E!Next]_(E!contractVars)
<1>1. TypeOK
  BY DEF Inv
<1>2. CASE Prune
  <2>1. rn' = rn /\ \A j \in Jobs : job'[j] = IF PastRetention(j) THEN Deleted ELSE job[j]
    BY <1>2 DEF Prune
  <2>2. Deleted.status = "deleted"
    BY DEF Deleted, Absent
  <2>3. \A j \in Jobs : Live(j) \/ Live(j)' => job'[j].status = job[j].status
    BY <2>1, <2>2 DEF PastRetention, Finished, FinishedStatuses, Live, LiveStatuses
  <2> QED
    BY <2>1, <2>3, RunnersStay, UnmovedStep
<1>3. CASE Elapse
  <2>1. \A j \in Jobs : job'[j].status = job[j].status
    BY <1>1, <1>3, RowLaterRow DEF Elapse, TypeOK
  <2>2. ASSUME NEW q \in Runners PROVE rn'[q].pc = rn[q].pc /\ rn'[q].job = rn[q].job
    <3>1. rn[q] \in RunnerState
      BY <1>1 DEF TypeOK
    <3>2. rn'[q] = IF rn[q].pc = "idle" THEN rn[q] ELSE [rn[q] EXCEPT !.age = rn[q].age + 1]
      BY <1>3 DEF Elapse
    <3> QED
      BY <3>1, <3>2 DEF RunnerState
  <2>3. \A q \in Runners : (Running(q)' <=> Running(q)) /\ (Running(q) => rn'[q].job = rn[q].job)
    BY <2>2 DEF Running
  <2> QED
    BY <2>1, <2>3, UnmovedStep
<1>4. CASE UNCHANGED vars
  <2>1. rn' = rn /\ job' = job
    BY <1>4 DEF vars
  <2> QED
    BY <2>1, RunnersStay, UnmovedStep
<1> QED
  BY <1>2, <1>3, <1>4

\* Every step.
LEMMA ContractStep ==
    ASSUME Inv, Inv', Visibility > FunctionMax, [Next]_vars
    PROVE  [E!Next]_(E!contractVars)
<1>1. ASSUME NEW r \in Runners, Step(r) PROVE [E!Next]_(E!contractVars)
  <2>1. CASE EnsureSchedules(r) \/ ClaimNothing(r)
    <3>1. ~Running(r)
      BY <2>1 DEF EnsureSchedules, ClaimNothing, Running
    <3> QED
      BY <2>1, <3>1, ContractAside
  <2>2. CASE ReclaimExpired(r) \/ AdvanceDue(r) \/ Outcome(r)
    BY <2>2, ContractReclaim, ContractAdvance, ContractOutcome
  <2>3. CASE \E j \in Jobs : Claim(r, j)
    BY <2>3, ContractClaim
  <2> QED
    BY <1>1, <2>1, <2>2, <2>3 DEF Step, Tick
<1>2. ASSUME NEW r \in Runners, StartTick(r) \/ PhaseFails(r) \/ \E j \in Jobs : Kick(r, j)
      PROVE  [E!Next]_(E!contractVars)
  <2>1. ~Running(r)
    BY <1>2 DEF StartTick, PhaseFails, Kick, Running, Bookkeeping
  <2> QED
    BY <1>2, <2>1, ContractAside
<1>3. ASSUME NEW r \in Runners, Crash(r) PROVE [E!Next]_(E!contractVars)
  BY <1>3, ContractAside, ContractDeath
<1> QED
  BY <1>1, <1>2, <1>3, ContractInserting, ContractClock DEF Next

\* Where locks outlast invocations (the order JobTiming demands), the queue keeps the promise
\* of ExclusiveJobs to everyone who enqueues: a dedupe key never has two live runs,
\* and a job is taken only from a run that has died.
THEOREM QueueKeepsContract ==
    ASSUME Visibility > FunctionMax
    PROVE  Spec => JobsExclusive
<1>1. Init => E!Init
  <2> SUFFICES ASSUME Init PROVE E!Init
    OBVIOUS
  <2>1. \A j \in Jobs : job[j].status = "absent"
    BY DEF Init, Absent
  <2>2. \A r \in Runners : ~Running(r)
    BY DEF Init, Idle, Running
  <2>3. Standing = [x \in Works |-> "absent"]
    BY <2>1 DEF Standing, RowsOf
  <2>4. BusyWith = {}
    BY <2>2 DEF BusyWith
  <2> QED
    BY <2>3, <2>4 DEF E!Init
<1>2. Inv /\ Inv' /\ [Next]_vars => [E!Next]_(E!contractVars)
  BY ContractStep
<1> QED
  BY <1>1, <1>2, Invariance, PTL DEF Spec, JobsExclusive, E!Spec
=============================================================================
