------------------------------- MODULE JobQueue -------------------------------
(***************************************************************************)
(* The job table of domain/jobs: PostgresJobQueue and JobRepo.insert on    *)
(* the writing side, JobRunner with JobRepo and JobScheduleRepo on the     *)
(* running side.                                                           *)
(*                                                                         *)
(* A runner is one function invocation: a tick (ensure schedules, reclaim, *)
(* advance, drain) or a kicked run of one job.  A repository call is one   *)
(* statement or one transaction and is one action; between two of them     *)
(* other runners move, time passes and the platform may kill the           *)
(* invocation.                                                             *)
(*                                                                         *)
(* Times are kept relative to the clock: a row's wait is run_at - now, its *)
(* lock is locked_until - now, and Elapse moves them all.  A claim's lock  *)
(* token is a fresh UUID; a runner holds one claim at a time, so the       *)
(* runner itself stands for the token of its current claim.                *)
(***************************************************************************)
EXTENDS JobPolicy, FiniteSets

CONSTANTS
    Jobs,          \* rows the table may ever hold; a deleted id never returns
    Keys,          \* dedupe keys, each with its job kind
    KeyOf,         \* the rows that carry a dedupe key, with that key
    MaxAttempts,   \* max_attempts of each row
    BadPayload,    \* rows whose payload the running code no longer parses
    Cap,           \* JobPolicy.maxConsecutiveDeferrals
    Visibility,    \* JobTiming.visibilityMs
    FunctionMax,   \* JobTiming.functionMaxDurationMs: when the platform kills
    Budget,        \* TickOptions.budgetMs
    MaxJobs,       \* TickOptions.maxJobs
    Schedules,     \* the system schedules
    Interval,      \* interval_seconds of each
    Retention,     \* how long finished rows are kept, by status
    DedupeRetries, \* MAX_DEDUPE_RETRIES
    MaxRetryAt,    \* bound: how far ahead a RetryAt asks for
    MaxLate,       \* bound: lateness of a due row beyond which order is lost
    Overhead,      \* how long a tick may take to reach its first claim
    Runners,       \* invocations that may run at once
    Enqueuers,     \* callers of enqueue that may be inserting at once
    FailAt,        \* where a runner may be killed, or its statement throw
    MayWaitFree,   \* whether handlers throw RetryAt with consumesAttempt false
    None           \* null: no runner, no job, no key

PCs == {"idle", "ensure", "reclaim", "advance", "drain", "kick", "run"}
Bookkeeping == {"ensure", "reclaim", "advance"}
LiveStatuses == {"queued", "running"}
FinishedStatuses == {"succeeded", "dead"}

ASSUME QueueAssumption ==
    /\ DOMAIN KeyOf \subseteq Jobs /\ KeyOf \in [DOMAIN KeyOf -> Keys]
    /\ MaxAttempts \in [Jobs -> Nat \ {0}]
    /\ BadPayload \subseteq Jobs
    /\ Interval \in [Schedules -> Nat \ {0}]
    /\ Retention \in [FinishedStatuses -> Nat]
    /\ FailAt \subseteq PCs
    /\ None \notin Runners \cup Jobs \cup Keys
    /\ MayWaitFree \in BOOLEAN

ASSUME BoundAssumption ==
    /\ Cap \in Nat /\ Visibility \in Nat /\ FunctionMax \in Nat
    /\ Budget \in Nat /\ MaxJobs \in Nat /\ DedupeRetries \in Nat
    /\ MaxRetryAt \in Nat /\ MaxLate \in Nat /\ Overhead \in Nat

VARIABLES
    job,    \* mocco_jobs
    sched,  \* mocco_job_schedules: time to next_run_at, once the row exists
    rn,     \* what each runner is doing
    enq,    \* the callers inside JobRepo.insert
    runs    \* how often each job was claimed, free waits taken back

vars == <<job, sched, rn, enq, runs>>

Row == [status : {"absent", "deleted"} \cup LiveStatuses \cup FinishedStatuses,
        wait : Int, attempts : Nat, deferrals : Nat,
        lock : Int, lockedBy : Runners \cup {None}, since : Nat]

Absent == [status |-> "absent", wait |-> 0, attempts |-> 0, deferrals |-> 0,
           lock |-> 0, lockedBy |-> None, since |-> 0]
Inserted == [Absent EXCEPT !.status = "queued"]
Deleted == [Absent EXCEPT !.status = "deleted"]

\* A runner remembers the row as claim returned it, not as it is now.
Idle == [pc |-> "idle", age |-> 0, left |-> 0, done |-> {},
         job |-> None, attempts |-> 0, deferrals |-> 0]
RunnerState == [pc : PCs, age : Nat, left : Nat, done : SUBSET Jobs,
                job : Jobs \cup {None}, attempts : Nat, deferrals : Nat]

Ready == [pc |-> "idle", key |-> None, retries |-> 0]
EnqueuerState == [pc : {"idle", "insert", "lookup"},
                  key : Keys \cup {None}, retries : Nat]

Unscheduled == [exists |-> FALSE, next |-> 0]

Live(j) == job[j].status \in LiveStatuses
Finished(j) == job[j].status \in FinishedStatuses
Holders(k) == {j \in DOMAIN KeyOf : KeyOf[j] = k /\ Live(j)}

TypeOK ==
    /\ job \in [Jobs -> Row]
    /\ sched \in [Schedules -> [exists : BOOLEAN, next : Int]]
    /\ rn \in [Runners -> RunnerState]
    /\ enq \in [Enqueuers -> EnqueuerState]
    /\ runs \in [Jobs -> Nat]

Init ==
    /\ job = [j \in Jobs |-> Absent]
    /\ sched = [s \in Schedules |-> Unscheduled]
    /\ rn = [r \in Runners |-> Idle]
    /\ enq = [e \in Enqueuers |-> Ready]
    /\ runs = [j \in Jobs |-> 0]

Become(r, x) == rn' = [rn EXCEPT ![r] = x]
Goto(r, pc) == Become(r, [rn[r] EXCEPT !.pc = pc])
Stop(r) == Become(r, Idle)

-----------------------------------------------------------------------------
(* Enqueueing.                                                             *)

\* enqueue without a dedupe key: a plain insert, due at options.runAt.
Enqueue(j, w) ==
    /\ job[j].status = "absent"
    /\ j \notin DOMAIN KeyOf
    /\ job' = [job EXCEPT ![j] = [Inserted EXCEPT !.wait = w]]
    /\ UNCHANGED <<sched, rn, enq, runs>>

EnqueueKeyed(e, k) ==
    /\ enq[e].pc = "idle"
    /\ enq' = [enq EXCEPT ![e] = [pc |-> "insert", key |-> k, retries |-> DedupeRetries]]
    /\ UNCHANGED <<job, sched, rn, runs>>

\* INSERT ... ON CONFLICT DO NOTHING on the partial unique index of live keys.
InsertCreates(e, j, w) ==
    /\ enq[e].pc = "insert"
    /\ job[j].status = "absent"
    /\ j \in DOMAIN KeyOf /\ KeyOf[j] = enq[e].key
    /\ Holders(enq[e].key) = {}
    /\ job' = [job EXCEPT ![j] = [Inserted EXCEPT !.wait = w]]
    /\ enq' = [enq EXCEPT ![e] = Ready]
    /\ UNCHANGED <<sched, rn, runs>>

InsertConflicts(e) ==
    /\ enq[e].pc = "insert"
    /\ Holders(enq[e].key) # {}
    /\ enq' = [enq EXCEPT ![e].pc = "lookup"]
    /\ UNCHANGED <<job, sched, rn, runs>>

\* The holder is returned; if it finished meanwhile the insert is tried again,
\* and after the last retry enqueue throws.
LookupHolder(e) ==
    /\ enq[e].pc = "lookup"
    /\ enq' = [enq EXCEPT ![e] =
                  IF Holders(enq[e].key) # {} \/ enq[e].retries = 0
                  THEN Ready
                  ELSE [enq[e] EXCEPT !.pc = "insert", !.retries = @ - 1]]
    /\ UNCHANGED <<job, sched, rn, runs>>

-----------------------------------------------------------------------------
(* A tick, up to its drain.  Each phase is guarded: when it throws the tick *)
(* goes on with the next one.                                              *)

NextPhase(pc) == CASE pc = "ensure" -> "reclaim"
                   [] pc = "reclaim" -> "advance"
                   [] pc = "advance" -> "drain"

StartTick(r) ==
    /\ rn[r].pc = "idle"
    /\ Become(r, [Idle EXCEPT !.pc = "ensure", !.left = MaxJobs])
    /\ UNCHANGED <<job, sched, enq, runs>>

PhaseFails(r) ==
    /\ rn[r].pc \in Bookkeeping \cap FailAt
    /\ Goto(r, NextPhase(rn[r].pc))
    /\ UNCHANGED <<job, sched, enq, runs>>

\* A platform schedule is created due now; an existing one keeps its slot.
EnsureSchedules(r) ==
    /\ rn[r].pc = "ensure"
    /\ sched' = [s \in Schedules |-> [sched[s] EXCEPT !.exists = TRUE]]
    /\ Goto(r, "reclaim")
    /\ UNCHANGED <<job, enq, runs>>

Expired(j) == job[j].status = "running" /\ job[j].lock < 0

Requeued(row, w) == [row EXCEPT !.status = "queued", !.wait = w, !.lock = 0, !.deferrals = 0]
Finish(row, status) == [row EXCEPT !.status = status, !.since = 0, !.lock = 0, !.deferrals = 0]

\* Mutant: only the jobs without attempts left are recovered.
ReclaimOnlyDead(r) ==
    /\ rn[r].pc = "reclaim"
    /\ job' = [j \in Jobs |->
                  IF Expired(j) /\ job[j].attempts >= MaxAttempts[j]
                  THEN Finish(job[j], "dead") ELSE job[j]]
    /\ Goto(r, "advance")
    /\ UNCHANGED <<sched, enq, runs>>

\* The crashed attempt stays counted; without attempts left the job is dead.
ReclaimExpired(r) ==
    /\ rn[r].pc = "reclaim"
    /\ job' = [j \in Jobs |->
                  CASE ~Expired(j) -> job[j]
                    [] Expired(j) /\ job[j].attempts >= MaxAttempts[j] -> Finish(job[j], "dead")
                    [] Expired(j) /\ job[j].attempts < MaxAttempts[j] -> Requeued(job[j], 0)]
    /\ Goto(r, "advance")
    /\ UNCHANGED <<sched, enq, runs>>

DueSchedules == {s \in Schedules : sched[s].exists /\ sched[s].next <= 0}

\* One transaction inserts a row for the current slot of every due schedule, up
\* to the limit, earliest first, and moves each to its next slot.  A slot's key
\* is its own, so the rows are ones without a key of KeyOf.
AdvanceDue(r) ==
    /\ rn[r].pc = "advance"
    /\ \E due \in SUBSET DueSchedules, new \in SUBSET (Jobs \ DOMAIN KeyOf) :
          /\ due = DueSchedules \/ Cardinality(due) = MaxJobs
          /\ Cardinality(due) <= MaxJobs
          /\ \A s \in due, t \in DueSchedules \ due : sched[s].next <= sched[t].next
          /\ Cardinality(new) = Cardinality(due)
          /\ \A j \in new : job[j].status = "absent"
          /\ job' = [j \in Jobs |-> IF j \in new THEN Inserted ELSE job[j]]
          /\ sched' = [s \in Schedules |->
                IF s \in due
                THEN [sched[s] EXCEPT !.next = NextIntervalSlot(@, Interval[s], 0)]
                ELSE sched[s]]
    /\ Goto(r, "drain")
    /\ UNCHANGED <<enq, runs>>

-----------------------------------------------------------------------------
(* Claiming and running.                                                   *)

\* kick: runOne(id) in the caller's invocation, kept alive by waitUntil.
Kick(r, j) ==
    /\ rn[r].pc = "idle"
    /\ job[j].status # "absent"
    /\ Become(r, [Idle EXCEPT !.pc = "kick", !.left = 1, !.job = j])
    /\ UNCHANGED <<job, sched, enq, runs>>

Due(j) == job[j].status = "queued" /\ job[j].wait <= 0

\* What the claim of runner r may pick from.
Claimable(r) ==
    IF rn[r].pc = "kick" THEN {j \in {rn[r].job} : Due(j)}
                         ELSE {j \in Jobs \ rn[r].done : Due(j)}

MayClaim(r) ==
    \/ rn[r].pc = "kick"
    \/ /\ rn[r].pc = "drain"
       /\ rn[r].left > 0
       /\ rn[r].age < Budget

\* Mutant: the lock lasts as long as the tick's budget.
ClaimForBudget(r, j) ==
    /\ MayClaim(r)
    /\ j \in Claimable(r)
    /\ job' = [job EXCEPT ![j].status = "running", ![j].lock = Budget,
                          ![j].lockedBy = r, ![j].attempts = @ + 1]
    /\ Become(r, [rn[r] EXCEPT !.pc = "run", !.job = j,
                               !.attempts = job[j].attempts + 1,
                               !.deferrals = job[j].deferrals])
    /\ runs' = [runs EXCEPT ![j] = @ + 1]
    /\ UNCHANGED <<sched, enq>>

\* The earliest due row is marked running under a fresh token.
Claim(r, j) ==
    /\ MayClaim(r)
    /\ j \in Claimable(r)
    /\ \A i \in Claimable(r) : job[j].wait <= job[i].wait
    /\ job' = [job EXCEPT ![j].status = "running", ![j].lock = Visibility,
                          ![j].lockedBy = r, ![j].attempts = @ + 1]
    /\ Become(r, [rn[r] EXCEPT !.pc = "run", !.job = j,
                               !.attempts = job[j].attempts + 1,
                               !.deferrals = job[j].deferrals])
    /\ runs' = [runs EXCEPT ![j] = @ + 1]
    /\ UNCHANGED <<sched, enq>>

\* Out of jobs, time or budget; or the kicked job is not claimable.
ClaimNothing(r) ==
    /\ rn[r].pc \in {"drain", "kick"}
    /\ ~MayClaim(r) \/ Claimable(r) = {}
    /\ Stop(r)
    /\ UNCHANGED <<job, sched, enq, runs>>

\* Mutants: a claim recognised by the status alone, or by the token alone.
HoldsAnyClaim(r) == job[rn[r].job].status = "running"
HoldsByToken(r) == job[rn[r].job].lockedBy = r

\* Does the claim of r still hold its row?
Holds(r) ==
    LET row == job[rn[r].job] IN row.status = "running" /\ row.lockedBy = r

\* Every write after a claim: the row changes only under the claim's token.
WriteClaimed(r, row) ==
    job' = IF Holds(r) THEN [job EXCEPT ![rn[r].job] = row] ELSE job

\* The outcome is recorded; a tick drains on without this job.
NextJob(r) ==
    Become(r, IF rn[r].left > 1
              THEN [rn[r] EXCEPT !.pc = "drain", !.left = @ - 1, !.job = None,
                                 !.done = @ \cup {rn[r].job},
                                 !.attempts = 0, !.deferrals = 0]
              ELSE Idle)

Running(r) == rn[r].pc = "run"
Parses(r) == rn[r].job \notin BadPayload

Complete(r) ==
    /\ Running(r) /\ Parses(r)
    /\ WriteClaimed(r, Finish(job[rn[r].job], "succeeded"))
    /\ NextJob(r)
    /\ UNCHANGED <<sched, enq, runs>>

IsFinalAttempt(r) == rn[r].attempts >= MaxAttempts[rn[r].job]

\* The handler threw, or no handler is registered for the kind.
Fail(r, w) ==
    /\ Running(r)
    /\ ~IsFinalAttempt(r)
    /\ w \in RetryDelays(rn[r].attempts)
    /\ WriteClaimed(r, Requeued(job[rn[r].job], w))
    /\ NextJob(r)
    /\ UNCHANGED <<sched, enq, runs>>

\* Mutant: no cap on consecutive deferrals.
RefundAlways(r) == TRUE

ShouldRefund(r) == rn[r].deferrals < Cap

\* Dead: the last attempt threw, or asked for later once too often, or the
\* payload does not parse.
Dead(r) ==
    /\ Running(r)
    /\ IsFinalAttempt(r) \/ ~Parses(r)
    /\ WriteClaimed(r, Finish(job[rn[r].job], "dead"))
    /\ NextJob(r)
    /\ UNCHANGED <<sched, enq, runs>>

Deferred(row, w, refund, counts) ==
    [row EXCEPT !.status = "queued", !.wait = w, !.lock = 0,
                !.deferrals = IF counts THEN @ + 1 ELSE @,
                !.attempts = IF refund THEN @ - 1 ELSE @]

\* RetryAt: refunded up to the cap, after that an attempt like any other.
Defer(r, w) ==
    /\ Running(r) /\ Parses(r)
    /\ ShouldRefund(r) \/ ~IsFinalAttempt(r)
    /\ WriteClaimed(r, Deferred(job[rn[r].job], w, ShouldRefund(r), TRUE))
    /\ NextJob(r)
    /\ UNCHANGED <<sched, enq, runs>>

\* RetryAt with consumesAttempt false: always refunded, never counted.
WaitFree(r, w) ==
    /\ MayWaitFree
    /\ Running(r) /\ Parses(r)
    /\ WriteClaimed(r, Deferred(job[rn[r].job], w, TRUE, FALSE))
    /\ runs' = IF Holds(r) THEN [runs EXCEPT ![rn[r].job] = @ - 1] ELSE runs
    /\ NextJob(r)
    /\ UNCHANGED <<sched, enq>>

\* external: the invocation is killed, or a statement of its drain throws.
Crash(r) ==
    /\ rn[r].pc \in FailAt \ {"idle"}
    /\ Stop(r)
    /\ UNCHANGED <<job, sched, enq, runs>>

-----------------------------------------------------------------------------
(* jobs.prune, and time.                                                   *)

PastRetention(j) == Finished(j) /\ job[j].since > Retention[job[j].status]

Prune ==
    /\ \E j \in Jobs : PastRetention(j)
    /\ job' = [j \in Jobs |-> IF PastRetention(j) THEN Deleted ELSE job[j]]
    /\ UNCHANGED <<sched, rn, enq, runs>>

Sooner(t, least) == IF t > least THEN t - 1 ELSE t

RowLater(row) ==
    CASE row.status = "queued"  -> [row EXCEPT !.wait = Sooner(@, -MaxLate)]
      [] row.status = "running" -> [row EXCEPT !.lock = Sooner(@, -1)]
      [] row.status \in FinishedStatuses ->
            [row EXCEPT !.since = IF @ > Retention[row.status] THEN @ ELSE @ + 1]
      [] OTHER -> row

\* Beyond one interval, being late matters modulo the interval only: NextIntervalSlot
\* gives the same slot.
ScheduleLater(s) ==
    [sched[s] EXCEPT !.next =
        CASE ~sched[s].exists -> @
          [] sched[s].exists /\ @ > 1 - 2 * Interval[s] -> @ - 1
          [] OTHER -> -Interval[s]]

\* Has runner r yet to make the first claim of its tick?
Preparing(r) == rn[r].pc \in Bookkeeping \/ (rn[r].pc = "drain" /\ rn[r].done = {})

\* external: one unit of time.  No invocation outlives FunctionMax.
Elapse ==
    /\ \A r \in Runners : rn[r].pc # "idle" => rn[r].age < FunctionMax
    /\ \A r \in Runners : Preparing(r) => rn[r].age < Overhead
    /\ job' = [j \in Jobs |-> RowLater(job[j])]
    /\ sched' = [s \in Schedules |-> ScheduleLater(s)]
    /\ rn' = [r \in Runners |->
                 IF rn[r].pc = "idle" THEN rn[r] ELSE [rn[r] EXCEPT !.age = @ + 1]]
    /\ UNCHANGED <<enq, runs>>

-----------------------------------------------------------------------------
Inserting ==
    \/ \E j \in Jobs, w \in 0..MaxRetryAt : Enqueue(j, w)
    \/ \E e \in Enqueuers, k \in Keys : EnqueueKeyed(e, k)
    \/ \E e \in Enqueuers, j \in Jobs, w \in 0..MaxRetryAt : InsertCreates(e, j, w)
    \/ \E e \in Enqueuers : InsertConflicts(e) \/ LookupHolder(e)

Tick(r) == EnsureSchedules(r) \/ ReclaimExpired(r) \/ AdvanceDue(r)

Outcome(r) ==
    \/ Complete(r)
    \/ Dead(r)
    \/ \E w \in RetryDelays(rn[r].attempts) : Fail(r, w)
    \/ \E w \in 0..MaxRetryAt : Defer(r, w) \/ WaitFree(r, w)

\* The steps a runner takes once it is started.
Step(r) ==
    \/ Tick(r)
    \/ \E j \in Jobs : Claim(r, j)
    \/ ClaimNothing(r)
    \/ Outcome(r)

Next ==
    \/ Inserting
    \/ \E r \in Runners :
          \/ StartTick(r)
          \/ \E j \in Jobs : Kick(r, j)
          \/ Step(r)
          \/ PhaseFails(r)
          \/ Crash(r)
    \/ Prune
    \/ Elapse

Spec == Init /\ [][Next]_vars

\* Time goes on, the driver ticks again and again (kicks may keep a runner busy
\* but not all of them for ever), a runner that is not killed goes on.
Fairness(ticked) ==
    /\ SF_vars(Elapse)
    /\ SF_vars(\E r \in ticked : StartTick(r))
    /\ \A r \in Runners : WF_vars(Step(r))

FairSpec == Spec /\ Fairness(Runners)

-----------------------------------------------------------------------------
(* What must hold.                                                         *)

\* A claim that is still held was not disturbed: the attempt and deferral counts
\* the runner decides by (execute, failed, deferred) are those of the row.
SnapshotCurrent ==
    \A r \in Runners : Running(r) /\ Holds(r) =>
        /\ rn[r].attempts = job[rn[r].job].attempts
        /\ rn[r].deferrals = job[rn[r].job].deferrals

\* A queued job has an attempt left; a running one counts its claim and bears the
\* claim's token.
RowsSane ==
    \A j \in Jobs :
        /\ job[j].status = "queued" => job[j].attempts < MaxAttempts[j]
        /\ job[j].status = "running" => /\ job[j].attempts \in 1..MaxAttempts[j]
                                       /\ job[j].lockedBy \in Runners

\* A runner on a job knows which, and is younger than the platform's limit.
RunnersSane ==
    \A r \in Runners :
        /\ rn[r].pc \in {"kick", "run"} => rn[r].job \in Jobs /\ rn[r].left > 0
        /\ rn[r].age <= FunctionMax

\* What is left of a lock covers what is left of its invocation.
LocksCover ==
    Visibility > FunctionMax =>
        \A r \in Runners : Running(r) =>
            Holds(r) /\ job[rn[r].job].lock + rn[r].age >= Visibility

Refunded(d) == IF d < Cap THEN d ELSE Cap

\* Every counted attempt pays for itself and Cap refunded runs before it; the
\* deferrals since the last counted one are the refunded runs on top.
RunsPaid ==
    \A j \in Jobs :
        LET row == job[j] IN
        /\ row.status = "absent" => runs[j] = 0
        /\ row.status = "queued" =>
              runs[j] <= row.attempts * (Cap + 1) + Refunded(row.deferrals)
        /\ row.status = "running" =>
              /\ runs[j] >= 1
              /\ runs[j] <= (row.attempts - 1) * (Cap + 1) + Refunded(row.deferrals) + 1
        /\ runs[j] <= MaxAttempts[j] * (Cap + 1)

\* While a lock outlives every invocation (the order JobTiming demands), no job
\* is taken from a runner that is still on it: claims are never lost, and no
\* job runs twice at once.
ClaimExclusive ==
    Visibility > FunctionMax => \A r \in Runners : Running(r) => Holds(r)

\* However its handler fails, asks for later or is killed, a job is run at most
\* this often, free waits aside: each attempt is preceded by at most Cap
\* refunded ones.
RetriesBounded == \A j \in Jobs : runs[j] <= MaxAttempts[j] * (Cap + 1)

\* The partial unique index never has to refuse a status change: no write makes
\* a finished row live again beside a newer one of its key.
OneLivePerKey == \A k \in Keys : \A i, j \in Holders(k) : i = j

\* A job is given up only with its attempts used up or a payload that does not
\* parse, whoever gave it up: a runner on what it claimed, or reclaimExpired.
DeadIsExhausted ==
    \A j \in Jobs : job[j].status = "dead" =>
        job[j].attempts >= MaxAttempts[j] \/ j \in BadPayload

\* The inductive invariant behind these.
Inv ==
    /\ TypeOK
    /\ RunnersSane
    /\ SnapshotCurrent
    /\ RowsSane
    /\ LocksCover
    /\ RunsPaid
    /\ OneLivePerKey
    /\ DeadIsExhausted

\* What a finished job became is final; only prune touches its row.
FinishedIsFinal ==
    [][\A j \in Jobs : Finished(j) => job'[j].status \in {job[j].status, "deleted"}]_vars

\* A claim ends by its own runner's step or, once its lock has expired, by a
\* reclaim: the late write of a runner that lost the job changes nothing.
OnlyOwnerWrites ==
    [][\A j \in Jobs : job[j].status = "running" /\ ~Expired(j) =>
          \/ job'[j].status = "running" /\ job'[j].lockedBy = job[j].lockedBy
          \/ rn'[job[j].lockedBy] # rn[job[j].lockedBy]]_vars

\* A schedule that fires moves strictly into the future, by at most an interval:
\* however late the tick, its missed slots are skipped, and the next tick does
\* not fire it again.
MissedSlotsSkipped ==
    [][\A r \in Runners, s \in Schedules :
          rn[r].pc = "advance" /\ rn'[r].pc = "drain" /\ sched'[s] # sched[s]
              => sched[s].next <= 0 /\ sched'[s].next \in 1..Interval[s]]_vars

\* Every job ends, though invocations die in the middle of runs and handlers keep
\* failing or asking for later (free waits aside).
JobsSettle == \A j \in Jobs : Live(j) ~> ~Live(j)

\* The work a row stands for: its dedupe key, or itself.
WorkOf(j) == IF j \in DOMAIN KeyOf THEN <<"key", KeyOf[j]>> ELSE <<"row", j>>
Works == {WorkOf(j) : j \in Jobs}
RowsOf(x) == {j \in Jobs : WorkOf(j) = x}

Standing ==
    [x \in Works |->
        IF \E j \in RowsOf(x) : job[j].status = "running" THEN "running"
        ELSE IF \E j \in RowsOf(x) : job[j].status = "queued" THEN "queued" ELSE "absent"]
BusyWith == {x \in Works : \E r \in Runners : Running(r) /\ rn[r].job \in RowsOf(x)}

E == INSTANCE ExclusiveJobs WITH Work <- Works, standing <- Standing, busy <- BusyWith

(***************************************************************************)
(* Where locks outlast invocations, the queue keeps the promise of module  *)
(* ExclusiveJobs: enqueueing, claiming, finishing, reclaiming and pruning  *)
(* never have two live runs on one dedupe key, and reclaimExpired takes a  *)
(* job only from a run that has died (JobRepo, JobRunner).                 *)
(***************************************************************************)
JobsExclusive == E!Spec
=============================================================================
