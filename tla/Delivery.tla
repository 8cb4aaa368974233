------------------------------- MODULE Delivery -------------------------------
(***************************************************************************)
(* Sending a notification: notification/DeliveryService.ts over             *)
(* repos/delivery.repo.ts, run by one notification.deliver job per delivery *)
(* and settled in the end by the reconcile schedule.                        *)
(*                                                                         *)
(* One action is one database statement or one call to Discord.  Times are  *)
(* kept as ages and remaining waits, in ticks.  An invocation captures now  *)
(* once, when its attempt starts, so a claim of its own is as old as the    *)
(* attempt.  The job is the queue's contract (module JobQueue): a claim     *)
(* lasts Lock ticks, and an invocation that lives longer runs on beside the *)
(* one that replaced it, but writes nothing to the job any more.            *)
(***************************************************************************)
EXTENDS Naturals, FiniteSets

CONSTANTS
    Deliveries,    \* delivery rows, each with its job
    ChannelOf,     \* the channel of each
    Workers,       \* slots for invocations
    Stale,         \* DeliveryPolicy.sendingStaleMs
    MaxQueued,     \* DeliveryPolicy.maxQueuedMs
    MaxAttempts,   \* DeliveryPolicy.maxAttempts
    MaxDeferrals,  \* JobPolicy.maxConsecutiveDeferrals
    Lock,          \* JobTiming.visibilityMs
    Limit,         \* how long an invocation lives at most
    Pause,         \* how long a rate limit or a sender pause lasts
    Answers        \* the answers Discord may give

Channels == {ChannelOf[d] : d \in Deliveries}

ASSUME DeliveryAssumption ==
    /\ DOMAIN ChannelOf = Deliveries
    /\ "global" \notin Channels
    /\ {Stale, MaxQueued, MaxDeferrals, Limit, Pause} \subseteq Nat
    /\ {MaxAttempts, Lock} \subseteq Nat \ {0}
    /\ Answers \subseteq {"sent", "exhausted", "rate_limited", "no_channel", "no_sender",
                          "refused", "transient", "ambiguous"}

Buckets == Channels \cup {"global"}
Unsettled == {"queued", "sending"}
Statuses == Unsettled \cup {"sent", "failed", "suppressed"}
Oldest == Stale + Limit + 1     \* ages of a claim, and of a delivery, beyond these
Expired == MaxQueued + Limit    \* are not told apart

VARIABLES
    row,       \* notification_deliveries: status, and the age of sending_at
    age,       \* ticks since each delivery was queued
    job,       \* its job: status, wait, attempts, deferrals, owner, lock
    channel,   \* notification_channels: active, disabled or deleted
    blocked,   \* discord_rate_limits: ticks each bucket stays blocked
    posted,    \* external: the deliveries whose message is in the channel
    doubt,     \* deliveries with a run that was killed, overran its lock, or timed out
    taken,     \* deliveries with a claim that another run found stale
    task       \* what each worker is doing

rows == <<row, age, channel, blocked>>
marks == <<posted, doubt, taken>>
vars == <<rows, job, marks, task>>

\* A task: its statement, its delivery, the age of the attempt, whether it is the
\* job's last, the status it updates from, Discord's answer; later the status it
\* updates to, and how the job ends after it.
Idle == [pc |-> "idle"]
PCs == {"read", "channel", "capacity", "claim", "post", "effect", "write", "exhaust", "reread", "end", "fail"}
Ends == {"done", "exhaust", "free", "consuming", "throw"}

Become(w, t) == task' = [task EXCEPT ![w] = t]
Goto(w, pc) == Become(w, [task[w] EXCEPT !.pc = pc])
At(w, pc) == task[w].pc = pc
Running(w) == ~At(w, "idle") /\ ~At(w, "fail")
RunsOf(d) == {w \in Workers : Running(w) /\ task[w].d = d}

\* On to the update of the row and the end of the job, or to the end alone.
Write(w, to, end, wait) ==
    Become(w, [pc |-> "write", d |-> task[w].d, age |-> task[w].age, from |-> task[w].from,
               to |-> to, end |-> end, wait |-> wait])
Finish(w, end, wait) ==
    Become(w, [pc |-> "end", d |-> task[w].d, age |-> task[w].age, end |-> end, wait |-> wait])

Minus(a, b) == IF a > b THEN a - b ELSE 0

\* The rows, the jobs and the tasks have their types.
TypeOK ==
    /\ row \in [Deliveries -> [status : Statuses, since : 0..Oldest]]
    /\ age \in [Deliveries -> 0..Expired]
    /\ \A d \in Deliveries :
          /\ job[d].status \in {"queued", "running", "done", "dead"}
          /\ job[d].wait \in Nat /\ job[d].lock \in 0..Lock
          /\ job[d].tries \in 0..MaxAttempts /\ job[d].deferrals \in 0..MaxDeferrals + 1
    /\ channel \in [Channels -> {"active", "disabled", "deleted"}]
    /\ blocked \in [Buckets -> 0..Pause]
    /\ {posted, doubt, taken} \subseteq SUBSET Deliveries
    /\ \A w \in Workers : Running(w) =>
          /\ task[w].d \in Deliveries
          /\ task[w].age \in 0..Limit
          /\ task[w].pc \in {"write", "end"} => task[w].end \in Ends

Init ==
    /\ row = [d \in Deliveries |-> [status |-> "queued", since |-> 0]]
    /\ age = [d \in Deliveries |-> 0]
    /\ job = [d \in Deliveries |-> [status |-> "queued", wait |-> 0, tries |-> 0,
                                    deferrals |-> 0, owner |-> "nobody", lock |-> 0]]
    /\ channel = [c \in Channels |-> "active"]
    /\ blocked = [b \in Buckets |-> 0]
    /\ posted = {}
    /\ doubt = {}
    /\ taken = {}
    /\ task = [w \in Workers |-> Idle]

-----------------------------------------------------------------------------
(* The job                                                                 *)

Start(w, d) ==
    /\ At(w, "idle")
    /\ job[d].status = "queued" /\ job[d].wait = 0
    /\ job' = [job EXCEPT ![d].status = "running", ![d].tries = @ + 1,
                          ![d].owner = w, ![d].lock = Lock]
    /\ Become(w, [pc |-> "read", d |-> d, age |-> 0, final |-> job[d].tries + 1 >= MaxAttempts,
                  from |-> "queued", answer |-> "none"])
    /\ UNCHANGED <<rows, marks>>

Requeue(j, wait) == [j EXCEPT !.status = "queued", !.wait = wait, !.owner = "nobody", !.lock = 0]
\* Nobody reads what a finished job has spent.
Over(status) ==
    [status |-> status, wait |-> 0, tries |-> 0, deferrals |-> 0, owner |-> "nobody", lock |-> 0]

\* complete, fail and defer of the runner: a free wait gives its attempt back, a
\* consuming one as long as the streak of deferrals is below the cap.
Ended(j, end, wait) ==
    CASE end = "done" -> Over("done")
      [] end = "free" -> [Requeue(j, wait) EXCEPT !.tries = @ - 1]
      [] end = "consuming" ->
            IF j.deferrals < MaxDeferrals
            THEN [Requeue(j, wait) EXCEPT !.tries = @ - 1, !.deferrals = @ + 1]
            ELSE IF j.tries >= MaxAttempts THEN Over("dead")
            ELSE [Requeue(j, wait) EXCEPT !.deferrals = MaxDeferrals + 1]
      [] end = "throw" ->
            IF j.tries >= MaxAttempts THEN Over("dead")
            ELSE [Requeue(j, wait) EXCEPT !.deferrals = 0]

\* The runner's write finds the job only under its own claim.
End(w) ==
    LET d == task[w].d IN
    /\ At(w, "end")
    /\ job' = IF job[d].status = "running" /\ job[d].owner = w
              THEN [job EXCEPT ![d] = Ended(@, task[w].end, task[w].wait)]
              ELSE job
    /\ Become(w, Idle)
    /\ UNCHANGED <<rows, marks>>

\* The lock expires: the job is queued again with no deferrals, or dead, also if its
\* run is alive.
Reclaim(d) ==
    /\ job[d].status = "running" /\ job[d].lock = 0
    /\ job' = [job EXCEPT ![d] = IF @.tries >= MaxAttempts THEN Over("dead")
                                ELSE [Requeue(@, 0) EXCEPT !.deferrals = 0]]
    /\ doubt' = doubt \cup {x \in {d} : RunsOf(d) # {}}
    /\ UNCHANGED <<rows, posted, taken, task>>

-----------------------------------------------------------------------------
(* DeliveryService.deliver                                                 *)

\* sendingAt >= now - stale, with now the start of the attempt of w.
Fresh(w, d) == Minus(row[d].since, task[w].age) <= Stale

\* The claim of another run, which has died or outlived the stale limit.
DeadClaim(w, d) == row[d].status = "sending" /\ ~Fresh(w, d)
FindsClaim(w, d) == taken' = taken \cup {x \in {d} : DeadClaim(w, d)}

\* While another run holds a fresh claim, come back when it would turn stale.
WaitForOtherRun(w, d) == Finish(w, "free", Minus(Stale, row[d].since))

Read(w) ==
    LET d == task[w].d IN
    /\ At(w, "read")
    /\ CASE row[d].status = "sending" /\ Fresh(w, d) -> WaitForOtherRun(w, d)
         [] row[d].status \notin Unsettled -> Finish(w, "done", 0)
         [] OTHER -> Become(w, [task[w] EXCEPT !.pc = "channel", !.from = row[d].status])
    /\ FindsClaim(w, d)
    /\ UNCHANGED <<rows, job, posted, doubt>>

CheckChannel(w) ==
    LET c == channel[ChannelOf[task[w].d]] IN
    /\ At(w, "channel")
    /\ CASE c = "deleted" -> Write(w, "suppressed", "done", 0)
         [] c = "disabled" -> Write(w, "failed", "done", 0)
         [] c = "active" -> Goto(w, "capacity")
    /\ UNCHANGED <<rows, job, marks>>

\* wait with isFree: bounded by the delivery's age instead of the job's attempts.
FreeWait(w, wait) ==
    IF Minus(age[task[w].d], task[w].age) >= MaxQueued
    THEN Write(w, "failed", "done", 0)
    ELSE Write(w, "queued", "free", wait)

BlockedFor(d) ==
    IF blocked[ChannelOf[d]] > blocked["global"] THEN blocked[ChannelOf[d]] ELSE blocked["global"]

CheckBuckets(w) ==
    LET wait == BlockedFor(task[w].d) IN
    /\ At(w, "capacity")
    /\ IF wait > 0 THEN FreeWait(w, wait) ELSE Goto(w, "claim")
    /\ UNCHANGED <<rows, job, marks>>

\* The workspace has sent its share of this minute, or no bot token is configured.
CheckShare(w) ==
    /\ At(w, "capacity")
    /\ BlockedFor(task[w].d) = 0
    /\ FreeWait(w, 1)
    /\ UNCHANGED <<rows, job, marks>>

\* Mutant: any claim that is in the way is taken over.
ClaimableAlways(w, d) == row[d].status \in Unsettled

Claimable(w, d) == row[d].status = "queued" \/ DeadClaim(w, d)

ClaimForSending(w) ==
    LET d == task[w].d IN
    /\ At(w, "claim")
    /\ IF Claimable(w, d)
       THEN /\ row' = [row EXCEPT ![d] = [status |-> "sending", since |-> task[w].age]]
            /\ Become(w, [task[w] EXCEPT !.pc = "post", !.from = "sending"])
       ELSE Goto(w, "reread") /\ UNCHANGED row
    /\ FindsClaim(w, d)
    /\ UNCHANGED <<age, channel, blocked, job, posted, doubt>>

Reread(w) ==
    LET d == task[w].d IN
    /\ At(w, "reread")
    /\ IF row[d].status = "sending" THEN WaitForOtherRun(w, d) ELSE Finish(w, "done", 0)
    /\ UNCHANGED <<rows, job, marks>>

\* sendMessage: a failure may hide a message that was posted.
SendMessage(w, answer) ==
    LET d == task[w].d IN
    /\ At(w, "post")
    /\ posted' = posted \cup {x \in {d} : answer \in {"sent", "exhausted", "ambiguous"}}
    /\ doubt' = doubt \cup {x \in {d} : answer = "ambiguous"}
    /\ CASE answer = "sent" -> Write(w, "sent", "done", 0)
         [] answer = "exhausted" -> Write(w, "sent", "exhaust", 0)
         [] answer = "refused" -> Write(w, "failed", "done", 0)
         [] answer \in {"transient", "ambiguous"} ->
              Write(w, IF task[w].final THEN "failed" ELSE "queued", "throw", 0)
         [] answer \in {"rate_limited", "no_channel", "no_sender"} ->
              Become(w, [task[w] EXCEPT !.pc = "effect", !.answer = answer])
    /\ UNCHANGED <<rows, job, taken>>

Block(b) == blocked' = [blocked EXCEPT ![b] = IF @ > Pause THEN @ ELSE Pause]

\* What a refusal does to the channel or to a bucket, before the delivery is settled.
RateLimited(w) ==
    /\ At(w, "effect") /\ task[w].answer = "rate_limited"
    /\ \E b \in {ChannelOf[task[w].d], "global"} : Block(b)
    /\ Write(w, "queued", "consuming", Pause)
    /\ UNCHANGED <<row, age, channel, job, marks>>

DisableChannel(w) ==
    LET c == ChannelOf[task[w].d] IN
    /\ At(w, "effect") /\ task[w].answer = "no_channel"
    /\ channel' = [channel EXCEPT ![c] = IF @ = "active" THEN "disabled" ELSE @]
    /\ Write(w, "failed", "done", 0)
    /\ UNCHANGED <<row, age, blocked, job, marks>>

PauseSender(w) ==
    /\ At(w, "effect") /\ task[w].answer = "no_sender"
    /\ Block("global")
    /\ FreeWait(w, Pause)
    /\ UNCHANGED <<row, age, channel, job, marks>>

\* Mutant: the row is written whatever its status is by now.
UpdateAnyway(w) ==
    LET d == task[w].d IN
    /\ At(w, "write")
    /\ row' = [row EXCEPT ![d] = [status |-> task[w].to, since |-> 0]]
    /\ IF task[w].end = "exhaust" THEN Goto(w, "exhaust") ELSE Finish(w, task[w].end, task[w].wait)
    /\ UNCHANGED <<age, channel, blocked, job, marks>>

\* updateFrom: only while the row has the status the run read or claimed.
UpdateFrom(w) ==
    LET d == task[w].d IN
    /\ At(w, "write")
    /\ row' = IF row[d].status = task[w].from
              THEN [row EXCEPT ![d] = [status |-> task[w].to, since |-> 0]]
              ELSE row
    /\ IF task[w].end = "exhaust" THEN Goto(w, "exhaust") ELSE Finish(w, task[w].end, task[w].wait)
    /\ UNCHANGED <<age, channel, blocked, job, marks>>

BlockExhausted(w) ==
    /\ At(w, "exhaust")
    /\ Block(ChannelOf[task[w].d])
    /\ Finish(w, "done", 0)
    /\ UNCHANGED <<row, age, channel, job, marks>>

-----------------------------------------------------------------------------
(* DeliveryService.reconcile                                               *)

\* Mutants: a dead claim is left to the run that took it; a job that waits counts as lost.
OrphanedQueued == {d \in Deliveries : row[d].status = "queued" /\ job[d].status \in {"done", "dead"}}
OrphanedIdle == {d \in Deliveries : row[d].status \in Unsettled /\ job[d].status # "running"}

Orphaned == {d \in Deliveries : row[d].status \in Unsettled /\ job[d].status \in {"done", "dead"}}

FindOrphaned(w) ==
    /\ At(w, "idle")
    /\ Orphaned # {}
    /\ Become(w, [pc |-> "fail", list |-> Orphaned])
    /\ UNCHANGED <<rows, job, marks>>

FailUnsettled(w) ==
    /\ At(w, "fail")
    /\ row' = [d \in Deliveries |->
                  IF d \in task[w].list /\ row[d].status \in Unsettled
                  THEN [row[d] EXCEPT !.status = "failed"] ELSE row[d]]
    /\ Become(w, Idle)
    /\ UNCHANGED <<age, channel, blocked, job, marks>>

-----------------------------------------------------------------------------
(* The environment                                                         *)

\* A member deletes the channel: the deliveries keep their rows.
DeleteChannel(c) ==
    /\ channel[c] # "deleted"
    /\ channel' = [channel EXCEPT ![c] = "deleted"]
    /\ UNCHANGED <<row, age, blocked, job, marks, task>>

\* A member has a disabled channel served again; a test message that Discord refuses
\* disables it once more. (The buckets a test message may block are left to the runs.)
ReenableChannel(c) ==
    /\ channel[c] = "disabled"
    /\ channel' = [channel EXCEPT ![c] = "active"]
    /\ UNCHANGED <<row, age, blocked, job, marks, task>>

TestRefused(c) ==
    /\ channel[c] = "active"
    /\ channel' = [channel EXCEPT ![c] = "disabled"]
    /\ UNCHANGED <<row, age, blocked, job, marks, task>>

\* A reconcile that is killed has changed nothing and is run again: like none.
Kill(w) ==
    /\ Running(w)
    /\ doubt' = doubt \cup {d \in Deliveries : w \in RunsOf(d)}
    /\ Become(w, Idle)
    /\ UNCHANGED <<rows, job, posted, taken>>

Cap(n, m) == IF n < m THEN n + 1 ELSE m

\* A tick of the clock; an invocation at its limit is killed before it.
Elapse ==
    /\ \A w \in Workers : Running(w) => task[w].age < Limit
    /\ row' = [d \in Deliveries |->
                  IF row[d].status = "sending" THEN [row[d] EXCEPT !.since = Cap(@, Oldest)] ELSE row[d]]
    /\ age' = [d \in Deliveries |-> Cap(age[d], Expired)]
    /\ job' = [d \in Deliveries |-> [job[d] EXCEPT !.wait = Minus(@, 1), !.lock = Minus(@, 1)]]
    /\ blocked' = [b \in Buckets |-> Minus(blocked[b], 1)]
    /\ task' = [w \in Workers |-> IF Running(w) THEN [task[w] EXCEPT !.age = @ + 1] ELSE task[w]]
    /\ UNCHANGED <<channel, marks>>

WorkerStep(w) ==
    \/ Read(w) \/ CheckChannel(w) \/ CheckBuckets(w) \/ CheckShare(w) \/ ClaimForSending(w) \/ Reread(w)
    \/ \E a \in Answers : SendMessage(w, a)
    \/ RateLimited(w) \/ DisableChannel(w) \/ PauseSender(w)
    \/ UpdateFrom(w) \/ BlockExhausted(w) \/ End(w) \/ FailUnsettled(w)

Next ==
    \/ \E w \in Workers :
          \/ WorkerStep(w) \/ FindOrphaned(w) \/ Kill(w)
          \/ \E d \in Deliveries : Start(w, d)
    \/ \E d \in Deliveries : Reclaim(d)
    \/ \E c \in Channels : DeleteChannel(c) \/ ReenableChannel(c) \/ TestRefused(c)
    \/ Elapse

Spec == Init /\ [][Next]_vars

\* The clock goes on, and with it the ticks that reclaim, run and reconcile; an
\* invocation goes on until it ends or is killed.
FairSpec ==
    /\ Spec
    /\ SF_vars(Elapse)
    /\ \A w \in Workers : WF_vars(WorkerStep(w))
    /\ \A d \in Deliveries : WF_vars(Reclaim(d)) /\ SF_vars(\E w \in Workers : Start(w, d))
    /\ SF_vars(\E w \in Workers : FindOrphaned(w))

-----------------------------------------------------------------------------
(* Properties                                                              *)

\* Two runs call Discord for one delivery at the same time only if a run has found a
\* claim of it stale: then the claim is taken over, and a late write under the old one
\* may hand the successor's claim to a third.
SendExclusive ==
    \A w, v \in Workers :
        w # v /\ At(w, "post") /\ At(v, "post") /\ task[w].d = task[v].d => task[w].d \in taken

\* A settled delivery stays as it is: a late answer, a second run, a reconcile that
\* listed it before, none of them moves it.
SettledFinal ==
    [][\A d \in Deliveries : row[d].status \notin Unsettled => row'[d] = row[d]]_vars

\* A message that was posted is recorded as sent, or its run is still about to,
\* unless a run of it was killed, outlived its lock or lost Discord's answer.
PostedIsRecorded ==
    \A d \in posted \ doubt :
        \/ row[d].status = "sent"
        \/ \E w \in RunsOf(d) : At(w, "write") /\ task[w].to = "sent"

\* Every delivery is settled in the end, although capacity waits are free, runs are
\* killed over and over, and a job may end before its delivery does.
DeliveriesSettle == \A d \in Deliveries : <>(row[d].status \notin Unsettled)

-----------------------------------------------------------------------------
(* The jobs of the deliveries, as the contract of the job queue sees them  *)

Standing ==
    [d \in Deliveries |-> IF job[d].status \in {"queued", "running"} THEN job[d].status ELSE "absent"]
BusyWith == {d \in Deliveries : RunsOf(d) # {}}

E == INSTANCE ExclusiveJobs WITH Work <- Deliveries, standing <- Standing, busy <- BusyWith

\* Where the lock outlasts every invocation, the jobs of this module are those that the
\* queue promises (ExclusiveJobs, which JobQueue implements under the same condition).
JobsExclusive == E!Spec
=============================================================================
