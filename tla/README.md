# A TLA+ development for Mocco

Mocco is a control plane for releases: pipelines whose runs pause at human
gates, feature flags, OTA updates, status monitoring and the messaging around
them. It is a TypeScript monorepo; its core is `packages/backend/src/domain`,
services over PostgreSQL repositories that run as short-lived function
invocations. Nothing runs permanently: a request, a callback or a cron tick
starts an invocation, and the platform may kill it at its time limit. Almost
every service executes a sequence of single statements without a transaction,
so correctness rests on conditional updates, unique indexes, lock tokens, and on
the order in which statements are executed.

That is what this development is about. It models the places where a wrong
interleaving would do most harm: the gated run, the N-of-M evaluator, approvals
outside runs, the job queue everything asynchronous goes through, the path from a
webhook to a notification, the sending of one, changes of feature flags, and what an
OTA channel serves.

## 1. Inventory

Paths are relative to `src/packages/backend/src/domain` unless they say
otherwise.

| Component | State it keeps | Operations | Hard behaviour |
|---|---|---|---|
| Run execution, `execution/RunService.ts` | run row (state, cursor, callback token), step rows, run events | trigger, advance, dispatch, applyCallback, resumeFromGate, finishRun | redelivered, reordered and overlapping callbacks; death between statements |
| Run gates, `governance/GateService.ts` | gate rows, recorded votes | resume (vote, evaluate, reject or resume) | votes racing votes, callbacks and their own evaluation |
| N-of-M evaluator, `governance/evaluate-gate.ts`, `vote-policy.ts` | none | checkVote, evaluateGate | matching people with several roles to slots |
| Credential broker and grants, `credential/` | issuances, grants | issue, create and delete grants | three reads of rows that others move |
| Approvals outside runs, `governance/ApprovalService.ts` | approval requests, votes | request, vote, supersedePending, expireDue; handlers and rejection listeners | vote against vote, expiry and newer change; a handler run once |
| Roles, `governance/RoleService.ts` | roles, memberships | create, assign, remove | a role lost between vote and evaluation |
| Job queue, `jobs/` | job rows, schedule rows | enqueue, kick, tick (ensure, reclaim, advance, drain), complete, fail, defer, prune | expiring locks, lost claims, retries, killed invocations, overlapping ticks |
| Event bus, `events/` | events, subscriber ledger | publish, fan out, deliver | at-least-once delivery, crash between insert and fan-out |
| Audit chain, `audit/` | hash chain per workspace | append, verify | appends that fork the chain |
| Flag governance, `flags/` | changesets, change gates, published rulesets | propose, withdraw, rebase, publish, kill, expire, change the gate | stale base versions, approval racing withdrawal and expiry |
| OTA, `ota/` | channels, heads, releases, uploads, version policies, a cache of heads | promote, roll out, pause, roll back, upload, change policy, check for updates | plans that are stale when written, policy changes racing changes, cache fills racing invalidations |
| Notifications, `notification/` | deliveries, channels | claim, send, settle, reconcile | a late answer of a send already taken over |
| Inbound and integration, `inbound/`, `integration/` | receipts, commits, connections | receive, publish, sync | duplicated and reordered deliveries |
| Status, `status/`, and the probe agent, `packages/probe` | monitors, leases, results, incidents | lease, report, verdict, open and close incidents | leases that expire under a slow probe, several locations |
| Storage and rate limits, `storage/`, `ratelimit/` | usage, objects, buckets | reserve, release, sweep; consume | quota at its limit |
| Messenger, feedback, help center | conversations, posts, articles | record keeping | read markers, merges |
| Auth, keys, projects, transports, SDKs, CLI, console | identity and configuration; none | parse, authenticate, call one service operation | none of their own |

How they interact. A transport calls one service operation. `RunService` and
`GateService` share the rows of a run and call each other (advance opens a gate;
the vote that completes a quorum resumes the run); executors and the credential
broker meet them through the run's callback token. `ApprovalService` calls a
handler registered by the subject's domain (flags, OTA policies, change gates).
Everything asynchronous (events, notifications, syncs, sweeps) is a job; its
handler runs in a `JobRunner` and must tolerate being run again.

What makes each of the modelled parts correct, in one sentence:

* a run never starts a step, succeeds or gets a credential ahead of the quorum of
  an earlier gate; it dispatches each step once, and stays finished once it is, as long as
  no invocation settles again what another has settled since it read it;
* a gate is passed exactly when its slots can be filled by distinct people, and
  nobody has rejected it;
* an approved change is applied once, by an independent quorum, and never after it
  was superseded, expired or rejected;
* a job is run by one runner at a time, is retried as often as its policy allows
  and no more, and ends;
* a webhook delivery is relayed to every subscriber or dropped with a reason, and no
  subscriber is called again for what the ledger says it has handled;
* a notification is sent by one run at a time, what was settled stays so, and every
  notification is settled;
* every version of a flag environment comes from one changeset, made on the version
  below it and approved where that was needed, and no changeset stays pending;
* a head serves verified releases, moves forward, changes on a protected channel only by
  approval, and devices get what it offers.

`PROJECT.json` lists every component and every hazard with its line in the source.

## 2. Modules

| Module | Models | Notes |
|---|---|---|
| `GateRules` | `vote-policy.ts`; the contract of `evaluate-gate.ts` | shared by runs and approvals |
| `EvaluateGate` | `evaluate-gate.ts` as it computes, one step of the search at a time | shown to agree with `GateRules!Outcome` |
| `GatedRun` | `RunService`, `GateService`, `CredentialBroker` on one run | composes the three over the rows they share |
| `Rollout` | nothing: the abstract promise of a gated pipeline | `GatedRun` implements it |
| `Approval` | `ApprovalService`, its two repositories, and how callers open requests | uses `GateRules`, implements `DecidedOnce` |
| `DecidedOnce` | nothing: the abstract promise of approvals | `Approval` implements it, and so do both kinds of requests of `FlagChanges` and of `OtaChannel` |
| `JobPolicy` | `jobs/policy.ts` | backoff and schedule slots |
| `JobQueue` | `PostgresJobQueue`, `JobRunner`, `JobRepo`, `JobScheduleRepo` | uses `JobPolicy`, implements `ExclusiveJobs` |
| `ExclusiveJobs` | nothing: the abstract promise of the job queue | `JobQueue` implements it, and so do the jobs of `Relay` and of `Delivery` |
| `Relay` | `InboundService`, `EventBus`, `NotificationService` with their repositories | composes the three over the contract `ExclusiveJobs` |
| `Delivery` | `DeliveryService`, `DeliveryRepo`, `DiscordRateLimitRepo`, the states of a channel | over the contract `ExclusiveJobs`, and beyond it where invocations overrun their locks |
| `FlagChanges` | `FlagService.applyChangeset`, `FlagGovernanceService`, `RulesetPublisher`, `KillSwitchService` | over the contract `DecidedOnce` |
| `OtaChannel` | `OtaChannelService`, `OtaHostingService`, `UpdateCheckService`, the statuses `UploadService` gives a release | over the contract `DecidedOnce` |
| `EvaluateGateProofs`, `GatedRunProofs`, `ApprovalProofs`, `JobQueueProofs`, `RelayProofs`, `DeliveryProofs`, `FlagChangesProofs`, `OtaChannelProofs` | | theorems |
| `MCGatedRun`, `MCEvaluateGate`, `MCApproval`, `MCJobQueue`, `MCRelay`, `MCDelivery`, `MCFlagChanges`, `MCOtaChannel` | | instances for TLC |

Conventions. One action is one database statement, or one transaction where the
code opens one. Reads of rows that never change are folded into the next
statement; a read of rows that others may move is an action of its own, because
the value is used after other invocations may have moved. A slot (handler,
worker, runner) is one function invocation; its `pc` is the statement it is about
to execute and its other fields are the local variables it carries across awaits.
In `GatedRun` callbacks are never used up, so one can arrive again at any time. Definitions
whose comment begins with "Mutant" are plausible mistakes in the code; replacing the
definition below them by the mutant breaks the property `PROJECT.json` names for it.

### GatedRun

`run`, `step`, `gate`, `votes` are the rows; `minted` numbers the callback tokens
(a token is its number, a fresh one equals no other); `h` the handlers in progress;
`started` and `callbacks` the executors, which are external; `issued` the broker's
issuances; `dispatches` counts `step.dispatched` events and saturates at "several".

`Trigger` is `trigger` (its inserts are one action: nobody knows the run before it
is committed). `AdvanceToGate`, `AdvanceToEnd`, `AdvanceToStep` are the three
outcomes of `advance`; `DispatchStep` and `StartExecutor` are `dispatchStep` and
`startExecutor`; `FailUnknownExecutor` and `FinishFailed` the failure paths.
`CallbackReadRun`, `CallbackReadStep`, `CallbackWrite` are the statements of
`applyCallback`. `VoteReadRun`, `VoteReadGate`, `VoteInsert`, `VoteEvaluate`,
`RejectGate`, `RejectRun`, `ResumeGate`, `RotateToken` are those of
`GateService.resume` and `resumeFromGate`; `IssueReadRun`, `IssueReadStep`,
`IssueReadGate`, `IssueCredential` those of `CredentialBroker.issue`. `Crash` is the
death of an invocation, a statement that throws, or an executor start that fails
(the code logs it and leaves the step dispatched). The slot of a dead invocation is not
used again, so that `Settles` can tell a run that was stranded by one. `Overlap` says
whether invocations on one run overlap in time at all, or each waits for the one before.
`overwrote` is a history variable: an invocation has settled a step that was settled already
(`CallbackWrite`) or a gate that was (`RejectGate`, `ResumeGate`).

What the code does not prevent: it writes steps, gates and the run without asking whether
they are still as it read them. Two overlapping deliveries of one callback both settle the
step and both advance, so the next step is dispatched twice; two voters who both find the
quorum both resume the run, and the second rotates the token of the step the first has
dispatched; a reject that lands between another vote's evaluation and its writes is
overwritten, and a finished run goes on. None of this passes a gate ahead of its quorum, and
`overwrote` is true in each of them.

Abstracted: the required reason of a vote (without it a vote is refused and leaves
no trace); role memberships and grants, which are constants here; run events other
than `step.dispatched`; the states `canceled` and `expired`, which no code writes.
Several runs share no rows, so one run is enough.

### EvaluateGate

A gate with its requirement list (a role may be listed several times), the approvers in
the order of their votes, and the rejecters; `Init` picks any of them, so the order in
which the search meets votes and slots, on which an incorrect matching would depend,
varies too. `Start` is the test for a reject, `FillNext` and `AllFilled` the loop over
the slots (`slots.every`), `Skip`, `TakeFree`, `TryHolder` and `Exhausted` one turn of
`canFillSlot` over the principals, and `Rehome` its return with success. The recursion of
the code is the stack `calls`, each call with its slot and the position of its `some`; a
slot is the pair of its entry in the list and a number within the count. The branch of
`canFillSlot` for a slot without a role is left out: `every` asks only for slots
that exist.

### Approval

`state`, `due`, `votes` are the rows; a request row is pinned when created, so only
its state varies. `applied` and `told` count calls of the handler and of the rejection
listener. `ListPending`, `SupersedeOne`, `SupersedeDone`, `CreateRequest` are
`supersedePending` followed by `request`, as callers do it; the path that ends
with "stop" is the withdrawal of a changeset. A flag changeset has a subject of its
own, so its list is empty, which is a special case. Reviews are opened alone
(`OpenReview`). `VoteRead`, `VoteLate`, `ExpireLate`, `VoteInsert`, `VoteEvaluate`,
`VoteResolve`, `Apply`, `TellRejected` are the statements of `vote`; `ListExpired`,
`ExpireOne`, `ExpireDone` those of `expireDue`. `ResolveIfPending` is the conditional
update all of them end in. Audit records are left out: `AuditService.record` never
throws. A handler that throws is a `Crash` at that point, and the slot of a dead
invocation is not used again, which is how `DecisionNoticed` and `ApprovedIsApplied` know
the requests it left behind.

What the code does not prevent, and the model therefore exhibits: a reject recorded
after the votes were listed leaves the request approved over it; and two changes
proposed at the same moment both list nothing to supersede and both stay
pending. Neither contradicts the properties below, which speak of the quorum and of
the state, and both are listed as hazards.

### JobQueue

Times are relative to the clock: `wait` is `run_at - now`, `lock` is
`locked_until - now`, and `Elapse` moves all of them by one unit. A row is never
used again after `prune` ("deleted"). A runner holds one claim at a time, so it stands
for its lock token; it keeps the row as the claim returned it, and `Holds` is the
condition of `writeClaimed`. `StartTick`, `EnsureSchedules`, `ReclaimExpired`,
`AdvanceDue`, `Claim`, `ClaimNothing` are a tick; `Kick` starts a runner on one row;
`Complete`, `Fail`, `Dead`, `Defer`, `WaitFree` are the outcomes; `PhaseFails` is a
bookkeeping phase that throws and is guarded; `Crash` and `Elapse` are external.
`Enqueue`, `EnqueueKeyed`, `InsertCreates`, `InsertConflicts`, `LookupHolder` are the
two ways of inserting. `runs` is a history variable: how often a row was claimed,
waits that cost no attempt taken back.

The time limits are constants whose order is not assumed: `Visibility` against
`FunctionMax` decides whether a live runner can lose its claim, and a self-hosted
driver may have them in the other order. (`docs/reference/jobs.md` gives a lock of
5 minutes where the code has 10; the model uses neither number.) Not modelled: cron
expressions and changes of a schedule's interval.

### Relay

`receipt`, `failures`, `stale` are the inbound receipts; `event`, `ledger` and `job` the
event bus with one `events.deliver` job for each subscriber; `active` and `delivery` what
the fan-out reads and writes. `Ingest`, `InsertReceipt`, `CheckQuota`, `DropOverQuota` are
the statements of `ingest` up to the publish; `InsertEvent` and `EnqueueDelivery` are
`EventBus.publish`, entered from an ingest, from the sweep (`Republish`, `RepublishNext`) or
from another service (`PublishFact`, best effort, once); `MarkPublished`, `CountFailure`,
`GiveUp`, `DropUnparseable` settle a receipt. `RunDelivery`, `FindEvent`, `FindTargets`,
`CreateDelivery`, `HandleOther`, `MarkDelivered`, `CompleteJob` are a delivery job.
`PublishThrows`, `RecordingThrows`, `DeliverThrows` and `Kill` are statements that fail and
invocations that die. The job is reduced to what `JobQueue` guarantees where locks outlast
invocations. Signatures are checked and the source is active before `Ingest`; which rules
match is the constant `Matching`; a channel can be disabled here but not enabled again.
A receipt in `Outgrown` was stored before a deploy after which it does not parse any more.

### Delivery

`row` is a delivery with its claim, `age` the time since it was queued, `job` its
`notification.deliver` job, `blocked` the shared rate limits. `Read`, `CheckChannel`,
`CheckBuckets`, `CheckShare`, `ClaimForSending`, `Reread`, `SendMessage` follow
`deliver`; `RateLimited`, `DisableChannel`, `PauseSender`, `UpdateFrom`, `BlockExhausted`
carry out an answer; `End` reports to the queue, where a free wait costs no attempt until
`MaxDeferrals`. `FindOrphaned` and `FailUnsettled` are `reconcile`. Unlike in `Relay`, an
invocation may live longer than the lock of its job (`Limit` against `Lock`) and longer than
its own claim (`Stale`). `taken` records that a run found a claim stale, `doubt` that a run was
killed, outlived its lock or lost Discord's answer. Discord is external; an
"ambiguous" answer is a timeout after which the message may or may not be there. The
workspace's share of a minute is a nondeterministic wait. Of a test message only the
refusal that disables the channel is modelled, not the bucket it may block.

What the code does not prevent: once a run has found a claim stale, its owner may still be
alive and post beside it, and the owner's late answer can put the row back to queued under
its successor, whose claim then goes to a third run. Claims do not exclude this, since one
goes stale after 2 minutes and an invocation may live 5 (`DeliveryPolicy`, `JobTiming`). What
does is the lock of the job, which lasts 10: a second run starts only when the first is dead
(`OneRunAtATime` in section 4).

### FlagChanges

One environment: `version` and `gate`, the changesets `cs`, and the requests of changesets
and gates. `Submit` is `applyChangeset`, which publishes at once where no gate is set
and otherwise proposes: `FindRepoPending` and `Close` supersede what the repository
proposed before, `InsertPending` and `OpenRequest` write changeset and request. `Publish` is
the transaction of `RulesetPublisher.apply` under the environment's lock, which refuses a
stale base. `Approve` and `Reject` resolve a request (their votes are in `Approval`) and
run its handler: `FindApproved`, `Publish`, `MarkConflicted`; `MarkRejected`. `Withdraw`
and `Rebase` close a changeset; `ExpireDue`, `ExpireRequests`, `ExpireChangeset` are the
expiry job. `Bypass`, `PublishBypass`, `OpenReview` are the kill switch, and without the
review the creation of a flag. `SetChangeGate`, `SupersedeGate`, `RequestGate`,
`ApproveGate`, `RejectGate`, `WriteGate` change the gate. What a changeset does to the flags
is not told apart; whether a publish may go on top of another depends on versions alone.

What the code does not prevent: a gate that is set between the submission's read and its
publish does not hold it back; two changes of the gate proposed at once both stay
pending, and the second handler writes over the first (`raced`); a killed invocation leaves a
published kill without its review (`lost`).

### OtaChannel

`head` has one row for each platform; `status` is a release's; `policy` and `stamp` are the
channel; `cache`, `check` and `device` one server's cache, an update check in progress and
the device behind it. `Promote`, `ChangeRollout` and `Stop` start a change, `Plan` reads the
heads and decides what to write (`CanPlan`, `Touched`, `Written` are the four planning
methods), `WriteHeads` writes the fields the plan names, `Invalidate` drops the cache of
this process. On a protected channel a forward change becomes a request
(`SupersedeChanges`, `RequestChange`, `ApproveChange`, `RejectChange`). `ChangePolicy` to
`SetPolicy` and `Sweep` change the policy with its optimistic check, and supersede what
was asked for under the old one. `Finalize`, `VerifyAssets`, `Abandon` are the
statuses of an upload. `CheckCached`, `FindServingState`, `Remember`, `Forget` are the
update check and its cache; `Offer` is `selectResponse`; `Loads` is the device, which takes
only what is newer.

What the code does not prevent: plans are written without a check that the heads are
those they were made for, so two promotions at once can leave the older one active
(`stale`); a promotion that read the channel as open writes after it was protected
(`skew`); an invocation killed between `setPolicyIfUnchanged` and `supersedePending` leaves
the changes asked for under the old policy pending, to be approved and applied under the new
one (`unswept`, against "invariant 8" at `OtaHostingService.ts:98`), until a later change of
either kind happens to supersede them; and a rollback to the embedded bundle in the middle of a rollout forgets the
candidate, so a release older than it can be promoted next, which devices on the candidate
ignore.

## 3. Runs

Every run finishes within four minutes on two cores.

| Run | Shows |
|---|---|
| `gated_run_races` | Two concurrent invocations, killed anywhere, on gate, step, step with a credential: `ProgressEarned`, `CredentialEarned`, the refinement of `Rollout`, and, until an invocation settles again what was settled, `DispatchedOnce` and `RotationUnlessOverwritten` |
| `gated_run_serial` | Requests that do not overlap, redelivered, reordered and killed anywhere, on gate, step, step with a credential, gate, step without an adapter: `InFlightAnswerable`, `FinishedIsFinal`, and `Settles` under fairness |
| `two_resumes_rotate` | violated (`RotationSafe`): two people who complete a quorum at once both resume the run, and the second rotates the token of the step the first has dispatched |
| `reject_races_resume` | violated (`FinishedIsFinal`): a reject that lands between another voter's evaluation and its writes leaves a rejected run running again |
| `evaluate_gate` | The matcher on every list of up to three entries and every order of votes: `MeetsContract` (it finds an assignment exactly when there is one), and `Decides` (it ends) under fairness |
| `approval_races` | Two workers, killed anywhere, two changes of one subject and a review: `AppliedEarned`, `DecisionNoticed`, `ApprovedIsApplied`, and the refinement of `DecidedOnce` (`RequestsDecidedOnce`) |
| `job_queue_ticks` | Two overlapping ticks or kicked runs, killed anywhere, with a schedule: `ClaimExclusive`, `RetriesBounded`, `MissedSlotsSkipped` |
| `job_queue_overrun` | Locks shorter than invocations, with a deduplicated key: jobs run twice at once, yet `OneLivePerKey` and `OnlyOwnerWrites` hold, and under fairness `JobsSettle`: every job ends though runners die in the middle of runs for ever |
| `relay` | A delivery sent twice, deliveries at the limits, and a fact with two subscribers, with statements that throw and invocations that die: `PublishedFannedOut`, `FanOutComplete`, `HandledOnce`, `CeilingHolds` (the ceiling is exceeded by at most one per concurrent request), and `Relayed` under fairness |
| `delivery` | Runs of one delivery with every answer, killed anywhere, that outlive their job's lock and their own claim: `SendExclusive`, `PostedIsRecorded`, `SettledFinal`, and `DeliveriesSettle` under fairness |
| `flag_changes` | Console changes, pushes, a kill, a new flag and changes of the gate against votes, withdrawals, rebases and expiry: `EveryVersionExplained`, `AppliedGoverned`, `FateFinal`, `GateGoverned`, and `ChangesetsEnd` under fairness |
| `ota_channel` | Changes of the heads and of the policy by two invocations, uploads, and a device: `RolloutBounded`, `ServedReady`, `HeadAdvances`, `PolicyGoverned`, `ForwardApproved`, and `DeviceCatchesUp` under fairness |

Properties that follow from the proofs of section 4 and add nothing to a run beside the
others are left to TLAPS: the inductive invariants with their types, `RejectionBacked`,
`ResolutionBacked`, `ResolvedFinal`, and `DeadIsExhausted` and `FinishedIsFinal` of the queue.
So is `TypeOK` of every module with a theorem `TypeSafety` or `Invariance`. The refinements
of `DecidedOnce` by `FlagChanges` and of `ExclusiveJobs` by `JobQueue`, `Relay` and `Delivery`
were checked with TLC before they were proved, on the instances of the runs with `Spec` in
the place of `FairSpec` and, where the theorem supposes it, locks longer than invocations
(264,331 states of `FlagChanges`, 869,292 of `JobQueue`, 395,865 of `Relay` and 31,163 of
`Delivery`); the one by `OtaChannel` numbers its requests without a bound and is proved only.

The violated runs are disagreements between the code and what it says of itself;
`PROJECT.json` quotes the lines. With overlap four statements about a run fail: that the
token rotates only while no step is in flight (`RotationSafe`, against `RunService.ts:381-382`,
in `two_resumes_rotate`), that a finished run stays finished (`FinishedIsFinal`, against
`execution.ts:21`, in `reject_races_resume`), that the step in flight can be answered
(`InFlightAnswerable`), and that no step is dispatched twice (`DispatchedOnce` without its
exception, against `slice4-runs-execution-design.md:138`, which has "a redelivered callback is
idempotent (no double-advance)"). `gated_run_serial` shows that the second and third hold where
requests do not overlap. `gated_run_races` and the proofs show where the trouble begins: all four
hold, whatever overlaps, until an invocation settles again what was settled (`overwrote`).
`FinishedUnlessOverwritten` and `overwrote \/ InFlightAnswerable` were checked with TLC on the
instance of `gated_run_races` and are left to TLAPS.

**Bounds, and why they are enough.** The gate needs two people in two roles; three users
suffice for the interesting assignments: ann holds both roles (and must not fill both
slots), bob one, and tom, barred by `prevent_self`, the other. Two invocations give
every pairwise race; the
proofs cover any number. Five items make a pipeline with everything in it (two gates, a
step before and after a gate, a credential, an unknown executor); with two handlers
three items are the most that can be explored, so the concurrent run has a gate with two
steps behind it. Two
requests of one subject make an older and a newer change. For the queue, two rows, two
attempts, one refund and a lock of three units against invocations of two reach every
branch, and lateness is saturated beyond the point where the code's answer changes
(`RowLater`, `ScheduleLater`). In `job_queue_overrun` one of the two runners is left over
(`LeftoverSpec`): it starts only before any job has run and then lives on beside the other,
through the expiry of its lock, the reclaim and the second run of its job; fairness is asked of
the other runner only. Two runners that start at any time are in `job_queue_ticks`, and the proofs
of `OneLivePerKey` and `OnlyOwnerWrites` are for any number of them. In `evaluate_gate` four people and lists of up to three
entries with counts up to two leave room for a greedy assignment to go wrong and for a
search that has to move people already assigned.

The four larger systems are explored as several small ones: `Workloads` is a set of
budgets, a behaviour starts with one of them, and each is the smallest that makes its
races happen. `relay` has a receipt that comes twice with three faults, pairs and a triple
that meet limits of one, and a fact with two subscribers, one of them the fan-out to two
channels. `delivery` has one delivery: deliveries share only rate limits and the channel,
which others' effect on it is the nondeterminism of `CheckShare` and of the channel's
actions; three attempts, one deferral, and invocations of two ticks against a lock and a
claim of one reach every overlap. `flag_changes` has two changes of a kind beside each other,
with a kill, a new flag or a change of the gate, and a death where the space allows.
`ota_channel` starts from no head, a head in service, a first rollout and a rollout over an
older release, with up to three changes of the heads or two of the policy; three releases
make an oldest, a middle and a newest, and Full = 3 leaves two proper shares.

Deadlock is not checked where a system comes to rest by itself: a run that finished, a
request that was resolved, an evaluation that has its outcome, a workload that is used up. The queue never stops
(the clock and the driver go on), and its runs do check it.

Symmetry: handlers, workers, runners and enqueuers are interchangeable in the safety
runs; no run that checks liveness uses symmetry.

**Fairness.** `EvaluateGate`: the computation goes on (WF of `Next`). `GatedRun`: a handler in progress goes on (WF; an invocation is not
preempted for ever, only killed), an executor that was started reports an outcome (WF;
that is an executor's contract), and a callback that stays acceptable is delivered
again until taken (SF; executors retry). Nothing is assumed of voters. `JobQueue`: time passes and the driver ticks again
and again (SF, since other steps may disable them for a while), and a runner that has
not been killed goes on (WF); `Overhead` below `Budget` in that run says that a tick reaches its first
claim in time, without which ticks could spend their budget before claiming anything.
`Relay`, `Delivery`, `FlagChanges`, `OtaChannel`: an invocation that is not killed goes on,
and time passes; what the schedules of the queue start (the republishing sweep, due delivery
jobs, reconcile, expiry) is started again, which is what `JobsSettle` and the schedules give.
It is strong fairness in `Delivery`, where waits and blocked slots disable these steps for a
while. A device keeps asking and a cache entry expires (5 seconds in the code, `DEFAULT_STATE_TTL_MS`). Nothing is
assumed of vendors, voters or members, and no fairness of deaths: in `JobQueue` and `Delivery`
they may happen for ever, in the others as often as the workload says.

`Settles` and `ApprovedIsApplied` exempt what a dead invocation left behind, and nothing in
the code repairs that: one killed after settling a step and before advancing strands its run,
as the redelivered callback is then a no-op; one killed between the resolution of a request
and its handler leaves a change approved and never applied, as later votes are refused.

## 4. Proofs

TLAPS checks every theorem for all values of the constants that satisfy the named
assumptions: any pipeline, any requirements, any number of users, handlers, workers,
runners and jobs.

**EvaluateGateProofs.** `EvaluatorIsRight`: whatever the list, the votes and the order, the
answer is the one `GateRules!Outcome` defines by the existence of an assignment. The
invariant has three parts. `Matched`: the matching names approvers who cover their slots, no
slot twice, and fills the slots that are done, except for the one principal on the way from
its old slot to its new one. `Path`: the calls on the stack form an alternating path, each
waiting for the slot its principal holds, and no principal is on it twice. `Tried`: whoever
was visited and is off the path holds a slot whose possible approvers have all been visited.
That a success is right is read off the matching. That a failure is right is a counting
argument, the hard half of Hall's theorem: the failed slot and the slots of the visited can
only be filled by the visited, who are one fewer, so no assignment exists. `SearchEnds` gives
what termination rests on: every step makes one of two finite sets smaller (`todo`, or the
approvers and calls still to come in this search), and before the outcome a step is
possible. The last inference, from there to `Decides`, needs fairness and is left to TLC.

**GatedRunProofs.** `ProgressEarned` is not inductive: it speaks of started steps and
success, while the right to start one is established several statements earlier by a
handler that has since been overtaken. `Inv` adds what a handler has earned at each
statement (`Earned`: it has reached its item; before it resumes a gate the quorum is
there; before it writes a callback the callback exists), that the votes on record were
admitted (`VotesChecked`), and that rows agree with what was earned (`GatesEarned`,
`RunEarned`). The argument: votes, callbacks and successes only grow (`Grows`), so what
a handler has earned stays earned whatever the others do; hence the invariant survives even
the races that break `FinishedIsFinal`. `Invariance`, `ProgressIsEarned`,
`CredentialIsEarned`, `RejectionIsBacked` follow, and `Refinement` shows that each
statement is a step of `Rollout` or a stutter. The growth of a quorum with its votes is
the lemma `FilledMonotone`.

The last part of the module is about what the races do break. Its invariant `OverlapInv` is
`overwrote \/ Orderly`: until an invocation settles again what was settled, and whatever
overlaps, at most one invocation is moving the run (`Movers`, `Waiting`, `NobodyWorks`); it
stands where the rows say (`Placed`: an advance is about the item behind the cursor and no step
is in flight); steps beyond the cursor were never dispatched and the one at it at most once
(`StepsAgree`); and an executor at the cursor has the token of the run (`TokensAgree`). The
argument is that settling the item at the cursor is what makes an invocation the mover, so a
second mover has settled something twice. `NoSecondDispatch`, `StepsStayAnswerable`,
`FinishedStays` and `RotationIsSafe` follow, for every pipeline and any number of invocations,
with no hypothesis about overlap.

**ApprovalProofs.** The invariant turns on `OneWinner`: the right to run the handler
of a request belongs to the one worker whose conditional update found it pending; every
other worker, whatever it saw, finds the row resolved. `AppliedIsEarned`,
`ResolutionIsBacked` and `ResolutionStands` follow. `DecisionsAreNoticed` has an
invariant of its own (`NoticeInv`): a vote that decides is followed by its own
evaluation, and the last of several concurrent voters to evaluate sees all of them, unless
it was killed in between. `ApprovedAreApplied` follows the one winner to its handler. `RequirementAssumption` (at least one person is
required) is from `gateRequirementsSchema`; without it a request would be decided with
no vote to notice it.

`ServiceKeepsContract` shows that all of this, seen from a service that asks for an approval,
is `DecidedOnce`: a request is opened once, decided once, and only the approval gives one
invocation the right to act, which is used or lost with it. `FlagChanges` and `OtaChannel`
resolve a request in one step instead of modelling its votes; their theorems
`RequestsKeepContract` show that the requests they use, of changesets and for the gate in the
one, of changes and of policies in the other, keep the same contract. So what those modules
assume of approvals allows nothing that the service rules out in terms of opening, deciding
and acting. Both sides implement one abstract specification; that is not a proof that a
module stays correct with the full service put in its place, since expiry and votes are
driven by different steps.

**JobQueueProofs.** The invariant relates a runner's snapshot to its row while it
holds it (`SnapshotCurrent`), the remainder of a lock to the remainder of its
invocation (`LocksCover`), and the runs of a row to the attempts and refunds they cost
(`RunsPaid`: each counted attempt pays for itself and for at most `Cap` refunded runs
before it). `ClaimsExclusive` needs the second, `RetriesAreBounded` the third. `KeysUnique`,
`DeathIsEarned`, `FinishedStays`, `OwnersOnly`, `SlotsSkipped` complete the safety
properties; `NextSlotIsFirst` shows for all integers that `nextIntervalSlot` gives the first
slot of its grid that lies in the future. `ClaimsExclusive` holds under
`Visibility > FunctionMax`, which is part of the property; the others need no order of the limits.

`QueueKeepsContract` has the same hypothesis and shows that the queue implements
`ExclusiveJobs`. A piece of work is a dedupe key, or a row enqueued without one. The argument:
a work has at most one live row (`LiveApart`), so its standing is that of the row; a runner in
the middle of a run holds its row, alone (`HolderAlone`); hence what it writes at the end finds
its claim, and a lock that has run out belongs to a run that has died. `Relay` and `Delivery`
have their own reduced jobs; `JobsKeepContract` in `RelayProofs` and in `DeliveryProofs` (there
where `Lock > Limit`) shows that these keep the same contract, with the reservation made above
for approvals.

**RelayProofs.** `Inv` says what an invocation has done for its event at each statement
(`ProgressOK`: the jobs of the subscribers before the one it enqueues exist; a fan-out that
goes on has created what it no longer has to do; the ledger has no entry while a handler
runs) and that no two invocations run one delivery job (`Exclusive`). The argument: jobs and deliveries are only created and channels only disabled, so what an
invocation has done stays done when a sweep, a second sending or a retry does it again.
`FanOutBeforeMark`, `LedgerIsServed` and `LedgerStopsRepeats` follow. `CeilingBound` counts:
the receipts kept and the invocations between the check and the insert never exceed the
ceiling by more than the number of invocations less one, since the last one to pass was
below the ceiling and only the others can be on their way.

**DeliveryProofs.** Nothing is assumed of the order of the time limits, except in
`OneRunAtATime` and `JobsKeepContract`. `ClaimExcludes` rests on `ClaimsOK`: as long as nobody has found a claim of
a delivery stale, its row leaves `sending` only by the run that holds the claim. An earlier
form of `SendExclusive` exempted only runs that had themselves outlived the stale limit. TLC
found no violation in the small instance, but the proof failed, and larger limits
(`MaxQueued = 6`, `MaxAttempts = 5`) show why: the late answer of an overtaken run queues the
row again under a successor that is still young, and a third run claims it. The property now says what
is true, in terms of `taken`. `OneRunAtATime` gives what the code relies on: where a lock
outlasts every invocation, an invocation always holds its job (`LocksCover`: the lock has
run down no further than the run has aged), so there are no two runs at all.
`PostsAreRecorded` follows the row under its one run, while nothing put it in doubt
(`RowsAgree`, `RunsOwn`), and needs that reconcile lists only deliveries whose job has ended
for good (`ListsEnded`). `SettledStays`: every write asks for an unsettled status.

**FlagChangesProofs.** `ChangeInv` says which invocation may create which row (`Unseen`,
`Apart`: a changeset is in the hands of one invocation until it is inserted) and that a row
comes before its request (`RowsFirst`), and `Effect` sorts all steps into two kinds: those that
leave the version and what is decided, and the publish, which under the environment's lock
applies one undecided changeset on the version it was made for. `FirstResolverWins`,
`VersionsExplained` (counting) and `ChangesGoverned` follow from it. `GateByApproval` holds
with changes of the gate that do not overlap (`raced` in the property); `GateInv` then has one
invocation at the gate, which has read the gate of now, and at most one request pending.
`RequestsKeepContract` needs no such condition: `GateHands` says that a request for the gate
is in the hands of the one invocation that will open or use it, however many overlap.

**OtaChannelProofs.** What a plan writes is analysed once (`GoodWrite`), for plans that are
stale as well as fresh: any written head keeps its shares proper and its releases verified,
and a fresh plan keeps the order of active and candidate and moves forward. `RolloutsBounded`
and `ServesVerified` hold whatever overlaps; `ActiveAdvances` while plans were fresh. That a
head written by a rollback to the embedded bundle has its type needs the greatest element of
a finite set of times (`MaxIn`, by well-founded descent over subsets). `PolicyByApproval` turns on the stamp: what was read with the present
stamp was read with the present policy, so the optimistic update is right.
`ForwardByApproval` says that a forward change was approved, as long as no change of the policy
overlaps another change (`skew` in the property), and that it was asked for under the policy in
force, unless an invocation was killed between setting a policy and its sweep (`unswept`): with
neither, a change of the policy is followed by its sweep before anything else begins. `WorkloadsAssumption` says of the heads a workload
starts from what the code keeps true of heads, and `OtaAssumption` that a release has finitely
many directives.

**Only model-checked.** The liveness properties: `Settles`, `JobsSettle`, `Relayed`,
`DeliveriesSettle`, `ChangesetsEnd`, `DeviceCatchesUp` and `Decides`. They rest on fairness,
which is beyond this prover. Every other property of a passing run is stated by a theorem, the
invariants, the action properties and the refinements alike; of `InFlightAnswerable` and
`FinishedIsFinal`, which are checked where requests do not overlap, the theorems state the more
general form with the exception of `overwrote`. Induction over data is used in
the form of least elements of well-founded orders (`MaxIn`, `LeastNumber` of
`EvaluateGateProofs`); no module with a theorem uses a recursive operator.

## 5. Plan

Done: `GateRules`, `EvaluateGate`, `Rollout`, `GatedRun`, `Approval`, `JobPolicy`,
`JobQueue`, `Relay`, `Delivery`, `FlagChanges`, `OtaChannel`, the contracts `DecidedOnce` and
`ExclusiveJobs`, and proofs of all safety properties of their runs. Next, in this order:

1. `AuditChain`: `appendChained` under its advisory lock and the paged verification
   walk; that the chain never forks and that a walk racing appends reports no false break.
2. `VersionPolicyService` (the revisioned write), composed with `Approval`; memberships and
   grants as variables of `GatedRun` and `Approval`.
3. Probe leases, verdicts and the probe agent; upload sessions; storage quotas.
4. `FlagChanges` and `OtaChannel` put together with `Approval`, and `Relay` and `Delivery` with
   `JobQueue`, in one specification each. The contracts `DecidedOnce` and `ExclusiveJobs`, which
   both sides of each pair keep, are the interface such a composition would use.

## 6. Not modelled

Transports, SDKs, CLI and console call one operation each and add no protocol. Signing,
hashing and token formats are pure functions of external libraries. Executors,
credential providers, GitHub, Discord and mail are external and appear only as the
nondeterminism of the actions that call them. Feedback boards, the help center and
configuration records keep rows in single statements. Of the modelled parts, what is left
out: the pruning of events, receipts, deliveries and rate limits, which deletes only
what nothing reads any more; notification rules, message rendering, the activity view and
the canary; sources of webhooks and their signatures; compilation of rulesets and the
reports on stale flags; upload sessions and the objects behind a release, runtime versions
beyond one, metrics and timelines. The components planned in
section 5 are marked so in `PROJECT.json`.
