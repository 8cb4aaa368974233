------------------------------ MODULE OtaChannel ------------------------------
(***************************************************************************)
(* What one OTA channel serves: ota/OtaChannelService.ts (changes of the    *)
(* heads), ota/OtaHostingService.ts (the channel's policy), the statuses of *)
(* a release (ota/UploadService.ts) and a device that asks for updates      *)
(* (ota/UpdateCheckService.ts with its cache).                              *)
(*                                                                         *)
(* One action is one statement or transaction.  A change is planned from    *)
(* the heads that are read and written later, without a lock: a plan may    *)
(* be stale by then.  Approvals are the contract module Approval proves.    *)
(* Runtime versions do not share heads, so there is one; a release has an   *)
(* update for each platform, and stands for its original update.            *)
(***************************************************************************)
EXTENDS Naturals, Sequences, FiniteSets, FiniteSetsExt

CONSTANTS
    None,
    Releases,     \* releases, and the original update of each
    Republishes,  \* the pre-signed republishes
    TimeOf,       \* the commit time of an update
    Supersedes,   \* the original update a republish was signed to replace
    ContentOf,    \* the original update whose content a republish repeats
    DirectivesOf, \* the commit times of a release's rollBackToEmbedded directives
    Platforms,
    Full,         \* the share of devices that is all of them (10,000 basis points)
    Policies,     \* approval policies; "open" is a channel without one
    Device,       \* the platform of the device that is watched
    Workers,      \* slots for invocations
    Workloads     \* bounds: where to begin, the changes of heads and of the policy,
                  \* the kills, and whether the device asks

Updates == Releases \cup Republishes

ASSUME OtaAssumption ==
    /\ None \notin Updates
    /\ Releases \cap Republishes = {}
    /\ TimeOf \in [Updates -> Nat \ {0}]
    /\ Supersedes \in [Republishes -> Releases]
    /\ ContentOf \in [Republishes -> Releases]
    /\ \A r \in Republishes : TimeOf[r] > TimeOf[Supersedes[r]]
    /\ DirectivesOf \in [Releases -> SUBSET Nat]
    /\ \A u \in Releases : IsFiniteSet(DirectivesOf[u])
    /\ Device \in Platforms
    /\ Full \in Nat \ {0, 1}
    /\ "open" \in Policies

Time(u) == IF u = None THEN 0 ELSE TimeOf[u]
Content(u) == IF u \in Republishes THEN ContentOf[u] ELSE u
ReleaseOf(u) == IF u \in Republishes THEN Supersedes[u] ELSE u

NoHead == [active |-> None, previous |-> None, candidate |-> None,
           bp |-> 0, paused |-> FALSE, directive |-> 0]

Forward == {"promote", "rollout", "complete", "resume"}
Stops == {"pause", "rollback", "embedded"}
Change(kind, u, bp, on) == [kind |-> kind, u |-> u, bp |-> bp, on |-> on]

VARIABLES
    status,    \* ota_releases: uploading, verifying, ready or failed
    head,      \* ota_channel_heads, one for each platform
    policy,    \* ota_channels: the policy
    stamp,     \* and updated_at, as a count
    changeReq, \* the requests for changes of the heads: change, policy asked under, state
    policyReq, \* the requests for policies: policy, policy asked under, stamp, state
    cache,     \* the head the device's server remembers, or None
    check,     \* the head its update check has read, or None
    device,    \* the update the device runs
    stale,     \* was a head written from a plan made for other heads?
    skew,      \* did a change of the policy overlap another change?
    unswept,   \* was an invocation killed between setting a policy and its sweep?
    left,      \* what may still come
    task       \* what each worker is doing

channel == <<policy, stamp>>
requests == <<changeReq, policyReq>>
serving == <<cache, check, device>>
vars == <<status, head, channel, requests, serving, stale, skew, unswept, left, task>>

Idle == [pc |-> "idle"]
\* A change of the heads: the policy its invocation read, the request it acts for
\* (0 for none) and the heads it was planned on.
Changing(pc, ch, under, req, seen) ==
    [pc |-> pc, ch |-> ch, under |-> under, req |-> req, seen |-> seen]
\* A change of the policy to `to`, with the policy and the stamp that were read.
Ruling(pc, to, under, at, req) ==
    [pc |-> pc, to |-> to, under |-> under, at |-> at, req |-> req]

PolicyPCs == {"supersedePolicies", "requestPolicy", "readPolicy", "setPolicy", "sweep"}
PCs == {"idle", "plan", "write", "invalidate", "supersede", "request"} \cup PolicyPCs

Heads == [active : Updates \cup {None}, previous : Updates \cup {None}, candidate : Updates \cup {None},
          bp : 0..Full - 1, paused : BOOLEAN, directive : Nat]
RequestStates == {"pending", "approved", "rejected", "superseded"}
\* Nothing in the code disables a release.
ReleaseStates == {"uploading", "verifying", "ready", "failed"}

\* A workload begins with heads that serve verified updates and roll out newer ones.
ASSUME WorkloadsAssumption ==
    \A l \in Workloads :
        /\ l.status \in [Releases -> ReleaseStates]
        /\ l.head \in Heads
        /\ \A u \in {l.head.active, l.head.previous, l.head.candidate} \ {None} : l.status[ReleaseOf(u)] = "ready"
        /\ l.head.candidate # None =>
              l.head.bp > 0 /\ (l.head.candidate = l.head.active \/ Time(l.head.candidate) > Time(l.head.active))
        /\ l.policy \subseteq Policies

\* The rows have their types; the share of a rollout is never all devices, as the
\* action schema of channel changes says.
TypeOK ==
    /\ status \in [Releases -> ReleaseStates]
    /\ head \in [Platforms -> Heads]
    /\ policy \in Policies /\ stamp \in Nat
    /\ \A i \in DOMAIN changeReq : changeReq[i].state \in RequestStates /\ changeReq[i].under \in Policies
    /\ \A i \in DOMAIN policyReq : policyReq[i].state \in RequestStates /\ policyReq[i].under \in Policies
    /\ {cache, check} \subseteq Heads \cup {None}
    /\ device \in Updates \cup {None}
    /\ {stale, skew, unswept} \subseteq BOOLEAN
    /\ \A w \in Workers : task[w].pc \in PCs

Init ==
    /\ stamp = 0
    /\ changeReq = <<>> /\ policyReq = <<>>
    /\ cache = None /\ check = None /\ device = None
    /\ stale = FALSE /\ skew = FALSE /\ unswept = FALSE
    /\ \E l \in Workloads :
          /\ status = l.status
          /\ head = [p \in Platforms |-> l.head]
          /\ policy \in l.policy
          /\ left = l.left
    /\ task = [w \in Workers |-> Idle]

Become(w, t) == task' = [task EXCEPT ![w] = t]
Goto(w, pc) == Become(w, [task[w] EXCEPT !.pc = pc])
At(w, pc) == task[w].pc = pc
Spend(what) == left[what] > 0 /\ left' = [left EXCEPT ![what] = @ - 1]

\* supersedePending of ApprovalService.
Superseded(reqs) ==
    [i \in DOMAIN reqs |-> IF reqs[i].state = "pending" THEN [reqs[i] EXCEPT !.state = "superseded"] ELSE reqs[i]]

\* Does what this worker starts overlap a change of the policy?
NoteOverlap(w) == skew' = (skew \/ \E x \in Workers \ {w} : task[x].pc \in PolicyPCs)

-----------------------------------------------------------------------------
(* Plans: which heads a change writes, and what it makes of them.  s is a    *)
(* head as it was read, h the head as it is when the plan is carried out.    *)

\* rollbackOf: what devices must leave, and what they go back to.
Bad(s) == IF s.candidate # None THEN s.candidate ELSE s.active
BackTo(s) == IF s.candidate # None THEN s.active ELSE s.previous

\* Mutant: during a rollout, the active update is taken for the bad one.
RepublishOfActive(s) ==
    {r \in Republishes : BackTo(s) # None /\ Supersedes[r] = s.active /\ ContentOf[r] = Content(s.previous)}

RepublishFor(s) ==
    {r \in Republishes : BackTo(s) # None /\ Supersedes[r] = Bad(s) /\ ContentOf[r] = Content(BackTo(s))}

\* findRollBackToEmbedded: signed with the release that is served, dated after it.
DirectiveFor(s) == {d \in DirectivesOf[ReleaseOf(Bad(s))] : d > Time(Bad(s))}

Serves(s) == Bad(s) # None

\* Already what is asked for: left out of the plan.
IsServed(ch, s) ==
    IF ch.bp = Full THEN s.active = ch.u /\ s.candidate = None /\ s.directive = 0
    ELSE s.candidate = ch.u /\ s.bp = ch.bp

IsOlder(u, s) == \E v \in {s.active, s.candidate} \ {None, u} : TimeOf[v] >= TimeOf[u]

Touched(ch, seen) ==
    CASE ch.kind = "promote" -> {p \in Platforms : ~IsServed(ch, seen[p])}
      [] ch.kind \in {"rollout", "complete", "resume", "pause"} -> {p \in Platforms : seen[p].candidate # None}
      [] ch.kind \in {"rollback", "embedded"} -> {p \in ch.on : Serves(seen[p])}

\* Mutant: the verification is not waited for.
CanPlanUnverified(ch, seen) ==
    /\ Touched(ch, seen) # {}
    /\ ch.kind = "promote" => \A p \in Platforms : ~IsOlder(ch.u, seen[p])
    /\ ch.kind = "rollback" => \A p \in Touched(ch, seen) : RepublishFor(seen[p]) # {}
    /\ ch.kind = "embedded" => \A p \in Touched(ch, seen) : DirectiveFor(seen[p]) # {}

\* The plan is refused as a whole, or there is nothing to do.
CanPlan(ch, seen) ==
    /\ Touched(ch, seen) # {}
    /\ ch.kind = "promote" => status[ch.u] = "ready" /\ \A p \in Platforms : ~IsOlder(ch.u, seen[p])
    /\ ch.kind = "rollback" => \A p \in Touched(ch, seen) : RepublishFor(seen[p]) # {}
    /\ ch.kind = "embedded" => \A p \in Touched(ch, seen) : DirectiveFor(seen[p]) # {}

\* Mutant: the rollout that is completed goes on.
CompletedOnly(s, h) == [h EXCEPT !.active = s.candidate, !.previous = s.active, !.bp = 0, !.paused = FALSE]

Completed(s, h) ==
    [h EXCEPT !.active = s.candidate, !.previous = s.active, !.candidate = None, !.bp = 0, !.paused = FALSE]

Promoted(u, s, h) ==
    [h EXCEPT !.active = u, !.previous = s.active, !.candidate = None, !.bp = 0, !.paused = FALSE, !.directive = 0]

\* Only the fields a plan names are written; the others keep their values.
Written(ch, s, h) ==
    CASE ch.kind = "promote" /\ ch.bp = Full -> Promoted(ch.u, s, h)
      [] ch.kind = "promote" /\ ch.bp # Full ->
           [h EXCEPT !.candidate = ch.u, !.bp = ch.bp, !.paused = FALSE, !.directive = 0]
      [] ch.kind = "rollout" -> [h EXCEPT !.bp = ch.bp]
      [] ch.kind = "complete" -> Completed(s, h)
      [] ch.kind \in {"pause", "resume"} -> [h EXCEPT !.paused = (ch.kind = "pause")]
      [] ch.kind = "rollback" ->
           [Promoted(CHOOSE r \in RepublishFor(s) : TRUE, s, h) EXCEPT !.previous = Bad(s)]
      [] ch.kind = "embedded" ->
           [h EXCEPT !.directive = Max(DirectiveFor(s)), !.candidate = None, !.bp = 0, !.paused = FALSE]

-----------------------------------------------------------------------------
(* OtaChannelService                                                       *)

\* changeRollout: a share of all devices completes the rollout.
RolloutChange(kind, bp) ==
    IF kind = "rollout" /\ bp < Full THEN Change("rollout", None, bp, Platforms)
    ELSE Change(IF kind = "resume" THEN "resume" ELSE "complete", None, 0, Platforms)

\* The change begins with a read of the channel.
StartChange(w, ch) ==
    /\ At(w, "idle")
    /\ ch.kind \in left.kinds
    /\ Spend("changes")
    /\ Become(w, Changing("plan", ch, policy, 0, [p \in Platforms |-> NoHead]))
    /\ NoteOverlap(w)
    /\ UNCHANGED <<status, head, channel, requests, serving, stale, unswept>>

Promote(w, u, bp) == StartChange(w, Change("promote", u, bp, Platforms))

ChangeRollout(w, kind, bp) == kind \in left.kinds /\ StartChange(w, RolloutChange(kind, bp))

\* Stops act on one platform or on all; pause does not look at the platform.
Stop(w, kind, on) == StartChange(w, Change(kind, None, 0, IF kind = "pause" THEN Platforms ELSE on))

\* changeOrRequest, stop and applyApproved: a forward change of a protected channel
\* becomes a request, unless it acts for one.
Plan(w) ==
    LET t == task[w] IN
    /\ At(w, "plan")
    /\ \/ ~CanPlan(t.ch, head) /\ Become(w, Idle)
       \/ /\ CanPlan(t.ch, head)
          /\ IF t.ch.kind \in Stops \/ t.under = "open" \/ t.req # 0
             THEN Become(w, [t EXCEPT !.pc = "write", !.seen = head])
             ELSE Goto(w, "supersede")
    /\ UNCHANGED <<status, head, channel, requests, serving, stale, skew, unswept, left>>

\* apply: writeHeads, in one transaction.
WriteHeads(w) ==
    LET t == task[w] IN
    /\ At(w, "write")
    /\ head' = [p \in Platforms |-> IF p \in Touched(t.ch, t.seen) THEN Written(t.ch, t.seen[p], head[p]) ELSE head[p]]
    /\ stale' = (stale \/ t.seen # head)
    /\ Become(w, [pc |-> "invalidate"])
    /\ UNCHANGED <<status, channel, requests, serving, skew, unswept, left>>

\* apply: the cache of this process, which may be the one that serves the device.
Invalidate(w) ==
    /\ At(w, "invalidate")
    /\ cache' \in {cache, None}
    /\ Become(w, Idle)
    /\ UNCHANGED <<status, head, channel, requests, check, device, stale, skew, unswept, left>>

SupersedeChanges(w) ==
    /\ At(w, "supersede")
    /\ changeReq' = Superseded(changeReq)
    /\ Goto(w, "request")
    /\ UNCHANGED <<status, head, channel, policyReq, serving, stale, skew, unswept, left>>

RequestChange(w) ==
    LET t == task[w] IN
    /\ At(w, "request")
    /\ changeReq' = Append(changeReq, [ch |-> t.ch, under |-> t.under, state |-> "pending"])
    /\ Become(w, Idle)
    /\ UNCHANGED <<status, head, channel, policyReq, serving, stale, skew, unswept, left>>

\* The votes under the policy pinned in the request, then its handler: applyApproved
\* plans the pinned change again.
ApproveChange(w, i) ==
    /\ At(w, "idle")
    /\ i \in DOMAIN changeReq /\ changeReq[i].state = "pending"
    /\ changeReq' = [changeReq EXCEPT ![i].state = "approved"]
    /\ Become(w, Changing("plan", changeReq[i].ch, changeReq[i].under, i, [p \in Platforms |-> NoHead]))
    /\ NoteOverlap(w)
    /\ UNCHANGED <<status, head, channel, policyReq, serving, stale, unswept, left>>

RejectChange(i) ==
    /\ i \in DOMAIN changeReq /\ changeReq[i].state = "pending"
    /\ changeReq' = [changeReq EXCEPT ![i].state = "rejected"]
    /\ UNCHANGED <<status, head, channel, policyReq, serving, stale, skew, unswept, left, task>>

-----------------------------------------------------------------------------
(* OtaHostingService: the policy                                           *)

\* An open channel gets its policy at once; the same policy again is no change.
ChangePolicy(w, to) ==
    /\ At(w, "idle")
    /\ to # policy
    /\ Spend("policies")
    /\ Become(w, Ruling(IF policy = "open" THEN "setPolicy" ELSE "supersedePolicies", to, policy, stamp, 0))
    /\ skew' = (skew \/ \E x \in Workers \ {w} : ~At(x, "idle"))
    /\ UNCHANGED <<status, head, channel, requests, serving, stale, unswept>>

SupersedePolicies(w) ==
    /\ At(w, "supersedePolicies")
    /\ policyReq' = Superseded(policyReq)
    /\ Goto(w, "requestPolicy")
    /\ UNCHANGED <<status, head, channel, changeReq, serving, stale, skew, unswept, left>>

RequestPolicy(w) ==
    LET t == task[w] IN
    /\ At(w, "requestPolicy")
    /\ policyReq' = Append(policyReq, [to |-> t.to, under |-> t.under, at |-> t.at, state |-> "pending"])
    /\ Become(w, Idle)
    /\ UNCHANGED <<status, head, channel, changeReq, serving, stale, skew, unswept, left>>

ApprovePolicy(w, i) ==
    /\ At(w, "idle")
    /\ i \in DOMAIN policyReq /\ policyReq[i].state = "pending"
    /\ policyReq' = [policyReq EXCEPT ![i].state = "approved"]
    /\ Become(w, Ruling("readPolicy", policyReq[i].to, policyReq[i].under, policyReq[i].at, i))
    /\ skew' = (skew \/ \E x \in Workers \ {w} : ~At(x, "idle"))
    /\ UNCHANGED <<status, head, channel, changeReq, serving, stale, unswept, left>>

RejectPolicy(i) ==
    /\ i \in DOMAIN policyReq /\ policyReq[i].state = "pending"
    /\ policyReq' = [policyReq EXCEPT ![i].state = "rejected"]
    /\ UNCHANGED <<status, head, channel, changeReq, serving, stale, skew, unswept, left, task>>

\* applyApprovedPolicy: a channel that changed since makes the approval stale.
ReadPolicy(w) ==
    /\ At(w, "readPolicy")
    /\ IF stamp = task[w].at THEN Goto(w, "setPolicy") ELSE Become(w, Idle)
    /\ UNCHANGED <<status, head, channel, requests, serving, stale, skew, unswept, left>>

\* Mutant: the check before the write is enough.
SetPolicyAnyway(w) ==
    /\ At(w, "setPolicy")
    /\ policy' = task[w].to /\ stamp' = stamp + 1
    /\ Goto(w, "sweep")
    /\ UNCHANGED <<status, head, requests, serving, stale, skew, unswept, left>>

\* setPolicyIfUnchanged.
SetPolicy(w) ==
    /\ At(w, "setPolicy")
    /\ IF stamp = task[w].at
       THEN policy' = task[w].to /\ stamp' = stamp + 1 /\ Goto(w, "sweep")
       ELSE Become(w, Idle) /\ UNCHANGED channel
    /\ UNCHANGED <<status, head, requests, serving, stale, skew, unswept, left>>

\* Mutant: the changes asked for under the old policy stay open.
SweepNothing(w) ==
    /\ At(w, "sweep")
    /\ Become(w, Idle)
    /\ UNCHANGED <<status, head, channel, requests, serving, stale, skew, unswept, left>>

\* applyPolicy: pending changes were asked for under the old policy.
Sweep(w) ==
    /\ At(w, "sweep")
    /\ changeReq' = Superseded(changeReq)
    /\ Become(w, Idle)
    /\ UNCHANGED <<status, head, channel, policyReq, serving, stale, skew, unswept, left>>

-----------------------------------------------------------------------------
(* Releases become ready                                                   *)

\* storeFinalized, verifyAssets and failStaleUploading move a release on from the one
\* status they expect.
SetStatus(u, from, to) ==
    /\ status[u] = from
    /\ status' = [status EXCEPT ![u] = to]
    /\ UNCHANGED <<head, channel, requests, serving, stale, skew, unswept, left, task>>

Finalize(u) == SetStatus(u, "uploading", "verifying")
Abandon(u) == SetStatus(u, "uploading", "failed")
VerifyAssets(u) == SetStatus(u, "verifying", "ready") \/ SetStatus(u, "verifying", "failed")

-----------------------------------------------------------------------------
(* A device asks for an update                                             *)

\* selectResponse, for a device in the bucket 0: the update it is offered, or None.
\* While a directive is served it goes to the embedded bundle (external).
Offer(h, d) ==
    CASE h.directive # 0 -> None
      [] h.directive = 0 /\ h.candidate # None /\ h.candidate = d -> None
      [] OTHER -> IF ~h.paused /\ h.candidate # None /\ 0 < h.bp THEN h.candidate ELSE h.active

\* Devices load only what is newer (external: expo-updates).
Loads(h) ==
    device' = IF Offer(h, device) # None /\ Time(Offer(h, device)) > Time(device) THEN Offer(h, device) ELSE device

CheckCached ==
    /\ left.asks
    /\ check = None /\ cache # None
    /\ Loads(cache)
    /\ UNCHANGED <<status, head, channel, requests, cache, check, stale, skew, unswept, left, task>>

FindServingState ==
    /\ left.asks
    /\ check = None /\ cache = None
    /\ check' = head[Device]
    /\ UNCHANGED <<status, head, channel, requests, cache, device, stale, skew, unswept, left, task>>

Remember ==
    /\ check # None
    /\ cache' = check /\ check' = None
    /\ Loads(check)
    /\ UNCHANGED <<status, head, channel, requests, stale, skew, unswept, left, task>>

\* Mutant: only what says that there is nothing to serve is forgotten.
ForgetEmpty ==
    /\ cache = NoHead
    /\ cache' = None
    /\ UNCHANGED <<status, head, channel, requests, check, device, stale, skew, unswept, left, task>>

\* The entry is past its few seconds.
Forget ==
    /\ cache # None
    /\ cache' = None
    /\ UNCHANGED <<status, head, channel, requests, check, device, stale, skew, unswept, left, task>>

-----------------------------------------------------------------------------

\* The invocation is killed between two statements.  After setPolicyIfUnchanged nothing
\* makes up for the sweep it owed.
Kill(w) ==
    /\ ~At(w, "idle")
    /\ Spend("faults")
    /\ unswept' = (unswept \/ At(w, "sweep"))
    /\ Become(w, Idle)
    /\ UNCHANGED <<status, head, channel, requests, serving, stale, skew>>

WorkerStep(w) ==
    \/ Plan(w) \/ WriteHeads(w) \/ Invalidate(w) \/ SupersedeChanges(w) \/ RequestChange(w)
    \/ SupersedePolicies(w) \/ RequestPolicy(w) \/ ReadPolicy(w) \/ SetPolicy(w) \/ Sweep(w)

CheckStep == CheckCached \/ FindServingState \/ Remember

Next ==
    \/ \E w \in Workers : WorkerStep(w) \/ Kill(w)
    \/ \E w \in Workers, u \in Releases, bp \in 1..Full : Promote(w, u, bp)
    \/ \E w \in Workers, kind \in {"rollout", "complete", "resume"}, bp \in 1..Full : ChangeRollout(w, kind, bp)
    \/ \E w \in Workers, kind \in Stops, on \in {Platforms} \cup {{p} : p \in Platforms} : Stop(w, kind, on)
    \/ \E w \in Workers, to \in Policies : ChangePolicy(w, to)
    \/ \E w \in Workers, i \in DOMAIN changeReq : ApproveChange(w, i)
    \/ \E w \in Workers, i \in DOMAIN policyReq : ApprovePolicy(w, i)
    \/ \E i \in DOMAIN changeReq : RejectChange(i)
    \/ \E i \in DOMAIN policyReq : RejectPolicy(i)
    \/ \E u \in Releases : Finalize(u) \/ Abandon(u) \/ VerifyAssets(u)
    \/ CheckStep \/ Forget

Spec == Init /\ [][Next]_vars

\* Invocations run on, the device keeps asking and cache entries expire.
FairSpec ==
    /\ Spec
    /\ \A w \in Workers : WF_vars(WorkerStep(w))
    /\ WF_vars(CheckStep) /\ WF_vars(Forget)

-----------------------------------------------------------------------------
(* Properties                                                              *)

\* One rollout to a head (the design's invariant 5): a candidate is always served to
\* some devices and not to all, whatever plans were written over each other.
RolloutBounded == \A p \in Platforms : head[p].candidate # None => head[p].bp \in 1..Full - 1

\* What a head serves, rolls out or would go back to is of a release whose assets were
\* verified (invariants 2 and 4).
ServedReady ==
    \A p \in Platforms : \A u \in {head[p].active, head[p].previous, head[p].candidate} \ {None} :
        status[ReleaseOf(u)] = "ready"

\* As long as every plan was written to the heads it was made for, what becomes active is
\* newer than what was active and no older than what was rolled out: devices on either take
\* it, after a rollback too (OtaChannelService.planPromotion, rollbackOf).
HeadAdvances ==
    [][~stale' => \A p \in Platforms : head'[p].active # head[p].active =>
         /\ Time(head'[p].active) > Time(head[p].active)
         /\ Time(head'[p].active) >= Time(head[p].candidate)]_vars

\* A protected channel's policy changes only by a request approved under that very
\* policy, however requests, votes and handlers interleave (invariant 7).
PolicyGoverned ==
    [][policy' # policy /\ policy # "open" =>
         \E w \in Workers : /\ task[w].pc = "setPolicy" /\ task[w].req # 0
                            /\ policyReq[task[w].req].state = "approved"
                            /\ policyReq[task[w].req].under = policy]_vars

\* As long as no change of the policy overlaps another change, a protected channel moves
\* forward only by an approved request for this very change (invariant 6).  It was asked
\* for under the policy in force, as what is older is superseded (invariant 8), unless an
\* invocation was killed in applyPolicy between setting a policy and superseding: then
\* requests under the old policy stay open and may still be approved and applied.
ForwardApproved ==
    [][head' # head /\ policy # "open" /\ ~skew =>
         \E w \in Workers : /\ task[w].pc = "write" /\ task'[w].pc = "invalidate"
                            /\ \/ task[w].ch.kind \in Stops
                               \/ /\ task[w].req # 0
                                  /\ changeReq[task[w].req].ch = task[w].ch
                                  /\ changeReq[task[w].req].state = "approved"
                                  /\ unswept \/ changeReq[task[w].req].under = policy]_vars

\* A device that keeps asking gets the update its head offers it, through every order of
\* writes, invalidations and cache fills (UpdateCheckService.check).
DeviceCatchesUp ==
    LET Behind(u) == left.asks /\ Offer(head[Device], device) = u /\ Time(u) > Time(device)
    IN  \A u \in Updates : Behind(u) ~> ~Behind(u)
=============================================================================
