--------------------------------- MODULE Relay ---------------------------------
(***************************************************************************)
(* How a fact reaches the channels that asked for it: the webhook pipeline  *)
(* of inbound/InboundService.ts, the event bus of events/EventBus.ts and    *)
(* the fan-out of notification/NotificationService.ts, over the contract of *)
(* the job queue (JobQueue: one live row per dedupe key, a claim nobody     *)
(* else holds, attempts counted, a killed run reclaimed).                   *)
(*                                                                         *)
(* One action is one database statement or one transaction.  An event is    *)
(* named by what it is published from: a webhook receipt (its dedupe key),  *)
(* or a fact another service publishes once, best effort.  The vendor's     *)
(* request has passed the signature check and names an active source.       *)
(***************************************************************************)
EXTENDS Naturals, FiniteSets, Sequences

CONSTANTS
    Receipts,      \* vendor delivery ids; a receipt row is named by its own
    Facts,         \* events published by publishBestEffort
    Ignorable,     \* the receipts whose body maps to no event
    Outgrown,      \* the receipts whose stored event a later deploy does not parse
    SubscribersOf, \* the subscribers of each event, in registration order
    FanOut,        \* the subscriber that is NotificationService
    Channels,      \* notification channels of the workspace
    Matching,      \* the channels with a rule that matches each event
    Workers,       \* slots for invocations
    HardLimit,     \* INBOUND_HARD_LIMIT
    DailyLimit,    \* INBOUND_DAILY_LIMIT
    MaxPublish,    \* INBOUND_MAX_PUBLISH_ATTEMPTS
    MaxAttempts,   \* max_attempts of an events.deliver job
    Fragile,       \* the channels that may be disabled
    Workloads      \* bounds: how often the vendor sends each receipt, which facts
                   \* happen, and how many faults; a behaviour has one of them

Events == Receipts \cup Facts

ASSUME RelayAssumption ==
    /\ Receipts \cap Facts = {}
    /\ Ignorable \subseteq Receipts
    /\ Fragile \subseteq Channels
    /\ Outgrown \subseteq Receipts
    /\ DOMAIN SubscribersOf = Events
    /\ \A e \in Events : Len(SubscribersOf[e]) \in Nat
    /\ Matching \in [Events -> SUBSET Channels]
    /\ IsFiniteSet(Receipts) /\ IsFiniteSet(Workers)
    /\ {HardLimit, DailyLimit} \subseteq Nat
    /\ Workloads \subseteq [coming : [Events -> Nat], faults : Nat]
    /\ \A l \in Workloads, e \in Facts : l.coming[e] <= 1
    /\ {MaxPublish, MaxAttempts} \subseteq Nat \ {0}

Outcomes == {"none", "pending", "published", "ignored", "over_quota"}
Nr(e) == 1..Len(SubscribersOf[e])
Delivering == UNION {{e} \X Nr(e) : e \in Events}

VARIABLES
    receipt,    \* inbound_receipts: the outcome of each
    failures,   \* its publish_attempts
    stale,      \* the receipts older than INBOUND_STALE_PENDING_MS
    event,      \* domain_events: the events stored
    ledger,     \* domain_event_deliveries: the <<event, subscriber>> handled
    job,        \* the events.deliver job of each <<event, subscriber>>
    handled,    \* times each subscriber was run to its end: 0, 1 or 2 (several)
    active,     \* the channels that are not disabled
    delivery,   \* <<event, channel>> with a delivery row and its job
    coming,     \* requests and facts still to come
    faults,     \* faults still to come: kills, throws and early stops
    task        \* what each worker is doing

inbound == <<receipt, failures, stale, coming>>
bus == <<event, ledger, job, handled>>
notification == <<active, delivery>>
vars == <<inbound, bus, notification, faults, task>>

\* A task: the statement it is at, on which event, for which of its subscribers,
\* with the channels still to be served or the stale receipts still to be published.
PCs == {"idle", "insert", "quota", "drop",
        "republish", "publish", "enqueue", "mark", "count", "giveup",
        "find", "handle", "create", "ledger", "complete"}
JobPCs == {"find", "handle", "create", "ledger", "complete"}

Idle == [pc |-> "idle"]
Doing(pc, e, n, todo) == [pc |-> pc, e |-> e, n |-> n, todo |-> todo]

JobStates == {"none", "queued", "running", "done", "dead"}

\* The rows and the tasks have their types.
TypeOK ==
    /\ receipt \in [Receipts -> Outcomes]
    /\ failures \in [Receipts -> Nat]
    /\ stale \subseteq Receipts
    /\ event \subseteq Events
    /\ ledger \subseteq Delivering
    /\ job \in [Delivering -> [st : JobStates, tries : 0..MaxAttempts]]
    /\ handled \in [Delivering -> 0..2]
    /\ active \subseteq Channels
    /\ delivery \subseteq Events \X Channels
    /\ coming \in [Events -> Nat]
    /\ faults \in Nat
    /\ \A w \in Workers :
          \/ task[w] = Idle
          \/ /\ task[w].pc \in PCs \ {"idle"}
             /\ task[w].e \in Events
             /\ task[w].n \in 0..Len(SubscribersOf[task[w].e]) + 1
             /\ task[w].todo \subseteq Channels \cup Receipts

Init ==
    /\ receipt = [r \in Receipts |-> "none"]
    /\ failures = [r \in Receipts |-> 0]
    /\ stale = {}
    /\ event = {}
    /\ ledger = {}
    /\ job = [d \in Delivering |-> [st |-> "none", tries |-> 0]]
    /\ handled = [d \in Delivering |-> 0]
    /\ active = Channels
    /\ delivery = {}
    /\ \E l \in Workloads : coming = l.coming /\ faults = l.faults
    /\ task = [w \in Workers |-> Idle]

Become(w, t) == task' = [task EXCEPT ![w] = t]
Goto(w, pc) == Become(w, [task[w] EXCEPT !.pc = pc])
At(w, pc) == task[w].pc = pc

Comes(e) == coming[e] > 0 /\ coming' = [coming EXCEPT ![e] = @ - 1]

Recorded == {r \in Receipts : receipt[r] # "none"}
Published == {r \in Receipts : receipt[r] = "published"}

\* Every write of an outcome: only while the receipt is pending.
SettleIfPending(r, outcome) ==
    receipt' = IF receipt[r] = "pending" THEN [receipt EXCEPT ![r] = outcome] ELSE receipt

-----------------------------------------------------------------------------
(* InboundService.ingest                                                   *)

\* Mutant: the ceiling itself is let through.
IngestPastCeiling(w, r) ==
    /\ At(w, "idle")
    /\ Comes(r)
    /\ IF Cardinality(Recorded) > HardLimit
       THEN UNCHANGED task
       ELSE Become(w, Doing("insert", r, 0, {}))
    /\ UNCHANGED <<receipt, failures, stale, bus, notification, faults>>

\* The hard ceiling is read before anything is written; past it the answer is 429.
Ingest(w, r) ==
    /\ At(w, "idle")
    /\ Comes(r)
    /\ IF Cardinality(Recorded) >= HardLimit
       THEN UNCHANGED task
       ELSE Become(w, Doing("insert", r, 0, {}))
    /\ UNCHANGED <<receipt, failures, stale, bus, notification, faults>>

\* insertIfNew: a redelivery is accepted and stops here, published or not.
InsertReceipt(w) ==
    LET r == task[w].e IN
    /\ At(w, "insert")
    /\ IF receipt[r] # "none"
       THEN Become(w, Idle) /\ UNCHANGED receipt
       ELSE /\ receipt' = [receipt EXCEPT ![r] = IF r \in Ignorable THEN "ignored" ELSE "pending"]
            /\ IF r \in Ignorable THEN Become(w, Idle) ELSE Goto(w, "quota")
    /\ UNCHANGED <<failures, stale, coming, bus, notification, faults>>

CheckQuota(w) ==
    /\ At(w, "quota")
    /\ Goto(w, IF Cardinality(Published) >= DailyLimit THEN "drop" ELSE "publish")
    /\ UNCHANGED <<inbound, bus, notification, faults>>

DropOverQuota(w) ==
    /\ At(w, "drop")
    /\ SettleIfPending(task[w].e, "over_quota")
    /\ Become(w, Idle)
    /\ UNCHANGED <<failures, stale, coming, bus, notification, faults>>

-----------------------------------------------------------------------------
(* republishStale, every minute                                            *)

\* Mutant: a receipt that failed once is not listed again.
RepublishUnfailed(w) ==
    LET pending == {r \in stale : receipt[r] = "pending" /\ failures[r] = 0} IN
    /\ At(w, "idle")
    /\ \E r \in pending : Become(w, Doing("publish", r, 0, pending \ {r}))
    /\ UNCHANGED <<inbound, bus, notification, faults>>

\* The batch is published one receipt at a time: the fewest failures first, in
\* an order only a batch that is cut short tells apart.
Republish(w) ==
    LET pending == {r \in stale : receipt[r] = "pending"} IN
    /\ At(w, "idle")
    /\ \E r \in pending : Become(w, Doing("publish", r, 0, pending \ {r}))
    /\ UNCHANGED <<inbound, bus, notification, faults>>

\* On to the next receipt of the batch; an ingest or a best-effort publish ends.
NextReceipt(w) ==
    IF task[w].todo = {} THEN Become(w, Idle) ELSE Goto(w, "republish")

RepublishNext(w, r) ==
    /\ At(w, "republish")
    /\ r \in task[w].todo
    /\ Become(w, Doing("publish", r, 0, task[w].todo \ {r}))
    /\ UNCHANGED <<inbound, bus, notification, faults>>

-----------------------------------------------------------------------------
(* EventBus.publish                                                        *)

\* A fact is published once, after the change it describes has been committed.
PublishFact(w, e) ==
    /\ At(w, "idle")
    /\ Comes(e)
    /\ Become(w, Doing("publish", e, 0, {}))
    /\ UNCHANGED <<receipt, failures, stale, bus, notification, faults>>

\* The next subscriber to enqueue for; after the last one the publish returns.
FanOutFrom(w, n) ==
    IF n <= Len(SubscribersOf[task[w].e])
    THEN Become(w, [task[w] EXCEPT !.pc = "enqueue", !.n = n])
    ELSE IF task[w].e \in Facts THEN Become(w, Idle) ELSE Goto(w, "mark")

\* Mutant: an event that is there already is not fanned out again.
InsertEventOnce(w) ==
    /\ At(w, "publish")
    /\ event' = event \cup {task[w].e}
    /\ FanOutFrom(w, IF task[w].e \in event THEN Len(SubscribersOf[task[w].e]) + 1 ELSE 1)
    /\ UNCHANGED <<inbound, ledger, job, handled, notification, faults>>

\* The event is stored unless its dedupe key is there already.  Either way the
\* publish goes on to fan it out.
InsertEvent(w) ==
    /\ At(w, "publish")
    /\ event' = event \cup {task[w].e}
    /\ FanOutFrom(w, 1)
    /\ UNCHANGED <<inbound, ledger, job, handled, notification, faults>>

\* A stored event that no longer parses is settled as ignored.
DropUnparseable(w) ==
    /\ At(w, "publish")
    /\ task[w].e \in Outgrown \cap stale
    /\ SettleIfPending(task[w].e, "ignored")
    /\ NextReceipt(w)
    /\ UNCHANGED <<failures, stale, coming, bus, notification, faults>>

Live(d) == job[d].st \in {"queued", "running"}

\* enqueue under the key <<event, subscriber>>: a live job stands, else a new row.
EnqueueDelivery(w) ==
    LET d == <<task[w].e, task[w].n>> IN
    /\ At(w, "enqueue")
    /\ job' = IF Live(d) THEN job ELSE [job EXCEPT ![d] = [st |-> "queued", tries |-> 0]]
    /\ FanOutFrom(w, task[w].n + 1)
    /\ UNCHANGED <<inbound, event, ledger, handled, notification, faults>>

MarkPublished(w) ==
    /\ At(w, "mark")
    /\ SettleIfPending(task[w].e, "published")
    /\ NextReceipt(w)
    /\ UNCHANGED <<failures, stale, coming, bus, notification, faults>>

\* recordPublishFailure: count it, and give up on the last one, or on the first if
\* the bus itself no longer knows the event.  A receipt that somebody else has
\* settled counts as zero.
CountFailure(w) ==
    LET r == task[w].e
        pending == receipt[r] = "pending" IN
    /\ At(w, "count")
    /\ failures' = IF pending THEN [failures EXCEPT ![r] = @ + 1] ELSE failures
    /\ \E deterministic \in {FALSE, (r \in Outgrown \cap stale)} :
          IF deterministic \/ (pending /\ failures[r] + 1 >= MaxPublish)
          THEN Goto(w, "giveup") ELSE NextReceipt(w)
    /\ UNCHANGED <<receipt, stale, coming, bus, notification, faults>>

GiveUp(w) ==
    /\ At(w, "giveup")
    /\ SettleIfPending(task[w].e, "ignored")
    /\ NextReceipt(w)
    /\ UNCHANGED <<failures, stale, coming, bus, notification, faults>>

-----------------------------------------------------------------------------
(* EventBus.deliver, run by the job of one event and one subscriber        *)

Delivered(w) == <<task[w].e, task[w].n>>
IsFanOut(w) == SubscribersOf[task[w].e][task[w].n] = FanOut
JobEnds(d, st) == job' = [job EXCEPT ![d].st = st]
Retried(d) == IF job[d].tries >= MaxAttempts THEN "dead" ELSE "queued"

RunDelivery(w, d) ==
    /\ At(w, "idle")
    /\ job[d].st = "queued"
    /\ job' = [job EXCEPT ![d].st = "running", ![d].tries = @ + 1]
    /\ Become(w, Doing("find", d[1], d[2], {}))
    /\ UNCHANGED <<inbound, event, ledger, handled, notification, faults>>

\* Mutant: the ledger is not asked.
DeliverUnasked(w) ==
    /\ At(w, "find")
    /\ Goto(w, "handle")
    /\ UNCHANGED <<inbound, bus, notification, faults>>

\* Mutant: the ledger is written before the subscriber is called.
MarkAhead(w) ==
    /\ At(w, "find")
    /\ ledger' = ledger \cup {Delivered(w)}
    /\ Goto(w, IF Delivered(w) \in ledger THEN "complete" ELSE "handle")
    /\ UNCHANGED <<inbound, event, job, handled, notification, faults>>

\* An event the subscriber has handled already is a no-op.
FindEvent(w) ==
    /\ At(w, "find")
    /\ Goto(w, IF Delivered(w) \in ledger THEN "complete" ELSE "handle")
    /\ UNCHANGED <<inbound, bus, notification, faults>>

HandledAgain(d) == handled' = [handled EXCEPT ![d] = IF @ = 0 THEN 1 ELSE 2]

\* A subscriber of another domain: idempotent, and outside this module.
HandleOther(w) ==
    /\ At(w, "handle")
    /\ ~IsFanOut(w)
    /\ HandledAgain(Delivered(w))
    /\ Goto(w, "ledger")
    /\ UNCHANGED <<inbound, event, ledger, job, notification, faults>>

\* NotificationService.handle: the active channels with a matching rule.
FindTargets(w) ==
    LET targets == active \cap Matching[task[w].e] IN
    /\ At(w, "handle")
    /\ IsFanOut(w)
    /\ IF targets = {}
       THEN HandledAgain(Delivered(w)) /\ Goto(w, "ledger")
       ELSE /\ Become(w, [task[w] EXCEPT !.pc = "create", !.todo = targets])
            /\ UNCHANGED handled
    /\ UNCHANGED <<inbound, event, ledger, job, notification, faults>>

\* The delivery and its job commit together, unless the pair is there already.
CreateDelivery(w, c) ==
    /\ At(w, "create")
    /\ c \in task[w].todo
    /\ delivery' = delivery \cup {<<task[w].e, c>>}
    /\ IF task[w].todo = {c}
       THEN HandledAgain(Delivered(w)) /\ Become(w, [task[w] EXCEPT !.pc = "ledger", !.todo = {}])
       ELSE Become(w, [task[w] EXCEPT !.todo = @ \ {c}]) /\ UNCHANGED handled
    /\ UNCHANGED <<inbound, event, ledger, job, active, faults>>

MarkDelivered(w) ==
    /\ At(w, "ledger")
    /\ ledger' = ledger \cup {Delivered(w)}
    /\ Goto(w, "complete")
    /\ UNCHANGED <<inbound, event, job, handled, notification, faults>>

CompleteJob(w) ==
    /\ At(w, "complete")
    /\ JobEnds(Delivered(w), "done")
    /\ Become(w, Idle)
    /\ UNCHANGED <<inbound, event, ledger, handled, notification, faults>>

-----------------------------------------------------------------------------
(* Faults and the environment                                              *)

Fault == faults > 0 /\ faults' = faults - 1

\* A statement of a publish throws.  Of a receipt the failure is counted, of a
\* fact it is swallowed.
PublishThrows(w) ==
    /\ task[w].pc \in {"publish", "enqueue", "mark"}
    /\ Fault
    /\ IF task[w].e \in Receipts THEN Goto(w, "count") ELSE Become(w, Idle)
    /\ UNCHANGED <<inbound, bus, notification>>

\* Recording a failure fails itself, and is only logged.
RecordingThrows(w) ==
    /\ task[w].pc \in {"count", "giveup"}
    /\ Fault
    /\ NextReceipt(w)
    /\ UNCHANGED <<inbound, bus, notification>>

\* A subscriber or the ledger throws: the job is retried, or dead.
DeliverThrows(w) ==
    /\ task[w].pc \in JobPCs \ {"complete"}
    /\ Fault
    /\ JobEnds(Delivered(w), Retried(Delivered(w)))
    /\ Become(w, Idle)
    /\ UNCHANGED <<inbound, event, ledger, handled, notification>>

\* The invocation is killed, an ingest answers 500, or a batch meets its deadline.
Kill(w) ==
    /\ ~At(w, "idle")
    /\ Fault
    /\ Become(w, Idle)
    /\ UNCHANGED <<inbound, bus, notification>>

\* The lock of a killed run expires.
Reclaim(d) ==
    /\ job[d].st = "running"
    /\ \A w \in Workers : ~(task[w].pc \in JobPCs /\ Delivered(w) = d)
    /\ JobEnds(d, Retried(d))
    /\ UNCHANGED <<inbound, event, ledger, handled, notification, faults, task>>

\* A minute passes over a recorded receipt, also while its ingest is still at work.
Elapse(r) ==
    /\ receipt[r] = "pending"
    /\ r \notin stale
    /\ stale' = stale \cup {r}
    /\ UNCHANGED <<receipt, failures, coming, bus, notification, faults, task>>

\* A channel is disabled, by a member or by a refused send.
DisableChannel(c) ==
    /\ c \in active \cap Fragile
    /\ active' = active \ {c}
    /\ UNCHANGED <<inbound, bus, delivery, faults, task>>

WorkerStep(w) ==
    \/ InsertReceipt(w) \/ CheckQuota(w) \/ DropOverQuota(w)
    \/ InsertEvent(w) \/ DropUnparseable(w) \/ EnqueueDelivery(w) \/ MarkPublished(w)
    \/ CountFailure(w) \/ GiveUp(w)
    \/ \E r \in Receipts : RepublishNext(w, r)
    \/ FindEvent(w) \/ HandleOther(w) \/ FindTargets(w) \/ MarkDelivered(w) \/ CompleteJob(w)
    \/ \E c \in Channels : CreateDelivery(w, c)

Next ==
    \/ \E w \in Workers :
          \/ WorkerStep(w)
          \/ Republish(w)
          \/ \E r \in Receipts : Ingest(w, r)
          \/ \E e \in Facts : PublishFact(w, e)
          \/ \E d \in Delivering : RunDelivery(w, d)
          \/ PublishThrows(w) \/ RecordingThrows(w) \/ DeliverThrows(w) \/ Kill(w)
    \/ \E d \in Delivering : Reclaim(d)
    \/ \E r \in Receipts : Elapse(r)
    \/ \E c \in Channels : DisableChannel(c)

Spec == Init /\ [][Next]_vars

\* An invocation that is not killed goes on, the clock does, and the ticks of the
\* job queue keep reclaiming, republishing and running what is due (module JobQueue).
FairSpec ==
    /\ Spec
    /\ \A w \in Workers : WF_vars(WorkerStep(w))
    /\ \A r \in Receipts : WF_vars(Elapse(r))
    /\ WF_vars(\E w \in Workers : Republish(w))
    /\ \A d \in Delivering : WF_vars(Reclaim(d)) /\ WF_vars(\E w \in Workers : RunDelivery(w, d))

-----------------------------------------------------------------------------
(* Properties                                                              *)

\* No receipt is marked published before every subscriber of its event has a
\* delivery job, whichever of several publishes marked it and wherever others
\* were killed between the insert of the event and the end of its fan-out.
PublishedFannedOut ==
    \A r \in Published : \A n \in Nr(r) : job[<<r, n>>].st # "none"

\* Once the ledger says the fan-out handled an event, every channel that asked for
\* it and was never disabled has its delivery, however often the handler was
\* killed between two channels.
FanOutComplete ==
    \A d \in ledger : SubscribersOf[d[1]][d[2]] = FanOut =>
        \A c \in active \cap Matching[d[1]] : <<d[1], c>> \in delivery

\* A subscriber is called again only if the ledger does not know of its first
\* call: repeating a publish, or a new job for an old event, calls nobody twice.
HandledOnce ==
    [][\A d \in Delivering : handled'[d] # handled[d] => d \notin ledger]_vars

\* Invocations that pass the ceiling together exceed it by at most one each.
CeilingHolds == Cardinality(Recorded) <= HardLimit + Cardinality(Workers) - 1

\* A recorded delivery is relayed: it is dropped with a reason, or handled by every
\* subscriber of its event or given up by the job queue, whoever is killed.
Relayed ==
    \A r \in Receipts :
        receipt[r] = "pending" ~>
            \/ receipt[r] \in {"ignored", "over_quota"}
            \/ \A n \in Nr(r) : <<r, n>> \in ledger \/ job[<<r, n>>].st = "dead"

-----------------------------------------------------------------------------
(* The delivery jobs, as the contract of the job queue sees them           *)

Standing == [d \in Delivering |-> IF Live(d) THEN job[d].st ELSE "absent"]
BusyWith == {d \in Delivering : \E w \in Workers : task[w].pc \in JobPCs /\ Delivered(w) = d}

E == INSTANCE ExclusiveJobs WITH Work <- Delivering, standing <- Standing, busy <- BusyWith

\* The jobs of this module are those that the queue promises (ExclusiveJobs, which
\* JobQueue implements): enqueued where none stands, run by one worker at a time,
\* ended by that worker, and taken from it only when it was killed.
JobsExclusive == E!Spec
=============================================================================
