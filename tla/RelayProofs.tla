----------------------------- MODULE RelayProofs -----------------------------
(***************************************************************************)
(* Proofs about Relay, for any receipts, facts, subscribers, channels and  *)
(* workers.  Types says what each task is at and what its rows look like;  *)
(* Inv and CeilingInv, on which the properties rest, come after it.        *)
(***************************************************************************)
EXTENDS Relay, FiniteSetTheorems, TLAPS

Task == [pc : PCs \ {"idle"}, e : Events, n : Nat, todo : SUBSET (Channels \cup Receipts)]

\* The statements that only the task of a receipt is ever at.
ReceiptPCs == {"insert", "quota", "drop", "republish", "mark", "count", "giveup"}

Rows ==
    /\ receipt \in [Receipts -> Outcomes]
    /\ failures \in [Receipts -> Nat]
    /\ stale \subseteq Receipts
    /\ event \subseteq Events
    /\ ledger \subseteq Delivering
    /\ handled \in [Delivering -> 0..2]
    /\ active \subseteq Channels
    /\ delivery \subseteq Events \X Channels
    /\ coming \in [Events -> Nat]
    /\ faults \in Nat

\* A queued job has an attempt left.
JobsOK ==
    /\ job \in [Delivering -> [st : JobStates, tries : 0..MaxAttempts]]
    /\ \A d \in Delivering : job[d].st = "queued" => job[d].tries < MaxAttempts

\* What a task is about fits the statement it is at.
ShapeOK(t) ==
    t = Idle \/
    /\ t \in Task
    /\ t.n <= Len(SubscribersOf[t.e])
    /\ t.pc \in ReceiptPCs => t.e \in Receipts
    /\ t.pc \notin JobPCs => t.todo \subseteq Receipts
    /\ t.pc \in JobPCs => t.n \in Nr(t.e)
    /\ t.pc = "enqueue" => t.n \in Nr(t.e)
    /\ t.pc = "create" => t.todo \subseteq Channels

Tasks ==
    /\ task \in [Workers -> Task \cup {Idle}]
    /\ \A w \in Workers : ShapeOK(task[w])

Types == Rows /\ JobsOK /\ Tasks

\* The deliveries are the pairs of an event and the number of one of its subscribers.
LEMMA DeliveringPairs ==
    /\ \A e, n : <<e, n>> \in Delivering <=> e \in Events /\ n \in Nr(e)
    /\ \A d \in Delivering : d = <<d[1], d[2]>> /\ d[1] \in Events /\ d[2] \in Nr(d[1])
  BY DEF Delivering

-----------------------------------------------------------------------------
(* Types                                                                   *)

\* A task updated field by field.
LEMMA TaskUpdates ==
    ASSUME NEW t \in Task, NEW pc, NEW n, NEW todo
    PROVE  /\ [t EXCEPT !.pc = pc] = Doing(pc, t.e, t.n, t.todo)
           /\ [t EXCEPT !.pc = pc, !.n = n] = Doing(pc, t.e, n, t.todo)
           /\ [t EXCEPT !.pc = pc, !.todo = todo] = Doing(pc, t.e, t.n, todo)
           /\ [t EXCEPT !.todo = todo] = Doing(t.pc, t.e, t.n, todo)
<1> DEFINE u == [t EXCEPT !.pc = pc]
<1>1. u = Doing(pc, t.e, t.n, t.todo)
  BY DEF Task, Doing
<1> HIDE DEF u
<1>2. [u EXCEPT !.n = n] = Doing(pc, t.e, n, t.todo)
  BY <1>1 DEF Doing
<1>3. [u EXCEPT !.todo = todo] = Doing(pc, t.e, t.n, todo)
  BY <1>1 DEF Doing
<1>4. [t EXCEPT !.todo = todo] = Doing(t.pc, t.e, t.n, todo)
  BY DEF Task, Doing
<1> QED
  BY <1>1, <1>2, <1>3, <1>4 DEF u

\* A task that moves to another statement keeps what it is about.
LEMMA GotoShape ==
    ASSUME Tasks, NEW w \in Workers, ~At(w, "idle"), NEW pc \in PCs \ {"idle"}, Goto(w, pc)
    PROVE  /\ task' = [task EXCEPT ![w] = Doing(pc, task[w].e, task[w].n, task[w].todo)]
           /\ Doing(pc, task[w].e, task[w].n, task[w].todo) \in Task
<1>1. task[w] \in Task
  BY DEF Tasks, At, Idle
<1>2. [task[w] EXCEPT !.pc = pc] = Doing(pc, task[w].e, task[w].n, task[w].todo)
  BY <1>1 DEF Task, Doing
<1> QED
  BY <1>1, <1>2 DEF Goto, Become, Task, Doing

\* One task changes, and its new state is well formed.
LEMMA TasksKept ==
    ASSUME Tasks, NEW w \in Workers, NEW t, ShapeOK(t), Become(w, t)
    PROVE  Tasks'
<1>1. t \in Task \cup {Idle}
  BY DEF ShapeOK
<1>2. task' \in [Workers -> Task \cup {Idle}] /\ \A v \in Workers : task'[v] = IF v = w THEN t ELSE task[v]
  BY <1>1 DEF Tasks, Become
<1> QED
  BY <1>2 DEF Tasks


\* Where a worker goes that moves on.
LEMMA GotoType ==
    ASSUME Tasks, NEW w \in Workers, ~At(w, "idle"), NEW pc \in PCs \ {"idle"}, Goto(w, pc),
           ShapeOK(Doing(pc, task[w].e, task[w].n, task[w].todo))
    PROVE  Tasks'
  BY GotoShape, TasksKept DEF Become

\* A batch that goes on, or ends.
LEMMA NextReceiptType ==
    ASSUME Tasks, NEW w \in Workers, ~At(w, "idle"), task[w].e \in Receipts, task[w].pc \notin JobPCs,
           NextReceipt(w)
    PROVE  Tasks'
<1>1. task[w] \in Task /\ ShapeOK(task[w]) /\ task[w] # Idle
  BY DEF Tasks, At, Idle
<1>2. CASE task[w].todo = {}
  BY <1>2, TasksKept DEF NextReceipt, ShapeOK
<1>3. CASE task[w].todo # {}
  <2>1. Goto(w, "republish")
    BY <1>3 DEF NextReceipt
  <2>2. ShapeOK(Doing("republish", task[w].e, task[w].n, task[w].todo))
    BY <1>1 DEF ShapeOK, Task, Doing, PCs, JobPCs, ReceiptPCs
  <2> QED
    BY <2>1, <2>2, GotoType DEF PCs
<1> QED
  BY <1>2, <1>3

\* A fan-out that goes on to the next subscriber, or ends.
LEMMA FanOutType ==
    ASSUME Tasks, NEW w \in Workers, task[w].pc \in {"publish", "enqueue"}, NEW k \in Nat \ {0},
           FanOutFrom(w, k)
    PROVE  Tasks'
<1> DEFINE e == task[w].e
<1>1. task[w] \in Task /\ ShapeOK(task[w]) /\ task[w] # Idle /\ ~At(w, "idle")
  BY DEF Tasks, At, Idle
<1>2. e \in Events /\ Len(SubscribersOf[e]) \in Nat
  BY <1>1, RelayAssumption DEF Task
<1>3. CASE k <= Len(SubscribersOf[e])
  <2>1. [task[w] EXCEPT !.pc = "enqueue", !.n = k] = Doing("enqueue", e, k, task[w].todo)
    BY <1>1, TaskUpdates
  <2>2. ShapeOK(Doing("enqueue", e, k, task[w].todo))
    BY <1>1, <1>2, <1>3 DEF ShapeOK, Task, Doing, PCs, JobPCs, ReceiptPCs, Nr
  <2> QED
    BY <1>3, <2>1, <2>2, TasksKept DEF FanOutFrom
<1>4. CASE k > Len(SubscribersOf[e]) /\ e \in Facts
  BY <1>2, <1>4, TasksKept DEF FanOutFrom, ShapeOK
<1>5. CASE k > Len(SubscribersOf[e]) /\ e \notin Facts
  <2>1. Goto(w, "mark")
    BY <1>2, <1>5 DEF FanOutFrom
  <2>2. ShapeOK(Doing("mark", e, task[w].n, task[w].todo))
    BY <1>1, <1>2, <1>5 DEF ShapeOK, Task, Doing, PCs, JobPCs, ReceiptPCs, Events
  <2> QED
    BY <1>1, <2>1, <2>2, GotoType DEF PCs
<1> QED
  BY <1>2, <1>3, <1>4, <1>5

\* A worker that ends.
LEMMA IdleTasks ==
    ASSUME Tasks, NEW w \in Workers, Become(w, Idle)
    PROVE  Tasks'
  BY TasksKept DEF ShapeOK

\* The start of a publish or of an ingest.
LEMMA StartType ==
    ASSUME Tasks, NEW w \in Workers, NEW pc \in {"insert", "publish"}, NEW e \in Events,
           NEW todo \in SUBSET Receipts, pc = "insert" => e \in Receipts,
           Become(w, Doing(pc, e, 0, todo))
    PROVE  Tasks'
<1>1. Len(SubscribersOf[e]) \in Nat
  BY RelayAssumption
<1>2. ShapeOK(Doing(pc, e, 0, todo))
  BY <1>1 DEF ShapeOK, Task, Doing, PCs, JobPCs, ReceiptPCs
<1> QED
  BY <1>2, TasksKept

\* The write of an outcome leaves outcomes.
LEMMA SettleType ==
    ASSUME Rows, NEW r \in Receipts, NEW o \in Outcomes, SettleIfPending(r, o)
    PROVE  receipt' \in [Receipts -> Outcomes]
  BY DEF Rows, SettleIfPending

\* A job that ends.
LEMMA JobEndsType ==
    ASSUME JobsOK, NEW d \in Delivering, NEW st \in JobStates, JobEnds(d, st),
           st = "queued" => job[d].tries < MaxAttempts
    PROVE  JobsOK'
  BY DEF JobsOK, JobEnds

\* A retry is a state of a job, and leaves an attempt if it queues it.
LEMMA RetriedType ==
    ASSUME JobsOK, NEW d \in Delivering
    PROVE  /\ Retried(d) \in JobStates
           /\ Retried(d) = "queued" => job[d].tries < MaxAttempts
           /\ Retried(d) # "none" /\ Retried(d) # "running"
  BY RelayAssumption DEF JobsOK, Retried, JobStates

\* Calling a subscriber counts it.
LEMMA HandledType ==
    ASSUME Rows, NEW d \in Delivering, HandledAgain(d)
    PROVE  handled' \in [Delivering -> 0..2]
  BY DEF Rows, HandledAgain

\* The rows of a step that writes none but those named.
LEMMA RowsKept ==
    ASSUME Rows, receipt' \in [Receipts -> Outcomes], failures' \in [Receipts -> Nat],
           stale' = stale, event' = event, ledger' = ledger, handled' = handled,
           active' = active, delivery' = delivery, coming' = coming, faults' \in Nat
    PROVE  Rows'
  BY DEF Rows

\* Where a worker is, and what it works on, when it is not idle.
LEMMA Busy ==
    ASSUME Tasks, NEW w \in Workers, task[w].pc # "idle"
    PROVE  /\ task[w] \in Task /\ ~At(w, "idle")
           /\ task[w].e \in Events /\ Len(SubscribersOf[task[w].e]) \in Nat
           /\ task[w].n \in 0..Len(SubscribersOf[task[w].e])
           /\ task[w].pc \in ReceiptPCs => task[w].e \in Receipts
           /\ task[w].pc \notin JobPCs => task[w].todo \subseteq Receipts
           /\ task[w].pc \in JobPCs => /\ task[w].n \in Nr(task[w].e)
                                       /\ Delivered(w) \in Delivering
           /\ task[w].pc = "enqueue" => task[w].n \in Nr(task[w].e)
           /\ task[w].pc = "create" => task[w].todo \subseteq Channels
<1>1. ShapeOK(task[w]) /\ task[w] # Idle
  BY DEF Tasks, Idle
<1>2. task[w] \in Task /\ task[w].e \in Events /\ task[w].n \in Nat
  BY <1>1 DEF ShapeOK, Task
<1> QED
  BY <1>1, <1>2, RelayAssumption, DeliveringPairs DEF ShapeOK, At, Delivered

\* The task of a worker that moves on among the statements of a receipt or of a job.
LEMMA MoveType ==
    ASSUME Tasks, NEW w \in Workers, task[w].pc # "idle", NEW pc \in PCs \ {"idle", "enqueue", "create"},
           Goto(w, pc), pc \in ReceiptPCs => task[w].e \in Receipts,
           pc \in JobPCs <=> task[w].pc \in JobPCs
    PROVE  Tasks'
<1>1. ShapeOK(Doing(pc, task[w].e, task[w].n, task[w].todo))
  BY Busy DEF ShapeOK, Task, Doing
<1> QED
  BY <1>1, Busy, GotoType

\* Every step of a worker or of the environment leaves the rows, the jobs and the
\* tasks well formed.
LEMMA TypesStep == Types /\ [Next]_vars => Types'
<1> SUFFICES ASSUME Types, [Next]_vars PROVE Types'
  OBVIOUS
<1> USE DEF Types
<1>1. ASSUME NEW w \in Workers, InsertReceipt(w) PROVE Types'
  <2>1. task[w].pc = "insert" /\ task[w].e \in Receipts
    BY <1>1, Busy DEF InsertReceipt, At, ReceiptPCs
  <2>2. receipt' \in [Receipts -> Outcomes]
    BY <1>1, <2>1 DEF InsertReceipt, Rows, Outcomes
  <2>3. Become(w, Idle) \/ Goto(w, "quota")
    BY <1>1 DEF InsertReceipt
  <2>4. Tasks'
    BY <2>1, <2>3, IdleTasks, MoveType DEF PCs, JobPCs
  <2> QED
    BY <1>1, <2>2, <2>4 DEF InsertReceipt, Rows, JobsOK, bus, notification
<1>2. ASSUME NEW w \in Workers, CheckQuota(w) PROVE Types'
  <2>1. task[w].pc = "quota" /\ task[w].e \in Receipts
    BY <1>2, Busy DEF CheckQuota, At, ReceiptPCs
  <2>2. Goto(w, "drop") \/ Goto(w, "publish")
    BY <1>2 DEF CheckQuota
  <2>3. Tasks'
    BY <2>1, <2>2, MoveType DEF PCs, JobPCs
  <2> QED
    BY <1>2, <2>3 DEF CheckQuota, Rows, JobsOK, inbound, bus, notification
<1>3. ASSUME NEW w \in Workers, DropOverQuota(w) PROVE Types'
  <2>1. task[w].e \in Receipts
    BY <1>3, Busy DEF DropOverQuota, At, ReceiptPCs
  <2>2. receipt' \in [Receipts -> Outcomes]
    BY <1>3, <2>1, SettleType DEF DropOverQuota, Outcomes
  <2> QED
    BY <1>3, <2>2, IdleTasks DEF DropOverQuota, Rows, JobsOK, bus, notification
<1>4. ASSUME NEW w \in Workers, InsertEvent(w) PROVE Types'
  <2>1. task[w].pc = "publish" /\ task[w].e \in Events
    BY <1>4, Busy DEF InsertEvent, At
  <2>2. Tasks'
    BY <1>4, <2>1, FanOutType DEF InsertEvent
  <2> QED
    BY <1>4, <2>1, <2>2 DEF InsertEvent, Rows, JobsOK, inbound, notification
<1>5. ASSUME NEW w \in Workers, DropUnparseable(w) PROVE Types'
  <2>1. task[w].pc = "publish" /\ task[w].e \in Receipts
    BY <1>5, RelayAssumption DEF DropUnparseable, At
  <2>2. receipt' \in [Receipts -> Outcomes]
    BY <1>5, <2>1, SettleType DEF DropUnparseable, Outcomes
  <2>3. Tasks'
    BY <1>5, <2>1, NextReceiptType DEF DropUnparseable, At, JobPCs
  <2> QED
    BY <1>5, <2>2, <2>3 DEF DropUnparseable, Rows, JobsOK, bus, notification
<1>6. ASSUME NEW w \in Workers, EnqueueDelivery(w) PROVE Types'
  <2> DEFINE d == <<task[w].e, task[w].n>>
  <2>1. task[w].pc = "enqueue" /\ d \in Delivering /\ task[w].n + 1 \in Nat \ {0}
    BY <1>6, Busy, DeliveringPairs DEF EnqueueDelivery, At, Nr
  <2>2. Tasks'
    BY <1>6, <2>1, FanOutType DEF EnqueueDelivery
  <2>3. JobsOK'
    <3>1. [st |-> "queued", tries |-> 0] \in [st : JobStates, tries : 0..MaxAttempts] /\ 0 < MaxAttempts
      BY RelayAssumption DEF JobStates
    <3>2. job' = job \/ job' = [job EXCEPT ![d] = [st |-> "queued", tries |-> 0]]
      BY <1>6 DEF EnqueueDelivery
    <3> HIDE DEF d
    <3> QED
      BY <2>1, <3>1, <3>2 DEF JobsOK
  <2> QED
    BY <1>6, <2>2, <2>3 DEF EnqueueDelivery, Rows, inbound, notification
<1>7. ASSUME NEW w \in Workers, MarkPublished(w) PROVE Types'
  <2>1. task[w].pc = "mark" /\ task[w].e \in Receipts
    BY <1>7, Busy DEF MarkPublished, At, ReceiptPCs
  <2>2. receipt' \in [Receipts -> Outcomes]
    BY <1>7, <2>1, SettleType DEF MarkPublished, Outcomes
  <2>3. Tasks'
    BY <1>7, <2>1, NextReceiptType DEF MarkPublished, At, JobPCs
  <2> QED
    BY <1>7, <2>2, <2>3 DEF MarkPublished, Rows, JobsOK, bus, notification
<1>8. ASSUME NEW w \in Workers, CountFailure(w) PROVE Types'
  <2>1. task[w].pc = "count" /\ task[w].e \in Receipts
    BY <1>8, Busy DEF CountFailure, At, ReceiptPCs
  <2>2. failures' \in [Receipts -> Nat]
    BY <1>8, <2>1 DEF CountFailure, Rows
  <2>3. NextReceipt(w) \/ Goto(w, "giveup")
    BY <1>8 DEF CountFailure
  <2>4. Tasks'
    BY <2>1, <2>3, NextReceiptType, MoveType DEF At, PCs, JobPCs
  <2> QED
    BY <1>8, <2>2, <2>4 DEF CountFailure, Rows, JobsOK, bus, notification
<1>9. ASSUME NEW w \in Workers, GiveUp(w) PROVE Types'
  <2>1. task[w].pc = "giveup" /\ task[w].e \in Receipts
    BY <1>9, Busy DEF GiveUp, At, ReceiptPCs
  <2>2. receipt' \in [Receipts -> Outcomes]
    BY <1>9, <2>1, SettleType DEF GiveUp, Outcomes
  <2>3. Tasks'
    BY <1>9, <2>1, NextReceiptType DEF GiveUp, At, JobPCs
  <2> QED
    BY <1>9, <2>2, <2>3 DEF GiveUp, Rows, JobsOK, bus, notification
<1>10. ASSUME NEW w \in Workers, NEW r \in Receipts, RepublishNext(w, r) PROVE Types'
  <2>1. task[w].todo \ {r} \in SUBSET Receipts /\ r \in Events
    BY <1>10, Busy DEF RepublishNext, At, JobPCs, Events
  <2>2. Tasks'
    BY <1>10, <2>1, StartType DEF RepublishNext
  <2> QED
    BY <1>10, <2>2 DEF RepublishNext, Rows, JobsOK, inbound, bus, notification
<1>11. ASSUME NEW w \in Workers, FindEvent(w) PROVE Types'
  <2>1. task[w].pc = "find"
    BY <1>11 DEF FindEvent, At
  <2>2. Goto(w, "complete") \/ Goto(w, "handle")
    BY <1>11 DEF FindEvent
  <2>3. Tasks'
    BY <2>1, <2>2, MoveType DEF PCs, JobPCs, ReceiptPCs
  <2> QED
    BY <1>11, <2>3 DEF FindEvent, Rows, JobsOK, inbound, bus, notification
<1>12. ASSUME NEW w \in Workers, HandleOther(w) PROVE Types'
  <2>1. task[w].pc = "handle" /\ Delivered(w) \in Delivering
    BY <1>12, Busy DEF HandleOther, At, JobPCs
  <2>2. Tasks'
    BY <1>12, <2>1, MoveType DEF HandleOther, PCs, JobPCs, ReceiptPCs
  <2>3. handled' \in [Delivering -> 0..2]
    BY <1>12, <2>1, HandledType DEF HandleOther
  <2> QED
    BY <1>12, <2>2, <2>3 DEF HandleOther, Rows, JobsOK, inbound, notification
<1>13. ASSUME NEW w \in Workers, FindTargets(w) PROVE Types'
  <2> DEFINE targets == active \cap Matching[task[w].e]
  <2>1. task[w].pc = "handle" /\ Delivered(w) \in Delivering /\ task[w] \in Task
    BY <1>13, Busy DEF FindTargets, At, JobPCs
  <2>2. CASE targets = {}
    <3>1. HandledAgain(Delivered(w)) /\ Goto(w, "ledger")
      BY <1>13, <2>2 DEF FindTargets
    <3>2. Tasks' /\ handled' \in [Delivering -> 0..2]
      BY <2>1, <3>1, MoveType, HandledType DEF PCs, JobPCs, ReceiptPCs
    <3> QED
      BY <1>13, <3>2 DEF FindTargets, Rows, JobsOK, inbound, notification
  <2>3. CASE targets # {}
    <3>1. handled' = handled /\ Become(w, Doing("create", task[w].e, task[w].n, targets))
      BY <1>13, <2>1, <2>3, TaskUpdates DEF FindTargets
    <3>2. targets \subseteq Channels
      BY DEF Rows
    <3> HIDE DEF targets
    <3>3. ShapeOK(Doing("create", task[w].e, task[w].n, targets))
      BY <2>1, <3>2, Busy DEF ShapeOK, Task, Doing, PCs, JobPCs, ReceiptPCs
    <3>4. Tasks'
      BY <3>1, <3>3, TasksKept
    <3> QED
      BY <1>13, <3>1, <3>4 DEF FindTargets, Rows, JobsOK, inbound, notification
  <2> QED
    BY <2>2, <2>3
<1>14. ASSUME NEW w \in Workers, MarkDelivered(w) PROVE Types'
  <2>1. task[w].pc = "ledger" /\ Delivered(w) \in Delivering
    BY <1>14, Busy DEF MarkDelivered, At, JobPCs
  <2>2. Tasks'
    BY <1>14, <2>1, MoveType DEF MarkDelivered, PCs, JobPCs, ReceiptPCs
  <2> QED
    BY <1>14, <2>1, <2>2 DEF MarkDelivered, Rows, JobsOK, inbound, notification
<1>15. ASSUME NEW w \in Workers, CompleteJob(w) PROVE Types'
  <2>1. Delivered(w) \in Delivering
    BY <1>15, Busy DEF CompleteJob, At, JobPCs
  <2>2. JobsOK'
    BY <1>15, <2>1, JobEndsType DEF CompleteJob, JobStates
  <2> QED
    BY <1>15, <2>2, IdleTasks DEF CompleteJob, Rows, inbound, notification
<1>16. ASSUME NEW w \in Workers, NEW c \in Channels, CreateDelivery(w, c) PROVE Types'
  <2>1. /\ task[w].pc = "create" /\ Delivered(w) \in Delivering /\ task[w] \in Task
        /\ <<task[w].e, c>> \in Events \X Channels
    BY <1>16, Busy DEF CreateDelivery, At, JobPCs
  <2>2. delivery' \subseteq Events \X Channels
    BY <1>16, <2>1 DEF CreateDelivery, Rows
  <2>3. CASE task[w].todo = {c}
    <3>1. HandledAgain(Delivered(w)) /\ Become(w, Doing("ledger", task[w].e, task[w].n, {}))
      BY <1>16, <2>1, <2>3, TaskUpdates DEF CreateDelivery
    <3>2. ShapeOK(Doing("ledger", task[w].e, task[w].n, {}))
      BY <2>1, Busy DEF ShapeOK, Task, Doing, PCs, JobPCs, ReceiptPCs
    <3>3. Tasks' /\ handled' \in [Delivering -> 0..2]
      BY <2>1, <3>1, <3>2, TasksKept, HandledType
    <3> QED
      BY <1>16, <2>2, <3>3 DEF CreateDelivery, Rows, JobsOK, inbound
  <2>4. CASE task[w].todo # {c}
    <3> DEFINE rest == task[w].todo \ {c}
    <3>0. [task[w] EXCEPT !.todo = rest] = Doing("create", task[w].e, task[w].n, rest)
      BY <2>1 DEF Task, Doing
    <3>1. handled' = handled /\ Become(w, Doing("create", task[w].e, task[w].n, rest))
      BY <1>16, <2>4, <3>0 DEF CreateDelivery
    <3>2. rest \subseteq Channels
      BY <2>1, Busy
    <3> HIDE DEF rest
    <3>3. ShapeOK(Doing("create", task[w].e, task[w].n, rest))
      BY <2>1, <3>2, Busy DEF ShapeOK, Task, Doing, PCs, JobPCs, ReceiptPCs
    <3>4. Tasks'
      BY <3>1, <3>3, TasksKept
    <3> QED
      BY <1>16, <2>2, <3>1, <3>4 DEF CreateDelivery, Rows, JobsOK, inbound
  <2> QED
    BY <2>3, <2>4
<1>17. ASSUME NEW w \in Workers, Republish(w) PROVE Types'
  <2> DEFINE pending == {r \in stale : receipt[r] = "pending"}
  <2>1. PICK r \in pending : Become(w, Doing("publish", r, 0, pending \ {r}))
    BY <1>17 DEF Republish
  <2>2. r \in Events /\ pending \ {r} \in SUBSET Receipts
    BY DEF Rows, Events
  <2> HIDE DEF pending
  <2>3. Tasks'
    BY <2>1, <2>2, StartType
  <2> QED
    BY <1>17, <2>3 DEF Republish, Rows, JobsOK, inbound, bus, notification
<1>18. ASSUME NEW w \in Workers, NEW r \in Receipts, Ingest(w, r) PROVE Types'
  <2>1. task' = task \/ Become(w, Doing("insert", r, 0, {}))
    BY <1>18 DEF Ingest
  <2>2. r \in Events
    BY DEF Events
  <2>3. Tasks'
    BY <2>1, <2>2, StartType DEF Tasks
  <2>4. coming' \in [Events -> Nat]
    BY <1>18, <2>2 DEF Ingest, Comes, Rows
  <2> QED
    BY <1>18, <2>3, <2>4 DEF Ingest, Rows, JobsOK, bus, notification
<1>19. ASSUME NEW w \in Workers, NEW e \in Facts, PublishFact(w, e) PROVE Types'
  <2>1. e \in Events
    BY DEF Events
  <2>2. Tasks'
    BY <1>19, <2>1, StartType DEF PublishFact
  <2>3. coming' \in [Events -> Nat]
    BY <1>19, <2>1 DEF PublishFact, Comes, Rows
  <2> QED
    BY <1>19, <2>2, <2>3 DEF PublishFact, Rows, JobsOK, bus, notification
<1>20. ASSUME NEW w \in Workers, NEW d \in Delivering, RunDelivery(w, d) PROVE Types'
  <2>1. d[1] \in Events /\ d[2] \in Nr(d[1]) /\ Len(SubscribersOf[d[1]]) \in Nat
    BY DeliveringPairs, RelayAssumption
  <2>2. ShapeOK(Doing("find", d[1], d[2], {}))
    BY <2>1 DEF ShapeOK, Task, Doing, PCs, JobPCs, ReceiptPCs, Nr
  <2>3. Tasks'
    BY <1>20, <2>2, TasksKept DEF RunDelivery
  <2>4. JobsOK'
    <3> DEFINE t == job[d].tries + 1
    <3>1. t \in 0..MaxAttempts /\ job[d] = [st |-> job[d].st, tries |-> job[d].tries]
      BY <1>20, RelayAssumption DEF RunDelivery, JobsOK
    <3> DEFINE r == [job[d] EXCEPT !.st = "running"]
               f == [job EXCEPT ![d] = r]
    <3>2. r = [st |-> "running", tries |-> job[d].tries]
      BY <3>1
    <3>3. job' = [f EXCEPT ![d] = [f[d] EXCEPT !.tries = f[d].tries + 1]]
      BY <1>20 DEF RunDelivery
    <3> HIDE DEF r
    <3>4. f[d] = r /\ f \in [Delivering -> [st : JobStates, tries : 0..MaxAttempts]]
      BY <3>1, <3>2 DEF JobsOK, JobStates
    <3>5. \A x \in Delivering : f[x].st = "queued" => f[x].tries < MaxAttempts
      BY <3>2 DEF JobsOK
    <3> HIDE DEF f
    <3>6. [f[d] EXCEPT !.tries = f[d].tries + 1] = [st |-> "running", tries |-> t]
      BY <3>2, <3>4
    <3> HIDE DEF t
    <3> QED
      BY <3>1, <3>3, <3>4, <3>5, <3>6 DEF JobsOK, JobStates
  <2> QED
    BY <1>20, <2>3, <2>4 DEF RunDelivery, Rows, inbound, notification
<1>21. ASSUME NEW w \in Workers, PublishThrows(w) PROVE Types'
  <2>1. task[w].pc \in {"publish", "enqueue", "mark"} /\ faults' \in Nat
    BY <1>21 DEF PublishThrows, Fault, Rows
  <2>2. Tasks'
    BY <1>21, <2>1, IdleTasks, MoveType DEF PublishThrows, PCs, JobPCs
  <2> QED
    BY <1>21, <2>1, <2>2 DEF PublishThrows, Rows, JobsOK, inbound, bus, notification
<1>22. ASSUME NEW w \in Workers, RecordingThrows(w) PROVE Types'
  <2>1. task[w].pc \in {"count", "giveup"} /\ faults' \in Nat
    BY <1>22 DEF RecordingThrows, Fault, Rows
  <2>2. Tasks'
    BY <1>22, <2>1, Busy, NextReceiptType DEF RecordingThrows, At, ReceiptPCs, JobPCs
  <2> QED
    BY <1>22, <2>1, <2>2 DEF RecordingThrows, Rows, JobsOK, inbound, bus, notification
<1>23. ASSUME NEW w \in Workers, DeliverThrows(w) PROVE Types'
  <2>1. Delivered(w) \in Delivering /\ faults' \in Nat
    BY <1>23, Busy DEF DeliverThrows, Fault, Rows, JobPCs
  <2>2. JobsOK'
    BY <1>23, <2>1, JobEndsType, RetriedType DEF DeliverThrows
  <2> QED
    BY <1>23, <2>1, <2>2, IdleTasks DEF DeliverThrows, Rows, inbound, notification
<1>24. ASSUME NEW w \in Workers, Kill(w) PROVE Types'
  <2>1. faults' \in Nat
    BY <1>24 DEF Kill, Fault, Rows
  <2> QED
    BY <1>24, <2>1, IdleTasks DEF Kill, Rows, JobsOK, inbound, bus, notification
<1>25. ASSUME NEW d \in Delivering, Reclaim(d) PROVE Types'
  <2>1. JobsOK'
    BY <1>25, JobEndsType, RetriedType DEF Reclaim
  <2> QED
    BY <1>25, <2>1 DEF Reclaim, Rows, Tasks, inbound, notification
<1>26. ASSUME NEW r \in Receipts, Elapse(r) PROVE Types'
  BY <1>26 DEF Elapse, Rows, JobsOK, Tasks, bus, notification
<1>27. ASSUME NEW c \in Channels, DisableChannel(c) PROVE Types'
  BY <1>27 DEF DisableChannel, Rows, JobsOK, Tasks, inbound, bus
<1>28. CASE UNCHANGED vars
  BY <1>28 DEF vars, Rows, JobsOK, Tasks, inbound, bus, notification
<1> QED
  BY <1>1, <1>2, <1>3, <1>4, <1>5, <1>6, <1>7, <1>8, <1>9, <1>10, <1>11, <1>12, <1>13, <1>14,
     <1>15, <1>16, <1>17, <1>18, <1>19, <1>20, <1>21, <1>22, <1>23, <1>24, <1>25, <1>26, <1>27,
     <1>28 DEF Next, WorkerStep

\* The first state is well formed.
LEMMA TypesInit == Init => Types
<1> SUFFICES ASSUME Init PROVE Types
  OBVIOUS
<1>1. Rows
  BY RelayAssumption DEF Init, Rows, Outcomes
<1>2. JobsOK
  BY RelayAssumption DEF Init, JobsOK, JobStates
<1>3. Tasks
  BY DEF Init, Tasks, ShapeOK
<1> QED
  BY <1>1, <1>2, <1>3 DEF Types

\* Types is an invariant.
LEMMA TypesAlways == Spec => []Types
  BY TypesInit, TypesStep, PTL DEF Spec

\* The rows and the tasks have their types: no statement of the pipeline leaves an
\* outcome, a count of attempts or a step of a fan-out out of its range.
THEOREM TypeSafety == Spec => []TypeOK
<1>1. Types => TypeOK
  <2> SUFFICES ASSUME Types PROVE TypeOK
    OBVIOUS
  <2>1. ASSUME NEW w \in Workers, task[w] # Idle
        PROVE  /\ task[w].pc \in PCs \ {"idle"}
               /\ task[w].e \in Events
               /\ task[w].n \in 0..Len(SubscribersOf[task[w].e]) + 1
               /\ task[w].todo \subseteq Channels \cup Receipts
    <3>1. task[w] \in Task /\ task[w].pc # "idle"
      BY <2>1 DEF Types, Tasks, ShapeOK, Task
    <3> QED
      BY <3>1, Busy DEF Types, Task
  <2> QED
    BY <2>1 DEF Types, Rows, JobsOK, TypeOK
<1> QED
  BY <1>1, TypesAlways, PTL

-----------------------------------------------------------------------------
(* The fan-out and the ledger                                              *)

\* Every channel that asked for e and was never disabled has its delivery.
Served(e) == \A c \in active \cap Matching[e] : <<e, c>> \in delivery

\* What a worker has done so far for the event it is at.
ProgressOK(w) ==
    /\ At(w, "enqueue") => \A m \in 1..task[w].n - 1 : job[<<task[w].e, m>>].st # "none"
    /\ At(w, "mark") => \A m \in Nr(task[w].e) : job[<<task[w].e, m>>].st # "none"
    /\ task[w].pc \in JobPCs => job[Delivered(w)].st = "running"
    /\ task[w].pc \in {"handle", "create"} => Delivered(w) \notin ledger
    /\ At(w, "create") =>
          \A c \in active \cap Matching[task[w].e] : c \in task[w].todo \/ <<task[w].e, c>> \in delivery
    /\ At(w, "ledger") /\ IsFanOut(w) => Served(task[w].e)

\* No two workers run the job of the same delivery.
Exclusive ==
    \A w, v \in Workers :
        w # v /\ task[w].pc \in JobPCs /\ task[v].pc \in JobPCs => Delivered(w) # Delivered(v)

Inv ==
    /\ \A w \in Workers : ProgressOK(w)
    /\ Exclusive
    /\ PublishedFannedOut
    /\ FanOutComplete

\* A step in which no job disappears, channels are only disabled and deliveries only
\* created, and only the jobs in D end or are
\* entered in the ledger.
Calm(D) ==
    /\ \A x \in Delivering : job[x].st # "none" => job'[x].st # "none"
    /\ \A x \in Delivering \ D : job[x].st = "running" => job'[x].st = "running"
    /\ ledger' \subseteq ledger \cup D
    /\ active' \subseteq active
    /\ delivery \subseteq delivery'

\* A worker that a calm step leaves alone, and that is at no job of D.
LEMMA OtherKept ==
    ASSUME Types, NEW D, Calm(D), NEW v \in Workers, ProgressOK(v), task'[v] = task[v],
           task[v].pc \in JobPCs => Delivered(v) \notin D
    PROVE  ProgressOK(v)'
<1>1. CASE At(v, "enqueue")
  <2>1. \A m \in 1..task[v].n - 1 : <<task[v].e, m>> \in Delivering
    BY <1>1, Busy, DeliveringPairs DEF Types, At, Nr
  <2> QED
    BY <1>1, <2>1 DEF ProgressOK, At, Calm, JobPCs
<1>2. CASE At(v, "mark")
  <2>1. \A m \in Nr(task[v].e) : <<task[v].e, m>> \in Delivering
    BY <1>2, Busy, DeliveringPairs DEF Types, At
  <2> QED
    BY <1>2, <2>1 DEF ProgressOK, At, Calm, JobPCs
<1>3. CASE task[v].pc \in JobPCs
  <2>1. Delivered(v) \in Delivering \ D /\ Delivered(v)' = Delivered(v)
    BY <1>3, Busy DEF Types, Delivered, JobPCs
  <2>2. job'[Delivered(v)].st = "running"
    BY <1>3, <2>1 DEF ProgressOK, Calm
  <2>3. task[v].pc \in {"handle", "create"} => Delivered(v) \notin ledger'
    BY <2>1 DEF ProgressOK, Calm
  <2>4. At(v, "create") =>
          \A c \in active' \cap Matching[task[v].e] : c \in task[v].todo \/ <<task[v].e, c>> \in delivery'
    BY DEF ProgressOK, Calm
  <2>5. At(v, "ledger") /\ IsFanOut(v) => Served(task[v].e)'
    BY DEF ProgressOK, Calm, Served
  <2> QED
    BY <1>3, <2>1, <2>2, <2>3, <2>4, <2>5 DEF ProgressOK, At, JobPCs, IsFanOut, Served
<1> QED
  BY <1>1, <1>2, <1>3 DEF ProgressOK, At, JobPCs

\* The published receipts, if no more are published.
LEMMA PublishedKept ==
    ASSUME Types, PublishedFannedOut, NEW D, Calm(D), Published' \subseteq Published
    PROVE  PublishedFannedOut'
<1> SUFFICES ASSUME NEW r \in Published, NEW n \in Nr(r) PROVE job'[<<r, n>>].st # "none"
  BY DEF PublishedFannedOut
<1>1. <<r, n>> \in Delivering
  BY DeliveringPairs DEF Published, Events
<1> QED
  BY <1>1 DEF PublishedFannedOut, Calm

\* The ledger, if what is written to it is served.
LEMMA LedgerKept ==
    ASSUME FanOutComplete, NEW D, Calm(D),
           \A d \in D \cap ledger' : SubscribersOf[d[1]][d[2]] = FanOut => Served(d[1])
    PROVE  FanOutComplete'
  BY DEF FanOutComplete, Calm, Served

\* One worker moves, to nothing that Inv speaks of or on with the same job.
LEMMA OneMoves ==
    ASSUME Types, Inv, NEW D, Calm(D), NEW w \in Workers,
           \A v \in Workers \ {w} : task'[v] = task[v],
           \A v \in Workers \ {w} : task[v].pc \in JobPCs => Delivered(v) \notin D,
           task'[w].pc \in JobPCs => Delivered(w)' \in D \/ task'[w] = task[w],
           ProgressOK(w)', PublishedFannedOut',
           \A d \in D \cap ledger' : SubscribersOf[d[1]][d[2]] = FanOut => Served(d[1])
    PROVE  Inv'
<1>1. \A v \in Workers : ProgressOK(v)'
  BY OtherKept DEF Inv
<1>2. \A v \in Workers \ {w} : task[v].pc \in JobPCs => Delivered(v)' = Delivered(v)
  BY DEF Delivered
<1>3. Exclusive'
  <2> SUFFICES ASSUME NEW u \in Workers, NEW v \in Workers, u # v,
                      task'[u].pc \in JobPCs, task'[v].pc \in JobPCs
               PROVE  Delivered(u)' # Delivered(v)'
    BY DEF Exclusive
  <2>1. CASE task'[w] = task[w]
    BY <2>1 DEF Inv, Exclusive, Delivered
  <2>2. CASE task'[w] # task[w]
    BY <1>2, <2>2 DEF Inv, Exclusive
  <2> QED
    BY <2>1, <2>2
<1> QED
  BY <1>1, <1>3, LedgerKept DEF Inv

\* A step that touches no job, no ledger, and moves no worker into the statements Inv
\* speaks of.
LEMMA QuietKept ==
    ASSUME Types, Inv, job' = job, ledger' = ledger, active' \subseteq active, delivery' = delivery,
           Published' \subseteq Published, NEW w \in Workers,
           \A v \in Workers \ {w} : task'[v] = task[v],
           task'[w] = task[w] \/ task'[w].pc \notin JobPCs \cup {"enqueue", "mark"}
    PROVE  Inv'
<1>1. Calm({})
  BY DEF Calm
<1>2. ProgressOK(w)'
  <2>1. CASE task'[w] = task[w]
    BY <1>1, <2>1, OtherKept DEF Inv
  <2>2. CASE task'[w] # task[w]
    BY <2>2 DEF ProgressOK, At, JobPCs
  <2> QED
    BY <2>1, <2>2
<1>3. task'[w].pc \in JobPCs => task'[w] = task[w]
  OBVIOUS
<1>4. PublishedFannedOut'
  BY <1>1, PublishedKept DEF Inv
<1> QED
  BY <1>1, <1>2, <1>3, <1>4, OneMoves

\* An outcome other than published publishes nothing.
LEMMA SettleQuiet ==
    ASSUME Types, NEW r \in Receipts, NEW o, o # "published", SettleIfPending(r, o)
    PROVE  Published' \subseteq Published
  BY DEF Types, Rows, SettleIfPending, Published

\* What a worker does that moves on: the others stay where they are.
LEMMA GotoMoves ==
    ASSUME Types, NEW w \in Workers, NEW t, Become(w, t)
    PROVE  task'[w] = t /\ \A v \in Workers \ {w} : task'[v] = task[v]
  BY DEF Types, Tasks, Become

\* The same of a worker that changes its statement only.
LEMMA GotoPC ==
    ASSUME Types, NEW w \in Workers, task[w].pc # "idle", NEW pc, Goto(w, pc)
    PROVE  /\ task'[w].pc = pc /\ task'[w].e = task[w].e /\ task'[w].n = task[w].n
           /\ task'[w].todo = task[w].todo
           /\ \A v \in Workers \ {w} : task'[v] = task[v]
<1>1. task[w] \in Task
  BY Busy DEF Types
<1>2. [task[w] EXCEPT !.pc = pc] = Doing(pc, task[w].e, task[w].n, task[w].todo)
  BY <1>1 DEF Task, Doing
<1>3. task'[w] = Doing(pc, task[w].e, task[w].n, task[w].todo) /\ \A v \in Workers \ {w} : task'[v] = task[v]
  BY <1>2, GotoMoves DEF Goto
<1> QED
  BY <1>3 DEF Doing

\* A batch that goes on, or ends, is at no statement Inv speaks of.
LEMMA NextReceiptQuiet ==
    ASSUME Types, NEW w \in Workers, task[w].pc # "idle", NextReceipt(w)
    PROVE  /\ task'[w].pc \notin JobPCs \cup {"enqueue", "mark"}
           /\ \A v \in Workers \ {w} : task'[v] = task[v]
  BY GotoMoves, GotoPC DEF NextReceipt, Idle, JobPCs

\* A fan-out that has enqueued for the subscribers before the k-th.
LEMMA FanOutProgress ==
    ASSUME Types, NEW w \in Workers, task[w].pc \in {"publish", "enqueue"}, NEW k \in Nat \ {0},
           FanOutFrom(w, k),
           \A m \in 1..k - 1 : m \in Nr(task[w].e) => job'[<<task[w].e, m>>].st # "none"
    PROVE  /\ ProgressOK(w)' /\ task'[w].pc \notin JobPCs
           /\ \A v \in Workers \ {w} : task'[v] = task[v]
<1> DEFINE e == task[w].e
<1>1. task[w] \in Task /\ task[w].pc # "idle" /\ Len(SubscribersOf[e]) \in Nat
  BY Busy DEF Types
<1>2. CASE k <= Len(SubscribersOf[e])
  <2>1. [task[w] EXCEPT !.pc = "enqueue", !.n = k] = Doing("enqueue", e, k, task[w].todo)
    BY <1>1, TaskUpdates
  <2>2. task'[w] = Doing("enqueue", e, k, task[w].todo) /\ \A v \in Workers \ {w} : task'[v] = task[v]
    BY <1>2, <2>1, GotoMoves DEF FanOutFrom
  <2>3. task'[w].pc = "enqueue" /\ task'[w].e = e /\ task'[w].n = k
    BY <2>2 DEF Doing
  <2>4. \A m \in 1..k - 1 : job'[<<e, m>>].st # "none"
    BY <1>1, <1>2 DEF Nr
  <2> QED
    BY <2>2, <2>3, <2>4 DEF ProgressOK, At, JobPCs
<1>3. CASE ~(k <= Len(SubscribersOf[e])) /\ e \in Facts
  BY <1>3, GotoMoves DEF FanOutFrom, Idle, ProgressOK, At, JobPCs
<1>4. CASE ~(k <= Len(SubscribersOf[e])) /\ e \notin Facts
  <2>1. Goto(w, "mark")
    BY <1>4 DEF FanOutFrom
  <2>2. task'[w].pc = "mark" /\ task'[w].e = e /\ \A v \in Workers \ {w} : task'[v] = task[v]
    BY <1>1, <2>1, GotoPC
  <2>3. \A m \in Nr(e) : job'[<<e, m>>].st # "none"
    BY <1>1, <1>4 DEF Nr
  <2> QED
    BY <2>2, <2>3 DEF ProgressOK, At, JobPCs
<1> QED
  BY <1>2, <1>3, <1>4

\* A run that ends, or is reclaimed, leaves its job in another state.
LEMMA EndsCalm ==
    ASSUME Types, NEW d \in Delivering, NEW st, st # "none", JobEnds(d, st),
           ledger' = ledger, active' = active, delivery' = delivery
    PROVE  Calm({d})
  BY DEF Types, JobsOK, JobEnds, Calm

\* A step of the worker that runs a job, on with the job or out of it.
LEMMA JobKept ==
    ASSUME Types, Inv, NEW w \in Workers, task[w].pc \in JobPCs, Calm({Delivered(w)}),
           \A v \in Workers \ {w} : task'[v] = task[v],
           task'[w].pc \in JobPCs => Delivered(w)' = Delivered(w),
           ProgressOK(w)', Published' = Published,
           Delivered(w) \in ledger' \ ledger /\ IsFanOut(w) => Served(task[w].e)
    PROVE  Inv'
<1>1. \A v \in Workers \ {w} : task[v].pc \in JobPCs => Delivered(v) \notin {Delivered(w)}
  BY DEF Inv, Exclusive
<1>2. PublishedFannedOut'
  BY PublishedKept DEF Inv
<1>3. \A d \in {Delivered(w)} \cap ledger' : SubscribersOf[d[1]][d[2]] = FanOut => Served(d[1])
  BY DEF Inv, FanOutComplete, Served, Delivered, IsFanOut
<1> QED
  BY <1>1, <1>2, <1>3, OneMoves

\* The steps of a publish and of a job keep the order that the properties rest on.
LEMMA InvStep == Types /\ Inv /\ [Next]_vars => Inv'
<1> SUFFICES ASSUME Types, Inv, [Next]_vars PROVE Inv'
  OBVIOUS
<1>1. ASSUME NEW w \in Workers, InsertReceipt(w) PROVE Inv'
  <2>1. task[w].pc = "insert" /\ task[w].e \in Receipts
    BY <1>1, Busy DEF InsertReceipt, At, ReceiptPCs, Types
  <2>2. Published' \subseteq Published
    BY <1>1, <2>1 DEF InsertReceipt, Published, Types, Rows
  <2>3. Become(w, Idle) \/ Goto(w, "quota")
    BY <1>1 DEF InsertReceipt
  <2>4. task'[w].pc \notin JobPCs \cup {"enqueue", "mark"} /\ \A v \in Workers \ {w} : task'[v] = task[v]
    BY <2>1, <2>3, GotoMoves, GotoPC DEF Idle, JobPCs
  <2> QED
    BY <1>1, <2>2, <2>4, QuietKept DEF InsertReceipt, bus, notification
<1>2. ASSUME NEW w \in Workers, CheckQuota(w) PROVE Inv'
  <2>1. task'[w].pc \notin JobPCs \cup {"enqueue", "mark"} /\ \A v \in Workers \ {w} : task'[v] = task[v]
    BY <1>2, GotoPC DEF CheckQuota, At, JobPCs
  <2> QED
    BY <1>2, <2>1, QuietKept DEF CheckQuota, inbound, bus, notification, Published
<1>3. ASSUME NEW w \in Workers, DropOverQuota(w) PROVE Inv'
  <2>1. task[w].e \in Receipts
    BY <1>3, Busy DEF DropOverQuota, At, ReceiptPCs, Types
  <2>2. Published' \subseteq Published
    BY <1>3, <2>1, SettleQuiet DEF DropOverQuota
  <2>3. task'[w].pc \notin JobPCs \cup {"enqueue", "mark"} /\ \A v \in Workers \ {w} : task'[v] = task[v]
    BY <1>3, GotoMoves DEF DropOverQuota, Idle, JobPCs
  <2> QED
    BY <1>3, <2>2, <2>3, QuietKept DEF DropOverQuota, bus, notification
<1>4. ASSUME NEW w \in Workers, InsertEvent(w) PROVE Inv'
  <2>1. /\ ProgressOK(w)' /\ task'[w].pc \notin JobPCs
        /\ \A v \in Workers \ {w} : task'[v] = task[v]
    BY <1>4, FanOutProgress DEF InsertEvent, At
  <2>2. Calm({}) /\ Published' = Published
    BY <1>4 DEF InsertEvent, inbound, notification, Calm, Published
  <2>3. PublishedFannedOut'
    BY <2>2, PublishedKept DEF Inv
  <2> QED
    BY <2>1, <2>2, <2>3, OneMoves
<1>5. ASSUME NEW w \in Workers, DropUnparseable(w) PROVE Inv'
  <2>1. task[w].pc = "publish" /\ task[w].e \in Receipts
    BY <1>5, RelayAssumption DEF DropUnparseable, At
  <2>2. Published' \subseteq Published
    BY <1>5, <2>1, SettleQuiet DEF DropUnparseable
  <2>3. task'[w].pc \notin JobPCs \cup {"enqueue", "mark"} /\ \A v \in Workers \ {w} : task'[v] = task[v]
    BY <1>5, <2>1, NextReceiptQuiet DEF DropUnparseable
  <2> QED
    BY <1>5, <2>2, <2>3, QuietKept DEF DropUnparseable, bus, notification
<1>6. ASSUME NEW w \in Workers, EnqueueDelivery(w) PROVE Inv'
  <2> DEFINE d == <<task[w].e, task[w].n>>
  <2>1. task[w].pc = "enqueue" /\ d \in Delivering /\ task[w].n \in Nat \ {0} /\ ProgressOK(w)
    BY <1>6, Busy, DeliveringPairs DEF EnqueueDelivery, At, Nr, Types, Inv
  <2>2. job'[d].st # "none" /\ Calm({})
    <3> HIDE DEF d
    <3>1. job' = IF Live(d) THEN job ELSE [job EXCEPT ![d] = [st |-> "queued", tries |-> 0]]
      BY <1>6 DEF EnqueueDelivery, d
    <3>2. job \in [Delivering -> [st : JobStates, tries : 0..MaxAttempts]]
      BY DEF Types, JobsOK
    <3>3. ledger' = ledger /\ active' = active /\ delivery' = delivery
      BY <1>6 DEF EnqueueDelivery, notification
    <3> QED
      BY <2>1, <3>1, <3>2, <3>3 DEF Live, Calm
  <2>3. \A m \in 1..task[w].n : m \in Nr(task[w].e) => job'[<<task[w].e, m>>].st # "none"
    <3> SUFFICES ASSUME NEW m \in 1..task[w].n, m \in Nr(task[w].e)
                 PROVE  job'[<<task[w].e, m>>].st # "none"
      OBVIOUS
    <3>1. CASE m = task[w].n
      BY <2>2, <3>1
    <3>2. CASE m # task[w].n
      <4>1. <<task[w].e, m>> \in Delivering /\ m \in 1..task[w].n - 1
        BY <2>1, <3>2, Busy, DeliveringPairs DEF Types
      <4> QED
        BY <2>1, <2>2, <4>1 DEF ProgressOK, At, Calm
    <3> QED
      BY <3>1, <3>2
  <2>4. /\ ProgressOK(w)' /\ task'[w].pc \notin JobPCs
        /\ \A v \in Workers \ {w} : task'[v] = task[v]
    <3>1. task[w].n + 1 \in Nat \ {0} /\ 1..(task[w].n + 1) - 1 = 1..task[w].n
      BY <2>1
    <3> QED
      BY <1>6, <2>1, <2>3, <3>1, FanOutProgress DEF EnqueueDelivery
  <2>5. PublishedFannedOut'
    <3>1. Published' = Published
      BY <1>6 DEF EnqueueDelivery, inbound, Published
    <3> QED
      BY <2>2, <3>1, PublishedKept DEF Inv
  <2> QED
    BY <2>2, <2>4, <2>5, OneMoves
<1>7. ASSUME NEW w \in Workers, MarkPublished(w) PROVE Inv'
  <2>1. task[w].pc = "mark" /\ task[w].e \in Receipts /\ ProgressOK(w)
    BY <1>7, Busy DEF MarkPublished, At, ReceiptPCs, Types, Inv
  <2>2. task'[w].pc \notin JobPCs \cup {"enqueue", "mark"} /\ \A v \in Workers \ {w} : task'[v] = task[v]
    BY <1>7, <2>1, NextReceiptQuiet DEF MarkPublished
  <2>3. Calm({}) /\ job' = job
    BY <1>7 DEF MarkPublished, bus, notification, Calm
  <2>4. Published' \subseteq Published \cup {task[w].e}
    BY <1>7, <2>1 DEF MarkPublished, SettleIfPending, Published, Types, Rows
  <2>5. PublishedFannedOut'
    BY <2>1, <2>3, <2>4 DEF PublishedFannedOut, Inv, ProgressOK, At
  <2>6. ProgressOK(w)'
    BY <2>2 DEF ProgressOK, At, JobPCs
  <2> QED
    BY <2>2, <2>3, <2>5, <2>6, OneMoves
<1>8. ASSUME NEW w \in Workers, CountFailure(w) PROVE Inv'
  <2>1. task[w].pc # "idle" /\ (NextReceipt(w) \/ Goto(w, "giveup"))
    BY <1>8 DEF CountFailure, At
  <2>2. task'[w].pc \notin JobPCs \cup {"enqueue", "mark"} /\ \A v \in Workers \ {w} : task'[v] = task[v]
    BY <2>1, NextReceiptQuiet, GotoPC DEF JobPCs
  <2> QED
    BY <1>8, <2>2, QuietKept DEF CountFailure, bus, notification, Published
<1>9. ASSUME NEW w \in Workers, GiveUp(w) PROVE Inv'
  <2>1. task[w].pc = "giveup" /\ task[w].e \in Receipts
    BY <1>9, Busy DEF GiveUp, At, ReceiptPCs, Types
  <2>2. Published' \subseteq Published
    BY <1>9, <2>1, SettleQuiet DEF GiveUp
  <2>3. task'[w].pc \notin JobPCs \cup {"enqueue", "mark"} /\ \A v \in Workers \ {w} : task'[v] = task[v]
    BY <1>9, <2>1, NextReceiptQuiet DEF GiveUp
  <2> QED
    BY <1>9, <2>2, <2>3, QuietKept DEF GiveUp, bus, notification
<1>10. ASSUME NEW w \in Workers, NEW r \in Receipts, RepublishNext(w, r) PROVE Inv'
  <2>1. task'[w].pc \notin JobPCs \cup {"enqueue", "mark"} /\ \A v \in Workers \ {w} : task'[v] = task[v]
    BY <1>10, GotoMoves DEF RepublishNext, Doing, JobPCs
  <2> QED
    BY <1>10, <2>1, QuietKept DEF RepublishNext, inbound, bus, notification, Published
<1>11. ASSUME NEW w \in Workers, FindEvent(w) PROVE Inv'
  <2>1. task[w].pc = "find" /\ ProgressOK(w)
    BY <1>11 DEF FindEvent, At, Inv
  <2>2. /\ task'[w].pc = (IF Delivered(w) \in ledger THEN "complete" ELSE "handle")
        /\ task'[w].e = task[w].e /\ task'[w].n = task[w].n
        /\ \A v \in Workers \ {w} : task'[v] = task[v]
    BY <1>11, <2>1, GotoPC DEF FindEvent
  <2>3. Calm({Delivered(w)}) /\ Published' = Published /\ job' = job /\ ledger' = ledger
    BY <1>11 DEF FindEvent, inbound, bus, notification, Calm, Published
  <2>4. Delivered(w)' = Delivered(w)
    BY <2>2 DEF Delivered
  <2>5. ProgressOK(w)'
    BY <2>1, <2>2, <2>3, <2>4 DEF ProgressOK, At, JobPCs
  <2> QED
    BY <2>1, <2>2, <2>3, <2>4, <2>5, JobKept DEF JobPCs
<1>12. ASSUME NEW w \in Workers, HandleOther(w) PROVE Inv'
  <2>1. task[w].pc = "handle" /\ ProgressOK(w) /\ ~IsFanOut(w)
    BY <1>12 DEF HandleOther, At, Inv
  <2>2. /\ task'[w].pc = "ledger" /\ task'[w].e = task[w].e /\ task'[w].n = task[w].n
        /\ \A v \in Workers \ {w} : task'[v] = task[v]
    BY <1>12, <2>1, GotoPC DEF HandleOther
  <2>3. Calm({Delivered(w)}) /\ Published' = Published /\ job' = job /\ ledger' = ledger
    BY <1>12 DEF HandleOther, inbound, notification, Calm, Published
  <2>4. Delivered(w)' = Delivered(w) /\ IsFanOut(w)' = IsFanOut(w)
    BY <2>2 DEF Delivered, IsFanOut
  <2>5. ProgressOK(w)'
    BY <2>1, <2>2, <2>3, <2>4 DEF ProgressOK, At, JobPCs
  <2> QED
    BY <2>1, <2>2, <2>3, <2>4, <2>5, JobKept DEF JobPCs
<1>13. ASSUME NEW w \in Workers, FindTargets(w) PROVE Inv'
  <2> DEFINE targets == active \cap Matching[task[w].e]
  <2>1. task[w].pc = "handle" /\ ProgressOK(w) /\ task[w] \in Task
    BY <1>13, Busy DEF FindTargets, At, Inv, Types
  <2>2. /\ Calm({Delivered(w)}) /\ Published' = Published /\ job' = job /\ ledger' = ledger
        /\ active' = active /\ delivery' = delivery
    BY <1>13 DEF FindTargets, inbound, notification, Calm, Published
  <2>3. CASE targets = {}
    <3>1. /\ task'[w].pc = "ledger" /\ task'[w].e = task[w].e /\ task'[w].n = task[w].n
          /\ \A v \in Workers \ {w} : task'[v] = task[v]
      BY <1>13, <2>1, <2>3, GotoPC DEF FindTargets
    <3>2. Delivered(w)' = Delivered(w)
      BY <3>1 DEF Delivered
    <3>3. ProgressOK(w)'
      BY <2>1, <2>2, <2>3, <3>1, <3>2 DEF ProgressOK, At, JobPCs, Served
    <3> QED
      BY <2>1, <2>2, <3>1, <3>2, <3>3, JobKept DEF JobPCs
  <2>4. CASE targets # {}
    <3>0. Become(w, Doing("create", task[w].e, task[w].n, targets))
      BY <1>13, <2>1, <2>4, TaskUpdates DEF FindTargets
    <3>1. /\ task'[w] = Doing("create", task[w].e, task[w].n, targets)
          /\ \A v \in Workers \ {w} : task'[v] = task[v]
      BY <3>0, GotoMoves
    <3>2. /\ task'[w].pc = "create" /\ task'[w].e = task[w].e /\ task'[w].n = task[w].n
          /\ task'[w].todo = targets
      BY <3>1 DEF Doing
    <3>3. Delivered(w)' = Delivered(w)
      BY <3>2 DEF Delivered
    <3>4. ProgressOK(w)'
      BY <2>1, <2>2, <3>2, <3>3 DEF ProgressOK, At, JobPCs
    <3> QED
      BY <2>1, <2>2, <3>1, <3>3, <3>4, JobKept DEF JobPCs
  <2> QED
    BY <2>3, <2>4
<1>14. ASSUME NEW w \in Workers, MarkDelivered(w) PROVE Inv'
  <2>1. task[w].pc = "ledger" /\ ProgressOK(w)
    BY <1>14 DEF MarkDelivered, At, Inv
  <2>2. /\ task'[w].pc = "complete" /\ task'[w].e = task[w].e /\ task'[w].n = task[w].n
        /\ \A v \in Workers \ {w} : task'[v] = task[v]
    BY <1>14, <2>1, GotoPC DEF MarkDelivered
  <2>3. Calm({Delivered(w)}) /\ Published' = Published /\ job' = job
    BY <1>14 DEF MarkDelivered, inbound, notification, Calm, Published
  <2>4. Delivered(w)' = Delivered(w)
    BY <2>2 DEF Delivered
  <2>5. ProgressOK(w)'
    BY <2>1, <2>2, <2>3, <2>4 DEF ProgressOK, At, JobPCs
  <2>6. IsFanOut(w) => Served(task[w].e)
    BY <2>1 DEF ProgressOK, At
  <2> QED
    BY <2>1, <2>2, <2>3, <2>4, <2>5, <2>6, JobKept DEF JobPCs
<1>15. ASSUME NEW w \in Workers, CompleteJob(w) PROVE Inv'
  <2>1. task[w].pc = "complete" /\ Delivered(w) \in Delivering
    BY <1>15, Busy DEF CompleteJob, At, JobPCs, Types
  <2>2. task'[w] = Idle /\ \A v \in Workers \ {w} : task'[v] = task[v]
    BY <1>15, GotoMoves DEF CompleteJob
  <2>3. Calm({Delivered(w)})
    BY <1>15, <2>1, EndsCalm DEF CompleteJob, notification
  <2>4. Published' = Published /\ ledger' = ledger
    BY <1>15 DEF CompleteJob, inbound, Published
  <2>5. ProgressOK(w)' /\ task'[w].pc \notin JobPCs
    BY <2>2 DEF ProgressOK, At, JobPCs, Idle
  <2> QED
    BY <2>1, <2>2, <2>3, <2>4, <2>5, JobKept DEF JobPCs
<1>16. ASSUME NEW w \in Workers, NEW c \in Channels, CreateDelivery(w, c) PROVE Inv'
  <2>1. task[w].pc = "create" /\ ProgressOK(w) /\ task[w] \in Task
    BY <1>16, Busy DEF CreateDelivery, At, Inv, Types
  <2>2. /\ Calm({Delivered(w)}) /\ Published' = Published /\ job' = job /\ ledger' = ledger
        /\ active' = active /\ delivery' = delivery \cup {<<task[w].e, c>>}
    BY <1>16 DEF CreateDelivery, inbound, Calm, Published
  <2>3. CASE task[w].todo = {c}
    <3>0. Become(w, Doing("ledger", task[w].e, task[w].n, {}))
      BY <1>16, <2>1, <2>3, TaskUpdates DEF CreateDelivery
    <3>1. /\ task'[w] = Doing("ledger", task[w].e, task[w].n, {})
          /\ \A v \in Workers \ {w} : task'[v] = task[v]
      BY <3>0, GotoMoves
    <3>2. task'[w].pc = "ledger" /\ task'[w].e = task[w].e /\ task'[w].n = task[w].n
      BY <3>1 DEF Doing
    <3>3. Delivered(w)' = Delivered(w)
      BY <3>2 DEF Delivered
    <3>4. ProgressOK(w)'
      BY <2>1, <2>2, <2>3, <3>2, <3>3 DEF ProgressOK, At, JobPCs, Served
    <3> QED
      BY <2>1, <2>2, <3>1, <3>3, <3>4, JobKept DEF JobPCs
  <2>4. CASE task[w].todo # {c}
    <3> DEFINE rest == task[w].todo \ {c}
    <3>0. [task[w] EXCEPT !.todo = rest] = Doing("create", task[w].e, task[w].n, rest)
      BY <2>1 DEF Task, Doing
    <3>1. /\ task'[w] = Doing("create", task[w].e, task[w].n, rest)
          /\ \A v \in Workers \ {w} : task'[v] = task[v]
      BY <1>16, <2>4, <3>0, GotoMoves DEF CreateDelivery
    <3>2. /\ task'[w].pc = "create" /\ task'[w].e = task[w].e /\ task'[w].n = task[w].n
          /\ task'[w].todo = rest
      BY <3>1 DEF Doing
    <3>3. Delivered(w)' = Delivered(w)
      BY <3>2 DEF Delivered
    <3>4. ProgressOK(w)'
      BY <2>1, <2>2, <3>2, <3>3 DEF ProgressOK, At, JobPCs
    <3> QED
      BY <2>1, <2>2, <3>1, <3>3, <3>4, JobKept DEF JobPCs
  <2> QED
    BY <2>3, <2>4
<1>17. ASSUME NEW w \in Workers, Republish(w) PROVE Inv'
  <2>1. task'[w].pc \notin JobPCs \cup {"enqueue", "mark"} /\ \A v \in Workers \ {w} : task'[v] = task[v]
    BY <1>17, GotoMoves DEF Republish, Doing, JobPCs
  <2> QED
    BY <1>17, <2>1, QuietKept DEF Republish, inbound, bus, notification, Published
<1>18. ASSUME NEW w \in Workers, NEW r \in Receipts, Ingest(w, r) PROVE Inv'
  <2>1. task' = task \/ Become(w, Doing("insert", r, 0, {}))
    BY <1>18 DEF Ingest
  <2>2. /\ task'[w] = task[w] \/ task'[w].pc \notin JobPCs \cup {"enqueue", "mark"}
        /\ \A v \in Workers \ {w} : task'[v] = task[v]
    BY <2>1, GotoMoves DEF Doing, JobPCs
  <2> QED
    BY <1>18, <2>2, QuietKept DEF Ingest, bus, notification, Published
<1>19. ASSUME NEW w \in Workers, NEW e \in Facts, PublishFact(w, e) PROVE Inv'
  <2>1. task'[w].pc \notin JobPCs \cup {"enqueue", "mark"} /\ \A v \in Workers \ {w} : task'[v] = task[v]
    BY <1>19, GotoMoves DEF PublishFact, Doing, JobPCs
  <2> QED
    BY <1>19, <2>1, QuietKept DEF PublishFact, bus, notification, Published
<1>20. ASSUME NEW w \in Workers, NEW d \in Delivering, RunDelivery(w, d) PROVE Inv'
  <2>1. task'[w] = Doing("find", d[1], d[2], {}) /\ \A v \in Workers \ {w} : task'[v] = task[v]
    BY <1>20, GotoMoves DEF RunDelivery
  <2>2. task'[w].pc = "find" /\ Delivered(w)' = d
    BY <2>1, DeliveringPairs DEF Doing, Delivered
  <2>3. job'[d].st = "running" /\ \A x \in Delivering \ {d} : job'[x] = job[x]
    <3>1. job \in [Delivering -> [st : JobStates, tries : 0..MaxAttempts]]
      BY DEF Types, JobsOK
    <3> QED
      BY <1>20, <3>1 DEF RunDelivery
  <2>4. Calm({d}) /\ Published' = Published /\ ledger' = ledger
    BY <1>20, <2>3 DEF RunDelivery, inbound, notification, Calm, Published
  <2>5. ProgressOK(w)'
    BY <2>2, <2>3 DEF ProgressOK, At, JobPCs
  <2>6. \A v \in Workers \ {w} : task[v].pc \in JobPCs => Delivered(v) \notin {d}
    BY <1>20 DEF RunDelivery, Inv, ProgressOK
  <2>7. PublishedFannedOut'
    BY <2>4, PublishedKept DEF Inv
  <2>8. \A x \in {d} \cap ledger' : SubscribersOf[x[1]][x[2]] = FanOut => Served(x[1])
    BY <2>4 DEF Inv, FanOutComplete, Served
  <2> QED
    BY <2>1, <2>2, <2>4, <2>5, <2>6, <2>7, <2>8, OneMoves
<1>21. ASSUME NEW w \in Workers, PublishThrows(w) PROVE Inv'
  <2>1. task[w].pc # "idle" /\ (Goto(w, "count") \/ Become(w, Idle))
    BY <1>21 DEF PublishThrows
  <2>2. task'[w].pc \notin JobPCs \cup {"enqueue", "mark"} /\ \A v \in Workers \ {w} : task'[v] = task[v]
    BY <2>1, GotoMoves, GotoPC DEF Idle, JobPCs
  <2> QED
    BY <1>21, <2>2, QuietKept DEF PublishThrows, inbound, bus, notification, Published
<1>22. ASSUME NEW w \in Workers, RecordingThrows(w) PROVE Inv'
  <2>1. task'[w].pc \notin JobPCs \cup {"enqueue", "mark"} /\ \A v \in Workers \ {w} : task'[v] = task[v]
    BY <1>22, NextReceiptQuiet DEF RecordingThrows
  <2> QED
    BY <1>22, <2>1, QuietKept DEF RecordingThrows, inbound, bus, notification, Published
<1>23. ASSUME NEW w \in Workers, DeliverThrows(w) PROVE Inv'
  <2>1. task[w].pc \in JobPCs /\ Delivered(w) \in Delivering
    BY <1>23, Busy DEF DeliverThrows, JobPCs, Types
  <2>2. task'[w] = Idle /\ \A v \in Workers \ {w} : task'[v] = task[v]
    BY <1>23, GotoMoves DEF DeliverThrows
  <2>3. Calm({Delivered(w)})
    BY <1>23, <2>1, EndsCalm, RetriedType DEF DeliverThrows, notification, Types
  <2>4. Published' = Published /\ ledger' = ledger
    BY <1>23 DEF DeliverThrows, inbound, Published
  <2>5. ProgressOK(w)' /\ task'[w].pc \notin JobPCs
    BY <2>2 DEF ProgressOK, At, JobPCs, Idle
  <2> QED
    BY <2>1, <2>2, <2>3, <2>4, <2>5, JobKept
<1>24. ASSUME NEW w \in Workers, Kill(w) PROVE Inv'
  <2>1. task'[w].pc \notin JobPCs \cup {"enqueue", "mark"} /\ \A v \in Workers \ {w} : task'[v] = task[v]
    BY <1>24, GotoMoves DEF Kill, Idle, JobPCs
  <2> QED
    BY <1>24, <2>1, QuietKept DEF Kill, inbound, bus, notification, Published
<1>25. ASSUME NEW d \in Delivering, Reclaim(d) PROVE Inv'
  <2>1. Calm({d})
    BY <1>25, EndsCalm, RetriedType DEF Reclaim, notification, Types
  <2>2. Published' = Published /\ ledger' = ledger /\ task' = task
    BY <1>25 DEF Reclaim, inbound, Published
  <2>3. \A v \in Workers : task[v].pc \in JobPCs => Delivered(v) \notin {d}
    BY <1>25 DEF Reclaim
  <2>4. \A v \in Workers : ProgressOK(v)'
    BY <2>1, <2>2, <2>3, OtherKept DEF Inv
  <2>5. PublishedFannedOut'
    BY <2>1, <2>2, PublishedKept DEF Inv
  <2>6. FanOutComplete'
    BY <1>25, <2>2 DEF Reclaim, notification, Inv, FanOutComplete
  <2>7. Exclusive'
    BY <2>2 DEF Inv, Exclusive, Delivered
  <2> QED
    BY <2>4, <2>5, <2>6, <2>7 DEF Inv
<1>26. CASE (\E r \in Receipts : Elapse(r)) \/ (\E c \in Channels : DisableChannel(c)) \/ UNCHANGED vars
  <2>1. /\ task' = task /\ job' = job /\ ledger' = ledger /\ active' \subseteq active
        /\ delivery' = delivery /\ receipt' = receipt
    BY <1>26 DEF Elapse, DisableChannel, vars, inbound, bus, notification
  <2>2. Calm({}) /\ Published' = Published
    BY <2>1 DEF Calm, Published
  <2>3. \A v \in Workers : ProgressOK(v)'
    BY <2>1, <2>2, OtherKept DEF Inv
  <2>4. PublishedFannedOut' /\ FanOutComplete'
    BY <2>2, PublishedKept, LedgerKept DEF Inv
  <2>5. Exclusive'
    BY <2>1 DEF Inv, Exclusive, Delivered
  <2> QED
    BY <2>3, <2>4, <2>5 DEF Inv
<1> QED
  BY <1>1, <1>2, <1>3, <1>4, <1>5, <1>6, <1>7, <1>8, <1>9, <1>10, <1>11, <1>12, <1>13, <1>14,
     <1>15, <1>16, <1>17, <1>18, <1>19, <1>20, <1>21, <1>22, <1>23, <1>24, <1>25, <1>26
     DEF Next, WorkerStep

\* Nothing is published, run or entered in the ledger in the first state.
LEMMA InvInit == Init => Inv
  BY DEF Init, Inv, ProgressOK, At, JobPCs, Idle, Exclusive, PublishedFannedOut, Published, FanOutComplete

\* Types and Inv always hold.
LEMMA InvAlways == Spec => [](Types /\ Inv)
<1>1. Init => Types /\ Inv
  BY TypesInit, InvInit
<1>2. Types /\ Inv /\ [Next]_vars => (Types /\ Inv)'
  BY TypesStep, InvStep
<1> QED
  BY <1>1, <1>2, PTL DEF Spec

\* No receipt is marked published (markPublished) before every subscriber of its event
\* has had its events.deliver job, whichever of several publishes marks it and wherever
\* the others were killed.
THEOREM FanOutBeforeMark == Spec => []PublishedFannedOut
<1>1. Types /\ Inv => PublishedFannedOut
  BY DEF Inv
<1> QED
  BY <1>1, InvAlways, PTL

\* Once the ledger (markDelivered) has the fan-out's entry for an event, every channel
\* that asked for it and was never disabled has its delivery.
THEOREM LedgerIsServed == Spec => []FanOutComplete
<1>1. Types /\ Inv => FanOutComplete
  BY DEF Inv
<1> QED
  BY <1>1, InvAlways, PTL

\* EventBus.deliver never calls a subscriber for an event the ledger has it down for.
THEOREM LedgerStopsRepeats == Spec => HandledOnce
<1>1. Types /\ Inv /\ [Next]_vars => [\A d \in Delivering : handled'[d] # handled[d] => d \notin ledger]_vars
  <2> SUFFICES ASSUME Types, Inv, Next, NEW d \in Delivering, handled'[d] # handled[d]
               PROVE  d \notin ledger
    OBVIOUS
  <2>1. PICK w \in Workers : HandleOther(w) \/ FindTargets(w) \/ \E c \in Channels : CreateDelivery(w, c)
    <3>1. handled' # handled
      OBVIOUS
    <3> QED
      BY <3>1 DEF Next, WorkerStep, bus, notification, InsertReceipt, CheckQuota, DropOverQuota,
                  InsertEvent, DropUnparseable, EnqueueDelivery, MarkPublished, CountFailure, GiveUp,
                  RepublishNext, FindEvent, MarkDelivered, CompleteJob, Republish, Ingest, PublishFact,
                  RunDelivery, PublishThrows, RecordingThrows, DeliverThrows, Kill, Reclaim, Elapse,
                  DisableChannel
  <2>2. task[w].pc \in {"handle", "create"} /\ (handled' = handled \/ HandledAgain(Delivered(w)))
    BY <2>1 DEF HandleOther, FindTargets, CreateDelivery, At
  <2>3. d = Delivered(w)
    BY <2>2 DEF HandledAgain, Types, Rows
  <2> QED
    BY <2>2, <2>3 DEF Inv, ProgressOK
<1> QED
  BY <1>1, InvAlways, PTL DEF Spec, HandledOnce

-----------------------------------------------------------------------------
(* The ceiling                                                             *)

\* The workers that have passed the ceiling and not inserted yet.
Inserting == {w \in Workers : At(w, "insert")}

\* Each of them may still add one receipt.
CeilingInv ==
    Cardinality(Recorded) + Cardinality(Inserting) <= HardLimit + Cardinality(Workers) - 1

\* Receipts and workers are finite, so their parts can be counted.
LEMMA Countable ==
    ASSUME NEW R \in SUBSET Receipts, NEW W \in SUBSET Workers
    PROVE  /\ IsFiniteSet(R) /\ Cardinality(R) \in Nat
           /\ IsFiniteSet(W) /\ Cardinality(W) \in Nat
           /\ Cardinality(Workers) \in Nat /\ Cardinality(W) <= Cardinality(Workers)
<1>1. IsFiniteSet(Receipts) /\ IsFiniteSet(Workers)
  BY RelayAssumption
<1>2. IsFiniteSet(R) /\ IsFiniteSet(W) /\ Cardinality(W) <= Cardinality(Workers)
  BY <1>1, FS_Subset
<1> QED
  BY <1>1, <1>2, FS_CardinalityType

\* The write of an outcome records no receipt that was not recorded.
LEMMA SettleRecords ==
    ASSUME Types, NEW r \in Receipts, NEW o \in Outcomes \ {"none"}, SettleIfPending(r, o)
    PROVE  Recorded' = Recorded
  BY DEF Types, Rows, SettleIfPending, Recorded

\* Only an ingest passes the ceiling, and only an insert records.
LEMMA Records ==
    ASSUME Types, [Next]_vars
    PROVE  \/ \E w \in Workers : InsertReceipt(w)
           \/ \E w \in Workers, r \in Receipts : Ingest(w, r)
           \/ Recorded' = Recorded /\ Inserting' \subseteq Inserting
<1> DEFINE Same == Recorded' = Recorded /\ Inserting' \subseteq Inserting
<1>1. ASSUME NEW w \in Workers, \A v \in Workers \ {w} : task'[v] = task[v], task'[w].pc # "insert"
      PROVE  Inserting' \subseteq Inserting
  BY <1>1 DEF Inserting, At
<1>2. ASSUME NEW w \in Workers, NEW t, Become(w, t), t.pc # "insert"
      PROVE  Inserting' \subseteq Inserting
  BY <1>1, <1>2, GotoMoves
<1>3. ASSUME NEW w \in Workers, NEW pc, task[w].pc # "idle", Goto(w, pc), pc # "insert"
      PROVE  Inserting' \subseteq Inserting
  BY <1>1, <1>3, GotoPC
<1>4. ASSUME NEW w \in Workers, task[w].pc # "idle", NextReceipt(w) PROVE Inserting' \subseteq Inserting
  BY <1>2, <1>3, <1>4 DEF NextReceipt, Idle
<1>5. ASSUME receipt' = receipt PROVE Recorded' = Recorded
  BY <1>5 DEF Recorded
<1>6. ASSUME NEW w \in Workers, task[w].pc # "idle", NEW n, FanOutFrom(w, n)
      PROVE  Inserting' \subseteq Inserting
  <2>1. task[w] \in Task
    BY <1>6, Busy DEF Types
  <2>2. [task[w] EXCEPT !.pc = "enqueue", !.n = n] = Doing("enqueue", task[w].e, n, task[w].todo)
    BY <2>1, TaskUpdates
  <2> QED
    BY <1>2, <1>3, <1>6, <2>2 DEF FanOutFrom, Idle, Doing
<1>7. ASSUME NEW w \in Workers, DropOverQuota(w) \/ DropUnparseable(w) \/ MarkPublished(w) \/ GiveUp(w)
      PROVE  Same
  <2>1. task[w].pc # "idle" /\ task[w].e \in Receipts
    BY <1>7, Busy, RelayAssumption DEF DropOverQuota, DropUnparseable, MarkPublished, GiveUp, At, ReceiptPCs, Types
  <2>2. Recorded' = Recorded
    BY <1>7, <2>1, SettleRecords DEF DropOverQuota, DropUnparseable, MarkPublished, GiveUp, Outcomes
  <2>3. Inserting' \subseteq Inserting
    BY <1>7, <2>1, <1>2, <1>4 DEF DropOverQuota, DropUnparseable, MarkPublished, GiveUp, Idle
  <2> QED
    BY <2>2, <2>3
<1>8. ASSUME NEW w \in Workers,
             CheckQuota(w) \/ CountFailure(w) \/ FindEvent(w) \/ HandleOther(w) \/ MarkDelivered(w)
      PROVE  Same
  <2>1. task[w].pc # "idle" /\ receipt' = receipt
    BY <1>8 DEF CheckQuota, CountFailure, FindEvent, HandleOther, MarkDelivered, At, inbound
  <2>2. NextReceipt(w) \/ \E pc \in PCs \ {"insert"} : Goto(w, pc)
    BY <1>8 DEF CheckQuota, CountFailure, FindEvent, HandleOther, MarkDelivered, PCs
  <2> QED
    BY <2>1, <2>2, <1>3, <1>4, <1>5
<1>9. ASSUME NEW w \in Workers, InsertEvent(w) \/ EnqueueDelivery(w) PROVE Same
  <2>1. task[w].pc # "idle" /\ receipt' = receipt /\ \E n : FanOutFrom(w, n)
    BY <1>9 DEF InsertEvent, EnqueueDelivery, At, inbound
  <2> QED
    BY <2>1, <1>5, <1>6
<1>10. ASSUME NEW w \in Workers,
              \/ \E r \in Receipts : RepublishNext(w, r)
              \/ \E e \in Facts : PublishFact(w, e)
              \/ \E d \in Delivering : RunDelivery(w, d)
              \/ CompleteJob(w) \/ Republish(w) \/ DeliverThrows(w) \/ Kill(w)
       PROVE  Same
  <2>1. receipt' = receipt
    BY <1>10 DEF RepublishNext, PublishFact, RunDelivery, CompleteJob, Republish, DeliverThrows, Kill, inbound
  <2>2. \/ Become(w, Idle)
        \/ \E e, todo : Become(w, Doing("publish", e, 0, todo))
        \/ \E d \in Delivering : Become(w, Doing("find", d[1], d[2], {}))
    BY <1>10 DEF RepublishNext, PublishFact, RunDelivery, CompleteJob, Republish, DeliverThrows, Kill
  <2>3. Inserting' \subseteq Inserting
    BY <2>2, <1>2 DEF Idle, Doing
  <2> QED
    BY <2>1, <2>3, <1>5
<1>11. ASSUME NEW w \in Workers, PublishThrows(w) \/ RecordingThrows(w) PROVE Same
  <2>1. /\ task[w].pc # "idle" /\ receipt' = receipt
        /\ Goto(w, "count") \/ Become(w, Idle) \/ NextReceipt(w)
    BY <1>11 DEF PublishThrows, RecordingThrows, inbound
  <2>2. Inserting' \subseteq Inserting
    BY <2>1, <1>2, <1>3, <1>4 DEF Idle
  <2> QED
    BY <2>1, <2>2, <1>5
<1>12. ASSUME NEW w \in Workers, FindTargets(w) \/ \E c \in Channels : CreateDelivery(w, c) PROVE Same
  <2>1. task[w].pc \in {"handle", "create"} /\ receipt' = receipt /\ task[w] \in Task
    BY <1>12, Busy DEF FindTargets, CreateDelivery, At, inbound, Types
  <2>2. \A todo : /\ [task[w] EXCEPT !.pc = "create", !.todo = todo].pc = "create"
                  /\ [task[w] EXCEPT !.pc = "ledger", !.todo = todo].pc = "ledger"
                  /\ [task[w] EXCEPT !.todo = todo].pc = task[w].pc
    BY <2>1 DEF Task
  <2>3. Goto(w, "ledger") \/ \E t : Become(w, t) /\ t.pc # "insert"
    <3>1. CASE FindTargets(w)
      BY <2>2, <3>1, Zenon DEF FindTargets
    <3>2. ASSUME NEW c \in Channels, CreateDelivery(w, c) PROVE \E t : Become(w, t) /\ t.pc # "insert"
      <4>1. \/ Become(w, [task[w] EXCEPT !.pc = "ledger", !.todo = {}])
            \/ Become(w, [task[w] EXCEPT !.todo = @ \ {c}])
        BY <3>2 DEF CreateDelivery
      <4>2. /\ [task[w] EXCEPT !.pc = "ledger", !.todo = {}].pc # "insert"
            /\ [task[w] EXCEPT !.todo = @ \ {c}].pc # "insert"
        BY <2>1, <2>2
      <4> QED
        BY <4>1, <4>2, Zenon
    <3> QED
      BY <1>12, <3>1, <3>2
  <2>4. Inserting' \subseteq Inserting
    BY <2>1, <2>3, <1>2, <1>3
  <2> QED
    BY <2>1, <2>4, <1>5
<1>13. ASSUME \/ \E d \in Delivering : Reclaim(d)
              \/ \E r \in Receipts : Elapse(r)
              \/ \E c \in Channels : DisableChannel(c)
              \/ UNCHANGED vars
       PROVE  Same
  BY <1>5, <1>13 DEF Reclaim, Elapse, DisableChannel, vars, inbound, Inserting, At
<1> HIDE DEF Same
<1>14. Next => \/ \E w \in Workers : InsertReceipt(w)
               \/ \E w \in Workers, r \in Receipts : Ingest(w, r)
               \/ Same
  BY <1>7, <1>8, <1>9, <1>10, <1>11, <1>12, <1>13 DEF Next, WorkerStep
<1> QED
  BY <1>13, <1>14 DEF Same

\* The ceiling check and the inserts that follow it keep CeilingInv.
LEMMA CeilingStep == Types /\ CeilingInv /\ [Next]_vars => CeilingInv'
<1> SUFFICES ASSUME Types, CeilingInv, [Next]_vars PROVE CeilingInv'
  OBVIOUS
<1> DEFINE R == Recorded
           I == Inserting
           n == Cardinality(Workers)
<1>0. /\ R \in SUBSET Receipts /\ R' \in SUBSET Receipts
      /\ I \in SUBSET Workers /\ I' \in SUBSET Workers
  BY DEF Recorded, Inserting
<1>1. /\ IsFiniteSet(R) /\ IsFiniteSet(R') /\ IsFiniteSet(I) /\ IsFiniteSet(I')
      /\ {Cardinality(R), Cardinality(R'), Cardinality(I), Cardinality(I'), n} \subseteq Nat
      /\ Cardinality(I') <= n /\ HardLimit \in Nat
  BY <1>0, Countable, RelayAssumption
<1>2. Cardinality(R) + Cardinality(I) <= HardLimit + n - 1
  BY DEF CeilingInv
<1>3. ASSUME NEW w \in Workers, InsertReceipt(w)
      PROVE  Cardinality(R') + Cardinality(I') <= HardLimit + n - 1
  <2>1. task[w].pc = "insert" /\ task[w].e \in Receipts
    BY <1>3, Busy DEF InsertReceipt, At, ReceiptPCs, Types
  <2>2. R' \subseteq R \cup {task[w].e}
    BY <1>3, <2>1 DEF InsertReceipt, Recorded, Types, Rows
  <2>3. Become(w, Idle) \/ Goto(w, "quota")
    BY <1>3 DEF InsertReceipt
  <2>4. task'[w].pc # "insert" /\ \A v \in Workers \ {w} : task'[v] = task[v]
    BY <2>1, <2>3, GotoMoves, GotoPC DEF Idle
  <2>5. I' = I \ {w} /\ w \in I
    BY <2>1, <2>4 DEF Inserting, At
  <2> HIDE DEF R, I, n
  <2>6. Cardinality(I') = Cardinality(I) - 1
    BY <1>1, <2>5, FS_RemoveElement
  <2>7. /\ IsFiniteSet(R \cup {task[w].e})
        /\ Cardinality(R \cup {task[w].e}) = IF task[w].e \in R THEN Cardinality(R) ELSE Cardinality(R) + 1
    BY <1>1, FS_AddElement
  <2>8. Cardinality(R') <= Cardinality(R \cup {task[w].e})
    BY <2>2, <2>7, FS_Subset
  <2> QED
    BY <1>1, <1>2, <2>6, <2>7, <2>8
<1>4. ASSUME NEW w \in Workers, NEW r \in Receipts, Ingest(w, r)
      PROVE  Cardinality(R') + Cardinality(I') <= HardLimit + n - 1
  <2>1. R' = R
    BY <1>4 DEF Ingest, Recorded
  <2>2. Cardinality(R) < HardLimit \/ I' = I
    BY <1>1, <1>4 DEF Ingest, Inserting, At
  <2> HIDE DEF R, I, n
  <2> QED
    BY <1>1, <1>2, <2>1, <2>2
<1>5. ASSUME R' = R, I' \subseteq I
      PROVE  Cardinality(R') + Cardinality(I') <= HardLimit + n - 1
  <2> HIDE DEF R, I, n
  <2>1. Cardinality(I') <= Cardinality(I)
    BY <1>1, <1>5, FS_Subset
  <2> QED
    BY <1>1, <1>2, <1>5, <2>1
<1> QED
  BY <1>3, <1>4, <1>5, Records DEF CeilingInv

\* Requests that pass the hard ceiling of ingest together, before any of them has
\* inserted its receipt, exceed it by at most one each.
THEOREM CeilingBound ==
    ASSUME Workers # {}
    PROVE  Spec => []CeilingHolds
<1>1. Init => CeilingInv
  <2> SUFFICES ASSUME Init PROVE CeilingInv
    OBVIOUS
  <2>1. Recorded = {} /\ Inserting = {}
    BY DEF Init, Recorded, Inserting, At, Idle
  <2>2. IsFiniteSet(Workers) /\ HardLimit \in Nat
    BY RelayAssumption
  <2>3. Cardinality(Workers) \in Nat /\ Cardinality(Workers) # 0 /\ Cardinality({}) = 0
    BY <2>2, FS_EmptySet, FS_CardinalityType
  <2> QED
    BY <2>1, <2>2, <2>3 DEF CeilingInv
<1>2. CeilingInv => CeilingHolds
  <2>1. Recorded \in SUBSET Receipts /\ Inserting \in SUBSET Workers
    BY DEF Recorded, Inserting
  <2> QED
    BY <2>1, Countable, RelayAssumption DEF CeilingInv, CeilingHolds
<1> QED
  BY <1>1, <1>2, TypesAlways, CeilingStep, PTL DEF Spec

-----------------------------------------------------------------------------
(* The contract of the job queue                                           *)

\* A step that changes the state of one job, or none, changes what stands there only.
LEMMA JobMoves ==
    ASSUME NEW d \in Delivering, NEW s \in {"absent", "queued", "running"},
           \A x \in Delivering \ {d} : job'[x].st = job[x].st,
           s = (IF Live(d)' THEN job'[d].st ELSE "absent")
    PROVE  Standing' = [Standing EXCEPT ![d] = s]
<1>1. \A x \in Delivering : Standing'[x] = IF x = d THEN s ELSE Standing[x]
  BY DEF Standing, Live
<1>2. DOMAIN Standing = Delivering /\ Standing' = [x \in Delivering |-> Standing'[x]]
  BY DEF Standing
<1> QED
  BY <1>1, <1>2

\* Jobs that stay as they are stand as they did.
LEMMA JobsStay ==
    ASSUME job' = job
    PROVE  Standing' = Standing
  BY DEF Standing, Live

\* A worker that runs no job before and after its step changes nothing of who runs what,
\* nor does one that goes on with its job.
LEMMA BusyStays ==
    ASSUME NEW w \in Workers, \A v \in Workers \ {w} : task'[v] = task[v],
           task'[w].pc \in JobPCs <=> task[w].pc \in JobPCs,
           task[w].pc \in JobPCs => Delivered(w)' = Delivered(w)
    PROVE  BusyWith' = BusyWith
<1>1. \A v \in Workers \ {w} : Delivered(v)' = Delivered(v)
  BY DEF Delivered
<1>2. ASSUME NEW v \in Workers
      PROVE  /\ task'[v].pc \in JobPCs <=> task[v].pc \in JobPCs
             /\ task[v].pc \in JobPCs => Delivered(v)' = Delivered(v)
  BY <1>1
<1> QED
  BY <1>2 DEF BusyWith

\* A worker takes up a job.
LEMMA BusyStarts ==
    ASSUME NEW w \in Workers, \A v \in Workers \ {w} : task'[v] = task[v],
           task[w].pc \notin JobPCs, task'[w].pc \in JobPCs,
           NEW d \in Delivering, Delivered(w)' = d
    PROVE  BusyWith' = BusyWith \cup {d}
<1>1. \A v \in Workers \ {w} : Delivered(v)' = Delivered(v) /\ task'[v].pc = task[v].pc
  BY DEF Delivered
<1> QED
  BY <1>1 DEF BusyWith

\* A worker leaves its job, which nobody else runs.
LEMMA BusyEnds ==
    ASSUME Types, Inv, NEW w \in Workers, \A v \in Workers \ {w} : task'[v] = task[v],
           task[w].pc \in JobPCs, task'[w].pc \notin JobPCs
    PROVE  /\ BusyWith' = BusyWith \ {Delivered(w)}
           /\ Delivered(w) \in Delivering /\ Delivered(w) \in BusyWith
           /\ job[Delivered(w)].st = "running" /\ Standing[Delivered(w)] = "running"
<1>1. \A v \in Workers \ {w} : Delivered(v)' = Delivered(v) /\ task'[v].pc = task[v].pc
  BY DEF Delivered
<1>2. \A v \in Workers \ {w} : task[v].pc \in JobPCs => Delivered(v) # Delivered(w)
  BY DEF Inv, Exclusive
<1>3. Delivered(w) \in Delivering
  BY Busy DEF Types, JobPCs
<1>4. job[Delivered(w)].st = "running"
  BY DEF Inv, ProgressOK
<1>5. BusyWith' = BusyWith \ {Delivered(w)}
  BY <1>1, <1>2 DEF BusyWith
<1> QED
  BY <1>3, <1>4, <1>5 DEF BusyWith, Standing, Live

\* The stutter of the contract.
LEMMA Unseen ==
    ASSUME NEW w \in Workers, job' = job, \A v \in Workers \ {w} : task'[v] = task[v],
           task'[w].pc \in JobPCs <=> task[w].pc \in JobPCs,
           task[w].pc \in JobPCs => Delivered(w)' = Delivered(w)
    PROVE  [E!Next]_(E!contractVars)
  BY JobsStay, BusyStays DEF E!contractVars

\* A run that returns or throws ends its own job.
LEMMA RunEnds ==
    ASSUME Types, Inv, NEW w \in Workers, task[w].pc \in JobPCs, NEW st \in JobStates \ {"running"},
           JobEnds(Delivered(w), st), Become(w, Idle)
    PROVE  [E!Next]_(E!contractVars)
<1>1. task'[w].pc \notin JobPCs /\ \A v \in Workers \ {w} : task'[v] = task[v]
  BY GotoMoves DEF Idle, JobPCs
<1>2. PICK d \in Delivering : d = Delivered(w)
  BY <1>1, BusyEnds
<1>3. BusyWith' = BusyWith \ {d} /\ d \in BusyWith /\ Standing[d] = "running"
  BY <1>1, <1>2, BusyEnds
<1>4. job'[d].st = st /\ \A x \in Delivering \ {d} : job'[x].st = job[x].st
  BY <1>2 DEF JobEnds, Types, JobsOK
<1>5. CASE st = "queued"
  <2>1. Standing' = [Standing EXCEPT ![d] = "queued"]
    BY <1>4, <1>5, JobMoves DEF Live
  <2> QED
    BY <1>3, <2>1 DEF E!Next, E!End
<1>6. CASE st # "queued"
  <2>1. Standing' = [Standing EXCEPT ![d] = "absent"]
    BY <1>4, <1>6, JobMoves DEF Live, JobStates
  <2> QED
    BY <1>3, <2>1 DEF E!Next, E!End
<1> QED
  BY <1>5, <1>6

\* A fan-out that goes on, or ends, runs no job.
LEMMA FanOutMoves ==
    ASSUME Types, NEW w \in Workers, task[w].pc \in {"publish", "enqueue"}, NEW k \in Nat \ {0},
           FanOutFrom(w, k)
    PROVE  task'[w].pc \notin JobPCs /\ \A v \in Workers \ {w} : task'[v] = task[v]
<1>1. task[w] \in Task /\ task[w].pc # "idle"
  BY Busy DEF Types
<1>2. CASE Become(w, [task[w] EXCEPT !.pc = "enqueue", !.n = k])
  <2>1. Become(w, Doing("enqueue", task[w].e, k, task[w].todo))
    BY <1>1, <1>2, TaskUpdates
  <2> QED
    BY <2>1, GotoMoves DEF Doing, JobPCs
<1>3. CASE Become(w, Idle)
  BY <1>3, GotoMoves DEF Idle, JobPCs
<1>4. CASE Goto(w, "mark")
  BY <1>1, <1>4, GotoPC DEF JobPCs
<1> QED
  BY <1>2, <1>3, <1>4 DEF FanOutFrom

\* Every step of a worker that is not about a job.
LEMMA AsidePublishing ==
    ASSUME Types, NEW w \in Workers,
           \/ InsertReceipt(w) \/ CheckQuota(w) \/ DropOverQuota(w) \/ InsertEvent(w)
           \/ DropUnparseable(w) \/ MarkPublished(w) \/ CountFailure(w) \/ GiveUp(w)
           \/ \E r \in Receipts : RepublishNext(w, r) \/ Ingest(w, r)
           \/ Republish(w) \/ PublishThrows(w) \/ RecordingThrows(w)
           \/ \E e \in Facts : PublishFact(w, e)
    PROVE  [E!Next]_(E!contractVars)
<1>1. job' = job /\ task[w].pc \notin JobPCs
  BY DEF InsertReceipt, CheckQuota, DropOverQuota, InsertEvent, DropUnparseable, MarkPublished,
         CountFailure, GiveUp, RepublishNext, Ingest, Republish, PublishThrows, RecordingThrows,
         PublishFact, bus, At, JobPCs
<1>2. \/ task' = task
      \/ Become(w, Idle)
      \/ task[w].pc # "idle" /\ NextReceipt(w)
      \/ task[w].pc # "idle" /\ \E pc \in PCs \ JobPCs : Goto(w, pc)
      \/ \E pc \in PCs \ JobPCs : \E e, todo : Become(w, Doing(pc, e, 0, todo))
      \/ task[w].pc = "publish" /\ FanOutFrom(w, 1)
  <2>1. {"insert", "quota", "drop", "publish", "mark", "count", "giveup"} \subseteq PCs \ JobPCs
    BY DEF PCs, JobPCs
  <2>2. CASE InsertReceipt(w)
    BY <2>1, <2>2 DEF InsertReceipt, At
  <2>3. CASE CheckQuota(w)
    BY <2>1, <2>3 DEF CheckQuota, At
  <2>4. CASE CountFailure(w)
    BY <2>1, <2>4 DEF CountFailure, At
  <2>5. CASE PublishThrows(w)
    BY <2>1, <2>5 DEF PublishThrows
  <2>6. CASE Republish(w)
    BY <2>1, <2>6 DEF Republish
  <2>7. CASE \E r \in Receipts : RepublishNext(w, r) \/ Ingest(w, r)
    BY <2>1, <2>7 DEF RepublishNext, Ingest
  <2>8. CASE \E e \in Facts : PublishFact(w, e)
    BY <2>1, <2>8 DEF PublishFact
  <2>9. CASE DropOverQuota(w) \/ InsertEvent(w) \/ DropUnparseable(w) \/ MarkPublished(w) \/ GiveUp(w)
             \/ RecordingThrows(w)
    BY <2>9 DEF DropOverQuota, InsertEvent, DropUnparseable, MarkPublished, GiveUp, RecordingThrows, At
  <2> QED
    BY <2>2, <2>3, <2>4, <2>5, <2>6, <2>7, <2>8, <2>9
<1>3. task'[w].pc \notin JobPCs /\ \A v \in Workers \ {w} : task'[v] = task[v]
  <2>1. CASE task' = task
    BY <1>1, <2>1
  <2>2. CASE Become(w, Idle)
    BY <2>2, GotoMoves DEF Idle, JobPCs
  <2>3. CASE task[w].pc # "idle" /\ NextReceipt(w)
    BY <2>3, NextReceiptQuiet
  <2>4. CASE task[w].pc # "idle" /\ \E pc \in PCs \ JobPCs : Goto(w, pc)
    BY <2>4, GotoPC
  <2>5. CASE \E pc \in PCs \ JobPCs : \E e, todo : Become(w, Doing(pc, e, 0, todo))
    BY <2>5, GotoMoves DEF Doing
  <2>6. CASE task[w].pc = "publish" /\ FanOutFrom(w, 1)
    BY <2>6, FanOutMoves
  <2> QED
    BY <1>2, <2>1, <2>2, <2>3, <2>4, <2>5, <2>6
<1> QED
  BY <1>1, <1>3, Unseen

\* An enqueue makes a job stand where none does, and leaves one that does.
LEMMA EnqueueSeen ==
    ASSUME Types, NEW w \in Workers, EnqueueDelivery(w)
    PROVE  [E!Next]_(E!contractVars)
<1>1. task[w].pc = "enqueue" /\ task[w].n \in Nr(task[w].e) /\ task[w].n + 1 \in Nat \ {0}
  BY Busy DEF EnqueueDelivery, At, Nr, Types
<1>2. PICK d \in Delivering : d = <<task[w].e, task[w].n>>
  BY <1>1, Busy, DeliveringPairs DEF Types
<1>3. job' = IF Live(d) THEN job ELSE [job EXCEPT ![d] = [st |-> "queued", tries |-> 0]]
  BY <1>2 DEF EnqueueDelivery
<1>4. task'[w].pc \notin JobPCs /\ \A v \in Workers \ {w} : task'[v] = task[v]
  BY <1>1, FanOutMoves DEF EnqueueDelivery
<1>5. task[w].pc \notin JobPCs
  BY <1>1 DEF JobPCs
<1>6. CASE Live(d)
  BY <1>3, <1>4, <1>5, <1>6, Unseen
<1>7. CASE ~Live(d)
  <2>1. job'[d].st = "queued" /\ \A x \in Delivering \ {d} : job'[x].st = job[x].st
    BY <1>3, <1>7 DEF Types, JobsOK
  <2>2. Standing' = [Standing EXCEPT ![d] = "queued"] /\ Standing[d] = "absent"
    BY <1>7, <2>1, JobMoves DEF Live, Standing
  <2>3. Standing' = [x \in Delivering |-> IF x \in {d} THEN "queued" ELSE Standing[x]]
    BY <2>2 DEF Standing
  <2>4. BusyWith' = BusyWith
    BY <1>4, <1>5, BusyStays
  <2>5. E!Enqueue({d})
    BY <2>2, <2>3, <2>4 DEF E!Enqueue
  <2> QED
    BY <2>5 DEF E!Next
<1> QED
  BY <1>6, <1>7

\* A claim starts the job of a delivery that nobody runs.
LEMMA RunSeen ==
    ASSUME Types, Inv, NEW w \in Workers, NEW d \in Delivering, RunDelivery(w, d)
    PROVE  [E!Next]_(E!contractVars)
<1>1. task'[w] = Doing("find", d[1], d[2], {}) /\ \A v \in Workers \ {w} : task'[v] = task[v]
  BY GotoMoves DEF RunDelivery
<1>2. task'[w].pc \in JobPCs /\ Delivered(w)' = d /\ task[w].pc \notin JobPCs
  BY <1>1, DeliveringPairs DEF Doing, Delivered, RunDelivery, At, JobPCs
<1>3. job'[d].st = "running" /\ \A x \in Delivering \ {d} : job'[x].st = job[x].st
  BY DEF RunDelivery, Types, JobsOK
<1>4. Standing' = [Standing EXCEPT ![d] = "running"] /\ Standing[d] = "queued"
  BY <1>3, JobMoves DEF RunDelivery, Live, Standing
<1>5. d \notin BusyWith
  BY DEF RunDelivery, BusyWith, Inv, ProgressOK
<1>6. BusyWith' = BusyWith \cup {d}
  BY <1>1, <1>2, BusyStarts
<1> QED
  BY <1>4, <1>5, <1>6 DEF E!Next, E!Start

\* A task that moves on with other channels to serve.
LEMMA TodoUpdate ==
    ASSUME NEW t \in Task, NEW pc, NEW todo
    PROVE  [t EXCEPT !.pc = pc, !.todo = todo] = Doing(pc, t.e, t.n, todo)
<1> DEFINE u == [t EXCEPT !.pc = pc]
<1>1. u = Doing(pc, t.e, t.n, t.todo)
  BY DEF Task, Doing
<1> HIDE DEF u
<1>2. [u EXCEPT !.todo = todo] = Doing(pc, t.e, t.n, todo)
  BY <1>1 DEF Doing
<1> QED
  BY <1>2 DEF u

\* The statements of a run go on with its job.
LEMMA RunningUnseen ==
    ASSUME Types, NEW w \in Workers,
           \/ FindEvent(w) \/ HandleOther(w) \/ FindTargets(w) \/ MarkDelivered(w)
           \/ \E c \in Channels : CreateDelivery(w, c)
    PROVE  [E!Next]_(E!contractVars)
<1>1. job' = job /\ task[w].pc \in {"find", "handle", "ledger", "create"}
  BY DEF FindEvent, HandleOther, FindTargets, MarkDelivered, CreateDelivery, bus, At
<1>2. task[w] \in Task /\ task[w].pc # "idle" /\ task[w].pc \in JobPCs
  BY <1>1, Busy DEF Types, JobPCs
<1>3. \/ \E pc \in JobPCs : Goto(w, pc)
      \/ \E pc \in JobPCs : \E todo : Become(w, Doing(pc, task[w].e, task[w].n, todo))
  <2>1. CASE FindEvent(w) \/ HandleOther(w) \/ MarkDelivered(w)
    BY <2>1 DEF FindEvent, HandleOther, MarkDelivered, JobPCs
  <2>2. CASE FindTargets(w)
    <3> DEFINE targets == active \cap Matching[task[w].e]
    <3>1. CASE targets = {}
      BY <2>2, <3>1 DEF FindTargets, JobPCs
    <3>2. CASE targets # {}
      <4>1. Become(w, Doing("create", task[w].e, task[w].n, targets))
        BY <1>2, <2>2, <3>2, TodoUpdate DEF FindTargets
      <4> QED
        BY <4>1 DEF JobPCs
    <3> QED
      BY <3>1, <3>2
  <2>3. ASSUME NEW c \in Channels, CreateDelivery(w, c)
        PROVE  \E pc \in JobPCs : \E todo : Become(w, Doing(pc, task[w].e, task[w].n, todo))
    <3>1. CASE task[w].todo = {c}
      <4>1. Become(w, Doing("ledger", task[w].e, task[w].n, {}))
        BY <1>2, <2>3, <3>1, TodoUpdate DEF CreateDelivery
      <4> QED
        BY <4>1 DEF JobPCs
    <3>2. CASE task[w].todo # {c}
      <4> DEFINE rest == task[w].todo \ {c}
      <4>1. [task[w] EXCEPT !.todo = rest] = Doing(task[w].pc, task[w].e, task[w].n, rest)
        BY <1>2 DEF Task, Doing
      <4>2. Become(w, Doing(task[w].pc, task[w].e, task[w].n, rest))
        BY <2>3, <3>2, <4>1 DEF CreateDelivery
      <4> QED
        BY <1>2, <4>2
    <3> QED
      BY <3>1, <3>2
  <2> QED
    BY <2>1, <2>2, <2>3
<1>4. /\ task'[w].pc \in JobPCs /\ task'[w].e = task[w].e /\ task'[w].n = task[w].n
      /\ \A v \in Workers \ {w} : task'[v] = task[v]
  <2>1. CASE \E pc \in JobPCs : Goto(w, pc)
    BY <1>2, <2>1, GotoPC
  <2>2. CASE \E pc \in JobPCs : \E todo : Become(w, Doing(pc, task[w].e, task[w].n, todo))
    BY <2>2, GotoMoves DEF Doing
  <2> QED
    BY <1>3, <2>1, <2>2
<1> QED
  BY <1>1, <1>2, <1>4, Unseen DEF Delivered

\* A kill ends a run and leaves its job, which only the expiry of its lock moves.
LEMMA KillSeen ==
    ASSUME Types, Inv, NEW w \in Workers, Kill(w)
    PROVE  [E!Next]_(E!contractVars)
<1>1. job' = job /\ task'[w].pc \notin JobPCs /\ \A v \in Workers \ {w} : task'[v] = task[v]
  BY GotoMoves DEF Kill, bus, Idle, JobPCs
<1>2. CASE task[w].pc \notin JobPCs
  BY <1>1, <1>2, Unseen
<1>3. CASE task[w].pc \in JobPCs
  BY <1>1, <1>3, BusyEnds, JobsStay DEF E!Next, E!Die
<1> QED
  BY <1>2, <1>3

\* A reclaim takes a job that no worker runs any more.
LEMMA ReclaimSeen ==
    ASSUME Types, NEW d \in Delivering, Reclaim(d)
    PROVE  [E!Next]_(E!contractVars)
<1>1. BusyWith' = BusyWith /\ d \notin BusyWith /\ Standing[d] = "running"
  BY DEF Reclaim, BusyWith, Standing, Live, Delivered
<1>2. PICK st \in {"queued", "dead"} : JobEnds(d, st)
  BY DEF Reclaim, Retried
<1>3. job'[d].st = st /\ \A x \in Delivering \ {d} : job'[x].st = job[x].st
  BY <1>2 DEF JobEnds, Types, JobsOK
<1> DEFINE T == IF st = "queued" THEN {d} ELSE {}
<1>4. Standing' = [Standing EXCEPT ![d] = IF d \in T THEN "queued" ELSE "absent"]
  BY <1>3, JobMoves DEF Live
<1>5. Standing' = [x \in Delivering |-> IF x \notin {d} THEN Standing[x]
                                        ELSE IF x \in T THEN "queued" ELSE "absent"]
  BY <1>4 DEF Standing
<1>6. E!Reclaim({d}, T) /\ T \in SUBSET {d}
  BY <1>1, <1>5 DEF E!Reclaim
<1> QED
  BY <1>6 DEF E!Next

\* The job of an event and a subscriber keeps the promise of the queue (ExclusiveJobs):
\* EventBus.publish enqueues it only where none stands, one invocation at a time runs it,
\* and it is taken away only from an invocation that was killed.
THEOREM JobsKeepContract == Spec => JobsExclusive
<1>1. Init => E!Init
  <2> SUFFICES ASSUME Init PROVE E!Init
    OBVIOUS
  <2>1. Standing = [d \in Delivering |-> "absent"]
    BY DEF Init, Standing, Live
  <2>2. BusyWith = {}
    BY DEF Init, BusyWith, Idle, JobPCs
  <2> QED
    BY <2>1, <2>2 DEF E!Init
<1>2. Types /\ Inv /\ [Next]_vars => [E!Next]_(E!contractVars)
  <2> SUFFICES ASSUME Types, Inv, [Next]_vars PROVE [E!Next]_(E!contractVars)
    OBVIOUS
  <2>1. ASSUME NEW w \in Workers, CompleteJob(w) PROVE [E!Next]_(E!contractVars)
    BY <2>1, RunEnds DEF CompleteJob, At, JobPCs, JobStates
  <2>2. ASSUME NEW w \in Workers, DeliverThrows(w) PROVE [E!Next]_(E!contractVars)
    <3>1. Delivered(w) \in Delivering /\ task[w].pc \in JobPCs
      BY <2>2, Busy DEF DeliverThrows, JobPCs, Types
    <3>2. Retried(Delivered(w)) \in JobStates \ {"running"}
      BY <3>1, RetriedType DEF Types
    <3> QED
      BY <2>2, <3>1, <3>2, RunEnds DEF DeliverThrows
  <2>3. CASE (\E r \in Receipts : Elapse(r)) \/ (\E c \in Channels : DisableChannel(c)) \/ UNCHANGED vars
    <3>1. job' = job /\ task' = task
      BY <2>3 DEF Elapse, DisableChannel, vars, bus
    <3>2. BusyWith' = BusyWith
      BY <3>1 DEF BusyWith, Delivered
    <3> QED
      BY <3>1, <3>2, JobsStay DEF E!contractVars
  <2> QED
    BY <2>1, <2>2, <2>3, AsidePublishing, EnqueueSeen, RunSeen, RunningUnseen, KillSeen, ReclaimSeen
       DEF Next, WorkerStep
<1> QED
  BY <1>1, <1>2, InvAlways, PTL DEF Spec, JobsExclusive, E!Spec
=============================================================================
