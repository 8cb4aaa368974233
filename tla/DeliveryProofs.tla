---------------------------- MODULE DeliveryProofs ----------------------------
(***************************************************************************)
(* Proofs about Delivery, for any deliveries, channels, workers and limits: *)
(* nothing is assumed of how the limits compare, so an invocation may       *)
(* outlive the lock of its job, its own claim, or both.  Only the last      *)
(* section is about limits in the order the code has them.                  *)
(***************************************************************************)
EXTENDS Delivery, TLAPS

-----------------------------------------------------------------------------
(* Types                                                                   *)

Times == 0..Limit
RunPCs == {"read", "channel", "capacity", "claim", "post", "effect", "reread"}

\* The tasks, by the statements they are at.
RunTask == [pc : RunPCs, d : Deliveries, age : Times, final : BOOLEAN, from : Unsettled,
            answer : Answers \cup {"none"}]
WriteTask == [pc : {"write", "exhaust"}, d : Deliveries, age : Times, from : Unsettled,
              to : Statuses, end : Ends, wait : Nat]
EndTask == [pc : {"end"}, d : Deliveries, age : Times, end : Ends \ {"exhaust"}, wait : Nat]
FailTask == [pc : {"fail"}, list : SUBSET Deliveries]
Tasks == RunTask \cup WriteTask \cup EndTask \cup FailTask \cup {Idle}

JobRow == [status : {"queued", "running", "done", "dead"}, wait : Nat, tries : 0..MaxAttempts,
           deferrals : 0..MaxDeferrals + 1, owner : Workers \cup {"nobody"}, lock : 0..Lock]

\* A queued job has an attempt left, a running one has spent one.
JobOK(j) ==
    /\ j \in JobRow
    /\ j.status = "queued" => j.tries < MaxAttempts
    /\ j.status = "running" => j.tries > 0

Types ==
    /\ row \in [Deliveries -> [status : Statuses, since : 0..Oldest]]
    /\ age \in [Deliveries -> 0..Expired]
    /\ job \in [Deliveries -> JobRow]
    /\ \A d \in Deliveries : JobOK(job[d])
    /\ channel \in [Channels -> {"active", "disabled", "deleted"}]
    /\ blocked \in [Buckets -> 0..Pause]
    /\ posted \subseteq Deliveries
    /\ doubt \subseteq Deliveries
    /\ taken \subseteq Deliveries
    /\ task \in [Workers -> Tasks]

\* The limits are natural numbers.
LEMMA Limits ==
    /\ Stale \in Nat /\ MaxQueued \in Nat /\ MaxDeferrals \in Nat /\ Limit \in Nat /\ Pause \in Nat
    /\ MaxAttempts \in Nat \ {0} /\ Lock \in Nat \ {0}
    /\ Oldest \in Nat /\ Limit < Oldest /\ Expired \in Nat
  BY DeliveryAssumption DEF Oldest, Expired

\* Which task a worker has, by the statement it is at.
LEMMA TaskKinds ==
    ASSUME NEW t \in Tasks
    PROVE  /\ t.pc \in RunPCs => t \in RunTask
           /\ t.pc \in {"write", "exhaust"} => t \in WriteTask
           /\ t.pc = "end" => t \in EndTask
           /\ t.pc = "fail" => t \in FailTask
           /\ t.pc = "idle" => t = Idle
           /\ t.pc \notin {"idle", "fail"} => t.d \in Deliveries /\ t.age \in Times
           /\ t.pc \in RunPCs \cup {"write", "exhaust", "end", "fail", "idle"}
  BY DEF Tasks, RunTask, WriteTask, EndTask, FailTask, Idle, RunPCs

\* A worker that runs a delivery.
LEMMA RunOf ==
    ASSUME Types, NEW w \in Workers, task[w].pc \in RunPCs
    PROVE  /\ task[w] \in RunTask /\ task[w].d \in Deliveries /\ task[w].age \in Times
           /\ task[w].from \in Unsettled /\ Running(w)
           /\ ChannelOf[task[w].d] \in Channels
  BY TaskKinds, DeliveryAssumption DEF Types, RunTask, Running, At, RunPCs, Channels

\* The tasks a run goes on with.
LEMMA NewTasks ==
    ASSUME NEW t \in RunTask, NEW to \in Statuses, NEW end \in Ends, NEW wait \in Nat
    PROVE  /\ [pc |-> "write", d |-> t.d, age |-> t.age, from |-> t.from,
               to |-> to, end |-> end, wait |-> wait] \in WriteTask
           /\ end # "exhaust" => [pc |-> "end", d |-> t.d, age |-> t.age, end |-> end, wait |-> wait] \in EndTask
  BY DEF RunTask, WriteTask, EndTask

\* A run that goes on with another statement.
LEMMA GotoTask ==
    ASSUME NEW t \in RunTask, NEW pc \in RunPCs
    PROVE  /\ [t EXCEPT !.pc = pc] \in RunTask
           /\ [t EXCEPT !.pc = pc].pc = pc /\ [t EXCEPT !.pc = pc].d = t.d
           /\ [t EXCEPT !.pc = pc].from = t.from
  BY DEF RunTask

\* A run that goes on from another status.
LEMMA FromTask ==
    ASSUME NEW t \in RunTask, NEW pc \in RunPCs, NEW from \in Unsettled
    PROVE  /\ [t EXCEPT !.pc = pc, !.from = from] \in RunTask
           /\ [t EXCEPT !.pc = pc, !.from = from].pc = pc
           /\ [t EXCEPT !.pc = pc, !.from = from].d = t.d
           /\ [t EXCEPT !.pc = pc, !.from = from].from = from
<1> DEFINE u == [t EXCEPT !.pc = pc]
<1>1. u \in RunTask /\ u.pc = pc /\ u.d = t.d
  BY DEF RunTask
<1> HIDE DEF u
<1>2. /\ [u EXCEPT !.from = from] \in RunTask
      /\ [u EXCEPT !.from = from].pc = pc /\ [u EXCEPT !.from = from].d = t.d
      /\ [u EXCEPT !.from = from].from = from
  BY <1>1 DEF RunTask
<1> QED
  BY <1>2 DEF u

\* A run that goes on with Discord's answer.
LEMMA AnswerTask ==
    ASSUME NEW t \in RunTask, NEW x \in Answers
    PROVE  /\ [t EXCEPT !.pc = "effect", !.answer = x] \in RunTask
           /\ [t EXCEPT !.pc = "effect", !.answer = x].pc = "effect"
           /\ [t EXCEPT !.pc = "effect", !.answer = x].d = t.d
           /\ [t EXCEPT !.pc = "effect", !.answer = x].from = t.from
<1> DEFINE u == [t EXCEPT !.pc = "effect"]
<1>1. u \in RunTask /\ u.pc = "effect" /\ u.d = t.d /\ u.from = t.from
  BY DEF RunTask, RunPCs
<1> HIDE DEF u
<1>2. /\ [u EXCEPT !.answer = x] \in RunTask
      /\ [u EXCEPT !.answer = x].pc = "effect" /\ [u EXCEPT !.answer = x].d = t.d
      /\ [u EXCEPT !.answer = x].from = t.from
  BY <1>1 DEF RunTask
<1> QED
  BY <1>2 DEF u

\* A difference that is cut off at zero is a natural number, and no more than the first.
LEMMA MinusType ==
    ASSUME NEW a \in Nat, NEW b \in Nat
    PROVE  Minus(a, b) \in Nat /\ Minus(a, b) <= a
  BY DEF Minus

\* A write of the job by the runner leaves a job.
LEMMA EndedType ==
    ASSUME NEW j, JobOK(j), j.status = "running", NEW end \in Ends \ {"exhaust"}, NEW wait \in Nat
    PROVE  JobOK(Ended(j, end, wait)) /\ Ended(j, end, wait).status # "running"
<1>1. /\ j \in JobRow /\ j.tries \in 1..MaxAttempts /\ j.deferrals \in 0..MaxDeferrals + 1
      /\ j.tries - 1 \in 0..MaxAttempts /\ j.tries - 1 < MaxAttempts
      /\ j.deferrals < MaxDeferrals => j.deferrals + 1 \in 0..MaxDeferrals + 1
  BY Limits DEF JobOK, JobRow
<1>2. JobOK(Over("done")) /\ JobOK(Over("dead"))
  BY Limits DEF JobOK, JobRow, Over
<1> DEFINE q == Requeue(j, wait)
<1>3. /\ q \in JobRow /\ q.status = "queued" /\ q.tries = j.tries /\ q.deferrals = j.deferrals
  <2> DEFINE j1 == [j EXCEPT !.status = "queued"]
             j2 == [j1 EXCEPT !.wait = wait]
             j3 == [j2 EXCEPT !.owner = "nobody"]
             j4 == [j3 EXCEPT !.lock = 0]
  <2>0. q = j4
    BY DEF Requeue
  <2>1. j1 \in JobRow /\ j1.status = "queued" /\ j1.tries = j.tries /\ j1.deferrals = j.deferrals
    BY <1>1 DEF JobRow
  <2> HIDE DEF j1
  <2>2. j2 \in JobRow /\ j2.status = "queued" /\ j2.tries = j.tries /\ j2.deferrals = j.deferrals
    BY <2>1 DEF JobRow
  <2> HIDE DEF j2
  <2>3. j3 \in JobRow /\ j3.status = "queued" /\ j3.tries = j.tries /\ j3.deferrals = j.deferrals
    BY <2>2 DEF JobRow
  <2> HIDE DEF j3
  <2>4. j4 \in JobRow /\ j4.status = "queued" /\ j4.tries = j.tries /\ j4.deferrals = j.deferrals
    BY <2>3, Limits DEF JobRow
  <2> QED
    BY <2>0, <2>4
<1> HIDE DEF q
<1> DEFINE back == [q EXCEPT !.tries = @ - 1]
<1>4. back \in JobRow /\ back.status = "queued" /\ back.tries < MaxAttempts /\ back.deferrals = j.deferrals
  BY <1>1, <1>3 DEF JobRow
<1> HIDE DEF back
<1>5. JobOK(back) /\ back.status # "running"
  BY <1>4 DEF JobOK
<1>6. ASSUME NEW n \in 0..MaxDeferrals + 1
      PROVE  /\ JobOK([back EXCEPT !.deferrals = n]) /\ [back EXCEPT !.deferrals = n].status # "running"
             /\ j.tries < MaxAttempts =>
                  /\ JobOK([q EXCEPT !.deferrals = n]) /\ [q EXCEPT !.deferrals = n].status # "running"
  BY <1>1, <1>3, <1>4 DEF JobOK, JobRow
<1>7. CASE end = "done"
  BY <1>2, <1>7 DEF Ended, Over
<1>8. CASE end = "free"
  BY <1>5, <1>8 DEF Ended, q, back
<1>9. CASE end = "consuming"
  <2>1. CASE j.deferrals < MaxDeferrals
    <3>1. Ended(j, end, wait) = [back EXCEPT !.deferrals = j.deferrals + 1]
      BY <1>4, <1>9, <2>1 DEF Ended, q, back
    <3> QED
      BY <1>1, <1>6, <2>1, <3>1
  <2>2. CASE ~(j.deferrals < MaxDeferrals) /\ j.tries >= MaxAttempts
    BY <1>2, <1>9, <2>2 DEF Ended, Over
  <2>3. CASE ~(j.deferrals < MaxDeferrals) /\ ~(j.tries >= MaxAttempts)
    <3>1. Ended(j, end, wait) = [q EXCEPT !.deferrals = MaxDeferrals + 1]
      BY <1>9, <2>3 DEF Ended, q
    <3>2. MaxDeferrals + 1 \in 0..MaxDeferrals + 1 /\ j.tries < MaxAttempts
      BY <1>1, <2>3, Limits
    <3>3. JobOK([q EXCEPT !.deferrals = MaxDeferrals + 1]) /\ [q EXCEPT !.deferrals = MaxDeferrals + 1].status # "running"
      BY <1>6, <3>2
    <3> QED
      BY <3>1, <3>3
  <2> QED
    BY <2>1, <2>2, <2>3
<1>10. CASE end = "throw"
  <2>1. CASE j.tries >= MaxAttempts
    BY <1>2, <1>10, <2>1 DEF Ended, Over
  <2>2. CASE ~(j.tries >= MaxAttempts)
    <3>1. Ended(j, end, wait) = [q EXCEPT !.deferrals = 0]
      BY <1>10, <2>2 DEF Ended, q
    <3>2. 0 \in 0..MaxDeferrals + 1 /\ j.tries < MaxAttempts
      BY <1>1, <2>2, Limits
    <3>3. JobOK([q EXCEPT !.deferrals = 0]) /\ [q EXCEPT !.deferrals = 0].status # "running"
      BY <1>6, <3>2
    <3> QED
      BY <3>1, <3>3
  <2> QED
    BY <2>1, <2>2
<1> QED
  BY <1>7, <1>8, <1>9, <1>10 DEF Ends

\* One worker changes its task.
LEMMA BecomeTask ==
    ASSUME Types, NEW w \in Workers, NEW t, Become(w, t)
    PROVE  /\ task'[w] = t /\ \A v \in Workers \ {w} : task'[v] = task[v]
           /\ t \in Tasks => task' \in [Workers -> Tasks]
  BY DEF Types, Become

\* The run of w goes on to the write of its row and the end of its job.
WriteAs(w, to, end, wait) ==
    /\ task'[w] = [pc |-> "write", d |-> task[w].d, age |-> task[w].age, from |-> task[w].from,
                   to |-> to, end |-> end, wait |-> wait]
    /\ \A v \in Workers \ {w} : task'[v] = task[v]
    /\ task' \in [Workers -> Tasks]

\* What there is to know of it.
LEMMA IsWritten ==
    ASSUME NEW w \in Workers, NEW to, NEW end, NEW wait, WriteAs(w, to, end, wait)
    PROVE  /\ task' \in [Workers -> Tasks] /\ \A v \in Workers \ {w} : task'[v] = task[v]
           /\ task'[w].pc = "write" /\ task'[w].d = task[w].d /\ task'[w].from = task[w].from
           /\ task'[w].to = to
  BY DEF WriteAs

\* Write leads there.
LEMMA WriteType ==
    ASSUME Types, NEW w \in Workers, task[w].pc \in RunPCs, NEW to \in Statuses, NEW end \in Ends,
           NEW wait \in Nat, Write(w, to, end, wait)
    PROVE  WriteAs(w, to, end, wait)
<1>1. [pc |-> "write", d |-> task[w].d, age |-> task[w].age, from |-> task[w].from,
       to |-> to, end |-> end, wait |-> wait] \in Tasks
  BY NewTasks, RunOf DEF Tasks
<1> QED
  BY <1>1, BecomeTask DEF Write, WriteAs

\* A free wait leads there too, as failed or as queued.
LEMMA FreeWaitType ==
    ASSUME Types, NEW w \in Workers, task[w].pc \in RunPCs, NEW wait \in Nat, FreeWait(w, wait)
    PROVE  WriteAs(w, "failed", "done", 0) \/ WriteAs(w, "queued", "free", wait)
  BY WriteType DEF FreeWait, Statuses, Unsettled, Ends

\* The end of a run is reported.
LEMMA FinishType ==
    ASSUME Types, NEW w \in Workers, task[w].pc \notin {"idle", "fail"}, NEW end \in Ends \ {"exhaust"},
           NEW wait \in Nat, Finish(w, end, wait)
    PROVE  /\ task'[w].pc = "end" /\ task'[w].d = task[w].d
           /\ \A v \in Workers \ {w} : task'[v] = task[v]
           /\ task' \in [Workers -> Tasks]
<1>1. task[w].d \in Deliveries /\ task[w].age \in Times
  BY TaskKinds DEF Types
<1>2. [pc |-> "end", d |-> task[w].d, age |-> task[w].age, end |-> end, wait |-> wait] \in Tasks
  BY <1>1 DEF Tasks, EndTask
<1> QED
  BY <1>2, BecomeTask DEF Finish

\* A run that moves on.
LEMMA GotoType ==
    ASSUME Types, NEW w \in Workers, task[w].pc \in RunPCs, NEW pc \in RunPCs, Goto(w, pc)
    PROVE  /\ task'[w].pc = pc /\ task'[w].d = task[w].d /\ task'[w].from = task[w].from
           /\ \A v \in Workers \ {w} : task'[v] = task[v]
           /\ task' \in [Workers -> Tasks]
<1>1. task[w] \in RunTask
  BY RunOf
<1>2. /\ [task[w] EXCEPT !.pc = pc] \in RunTask /\ [task[w] EXCEPT !.pc = pc].pc = pc
      /\ [task[w] EXCEPT !.pc = pc].d = task[w].d /\ [task[w] EXCEPT !.pc = pc].from = task[w].from
  BY <1>1, GotoTask
<1> QED
  BY <1>2, BecomeTask DEF Goto, Tasks

\* A run that has read the row.
LEMMA FromType ==
    ASSUME Types, NEW w \in Workers, task[w].pc \in RunPCs, NEW from \in Unsettled,
           Become(w, [task[w] EXCEPT !.pc = "channel", !.from = from])
    PROVE  /\ task'[w].pc = "channel" /\ task'[w].d = task[w].d /\ task'[w].from = from
           /\ \A v \in Workers \ {w} : task'[v] = task[v]
           /\ task' \in [Workers -> Tasks]
<1>1. task[w] \in RunTask /\ "channel" \in RunPCs /\ from \in Unsettled
  BY RunOf DEF RunPCs
<1> DEFINE t == [task[w] EXCEPT !.pc = "channel"]
           u == [t EXCEPT !.from = from]
<1>2. t \in RunTask /\ t.pc = "channel" /\ t.d = task[w].d
  BY <1>1 DEF RunTask
<1>3. Become(w, u)
  OBVIOUS
<1> HIDE DEF t
<1>4. u \in RunTask /\ u.pc = "channel" /\ u.d = task[w].d /\ u.from = from
  BY <1>1, <1>2 DEF RunTask
<1> HIDE DEF u
<1> QED
  BY <1>3, <1>4, BecomeTask DEF Tasks

\* Blocking a bucket keeps every bucket within the pause.
LEMMA BlockType ==
    ASSUME Types, NEW b \in Buckets, Block(b)
    PROVE  blocked' \in [Buckets -> 0..Pause]
  BY Limits DEF Types, Block

\* The buckets of a delivery.
LEMMA BlockedForType ==
    ASSUME Types, NEW d \in Deliveries
    PROVE  BlockedFor(d) \in 0..Pause /\ ChannelOf[d] \in Channels /\ ChannelOf[d] \in Buckets /\ "global" \in Buckets
  BY DeliveryAssumption DEF Types, BlockedFor, Channels, Buckets

\* A step of a run that leaves the rows of the database alone.
LEMMA OnlyTask ==
    ASSUME Types, task' \in [Workers -> Tasks], UNCHANGED <<rows, job>>,
           posted' \subseteq Deliveries, doubt' \subseteq Deliveries, taken' \subseteq Deliveries
    PROVE  Types'
  BY DEF Types, rows

\* The first state is well formed.
LEMMA TypesInit == Init => Types
<1> SUFFICES ASSUME Init PROVE Types
  OBVIOUS
<1> DEFINE j == [status |-> "queued", wait |-> 0, tries |-> 0, deferrals |-> 0, owner |-> "nobody", lock |-> 0]
<1>1. JobOK(j) /\ j \in JobRow
  BY Limits DEF JobOK, JobRow
<1>2. job = [d \in Deliveries |-> j]
  BY DEF Init
<1> HIDE DEF j
<1>3. job \in [Deliveries -> JobRow] /\ \A d \in Deliveries : JobOK(job[d])
  BY <1>1, <1>2
<1> QED
  BY <1>3, Limits DEF Init, Types, Statuses, Unsettled, Tasks

\* The run of w is past the read: it knows what status it updates from, and a claim it
\* read was stale.
IsPast(w) ==
    /\ task'[w].pc = "channel" /\ task'[w].from = row[task[w].d].status
    /\ row[task[w].d].status = "sending" => task[w].d \in taken'

\* It has checked the channel or the capacity, and goes on or gives up.
HasChecked(w) ==
    /\ task[w].pc \in {"channel", "capacity"} /\ taken' = taken
    /\ task'[w].from = task[w].from
    /\ \/ task'[w].pc \in {"capacity", "claim"}
       \/ task'[w].pc = "write" /\ task'[w].to # "sent"

\* What a run does before it calls Discord.
LEMMA BeforeSending ==
    ASSUME Types, NEW w \in Workers,
           Read(w) \/ CheckChannel(w) \/ CheckBuckets(w) \/ CheckShare(w) \/ Reread(w)
    PROVE  /\ Types' /\ UNCHANGED <<row, job, posted, doubt>> /\ taken \subseteq taken'
           /\ \A v \in Workers \ {w} : task'[v] = task[v]
           /\ task[w].d \in Deliveries /\ task'[w].d = task[w].d
           /\ task[w].pc \in {"read", "channel", "capacity", "reread"}
           /\ task'[w].pc = "end" \/ IsPast(w) \/ HasChecked(w)
<1> DEFINE d == task[w].d
<1>0. task[w].pc \in {"read", "channel", "capacity", "reread"} /\ task[w].pc \in RunPCs
  BY DEF Read, CheckChannel, CheckBuckets, CheckShare, Reread, At, RunPCs
<1>1. task[w] \in RunTask /\ d \in Deliveries /\ task[w].pc \notin {"idle", "fail"}
  BY <1>0, RunOf DEF RunPCs
<1>2. Minus(Stale, row[d].since) \in Nat
  <2>1. row[d].since \in Nat
    BY <1>1, Limits DEF Types
  <2> QED
    BY <2>1, Limits, MinusType
<1>3. {"done", "free"} \subseteq Ends \ {"exhaust"} /\ {"suppressed", "failed", "queued"} \subseteq Statuses
  BY DEF Ends, Statuses, Unsettled
<1>4. CASE Read(w)
  <2>1. /\ task' \in [Workers -> Tasks] /\ \A v \in Workers \ {w} : task'[v] = task[v]
        /\ task'[w].d = d
        /\ \/ task'[w].pc = "end"
           \/ /\ task'[w].pc = "channel" /\ task'[w].from = row[d].status
              /\ ~(row[d].status = "sending" /\ Fresh(w, d))
    <3>1. CASE WaitForOtherRun(w, d) \/ Finish(w, "done", 0)
      BY <1>1, <1>2, <1>3, <3>1, FinishType DEF WaitForOtherRun
    <3>2. CASE /\ row[d].status \in Unsettled /\ ~(row[d].status = "sending" /\ Fresh(w, d))
               /\ Become(w, [task[w] EXCEPT !.pc = "channel", !.from = row[d].status])
      <4>0. "channel" \in RunPCs /\ row[d].status \in Unsettled
        BY <3>2 DEF RunPCs
      <4> QED
        BY <1>0, <3>2, <4>0, FromType, Zenon
    <3> QED
      BY <1>4, <3>1, <3>2 DEF Read
  <2>2. taken' = taken \cup {x \in {d} : DeadClaim(w, d)} /\ taken' \subseteq Deliveries
    BY <1>1, <1>4 DEF Read, FindsClaim, Types
  <2>3. taken \subseteq taken' /\ (row[d].status = "sending" /\ ~Fresh(w, d) => d \in taken')
    BY <2>2 DEF DeadClaim
  <2>4. Types' /\ UNCHANGED <<row, job, posted, doubt>>
    BY <1>4, <2>1, <2>2, OnlyTask DEF Read, rows, Types
  <2> QED
    BY <1>0, <1>1, <2>1, <2>3, <2>4 DEF IsPast
<1>5. ASSUME Write(w, "suppressed", "done", 0) \/ Write(w, "failed", "done", 0)
               \/ Goto(w, "capacity") \/ Goto(w, "claim") \/ \E n \in Nat : FreeWait(w, n),
             task[w].pc \in {"channel", "capacity"}, UNCHANGED <<rows, job, marks>>
      PROVE  /\ Types' /\ UNCHANGED <<row, job, posted, doubt>> /\ taken \subseteq taken'
             /\ \A v \in Workers \ {w} : task'[v] = task[v]
             /\ task'[w].d = d
             /\ task'[w].pc = "end" \/ IsPast(w) \/ HasChecked(w)
  <2>1. /\ task' \in [Workers -> Tasks] /\ \A v \in Workers \ {w} : task'[v] = task[v]
        /\ task'[w].d = d /\ task'[w].from = task[w].from
        /\ \/ task'[w].pc \in {"capacity", "claim"}
           \/ task'[w].pc = "write" /\ task'[w].to # "sent"
    <3>1. CASE Goto(w, "capacity") \/ Goto(w, "claim")
      BY <1>0, <3>1, GotoType DEF RunPCs
    <3>2. CASE Write(w, "suppressed", "done", 0) \/ Write(w, "failed", "done", 0)
      <4>1. WriteAs(w, "suppressed", "done", 0) \/ WriteAs(w, "failed", "done", 0)
        BY <1>0, <1>3, <3>2, WriteType
      <4> QED
        BY <4>1, IsWritten
    <3>3. ASSUME NEW n \in Nat, FreeWait(w, n)
          PROVE  WriteAs(w, "failed", "done", 0) \/ WriteAs(w, "queued", "free", n)
      BY <1>0, <3>3, FreeWaitType
    <3>4. CASE \E n \in Nat : FreeWait(w, n)
      BY <3>3, <3>4, IsWritten
    <3> QED
      BY <1>5, <3>1, <3>2, <3>4
  <2>2. Types'
    BY <1>5, <2>1, OnlyTask DEF rows, marks, Types
  <2> QED
    BY <1>5, <2>1, <2>2 DEF HasChecked, rows, marks
<1>6. CASE CheckChannel(w)
  <2>1. channel[ChannelOf[d]] \in {"active", "disabled", "deleted"}
    BY <1>1, BlockedForType DEF Types
  <2>2. /\ \/ Write(w, "suppressed", "done", 0) \/ Write(w, "failed", "done", 0) \/ Goto(w, "capacity")
        /\ task[w].pc = "channel" /\ UNCHANGED <<rows, job, marks>>
    BY <1>6, <2>1 DEF CheckChannel, At
  <2> QED
    BY <1>0, <1>1, <1>5, <2>2
<1>7. CASE CheckBuckets(w) \/ CheckShare(w)
  <2>1. BlockedFor(d) \in Nat
    BY <1>1, BlockedForType, Limits
  <2>2. /\ FreeWait(w, BlockedFor(d)) \/ FreeWait(w, 1) \/ Goto(w, "claim")
        /\ task[w].pc = "capacity" /\ UNCHANGED <<rows, job, marks>>
    BY <1>7 DEF CheckBuckets, CheckShare, At
  <2>3. Goto(w, "claim") \/ \E n \in Nat : FreeWait(w, n)
    BY <2>1, <2>2
  <2> QED
    BY <1>0, <1>1, <1>5, <2>2, <2>3
<1>8. CASE Reread(w)
  <2>1. /\ task' \in [Workers -> Tasks] /\ \A v \in Workers \ {w} : task'[v] = task[v]
        /\ task'[w].pc = "end" /\ task'[w].d = d
    BY <1>1, <1>2, <1>3, <1>8, FinishType DEF Reread, WaitForOtherRun
  <2>2. Types' /\ UNCHANGED <<rows, job, marks>>
    BY <1>8, <2>1, OnlyTask DEF Reread, rows, marks, Types
  <2> QED
    BY <1>0, <1>1, <2>1, <2>2 DEF rows, marks
<1> QED
  BY <1>4, <1>6, <1>7, <1>8

\* A row that a run writes is a row.
LEMMA RowWritten ==
    ASSUME Types, NEW d \in Deliveries, NEW st \in Statuses, NEW n \in Times,
           row' = [row EXCEPT ![d] = [status |-> st, since |-> n]]
    PROVE  /\ row' \in [Deliveries -> [status : Statuses, since : 0..Oldest]]
           /\ row'[d].status = st /\ \A e \in Deliveries \ {d} : row'[e] = row[e]
<1>1. [status |-> st, since |-> n] \in [status : Statuses, since : 0..Oldest]
  BY Limits DEF Times
<1> QED
  BY <1>1 DEF Types

\* claimForSending: the claim is as old as the attempt.
LEMMA ClaimType ==
    ASSUME Types, NEW w \in Workers, ClaimForSending(w)
    PROVE  /\ Types' /\ UNCHANGED <<job, posted, doubt>>
           /\ \A v \in Workers \ {w} : task'[v] = task[v]
           /\ task[w].pc = "claim" /\ task[w].d \in Deliveries /\ task'[w].d = task[w].d
           /\ \A e \in Deliveries \ {task[w].d} : row'[e] = row[e]
           /\ taken' = taken \cup {x \in {task[w].d} : DeadClaim(w, task[w].d)}
           /\ \/ /\ Claimable(w, task[w].d) /\ row'[task[w].d].status = "sending"
                 /\ task'[w].pc = "post" /\ task'[w].from = "sending"
              \/ /\ ~Claimable(w, task[w].d) /\ row' = row
                 /\ task'[w].pc = "reread"
<1> DEFINE d == task[w].d
<1>1. task[w].pc = "claim" /\ task[w].pc \in RunPCs
  BY DEF ClaimForSending, At, RunPCs
<1>2. task[w] \in RunTask /\ d \in Deliveries /\ task[w].age \in Times
  BY <1>1, RunOf
<1>3. taken' = taken \cup {x \in {d} : DeadClaim(w, d)} /\ taken' \subseteq Deliveries
  BY <1>2 DEF ClaimForSending, FindsClaim, Types
<1>4. CASE Claimable(w, d)
  <2>1. /\ row' = [row EXCEPT ![d] = [status |-> "sending", since |-> task[w].age]]
        /\ Become(w, [task[w] EXCEPT !.pc = "post", !.from = "sending"])
    BY <1>4 DEF ClaimForSending
  <2>2. /\ row' \in [Deliveries -> [status : Statuses, since : 0..Oldest]]
        /\ row'[d].status = "sending" /\ \A e \in Deliveries \ {d} : row'[e] = row[e]
    BY <1>2, <2>1, RowWritten DEF Statuses, Unsettled
  <2>3. "post" \in RunPCs /\ "sending" \in Unsettled
    BY DEF RunPCs, Unsettled
  <2>4. /\ [task[w] EXCEPT !.pc = "post", !.from = "sending"] \in RunTask
        /\ [task[w] EXCEPT !.pc = "post", !.from = "sending"].pc = "post"
        /\ [task[w] EXCEPT !.pc = "post", !.from = "sending"].d = d
        /\ [task[w] EXCEPT !.pc = "post", !.from = "sending"].from = "sending"
    BY <1>2, <2>3, FromTask, Zenon
  <2>5. /\ task' \in [Workers -> Tasks] /\ \A v \in Workers \ {w} : task'[v] = task[v]
        /\ task'[w].pc = "post" /\ task'[w].d = d /\ task'[w].from = "sending"
    BY <2>1, <2>4, BecomeTask DEF Tasks
  <2> QED
    BY <1>1, <1>2, <1>3, <1>4, <2>2, <2>5 DEF ClaimForSending, Types
<1>5. CASE ~Claimable(w, d)
  <2>1. Goto(w, "reread") /\ row' = row
    BY <1>5 DEF ClaimForSending
  <2>2. /\ task' \in [Workers -> Tasks] /\ \A v \in Workers \ {w} : task'[v] = task[v]
        /\ task'[w].pc = "reread" /\ task'[w].d = d
    BY <1>1, <2>1, GotoType DEF RunPCs
  <2> QED
    BY <1>1, <1>2, <1>3, <1>5, <2>1, <2>2 DEF ClaimForSending, Types
<1> QED
  BY <1>4, <1>5

\* sendMessage and what it leads to.
LEMMA SendType ==
    ASSUME Types, NEW w \in Workers, NEW a \in Answers, SendMessage(w, a)
    PROVE  /\ Types' /\ UNCHANGED <<row, job, taken>>
           /\ \A v \in Workers \ {w} : task'[v] = task[v]
           /\ task[w].pc = "post" /\ task[w].d \in Deliveries
           /\ task'[w].d = task[w].d /\ task'[w].from = task[w].from
           /\ task'[w].pc \in {"write", "effect"}
           /\ a \in {"sent", "exhausted"} => task'[w].pc = "write" /\ task'[w].to = "sent"
           /\ posted' = posted \cup {x \in {task[w].d} : a \in {"sent", "exhausted", "ambiguous"}}
           /\ doubt' = doubt \cup {x \in {task[w].d} : a = "ambiguous"}
<1>1. task[w].pc = "post" /\ task[w].pc \in RunPCs
  BY DEF SendMessage, At, RunPCs
<1>2. task[w] \in RunTask /\ task[w].d \in Deliveries
  BY <1>1, RunOf
<1>3. /\ posted' \subseteq Deliveries /\ doubt' \subseteq Deliveries /\ UNCHANGED <<rows, job, taken>>
      /\ posted' = posted \cup {x \in {task[w].d} : a \in {"sent", "exhausted", "ambiguous"}}
      /\ doubt' = doubt \cup {x \in {task[w].d} : a = "ambiguous"}
  BY <1>2 DEF SendMessage, Types
<1> DEFINE Goal == /\ task' \in [Workers -> Tasks] /\ \A v \in Workers \ {w} : task'[v] = task[v]
                   /\ task'[w].d = task[w].d /\ task'[w].from = task[w].from
                   /\ task'[w].pc \in {"write", "effect"}
                   /\ a \in {"sent", "exhausted"} => task'[w].pc = "write" /\ task'[w].to = "sent"
<1>4. ASSUME NEW to \in Statuses, NEW end \in Ends, Write(w, to, end, 0),
             a \in {"sent", "exhausted"} => to = "sent"
      PROVE  Goal
  <2>1. WriteAs(w, to, end, 0)
    BY <1>1, <1>4, WriteType
  <2> QED
    BY <1>4, <2>1 DEF WriteAs
<1> HIDE DEF Goal
<1>5. ASSUME a \in {"rate_limited", "no_channel", "no_sender"} PROVE Goal
  <2>1. Become(w, [task[w] EXCEPT !.pc = "effect", !.answer = a])
    BY <1>5 DEF SendMessage
  <2>3. /\ [task[w] EXCEPT !.pc = "effect", !.answer = a] \in RunTask
        /\ [task[w] EXCEPT !.pc = "effect", !.answer = a].pc = "effect"
        /\ [task[w] EXCEPT !.pc = "effect", !.answer = a].d = task[w].d
        /\ [task[w] EXCEPT !.pc = "effect", !.answer = a].from = task[w].from
    BY <1>2, AnswerTask
  <2> QED
    BY <1>5, <2>1, <2>3, BecomeTask DEF Tasks, Goal
<1>6. ASSUME a = "sent" PROVE Goal
  BY <1>4, <1>6 DEF SendMessage, Statuses, Ends
<1>7. ASSUME a = "exhausted" PROVE Goal
  BY <1>4, <1>7 DEF SendMessage, Statuses, Ends
<1>8. ASSUME a = "refused" PROVE Goal
  BY <1>4, <1>8 DEF SendMessage, Statuses, Ends
<1>9. ASSUME a \in {"transient", "ambiguous"} PROVE Goal
  <2>1. Write(w, IF task[w].final THEN "failed" ELSE "queued", "throw", 0)
    BY <1>9 DEF SendMessage
  <2> QED
    BY <1>4, <1>9, <2>1 DEF Statuses, Unsettled, Ends
<1>10. Goal
  BY <1>5, <1>6, <1>7, <1>8, <1>9, DeliveryAssumption
<1> QED
  <2>1. Types'
    BY <1>3, <1>10, OnlyTask DEF Goal, Types
  <2> QED
    BY <1>1, <1>2, <1>3, <1>10, <2>1 DEF rows, Goal

\* The effects of a refusal, before the delivery is settled: nothing is recorded as sent.
LEMMA EffectType ==
    ASSUME Types, NEW w \in Workers, RateLimited(w) \/ DisableChannel(w) \/ PauseSender(w)
    PROVE  /\ Types' /\ UNCHANGED <<row, job, posted, doubt, taken>>
           /\ \A v \in Workers \ {w} : task'[v] = task[v]
           /\ task[w].pc = "effect" /\ task[w].d \in Deliveries
           /\ task'[w].pc = "write" /\ task'[w].d = task[w].d /\ task'[w].from = task[w].from
<1>1. task[w].pc = "effect" /\ task[w].pc \in RunPCs
  BY DEF RateLimited, DisableChannel, PauseSender, At, RunPCs
<1>2. /\ task[w].d \in Deliveries /\ ChannelOf[task[w].d] \in Channels
      /\ ChannelOf[task[w].d] \in Buckets /\ "global" \in Buckets /\ Pause \in Nat
  BY <1>1, RunOf, BlockedForType, Limits
<1>3. {"queued", "failed"} \subseteq Statuses /\ {"consuming", "done"} \subseteq Ends
  BY DEF Statuses, Unsettled, Ends
<1>4. \E to \in Statuses, end \in Ends, wait \in Nat : WriteAs(w, to, end, wait)
  <2>1. CASE RateLimited(w)
    <3>1. WriteAs(w, "queued", "consuming", Pause)
      BY <1>1, <1>2, <1>3, <2>1, WriteType DEF RateLimited
    <3> QED
      BY <1>2, <1>3, <3>1
  <2>2. CASE DisableChannel(w)
    <3>1. WriteAs(w, "failed", "done", 0)
      BY <1>1, <1>3, <2>2, WriteType DEF DisableChannel
    <3> QED
      BY <1>3, <3>1
  <2>3. CASE PauseSender(w)
    <3>1. WriteAs(w, "failed", "done", 0) \/ WriteAs(w, "queued", "free", Pause)
      BY <1>1, <1>2, <2>3, FreeWaitType DEF PauseSender
    <3> QED
      BY <1>2, <1>3, <3>1 DEF Ends
  <2> QED
    BY <2>1, <2>2, <2>3
<1>5. /\ task' \in [Workers -> Tasks] /\ \A v \in Workers \ {w} : task'[v] = task[v]
      /\ task'[w].pc = "write" /\ task'[w].d = task[w].d /\ task'[w].from = task[w].from
  BY <1>4 DEF WriteAs
<1>6. blocked' \in [Buckets -> 0..Pause]
  <2>1. blocked' = blocked \/ Block(ChannelOf[task[w].d]) \/ Block("global")
    BY DEF RateLimited, DisableChannel, PauseSender
  <2> QED
    BY <1>2, <2>1, BlockType DEF Types
<1>7. channel' \in [Channels -> {"active", "disabled", "deleted"}]
  BY <1>2 DEF RateLimited, DisableChannel, PauseSender, Types
<1>8. UNCHANGED <<row, age, job, posted, doubt, taken>>
  BY DEF RateLimited, DisableChannel, PauseSender, marks
<1>9. Types'
  BY <1>5, <1>6, <1>7, <1>8 DEF Types
<1> QED
  BY <1>1, <1>2, <1>5, <1>8, <1>9

\* updateFrom.
LEMMA UpdateType ==
    ASSUME Types, NEW w \in Workers, UpdateFrom(w)
    PROVE  /\ Types' /\ UNCHANGED <<job, posted, doubt, taken>>
           /\ \A v \in Workers \ {w} : task'[v] = task[v]
           /\ task'[w].pc \in {"exhaust", "end"} /\ task'[w].d = task[w].d
           /\ task[w].pc = "write" /\ task[w].d \in Deliveries /\ task[w].from \in Unsettled
           /\ \A e \in Deliveries \ {task[w].d} : row'[e] = row[e]
           /\ \/ row[task[w].d].status = task[w].from /\ row'[task[w].d].status = task[w].to
              \/ row[task[w].d].status # task[w].from /\ row' = row
<1>1. task[w].pc = "write"
  BY DEF UpdateFrom, At
<1>2. task[w] \in WriteTask
  BY <1>1, TaskKinds DEF Types
<1>3. /\ task[w].d \in Deliveries /\ task[w].from \in Unsettled /\ task[w].to \in Statuses
      /\ task[w].end \in Ends /\ task[w].wait \in Nat /\ 0 \in Times
  BY <1>2, Limits DEF WriteTask, Times
<1>4. /\ task' \in [Workers -> Tasks] /\ \A v \in Workers \ {w} : task'[v] = task[v]
      /\ task'[w].pc \in {"exhaust", "end"} /\ task'[w].d = task[w].d
  <2>1. CASE task[w].end = "exhaust"
    <3>1. Become(w, [task[w] EXCEPT !.pc = "exhaust"])
      BY <2>1 DEF UpdateFrom, Goto
    <3>2. /\ [task[w] EXCEPT !.pc = "exhaust"] \in WriteTask
          /\ [task[w] EXCEPT !.pc = "exhaust"].pc = "exhaust"
          /\ [task[w] EXCEPT !.pc = "exhaust"].d = task[w].d
      BY <1>2 DEF WriteTask
    <3> QED
      BY <3>1, <3>2, BecomeTask DEF Tasks
  <2>2. CASE task[w].end # "exhaust"
    BY <1>1, <1>3, <2>2, FinishType DEF UpdateFrom
  <2> QED
    BY <2>1, <2>2
<1>5. /\ row' \in [Deliveries -> [status : Statuses, since : 0..Oldest]]
      /\ \A e \in Deliveries \ {task[w].d} : row'[e] = row[e]
      /\ \/ row[task[w].d].status = task[w].from /\ row'[task[w].d].status = task[w].to
         \/ row[task[w].d].status # task[w].from /\ row' = row
  <2>1. CASE row[task[w].d].status = task[w].from
    <3>1. row' = [row EXCEPT ![task[w].d] = [status |-> task[w].to, since |-> 0]]
      BY <2>1 DEF UpdateFrom
    <3> QED
      BY <1>3, <2>1, <3>1, RowWritten
  <2>2. CASE row[task[w].d].status # task[w].from
    BY <2>2 DEF UpdateFrom, Types
  <2> QED
    BY <2>1, <2>2
<1>6. UNCHANGED <<age, channel, blocked, job, posted, doubt, taken>>
  BY DEF UpdateFrom, marks
<1>7. Types'
  BY <1>4, <1>5, <1>6 DEF Types
<1> QED
  BY <1>1, <1>3, <1>4, <1>5, <1>6, <1>7

\* The bucket a sent message exhausted is blocked.
LEMMA ExhaustType ==
    ASSUME Types, NEW w \in Workers, BlockExhausted(w)
    PROVE  /\ Types' /\ UNCHANGED <<row, job, posted, doubt, taken>>
           /\ \A v \in Workers \ {w} : task'[v] = task[v]
           /\ task[w].pc = "exhaust" /\ task[w].d \in Deliveries
           /\ task'[w].pc = "end" /\ task'[w].d = task[w].d
<1>1. task[w].pc = "exhaust"
  BY DEF BlockExhausted, At
<1>2. task[w].d \in Deliveries
  BY <1>1, TaskKinds DEF Types
<1>3. blocked' \in [Buckets -> 0..Pause]
  BY <1>2, BlockedForType, BlockType DEF BlockExhausted
<1>4. /\ task'[w].pc = "end" /\ task'[w].d = task[w].d
      /\ \A v \in Workers \ {w} : task'[v] = task[v]
      /\ task' \in [Workers -> Tasks]
  BY <1>1, FinishType DEF BlockExhausted, Ends
<1> QED
  BY <1>1, <1>2, <1>3, <1>4 DEF BlockExhausted, Types, marks

\* A worker that is done.
LEMMA IdleType ==
    ASSUME Types, NEW w \in Workers, Become(w, Idle)
    PROVE  /\ task' \in [Workers -> Tasks] /\ task'[w] = Idle
           /\ \A v \in Workers \ {w} : task'[v] = task[v]
  BY BecomeTask DEF Tasks

\* The runner's write of the job.
LEMMA EndType ==
    ASSUME Types, NEW w \in Workers, End(w)
    PROVE  /\ Types' /\ UNCHANGED <<row, posted, doubt, taken>>
           /\ task'[w] = Idle /\ \A v \in Workers \ {w} : task'[v] = task[v]
           /\ task[w].pc = "end" /\ task[w].d \in Deliveries
           /\ \A e \in Deliveries \ {task[w].d} : job'[e] = job[e]
           /\ \/ job' = job /\ ~(job[task[w].d].status = "running" /\ job[task[w].d].owner = w)
              \/ job[task[w].d].status = "running" /\ job[task[w].d].owner = w
<1> DEFINE d == task[w].d
<1>1. task[w].pc = "end" /\ task[w] \in EndTask
  BY TaskKinds DEF End, At, Types
<1>2. d \in Deliveries /\ task[w].end \in Ends \ {"exhaust"} /\ task[w].wait \in Nat
  BY <1>1 DEF EndTask
<1>3. /\ job' \in [Deliveries -> JobRow] /\ \A e \in Deliveries : JobOK(job'[e])
      /\ \A e \in Deliveries \ {d} : job'[e] = job[e]
  <2>1. CASE job[d].status = "running" /\ job[d].owner = w
    <3> DEFINE j == Ended(job[d], task[w].end, task[w].wait)
    <3>1. job' = [job EXCEPT ![d] = j]
      BY <2>1 DEF End
    <3>2. JobOK(j) /\ j \in JobRow
      BY <1>2, <2>1, EndedType DEF Types, JobOK
    <3> HIDE DEF j
    <3> QED
      BY <1>2, <3>1, <3>2 DEF Types
  <2>2. CASE ~(job[d].status = "running" /\ job[d].owner = w)
    BY <2>2 DEF End, Types
  <2> QED
    BY <2>1, <2>2
<1>4. job' = job \/ (job[d].status = "running" /\ job[d].owner = w)
  BY DEF End
<1>5. task' \in [Workers -> Tasks] /\ task'[w] = Idle /\ \A v \in Workers \ {w} : task'[v] = task[v]
  BY IdleType DEF End
<1>6. UNCHANGED <<rows, marks>>
  BY DEF End
<1>7. Types'
  BY <1>3, <1>5, <1>6 DEF Types, rows, marks
<1> QED
  BY <1>1, <1>2, <1>3, <1>4, <1>5, <1>6, <1>7 DEF rows, marks

\* The queue starts a run.
LEMMA StartType ==
    ASSUME Types, NEW w \in Workers, NEW d \in Deliveries, Start(w, d)
    PROVE  /\ Types' /\ UNCHANGED <<row, posted, doubt, taken>>
           /\ \A v \in Workers \ {w} : task'[v] = task[v]
           /\ task[w].pc = "idle" /\ task'[w].pc = "read" /\ task'[w].d = d
           /\ job[d].status = "queued" /\ job'[d].status = "running" /\ job'[d].owner = w
           /\ \A e \in Deliveries \ {d} : job'[e] = job[e]
<1> DEFINE n == job[d].tries + 1
           t == [pc |-> "read", d |-> d, age |-> 0, final |-> n >= MaxAttempts,
                 from |-> "queued", answer |-> "none"]
<1>1. job[d] \in JobRow /\ job[d].status = "queued" /\ n \in 1..MaxAttempts
  BY Limits DEF Start, Types, JobOK, JobRow
<1>2. t \in RunTask
  BY Limits DEF RunTask, RunPCs, Times, Unsettled
<1>3. /\ task' \in [Workers -> Tasks] /\ task'[w] = t /\ \A v \in Workers \ {w} : task'[v] = task[v]
  BY <1>2, BecomeTask DEF Start, Tasks
<1> DEFINE j1 == [job[d] EXCEPT !.status = "running"]
           j2 == [j1 EXCEPT !.tries = n]
           j3 == [j2 EXCEPT !.owner = w]
           j4 == [j3 EXCEPT !.lock = Lock]
<1>4. j1 \in JobRow /\ j1.status = "running" /\ j1.tries = job[d].tries
  BY <1>1 DEF JobRow
<1>5. job' = [job EXCEPT ![d] = j4]
  <2> DEFINE f1 == [job EXCEPT ![d] = j1]
             f2 == [f1 EXCEPT ![d] = [f1[d] EXCEPT !.tries = f1[d].tries + 1]]
             f3 == [f2 EXCEPT ![d] = [f2[d] EXCEPT !.owner = w]]
             f4 == [f3 EXCEPT ![d] = [f3[d] EXCEPT !.lock = Lock]]
  <2>0. DOMAIN job = Deliveries
    BY DEF Types
  <2>1. job' = f4
    BY DEF Start
  <2> HIDE DEF j1, f1, f2, f3, f4, n
  <2>2. DOMAIN f1 = Deliveries /\ \A e \in Deliveries : f1[e] = IF e = d THEN j1 ELSE job[e]
    BY <2>0 DEF f1
  <2>3. DOMAIN f2 = Deliveries /\ \A e \in Deliveries : f2[e] = IF e = d THEN j2 ELSE job[e]
    BY <1>4, <2>2 DEF f2, n
  <2> HIDE DEF j2
  <2>4. DOMAIN f3 = Deliveries /\ \A e \in Deliveries : f3[e] = IF e = d THEN j3 ELSE job[e]
    BY <2>3 DEF f3
  <2> HIDE DEF j3
  <2>5. DOMAIN f4 = Deliveries /\ \A e \in Deliveries : f4[e] = IF e = d THEN j4 ELSE job[e]
    BY <2>4 DEF f4
  <2> HIDE DEF j4
  <2>6. f4 = [e \in Deliveries |-> f4[e]]
    BY <2>5 DEF f4
  <2> QED
    BY <2>0, <2>1, <2>5, <2>6
<1> HIDE DEF j1, n
<1>6. j2 \in JobRow /\ j2.status = "running" /\ j2.tries = n
  BY <1>1, <1>4, Limits DEF JobRow
<1> HIDE DEF j2
<1>7. j3 \in JobRow /\ j3.status = "running" /\ j3.tries = n /\ j3.owner = w
  BY <1>6 DEF JobRow
<1> HIDE DEF j3
<1>8. j4 \in JobRow /\ j4.status = "running" /\ j4.tries = n /\ j4.owner = w
  BY <1>7, Limits DEF JobRow
<1> HIDE DEF j4
<1>9. JobOK(j4)
  BY <1>1, <1>8 DEF JobOK
<1>10. /\ job' \in [Deliveries -> JobRow] /\ \A e \in Deliveries : JobOK(job'[e])
       /\ job'[d] = j4 /\ \A e \in Deliveries \ {d} : job'[e] = job[e]
  BY <1>5, <1>8, <1>9 DEF Types
<1>11. UNCHANGED <<rows, marks>>
  BY DEF Start
<1>12. Types'
  BY <1>3, <1>10, <1>11 DEF Types, rows, marks
<1>13. task[w].pc = "idle"
  BY DEF Start, At
<1> QED
  BY <1>1, <1>3, <1>8, <1>10, <1>11, <1>12, <1>13 DEF rows, marks

\* A lock expires.
LEMMA ReclaimType ==
    ASSUME Types, NEW d \in Deliveries, Reclaim(d)
    PROVE  /\ Types' /\ UNCHANGED <<row, posted, taken, task>>
           /\ doubt' = doubt \cup {x \in {d} : RunsOf(d) # {}}
           /\ \A e \in Deliveries \ {d} : job'[e] = job[e]
           /\ job[d].status = "running"
<1> DEFINE r == [Requeue(job[d], 0) EXCEPT !.deferrals = 0]
           j == IF job[d].tries >= MaxAttempts THEN Over("dead") ELSE r
<1>1. job[d] \in JobRow /\ job[d].status = "running" /\ job' = [job EXCEPT ![d] = j]
  BY DEF Reclaim, Types
<1>2. JobOK(j) /\ j \in JobRow
  <2>1. JobOK(Over("dead")) /\ Over("dead") \in JobRow
    BY Limits DEF JobOK, JobRow, Over
  <2>2. r \in JobRow /\ r.status = "queued" /\ r.tries = job[d].tries
    <3> DEFINE j1 == [job[d] EXCEPT !.status = "queued"]
               j2 == [j1 EXCEPT !.wait = 0]
               j3 == [j2 EXCEPT !.owner = "nobody"]
               j4 == [j3 EXCEPT !.lock = 0]
    <3>0. r = [j4 EXCEPT !.deferrals = 0]
      BY DEF Requeue
    <3>1. j1 \in JobRow /\ j1.status = "queued" /\ j1.tries = job[d].tries
      BY <1>1 DEF JobRow
    <3> HIDE DEF j1
    <3>2. j2 \in JobRow /\ j2.status = "queued" /\ j2.tries = job[d].tries
      BY <3>1 DEF JobRow
    <3> HIDE DEF j2
    <3>3. j3 \in JobRow /\ j3.status = "queued" /\ j3.tries = job[d].tries
      BY <3>2 DEF JobRow
    <3> HIDE DEF j3
    <3>4. j4 \in JobRow /\ j4.status = "queued" /\ j4.tries = job[d].tries
      BY <3>3, Limits DEF JobRow
    <3> HIDE DEF j4
    <3> QED
      BY <3>0, <3>4, Limits DEF JobRow
  <2> HIDE DEF r
  <2>3. job[d].tries \in Nat
    BY <1>1, Limits DEF JobRow
  <2>4. CASE job[d].tries >= MaxAttempts
    BY <2>1, <2>4
  <2>5. CASE ~(job[d].tries >= MaxAttempts)
    BY <2>2, <2>3, <2>5, Limits DEF JobOK
  <2> QED
    BY <2>4, <2>5
<1> HIDE DEF j
<1>3. /\ job' \in [Deliveries -> JobRow] /\ \A e \in Deliveries : JobOK(job'[e])
      /\ \A e \in Deliveries \ {d} : job'[e] = job[e]
  BY <1>1, <1>2 DEF Types
<1>4. UNCHANGED <<rows, posted, taken, task>> /\ doubt' = doubt \cup {x \in {d} : RunsOf(d) # {}}
  BY DEF Reclaim
<1>5. Types'
  BY <1>3, <1>4 DEF Types, rows
<1> QED
  BY <1>1, <1>3, <1>4, <1>5 DEF rows

\* reconcile: it lists what is orphaned, then fails what is still unsettled.
LEMMA ReconcileType ==
    ASSUME Types, NEW w \in Workers, FindOrphaned(w) \/ FailUnsettled(w)
    PROVE  /\ Types' /\ UNCHANGED <<job, posted, doubt, taken>>
           /\ \A v \in Workers \ {w} : task'[v] = task[v]
           /\ \/ FindOrphaned(w) /\ row' = row /\ task'[w] = [pc |-> "fail", list |-> Orphaned]
              \/ /\ FailUnsettled(w) /\ task'[w] = Idle
                 /\ \A d \in Deliveries :
                       \/ row'[d] = row[d]
                       \/ d \in task[w].list /\ row[d].status \in Unsettled /\ row'[d].status = "failed"
<1>1. CASE FindOrphaned(w)
  <2>1. [pc |-> "fail", list |-> Orphaned] \in Tasks
    BY DEF Tasks, FailTask, Orphaned
  <2>2. /\ task' \in [Workers -> Tasks] /\ \A v \in Workers \ {w} : task'[v] = task[v]
        /\ task'[w] = [pc |-> "fail", list |-> Orphaned] /\ UNCHANGED <<rows, job, marks>>
    BY <1>1, <2>1, BecomeTask DEF FindOrphaned
  <2>3. Types'
    BY <2>2 DEF Types, rows, marks
  <2> QED
    BY <1>1, <2>2, <2>3 DEF rows, marks
<1>2. CASE FailUnsettled(w)
  <2>1. /\ row' \in [Deliveries -> [status : Statuses, since : 0..Oldest]]
        /\ \A d \in Deliveries :
              \/ row'[d] = row[d]
              \/ d \in task[w].list /\ row[d].status \in Unsettled /\ row'[d].status = "failed"
    <3>1. ASSUME NEW d \in Deliveries
          PROVE  /\ [row[d] EXCEPT !.status = "failed"] \in [status : Statuses, since : 0..Oldest]
                 /\ [row[d] EXCEPT !.status = "failed"].status = "failed"
      BY DEF Types, Statuses
    <3> QED
      BY <1>2, <3>1 DEF FailUnsettled, Types
  <2>3. /\ task' \in [Workers -> Tasks] /\ task'[w] = Idle
        /\ \A v \in Workers \ {w} : task'[v] = task[v]
    BY <1>2, IdleType DEF FailUnsettled
  <2>4. UNCHANGED <<age, channel, blocked, job, marks>>
    BY <1>2 DEF FailUnsettled
  <2>5. Types'
    BY <2>1, <2>3, <2>4 DEF Types, marks
  <2> QED
    BY <1>2, <2>1, <2>3, <2>4, <2>5 DEF marks
<1> QED
  BY <1>1, <1>2

\* An invocation is killed.
LEMMA KillType ==
    ASSUME Types, NEW w \in Workers, Kill(w)
    PROVE  /\ Types' /\ UNCHANGED <<row, job, posted, taken>>
           /\ doubt \subseteq doubt' /\ task[w].d \in doubt'
           /\ task'[w] = Idle /\ \A v \in Workers \ {w} : task'[v] = task[v]
<1>1. task[w].d \in Deliveries
  BY TaskKinds DEF Kill, Running, At, Types
<1>2. doubt' \subseteq Deliveries /\ doubt \subseteq doubt' /\ task[w].d \in doubt'
  BY <1>1 DEF Kill, RunsOf, Types
<1>3. task' \in [Workers -> Tasks] /\ task'[w] = Idle /\ \A v \in Workers \ {w} : task'[v] = task[v]
  BY IdleType DEF Kill
<1>4. UNCHANGED <<rows, job, posted, taken>>
  BY DEF Kill
<1>5. Types'
  BY <1>2, <1>3, <1>4 DEF Types, rows
<1> QED
  BY <1>2, <1>3, <1>4, <1>5 DEF rows

\* Members and refused test messages change the channel only.
LEMMA ChannelType ==
    ASSUME Types, NEW c \in Channels, DeleteChannel(c) \/ ReenableChannel(c) \/ TestRefused(c)
    PROVE  Types' /\ UNCHANGED <<row, job, posted, doubt, taken, task>>
  BY DEF DeleteChannel, ReenableChannel, TestRefused, Types, marks

\* A run grows older and stays where it is.
LEMMA Aged ==
    ASSUME NEW t \in Tasks, t.pc \notin {"idle", "fail"}, t.age < Limit
    PROVE  LET u == [t EXCEPT !.age = @ + 1]
           IN  /\ u \in Tasks /\ u.pc = t.pc /\ u.d = t.d
               /\ t \in RunTask => u.from = t.from
               /\ t \in WriteTask => u.from = t.from /\ u.to = t.to
<1>1. t.age + 1 \in Times
  BY TaskKinds, Limits DEF Times
<1>2. t \in RunTask \cup WriteTask \cup EndTask
  BY TaskKinds DEF RunPCs
<1> DEFINE n == t.age + 1
<1> HIDE DEF n
<1>3. ASSUME t \in RunTask
      PROVE  LET u == [t EXCEPT !.age = n]
             IN  u \in RunTask /\ u.pc = t.pc /\ u.d = t.d /\ u.from = t.from
  BY <1>1, <1>3 DEF RunTask, n
<1>4. ASSUME t \in WriteTask
      PROVE  LET u == [t EXCEPT !.age = n]
             IN  u \in WriteTask /\ u.pc = t.pc /\ u.d = t.d /\ u.from = t.from /\ u.to = t.to
  BY <1>1, <1>4 DEF WriteTask, n
<1>5. ASSUME t \in EndTask
      PROVE  LET u == [t EXCEPT !.age = n] IN u \in EndTask /\ u.pc = t.pc /\ u.d = t.d
  BY <1>1, <1>5 DEF EndTask, n
<1>6. t \in RunTask => t \notin WriteTask
  BY DEF RunTask, WriteTask, RunPCs
<1>7. t \in EndTask => t \notin WriteTask /\ t \notin RunTask
  BY DEF RunTask, WriteTask, EndTask, RunPCs
<1> QED
  BY <1>2, <1>3, <1>4, <1>5, <1>6, <1>7 DEF Tasks, n

\* The clock moves: claims, waits and runs grow older, and nothing else changes.
LEMMA ElapseType ==
    ASSUME Types, Elapse
    PROVE  /\ Types' /\ UNCHANGED <<posted, doubt, taken>>
           /\ \A d \in Deliveries :
                 /\ row'[d].status = row[d].status
                 /\ row[d].status # "sending" => row'[d] = row[d]
                 /\ job'[d].status = job[d].status /\ job'[d].owner = job[d].owner
           /\ \A w \in Workers :
                 /\ task'[w].pc = task[w].pc
                 /\ ~Running(w) => task'[w] = task[w]
                 /\ Running(w) => task'[w].d = task[w].d
                 /\ task[w] \in RunTask => task'[w].from = task[w].from
                 /\ task[w] \in WriteTask => task'[w].from = task[w].from /\ task'[w].to = task[w].to
<1>1. /\ row' \in [Deliveries -> [status : Statuses, since : 0..Oldest]]
      /\ \A d \in Deliveries :
            /\ row'[d].status = row[d].status
            /\ row[d].status # "sending" => row'[d] = row[d]
  <2>1. ASSUME NEW d \in Deliveries
        PROVE  LET r == [row[d] EXCEPT !.since = Cap(@, Oldest)]
               IN  r \in [status : Statuses, since : 0..Oldest] /\ r.status = row[d].status
    <3>1. row[d] \in [status : Statuses, since : 0..Oldest]
      BY DEF Types
    <3>2. Cap(row[d].since, Oldest) \in 0..Oldest
      BY <3>1, Limits DEF Cap
    <3> QED
      BY <3>1, <3>2
  <2>2. row' = [d \in Deliveries |->
                  IF row[d].status = "sending" THEN [row[d] EXCEPT !.since = Cap(@, Oldest)] ELSE row[d]]
    BY DEF Elapse
  <2>3. ASSUME NEW d \in Deliveries
        PROVE  row'[d] \in [status : Statuses, since : 0..Oldest] /\ row'[d].status = row[d].status
               /\ (row[d].status # "sending" => row'[d] = row[d])
    BY <2>1, <2>2 DEF Types
  <2> QED
    BY <2>2, <2>3
<1>2. age' \in [Deliveries -> 0..Expired]
  <2>1. ASSUME NEW d \in Deliveries PROVE Cap(age[d], Expired) \in 0..Expired
    <3>1. age[d] \in 0..Expired
      BY DEF Types
    <3> QED
      BY <3>1, Limits DEF Cap
  <2> QED
    BY <2>1 DEF Elapse
<1>3. /\ job' \in [Deliveries -> JobRow] /\ \A d \in Deliveries : JobOK(job'[d])
      /\ \A d \in Deliveries : job'[d].status = job[d].status /\ job'[d].owner = job[d].owner
  <2>1. ASSUME NEW d \in Deliveries
        PROVE  LET j == [job[d] EXCEPT !.wait = Minus(@, 1), !.lock = Minus(@, 1)]
               IN  j \in JobRow /\ JobOK(j) /\ j.status = job[d].status /\ j.owner = job[d].owner
    <3>1. job[d] \in JobRow /\ JobOK(job[d])
      BY DEF Types
    <3> DEFINE a == Minus(job[d].wait, 1)
               b == Minus(job[d].lock, 1)
    <3>2. a \in Nat /\ b \in 0..Lock
      BY <3>1, Limits DEF Minus, JobRow
    <3> DEFINE j1 == [job[d] EXCEPT !.wait = a]
               j2 == [j1 EXCEPT !.lock = b]
    <3>3. [job[d] EXCEPT !.wait = Minus(@, 1), !.lock = Minus(@, 1)] = j2
      <4>1. j1.lock = job[d].lock
        BY <3>1 DEF JobRow
      <4> QED
        BY <4>1
    <3> HIDE DEF a, b
    <3>4. /\ j1 \in JobRow /\ j1.status = job[d].status /\ j1.owner = job[d].owner /\ j1.tries = job[d].tries
      BY <3>1, <3>2 DEF JobRow
    <3> HIDE DEF j1
    <3>5. /\ j2 \in JobRow /\ j2.status = job[d].status /\ j2.owner = job[d].owner /\ j2.tries = job[d].tries
      BY <3>2, <3>4 DEF JobRow
    <3> HIDE DEF j2
    <3> QED
      BY <3>1, <3>3, <3>5 DEF JobOK
  <2> QED
    BY <2>1 DEF Elapse
<1>4. blocked' \in [Buckets -> 0..Pause]
  <2>1. ASSUME NEW b \in Buckets PROVE Minus(blocked[b], 1) \in 0..Pause
    <3>1. blocked[b] \in 0..Pause
      BY DEF Types
    <3> QED
      BY <3>1, Limits DEF Minus
  <2> QED
    BY <2>1 DEF Elapse
<1>5. ASSUME NEW w \in Workers
      PROVE  /\ task'[w] \in Tasks /\ task'[w].pc = task[w].pc
             /\ ~Running(w) => task'[w] = task[w]
             /\ Running(w) => task'[w].d = task[w].d
             /\ task[w] \in RunTask => task'[w].from = task[w].from
             /\ task[w] \in WriteTask => task'[w].from = task[w].from /\ task'[w].to = task[w].to
  <2>1. CASE Running(w)
    <3>1. task[w] \in Tasks /\ task[w].age < Limit /\ task[w].pc \notin {"idle", "fail"}
      BY <2>1 DEF Elapse, Types, Running, At
    <3>2. task'[w] = [task[w] EXCEPT !.age = @ + 1]
      BY <2>1 DEF Elapse
    <3> QED
      BY <2>1, <3>1, <3>2, Aged
  <2>2. CASE ~Running(w)
    BY <2>2 DEF Elapse, Types
  <2> QED
    BY <2>1, <2>2
<1>6. task' \in [Workers -> Tasks]
  <2>1. task' = [w \in Workers |-> IF Running(w) THEN [task[w] EXCEPT !.age = @ + 1] ELSE task[w]]
    BY DEF Elapse
  <2>2. task' = [w \in Workers |-> task'[w]]
    BY <2>1
  <2> QED
    BY <1>5, <2>2
<1>7. UNCHANGED <<channel, posted, doubt, taken>>
  BY DEF Elapse, marks
<1>8. Types'
  BY <1>1, <1>2, <1>3, <1>4, <1>6, <1>7 DEF Types
<1>9. UNCHANGED <<posted, doubt, taken>>
  BY <1>7
<1>10. \A d \in Deliveries :
          /\ row'[d].status = row[d].status
          /\ row[d].status # "sending" => row'[d] = row[d]
          /\ job'[d].status = job[d].status /\ job'[d].owner = job[d].owner
  BY <1>1, <1>3
<1>11. \A w \in Workers :
          /\ task'[w].pc = task[w].pc
          /\ ~Running(w) => task'[w] = task[w]
          /\ Running(w) => task'[w].d = task[w].d
          /\ task[w] \in RunTask => task'[w].from = task[w].from
          /\ task[w] \in WriteTask => task'[w].from = task[w].from /\ task'[w].to = task[w].to
  BY <1>5, Zenon
<1> QED
  BY <1>8, <1>9, <1>10, <1>11

\* Every step leaves rows, jobs and tasks well formed.
LEMMA TypesStep == Types /\ [Next]_vars => Types'
<1> SUFFICES ASSUME Types, [Next]_vars PROVE Types'
  OBVIOUS
<1>1. CASE UNCHANGED vars
  BY <1>1 DEF vars, rows, marks, Types
<1> QED
  BY <1>1, BeforeSending, ClaimType, SendType, EffectType, UpdateType, ExhaustType, EndType,
     ReconcileType, KillType, StartType, ReclaimType, ChannelType, ElapseType DEF Next, WorkerStep

\* Types is an invariant.
LEMMA TypesAlways == Spec => []Types
  BY TypesInit, TypesStep, PTL DEF Spec

\* The rows, jobs and tasks have their types: no sequence of waits, retries and reclaims
\* gives a job an attempt it does not have, or a deferral past the cap.
THEOREM TypeSafety == Spec => []TypeOK
<1>1. Types => TypeOK
  <2> SUFFICES ASSUME Types PROVE TypeOK
    OBVIOUS
  <2>1. ASSUME NEW w \in Workers, Running(w)
        PROVE  /\ task[w].d \in Deliveries /\ task[w].age \in 0..Limit
               /\ task[w].pc \in {"write", "end"} => task[w].end \in Ends
    <3>1. task[w] \in Tasks /\ task[w].pc \notin {"idle", "fail"}
      BY <2>1 DEF Types, Running, At
    <3>2. /\ task[w].d \in Deliveries /\ task[w].age \in 0..Limit
          /\ task[w].pc = "write" => task[w] \in WriteTask
          /\ task[w].pc = "end" => task[w] \in EndTask
      BY <3>1, TaskKinds DEF Times
    <3> QED
      BY <3>2 DEF WriteTask, EndTask
  <2>2. \A d \in Deliveries : job[d] \in JobRow
    BY DEF Types
  <2> QED
    BY <2>1, <2>2 DEF Types, TypeOK, JobRow
<1> QED
  BY <1>1, TypesAlways, PTL

-----------------------------------------------------------------------------
(* A settled delivery stays settled                                        *)

\* A claim is taken of an unsettled row, an update is made from an unsettled status, and
\* reconcile fails what is unsettled when it writes.
LEMMA SettledStep ==
    ASSUME Types, [Next]_vars, NEW d \in Deliveries, row[d].status \notin Unsettled
    PROVE  row'[d] = row[d]
<1>0. row[d].status # "sending"
  BY DEF Unsettled
<1>1. ASSUME NEW w \in Workers, ClaimForSending(w) PROVE row'[d] = row[d]
  <2>1. Claimable(w, task[w].d) => row[task[w].d].status \in Unsettled
    BY DEF Claimable, DeadClaim, Unsettled
  <2> QED
    BY <1>1, <2>1, ClaimType
<1>2. ASSUME NEW w \in Workers, UpdateFrom(w) PROVE row'[d] = row[d]
  BY <1>2, UpdateType
<1>3. ASSUME NEW w \in Workers, FindOrphaned(w) \/ FailUnsettled(w) PROVE row'[d] = row[d]
  BY <1>3, ReconcileType
<1>4. CASE Elapse
  BY <1>0, <1>4, ElapseType
<1>5. CASE UNCHANGED vars
  BY <1>5 DEF vars, rows
<1> QED
  BY <1>1, <1>2, <1>3, <1>4, <1>5, BeforeSending, SendType, EffectType, ExhaustType, EndType,
     KillType, StartType, ReclaimType, ChannelType DEF Next, WorkerStep

\* A settled delivery is never written again, by no late answer, second run or reconcile,
\* however the limits compare.
THEOREM SettledStays == Spec => SettledFinal
<1>1. Types /\ [Next]_vars =>
          [\A d \in Deliveries : row[d].status \notin Unsettled => row'[d] = row[d]]_vars
  BY SettledStep
<1> QED
  BY <1>1, TypesAlways, PTL DEF Spec, SettledFinal

-----------------------------------------------------------------------------
(* One run at a time posts a delivery                                      *)

Checking == {"channel", "capacity", "claim"}
Sending == {"post", "effect", "write"}

\* A run that holds the claim it took, as far as it knows.
Sends(w) == task[w].pc \in Sending /\ task[w].from = "sending"

\* Nobody has found a claim of a delivery stale: its row leaves "sending" only by the
\* update of the run that holds the claim, and nobody reads "sending" as his to take.
ClaimsOK ==
    /\ \A w \in Workers :
          /\ task[w].pc \in Checking /\ task[w].from = "sending" => task[w].d \in taken
          /\ task[w].pc \in {"post", "effect"} => task[w].from = "sending"
          /\ Sends(w) => row[task[w].d].status # "queued" \/ task[w].d \in taken
    /\ \A w, v \in Workers :
          w # v /\ Sends(w) /\ Sends(v) /\ task[w].d = task[v].d => task[w].d \in taken

\* A step of one worker that queues no row which another run has claimed.
LEMMA ClaimsKept ==
    ASSUME Types, ClaimsOK, taken \subseteq taken',
           NEW w \in Workers, \A v \in Workers \ {w} : task'[v] = task[v],
           \A d \in Deliveries \ taken' :
               row'[d].status = "queued" =>
                   row[d].status = "queued" \/ \A v \in Workers \ {w} : Sends(v) => task[v].d # d,
           task'[w].pc \in Checking /\ task'[w].from = "sending" => task'[w].d \in taken',
           task'[w].pc \in {"post", "effect"} => task'[w].from = "sending",
           Sends(w)' => \/ task'[w].d \in taken'
                        \/ task'[w].d = task[w].d /\ Sends(w) /\ row' = row
                        \/ /\ row'[task'[w].d].status # "queued"
                           /\ \A v \in Workers \ {w} : Sends(v) => task[v].d # task'[w].d
    PROVE  ClaimsOK'
<1>1. ASSUME NEW v \in Workers, v # w, Sends(v)'
      PROVE  Sends(v) /\ task'[v] = task[v] /\ task[v].d \in Deliveries
  <2>1. task'[v] = task[v]
    BY <1>1
  <2>2. Sends(v)
    BY <1>1, <2>1 DEF Sends
  <2>3. task[v] \in Tasks /\ task[v].pc \notin {"idle", "fail"}
    BY <2>2 DEF Sends, Sending, Types
  <2> QED
    BY <2>1, <2>2, <2>3, TaskKinds
<1>2. ASSUME NEW v \in Workers, v # w
      PROVE  /\ task'[v].pc \in Checking /\ task'[v].from = "sending" => task'[v].d \in taken'
             /\ task'[v].pc \in {"post", "effect"} => task'[v].from = "sending"
             /\ Sends(v)' => row'[task'[v].d].status # "queued" \/ task'[v].d \in taken'
  <2>1. task'[v] = task[v]
    BY <1>2
  <2>2. /\ task'[v].pc \in Checking /\ task'[v].from = "sending" => task'[v].d \in taken'
        /\ task'[v].pc \in {"post", "effect"} => task'[v].from = "sending"
    BY <2>1 DEF ClaimsOK
  <2>3. Sends(v)' => row'[task'[v].d].status # "queued" \/ task'[v].d \in taken'
    BY <1>1, <1>2 DEF ClaimsOK
  <2> QED
    BY <2>2, <2>3
<1>3. Sends(w)' => row'[task'[w].d].status # "queued" \/ task'[w].d \in taken'
  <2> SUFFICES ASSUME Sends(w), row' = row, task'[w].d = task[w].d, task[w].d \notin taken
               PROVE  row'[task[w].d].status # "queued"
    BY DEF ClaimsOK
  <2>1. task[w].d \in Deliveries
    BY TaskKinds DEF Sends, Sending, Types
  <2>2. row[task[w].d].status # "queued"
    BY DEF ClaimsOK
  <2> QED
    BY <2>1, <2>2
<1>4. ASSUME NEW v \in Workers, v # w, Sends(v)', Sends(w)', task'[v].d = task'[w].d
      PROVE  task'[w].d \in taken'
  <2>1. Sends(v) /\ task'[v] = task[v]
    BY <1>1, <1>4
  <2>2. CASE task'[w].d = task[w].d /\ Sends(w)
    BY <1>4, <2>1, <2>2 DEF ClaimsOK
  <2> QED
    BY <1>4, <2>1, <2>2
<1>5. ASSUME NEW u \in Workers, NEW v \in Workers, u # v, Sends(u)', Sends(v)', task'[u].d = task'[v].d
      PROVE  task'[u].d \in taken'
  <2>1. CASE u = w \/ v = w
    BY <1>4, <1>5, <2>1
  <2>2. CASE u # w /\ v # w
    <3>1. /\ Sends(u) /\ task'[u] = task[u]
          /\ Sends(v) /\ task'[v] = task[v]
      BY <1>1, <1>5, <2>2
    <3> QED
      BY <1>5, <3>1 DEF ClaimsOK
  <2> QED
    BY <2>1, <2>2
<1> QED
  BY <1>2, <1>3, <1>5 DEF ClaimsOK

\* No run holds a claim at the start.
LEMMA ClaimsInit == Init => ClaimsOK
  BY DEF Init, ClaimsOK, Sends, Sending, Checking, Idle

\* Every step keeps the claims.
LEMMA ClaimsStep == Types /\ ClaimsOK /\ [Next]_vars => ClaimsOK'
<1> SUFFICES ASSUME Types, ClaimsOK, [Next]_vars PROVE ClaimsOK'
  OBVIOUS
<1>1. ASSUME NEW w \in Workers,
             Read(w) \/ CheckChannel(w) \/ CheckBuckets(w) \/ CheckShare(w) \/ Reread(w)
      PROVE  ClaimsOK'
  <2>1. /\ row' = row /\ taken \subseteq taken' /\ \A v \in Workers \ {w} : task'[v] = task[v]
        /\ task[w].d \in Deliveries /\ task'[w].d = task[w].d
        /\ task'[w].pc = "end" \/ IsPast(w) \/ HasChecked(w)
    BY <1>1, BeforeSending
  <2>2. task'[w].pc \in Checking /\ task'[w].from = "sending" => task'[w].d \in taken'
    BY <2>1 DEF IsPast, HasChecked, ClaimsOK, Checking
  <2>3. task'[w].pc \notin {"post", "effect"} /\ (Sends(w)' => task'[w].d \in taken')
    BY <2>1 DEF IsPast, HasChecked, ClaimsOK, Checking, Sends, Sending
  <2> QED
    BY <2>1, <2>2, <2>3, ClaimsKept
<1>2. ASSUME NEW w \in Workers, ClaimForSending(w) PROVE ClaimsOK'
  <2> DEFINE d == task[w].d
  <2>1. /\ taken' = taken \cup {x \in {d} : DeadClaim(w, d)} /\ \A v \in Workers \ {w} : task'[v] = task[v]
        /\ d \in Deliveries /\ task'[w].d = d
        /\ \A e \in Deliveries \ {d} : row'[e] = row[e]
        /\ \/ /\ Claimable(w, d) /\ row'[d].status = "sending"
              /\ task'[w].pc = "post" /\ task'[w].from = "sending"
           \/ ~Claimable(w, d) /\ row' = row /\ task'[w].pc = "reread"
    BY <1>2, ClaimType
  <2>2. taken \subseteq taken' /\ (DeadClaim(w, d) => d \in taken')
    BY <2>1
  <2>3. \A e \in Deliveries : row'[e].status = "queued" => row[e].status = "queued"
    BY <2>1
  <2>4. /\ task'[w].pc \in Checking /\ task'[w].from = "sending" => task'[w].d \in taken'
        /\ task'[w].pc \in {"post", "effect"} => task'[w].from = "sending"
    BY <2>1 DEF Checking
  <2>5. ASSUME Sends(w)', d \notin taken'
        PROVE  /\ row'[d].status # "queued"
               /\ \A v \in Workers \ {w} : Sends(v) => task[v].d # d
    <3>1. Claimable(w, d) /\ row'[d].status = "sending"
      BY <2>1, <2>5 DEF Sends, Sending
    <3>2. row[d].status = "queued"
      BY <2>2, <2>5, <3>1 DEF Claimable
    <3> QED
      BY <2>2, <2>5, <3>1, <3>2 DEF ClaimsOK
  <2> QED
    BY <2>1, <2>2, <2>3, <2>4, <2>5, ClaimsKept
<1>3. ASSUME NEW w \in Workers, row' = row, taken' = taken, \A v \in Workers \ {w} : task'[v] = task[v],
             task[w].pc \in {"post", "effect"}, task'[w].d = task[w].d, task'[w].from = task[w].from,
             task'[w].pc \in {"write", "effect"}
      PROVE  ClaimsOK'
  <2>1. task[w].from = "sending" /\ Sends(w)
    BY <1>3 DEF ClaimsOK, Sends, Sending
  <2>2. task'[w].pc \notin Checking /\ task'[w].from = "sending"
    BY <1>3, <2>1 DEF Checking
  <2> QED
    BY <1>3, <2>1, <2>2, ClaimsKept
<1>4. ASSUME NEW w \in Workers, NEW a \in Answers, SendMessage(w, a) PROVE ClaimsOK'
  BY <1>3, <1>4, SendType
<1>5. ASSUME NEW w \in Workers, RateLimited(w) \/ DisableChannel(w) \/ PauseSender(w) PROVE ClaimsOK'
  BY <1>3, <1>5, EffectType
<1>6. ASSUME NEW w \in Workers, UpdateFrom(w) PROVE ClaimsOK'
  <2> DEFINE d == task[w].d
  <2>1. /\ taken' = taken /\ \A v \in Workers \ {w} : task'[v] = task[v]
        /\ task'[w].pc \in {"exhaust", "end"} /\ task[w].pc = "write"
        /\ d \in Deliveries /\ task[w].from \in Unsettled
        /\ \A e \in Deliveries \ {d} : row'[e] = row[e]
        /\ row[d].status = task[w].from \/ row' = row
    BY <1>6, UpdateType
  <2>2. /\ task'[w].pc \notin Checking /\ task'[w].pc \notin {"post", "effect"} /\ ~Sends(w)'
    BY <2>1 DEF Checking, Sends, Sending
  <2>3. ASSUME row[d].status # "queued", row' # row, d \notin taken, NEW v \in Workers \ {w}, Sends(v)
        PROVE  task[v].d # d
    <3>1. Sends(w)
      BY <2>1, <2>3 DEF Sends, Sending, Unsettled
    <3> QED
      BY <2>3, <3>1 DEF ClaimsOK
  <2>4. \A e \in Deliveries \ taken' :
            row'[e].status = "queued" =>
                row[e].status = "queued" \/ \A v \in Workers \ {w} : Sends(v) => task[v].d # e
    BY <2>1, <2>3
  <2> QED
    BY <2>1, <2>2, <2>4, ClaimsKept
<1>7. ASSUME NEW w \in Workers, taken' = taken, \A v \in Workers \ {w} : task'[v] = task[v],
             task'[w].pc \in {"end", "idle", "fail", "read"},
             \A d \in Deliveries : row'[d].status = "queued" => row[d].status = "queued"
      PROVE  ClaimsOK'
  <2>1. task'[w].pc \notin Checking /\ task'[w].pc \notin {"post", "effect"} /\ ~Sends(w)'
    BY <1>7 DEF Checking, Sends, Sending
  <2> QED
    BY <1>7, <2>1, ClaimsKept
<1>8. ASSUME NEW w \in Workers, BlockExhausted(w) PROVE ClaimsOK'
  BY <1>7, <1>8, ExhaustType
<1>9. ASSUME NEW w \in Workers, End(w) PROVE ClaimsOK'
  BY <1>7, <1>9, EndType DEF Idle
<1>10. ASSUME NEW w \in Workers, FindOrphaned(w) \/ FailUnsettled(w) PROVE ClaimsOK'
  BY <1>7, <1>10, ReconcileType DEF Idle
<1>11. ASSUME NEW w \in Workers, Kill(w) PROVE ClaimsOK'
  BY <1>7, <1>11, KillType DEF Idle
<1>12. ASSUME NEW w \in Workers, NEW d \in Deliveries, Start(w, d) PROVE ClaimsOK'
  BY <1>7, <1>12, StartType
<1>13. ASSUME UNCHANGED <<row, taken, task>> PROVE ClaimsOK'
  BY <1>13 DEF ClaimsOK, Sends
<1>14. ASSUME NEW d \in Deliveries, Reclaim(d) PROVE ClaimsOK'
  BY <1>13, <1>14, ReclaimType
<1>15. ASSUME NEW c \in Channels, DeleteChannel(c) \/ ReenableChannel(c) \/ TestRefused(c) PROVE ClaimsOK'
  BY <1>13, <1>15, ChannelType
<1>16. CASE UNCHANGED vars
  BY <1>13, <1>16 DEF vars, rows, marks
<1>17. CASE Elapse
  <2>1. /\ taken' = taken /\ \A d \in Deliveries : row'[d].status = row[d].status
        /\ \A w \in Workers :
              /\ task'[w].pc = task[w].pc
              /\ Running(w) => task'[w].d = task[w].d
              /\ task[w] \in RunTask => task'[w].from = task[w].from
              /\ task[w] \in WriteTask => task'[w].from = task[w].from
    BY <1>17, ElapseType
  <2>2. ASSUME NEW w \in Workers, task[w].pc \in Checking \cup Sending
        PROVE  /\ task[w].d \in Deliveries /\ task'[w].d = task[w].d
               /\ task'[w].from = task[w].from /\ task'[w].pc = task[w].pc
    <3>1. task[w] \in Tasks /\ task[w].pc \in RunPCs \cup {"write"}
      BY <2>2 DEF Types, Checking, Sending, RunPCs
    <3>2. /\ task[w] \in RunTask \/ task[w] \in WriteTask
          /\ task[w].d \in Deliveries /\ Running(w)
      BY <2>2, <3>1, TaskKinds DEF Running, At, Checking, Sending
    <3> QED
      BY <2>1, <3>2
  <2>3. ASSUME NEW w \in Workers
        PROVE  /\ task'[w].pc \in Checking /\ task'[w].from = "sending" => task'[w].d \in taken'
               /\ task'[w].pc \in {"post", "effect"} => task'[w].from = "sending"
               /\ Sends(w)' => /\ Sends(w) /\ task'[w].d = task[w].d
                               /\ row'[task'[w].d].status # "queued" \/ task'[w].d \in taken'
    <3>0. task'[w].pc = task[w].pc
      BY <2>1
    <3>1. task'[w].pc \in Checking /\ task'[w].from = "sending" => task'[w].d \in taken'
      BY <2>1, <2>2, <3>0 DEF ClaimsOK
    <3>2. task'[w].pc \in {"post", "effect"} => task'[w].from = "sending"
      BY <2>2, <3>0 DEF ClaimsOK, Sending
    <3>3. Sends(w)' => /\ Sends(w) /\ task'[w].d = task[w].d
                       /\ row'[task'[w].d].status # "queued" \/ task'[w].d \in taken'
      BY <2>1, <2>2, <3>0 DEF ClaimsOK, Sends
    <3> QED
      BY <3>1, <3>2, <3>3
  <2>4. ASSUME NEW w \in Workers, NEW v \in Workers, w # v, Sends(w)', Sends(v)', task'[w].d = task'[v].d
        PROVE  task'[w].d \in taken'
    BY <2>1, <2>3, <2>4 DEF ClaimsOK
  <2> QED
    BY <2>3, <2>4 DEF ClaimsOK
<1> QED
  BY <1>1, <1>2, <1>4, <1>5, <1>6, <1>8, <1>9, <1>10, <1>11, <1>12, <1>14, <1>15, <1>16, <1>17
     DEF Next, WorkerStep

\* Two runs post one delivery at the same time only after a claim of it was found stale,
\* for any number of runs and however the limits compare.
THEOREM ClaimExcludes == Spec => []SendExclusive
<1>1. ClaimsOK => SendExclusive
  BY DEF ClaimsOK, SendExclusive, At, Sends, Sending
<1> QED
  BY <1>1, TypesAlways, ClaimsInit, ClaimsStep, PTL DEF Spec

-----------------------------------------------------------------------------
(* A posted message is recorded                                            *)

\* As long as no run of it was killed, outlived its lock or lost Discord's answer: a
\* delivery has one run, the one its job is claimed for, and the row has the status that
\* run updates from; reconcile holds it only when its job has ended for good.
RunsOwn ==
    \A w \in Workers : Running(w) =>
        task[w].d \in doubt \/ (job[task[w].d].status = "running" /\ job[task[w].d].owner = w)
ListsEnded ==
    \A w \in Workers : At(w, "fail") => \A d \in task[w].list : job[d].status \in {"done", "dead"}
RowsAgree ==
    \A w \in Workers : task[w].pc \in Checking \cup Sending =>
        task[w].d \in doubt \/ row[task[w].d].status = task[w].from
RecordedOK == RunsOwn /\ ListsEnded /\ RowsAgree /\ PostedIsRecorded

\* A worker that runs has a delivery.
LEMMA RunningOf ==
    ASSUME Types, NEW w \in Workers, Running(w)
    PROVE  task[w] \in Tasks /\ task[w].d \in Deliveries /\ w \in RunsOf(task[w].d)
  BY TaskKinds DEF Types, Running, At, RunsOf

\* The job of a delivery that is not in doubt names its run.
LEMMA OnlyRun ==
    ASSUME Types, RunsOwn, NEW w \in Workers, NEW v \in Workers, Running(w), Running(v),
           task[w].d = task[v].d, task[w].d \notin doubt
    PROVE  w = v
  BY DEF RunsOwn

\* A delivery is posted and not in doubt: it is recorded, or its run is about to.
LEMMA PostedBy ==
    ASSUME Types, RecordedOK, NEW w \in Workers, Running(w), task[w].d \in posted \ doubt
    PROVE  row[task[w].d].status = "sent" \/ (At(w, "write") /\ task[w].to = "sent")
<1> SUFFICES ASSUME row[task[w].d].status # "sent" PROVE At(w, "write") /\ task[w].to = "sent"
  OBVIOUS
<1>1. PICK v \in RunsOf(task[w].d) : At(v, "write") /\ task[v].to = "sent"
  BY DEF RecordedOK, PostedIsRecorded
<1>2. v \in Workers /\ Running(v) /\ task[v].d = task[w].d
  BY DEF RunsOf
<1>3. v = w
  BY <1>2, OnlyRun DEF RecordedOK
<1> QED
  BY <1>1, <1>3

\* A step of a run on its own row.
LEMMA OwnStep ==
    ASSUME Types, RecordedOK, NEW w \in Workers, Running(w), Running(w)', task'[w].d = task[w].d,
           \A v \in Workers \ {w} : task'[v] = task[v], job' = job, doubt \subseteq doubt',
           \A e \in Deliveries \ {task[w].d} : row'[e] = row[e] /\ (e \in posted' => e \in posted),
           posted' \subseteq Deliveries,
           task'[w].pc \in Checking \cup Sending =>
               task[w].d \in doubt' \/ row'[task[w].d].status = task'[w].from,
           task[w].d \in posted' \ doubt' =>
               row'[task[w].d].status = "sent" \/ (task'[w].pc = "write" /\ task'[w].to = "sent")
    PROVE  RecordedOK'
<1> DEFINE d == task[w].d
<1>0. d \in Deliveries
  BY RunningOf
<1>1. RunsOwn'
  <2>1. ASSUME NEW v \in Workers, Running(v)'
        PROVE  Running(v) /\ task'[v].d = task[v].d
    BY <2>1 DEF Running, At
  <2> QED
    BY <2>1 DEF RunsOwn, RecordedOK
<1>2. ListsEnded'
  <2>1. ASSUME NEW v \in Workers, At(v, "fail")'
        PROVE  At(v, "fail") /\ task'[v] = task[v]
    BY <2>1 DEF Running, At
  <2> QED
    BY <2>1 DEF ListsEnded, RecordedOK
<1>3. RowsAgree'
  <2>1. ASSUME NEW v \in Workers, v # w, task'[v].pc \in Checking \cup Sending, task'[v].d \notin doubt'
        PROVE  row'[task'[v].d].status = task'[v].from
    <3>1. task'[v] = task[v] /\ task[v].d \notin doubt /\ Running(v)
      BY <2>1 DEF Checking, Sending, Running, At
    <3>2. row[task[v].d].status = task[v].from /\ task[v].d \in Deliveries
      BY <2>1, <3>1, RunningOf DEF RecordedOK, RowsAgree
    <3>3. task[v].d # d
      BY <2>1, <3>1, OnlyRun DEF RecordedOK
    <3> QED
      BY <3>1, <3>2, <3>3
  <2> QED
    BY <2>1 DEF RowsAgree
<1>4. PostedIsRecorded'
  <2> SUFFICES ASSUME NEW e \in posted' \ doubt', row'[e].status # "sent"
               PROVE  \E v \in RunsOf(e)' : At(v, "write")' /\ task'[v].to = "sent"
    BY DEF PostedIsRecorded
  <2>1. CASE e = d
    BY <2>1 DEF RunsOf, Running, At
  <2>2. CASE e # d
    <3>1. e \in posted \ doubt /\ row[e].status # "sent"
      BY <2>2
    <3>2. PICK v \in RunsOf(e) : At(v, "write") /\ task[v].to = "sent"
      BY <3>1 DEF RecordedOK, PostedIsRecorded
    <3>3. v \in Workers /\ v # w /\ task'[v] = task[v]
      BY <2>2, <3>2 DEF RunsOf
    <3> QED
      BY <3>2, <3>3 DEF RunsOf, Running, At
  <2> QED
    BY <2>1, <2>2
<1> QED
  BY <1>1, <1>2, <1>3, <1>4 DEF RecordedOK

\* A worker starts or leaves a run, or lists what is orphaned, and no row changes.
LEMMA RowsStay ==
    ASSUME Types, RecordedOK, UNCHANGED <<row, posted>>, doubt \subseteq doubt',
           NEW w \in Workers, \A v \in Workers \ {w} : task'[v] = task[v],
           task'[w].pc \in {"idle", "read", "fail"},
           At(w, "write") => task[w].d \in doubt'
    PROVE  RowsAgree' /\ PostedIsRecorded'
<1>1. RowsAgree'
  BY DEF RowsAgree, RecordedOK, Checking, Sending
<1>2. PostedIsRecorded'
  <2> SUFFICES ASSUME NEW e \in posted' \ doubt', row'[e].status # "sent"
               PROVE  \E v \in RunsOf(e)' : At(v, "write")' /\ task'[v].to = "sent"
    BY DEF PostedIsRecorded
  <2>1. PICK v \in RunsOf(e) : At(v, "write") /\ task[v].to = "sent"
    BY DEF RecordedOK, PostedIsRecorded
  <2>2. v \in Workers /\ v # w /\ task'[v] = task[v]
    BY <2>1 DEF RunsOf
  <2> QED
    BY <2>1, <2>2 DEF RunsOf, Running, At
<1> QED
  BY <1>1, <1>2

\* Nothing is posted at the start.
LEMMA RecordedInit == Init => RecordedOK
  BY DEF Init, RecordedOK, RunsOwn, ListsEnded, RowsAgree, PostedIsRecorded, Idle, Running, At,
         Checking, Sending

\* The steps of a run keep it.
LEMMA RecordedRun ==
    ASSUME Types, RecordedOK, NEW w \in Workers,
           \/ Read(w) \/ CheckChannel(w) \/ CheckBuckets(w) \/ CheckShare(w) \/ Reread(w)
           \/ ClaimForSending(w) \/ (\E a \in Answers : SendMessage(w, a))
           \/ RateLimited(w) \/ DisableChannel(w) \/ PauseSender(w)
           \/ UpdateFrom(w) \/ BlockExhausted(w)
    PROVE  RecordedOK'
<1> DEFINE d == task[w].d
<1>0. ASSUME Running(w), ~At(w, "write"), d \in posted, d \notin doubt PROVE row[d].status = "sent"
  BY <1>0, PostedBy
<1>1. ASSUME Read(w) \/ CheckChannel(w) \/ CheckBuckets(w) \/ CheckShare(w) \/ Reread(w)
      PROVE  RecordedOK'
  <2>1. /\ Types' /\ UNCHANGED <<row, job, posted, doubt>>
        /\ \A v \in Workers \ {w} : task'[v] = task[v]
        /\ d \in Deliveries /\ task'[w].d = d
        /\ task[w].pc \in {"read", "channel", "capacity", "reread"}
        /\ task'[w].pc = "end" \/ IsPast(w) \/ HasChecked(w)
    BY <1>1, BeforeSending
  <2>2. Running(w) /\ ~At(w, "write") /\ Running(w)'
    BY <2>1 DEF Running, At, IsPast, HasChecked
  <2>3. task'[w].pc \in Checking \cup Sending => d \in doubt' \/ row'[d].status = task'[w].from
    BY <2>1 DEF IsPast, HasChecked, Checking, Sending, RecordedOK, RowsAgree
  <2>4. d \in posted' \ doubt' => row'[d].status = "sent"
    BY <1>0, <2>1, <2>2
  <2>5. posted' \subseteq Deliveries /\ doubt \subseteq doubt'
    BY <2>1 DEF Types
  <2> QED
    BY <2>1, <2>2, <2>3, <2>4, <2>5, OwnStep
<1>2. ASSUME ClaimForSending(w) PROVE RecordedOK'
  <2>1. /\ Types' /\ UNCHANGED <<job, posted, doubt>>
        /\ \A v \in Workers \ {w} : task'[v] = task[v]
        /\ task[w].pc = "claim" /\ d \in Deliveries /\ task'[w].d = d
        /\ \A e \in Deliveries \ {d} : row'[e] = row[e]
        /\ \/ /\ Claimable(w, d) /\ row'[d].status = "sending"
              /\ task'[w].pc = "post" /\ task'[w].from = "sending"
           \/ row' = row /\ task'[w].pc = "reread"
    BY <1>2, ClaimType
  <2>2. Running(w) /\ ~At(w, "write") /\ Running(w)'
    BY <2>1 DEF Running, At
  <2>3. task'[w].pc \in Checking \cup Sending => d \in doubt' \/ row'[d].status = task'[w].from
    BY <2>1 DEF Checking, Sending
  <2>4. d \in posted' \ doubt' => row'[d].status = "sent"
    BY <1>0, <2>1, <2>2 DEF Claimable, DeadClaim
  <2>5. posted' \subseteq Deliveries /\ doubt \subseteq doubt'
    BY <2>1 DEF Types
  <2> QED
    BY <2>1, <2>2, <2>3, <2>4, <2>5, OwnStep
<1>3. ASSUME NEW a \in Answers, SendMessage(w, a) PROVE RecordedOK'
  <2>1. /\ Types' /\ UNCHANGED <<row, job>>
        /\ \A v \in Workers \ {w} : task'[v] = task[v]
        /\ task[w].pc = "post" /\ d \in Deliveries
        /\ task'[w].d = d /\ task'[w].from = task[w].from /\ task'[w].pc \in {"write", "effect"}
        /\ a \in {"sent", "exhausted"} => task'[w].pc = "write" /\ task'[w].to = "sent"
        /\ posted' = posted \cup {x \in {d} : a \in {"sent", "exhausted", "ambiguous"}}
        /\ doubt' = doubt \cup {x \in {d} : a = "ambiguous"}
    BY <1>3, SendType
  <2>2. Running(w) /\ ~At(w, "write") /\ Running(w)'
    BY <2>1 DEF Running, At
  <2>3. task'[w].pc \in Checking \cup Sending => d \in doubt' \/ row'[d].status = task'[w].from
    BY <2>1 DEF Checking, Sending, RecordedOK, RowsAgree
  <2>4. d \in posted' \ doubt' => row'[d].status = "sent" \/ (task'[w].pc = "write" /\ task'[w].to = "sent")
    BY <1>0, <2>1, <2>2
  <2>5. posted' \subseteq Deliveries /\ doubt \subseteq doubt' /\ \A e \in Deliveries \ {d} : e \in posted' => e \in posted
    BY <2>1 DEF Types
  <2> QED
    BY <2>1, <2>2, <2>3, <2>4, <2>5, OwnStep
<1>4. ASSUME RateLimited(w) \/ DisableChannel(w) \/ PauseSender(w) PROVE RecordedOK'
  <2>1. /\ Types' /\ UNCHANGED <<row, job, posted, doubt>>
        /\ \A v \in Workers \ {w} : task'[v] = task[v]
        /\ task[w].pc = "effect" /\ d \in Deliveries
        /\ task'[w].pc = "write" /\ task'[w].d = d /\ task'[w].from = task[w].from
    BY <1>4, EffectType
  <2>2. Running(w) /\ ~At(w, "write") /\ Running(w)'
    BY <2>1 DEF Running, At
  <2>3. d \in doubt' \/ row'[d].status = task'[w].from
    BY <2>1 DEF Checking, Sending, RecordedOK, RowsAgree
  <2>4. d \in posted' \ doubt' => row'[d].status = "sent"
    BY <1>0, <2>1, <2>2
  <2>5. posted' \subseteq Deliveries /\ doubt \subseteq doubt'
    BY <2>1 DEF Types
  <2> QED
    BY <2>1, <2>2, <2>3, <2>4, <2>5, OwnStep
<1>5. ASSUME UpdateFrom(w) PROVE RecordedOK'
  <2>1. /\ Types' /\ UNCHANGED <<job, posted, doubt>>
        /\ \A v \in Workers \ {w} : task'[v] = task[v]
        /\ task'[w].pc \in {"exhaust", "end"} /\ task'[w].d = d
        /\ task[w].pc = "write" /\ d \in Deliveries /\ task[w].from \in Unsettled
        /\ \A e \in Deliveries \ {d} : row'[e] = row[e]
        /\ \/ row[d].status = task[w].from /\ row'[d].status = task[w].to
           \/ row[d].status # task[w].from /\ row' = row
    BY <1>5, UpdateType
  <2>2. Running(w) /\ Running(w)' /\ task'[w].pc \notin Checking \cup Sending
    BY <2>1 DEF Running, At, Checking, Sending
  <2>4. d \in posted' \ doubt' => row'[d].status = "sent"
    <3> SUFFICES ASSUME d \in posted \ doubt PROVE row'[d].status = "sent"
      BY <2>1
    <3>1. row[d].status = task[w].from
      BY <2>1 DEF RecordedOK, RowsAgree, Sending
    <3>2. task[w].to = "sent"
      BY <2>1, <2>2, <3>1, PostedBy DEF Unsettled
    <3> QED
      BY <2>1, <3>1, <3>2
  <2>5. posted' \subseteq Deliveries /\ doubt \subseteq doubt'
    BY <2>1 DEF Types
  <2> QED
    BY <2>1, <2>2, <2>4, <2>5, OwnStep
<1>6. ASSUME BlockExhausted(w) PROVE RecordedOK'
  <2>1. /\ Types' /\ UNCHANGED <<row, job, posted, doubt>>
        /\ \A v \in Workers \ {w} : task'[v] = task[v]
        /\ task[w].pc = "exhaust" /\ d \in Deliveries
        /\ task'[w].pc = "end" /\ task'[w].d = d
    BY <1>6, ExhaustType
  <2>2. Running(w) /\ ~At(w, "write") /\ Running(w)' /\ task'[w].pc \notin Checking \cup Sending
    BY <2>1 DEF Running, At, Checking, Sending
  <2>4. d \in posted' \ doubt' => row'[d].status = "sent"
    BY <1>0, <2>1, <2>2
  <2>5. posted' \subseteq Deliveries /\ doubt \subseteq doubt'
    BY <2>1 DEF Types
  <2> QED
    BY <2>1, <2>2, <2>4, <2>5, OwnStep
<1> QED
  BY <1>1, <1>2, <1>3, <1>4, <1>5, <1>6

\* Every step keeps it.
LEMMA RecordedStep == Types /\ RecordedOK /\ [Next]_vars => RecordedOK'
<1> SUFFICES ASSUME Types, RecordedOK, [Next]_vars PROVE RecordedOK'
  OBVIOUS
<1>1. ASSUME NEW w \in Workers, End(w) PROVE RecordedOK'
  <2> DEFINE d == task[w].d
  <2>1. /\ UNCHANGED <<row, posted, doubt>>
        /\ task'[w] = Idle /\ \A v \in Workers \ {w} : task'[v] = task[v]
        /\ task[w].pc = "end" /\ d \in Deliveries
        /\ \A e \in Deliveries \ {d} : job'[e] = job[e]
        /\ job' = job \/ (job[d].status = "running" /\ job[d].owner = w)
    BY <1>1, EndType
  <2>2. RunsOwn'
    <3> SUFFICES ASSUME NEW v \in Workers, Running(v)', task'[v].d \notin doubt'
                 PROVE  job'[task'[v].d].status = "running" /\ job'[task'[v].d].owner = v
      BY DEF RunsOwn
    <3>1. v # w /\ task'[v] = task[v] /\ Running(v)
      BY <2>1 DEF Running, At, Idle
    <3>2. Running(w)
      BY <2>1 DEF Running, At
    <3>3. task[v].d # d /\ task[v].d \in Deliveries
      BY <2>1, <3>1, <3>2, OnlyRun, RunningOf DEF RecordedOK
    <3> QED
      BY <2>1, <3>1, <3>3 DEF RunsOwn, RecordedOK
  <2>3. ListsEnded'
    <3> SUFFICES ASSUME NEW v \in Workers, At(v, "fail")', NEW e \in task'[v].list
                 PROVE  job'[e].status \in {"done", "dead"}
      BY DEF ListsEnded
    <3>1. v # w /\ task'[v] = task[v] /\ At(v, "fail")
      BY <2>1 DEF At, Idle
    <3>2. job[e].status \in {"done", "dead"} /\ e \in Deliveries
      <4>1. task[v] \in FailTask
        BY <3>1, TaskKinds DEF At, Types
      <4> QED
        BY <3>1, <4>1 DEF ListsEnded, RecordedOK, FailTask
    <3> QED
      BY <2>1, <3>2
  <2>4. RowsAgree' /\ PostedIsRecorded'
    BY <2>1, RowsStay DEF At, Idle
  <2> QED
    BY <2>2, <2>3, <2>4 DEF RecordedOK
<1>2. ASSUME NEW w \in Workers, NEW d \in Deliveries, Start(w, d) PROVE RecordedOK'
  <2>1. /\ UNCHANGED <<row, posted, doubt>>
        /\ \A v \in Workers \ {w} : task'[v] = task[v]
        /\ task[w].pc = "idle" /\ task'[w].pc = "read" /\ task'[w].d = d
        /\ job[d].status = "queued" /\ job'[d].status = "running" /\ job'[d].owner = w
        /\ \A e \in Deliveries \ {d} : job'[e] = job[e]
    BY <1>2, StartType
  <2>2. RunsOwn'
    <3> SUFFICES ASSUME NEW v \in Workers, Running(v)', task'[v].d \notin doubt'
                 PROVE  job'[task'[v].d].status = "running" /\ job'[task'[v].d].owner = v
      BY DEF RunsOwn
    <3>1. CASE v = w
      BY <2>1, <3>1
    <3>2. CASE v # w
      <4>1. task'[v] = task[v] /\ Running(v)
        BY <2>1, <3>2 DEF Running, At
      <4>2. /\ job[task[v].d].status = "running" /\ job[task[v].d].owner = v
            /\ task[v].d \in Deliveries
        BY <2>1, <4>1, RunningOf DEF RunsOwn, RecordedOK
      <4> QED
        BY <2>1, <4>1, <4>2
    <3> QED
      BY <3>1, <3>2
  <2>3. ListsEnded'
    <3> SUFFICES ASSUME NEW v \in Workers, At(v, "fail")', NEW e \in task'[v].list
                 PROVE  job'[e].status \in {"done", "dead"}
      BY DEF ListsEnded
    <3>1. v # w /\ task'[v] = task[v] /\ At(v, "fail")
      BY <2>1 DEF At
    <3>2. job[e].status \in {"done", "dead"} /\ e \in Deliveries
      <4>1. task[v] \in FailTask
        BY <3>1, TaskKinds DEF At, Types
      <4> QED
        BY <3>1, <4>1 DEF ListsEnded, RecordedOK, FailTask
    <3> QED
      BY <2>1, <3>2
  <2>4. RowsAgree' /\ PostedIsRecorded'
    BY <2>1, RowsStay DEF At
  <2> QED
    BY <2>2, <2>3, <2>4 DEF RecordedOK
<1>3. ASSUME NEW d \in Deliveries, Reclaim(d) PROVE RecordedOK'
  <2>1. /\ UNCHANGED <<row, posted, task>>
        /\ doubt' = doubt \cup {x \in {d} : RunsOf(d) # {}}
        /\ \A e \in Deliveries \ {d} : job'[e] = job[e]
        /\ job[d].status = "running"
    BY <1>3, ReclaimType
  <2>2. RunsOwn'
    <3> SUFFICES ASSUME NEW v \in Workers, Running(v), task[v].d \notin doubt'
                 PROVE  job'[task[v].d].status = "running" /\ job'[task[v].d].owner = v
      BY <2>1 DEF RunsOwn, Running, At
    <3>1. v \in RunsOf(task[v].d) /\ task[v].d \in Deliveries
      BY RunningOf
    <3>2. task[v].d # d /\ task[v].d \notin doubt
      BY <2>1, <3>1
    <3> QED
      BY <2>1, <3>1, <3>2 DEF RunsOwn, RecordedOK
  <2>3. ListsEnded'
    <3> SUFFICES ASSUME NEW v \in Workers, At(v, "fail"), NEW e \in task[v].list
                 PROVE  job'[e].status \in {"done", "dead"}
      BY <2>1 DEF ListsEnded, At
    <3>1. job[e].status \in {"done", "dead"} /\ e \in Deliveries
      <4>1. task[v] \in FailTask
        BY TaskKinds DEF At, Types
      <4> QED
        BY <4>1 DEF ListsEnded, RecordedOK, FailTask
    <3> QED
      BY <2>1, <3>1
  <2>4. RowsAgree' /\ PostedIsRecorded'
    BY <2>1 DEF RowsAgree, PostedIsRecorded, RecordedOK, RunsOf, Running, At
  <2> QED
    BY <2>2, <2>3, <2>4 DEF RecordedOK
<1>4. ASSUME NEW w \in Workers, Kill(w) PROVE RecordedOK'
  <2>1. /\ UNCHANGED <<row, job, posted>>
        /\ doubt \subseteq doubt' /\ task[w].d \in doubt'
        /\ task'[w] = Idle /\ \A v \in Workers \ {w} : task'[v] = task[v]
    BY <1>4, KillType
  <2>2. RunsOwn' /\ ListsEnded'
    BY <2>1 DEF RunsOwn, ListsEnded, RecordedOK, Running, At, Idle
  <2>3. RowsAgree' /\ PostedIsRecorded'
    BY <2>1, RowsStay DEF Idle
  <2> QED
    BY <2>2, <2>3 DEF RecordedOK
<1>5. ASSUME NEW w \in Workers, FindOrphaned(w) PROVE RecordedOK'
  <2>1. /\ UNCHANGED <<row, job, posted, doubt>>
        /\ \A v \in Workers \ {w} : task'[v] = task[v]
        /\ task[w].pc = "idle" /\ task'[w] = [pc |-> "fail", list |-> Orphaned]
    <3>1. task'[w] = [pc |-> "fail", list |-> Orphaned] /\ row' = row
      BY <1>5, BecomeTask DEF FindOrphaned, rows
    <3> QED
      BY <1>5, <3>1, ReconcileType DEF FindOrphaned, At
  <2>2. RunsOwn'
    BY <2>1 DEF RunsOwn, RecordedOK, Running, At
  <2>3. ListsEnded'
    BY <2>1 DEF ListsEnded, RecordedOK, At, Orphaned
  <2>4. RowsAgree' /\ PostedIsRecorded'
    BY <2>1, RowsStay DEF At
  <2> QED
    BY <2>2, <2>3, <2>4 DEF RecordedOK
<1>6. ASSUME NEW w \in Workers, FailUnsettled(w) PROVE RecordedOK'
  <2>1. /\ UNCHANGED <<job, posted, doubt>>
        /\ \A v \in Workers \ {w} : task'[v] = task[v]
        /\ At(w, "fail") /\ task'[w] = Idle
        /\ \A d \in Deliveries :
              row'[d] = row[d] \/ (d \in task[w].list /\ row[d].status \in Unsettled)
    <3>1. At(w, "fail") /\ task'[w] = Idle
      BY <1>6, IdleType DEF FailUnsettled
    <3>2. ~FindOrphaned(w)
      BY <3>1 DEF FindOrphaned, At
    <3> QED
      BY <1>6, <3>1, <3>2, ReconcileType
  <2>2. RunsOwn' /\ ListsEnded'
    BY <2>1 DEF RunsOwn, ListsEnded, RecordedOK, Running, At, Idle
  <2>3. ASSUME NEW v \in Workers, Running(v), task[v].d \notin doubt
        PROVE  v # w /\ task'[v] = task[v] /\ row'[task[v].d] = row[task[v].d]
    <3>1. v # w /\ task'[v] = task[v] /\ task[v].d \in Deliveries
      BY <2>1, <2>3, RunningOf DEF Running, At
    <3>2. job[task[v].d].status = "running"
      BY <2>3 DEF RunsOwn, RecordedOK
    <3>3. task[v].d \notin task[w].list
      BY <2>1, <3>2 DEF ListsEnded, RecordedOK
    <3> QED
      BY <2>1, <3>1, <3>3
  <2>4. RowsAgree'
    <3> SUFFICES ASSUME NEW v \in Workers, task'[v].pc \in Checking \cup Sending, task'[v].d \notin doubt'
                 PROVE  row'[task'[v].d].status = task'[v].from
      BY DEF RowsAgree
    <3>1. v # w /\ task'[v] = task[v] /\ Running(v)
      BY <2>1 DEF Checking, Sending, Running, At, Idle
    <3> QED
      BY <2>1, <2>3, <3>1 DEF RowsAgree, RecordedOK
  <2>5. PostedIsRecorded'
    <3> SUFFICES ASSUME NEW e \in posted' \ doubt', row'[e].status # "sent"
                 PROVE  \E v \in RunsOf(e)' : At(v, "write")' /\ task'[v].to = "sent"
      BY DEF PostedIsRecorded
    <3>1. row[e].status # "sent" /\ e \in posted \ doubt
      BY <2>1 DEF Unsettled, Types
    <3>2. PICK v \in RunsOf(e) : At(v, "write") /\ task[v].to = "sent"
      BY <3>1 DEF RecordedOK, PostedIsRecorded
    <3>3. v \in Workers /\ Running(v) /\ task[v].d = e
      BY DEF RunsOf
    <3>4. task'[v] = task[v]
      BY <2>3, <3>1, <3>3
    <3> QED
      BY <3>2, <3>3, <3>4 DEF RunsOf, Running, At
  <2> QED
    BY <2>2, <2>4, <2>5 DEF RecordedOK
<1>7. ASSUME UNCHANGED <<row, job, posted, doubt, task>> PROVE RecordedOK'
  BY <1>7 DEF RecordedOK, RunsOwn, ListsEnded, RowsAgree, PostedIsRecorded, RunsOf, Running, At
<1>8. ASSUME NEW c \in Channels, DeleteChannel(c) \/ ReenableChannel(c) \/ TestRefused(c) PROVE RecordedOK'
  BY <1>7, <1>8, ChannelType
<1>9. CASE UNCHANGED vars
  BY <1>7, <1>9 DEF vars, rows, marks
<1>10. CASE Elapse
  <2>1. /\ UNCHANGED <<posted, doubt>>
        /\ \A d \in Deliveries : /\ row'[d].status = row[d].status
                                 /\ job'[d].status = job[d].status /\ job'[d].owner = job[d].owner
        /\ \A w \in Workers :
              /\ task'[w].pc = task[w].pc
              /\ ~Running(w) => task'[w] = task[w]
              /\ Running(w) => task'[w].d = task[w].d
              /\ task[w] \in RunTask => task'[w].from = task[w].from
              /\ task[w] \in WriteTask => task'[w].from = task[w].from /\ task'[w].to = task[w].to
    BY <1>10, ElapseType
  <2>2. ASSUME NEW w \in Workers
        PROVE  /\ Running(w)' <=> Running(w)
               /\ Running(w) => task'[w].d = task[w].d /\ task[w].d \in Deliveries
    BY <2>1, RunningOf DEF Running, At
  <2>3. RunsOwn'
    BY <2>1, <2>2 DEF RunsOwn, RecordedOK
  <2>4. ListsEnded'
    <3> SUFFICES ASSUME NEW v \in Workers, At(v, "fail")', NEW e \in task'[v].list
                 PROVE  job'[e].status \in {"done", "dead"}
      BY DEF ListsEnded
    <3>1. task'[v] = task[v] /\ At(v, "fail")
      BY <2>1 DEF At, Running
    <3>2. task[v] \in FailTask
      BY <3>1, TaskKinds DEF At, Types
    <3> QED
      BY <2>1, <3>1, <3>2 DEF ListsEnded, RecordedOK, FailTask
  <2>5. RowsAgree'
    <3> SUFFICES ASSUME NEW v \in Workers, task'[v].pc \in Checking \cup Sending, task'[v].d \notin doubt'
                 PROVE  row'[task'[v].d].status = task'[v].from
      BY DEF RowsAgree
    <3>1. Running(v) /\ task[v].pc \in Checking \cup Sending
      BY <2>1 DEF Checking, Sending, Running, At
    <3>2. task[v].pc \in RunPCs \cup {"write"} /\ task[v] \in Tasks
      BY <3>1 DEF Checking, Sending, RunPCs, Types
    <3>3. task[v] \in RunTask \/ task[v] \in WriteTask
      BY <3>2, TaskKinds
    <3> QED
      BY <2>1, <2>2, <3>1, <3>3 DEF RowsAgree, RecordedOK
  <2>6. PostedIsRecorded'
    <3> SUFFICES ASSUME NEW e \in posted' \ doubt', row'[e].status # "sent"
                 PROVE  \E v \in RunsOf(e)' : At(v, "write")' /\ task'[v].to = "sent"
      BY DEF PostedIsRecorded
    <3>1. row[e].status # "sent" /\ e \in posted \ doubt
      BY <2>1 DEF Types
    <3>2. PICK v \in RunsOf(e) : At(v, "write") /\ task[v].to = "sent"
      BY <3>1 DEF RecordedOK, PostedIsRecorded
    <3>3. v \in Workers /\ Running(v) /\ task[v].d = e /\ task[v] \in WriteTask
      BY <3>2, TaskKinds DEF RunsOf, At, Types
    <3>4. Running(v)' /\ task'[v].d = e /\ At(v, "write")' /\ task'[v].to = "sent"
      BY <2>1, <2>2, <3>2, <3>3 DEF At
    <3> QED
      BY <3>3, <3>4 DEF RunsOf
  <2> QED
    BY <2>3, <2>4, <2>5, <2>6 DEF RecordedOK
<1> QED
  BY <1>1, <1>2, <1>3, <1>4, <1>5, <1>6, <1>8, <1>9, <1>10, RecordedRun DEF Next, WorkerStep

\* A message that was posted is recorded as sent, or its run is about to record it, unless
\* a run of it was killed, outlived its lock or lost Discord's answer.
THEOREM PostsAreRecorded == Spec => []PostedIsRecorded
<1>1. RecordedOK => PostedIsRecorded
  BY DEF RecordedOK
<1> QED
  BY <1>1, TypesAlways, RecordedInit, RecordedStep, PTL DEF Spec

-----------------------------------------------------------------------------
(* The limits of the code (JobTiming): a lock outlasts the invocation under it *)

\* At most one invocation runs a delivery at any time.
RunsAlone ==
    \A w, v \in Workers : Running(w) /\ Running(v) /\ task[w].d = task[v].d => w = v

\* A run has its job, whose lock has at most run down as far as the run has aged.
Covered(w) ==
    /\ job[task[w].d].status = "running" /\ job[task[w].d].owner = w
    /\ task[w].age + job[task[w].d].lock >= Lock
LocksCover == \A w \in Workers : Running(w) => Covered(w)

\* Its delivery and its age stay with a run that notes a status or an answer.
LEMMA TaskKeeps ==
    ASSUME NEW t \in RunTask, NEW pc, NEW x
    PROVE  /\ [t EXCEPT !.pc = pc, !.from = x].d = t.d /\ [t EXCEPT !.pc = pc, !.from = x].age = t.age
           /\ [t EXCEPT !.pc = pc, !.answer = x].d = t.d /\ [t EXCEPT !.pc = pc, !.answer = x].age = t.age
           /\ [t EXCEPT !.pc = pc, !.from = x].pc = pc /\ [t EXCEPT !.pc = pc, !.answer = x].pc = pc
<1> DEFINE u == [t EXCEPT !.pc = pc]
<1>1. /\ u.d = t.d /\ u.age = t.age /\ u.pc = pc
      /\ DOMAIN u = {"pc", "d", "age", "final", "from", "answer"} /\ u = [i \in DOMAIN u |-> u[i]]
  BY DEF RunTask
<1> HIDE DEF u
<1>2. /\ [u EXCEPT !.from = x].d = t.d /\ [u EXCEPT !.from = x].age = t.age
      /\ [u EXCEPT !.answer = x].d = t.d /\ [u EXCEPT !.answer = x].age = t.age
      /\ [u EXCEPT !.from = x].pc = pc /\ [u EXCEPT !.answer = x].pc = pc
  BY <1>1
<1> QED
  BY <1>2 DEF u

\* A statement of a run goes on with it, keeps its delivery and its age, and leaves the
\* job alone.
LEMMA RunGoesOn ==
    ASSUME Types, NEW w \in Workers,
           \/ Read(w) \/ CheckChannel(w) \/ CheckBuckets(w) \/ CheckShare(w) \/ Reread(w)
           \/ ClaimForSending(w) \/ (\E a \in Answers : SendMessage(w, a))
           \/ RateLimited(w) \/ DisableChannel(w) \/ PauseSender(w)
           \/ UpdateFrom(w) \/ BlockExhausted(w)
    PROVE  /\ Running(w) /\ task'[w].d = task[w].d /\ task'[w].age = task[w].age
           /\ Running(w)' /\ job' = job /\ \A v \in Workers \ {w} : task'[v] = task[v]
<1>0. job' = job /\ Running(w)
  BY DEF Read, CheckChannel, CheckBuckets, CheckShare, Reread, ClaimForSending, SendMessage, RateLimited,
         DisableChannel, PauseSender, UpdateFrom, BlockExhausted, Running, At
<1>1. task[w] \in RunTask \/ task[w] \in WriteTask
  <2>1. task[w].pc \in RunPCs \cup {"write", "exhaust"}
    BY DEF Read, CheckChannel, CheckBuckets, CheckShare, Reread, ClaimForSending, SendMessage, RateLimited,
           DisableChannel, PauseSender, UpdateFrom, BlockExhausted, At, RunPCs
  <2> QED
    BY <2>1, TaskKinds DEF Types
<1>2. ASSUME NEW t, Become(w, t) PROVE task'[w] = t /\ \A v \in Workers \ {w} : task'[v] = task[v]
  BY <1>2 DEF Become, Types
<1> DEFINE Same(t) == t.d = task[w].d /\ t.age = task[w].age /\ t.pc \notin {"idle", "fail"}
<1> DEFINE Moves == \E t : Become(w, t) /\ Same(t)
<1>3. ASSUME NEW to, NEW end, NEW wait, Write(w, to, end, wait) \/ Finish(w, end, wait) PROVE Moves
  BY <1>3 DEF Write, Finish
<1>4. ASSUME NEW pc, pc \notin {"idle", "fail"}, Goto(w, pc) PROVE Moves
  BY <1>1, <1>4 DEF Goto, RunTask, WriteTask
<1>5. ASSUME task[w] \in RunTask, NEW pc, pc \notin {"idle", "fail"}, NEW x,
             \/ Become(w, [task[w] EXCEPT !.pc = pc, !.from = x])
             \/ Become(w, [task[w] EXCEPT !.pc = pc, !.answer = x])
      PROVE  Moves
  <2> DEFINE u == [task[w] EXCEPT !.pc = pc, !.from = x]
             y == [task[w] EXCEPT !.pc = pc, !.answer = x]
  <2>1. Same(u) /\ Same(y)
    BY <1>5, TaskKeeps
  <2>2. Become(w, u) \/ Become(w, y)
    BY <1>5
  <2> HIDE DEF u, y
  <2> QED
    BY <2>1, <2>2
<1>6. ASSUME NEW wait, FreeWait(w, wait) PROVE Moves
  BY <1>3, <1>6 DEF FreeWait
<1>7. Moves
  <2>1. CASE Read(w)
    BY <1>3, <1>5, <2>1, RunOf DEF Read, WaitForOtherRun, At, RunPCs
  <2>2. CASE CheckChannel(w)
    BY <1>3, <1>4, <2>2, RunOf DEF CheckChannel, Types, At, RunPCs
  <2>3. CASE CheckBuckets(w) \/ CheckShare(w)
    BY <1>4, <1>6, <2>3 DEF CheckBuckets, CheckShare
  <2>4. CASE Reread(w)
    BY <1>3, <2>4 DEF Reread, WaitForOtherRun
  <2>5. CASE ClaimForSending(w)
    BY <1>4, <1>5, <2>5, RunOf DEF ClaimForSending, At, RunPCs, Unsettled
  <2>6. ASSUME NEW a \in Answers, SendMessage(w, a) PROVE Moves
    <3>1. task[w] \in RunTask
      BY <2>6, RunOf DEF SendMessage, At, RunPCs
    <3> QED
      BY <1>3, <1>5, <2>6, <3>1, DeliveryAssumption DEF SendMessage
  <2>7. CASE RateLimited(w) \/ DisableChannel(w) \/ PauseSender(w)
    BY <1>3, <1>6, <2>7 DEF RateLimited, DisableChannel, PauseSender
  <2>8. CASE UpdateFrom(w) \/ BlockExhausted(w)
    BY <1>3, <1>4, <2>8 DEF UpdateFrom, BlockExhausted
  <2> QED
    BY <2>1, <2>2, <2>3, <2>4, <2>5, <2>6, <2>7, <2>8
<1>8. PICK t : Become(w, t) /\ Same(t)
  BY <1>7
<1> QED
  BY <1>0, <1>2, <1>8 DEF Running, At

\* A worker and the job of its delivery stay as they are.
LEMMA CoveredStays ==
    ASSUME LocksCover, NEW w \in Workers, Running(w)',
           task'[w] = task[w], job'[task[w].d] = job[task[w].d]
    PROVE  Covered(w)'
  BY DEF LocksCover, Covered, Running, At

\* Every step keeps the locks of the runs ahead of them.
LEMMA CoverStep ==
    ASSUME Lock > Limit, Types, LocksCover, [Next]_vars
    PROVE  LocksCover'
<1> SUFFICES ASSUME NEW v \in Workers, Running(v)' PROVE Covered(v)'
  BY DEF LocksCover
<1>1. ASSUME NEW w \in Workers,
             \/ Read(w) \/ CheckChannel(w) \/ CheckBuckets(w) \/ CheckShare(w) \/ Reread(w)
             \/ ClaimForSending(w) \/ (\E a \in Answers : SendMessage(w, a))
             \/ RateLimited(w) \/ DisableChannel(w) \/ PauseSender(w)
             \/ UpdateFrom(w) \/ BlockExhausted(w)
      PROVE  Covered(v)'
  <2>1. /\ Running(w) /\ task'[w].d = task[w].d /\ task'[w].age = task[w].age
        /\ job' = job /\ \A u \in Workers \ {w} : task'[u] = task[u]
    BY <1>1, RunGoesOn
  <2>2. CASE v = w
    BY <2>1, <2>2 DEF LocksCover, Covered
  <2>3. CASE v # w
    BY <2>1, <2>3, CoveredStays
  <2> QED
    BY <2>2, <2>3
<1>2. ASSUME NEW w \in Workers, End(w) PROVE Covered(v)'
  <2>1. /\ task'[w] = Idle /\ \A u \in Workers \ {w} : task'[u] = task[u]
        /\ task[w].pc = "end" /\ task[w].d \in Deliveries
        /\ \A e \in Deliveries \ {task[w].d} : job'[e] = job[e]
    BY <1>2, EndType
  <2>2. v # w /\ task'[v] = task[v] /\ Running(v) /\ Running(w)
    BY <2>1 DEF Running, At, Idle
  <2>3. task[v].d # task[w].d /\ task[v].d \in Deliveries
    BY <2>2, RunningOf DEF LocksCover, Covered
  <2> QED
    BY <2>1, <2>2, <2>3, CoveredStays
<1>3. ASSUME NEW w \in Workers, NEW d \in Deliveries, Start(w, d) PROVE Covered(v)'
  <2>1. /\ \A u \in Workers \ {w} : task'[u] = task[u]
        /\ job[d].status = "queued" /\ job'[d].status = "running" /\ job'[d].owner = w
        /\ task'[w].d = d
        /\ \A e \in Deliveries \ {d} : job'[e] = job[e]
    BY <1>3, StartType
  <2>2. job'[d].lock = Lock /\ task'[w].age = 0
    BY <1>3 DEF Start, Become, Types, JobRow
  <2>3. CASE v = w
    BY <2>1, <2>2, <2>3, Limits DEF Covered
  <2>4. CASE v # w
    <3>1. task'[v] = task[v] /\ Running(v) /\ task[v].d \in Deliveries
      BY <2>1, <2>4, RunningOf DEF Running, At
    <3>2. task[v].d # d
      BY <2>1, <3>1 DEF LocksCover, Covered
    <3> QED
      BY <2>1, <3>1, <3>2, CoveredStays
  <2> QED
    BY <2>3, <2>4
<1>4. ASSUME NEW d \in Deliveries, Reclaim(d) PROVE Covered(v)'
  <2>1. task' = task /\ job[d].lock = 0 /\ \A e \in Deliveries \ {d} : job'[e] = job[e]
    BY <1>4, ReclaimType DEF Reclaim
  <2>2. Running(v) /\ task[v].d \in Deliveries /\ task[v].age \in 0..Limit
    BY <2>1, RunningOf, TaskKinds DEF Running, At, Times
  <2>3. task[v].d # d
    BY <2>1, <2>2, Limits DEF LocksCover, Covered
  <2> QED
    BY <2>1, <2>2, <2>3, CoveredStays
<1>5. ASSUME NEW w \in Workers, Kill(w) \/ FindOrphaned(w) \/ FailUnsettled(w) PROVE Covered(v)'
  <2>1. job' = job /\ ~Running(w)' /\ \A u \in Workers \ {w} : task'[u] = task[u]
    BY <1>5 DEF Kill, FindOrphaned, FailUnsettled, Become, Types, Running, At, Idle
  <2>2. v # w
    BY <2>1
  <2> QED
    BY <2>1, <2>2, CoveredStays
<1>6. CASE Elapse
  <2>1. Running(v) /\ task[v].d \in Deliveries /\ task[v].age \in Nat /\ task[v] \in Tasks
    <3>1. Running(v)
      BY <1>6, ElapseType DEF Running, At
    <3> QED
      BY <3>1, RunningOf, TaskKinds, Limits DEF Running, At, Times
  <2>2. task'[v].age = task[v].age + 1 /\ task'[v].d = task[v].d
    <3>1. task'[v] = [task[v] EXCEPT !.age = @ + 1]
      BY <1>6, <2>1 DEF Elapse
    <3>2. task[v] \in RunTask \/ task[v] \in WriteTask \/ task[v] \in EndTask
      BY <2>1, TaskKinds DEF Running, At
    <3> QED
      BY <3>1, <3>2 DEF RunTask, WriteTask, EndTask
  <2>3. /\ job[task[v].d].lock \in Nat /\ job'[task[v].d].lock \in Nat
        /\ job'[task[v].d].lock + 1 >= job[task[v].d].lock
        /\ job'[task[v].d].status = job[task[v].d].status /\ job'[task[v].d].owner = job[task[v].d].owner
    <3>1. job[task[v].d] \in JobRow
      BY <2>1 DEF Types
    <3>2. job'[task[v].d] = [job[task[v].d] EXCEPT !.wait = Minus(@, 1), !.lock = Minus(@, 1)]
      BY <1>6, <2>1 DEF Elapse
    <3> QED
      BY <3>1, <3>2, Limits DEF JobRow, Minus
  <2>4. Covered(v)
    BY <2>1 DEF LocksCover
  <2> QED
    BY <2>1, <2>2, <2>3, <2>4, Limits DEF Covered
<1>7. ASSUME UNCHANGED <<job, task>> PROVE Covered(v)'
  BY <1>7, CoveredStays
<1>8. ASSUME NEW c \in Channels, DeleteChannel(c) \/ ReenableChannel(c) \/ TestRefused(c) PROVE Covered(v)'
  BY <1>7, <1>8 DEF DeleteChannel, ReenableChannel, TestRefused
<1>9. CASE UNCHANGED vars
  BY <1>7, <1>9 DEF vars
<1> QED
  BY <1>1, <1>2, <1>3, <1>4, <1>5, <1>6, <1>8, <1>9 DEF Next, WorkerStep

\* Where the lock of a job outlasts every invocation (JobTiming: visibilityMs over
\* functionMaxDurationMs), no two invocations run a delivery at the same time, and so none
\* posts it beside another, whatever became of the claims that DeliveryRepo.claimForSending
\* writes.
THEOREM OneRunAtATime ==
    ASSUME Lock > Limit
    PROVE  Spec => []RunsAlone
<1>1. Init => LocksCover
  BY DEF Init, LocksCover, Running, At, Idle
<1>2. LocksCover => RunsAlone
  BY DEF LocksCover, Covered, RunsAlone
<1>3. Types /\ LocksCover /\ [Next]_vars => LocksCover'
  BY CoverStep
<1> QED
  BY <1>1, <1>2, <1>3, TypesAlways, PTL DEF Spec

-----------------------------------------------------------------------------
(* The contract of the job queue                                           *)

\* A step that changes the status of one job, or none, changes what stands there only.
LEMMA JobMoves ==
    ASSUME NEW d \in Deliveries, NEW s \in {"absent", "queued", "running"},
           \A x \in Deliveries \ {d} : job'[x].status = job[x].status,
           s = (IF job'[d].status \in {"queued", "running"} THEN job'[d].status ELSE "absent")
    PROVE  Standing' = [Standing EXCEPT ![d] = s]
<1>1. \A x \in Deliveries : Standing'[x] = IF x = d THEN s ELSE Standing[x]
  BY DEF Standing
<1>2. DOMAIN Standing = Deliveries /\ Standing' = [x \in Deliveries |-> Standing'[x]]
  BY DEF Standing
<1> QED
  BY <1>1, <1>2

\* Jobs that keep their status stand as they did.
LEMMA JobsStay ==
    ASSUME \A d \in Deliveries : job'[d].status = job[d].status
    PROVE  Standing' = Standing
  BY DEF Standing

\* Runs that go on, and workers that run nothing before and after a step, change
\* nothing of which deliveries are being run.
LEMMA BusyStays ==
    ASSUME \A v \in Workers : (Running(v)' <=> Running(v)) /\ (Running(v) => task'[v].d = task[v].d)
    PROVE  BusyWith' = BusyWith
<1>1. \A d \in Deliveries : RunsOf(d)' = RunsOf(d)
  BY DEF RunsOf
<1> QED
  BY <1>1 DEF BusyWith

\* What a run has: a delivery of its own, whose job is running under its name.
LEMMA RunStands ==
    ASSUME Types, LocksCover, NEW w \in Workers, Running(w)
    PROVE  /\ task[w].d \in Deliveries /\ task[w].d \in BusyWith
           /\ job[task[w].d].status = "running" /\ job[task[w].d].owner = w
           /\ Standing[task[w].d] = "running"
           /\ \A v \in Workers \ {w} : Running(v) => task[v].d # task[w].d
<1>1. task[w].d \in Deliveries
  BY RunningOf
<1>2. job[task[w].d].status = "running" /\ job[task[w].d].owner = w
  BY DEF LocksCover, Covered
<1>3. \A v \in Workers \ {w} : Running(v) => task[v].d # task[w].d
  BY <1>2 DEF LocksCover, Covered
<1> QED
  BY <1>1, <1>2, <1>3 DEF BusyWith, RunsOf, Standing

\* A run leaves its delivery, which no other run has.
LEMMA BusyEnds ==
    ASSUME Types, LocksCover, NEW w \in Workers, Running(w), ~Running(w)',
           \A v \in Workers \ {w} : task'[v] = task[v]
    PROVE  BusyWith' = BusyWith \ {task[w].d}
<1>1. \A v \in Workers \ {w} : (Running(v)' <=> Running(v)) /\ task'[v].d = task[v].d
  BY DEF Running, At
<1>2. \A v \in Workers \ {w} : Running(v) => task[v].d # task[w].d
  BY RunStands
<1>3. ASSUME NEW d \in Deliveries
      PROVE  RunsOf(d)' # {} <=> RunsOf(d) # {} /\ d # task[w].d
  BY <1>1, <1>2 DEF RunsOf
<1> QED
  BY <1>3 DEF BusyWith

\* A worker takes up a delivery.
LEMMA BusyStarts ==
    ASSUME NEW w \in Workers, ~Running(w), Running(w)', NEW d \in Deliveries, task'[w].d = d,
           \A v \in Workers \ {w} : task'[v] = task[v]
    PROVE  BusyWith' = BusyWith \cup {d}
<1>1. \A v \in Workers \ {w} : (Running(v)' <=> Running(v)) /\ task'[v].d = task[v].d
  BY DEF Running, At
<1>2. ASSUME NEW e \in Deliveries
      PROVE  RunsOf(e)' # {} <=> RunsOf(e) # {} \/ e = d
  BY <1>1 DEF RunsOf
<1> QED
  BY <1>2 DEF BusyWith

\* A job that is queued again.
LEMMA RequeueStatus ==
    ASSUME NEW j \in JobRow, NEW wait
    PROVE  LET q == Requeue(j, wait) IN
           /\ q.status = "queued"
           /\ DOMAIN q = {"status", "wait", "tries", "deferrals", "owner", "lock"}
           /\ q = [i \in DOMAIN q |-> q[i]]
<1> DEFINE q == Requeue(j, wait)
           a == [j EXCEPT !.status = "queued"]
           b == [a EXCEPT !.wait = wait]
           c == [b EXCEPT !.owner = "nobody"]
<1>1. /\ a.status = "queued" /\ DOMAIN a = {"status", "wait", "tries", "deferrals", "owner", "lock"}
      /\ a = [i \in DOMAIN a |-> a[i]]
  BY DEF JobRow
<1>2. q = [c EXCEPT !.lock = 0]
  BY DEF Requeue
<1> HIDE DEF a
<1>3. /\ b.status = "queued" /\ DOMAIN b = {"status", "wait", "tries", "deferrals", "owner", "lock"}
      /\ b = [i \in DOMAIN b |-> b[i]]
  BY <1>1
<1> HIDE DEF b
<1>4. /\ c.status = "queued" /\ DOMAIN c = {"status", "wait", "tries", "deferrals", "owner", "lock"}
      /\ c = [i \in DOMAIN c |-> c[i]]
  BY <1>3
<1> HIDE DEF c, q
<1>5. /\ q.status = "queued" /\ DOMAIN q = {"status", "wait", "tries", "deferrals", "owner", "lock"}
      /\ q = [i \in DOMAIN q |-> q[i]]
  BY <1>2, <1>4
<1> QED
  BY <1>5 DEF q

\* Whichever way a run ends, its job is queued again or over.
LEMMA EndedStatus ==
    ASSUME NEW j \in JobRow, NEW end \in Ends \ {"exhaust"}, NEW wait
    PROVE  Ended(j, end, wait).status \in {"queued", "done", "dead"}
<1>1. \A s : Over(s).status = s
  BY DEF Over
<1> DEFINE q == Requeue(j, wait)
<1>2. /\ q.status = "queued"
      /\ DOMAIN q = {"status", "wait", "tries", "deferrals", "owner", "lock"}
      /\ q = [i \in DOMAIN q |-> q[i]]
  BY RequeueStatus
<1> HIDE DEF q
<1>3. \A n, m : /\ [q EXCEPT !.tries = n].status = "queued" /\ [q EXCEPT !.deferrals = m].status = "queued"
  BY <1>2
<1>4. \A n, m : [[q EXCEPT !.tries = n] EXCEPT !.deferrals = m].status = "queued"
  <2> SUFFICES ASSUME NEW n, NEW m PROVE [[q EXCEPT !.tries = n] EXCEPT !.deferrals = m].status = "queued"
    OBVIOUS
  <2> DEFINE x == [q EXCEPT !.tries = n]
  <2>1. /\ x.status = "queued" /\ DOMAIN x = {"status", "wait", "tries", "deferrals", "owner", "lock"}
        /\ x = [i \in DOMAIN x |-> x[i]]
    BY <1>2
  <2> HIDE DEF x
  <2>2. [x EXCEPT !.deferrals = m].status = "queued"
    BY <2>1
  <2> QED
    BY <2>2 DEF x
<1>5. CASE end = "done"
  BY <1>1, <1>5 DEF Ended
<1>6. CASE end = "free"
  BY <1>3, <1>6 DEF Ended, q
<1>7. CASE end = "consuming"
  BY <1>1, <1>3, <1>4, <1>7 DEF Ended, q
<1>8. CASE end = "throw"
  BY <1>1, <1>3, <1>8 DEF Ended, q
<1> QED
  BY <1>5, <1>6, <1>7, <1>8 DEF Ends

\* The runner's write ends the job of its own run.
LEMMA EndSeen ==
    ASSUME Types, LocksCover, NEW w \in Workers, End(w)
    PROVE  [E!Next]_(E!contractVars)
<1>1. /\ task'[w] = Idle /\ \A v \in Workers \ {w} : task'[v] = task[v]
      /\ task[w].pc = "end" /\ task[w].d \in Deliveries
      /\ \A e \in Deliveries \ {task[w].d} : job'[e] = job[e]
  BY EndType
<1>2. Running(w) /\ ~Running(w)' /\ task[w] \in EndTask
  BY <1>1, TaskKinds DEF Running, At, Idle, Types
<1>3. PICK d \in Deliveries : d = task[w].d
  BY <1>1
<1>4. d \in BusyWith /\ Standing[d] = "running" /\ job[d].status = "running" /\ job[d].owner = w
  BY <1>2, <1>3, RunStands
<1>5. BusyWith' = BusyWith \ {d}
  BY <1>1, <1>2, <1>3, BusyEnds
<1>6. job'[d] = Ended(job[d], task[w].end, task[w].wait)
  BY <1>3, <1>4 DEF End, Types
<1>7. job'[d].status \in {"queued", "done", "dead"}
  BY <1>2, <1>6, EndedStatus DEF EndTask, Types
<1>8. CASE job'[d].status = "queued"
  <2>1. Standing' = [Standing EXCEPT ![d] = "queued"]
    BY <1>1, <1>3, <1>8, JobMoves
  <2> QED
    BY <1>4, <1>5, <2>1 DEF E!Next, E!End
<1>9. CASE job'[d].status # "queued"
  <2>1. Standing' = [Standing EXCEPT ![d] = "absent"]
    BY <1>1, <1>3, <1>7, <1>9, JobMoves
  <2> QED
    BY <1>4, <1>5, <2>1 DEF E!Next, E!End
<1> QED
  BY <1>8, <1>9

\* A claim starts the job of a delivery that nobody runs.
LEMMA StartSeen ==
    ASSUME Types, LocksCover, NEW w \in Workers, NEW d \in Deliveries, Start(w, d)
    PROVE  [E!Next]_(E!contractVars)
<1>1. /\ \A u \in Workers \ {w} : task'[u] = task[u]
      /\ job[d].status = "queued" /\ job'[d].status = "running"
      /\ task'[w].d = d
      /\ \A e \in Deliveries \ {d} : job'[e] = job[e]
  BY StartType
<1>2. ~Running(w) /\ Running(w)'
  BY DEF Start, Become, Types, Running, At
<1>3. d \notin BusyWith
  BY <1>1 DEF BusyWith, RunsOf, LocksCover, Covered
<1>4. Standing' = [Standing EXCEPT ![d] = "running"] /\ Standing[d] = "queued"
  BY <1>1, JobMoves DEF Standing
<1>5. BusyWith' = BusyWith \cup {d}
  BY <1>1, <1>2, BusyStarts
<1> QED
  BY <1>3, <1>4, <1>5 DEF E!Next, E!Start

\* A kill ends a run and leaves its job, which only the expiry of its lock moves.
LEMMA KillSeen ==
    ASSUME Types, LocksCover, NEW w \in Workers, Kill(w)
    PROVE  [E!Next]_(E!contractVars)
<1>1. /\ job' = job /\ Running(w) /\ ~Running(w)'
      /\ \A v \in Workers \ {w} : task'[v] = task[v]
  BY DEF Kill, Become, Types, Running, At, Idle
<1>2. PICK d \in Deliveries : d = task[w].d
  BY <1>1, RunStands
<1>3. d \in BusyWith /\ BusyWith' = BusyWith \ {d} /\ Standing' = Standing
  BY <1>1, <1>2, RunStands, BusyEnds, JobsStay
<1> QED
  BY <1>3 DEF E!Next, E!Die

\* An expired lock is that of a run that has died.
LEMMA ReclaimSeen ==
    ASSUME Lock > Limit, Types, LocksCover, NEW d \in Deliveries, Reclaim(d)
    PROVE  [E!Next]_(E!contractVars)
<1>1. /\ task' = task /\ job[d].status = "running" /\ job[d].lock = 0
      /\ \A e \in Deliveries \ {d} : job'[e] = job[e]
  BY ReclaimType DEF Reclaim
<1>2. d \notin BusyWith
  <2>1. ASSUME NEW v \in Workers, Running(v) PROVE task[v].d # d
    <3>1. task[v].age \in 0..Limit
      BY <2>1, RunningOf, TaskKinds DEF Running, At, Times
    <3> QED
      BY <1>1, <2>1, <3>1, Limits DEF LocksCover, Covered
  <2> QED
    BY <2>1 DEF BusyWith, RunsOf
<1>3. Standing[d] = "running" /\ BusyWith' = BusyWith
  BY <1>1 DEF Standing, BusyWith, RunsOf, Running, At
<1>4. job'[d].status \in {"queued", "dead"}
  <2>1. Over("dead").status = "dead"
    BY DEF Over
  <2>2. Requeue(job[d], 0).status = "queued"
        /\ DOMAIN Requeue(job[d], 0) = {"status", "wait", "tries", "deferrals", "owner", "lock"}
    BY RequeueStatus DEF Types
  <2>3. job'[d] = Over("dead") \/ job'[d] = [Requeue(job[d], 0) EXCEPT !.deferrals = 0]
    BY DEF Reclaim, Types
  <2> QED
    BY <2>1, <2>2, <2>3
<1> DEFINE T == IF job'[d].status = "queued" THEN {d} ELSE {}
<1>5. Standing' = [Standing EXCEPT ![d] = IF d \in T THEN "queued" ELSE "absent"]
  BY <1>1, <1>4, JobMoves
<1>6. Standing' = [x \in Deliveries |-> IF x \notin {d} THEN Standing[x]
                                        ELSE IF x \in T THEN "queued" ELSE "absent"]
  BY <1>5 DEF Standing
<1>7. E!Reclaim({d}, T) /\ T \in SUBSET {d}
  BY <1>2, <1>3, <1>6 DEF E!Reclaim
<1> QED
  BY <1>7 DEF E!Next

\* Every other step goes unseen.
LEMMA OtherUnseen ==
    ASSUME Types,
           \/ \E w \in Workers :
                 \/ Read(w) \/ CheckChannel(w) \/ CheckBuckets(w) \/ CheckShare(w) \/ Reread(w)
                 \/ ClaimForSending(w) \/ (\E a \in Answers : SendMessage(w, a))
                 \/ RateLimited(w) \/ DisableChannel(w) \/ PauseSender(w)
                 \/ UpdateFrom(w) \/ BlockExhausted(w)
                 \/ FindOrphaned(w) \/ FailUnsettled(w)
           \/ \E c \in Channels : DeleteChannel(c) \/ ReenableChannel(c) \/ TestRefused(c)
           \/ Elapse
           \/ UNCHANGED vars
    PROVE  [E!Next]_(E!contractVars)
<1> DEFINE SameRuns == \A v \in Workers : (Running(v)' <=> Running(v)) /\ (Running(v) => task'[v].d = task[v].d)
           SameJobs == \A d \in Deliveries : job'[d].status = job[d].status
<1>1. ASSUME NEW w \in Workers,
             \/ Read(w) \/ CheckChannel(w) \/ CheckBuckets(w) \/ CheckShare(w) \/ Reread(w)
             \/ ClaimForSending(w) \/ (\E a \in Answers : SendMessage(w, a))
             \/ RateLimited(w) \/ DisableChannel(w) \/ PauseSender(w)
             \/ UpdateFrom(w) \/ BlockExhausted(w)
      PROVE  SameRuns /\ SameJobs
  <2>1. /\ Running(w) /\ task'[w].d = task[w].d /\ Running(w)'
        /\ job' = job /\ \A u \in Workers \ {w} : task'[u] = task[u]
    BY <1>1, RunGoesOn
  <2>2. \A u \in Workers \ {w} : (Running(u)' <=> Running(u)) /\ task'[u].d = task[u].d
    BY <2>1 DEF Running, At
  <2> QED
    BY <2>1, <2>2
<1>2. ASSUME NEW w \in Workers, FindOrphaned(w) \/ FailUnsettled(w) PROVE SameRuns /\ SameJobs
  <2>1. job' = job /\ ~Running(w) /\ ~Running(w)' /\ \A u \in Workers \ {w} : task'[u] = task[u]
    BY <1>2 DEF FindOrphaned, FailUnsettled, Become, Types, Running, At, Idle
  <2>2. \A u \in Workers \ {w} : (Running(u)' <=> Running(u)) /\ task'[u].d = task[u].d
    BY <2>1 DEF Running, At
  <2> QED
    BY <2>1, <2>2
<1>3. ASSUME UNCHANGED <<job, task>> PROVE SameRuns /\ SameJobs
  BY <1>3 DEF Running, At
<1>4. ASSUME Elapse PROVE SameRuns /\ SameJobs
  <2>1. ASSUME NEW v \in Workers
        PROVE  (Running(v)' <=> Running(v)) /\ (Running(v) => task'[v].d = task[v].d)
    <3>1. CASE Running(v)
      <4>1. task'[v] = [task[v] EXCEPT !.age = @ + 1]
        BY <1>4, <3>1 DEF Elapse
      <4>2. task[v] \in RunTask \/ task[v] \in WriteTask \/ task[v] \in EndTask
        BY <3>1, TaskKinds DEF Running, At, Types
      <4>3. task'[v].d = task[v].d /\ task'[v].pc = task[v].pc
        BY <4>1, <4>2 DEF RunTask, WriteTask, EndTask
      <4> QED
        BY <3>1, <4>3 DEF Running, At
    <3>2. CASE ~Running(v)
      <4>1. task'[v] = task[v]
        BY <1>4, <3>2 DEF Elapse
      <4> QED
        BY <3>2, <4>1 DEF Running, At
    <3> QED
      BY <3>1, <3>2
  <2>2. ASSUME NEW d \in Deliveries PROVE job'[d].status = job[d].status
    <3>1. job[d] \in JobRow
      BY DEF Types
    <3>2. job'[d] = [job[d] EXCEPT !.wait = Minus(@, 1), !.lock = Minus(@, 1)]
      BY <1>4 DEF Elapse
    <3> QED
      BY <3>1, <3>2 DEF JobRow
  <2> QED
    BY <2>1, <2>2
<1>5. ASSUME NEW c \in Channels, DeleteChannel(c) \/ ReenableChannel(c) \/ TestRefused(c)
      PROVE  SameRuns /\ SameJobs
  BY <1>3, <1>5 DEF DeleteChannel, ReenableChannel, TestRefused
<1>6. ASSUME UNCHANGED vars PROVE SameRuns /\ SameJobs
  BY <1>3, <1>6 DEF vars
<1>7. SameRuns /\ SameJobs
  BY <1>1, <1>2, <1>4, <1>5, <1>6
<1> HIDE DEF SameRuns, SameJobs
<1>8. Standing' = Standing /\ BusyWith' = BusyWith
  BY <1>7, JobsStay, BusyStays DEF SameRuns, SameJobs
<1> QED
  BY <1>8 DEF E!contractVars

\* Where the lock of a job outlasts every invocation (JobTiming), the notification.deliver
\* jobs keep the promise of the queue (ExclusiveJobs): one run at a time, which alone ends
\* its job by completing, deferring or failing it, and only a killed run loses it.
THEOREM JobsKeepContract ==
    ASSUME Lock > Limit
    PROVE  Spec => JobsExclusive
<1>1. Init => E!Init /\ LocksCover
  <2> SUFFICES ASSUME Init PROVE E!Init /\ LocksCover
    OBVIOUS
  <2>1. \A w \in Workers : ~Running(w)
    BY DEF Init, Running, At, Idle
  <2>2. Standing = [d \in Deliveries |-> "queued"]
    BY DEF Init, Standing
  <2>3. BusyWith = {} /\ LocksCover
    BY <2>1 DEF BusyWith, RunsOf, LocksCover
  <2> QED
    BY <2>2, <2>3 DEF E!Init
<1>2. Types /\ LocksCover /\ [Next]_vars => LocksCover'
  BY CoverStep
<1>3. Types /\ LocksCover /\ [Next]_vars => [E!Next]_(E!contractVars)
  BY EndSeen, StartSeen, KillSeen, ReclaimSeen, OtherUnseen DEF Next, WorkerStep
<1> QED
  BY <1>1, <1>2, <1>3, TypesAlways, PTL DEF Spec, JobsExclusive, E!Spec
=============================================================================
