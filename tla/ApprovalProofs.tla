---------------------------- MODULE ApprovalProofs ----------------------------
(***************************************************************************)
(* Proofs about Approval, for every set of requests and users, every       *)
(* requirement and every number of concurrent invocations.                 *)
(***************************************************************************)
EXTENDS Approval, TLAPS

\* A quorum stays a quorum when more people approve.
LEMMA FilledMonotone ==
    ASSUME NEW req, NEW S, NEW T, S \subseteq T, Filled(req, S)
    PROVE  Filled(req, T)
<1>1. PICK f \in [RoleSlots(req) -> S] :
          /\ \A s \in RoleSlots(req) : s[1] \in RolesOf[f[s]]
          /\ IsInjective(f)
  BY DEF Filled
<1>2. f \in [RoleSlots(req) -> T]
  OBVIOUS
<1> QED
  BY <1>1, <1>2 DEF Filled

\* Nobody fills no slot: a gate that requires somebody is not met by no one.
LEMMA NobodyFillsNothing ==
    ASSUME NEW req \in Requirement, RequiredRoles(req) # {}
    PROVE  ~Filled(req, {})
<1>1. PICK r \in Roles : req[r] > 0
  BY DEF RequiredRoles
<1>2. req[r] \in Nat
  BY DEF Requirement
<1>3. <<r, 1>> \in RoleSlots(req)
  BY <1>1, <1>2 DEF RoleSlots
<1> QED
  BY <1>3 DEF Filled

USE DEF Subjects, PreApprovals, ApprovalStates, Decisions, VotePCs

\* A step of one worker, to a task it has earned, that runs and wins nothing.
Plain(w, x) ==
    /\ x \in Task
    /\ Earned(x)
    /\ x.pc \notin {"apply", "tell"}
    /\ Become(w, x)

\* A worker closes a request without deciding it, or leaves the rows alone.
Closes(w) ==
    /\ \E x : Plain(w, x)
    /\ \/ state' = state
       \/ \E q \in Requests, new \in {"superseded", "expired"} : ResolveIfPending(q, new)
    /\ UNCHANGED <<due, votes, applied, told>>

\* A row is created, by a worker that is done or by a single statement.
Creates ==
    /\ \E q \in Requests : state[q] = "none" /\ state' = [state EXCEPT ![q] = "pending"]
    /\ \/ \E w \in Workers : Plain(w, Idle)
       \/ task' = task
    /\ UNCHANGED <<due, votes, applied, told>>

\* The idle task has earned all it needs.
LEMMA IdleFacts == Idle \in Task /\ Earned(Idle) /\ Idle.pc = "idle"
BY DEF Idle, Task, Earned

\* Every task has its shape.
LEMMA TaskShape ==
    ASSUME NEW x \in Task
    PROVE  /\ x.pc \in VotePCs \cup {"idle", "supersede", "sweep", "dead"}
           /\ x.pc = "idle" => x = Idle
           /\ x.pc \in VotePCs =>
                 /\ x.req \in Requests /\ x.user \in Users
                 /\ x.say \in Decisions \cup {"resumed", "rejected"}
                 /\ x = Voting(x.pc, x.req, x.user, x.say)
           /\ x.pc = "supersede" =>
                 /\ x.subject \in Subjects /\ x.list \in SUBSET Requests
                 /\ x.then \in {"request", "stop"}
           /\ x.pc = "sweep" => x.list \in SUBSET Requests
BY DEF Task, Idle, Voting

\* Building the tasks.
LEMMA VotingTask ==
    ASSUME NEW pc \in VotePCs, NEW q \in Requests, NEW u \in Users,
           NEW say \in Decisions \cup {"resumed", "rejected"}
    PROVE  /\ Voting(pc, q, u, say) \in Task
           /\ Voting(pc, q, u, say).pc = pc
           /\ Voting(pc, q, u, say).req = q
           /\ Voting(pc, q, u, say).user = u
           /\ Voting(pc, q, u, say).say = say
BY DEF Task, Voting

\* A task that lists requests has nothing to earn.
LEMMA ListingTask ==
    ASSUME NEW list \in SUBSET Requests
    PROVE  /\ Sweeping(list) \in Task
           /\ Sweeping(list).pc = "sweep"
           /\ Earned(Sweeping(list))
           /\ \A s \in Subjects, then \in {"request", "stop"} :
                 /\ Superseding(s, list, then) \in Task
                 /\ Superseding(s, list, then).pc = "supersede"
                 /\ Earned(Superseding(s, list, then))
BY DEF Task, Superseding, Sweeping, Earned

\* Nor has a worker that was killed.
LEMMA DeadTask ==
    ASSUME NEW x \in Task, x.pc \notin {"idle", "dead"}
    PROVE  /\ Dead(x) \in Task
           /\ Dead(x).pc = "dead"
           /\ Earned(Dead(x))
<1>1. /\ x.pc \in VotePCs \cup {"supersede", "sweep"}
      /\ x.pc \in VotePCs => x.req \in Requests
  BY TaskShape
<1>2. PICK of \in SUBSET Requests : Dead(x) = [pc |-> "dead", at |-> x.pc, of |-> of]
  BY <1>1 DEF Dead
<1> QED
  BY <1>1, <1>2 DEF Task, Earned

\* With every vote admitted by checkVote, a quorum is one of independent people.
LEMMA QuorumIsIndependent ==
    ASSUME VotesChecked, NEW q \in Requests
    PROVE  Independent(q) = ApproversOf(q)
BY ApprovalAssumption DEF Independent, ApproversOf, VotesChecked, MayVote, CheckVote

\* What the verdict on a request says of the votes on it.
LEMMA VerdictMeans ==
    ASSUME VotesChecked, NEW q \in Requests
    PROVE  /\ Verdict(q) \in {"pending", "resumed", "rejected"}
           /\ Verdict(q) = "resumed" => Approved(q)
           /\ Verdict(q) = "rejected" => RejectersOf(q) # {}
BY QuorumIsIndependent DEF Verdict, Outcome, Approved

\* The steps of a worker that close requests or only read.
LEMMA Closing ==
    ASSUME Inv, NEW w \in Workers, Begin(w) \/ Continue(w) \/ Crash(w),
           ~VoteInsert(w), ~VoteResolve(w), ~Apply(w), ~TellRejected(w),
           \A q \in Requests : ~CreateRequest(w, q)
    PROVE  Closes(w)
<1> USE IdleFacts, VotingTask, ListingTask
<1>0. /\ task[w] \in Task
      /\ Earned(task[w])
      /\ due \subseteq Requests
  BY ApprovalAssumption DEF Inv, TypeOK
<1>1. CASE \E s \in Subjects, then \in {"request", "stop"} : ListPending(w, s, then)
  BY <1>1 DEF ListPending, Closes, Plain, rows
<1>2. CASE \E q \in Requests, u \in Users, d \in Decisions : VoteRead(w, q, u, d)
  BY <1>2 DEF VoteRead, Closes, Plain, rows, Earned
<1>3. CASE \E q \in Requests, u \in Users, d \in Decisions : VoteLate(w, q, u, d)
  BY <1>3 DEF VoteLate, Closes, Plain, rows, Earned
<1>4. CASE ListExpired(w)
  BY <1>0, <1>4 DEF ListExpired, Closes, Plain, rows
<1>5. CASE \E q \in Requests : SupersedeOne(w, q)
  BY <1>0, <1>5, TaskShape DEF SupersedeOne, Closes, Plain
<1>6. CASE \E q \in Requests : ExpireOne(w, q)
  BY <1>0, <1>6, TaskShape DEF ExpireOne, Closes, Plain
<1>7. CASE SupersedeDone(w) \/ ExpireDone(w)
  BY <1>7 DEF SupersedeDone, ExpireDone, Closes, Plain, rows
<1>10. CASE Crash(w)
  BY <1>0, <1>10, DeadTask DEF Crash, Closes, Plain, rows
<1>8. CASE ExpireLate(w)
  BY <1>0, <1>8, TaskShape DEF ExpireLate, Closes, Plain
<1>9. CASE VoteEvaluate(w)
  <2> DEFINE q == task[w].req
             x == Voting("resolve", q, task[w].user, Verdict(q))
  <2>1. q \in Requests /\ task[w].user \in Users
    BY <1>0, <1>9, TaskShape DEF VoteEvaluate
  <2>2. CASE Become(w, Idle)
    BY <1>9, <2>2 DEF VoteEvaluate, Closes, Plain, rows
  <2>3. CASE Verdict(q) # "pending" /\ Become(w, x)
    <3>1. /\ Verdict(q) \in {"resumed", "rejected"}
          /\ Verdict(q) = "resumed" => Approved(q)
          /\ Verdict(q) = "rejected" => RejectersOf(q) # {}
      BY <2>1, <2>3, VerdictMeans DEF Inv
    <3> QED
      BY <1>9, <2>1, <2>3, <3>1 DEF VoteEvaluate, Closes, Plain, rows, Earned
  <2> QED
    BY <1>9, <2>2, <2>3 DEF VoteEvaluate
<1> QED
  BY <1>1, <1>2, <1>3, <1>4, <1>5, <1>6, <1>7, <1>8, <1>9, <1>10 DEF Begin, Continue

\* Every step, by what it does to the rows.
LEMMA StepKinds ==
    ASSUME Inv, Next
    PROVE  \/ \E w \in Workers : \/ Closes(w) \/ VoteInsert(w) \/ VoteResolve(w)
                                 \/ Apply(w) \/ TellRejected(w)
           \/ Creates
           \/ \E q \in Requests : Elapse(q)
<1>1. CASE \E q \in Requests : OpenReview(q)
  BY <1>1 DEF OpenReview, Creates
<1>2. CASE \E w \in Workers, q \in Requests : CreateRequest(w, q)
  BY <1>2, IdleFacts DEF CreateRequest, Creates, Plain
<1> QED
  BY <1>1, <1>2, Closing DEF Next

-----------------------------------------------------------------------------
\* Votes are never taken back.
Grows ==
    \A q \in Requests : /\ ApproversOf(q) \subseteq ApproversOf(q)'
                        /\ RejectersOf(q) \subseteq RejectersOf(q)'

\* Every step only adds votes, each one admitted by checkVote.
LEMMA VotesStep ==
    ASSUME Inv, Next
    PROVE  /\ votes' \in [Requests -> [Users -> Decisions \cup {"none"}]]
           /\ Grows
           /\ VotesChecked'
<1>1. CASE votes' = votes
  BY <1>1 DEF Inv, TypeOK, Grows, VotesChecked, ApproversOf, RejectersOf, MayVote
<1>2. CASE \E w \in Workers : VoteInsert(w) /\ votes' # votes
  <2>1. PICK w \in Workers : VoteInsert(w) /\ votes' # votes
    BY <1>2
  <2> DEFINE q == task[w].req
             u == task[w].user
  <2>2. /\ q \in Requests /\ u \in Users
        /\ MayVote(q, u) /\ task[w].say \in Decisions
    BY <2>1, TaskShape DEF VoteInsert, Inv, TypeOK, Earned
  <2>3. /\ votes[q][u] = "none"
        /\ votes' = [votes EXCEPT ![q][u] = task[w].say]
    BY <2>1 DEF VoteInsert
  <2>4. votes \in [Requests -> [Users -> Decisions \cup {"none"}]]
    BY DEF Inv, TypeOK
  <2>5. \A p \in Requests, v \in Users :
            votes'[p][v] = IF p = q /\ v = u THEN task[w].say ELSE votes[p][v]
    BY <2>2, <2>3, <2>4
  <2>6. votes' \in [Requests -> [Users -> Decisions \cup {"none"}]]
    BY <2>2, <2>3, <2>4
  <2>7. Grows
    BY <2>3, <2>5 DEF Grows, ApproversOf, RejectersOf
  <2>8. VotesChecked'
    BY <2>2, <2>5 DEF Inv, VotesChecked, MayVote
  <2> QED
    BY <2>6, <2>7, <2>8
<1> QED
  BY <1>1, <1>2, StepKinds DEF Closes, Creates, VoteResolve, Apply, TellRejected, Elapse

\* A request that has its quorum, or a reject, keeps it.
LEMMA ApprovedStable ==
    ASSUME Grows, NEW q \in Requests
    PROVE  /\ Approved(q) => Approved(q)'
           /\ RejectersOf(q) # {} => RejectersOf(q)' # {}
<1>1. Independent(q) \subseteq Independent(q)'
  BY DEF Grows, Independent
<1>2. Approved(q) => Filled(Required[q], Independent(q)')
  BY <1>1, FilledMonotone DEF Approved
<1> QED
  BY <1>2 DEF Approved, Grows

\* A step moves the state of one row at most, and only as the lifecycle allows.
LEMMA StateStep ==
    ASSUME Inv, Next
    PROVE  /\ state' \in [Requests -> ApprovalStates \cup {"none"}]
           /\ \A q \in Requests : state[q] \in ResolvedStates => state'[q] = state[q]
           /\ \A q \in Requests :
                 \/ state'[q] = state[q]
                 \/ state'[q] \in {"pending", "superseded", "expired"}
                 \/ \E w \in Workers : VoteResolve(w) /\ task[w].req = q
<1>0. state \in [Requests -> ApprovalStates \cup {"none"}]
  BY DEF Inv, TypeOK
<1>1. CASE state' = state
  BY <1>0, <1>1
<1>2. CASE \E q \in Requests, new \in {"superseded", "expired"} : ResolveIfPending(q, new)
  BY <1>0, <1>2 DEF ResolveIfPending, ResolvedStates
<1>3. CASE Creates
  BY <1>0, <1>3 DEF Creates, ResolvedStates
<1>4. CASE \E w \in Workers : VoteResolve(w)
  <2>1. PICK w \in Workers : VoteResolve(w)
    BY <1>4
  <2>2. task[w].req \in Requests
    BY <2>1, TaskShape DEF VoteResolve, Inv, TypeOK
  <2>3. PICK new \in {"approved", "rejected"} : ResolveIfPending(task[w].req, new)
    BY <2>1 DEF VoteResolve
  <2> QED
    BY <1>0, <2>1, <2>2, <2>3 DEF ResolveIfPending, ResolvedStates
<1> QED
  BY <1>1, <1>2, <1>3, <1>4, StepKinds
  DEF Closes, VoteInsert, Apply, TellRejected, Elapse

\* What the winning resolution does.
LEMMA Resolving ==
    ASSUME Inv, NEW w \in Workers, VoteResolve(w)
    PROVE  LET q == task[w].req IN
           /\ q \in Requests
           /\ \A p \in Requests \ {q} : state'[p] = state[p]
           /\ task' = [task EXCEPT ![w] = task'[w]]
           /\ task'[w] \in Task
           /\ \/ /\ state' = state
                 /\ task'[w] = Idle
              \/ /\ state[q] = "pending"
                 /\ state'[q] = "approved"
                 /\ Approved(q)
                 /\ \/ task'[w] = Idle
                    \/ task'[w].pc = "apply" /\ task'[w].req = q /\ q \in PreApprovals
              \/ /\ state[q] = "pending"
                 /\ state'[q] = "rejected"
                 /\ RejectersOf(q) # {}
                 /\ task'[w].pc = "tell" /\ task'[w].req = q
<1> DEFINE q == task[w].req
           u == task[w].user
           say == task[w].say
<1>0. /\ q \in Requests /\ u \in Users
      /\ say \in {"resumed", "rejected"}
      /\ say = "resumed" => Approved(q)
      /\ say = "rejected" => RejectersOf(q) # {}
      /\ state \in [Requests -> ApprovalStates \cup {"none"}]
      /\ task \in [Workers -> Task]
  BY TaskShape DEF VoteResolve, Inv, TypeOK, Earned
<1>1. CASE state[q] # "pending"
  <2>1. Become(w, Idle) /\ state' = state
    BY <1>1 DEF VoteResolve, ResolveIfPending
  <2> QED
    BY <1>0, <2>1, IdleFacts DEF Become
<1>2. CASE state[q] = "pending" /\ say = "rejected"
  <2>1. Become(w, Voting("tell", q, u, say)) /\ state' = [state EXCEPT ![q] = "rejected"]
    BY <1>2 DEF VoteResolve, ResolveIfPending
  <2> QED
    BY <1>0, <1>2, <2>1, VotingTask DEF Become
<1>3. CASE state[q] = "pending" /\ say = "resumed"
  <2>1. /\ \/ q \in PreApprovals /\ Become(w, Voting("apply", q, u, say))
           \/ Become(w, Idle)
        /\ state' = [state EXCEPT ![q] = "approved"]
    BY <1>0, <1>3 DEF VoteResolve, ResolveIfPending
  <2> QED
    BY <1>0, <1>3, <2>1, VotingTask, IdleFacts DEF Become
<1> QED
  BY <1>0, <1>1, <1>2, <1>3

-----------------------------------------------------------------------------
\* What a worker has earned it keeps, unless its own handler call spends it.
LEMMA EarnedStable ==
    ASSUME Inv, Next, NEW x \in Task, Earned(x),
           x.pc = "apply" => applied'[x.req] = 0,
           x.pc = "tell" => told'[x.req] = 0
    PROVE  Earned(x)'
<1>1. x.pc \in VotePCs => x.req \in Requests
  BY TaskShape
<1>2. x.pc \in VotePCs => /\ Approved(x.req) => Approved(x.req)'
                          /\ RejectersOf(x.req) # {} => RejectersOf(x.req)' # {}
                          /\ state[x.req] \in {"approved", "rejected"} => state'[x.req] = state[x.req]
  BY <1>1, VotesStep, ApprovedStable, StateStep DEF ResolvedStates
<1> QED
  BY <1>1, <1>2 DEF Earned, MayVote

\* The types of what is not a row's state or a vote.
LEMMA RestTyped ==
    ASSUME Inv, Next
    PROVE  /\ due' \subseteq Expiring
           /\ applied' \in [Requests -> 0..2]
           /\ told' \in [Requests -> 0..2]
           /\ task' \in [Workers -> Task]
<1>0. TypeOK
  BY DEF Inv
<1>1. CASE \E w \in Workers : Closes(w)
  BY <1>0, <1>1 DEF Closes, Plain, Become, TypeOK
<1>2. CASE Creates
  BY <1>0, <1>2 DEF Creates, Plain, Become, TypeOK
<1>3. CASE \E q \in Requests : Elapse(q)
  BY <1>0, <1>3 DEF Elapse, TypeOK
<1>4. CASE \E w \in Workers : VoteInsert(w)
  <2>1. PICK w \in Workers : VoteInsert(w)
    BY <1>4
  <2>a. /\ task[w].req \in Requests /\ task[w].user \in Users
        /\ task[w].say \in Decisions \cup {"resumed", "rejected"}
    BY <1>0, <2>1, TaskShape DEF VoteInsert, TypeOK
  <2>2. Voting("evaluate", task[w].req, task[w].user, task[w].say) \in Task
    BY <2>a, VotingTask
  <2>3. task' \in [Workers -> Task]
    BY <1>0, <2>1, <2>2, IdleFacts DEF VoteInsert, Become, TypeOK
  <2> QED
    BY <1>0, <2>1, <2>3 DEF VoteInsert, TypeOK
<1>5. CASE \E w \in Workers : VoteResolve(w)
  <2>1. PICK w \in Workers : VoteResolve(w)
    BY <1>5
  <2>2. task' = [task EXCEPT ![w] = task'[w]] /\ task'[w] \in Task
    BY <2>1, Resolving
  <2> QED
    BY <1>0, <2>1, <2>2 DEF VoteResolve, TypeOK
<1>6. CASE \E w \in Workers : Apply(w) \/ TellRejected(w)
  BY <1>0, <1>6, IdleFacts DEF Apply, TellRejected, Once, Become, TypeOK
<1> QED
  BY <1>1, <1>2, <1>3, <1>4, <1>5, <1>6, StepKinds

\* Every worker has earned what it is about to do.
LEMMA EarnedStep ==
    ASSUME Inv, Next, NEW v \in Workers
    PROVE  Earned(task[v])'
<1>0. /\ TypeOK /\ task[v] \in Task /\ Earned(task[v])
      /\ task[v].pc \in VotePCs => task[v].req \in Requests
  BY TaskShape DEF Inv, TypeOK
<1>c. ASSUME NEW x \in Task, task'[v] = x, Earned(x)' PROVE Earned(task[v])'
  BY <1>c DEF Earned
<1>a. ASSUME task'[v] = task[v],
             task[v].pc = "apply" => applied'[task[v].req] = applied[task[v].req],
             task[v].pc = "tell" => told'[task[v].req] = told[task[v].req]
      PROVE  Earned(task[v])'
  <2>1. PICK x \in Task : x = task[v]
    BY <1>0
  <2>2. /\ Earned(x)
        /\ x.pc = "apply" => applied'[x.req] = 0
        /\ x.pc = "tell" => told'[x.req] = 0
    BY <1>0, <1>a, <2>1 DEF Earned
  <2>3. Earned(x)'
    BY <2>2, EarnedStable
  <2> QED
    BY <1>a, <1>c, <2>1, <2>3
<1>b. ASSUME task'[v] = Idle PROVE Earned(task[v])'
  BY <1>b DEF Earned, Idle
<1>1. CASE \E w \in Workers : Closes(w)
  <2>0. PICK w \in Workers : Closes(w)
    BY <1>1
  <2>1. PICK x : Closes(w) /\ Plain(w, x)
    BY <2>0 DEF Closes
  <2>2. CASE v = w
    <3>1. task'[v] = x /\ x \in Task
      BY <1>0, <2>1, <2>2 DEF Plain, Become, TypeOK
    <3>2. Earned(x)'
      BY <2>1, EarnedStable DEF Plain
    <3> QED
      BY <1>c, <3>1, <3>2
  <2>3. CASE v # w
    BY <1>0, <1>a, <2>1, <2>3 DEF Closes, Plain, Become, TypeOK
  <2> QED
    BY <2>2, <2>3
<1>2. CASE Creates
  BY <1>0, <1>2, <1>a, <1>b DEF Creates, Plain, Become, TypeOK
<1>3. CASE \E q \in Requests : Elapse(q)
  BY <1>3, <1>a DEF Elapse
<1>4. CASE \E w \in Workers : VoteInsert(w)
  <2>1. PICK w \in Workers : VoteInsert(w)
    BY <1>4
  <2>2. CASE v = w
    <3>1. task'[v].pc \in {"idle", "evaluate"}
      BY <1>0, <2>1, <2>2 DEF VoteInsert, Become, TypeOK, Voting, Idle
    <3> QED
      BY <3>1 DEF Earned
  <2>3. CASE v # w
    BY <1>0, <1>a, <2>1, <2>3 DEF VoteInsert, Become, TypeOK
  <2> QED
    BY <2>2, <2>3
<1>5. CASE \E w \in Workers : VoteResolve(w)
  <2>1. PICK w \in Workers : VoteResolve(w)
    BY <1>5
  <2>2. CASE v = w /\ task'[v].pc = "apply"
    <3>1. /\ task'[v].req \in PreApprovals
          /\ state[task'[v].req] = "pending"
          /\ state'[task'[v].req] = "approved"
      BY <2>1, <2>2, Resolving, IdleFacts
    <3>2. applied'[task'[v].req] = 0
      BY <1>0, <2>1, <3>1 DEF VoteResolve, Inv, AppliedEarned, TypeOK
    <3> QED
      BY <2>2, <3>1, <3>2 DEF Earned
  <2>3. CASE v = w /\ task'[v].pc = "tell"
    <3>1. /\ task'[v].req \in Requests
          /\ state[task'[v].req] = "pending"
          /\ state'[task'[v].req] = "rejected"
      BY <2>1, <2>3, Resolving, IdleFacts
    <3>2. told'[task'[v].req] = 0
      BY <1>0, <2>1, <3>1 DEF VoteResolve, Inv, ResolutionBacked, TypeOK
    <3> QED
      BY <2>3, <3>1, <3>2 DEF Earned
  <2>4. CASE v # w
    BY <1>0, <1>a, <2>1, <2>4 DEF VoteResolve, Become, TypeOK
  <2> QED
    BY <1>b, <2>1, <2>2, <2>3, <2>4, Resolving
<1>6. CASE \E w \in Workers : Apply(w) \/ TellRejected(w)
  <2>1. PICK w \in Workers : Apply(w) \/ TellRejected(w)
    BY <1>6
  <2>2. CASE v = w
    BY <1>0, <1>b, <2>1, <2>2 DEF Apply, TellRejected, Become, TypeOK
  <2>3. CASE v # w
    <3>1. task[v].pc \in {"apply", "tell"} => task[v].req # task[w].req
      BY <2>1, <2>3 DEF Apply, TellRejected, Inv, OneWinner
    <3> QED
      BY <1>0, <1>a, <2>1, <2>3, <3>1 DEF Apply, TellRejected, Become, TypeOK
  <2> QED
    BY <2>2, <2>3
<1> QED
  BY <1>1, <1>2, <1>3, <1>4, <1>5, <1>6, StepKinds

\* No two workers hold the right to run the same request's handler or listener.
LEMMA OneWinnerStep ==
    ASSUME Inv, Next PROVE OneWinner'
<1> SUFFICES ASSUME NEW v \in Workers, NEW w \in Workers,
                    task'[v].pc \in {"apply", "tell"},
                    task'[w].pc \in {"apply", "tell"},
                    task'[v].req = task'[w].req, v # w
             PROVE  FALSE
  BY DEF OneWinner
<1>0. task \in [Workers -> Task]
  BY DEF Inv, TypeOK
<1>a. task'[v] # task[v] \/ task'[w] # task[w]
  BY DEF Inv, OneWinner
<1>1. PICK z \in {v, w} : VoteResolve(z) /\ task'[z] # Idle
  <2>1. ~\E z \in Workers : Closes(z) /\ (task'[v] # task[v] \/ task'[w] # task[w])
    BY <1>0 DEF Closes, Plain, Become
  <2>2. ~Creates
    BY <1>0, <1>a DEF Creates, Plain, Become
  <2>3. ASSUME NEW z \in Workers, VoteInsert(z) PROVE FALSE
    <3>1. /\ task'[z].pc \in {"idle", "evaluate"}
          /\ \A y \in Workers \ {z} : task'[y] = task[y]
      BY <1>0, <2>3 DEF VoteInsert, Become, Voting, Idle
    <3> QED
      BY <1>a, <3>1
  <2>4. ~\E z \in Workers : Apply(z) \/ TellRejected(z)
    BY <1>0, <1>a DEF Apply, TellRejected, Become, Idle
  <2> QED
    BY <1>0, <1>a, <2>1, <2>2, <2>3, <2>4, StepKinds, IdleFacts DEF Elapse, VoteResolve, Become
<1>2. PICK y \in {v, w} : y # z
  OBVIOUS
<1>3. task'[y] = task[y] /\ task[y].req = task[z].req /\ state[task[z].req] = "pending"
  <2>1. task'[y] = task[y]
    BY <1>0, <1>1, <1>2 DEF VoteResolve, Become
  <2>2. state[task[z].req] = "pending" /\ task'[z].req = task[z].req
    <3>1. z \in Workers /\ task'[z].pc # "idle"
      BY <1>1
    <3> QED
      BY <1>1, <3>1, Resolving, IdleFacts
  <2> QED
    BY <1>2, <2>1, <2>2
<1>4. state[task[y].req] \in {"approved", "rejected"}
  BY <1>2, <1>3 DEF Inv, Earned
<1> QED
  BY <1>3, <1>4

\* What is applied is, and stays, approved.
LEMMA AppliedStep ==
    ASSUME Inv, Next PROVE AppliedEarned'
<1> SUFFICES ASSUME NEW q \in Requests
             PROVE  /\ applied'[q] <= 1
                    /\ applied'[q] = 1 => /\ q \in PreApprovals
                                          /\ state'[q] = "approved"
                                          /\ Approved(q)'
  BY DEF AppliedEarned
<1>0. applied \in [Requests -> 0..2]
  BY DEF Inv, TypeOK
<1>1. state[q] = "approved" => Approved(q)' /\ state'[q] = "approved"
  BY VotesStep, ApprovedStable, StateStep DEF Inv, ResolutionBacked, ResolvedStates
<1>2. CASE applied'[q] = applied[q]
  BY <1>1, <1>2 DEF Inv, AppliedEarned
<1>3. CASE applied'[q] # applied[q]
  <2>1. PICK w \in Workers : Apply(w) /\ task[w].req = q
    BY <1>0, <1>3, StepKinds
    DEF Closes, Creates, VoteInsert, VoteResolve, TellRejected, Elapse, Apply
  <2>2. q \in PreApprovals /\ state[q] = "approved" /\ applied[q] = 0
    BY <2>1 DEF Apply, Inv, Earned
  <2>3. applied'[q] = 1
    BY <1>0, <2>1, <2>2 DEF Apply, Once
  <2> QED
    BY <1>1, <2>2, <2>3
<1> QED
  BY <1>2, <1>3

\* What is resolved by votes has them, and is announced once.
LEMMA ResolutionStep ==
    ASSUME Inv, Next PROVE ResolutionBacked'
<1> SUFFICES ASSUME NEW q \in Requests
             PROVE  /\ state'[q] = "approved" => Approved(q)'
                    /\ state'[q] = "rejected" => RejectersOf(q)' # {}
                    /\ told'[q] <= 1
                    /\ told'[q] = 1 => state'[q] = "rejected"
  BY DEF ResolutionBacked
<1>0. told \in [Requests -> 0..2]
  BY DEF Inv, TypeOK
<1>1. /\ Approved(q) => Approved(q)'
      /\ RejectersOf(q) # {} => RejectersOf(q)' # {}
  BY VotesStep, ApprovedStable
<1>2. /\ state'[q] = "approved" => Approved(q)'
      /\ state'[q] = "rejected" => RejectersOf(q)' # {}
  <2>1. CASE state'[q] = state[q]
    BY <1>1, <2>1 DEF Inv, ResolutionBacked
  <2>2. CASE \E w \in Workers : VoteResolve(w) /\ task[w].req = q
    BY <1>1, <2>1, <2>2, Resolving
  <2> QED
    BY <2>1, <2>2, StateStep
<1>3. CASE told'[q] = told[q]
  <2>1. told[q] = 1 => state'[q] = "rejected"
    BY StateStep DEF Inv, ResolutionBacked, ResolvedStates
  <2> QED
    BY <1>2, <1>3, <2>1 DEF Inv, ResolutionBacked
<1>4. CASE told'[q] # told[q]
  <2>1. PICK w \in Workers : TellRejected(w) /\ task[w].req = q
    BY <1>0, <1>4, StepKinds
    DEF Closes, Creates, VoteInsert, VoteResolve, TellRejected, Elapse, Apply
  <2>2. state[q] = "rejected" /\ told[q] = 0
    BY <2>1 DEF TellRejected, Inv, Earned
  <2>3. told'[q] = 1 /\ state'[q] = "rejected"
    BY <1>0, <2>1, <2>2 DEF TellRejected, Once
  <2> QED
    BY <1>2, <2>3
<1> QED
  BY <1>3, <1>4

\* The invariant holds at first.
LEMMA InvInit == Init => Inv
<1> SUFFICES ASSUME Init PROVE Inv
  OBVIOUS
<1>1. TypeOK
  BY IdleFacts DEF Init, TypeOK
<1>2. VotesChecked /\ OneWinner
  BY DEF Init, VotesChecked, OneWinner, Idle
<1>3. \A w \in Workers : Earned(task[w])
  BY IdleFacts DEF Init
<1>4. AppliedEarned /\ ResolutionBacked
  BY DEF Init, AppliedEarned, ResolutionBacked
<1> QED
  BY <1>1, <1>2, <1>3, <1>4 DEF Inv

\* Every step preserves it.
LEMMA InvStep == Inv /\ [Next]_vars => Inv'
<1> SUFFICES ASSUME Inv, [Next]_vars PROVE Inv'
  OBVIOUS
<1>1. CASE Next
  <2>1. TypeOK'
    BY <1>1, VotesStep, StateStep, RestTyped DEF TypeOK
  <2> QED
    BY <1>1, <2>1, VotesStep, EarnedStep, OneWinnerStep, AppliedStep, ResolutionStep DEF Inv
<1>2. CASE UNCHANGED vars
  <2> USE <1>2 DEF vars, rows
  <2>1. TypeOK' /\ VotesChecked' /\ OneWinner'
    BY DEF Inv, TypeOK, VotesChecked, OneWinner, MayVote
  <2>2. \A q \in Requests : Approved(q)' = Approved(q) /\ RejectersOf(q)' = RejectersOf(q)
    BY DEF Approved, Independent, ApproversOf, RejectersOf
  <2>3. AppliedEarned' /\ ResolutionBacked'
    BY <2>2 DEF Inv, AppliedEarned, ResolutionBacked
  <2>4. ASSUME NEW w \in Workers PROVE Earned(task[w])'
    BY <2>2, TaskShape DEF Inv, TypeOK, Earned, MayVote
  <2> QED
    BY <2>1, <2>3, <2>4 DEF Inv
<1> QED
  BY <1>1, <1>2

\* The inductive invariant of the approval service: the right to run a handler is
\* one worker's, won by the one conditional update that found the row pending.
THEOREM Invariance == Spec => []Inv
BY InvInit, InvStep, PTL DEF Spec

\* A change is applied at most once, and only while it stands approved by a quorum
\* of distinct people none of whom proposed it (ApprovalService.vote).
THEOREM AppliedIsEarned == Spec => []AppliedEarned
<1>1. Inv => AppliedEarned
  BY DEF Inv
<1> QED
  BY <1>1, Invariance, PTL

\* A request is approved only by a quorum, rejected only on a reject, and its
\* rejection is announced at most once (ApprovalService.vote, tellRejected).
THEOREM ResolutionIsBacked == Spec => []ResolutionBacked
<1>1. Inv => ResolutionBacked
  BY DEF Inv
<1> QED
  BY <1>1, Invariance, PTL

\* A resolved request never moves again (resolveIfPending).
THEOREM ResolutionStands == Spec => ResolvedFinal
<1>1. Inv /\ [Next]_vars =>
        [\A q \in Requests : state[q] \in ResolvedStates => state'[q] = state[q]]_vars
  BY StateStep
<1> QED
  BY <1>1, Invariance, PTL DEF Spec, ResolvedFinal

-----------------------------------------------------------------------------
\* A row that exists stays.
LEMMA RowsStay ==
    ASSUME Inv, Next, NEW q \in Requests, state[q] # "none" PROVE state'[q] # "none"
<1>1. CASE \E w \in Workers : VoteResolve(w) /\ task[w].req = q
  BY <1>1, Resolving
<1> QED
  BY <1>1, StateStep

\* A vote in progress is on the request it was on, or has just read it pending.
LEMMA VotingStep ==
    ASSUME Inv, Next, NEW v \in Workers, task'[v].pc \in VotePCs
    PROVE  /\ task'[v].req \in Requests
           /\ \/ task[v].pc \in VotePCs /\ task'[v].req = task[v].req
              \/ state[task'[v].req] = "pending"
<1>0. task \in [Workers -> Task] /\ task' \in [Workers -> Task]
  BY RestTyped DEF Inv, TypeOK
<1>1. task'[v].req \in Requests
  BY <1>0, TaskShape
<1>2. CASE task'[v] = task[v]
  BY <1>1, <1>2
<1>3. CASE task'[v] # task[v]
  <2>1. \A w \in Workers : (\E x : Become(w, x)) => w = v
    BY <1>0, <1>3 DEF Become
  <2>2. Begin(v) \/ Continue(v) \/ Crash(v)
    <3>1. ASSUME NEW q \in Requests, OpenReview(q) \/ Elapse(q) PROVE FALSE
      BY <1>3, <3>1 DEF OpenReview, Elapse
    <3>2. ASSUME NEW w \in Workers, Begin(w) \/ Continue(w) \/ Crash(w) PROVE w = v
      <4>1. \E x : Become(w, x)
        BY <3>2 DEF Begin, Continue, Crash, ListPending, VoteRead, VoteLate, ListExpired,
             SupersedeOne, CreateRequest, ExpireOne, SupersedeDone, ExpireDone, ExpireLate,
             VoteInsert, VoteEvaluate, VoteResolve, Apply, TellRejected
      <4> QED
        BY <2>1, <4>1
    <3> QED
      BY <3>1, <3>2 DEF Next
  <2>3. CASE Begin(v)
    BY <1>0, <1>1, <2>3 DEF Begin, ListPending, VoteRead, VoteLate, ListExpired, Votable,
         Become, Voting, Superseding, Sweeping
  <2>4. CASE VoteInsert(v) \/ VoteEvaluate(v) \/ VoteResolve(v)
    BY <1>0, <1>1, <2>4 DEF VoteInsert, VoteEvaluate, VoteResolve, Become, Voting, Idle
  <2>5. CASE ~VoteInsert(v) /\ ~VoteEvaluate(v) /\ ~VoteResolve(v) /\ ~Begin(v)
    BY <1>0, <1>1, <2>2, <2>5 DEF Continue, Crash, SupersedeOne, CreateRequest, ExpireOne,
         SupersedeDone, ExpireDone, ExpireLate, Apply, TellRejected, Become, Idle,
         Superseding, Sweeping, Dead, VotePCs
  <2> QED
    BY <2>3, <2>4, <2>5
<1> QED
  BY <1>2, <1>3

\* A request nobody has voted on has no verdict.
LEMMA NoVotesNoVerdict ==
    ASSUME NEW q \in Requests, \A u \in Users : votes[q][u] = "none"
    PROVE  Verdict(q) = "pending"
<1>1. ApproversOf(q) = {} /\ RejectersOf(q) = {}
  BY DEF ApproversOf, RejectersOf
<1>2. ~Filled(Required[q], {})
  BY ApprovalAssumption, RequirementAssumption, NobodyFillsNothing
<1> QED
  BY <1>1, <1>2 DEF Verdict, Outcome

\* How a step changes the votes on one request.
LEMMA VotesOf ==
    ASSUME Inv, Next, NEW q \in Requests
    PROVE  \/ votes'[q] = votes[q]
           \/ \E w \in Workers : /\ task[w].pc = "insert" /\ task[w].req = q
                                 /\ task'[w].pc = "evaluate" /\ task'[w].req = q
<1>1. CASE votes' = votes
  BY <1>1
<1>2. ASSUME NEW w \in Workers, VoteInsert(w), votes' # votes
      PROVE  \/ votes'[q] = votes[q]
             \/ /\ task[w].pc = "insert" /\ task[w].req = q
                /\ task'[w].pc = "evaluate" /\ task'[w].req = q
  <2>1. task[w].req \in Requests /\ task \in [Workers -> Task]
    BY <1>2, TaskShape DEF VoteInsert, Inv, TypeOK
  <2>2. /\ votes' = [votes EXCEPT ![task[w].req][task[w].user] = task[w].say]
        /\ Become(w, Voting("evaluate", task[w].req, task[w].user, task[w].say))
    BY <1>2 DEF VoteInsert
  <2>3. task[w].req # q => votes'[q] = votes[q]
    BY <2>1, <2>2 DEF Inv, TypeOK
  <2> QED
    BY <1>2, <2>1, <2>2, <2>3 DEF VoteInsert, Become, Voting
<1> QED
  BY <1>1, <1>2, StepKinds DEF Closes, Creates, VoteResolve, Apply, TellRejected, Elapse

\* A step moves the task of the worker that takes it and of nobody else.
LEMMA OthersStay ==
    ASSUME Next, task \in [Workers -> Task], NEW w \in Workers,
           ~Begin(w), ~Continue(w), ~Crash(w)
    PROVE  task'[w] = task[w]
<1>1. \A v \in Workers \ {w} : (\E x : Become(v, x)) => task'[w] = task[w]
  BY DEF Become
<1>2. ASSUME NEW v \in Workers, Begin(v) \/ Continue(v) \/ Crash(v) PROVE \E x : Become(v, x)
  BY <1>2 DEF Begin, Continue, Crash, ListPending, VoteRead, VoteLate, ListExpired,
     SupersedeOne, CreateRequest, ExpireOne, SupersedeDone, ExpireDone, ExpireLate,
     VoteInsert, VoteEvaluate, VoteResolve, Apply, TellRejected
<1> QED
  BY <1>1, <1>2 DEF Next, OpenReview, Elapse

\* A worker about to evaluate or resolve leaves only by deciding the request, by
\* finding nothing to decide, or by being killed there.
LEMMA NoticerStep ==
    ASSUME Inv, Next, NEW w \in Workers, NEW q \in Requests,
           At(w, q, {"evaluate", "resolve"}),
           Verdict(q) # "pending", state'[q] = "pending"
    PROVE  At(w, q, {"evaluate", "resolve"})'
<1>0. task \in [Workers -> Task]
  BY DEF Inv, TypeOK
<1>1. ~(VoteResolve(w) /\ task[w].req = q)
  <2>1. state \in [Requests -> ApprovalStates \cup {"none"}]
    BY DEF Inv, TypeOK
  <2>2. ASSUME VoteResolve(w), task[w].req = q PROVE state'[q] # "pending"
    <3>1. PICK new \in {"approved", "rejected"} : ResolveIfPending(q, new)
      BY <2>2 DEF VoteResolve
    <3> QED
      BY <2>1, <3>1 DEF ResolveIfPending
  <2> QED
    BY <2>2
<1>2. CASE VoteEvaluate(w)
  BY <1>0, <1>2 DEF VoteEvaluate, Become, Voting, At
<1>3. CASE Crash(w)
  BY <1>0, <1>3 DEF Crash, Become, Dead, At, VotePCs
<1>4. ASSUME ~VoteEvaluate(w), ~Crash(w) PROVE task'[w] = task[w]
  <2>1. ~Begin(w) /\ ~Continue(w)
    BY <1>1, <1>4 DEF At, Begin, Continue, ListPending, VoteRead, VoteLate, ListExpired,
       SupersedeOne, CreateRequest, ExpireOne, SupersedeDone, ExpireDone, ExpireLate,
       VoteInsert, VoteResolve, Apply, TellRejected
  <2> QED
    BY <1>0, <1>4, <2>1, OthersStay
<1> QED
  BY <1>2, <1>3, <1>4 DEF At

\* A step leaves no deciding votes unattended.
LEMMA NoticeStep == Inv /\ NoticeInv /\ [Next]_vars => NoticeInv'
<1> SUFFICES ASSUME Inv, NoticeInv, [Next]_vars PROVE NoticeInv'
  OBVIOUS
<1>1. CASE UNCHANGED vars
  <2>1. \A q \in Requests : Verdict(q)' = Verdict(q)
    BY <1>1 DEF vars, rows, Verdict, ApproversOf, RejectersOf
  <2> QED
    BY <1>1, <2>1 DEF vars, rows, NoticeInv, VotesOnRows, DecisionNoticed, At
<1>2. CASE Next
  <2>1. ASSUME NEW q \in Requests, NEW u \in Users, votes'[q][u] # "none"
        PROVE  state[q] # "none"
    BY <1>2, <2>1, VotesOf DEF NoticeInv, VotesOnRows
  <2>2. ASSUME NEW w \in Workers, task'[w].pc \in VotePCs
        PROVE  task'[w].req \in Requests /\ state[task'[w].req] # "none"
    BY <1>2, <2>2, VotingStep DEF NoticeInv, VotesOnRows
  <2>3. VotesOnRows'
    BY <1>2, <2>1, <2>2, RowsStay DEF VotesOnRows
  <2>4. ASSUME NEW q \in Requests, state'[q] = "pending", Verdict(q)' # "pending"
        PROVE  \E w \in Workers : At(w, q, {"evaluate", "resolve"})'
    <3>1. CASE votes'[q] # votes[q]
      BY <1>2, <3>1, VotesOf DEF At
    <3>2. CASE votes'[q] = votes[q]
      <4>1. Verdict(q)' = Verdict(q)
        BY <3>2 DEF Verdict, ApproversOf, RejectersOf
      <4>2. state[q] # "none"
        BY <2>4, <4>1, NoVotesNoVerdict DEF NoticeInv, VotesOnRows
      <4>3. state[q] = "pending"
        BY <1>2, <2>4, <4>2, StateStep DEF Inv, TypeOK, ResolvedStates
      <4>4. PICK w \in Workers : At(w, q, {"evaluate", "resolve"})
        BY <2>4, <4>1, <4>3 DEF NoticeInv, DecisionNoticed
      <4>5. At(w, q, {"evaluate", "resolve"})'
        BY <1>2, <2>4, <4>1, <4>4, NoticerStep
      <4> QED
        BY <4>5
    <3> QED
      BY <3>1, <3>2
  <2> QED
    BY <2>3, <2>4 DEF NoticeInv, DecisionNoticed
<1> QED
  BY <1>1, <1>2

\* Unless an invocation is killed between its vote and its verdict, votes that
\* decide a request are always seen by one in progress, however many people vote at
\* once: each vote is recorded before the votes are listed (ApprovalService.vote),
\* so the last one listed sees them all.
THEOREM DecisionsAreNoticed == Spec => []DecisionNoticed
<1>1. Init => NoticeInv
  BY NoVotesNoVerdict DEF Init, NoticeInv, VotesOnRows, DecisionNoticed, Idle
<1>2. Inv /\ NoticeInv /\ [Next]_vars => NoticeInv'
  BY NoticeStep
<1>3. NoticeInv => DecisionNoticed
  BY DEF NoticeInv
<1> QED
  BY <1>1, <1>2, <1>3, Invariance, PTL DEF Spec

-----------------------------------------------------------------------------
\* A worker about to run a handler runs it, or is killed there.
LEMMA ApplierStep ==
    ASSUME Inv, Next, NEW w \in Workers, NEW q \in Requests, At(w, q, {"apply"})
    PROVE  At(w, q, {"apply"})' \/ applied'[q] = 1
<1>0. task \in [Workers -> Task] /\ applied \in [Requests -> 0..2] /\ Earned(task[w])
  BY DEF Inv, TypeOK
<1>1. CASE Apply(w)
  BY <1>0, <1>1 DEF Apply, At, Earned, Once
<1>2. CASE Crash(w)
  BY <1>0, <1>2 DEF Crash, Become, Dead, At, VotePCs
<1>3. ASSUME ~Apply(w), ~Crash(w) PROVE task'[w] = task[w]
  <2>1. ~Begin(w) /\ ~Continue(w)
    BY <1>3 DEF At, Begin, Continue, ListPending, VoteRead, VoteLate, ListExpired,
       SupersedeOne, CreateRequest, ExpireOne, SupersedeDone, ExpireDone, ExpireLate,
       VoteInsert, VoteEvaluate, VoteResolve, TellRejected
  <2> QED
    BY <1>0, <1>3, <2>1, OthersStay
<1> QED
  BY <1>1, <1>2, <1>3 DEF At

\* How often a handler was run never shrinks, and it is run once at most.
LEMMA AppliedStays ==
    ASSUME Inv, Next, Inv', NEW q \in Requests, applied[q] = 1
    PROVE  applied'[q] = 1
<1>0. applied \in [Requests -> 0..2] /\ applied'[q] <= 1
  BY DEF Inv, TypeOK, AppliedEarned
<1>1. CASE applied' = applied
  BY <1>1
<1>2. CASE \E w \in Workers : Apply(w)
  BY <1>0, <1>2 DEF Apply, Once
<1> QED
  BY <1>1, <1>2, StepKinds
  DEF Closes, Creates, VoteInsert, VoteResolve, TellRejected, Elapse

\* The winner of the resolution goes on to the handler.
LEMMA WinnerApplies ==
    ASSUME Inv, Next, NEW q \in PreApprovals, state[q] # "approved", state'[q] = "approved"
    PROVE  \E w \in Workers : At(w, q, {"apply"})'
<1>0. /\ q \in Requests /\ task \in [Workers -> Task]
      /\ state \in [Requests -> ApprovalStates \cup {"none"}]
  BY DEF Inv, TypeOK, PreApprovals
<1>1. PICK w \in Workers : VoteResolve(w) /\ task[w].req = q
  BY <1>0, StateStep
<1>2. state[q] = "pending" /\ task[w].say = "resumed"
  BY <1>0, <1>1 DEF VoteResolve, ResolveIfPending, Inv, Earned
<1>3. Become(w, Voting("apply", q, task[w].user, "resumed"))
  BY <1>1, <1>2 DEF VoteResolve
<1> QED
  BY <1>0, <1>3 DEF Become, Voting, At

\* Every step keeps the handler of an approved request run or about to be.
LEMMA ApplyStep == Inv /\ Inv' /\ ApprovedIsApplied /\ [Next]_vars => ApprovedIsApplied'
<1> SUFFICES ASSUME Inv, Inv', ApprovedIsApplied, [Next]_vars,
                    NEW q \in PreApprovals, state'[q] = "approved"
             PROVE  applied'[q] = 1 \/ \E w \in Workers : At(w, q, {"apply"})'
  BY DEF ApprovedIsApplied
<1>0. q \in Requests
  BY DEF PreApprovals
<1>1. CASE UNCHANGED vars
  BY <1>1 DEF vars, rows, ApprovedIsApplied, At
<1>2. CASE Next /\ state[q] # "approved"
  BY <1>2, WinnerApplies
<1>3. CASE Next /\ state[q] = "approved" /\ applied[q] = 1
  BY <1>0, <1>3, AppliedStays
<1>4. CASE Next /\ state[q] = "approved" /\ applied[q] # 1
  <2>1. PICK w \in Workers : At(w, q, {"apply"})
    BY <1>4 DEF ApprovedIsApplied
  <2>2. At(w, q, {"apply"})' \/ applied'[q] = 1
    BY <1>0, <1>4, <2>1, ApplierStep
  <2> QED
    BY <2>2
<1> QED
  BY <1>1, <1>2, <1>3, <1>4

\* Of all who see a quorum, the one whose conditional update found the request
\* pending runs its handler (ApprovalService.vote), so an approved change is
\* forgotten only by being killed at that statement.
THEOREM ApprovedAreApplied == Spec => []ApprovedIsApplied
<1>1. Init => ApprovedIsApplied
  BY DEF Init, ApprovedIsApplied, PreApprovals
<1> QED
  BY <1>1, ApplyStep, Invariance, PTL DEF Spec

-----------------------------------------------------------------------------
(* The contract of module DecidedOnce                                      *)

\* How a step of one worker changes who may run a handler.
LEMMA GrantedStep ==
    ASSUME Inv, NEW w \in Workers, NEW x, Become(w, x)
    PROVE  /\ task[w].pc # "apply" /\ x.pc # "apply" => Granted' = Granted
           /\ task[w].pc # "apply" /\ x.pc = "apply" /\ x.req \in Requests =>
                  Granted' = Granted \cup {x.req}
           /\ task[w].pc = "apply" /\ x.pc # "apply" =>
                  Granted' = Granted \ {task[w].req} /\ task[w].req \in Granted
<1>1. task'[w] = x /\ \A v \in Workers \ {w} : task'[v] = task[v]
  BY DEF Inv, TypeOK, Become
<1>2. CASE task[w].pc # "apply"
  BY <1>1, <1>2 DEF Granted
<1>3. CASE task[w].pc = "apply"
  <2>1. task[w].req \in Requests
    BY <1>3, TaskShape DEF Inv, TypeOK
  <2>2. \A v \in Workers \ {w} : task[v].pc = "apply" => task[v].req # task[w].req
    BY <1>3 DEF Inv, OneWinner
  <2> QED
    BY <1>1, <1>3, <2>1, <2>2 DEF Granted
<1> QED
  BY <1>2, <1>3

\* The conditional update closes the request, or changes nothing.
LEMMA ClosingStep ==
    ASSUME Inv, NEW q \in Requests, NEW how \in {"rejected", "expired", "superseded"},
           ResolveIfPending(q, how), Granted' = Granted
    PROVE  [D!Next]_(D!contractVars)
<1>1. CASE state[q] = "pending"
  <2>1. state' = [r \in Requests |-> IF r \in {q} THEN how ELSE state[r]]
    BY <1>1 DEF ResolveIfPending, Inv, TypeOK
  <2>2. D!Close({q}, how)
    BY <1>1, <2>1 DEF D!Close
  <2> QED
    BY <2>2 DEF D!Next
<1>2. CASE state[q] # "pending"
  BY <1>2 DEF ResolveIfPending, D!contractVars
<1> QED
  BY <1>1, <1>2

\* What every step of a worker is to the contract.
LEMMA ContractWorker ==
    ASSUME Inv, NEW w \in Workers, Begin(w) \/ Continue(w) \/ Crash(w)
    PROVE  [D!Next]_(D!contractVars)
<1>0. /\ task[w] \in Task
      /\ task[w].pc \in VotePCs => task[w].req \in Requests /\ task[w].user \in Users
      /\ task[w].pc = "resolve" => task[w].say \in {"resumed", "rejected"}
  BY TaskShape DEF Inv, TypeOK, Earned
<1>1. CASE Begin(w)
  <2>1. task[w].pc = "idle" /\ state' = state
    BY <1>1 DEF Begin, ListPending, VoteRead, VoteLate, ListExpired, rows
  <2>2. \E x : Become(w, x) /\ x.pc # "apply"
    <3>1. /\ \A s, list, then : Superseding(s, list, then).pc # "apply"
          /\ \A list : Sweeping(list).pc # "apply"
          /\ \A q, u, d : Voting("insert", q, u, d).pc # "apply" /\ Voting("expire", q, u, d).pc # "apply"
      BY DEF Superseding, Sweeping, Voting
    <3>2. ASSUME NEW s, NEW then, ListPending(w, s, then) PROVE \E x : Become(w, x) /\ x.pc # "apply"
      BY <3>1, <3>2, Zenon DEF ListPending
    <3>3. ASSUME NEW q, NEW u, NEW d, VoteRead(w, q, u, d) \/ VoteLate(w, q, u, d)
          PROVE  \E x : Become(w, x) /\ x.pc # "apply"
      BY <3>1, <3>3, Zenon DEF VoteRead, VoteLate
    <3>4. ASSUME ListExpired(w) PROVE \E x : Become(w, x) /\ x.pc # "apply"
      BY <3>1, <3>4, Zenon DEF ListExpired
    <3> QED
      BY <1>1, <3>2, <3>3, <3>4 DEF Begin
  <2> QED
    BY <2>1, <2>2, GrantedStep DEF D!contractVars
<1>2. CASE Crash(w)
  <2>1. Become(w, Dead(task[w])) /\ Dead(task[w]).pc = "dead" /\ state' = state
    BY <1>2 DEF Crash, Dead, rows
  <2>2. CASE task[w].pc = "apply"
    BY <1>0, <2>1, <2>2, GrantedStep DEF D!Next, D!UseOrLose
  <2>3. CASE task[w].pc # "apply"
    BY <2>1, <2>3, GrantedStep DEF D!contractVars
  <2> QED
    BY <2>2, <2>3
<1>3. ASSUME NEW q \in Requests, SupersedeOne(w, q) \/ ExpireOne(w, q)
      PROVE  [D!Next]_(D!contractVars)
  <2>1. /\ \E x : Become(w, x) /\ x.pc # "apply"
        /\ task[w].pc # "apply"
        /\ ResolveIfPending(q, "superseded") \/ ResolveIfPending(q, "expired")
    BY <1>3 DEF SupersedeOne, ExpireOne, Superseding, Sweeping
  <2> QED
    BY <2>1, GrantedStep, ClosingStep
<1>4. ASSUME NEW q \in Requests, CreateRequest(w, q)
      PROVE  [D!Next]_(D!contractVars)
  <2>1. Become(w, Idle) /\ Idle.pc # "apply" /\ task[w].pc # "apply"
    BY <1>4 DEF CreateRequest, Idle
  <2>2. Granted' = Granted
    BY <2>1, GrantedStep
  <2>3. D!Open(q)
    BY <1>4, <2>2 DEF CreateRequest, D!Open
  <2> QED
    BY <2>3 DEF D!Next
<1>5. CASE ExpireLate(w)
  <2>1. Become(w, Idle) /\ Idle.pc # "apply" /\ task[w].pc = "expire"
    BY <1>5 DEF ExpireLate, Idle
  <2>2. Granted' = Granted
    BY <2>1, GrantedStep
  <2> QED
    BY <1>0, <1>5, <2>1, <2>2, ClosingStep DEF ExpireLate
<1>6. CASE VoteResolve(w)
  <2> DEFINE q == task[w].req
             x == CASE state[q] = "pending" /\ task[w].say = "rejected" -> Voting("tell", q, task[w].user, task[w].say)
                    [] state[q] = "pending" /\ task[w].say = "resumed" /\ q \in PreApprovals
                           -> Voting("apply", q, task[w].user, task[w].say)
                    [] OTHER -> Idle
  <2>1. /\ task[w].pc = "resolve" /\ q \in Requests
        /\ task[w].say = "resumed" \/ task[w].say = "rejected"
    BY <1>0, <1>6 DEF VoteResolve
  <2>2. Become(w, x) /\ ResolveIfPending(q, IF task[w].say = "resumed" THEN "approved" ELSE "rejected")
    BY <1>6 DEF VoteResolve
  <2>3. x.pc = "apply" <=> state[q] = "pending" /\ task[w].say = "resumed" /\ q \in PreApprovals
    BY <2>1 DEF Voting, Idle
  <2>4. x.pc = "apply" => x.req = q
    BY <2>3, <2>1 DEF Voting
  <2> HIDE DEF x
  <2>5. CASE state[q] # "pending" \/ task[w].say = "rejected"
    <3>1. Granted' = Granted
      BY <2>1, <2>2, <2>3, <2>5, GrantedStep
    <3>2. CASE state[q] # "pending"
      BY <2>2, <3>1, <3>2 DEF ResolveIfPending, D!contractVars
    <3>3. CASE task[w].say = "rejected"
      BY <2>1, <2>2, <3>1, <3>3, ClosingStep
    <3> QED
      BY <2>5, <3>2, <3>3
  <2>6. CASE state[q] = "pending" /\ task[w].say = "resumed"
    <3>1. state' = [state EXCEPT ![q] = "approved"]
      BY <2>2, <2>6 DEF ResolveIfPending
    <3>2. Granted' = Granted \cup ({q} \cap PreApprovals)
      <4>1. CASE q \in PreApprovals
        BY <2>1, <2>2, <2>3, <2>4, <2>6, <4>1, GrantedStep
      <4>2. CASE q \notin PreApprovals
        BY <2>1, <2>2, <2>3, <2>6, <4>2, GrantedStep
      <4> QED
        BY <4>1, <4>2
    <3>3. D!Approve(q)
      BY <2>6, <3>1, <3>2 DEF D!Approve
    <3> QED
      BY <2>1, <3>3 DEF D!Next
  <2> QED
    BY <2>1, <2>5, <2>6
<1>7. CASE Apply(w)
  <2>1. Become(w, Idle) /\ Idle.pc # "apply" /\ task[w].pc = "apply" /\ state' = state
    BY <1>7 DEF Apply, Idle
  <2> QED
    BY <1>0, <2>1, GrantedStep DEF D!Next, D!UseOrLose
<1>8. CASE SupersedeDone(w) \/ ExpireDone(w) \/ VoteInsert(w) \/ VoteEvaluate(w) \/ TellRejected(w)
  <2>1. state' = state /\ task[w].pc # "apply"
    BY <1>8 DEF SupersedeDone, ExpireDone, VoteInsert, VoteEvaluate, TellRejected, rows
  <2>2. \E x : Become(w, x) /\ x.pc # "apply"
    BY <1>8 DEF SupersedeDone, ExpireDone, VoteInsert, VoteEvaluate, TellRejected, Idle, Voting
  <2> QED
    BY <2>1, <2>2, GrantedStep DEF D!contractVars
<1> QED
  BY <1>1, <1>2, <1>3, <1>4, <1>5, <1>6, <1>7, <1>8 DEF Continue

\* Every step is one of the contract, or leaves it where it was.
LEMMA ContractStep == Inv /\ [Next]_vars => [D!Next]_(D!contractVars)
<1> SUFFICES ASSUME Inv, [Next]_vars PROVE [D!Next]_(D!contractVars)
  OBVIOUS
<1>1. ASSUME NEW q \in Requests, OpenReview(q) PROVE [D!Next]_(D!contractVars)
  <2>1. D!Open(q)
    BY <1>1 DEF OpenReview, D!Open, Granted
  <2> QED
    BY <2>1 DEF D!Next
<1>2. ASSUME NEW q \in Requests, Elapse(q) PROVE [D!Next]_(D!contractVars)
  BY <1>2 DEF Elapse, D!contractVars, Granted
<1>3. CASE UNCHANGED vars
  BY <1>3 DEF vars, rows, D!contractVars, Granted
<1> QED
  BY <1>1, <1>2, <1>3, ContractWorker DEF Next

\* Whatever votes, newer changes, sweeps and deaths interleave, the service keeps the
\* promise of DecidedOnce: a request is decided by the resolver that comes first, and
\* only its approval starts the handler, once.
THEOREM ServiceKeepsContract == Spec => RequestsDecidedOnce
<1>1. Init => D!Init
  BY DEF Init, D!Init, Granted, Idle
<1> QED
  BY <1>1, ContractStep, Invariance, PTL DEF Spec, RequestsDecidedOnce, D!Spec
=============================================================================
