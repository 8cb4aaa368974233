------------------------------- MODULE Approval -------------------------------
(***************************************************************************)
(* Approvals outside runs: governance/ApprovalService.ts over its two      *)
(* repos, and the way its callers open a request (supersedePending, then   *)
(* request; a review is opened alone; a withdrawal only supersedes).       *)
(*                                                                         *)
(* As in GatedRun no handler opens a transaction: one action is one        *)
(* database statement, a read of rows that never change goes with the next *)
(* statement, and an audit record goes with the write it follows.  A       *)
(* request row is pinned when it is created, so all of it but its state is *)
(* constant; handlers are bound at start-up.                               *)
(***************************************************************************)
EXTENDS GateRules, FiniteSets

CONSTANTS
    Requests,     \* the request rows that may ever be created
    KindOf,       \* pre_approval or review
    SubjectOf,    \* the subject (type and id) of each
    Required,     \* the pinned requirement of each
    PreventSelf,  \* the requests with prevent_self
    Proposers,    \* requester and co-proposers of each
    Expiring,     \* the requests with an expires_at
    Handled,      \* the subjects whose type has a handler
    Workers,      \* slots for invocations; one that is killed takes its slot with it
    MayCrash      \* whether an invocation may be killed, or a call throw, anywhere

Subjects == {SubjectOf[q] : q \in Requests}
PreApprovals == {q \in Requests : KindOf[q] = "pre_approval"}

ASSUME ApprovalAssumption ==
    /\ KindOf \in [Requests -> {"pre_approval", "review"}]
    /\ DOMAIN SubjectOf = Requests
    /\ Required \in [Requests -> Requirement]
    /\ PreventSelf \subseteq Requests
    /\ Proposers \in [Requests -> SUBSET Users]
    /\ Expiring \subseteq Requests
    /\ MayCrash \in BOOLEAN

\* gateRequirementsSchema: at least one requirement, with a count of at least one.
ASSUME RequirementAssumption ==
    \A q \in Requests : RequiredRoles(Required[q]) # {}

ApprovalStates == {"pending", "approved", "rejected", "expired", "superseded"}
ResolvedStates == ApprovalStates \ {"pending"}
Decisions == {"approve", "reject"}

VARIABLES
    state,    \* approval_requests: the state of each row, "none" before creation
    due,      \* the requests whose expires_at has passed
    votes,    \* approval_votes: the decision of each user on each request
    applied,  \* times the handler of each request was run: 0, 1 or 2 (several)
    told,     \* times its rejection listener was run, likewise
    task      \* what each worker is doing

rows == <<state, due, votes, applied, told>>
vars == <<rows, task>>

ApproversOf(q) == {u \in Users : votes[q][u] = "approve"}
RejectersOf(q) == {u \in Users : votes[q][u] = "reject"}
Verdict(q) == Outcome(Required[q], ApproversOf(q), RejectersOf(q))

MayVote(q, u) == CheckVote(Required[q], q \in PreventSelf, Proposers[q], u)

-----------------------------------------------------------------------------
(* What a worker is doing: nothing, a vote, superseding, sweeping; or where it *)
(* was killed.                                                              *)

Idle == [pc |-> "idle"]
Voting(pc, q, u, say) == [pc |-> pc, req |-> q, user |-> u, say |-> say]
Superseding(s, list, then) == [pc |-> "supersede", subject |-> s, list |-> list, then |-> then]
Sweeping(list) == [pc |-> "sweep", list |-> list]

VotePCs == {"expire", "insert", "evaluate", "resolve", "apply", "tell"}

Dead(x) == [pc |-> "dead", at |-> x.pc, of |-> IF x.pc \in VotePCs THEN {x.req} ELSE {}]

Task ==
    [pc : {"idle"}]
    \cup [pc : VotePCs, req : Requests, user : Users,
          say : Decisions \cup {"resumed", "rejected"}]
    \cup [pc : {"supersede"}, subject : Subjects, list : SUBSET Requests,
          then : {"request", "stop"}]
    \cup [pc : {"sweep"}, list : SUBSET Requests]
    \cup [pc : {"dead"}, at : VotePCs \cup {"supersede", "sweep"}, of : SUBSET Requests]

\* The rows and the tasks have their types.
TypeOK ==
    /\ state \in [Requests -> ApprovalStates \cup {"none"}]
    /\ due \subseteq Expiring
    /\ votes \in [Requests -> [Users -> Decisions \cup {"none"}]]
    /\ applied \in [Requests -> 0..2]
    /\ told \in [Requests -> 0..2]
    /\ task \in [Workers -> Task]

Init ==
    /\ state = [q \in Requests |-> "none"]
    /\ due = {}
    /\ votes = [q \in Requests |-> [u \in Users |-> "none"]]
    /\ applied = [q \in Requests |-> 0]
    /\ told = [q \in Requests |-> 0]
    /\ task = [w \in Workers |-> Idle]

Become(w, x) == task' = [task EXCEPT ![w] = x]
Once(n) == IF n = 0 THEN 1 ELSE 2

-----------------------------------------------------------------------------
(* Opening requests *)

\* request for a post-hoc review: one insert, nothing superseded.
OpenReview(q) ==
    /\ KindOf[q] = "review"
    /\ state[q] = "none"
    /\ state' = [state EXCEPT ![q] = "pending"]
    /\ UNCHANGED <<due, votes, applied, told, task>>

\* supersedePending: list the pending pre-approvals of the subject.  The caller
\* opens a new request afterwards, or (a withdrawn changeset) stops there.
ListPending(w, s, then) ==
    /\ task[w].pc = "idle"
    /\ Become(w, Superseding(s, {q \in PreApprovals : SubjectOf[q] = s /\ state[q] = "pending"}, then))
    /\ UNCHANGED rows

\* Mutant: the last resolver wins.
ResolveAnyway(q, new) == state' = [state EXCEPT ![q] = new]

\* resolveIfPending: only a pending row moves.
ResolveIfPending(q, new) ==
    state' = IF state[q] = "pending" THEN [state EXCEPT ![q] = new] ELSE state

\* The requests listed are resolved in parallel, in any order.
SupersedeOne(w, q) ==
    /\ task[w].pc = "supersede"
    /\ q \in task[w].list
    /\ ResolveIfPending(q, "superseded")
    /\ Become(w, Superseding(task[w].subject, task[w].list \ {q}, task[w].then))
    /\ UNCHANGED <<due, votes, applied, told>>

SupersedeDone(w) ==
    /\ task[w].pc = "supersede"
    /\ task[w].list = {}
    /\ task[w].then = "stop"
    /\ Become(w, Idle)
    /\ UNCHANGED rows

\* request, after supersedePending.
CreateRequest(w, q) ==
    /\ task[w].pc = "supersede"
    /\ task[w].list = {}
    /\ task[w].then = "request"
    /\ q \in PreApprovals
    /\ SubjectOf[q] = task[w].subject
    /\ state[q] = "none"
    /\ state' = [state EXCEPT ![q] = "pending"]
    /\ Become(w, Idle)
    /\ UNCHANGED <<due, votes, applied, told>>

-----------------------------------------------------------------------------
(* vote *)

\* The request as the vote reads it: pending, and with a handler to apply it.
Votable(q) ==
    /\ state[q] = "pending"
    /\ q \in PreApprovals => SubjectOf[q] \in Handled

\* A request past its expiry is not voted on but expired.
VoteLate(w, q, u, d) ==
    /\ task[w].pc = "idle"
    /\ Votable(q)
    /\ q \in due
    /\ Become(w, Voting("expire", q, u, d))
    /\ UNCHANGED rows

ExpireLate(w) ==
    /\ task[w].pc = "expire"
    /\ ResolveIfPending(task[w].req, "expired")
    /\ Become(w, Idle)
    /\ UNCHANGED <<due, votes, applied, told>>

\* The guards of a vote in time; a vote they refuse leaves no trace.
VoteRead(w, q, u, d) ==
    /\ task[w].pc = "idle"
    /\ Votable(q)
    /\ q \notin due
    /\ MayVote(q, u)
    /\ Become(w, Voting("insert", q, u, d))
    /\ UNCHANGED rows

\* One vote per person: the lookup or the unique index refuses a second one.
VoteInsert(w) ==
    LET q == task[w].req  u == task[w].user IN
    /\ task[w].pc = "insert"
    /\ \/ /\ votes[q][u] = "none"
          /\ votes' = [votes EXCEPT ![q][u] = task[w].say]
          /\ Become(w, Voting("evaluate", q, u, task[w].say))
       \/ /\ votes[q][u] # "none"
          /\ votes' = votes
          /\ Become(w, Idle)
    /\ UNCHANGED <<state, due, applied, told>>

\* Mutant: the votes were listed before this one was recorded.
EvaluateOthers(w) ==
    LET q == task[w].req  u == task[w].user
        seen == Outcome(Required[q], ApproversOf(q) \ {u}, RejectersOf(q) \ {u})
    IN
    /\ task[w].pc = "evaluate"
    /\ \/ seen = "pending" /\ Become(w, Idle)
       \/ seen # "pending" /\ Become(w, Voting("resolve", q, u, seen))
    /\ UNCHANGED rows

\* Re-read the votes and evaluate them.
VoteEvaluate(w) ==
    LET q == task[w].req IN
    /\ task[w].pc = "evaluate"
    /\ \/ /\ Verdict(q) = "pending"
          /\ Become(w, Idle)
       \/ /\ Verdict(q) # "pending"
          /\ Become(w, Voting("resolve", q, task[w].user, Verdict(q)))
    /\ UNCHANGED rows

\* Mutant: whoever sees the outcome acts on it, not only the writer that won.
ResolveAndAct(w) ==
    LET q == task[w].req  u == task[w].user  say == task[w].say IN
    /\ task[w].pc = "resolve"
    /\ ResolveIfPending(q, IF say = "resumed" THEN "approved" ELSE "rejected")
    /\ Become(w, CASE say = "rejected" -> Voting("tell", q, u, say)
                   [] say = "resumed" /\ q \in PreApprovals -> Voting("apply", q, u, say)
                   [] OTHER -> Idle)
    /\ UNCHANGED <<due, votes, applied, told>>

\* Mutant: a request that has expired meanwhile is approved and not applied.
ResolveRechecks(w) ==
    LET q == task[w].req  u == task[w].user  say == task[w].say IN
    /\ task[w].pc = "resolve"
    /\ ResolveIfPending(q, IF say = "resumed" THEN "approved" ELSE "rejected")
    /\ Become(w, IF state[q] = "pending" /\ q \in PreApprovals \ due
                 THEN Voting(IF say = "rejected" THEN "tell" ELSE "apply", q, u, say)
                 ELSE Idle)
    /\ UNCHANGED <<due, votes, applied, told>>

\* Resolve the request; the writer that won goes on to its listener or handler.
VoteResolve(w) ==
    LET q == task[w].req  u == task[w].user  say == task[w].say IN
    /\ task[w].pc = "resolve"
    /\ ResolveIfPending(q, IF say = "resumed" THEN "approved" ELSE "rejected")
    /\ Become(w, CASE state[q] = "pending" /\ say = "rejected" -> Voting("tell", q, u, say)
                   [] state[q] = "pending" /\ say = "resumed" /\ q \in PreApprovals
                          -> Voting("apply", q, u, say)
                   [] OTHER -> Idle)
    /\ UNCHANGED <<due, votes, applied, told>>

Apply(w) ==
    /\ task[w].pc = "apply"
    /\ applied' = [applied EXCEPT ![task[w].req] = Once(@)]
    /\ Become(w, Idle)
    /\ UNCHANGED <<state, due, votes, told>>

TellRejected(w) ==
    /\ task[w].pc = "tell"
    /\ told' = [told EXCEPT ![task[w].req] = Once(@)]
    /\ Become(w, Idle)
    /\ UNCHANGED <<state, due, votes, applied>>

-----------------------------------------------------------------------------
(* Expiry, time and failures *)

\* expireDue: list the pending requests past their expiry.
ListExpired(w) ==
    /\ task[w].pc = "idle"
    /\ Become(w, Sweeping({q \in due : state[q] = "pending"}))
    /\ UNCHANGED rows

ExpireOne(w, q) ==
    /\ task[w].pc = "sweep"
    /\ q \in task[w].list
    /\ ResolveIfPending(q, "expired")
    /\ Become(w, Sweeping(task[w].list \ {q}))
    /\ UNCHANGED <<due, votes, applied, told>>

ExpireDone(w) ==
    /\ task[w].pc = "sweep"
    /\ task[w].list = {}
    /\ Become(w, Idle)
    /\ UNCHANGED rows

\* External: the clock passes a request's expiry.
Elapse(q) ==
    /\ q \in Expiring \ due
    /\ state[q] # "none"
    /\ due' = due \cup {q}
    /\ UNCHANGED <<state, votes, applied, told, task>>

\* External: an invocation is killed, or the call it is making throws.
Crash(w) ==
    /\ MayCrash
    /\ task[w].pc \notin {"idle", "dead"}
    /\ Become(w, Dead(task[w]))
    /\ UNCHANGED rows

\* What a worker does once it has begun.
Continue(w) ==
    \/ \E q \in Requests : SupersedeOne(w, q) \/ CreateRequest(w, q) \/ ExpireOne(w, q)
    \/ SupersedeDone(w) \/ ExpireDone(w)
    \/ ExpireLate(w) \/ VoteInsert(w) \/ VoteEvaluate(w) \/ VoteResolve(w)
    \/ Apply(w) \/ TellRejected(w)

Begin(w) ==
    \/ \E s \in Subjects, then \in {"request", "stop"} : ListPending(w, s, then)
    \/ \E q \in Requests, u \in Users, d \in Decisions :
          VoteRead(w, q, u, d) \/ VoteLate(w, q, u, d)
    \/ ListExpired(w)

Next ==
    \/ \E w \in Workers : Begin(w) \/ Continue(w) \/ Crash(w)
    \/ \E q \in Requests : OpenReview(q) \/ Elapse(q)

Spec == Init /\ [][Next]_vars

-----------------------------------------------------------------------------
(* What the service promises *)

Independent(q) ==
    {u \in ApproversOf(q) : q \in PreventSelf => u \notin Proposers[q]}

Approved(q) == Filled(Required[q], Independent(q))

\* A change is applied at most once, and only a pre-approval that stands approved
\* by a quorum of distinct people none of whom proposed it; no superseded, expired
\* or rejected change is ever applied, whichever votes, newer changes and expiry
\* sweeps raced with the one that won.
AppliedEarned ==
    \A q \in Requests :
        /\ applied[q] <= 1
        /\ applied[q] = 1 => q \in PreApprovals /\ state[q] = "approved" /\ Approved(q)

\* A request is approved only by a quorum and rejected only on somebody's reject,
\* and its rejection listener is told once and only of a rejection.
ResolutionBacked ==
    \A q \in Requests :
        /\ state[q] = "approved" => Approved(q)
        /\ state[q] = "rejected" => RejectersOf(q) # {}
        /\ told[q] <= 1
        /\ told[q] = 1 => state[q] = "rejected"

\* A resolved request never moves again: the decision a person, a newer change or
\* the clock made stands.
ResolvedFinal ==
    [][\A q \in Requests : state[q] \in ResolvedStates => state'[q] = state[q]]_vars

\* A worker at, or killed at, one of the statements pcs on request q.
At(w, q, pcs) ==
    \/ task[w].pc \in pcs /\ task[w].req = q
    \/ task[w].pc = "dead" /\ task[w].at \in pcs /\ q \in task[w].of

\* Votes that decide a request are lost on it only with the invocation of a voter
\* that was killed between its vote and its verdict: while the request is still
\* pending, an invocation that will see the votes is in progress, so two people who
\* vote at the same moment never leave a complete quorum, or a reject, unnoticed.
DecisionNoticed ==
    \A q \in Requests :
        state[q] = "pending" /\ Verdict(q) # "pending"
            => \E w \in Workers : At(w, q, {"evaluate", "resolve"})

\* The handler of an approved pre-approval was run or is about to be, unless the
\* invocation that is to run it is killed at that very statement: no loser of a
\* race takes the run with it.
ApprovedIsApplied ==
    \A q \in PreApprovals :
        state[q] = "approved" => applied[q] = 1 \/ \E w \in Workers : At(w, q, {"apply"})

\* The requests whose handler an invocation is about to run.
Granted == {q \in Requests : \E w \in Workers : task[w].pc = "apply" /\ task[w].req = q}

D == INSTANCE DecidedOnce WITH
        Asked <- Requests, Acting <- PreApprovals, decision <- state, granted <- Granted

(***************************************************************************)
(* Votes, newer changes and expiry, in as many invocations as there are,   *)
(* keep the promise of module DecidedOnce: whichever resolver comes first  *)
(* decides, and only the approval that won starts a handler (vote,         *)
(* supersedePending, expireDue).                                           *)
(***************************************************************************)
RequestsDecidedOnce == D!Spec

-----------------------------------------------------------------------------
(* The inductive invariant *)

\* What a worker has earned by the statements it has executed.
Earned(x) ==
    /\ x.pc = "insert" => MayVote(x.req, x.user) /\ x.say \in Decisions
    /\ x.pc = "resolve" /\ x.say = "resumed" => Approved(x.req)
    /\ x.pc = "resolve" /\ x.say = "rejected" => RejectersOf(x.req) # {}
    /\ x.pc = "resolve" => x.say \in {"resumed", "rejected"}
    /\ x.pc = "apply" => x.req \in PreApprovals /\ state[x.req] = "approved" /\ applied[x.req] = 0
    /\ x.pc = "tell" => state[x.req] = "rejected" /\ told[x.req] = 0

\* The right to run the handler, or the listener, is one worker's.
OneWinner ==
    \A v, w \in Workers :
        /\ task[v].pc \in {"apply", "tell"}
        /\ task[w].pc \in {"apply", "tell"}
        /\ task[v].req = task[w].req
        => v = w

VotesChecked ==
    \A q \in Requests, u \in Users : votes[q][u] # "none" => MayVote(q, u)

Inv ==
    /\ TypeOK
    /\ VotesChecked
    /\ \A w \in Workers : Earned(task[w])
    /\ OneWinner
    /\ AppliedEarned
    /\ ResolutionBacked

\* Nobody votes on a request before it exists.
VotesOnRows ==
    /\ \A q \in Requests, u \in Users : votes[q][u] # "none" => state[q] # "none"
    /\ \A w \in Workers : task[w].pc \in VotePCs => state[task[w].req] # "none"

\* Inductive under Inv.
NoticeInv == VotesOnRows /\ DecisionNoticed
=============================================================================
