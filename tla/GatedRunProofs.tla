---------------------------- MODULE GatedRunProofs ----------------------------
(***************************************************************************)
(* Proofs about GatedRun, for every pipeline, every set of users and roles *)
(* and every number of concurrent handlers.                                *)
(***************************************************************************)
EXTENDS GatedRun, TLAPS

\* A quorum stays a quorum when more people approve.
LEMMA FilledMonotone ==
    ASSUME NEW req, NEW S, NEW T, S \subseteq T, Filled(req, S)
    PROVE  Filled(req, T)
<1>1. PICK f \in [RoleSlots(req) -> S] :
          /\ \A s \in RoleSlots(req) : s[1] \in RolesOf[f[s]]
          /\ IsInjective(f)
  BY DEF Filled
<1>2. f \in [RoleSlots(req) -> T]
  OBVIOUS
<1> QED
  BY <1>1, <1>2 DEF Filled

USE DEF Gates, Items, Steps

\* What the passing of items rests on only ever grows.
Grows ==
    /\ \A g \in Gates : /\ Approvers(g) \subseteq Approvers(g)'
                        /\ Rejecters(g) \subseteq Rejecters(g)'
    /\ callbacks \subseteq callbacks'
    /\ started \subseteq started'

\* An item that has been passed stays passed.
LEMMA PassedStable ==
    ASSUME Grows, NEW i, Passed(i)
    PROVE  Passed(i)'
<1>1. CASE i \in Gates
  <2>1. IndependentApprovers(i) \subseteq IndependentApprovers(i)'
    BY <1>1 DEF Grows, IndependentApprovers
  <2>2. Filled(GateReq[i], IndependentApprovers(i)')
    BY <1>1, <2>1, FilledMonotone DEF Passed
  <2> QED
    BY <1>1, <2>2 DEF Passed
<1>2. CASE i \notin Gates
  BY <1>2 DEF Passed, Grows
<1> QED
  BY <1>1, <1>2

\* An item that has been reached stays reached.
LEMMA ReachedStable ==
    ASSUME Grows, NEW i, Reached(i)
    PROVE  Reached(i)'
BY PassedStable DEF Reached

\* Reaching an item and passing it is reaching the next one.
LEMMA ReachedNext ==
    ASSUME NEW i \in Nat, Reached(i), Passed(i)
    PROVE  Reached(i + 1)
<1> SUFFICES ASSUME NEW j \in 0..((i + 1) - 1) PROVE Passed(j)
  BY DEF Reached
<1>1. j \in 0..(i - 1) \/ j = i
  OBVIOUS
<1> QED
  BY <1>1 DEF Reached

-----------------------------------------------------------------------------
USE DEF RunStates, StepStatuses, GateStates, CallbackStatuses, Decisions, PCs

\* The rows have their types, handlers apart.
RowsTyped ==
    /\ run \in [state : RunStates, cursor : 0..N, tok : Nat]
    /\ minted \in Nat
    /\ step \in [Steps -> StepStatuses]
    /\ gate \in [Gates -> GateStates]
    /\ votes \in [Gates -> [Users -> Decisions \cup {"none"}]]
    /\ dispatches \in [Steps -> 0..2]
    /\ started \subseteq Steps \X Nat
    /\ callbacks \subseteq Callback
    /\ issued \subseteq Steps

\* An idle handler slot is well formed and has nothing to earn.
LEMMA IdleFacts == Idle \in HandlerState /\ Typed(Idle) /\ Earned(Idle)
BY PipelineAssumption DEF Idle, HandlerState, Typed, Earned, VotePCs, IssuePCs

\* Nor has a slot whose invocation was killed.
LEMMA DeadFacts == Dead \in HandlerState /\ Typed(Dead) /\ Earned(Dead)
BY PipelineAssumption DEF Dead, Idle, HandlerState, PCs, Typed, Earned, VotePCs, IssuePCs

\* With every vote admitted by checkVote, a quorum is one of independent people.
LEMMA QuorumIsIndependent ==
    ASSUME VotesChecked, NEW g \in Gates
    PROVE  IndependentApprovers(g) = Approvers(g)
BY PipelineAssumption DEF IndependentApprovers, Approvers, VotesChecked, CheckVote

\* A step of one handler that its own state, and a state it earned, explain.
Move(p) == \E x \in HandlerState : Typed(x) /\ Earned(x) /\ Become(p, x)

\* Every statement of a handler leaves it in a state it has earned.
LEMMA HandlerMoves ==
    ASSUME Inv, NEW p \in Handlers, HandlerStep(p) PROVE Move(p)
<1> USE IdleFacts
<1>0. h[p] \in HandlerState /\ Typed(h[p]) /\ Earned(h[p])
  BY DEF Inv, TypeOK
<1>a. ASSUME Done(p) PROVE Move(p)
  BY <1>a DEF Done, Move
<1>b. ASSUME NEW pc \in PCs,
             Typed([h[p] EXCEPT !.pc = pc]), Earned([h[p] EXCEPT !.pc = pc]), Goto(p, pc)
      PROVE  Move(p)
  <2>1. [h[p] EXCEPT !.pc = pc] \in HandlerState
    BY <1>0 DEF HandlerState
  <2> QED
    BY <1>b, <2>1 DEF Goto, Move
<1>1. CASE AdvanceToGate(p)
  BY <1>a, <1>1 DEF AdvanceToGate
<1>2. CASE AdvanceToEnd(p)
  BY <1>a, <1>2 DEF AdvanceToEnd
<1>3. CASE StartExecutor(p)
  BY <1>a, <1>3 DEF StartExecutor
<1>4. CASE FinishFailed(p)
  BY <1>a, <1>4 DEF FinishFailed
<1>5. CASE RejectRun(p)
  BY <1>a, <1>5 DEF RejectRun
<1>6. CASE IssueCredential(p)
  BY <1>a, <1>6 DEF IssueCredential
<1>7. CASE AdvanceToStep(p)
  <2> DEFINE x == [h[p] EXCEPT !.pc = "dispatch"]
  <2>1. x.pc = "dispatch" /\ x.at = h[p].at /\ x.tok = h[p].tok /\ x.user = h[p].user /\ x.say = h[p].say
    BY <1>0 DEF HandlerState
  <2>2. Done(p) \/ Goto(p, "dispatch")
    BY <1>7 DEF AdvanceToStep
  <2>3. CASE Goto(p, "dispatch")
    <3>1. Typed(x)
      BY <1>0, <1>7, <2>1 DEF AdvanceToStep, Typed, VotePCs, IssuePCs
    <3>2. Earned(x)
      BY <1>0, <1>7, <2>1, <2>3 DEF AdvanceToStep, Typed, Earned, VotePCs, IssuePCs
    <3> QED
      BY <1>b, <2>3, <3>1, <3>2
  <2> QED
    BY <1>a, <2>2, <2>3
<1>8. CASE DispatchStep(p)
  <2> DEFINE x == [h[p] EXCEPT !.pc = "start"]
  <2>1. x.pc = "start" /\ x.at = h[p].at /\ x.tok = h[p].tok /\ x.user = h[p].user /\ x.say = h[p].say
    BY <1>0 DEF HandlerState
  <2>2. Done(p) \/ Goto(p, "start")
    BY <1>8 DEF DispatchStep
  <2>3. CASE Goto(p, "start")
    <3>1. Typed(x)
      BY <1>0, <1>8, <2>1 DEF DispatchStep, Typed, VotePCs, IssuePCs
    <3>2. Earned(x)
      BY <1>0, <1>8, <2>1, <2>3 DEF DispatchStep, Typed, Earned, VotePCs, IssuePCs
    <3> QED
      BY <1>b, <2>3, <3>1, <3>2
  <2> QED
    BY <1>a, <2>2, <2>3
<1>9. CASE FailUnknownExecutor(p)
  <2> DEFINE x == [h[p] EXCEPT !.pc = "finish"]
  <2>1. x.pc = "finish" /\ x.at = h[p].at /\ x.tok = h[p].tok /\ x.user = h[p].user /\ x.say = h[p].say
    BY <1>0 DEF HandlerState
  <2>2. Done(p) \/ Goto(p, "finish")
    BY <1>9 DEF FailUnknownExecutor
  <2>3. CASE Goto(p, "finish")
    <3>1. Typed(x)
      BY <1>0, <1>9, <2>1 DEF FailUnknownExecutor, Typed, VotePCs, IssuePCs
    <3>2. Earned(x)
      BY <1>0, <1>9, <2>1, <2>3 DEF FailUnknownExecutor, Typed, Earned, VotePCs, IssuePCs
    <3> QED
      BY <1>b, <2>3, <3>1, <3>2
  <2> QED
    BY <1>a, <2>2, <2>3
<1>10. CASE CallbackReadStep(p)
  <2> DEFINE x == [h[p] EXCEPT !.pc = "cbWrite"]
  <2>1. x.pc = "cbWrite" /\ x.at = h[p].at /\ x.tok = h[p].tok /\ x.user = h[p].user /\ x.say = h[p].say
    BY <1>0 DEF HandlerState
  <2>2. Done(p) \/ Goto(p, "cbWrite")
    BY <1>10 DEF CallbackReadStep
  <2>3. CASE Goto(p, "cbWrite")
    <3>1. Typed(x)
      BY <1>0, <1>10, <2>1 DEF CallbackReadStep, Typed, VotePCs, IssuePCs
    <3>2. Earned(x)
      BY <1>0, <1>10, <2>1, <2>3 DEF CallbackReadStep, Typed, Earned, VotePCs, IssuePCs
    <3> QED
      BY <1>b, <2>3, <3>1, <3>2
  <2> QED
    BY <1>a, <2>2, <2>3
<1>11. CASE VoteReadGate(p)
  <2> DEFINE x == [h[p] EXCEPT !.pc = "voteInsert"]
  <2>1. x.pc = "voteInsert" /\ x.at = h[p].at /\ x.tok = h[p].tok /\ x.user = h[p].user /\ x.say = h[p].say
    BY <1>0 DEF HandlerState
  <2>2. CASE Done(p)
    BY <1>a, <2>2
  <2>3. CASE ~Done(p)
    <3>1. Goto(p, "voteInsert") /\ CheckVote(GateReq[h[p].at], h[p].at \in PreventSelf, {Triggerer}, h[p].user)
      BY <1>11, <2>3 DEF VoteReadGate
    <3>2. Typed(x)
      BY <1>0, <1>11, <2>1 DEF VoteReadGate, Typed, VotePCs, IssuePCs
    <3>3. Earned(x)
      BY <1>0, <1>11, <2>1, <3>1 DEF VoteReadGate, Typed, Earned, VotePCs, IssuePCs
    <3> QED
      BY <1>b, <3>1, <3>2, <3>3
  <2> QED
    BY <2>2, <2>3
<1>12. CASE VoteInsert(p)
  <2> DEFINE x == [h[p] EXCEPT !.pc = "voteEval"]
  <2>1. x.pc = "voteEval" /\ x.at = h[p].at /\ x.tok = h[p].tok /\ x.user = h[p].user /\ x.say = h[p].say
    BY <1>0 DEF HandlerState
  <2>2. Done(p) \/ Goto(p, "voteEval")
    BY <1>12 DEF VoteInsert
  <2>3. CASE Goto(p, "voteEval")
    <3>1. Typed(x)
      BY <1>0, <1>12, <2>1 DEF VoteInsert, Typed, VotePCs, IssuePCs
    <3>2. Earned(x)
      BY <1>0, <1>12, <2>1, <2>3 DEF VoteInsert, Typed, Earned, VotePCs, IssuePCs
    <3> QED
      BY <1>b, <2>3, <3>1, <3>2
  <2> QED
    BY <1>a, <2>2, <2>3
<1>13. CASE RejectGate(p)
  <2> DEFINE x == [h[p] EXCEPT !.pc = "rejectRun"]
  <2>1. x.pc = "rejectRun" /\ x.at = h[p].at /\ x.tok = h[p].tok /\ x.user = h[p].user /\ x.say = h[p].say
    BY <1>0 DEF HandlerState
  <2>2. Done(p) \/ Goto(p, "rejectRun")
    BY <1>13 DEF RejectGate
  <2>3. CASE Goto(p, "rejectRun")
    <3>1. Typed(x)
      BY <1>0, <1>13, <2>1 DEF RejectGate, Typed, VotePCs, IssuePCs
    <3>2. Earned(x)
      BY <1>0, <1>13, <2>1, <2>3 DEF RejectGate, Typed, Earned, VotePCs, IssuePCs
    <3> QED
      BY <1>b, <2>3, <3>1, <3>2
  <2> QED
    BY <1>a, <2>2, <2>3
<1>14. CASE ResumeGate(p)
  <2> DEFINE x == [h[p] EXCEPT !.pc = "rotate"]
  <2>1. x.pc = "rotate" /\ x.at = h[p].at /\ x.tok = h[p].tok /\ x.user = h[p].user /\ x.say = h[p].say
    BY <1>0 DEF HandlerState
  <2>2. Done(p) \/ Goto(p, "rotate")
    BY <1>14 DEF ResumeGate
  <2>3. CASE Goto(p, "rotate")
    <3>1. Typed(x)
      BY <1>0, <1>14, <2>1 DEF ResumeGate, Typed, VotePCs, IssuePCs
    <3>2. Earned(x)
      BY <1>0, <1>14, <2>1, <2>3 DEF ResumeGate, Typed, Earned, VotePCs, IssuePCs
    <3> QED
      BY <1>b, <2>3, <3>1, <3>2
  <2> QED
    BY <1>a, <2>2, <2>3
<1>15. CASE IssueReadStep(p)
  <2> DEFINE x == [h[p] EXCEPT !.pc = "issueGate"]
  <2>1. x.pc = "issueGate" /\ x.at = h[p].at /\ x.tok = h[p].tok /\ x.user = h[p].user /\ x.say = h[p].say
    BY <1>0 DEF HandlerState
  <2>2. CASE Done(p)
    BY <1>a, <2>2
  <2>3. CASE ~Done(p)
    <3>0. h[p].at \in Steps
      BY <1>0, <1>15 DEF IssueReadStep, Typed, IssuePCs
    <3>1. Goto(p, "issueGate") /\ h[p].at \in DOMAIN CredentialGate /\ Reached(h[p].at)
      BY <3>0, <1>15, <2>3 DEF IssueReadStep, Inv, RunEarned
    <3>2. Typed(x)
      BY <1>0, <1>15, <2>1 DEF IssueReadStep, Typed, VotePCs, IssuePCs
    <3>3. Earned(x)
      BY <1>0, <1>15, <2>1, <3>1 DEF IssueReadStep, Typed, Earned, VotePCs, IssuePCs
    <3> QED
      BY <1>b, <3>1, <3>2, <3>3
  <2> QED
    BY <2>2, <2>3
<1>16. CASE IssueReadGate(p)
  <2> DEFINE x == [h[p] EXCEPT !.pc = "issue"]
  <2>1. x.pc = "issue" /\ x.at = h[p].at /\ x.tok = h[p].tok /\ x.user = h[p].user /\ x.say = h[p].say
    BY <1>0 DEF HandlerState
  <2>2. CASE Done(p)
    BY <1>a, <2>2
  <2>3. CASE ~Done(p)
    <3>0. CredentialGate[h[p].at] \in Gates
      BY <1>0, <1>16, CredentialAssumption DEF IssueReadGate, Earned
    <3>1. Goto(p, "issue") /\ Passed(CredentialGate[h[p].at])
      BY <1>16, <2>3, <3>0 DEF IssueReadGate, Inv, GatesEarned
    <3>2. Typed(x)
      BY <1>0, <1>16, <2>1 DEF IssueReadGate, Typed, VotePCs, IssuePCs
    <3>3. Earned(x)
      BY <1>0, <1>16, <2>1, <3>1 DEF IssueReadGate, Typed, Earned, VotePCs, IssuePCs
    <3> QED
      BY <1>b, <3>1, <3>2, <3>3
  <2> QED
    BY <2>2, <2>3
<1>17. CASE VoteEvaluate(p)
  <2> DEFINE g == h[p].at
             Go(pc) == [h[p] EXCEPT !.pc = pc]
  <2>1. g \in Gates /\ Reached(g) /\ h[p].say \in Decisions
    BY <1>0, <1>17 DEF VoteEvaluate, Typed, Earned, VotePCs
  <2>2. ASSUME NEW pc \in PCs
        PROVE  Go(pc).pc = pc /\ Go(pc).at = g /\ Go(pc).say = h[p].say
    BY <1>0 DEF HandlerState
  <2>3. CASE GateOutcome(g) = "rejected"
    <3>1. Goto(p, "rejectGate")
      BY <1>17, <2>3 DEF VoteEvaluate
    <3>2. Rejecters(g) # {}
      BY <2>3 DEF GateOutcome, Outcome
    <3>3. Typed(Go("rejectGate")) /\ Earned(Go("rejectGate"))
      BY <2>1, <2>2, <3>2 DEF Typed, Earned, VotePCs, IssuePCs
    <3> QED
      BY <1>b, <3>1, <3>3
  <2>4. CASE GateOutcome(g) = "resumed"
    <3>1. Goto(p, "resumeGate")
      BY <1>17, <2>4 DEF VoteEvaluate
    <3>2. Filled(GateReq[g], Approvers(g))
      BY <2>4 DEF GateOutcome, Outcome
    <3>3. Passed(g)
      BY <2>1, <3>2, QuorumIsIndependent DEF Passed, Inv
    <3>4. Typed(Go("resumeGate")) /\ Earned(Go("resumeGate"))
      BY <2>1, <2>2, <3>3 DEF Typed, Earned, VotePCs, IssuePCs
    <3> QED
      BY <1>b, <3>1, <3>4
  <2>5. CASE GateOutcome(g) = "pending"
    BY <1>a, <1>17, <2>5 DEF VoteEvaluate
  <2> QED
    BY <2>3, <2>4, <2>5 DEF GateOutcome, Outcome
<1>c. ASSUME NEW i \in 0..N, NEW t \in Nat, Reached(i), AdvanceTo(p, i, t)
      PROVE  Move(p)
  <2> DEFINE x == [h[p] EXCEPT !.pc = "advance", !.at = i, !.tok = t]
  <2>1. x \in HandlerState /\ x.pc = "advance" /\ x.at = i
    BY <1>0 DEF HandlerState
  <2>2. Typed(x) /\ Earned(x)
    BY <1>c, <2>1 DEF Typed, Earned, VotePCs, IssuePCs
  <2> QED
    BY <1>c, <2>1, <2>2 DEF AdvanceTo, Move
<1>18. CASE RotateToken(p)
  <2>1. h[p].at \in Gates /\ Reached(h[p].at) /\ Passed(h[p].at)
    BY <1>0, <1>18 DEF RotateToken, Typed, Earned, VotePCs
  <2>2. h[p].at + 1 \in 0..N /\ Reached(h[p].at + 1)
    BY <2>1, ReachedNext, PipelineAssumption
  <2> QED
    BY <1>c, <1>18, <2>2 DEF RotateToken, Inv, TypeOK
<1>19. CASE CallbackWrite(p)
  <2>1. /\ h[p].at \in Steps /\ Reached(h[p].at) /\ h[p].say \in CallbackStatuses
        /\ [step |-> h[p].at, tok |-> h[p].tok, status |-> h[p].say] \in callbacks
    BY <1>0, <1>19 DEF CallbackWrite, Typed, Earned
  <2>2. CASE h[p].say = "running"
    BY <1>a, <1>19, <2>2 DEF CallbackWrite
  <2>3. CASE h[p].say = "failed"
    <3>1. Goto(p, "finish")
      BY <1>19, <2>3 DEF CallbackWrite
    <3>2. [h[p] EXCEPT !.pc = "finish"].pc = "finish"
      BY <1>0 DEF HandlerState
    <3>3. Typed([h[p] EXCEPT !.pc = "finish"]) /\ Earned([h[p] EXCEPT !.pc = "finish"])
      BY <3>2 DEF Typed, Earned, VotePCs, IssuePCs
    <3> QED
      BY <1>b, <3>1, <3>3
  <2>4. CASE h[p].say = "succeeded"
    <3>1. AdvanceTo(p, h[p].at + 1, h[p].tok)
      BY <1>19, <2>4 DEF CallbackWrite
    <3>2. Passed(h[p].at)
      BY <2>1, <2>4 DEF Passed
    <3>3. h[p].at + 1 \in 0..N /\ Reached(h[p].at + 1) /\ h[p].tok \in Nat
      BY <1>0, <2>1, <3>2, ReachedNext, PipelineAssumption DEF HandlerState
    <3> QED
      BY <1>c, <3>1, <3>3
  <2> QED
    BY <2>1, <2>2, <2>3, <2>4
<1> QED
  BY <1>1, <1>2, <1>3, <1>4, <1>5, <1>6, <1>7, <1>8, <1>9, <1>10, <1>11, <1>12, <1>13,
     <1>14, <1>15, <1>16, <1>17, <1>18, <1>19 DEF HandlerStep

\* A request that begins, or dies, does so in a state it has earned.
LEMMA RequestMoves ==
    ASSUME Inv, NEW p \in Handlers, Request(p) \/ Crash(p) PROVE Move(p)
<1> USE IdleFacts, PipelineAssumption
<1>0. h[p] \in HandlerState /\ TypeOK /\ RunEarned
  BY DEF Inv, TypeOK
<1>1. CASE Crash(p)
  BY <1>1, DeadFacts DEF Crash, Move
<1>2. CASE Trigger(p)
  <2> DEFINE x == [h[p] EXCEPT !.pc = "advance", !.at = 0, !.tok = minted + 1]
  <2>0. minted + 1 \in Nat /\ 0 \in 0..N
    BY <1>0 DEF TypeOK
  <2>1. x \in HandlerState /\ x.pc = "advance" /\ x.at = 0
    BY <1>0, <2>0 DEF HandlerState
  <2>2. Typed(x) /\ Earned(x)
    BY <2>1 DEF Typed, Earned, Reached, VotePCs, IssuePCs
  <2> QED
    BY <1>2, <2>1, <2>2 DEF Trigger, AdvanceTo, Move
<1>3. ASSUME NEW c \in callbacks, CallbackReadRun(p, c) PROVE Move(p)
  <2> DEFINE x == [pc |-> "cbStep", at |-> c.step, tok |-> c.tok,
                   user |-> Triggerer, say |-> c.status]
  <2>1. c \in Callback /\ c.step = run.cursor
    BY <1>0, <1>3 DEF TypeOK, CallbackReadRun
  <2>2. x \in HandlerState
    BY <2>1 DEF Callback, HandlerState
  <2>3. [step |-> c.step, tok |-> c.tok, status |-> c.status] = c
    BY <2>1 DEF Callback
  <2>4. Typed(x) /\ Earned(x)
    BY <1>0, <2>1, <2>3 DEF Typed, Earned, RunEarned, Callback, VotePCs, IssuePCs
  <2> QED
    BY <1>3, <2>2, <2>4 DEF CallbackReadRun, Move
<1>4. ASSUME NEW g \in Gates, NEW u \in Users, NEW d \in Decisions, VoteReadRun(p, g, u, d)
      PROVE  Move(p)
  <2> DEFINE x == [pc |-> "voteGate", at |-> g, tok |-> 0, user |-> u, say |-> d]
  <2>1. x \in HandlerState
    BY DEF HandlerState
  <2>2. Typed(x) /\ Earned(x)
    BY <1>0, <1>4 DEF VoteReadRun, Typed, Earned, RunEarned, VotePCs, IssuePCs
  <2> QED
    BY <1>4, <2>1, <2>2 DEF VoteReadRun, Move
<1>5. ASSUME NEW s \in Steps, NEW j \in started, IssueReadRun(p, s, j[2]) PROVE Move(p)
  <2> DEFINE x == [pc |-> "issueStep", at |-> s, tok |-> j[2],
                   user |-> Triggerer, say |-> "none"]
  <2>1. j[2] \in Nat
    BY <1>0 DEF TypeOK
  <2>2. x \in HandlerState
    BY <2>1 DEF HandlerState
  <2>3. Typed(x) /\ Earned(x)
    BY <2>1 DEF Typed, Earned, VotePCs, IssuePCs
  <2> QED
    BY <1>5, <2>2, <2>3 DEF IssueReadRun, Move
<1> QED
  BY <1>1, <1>2, <1>3, <1>4, <1>5 DEF Request

\* Every step that is not a handler's leaves the handlers alone.
LEMMA StepMoves ==
    ASSUME Inv, [Next]_vars
    PROVE  (\E p \in Handlers : Move(p)) \/ UNCHANGED h
<1>1. ASSUME NEW j \in started, NEW status \in CallbackStatuses, Report(j[1], j[2], status)
      PROVE  UNCHANGED h
  BY <1>1 DEF Report
<1>2. CASE UNCHANGED vars
  BY <1>2 DEF vars
<1> QED
  BY <1>1, <1>2, HandlerMoves, RequestMoves DEF Next

\* The history of overwritten rows is a truth value, and once true it stays so.
LEMMA HistoryStep ==
    ASSUME overwrote \in BOOLEAN, [Next]_vars
    PROVE  overwrote' \in BOOLEAN /\ (overwrote => overwrote')
<1>1. \/ overwrote' = overwrote
      \/ \E p \in Handlers : overwrote' = (overwrote \/ step[h[p].at] \in TerminalStepStatuses)
      \/ \E p \in Handlers : overwrote' = (overwrote \/ gate[h[p].at] # "pending")
  BY DEF Next, HandlerStep, Request, AdvanceToGate, AdvanceToEnd, AdvanceToStep, DispatchStep, StartExecutor,
         FailUnknownExecutor, FinishFailed, CallbackReadStep, CallbackWrite, VoteReadGate, VoteInsert, VoteEvaluate,
         RejectGate, RejectRun, ResumeGate, RotateToken, IssueReadStep, IssueReadGate, IssueCredential, Trigger,
         CallbackReadRun, VoteReadRun, IssueReadRun, Crash, Report, vars
<1> QED
  BY <1>1, Zenon

\* Every step keeps the types of the rows.
LEMMA RowsStep ==
    ASSUME Inv, [Next]_vars PROVE RowsTyped'
<1>0. RowsTyped /\ \A p \in Handlers : h[p] \in HandlerState /\ Typed(h[p])
  BY DEF Inv, TypeOK, RowsTyped
<1> USE PipelineAssumption
<1>1. ASSUME NEW p \in Handlers, AdvanceToGate(p) PROVE RowsTyped'
  BY <1>1, <1>0 DEF AdvanceToGate, RowsTyped, HandlerState, Typed, VotePCs, IssuePCs, runVars, extVars
<1>2. ASSUME NEW p \in Handlers, AdvanceToEnd(p) PROVE RowsTyped'
  BY <1>2, <1>0 DEF AdvanceToEnd, RowsTyped, HandlerState, Typed, VotePCs, IssuePCs, runVars, extVars
<1>3. ASSUME NEW p \in Handlers, AdvanceToStep(p) PROVE RowsTyped'
  BY <1>3, <1>0 DEF AdvanceToStep, RowsTyped, HandlerState, Typed, VotePCs, IssuePCs, runVars, extVars
<1>4. ASSUME NEW p \in Handlers, DispatchStep(p) PROVE RowsTyped'
  BY <1>4, <1>0 DEF DispatchStep, RowsTyped, HandlerState, Typed, VotePCs, IssuePCs, runVars, extVars
<1>5. ASSUME NEW p \in Handlers, StartExecutor(p) PROVE RowsTyped'
  BY <1>5, <1>0 DEF StartExecutor, RowsTyped, HandlerState, Typed, VotePCs, IssuePCs, runVars, extVars
<1>6. ASSUME NEW p \in Handlers, FailUnknownExecutor(p) PROVE RowsTyped'
  BY <1>6, <1>0 DEF FailUnknownExecutor, RowsTyped, HandlerState, Typed, VotePCs, IssuePCs, runVars, extVars
<1>7. ASSUME NEW p \in Handlers, FinishFailed(p) PROVE RowsTyped'
  BY <1>7, <1>0 DEF FinishFailed, RowsTyped, HandlerState, Typed, VotePCs, IssuePCs, runVars, extVars
<1>8. ASSUME NEW p \in Handlers, CallbackReadStep(p) PROVE RowsTyped'
  BY <1>8, <1>0 DEF CallbackReadStep, RowsTyped, HandlerState, Typed, VotePCs, IssuePCs, runVars, extVars
<1>9. ASSUME NEW p \in Handlers, CallbackWrite(p) PROVE RowsTyped'
  BY <1>9, <1>0 DEF CallbackWrite, RowsTyped, HandlerState, Typed, VotePCs, IssuePCs, runVars, extVars
<1>10. ASSUME NEW p \in Handlers, VoteReadGate(p) PROVE RowsTyped'
  BY <1>10, <1>0 DEF VoteReadGate, RowsTyped, HandlerState, Typed, VotePCs, IssuePCs, runVars, extVars
<1>11. ASSUME NEW p \in Handlers, VoteInsert(p) PROVE RowsTyped'
  <2>1. h[p].at \in Gates /\ h[p].user \in Users /\ h[p].say \in Decisions
    BY <1>11, <1>0 DEF VoteInsert, HandlerState, Typed, VotePCs
  <2>2. votes \in [Gates -> [Users -> Decisions \cup {"none"}]]
    BY <1>0 DEF RowsTyped
  <2>3. \/ votes' = votes
        \/ votes' = [votes EXCEPT ![h[p].at] = [votes[h[p].at] EXCEPT ![h[p].user] = h[p].say]]
    BY <1>11 DEF VoteInsert
  <2>4. votes' \in [Gates -> [Users -> Decisions \cup {"none"}]]
    BY <2>1, <2>2, <2>3
  <2>5. UNCHANGED <<run, minted, step, gate, dispatches, started, callbacks, issued>>
    BY <1>11 DEF VoteInsert, extVars
  <2> QED
    BY <1>0, <2>4, <2>5 DEF RowsTyped
<1>12. ASSUME NEW p \in Handlers, VoteEvaluate(p) PROVE RowsTyped'
  BY <1>12, <1>0 DEF VoteEvaluate, RowsTyped, HandlerState, Typed, VotePCs, IssuePCs, runVars, extVars
<1>13. ASSUME NEW p \in Handlers, RejectGate(p) PROVE RowsTyped'
  BY <1>13, <1>0 DEF RejectGate, RowsTyped, HandlerState, Typed, VotePCs, IssuePCs, runVars, extVars
<1>14. ASSUME NEW p \in Handlers, RejectRun(p) PROVE RowsTyped'
  BY <1>14, <1>0 DEF RejectRun, RowsTyped, HandlerState, Typed, VotePCs, IssuePCs, runVars, extVars
<1>15. ASSUME NEW p \in Handlers, ResumeGate(p) PROVE RowsTyped'
  BY <1>15, <1>0 DEF ResumeGate, RowsTyped, HandlerState, Typed, VotePCs, IssuePCs, runVars, extVars
<1>16. ASSUME NEW p \in Handlers, RotateToken(p) PROVE RowsTyped'
  BY <1>16, <1>0 DEF RotateToken, RowsTyped, HandlerState, Typed, VotePCs, IssuePCs, runVars, extVars
<1>17. ASSUME NEW p \in Handlers, IssueReadStep(p) PROVE RowsTyped'
  BY <1>17, <1>0 DEF IssueReadStep, RowsTyped, HandlerState, Typed, VotePCs, IssuePCs, runVars, extVars
<1>18. ASSUME NEW p \in Handlers, IssueReadGate(p) PROVE RowsTyped'
  BY <1>18, <1>0 DEF IssueReadGate, RowsTyped, HandlerState, Typed, VotePCs, IssuePCs, runVars, extVars
<1>19. ASSUME NEW p \in Handlers, IssueCredential(p) PROVE RowsTyped'
  BY <1>19, <1>0 DEF IssueCredential, RowsTyped, HandlerState, Typed, VotePCs, IssuePCs, runVars, extVars
<1>20. ASSUME NEW p \in Handlers, Trigger(p) PROVE RowsTyped'
  BY <1>20, <1>0 DEF Trigger, RowsTyped, HandlerState, Typed, VotePCs, IssuePCs, runVars, extVars
<1>21. ASSUME NEW p \in Handlers, NEW c \in callbacks, CallbackReadRun(p, c) PROVE RowsTyped'
  BY <1>21, <1>0 DEF CallbackReadRun, RowsTyped, HandlerState, Typed, VotePCs, IssuePCs, runVars, extVars
<1>22. ASSUME NEW p \in Handlers, NEW g \in Gates, NEW u \in Users, NEW d \in Decisions,
              VoteReadRun(p, g, u, d) PROVE RowsTyped'
  BY <1>22, <1>0 DEF VoteReadRun, RowsTyped, HandlerState, Typed, VotePCs, IssuePCs, runVars, extVars
<1>23. ASSUME NEW p \in Handlers, NEW s \in Steps, NEW j \in started, IssueReadRun(p, s, j[2]) PROVE RowsTyped'
  BY <1>23, <1>0 DEF IssueReadRun, RowsTyped, HandlerState, Typed, VotePCs, IssuePCs, runVars, extVars
<1>24. ASSUME NEW p \in Handlers, Crash(p) PROVE RowsTyped'
  BY <1>24, <1>0 DEF Crash, RowsTyped, HandlerState, Typed, VotePCs, IssuePCs, runVars, extVars
<1>25. ASSUME NEW j \in started, NEW status \in CallbackStatuses, Report(j[1], j[2], status)
       PROVE  RowsTyped'
  <2>1. [step |-> j[1], tok |-> j[2], status |-> status] \in Callback
    BY <1>0 DEF RowsTyped, Callback
  <2> QED
    BY <1>0, <1>25, <2>1 DEF Report, RowsTyped, runVars
<1>26. CASE UNCHANGED vars
  BY <1>26, <1>0 DEF vars, RowsTyped, HandlerState, Typed, VotePCs, IssuePCs, runVars, extVars
<1> QED
  BY <1>1, <1>2, <1>3, <1>4, <1>5, <1>6, <1>7, <1>8, <1>9, <1>10, <1>11, <1>12, <1>13, <1>14, <1>15, <1>16, <1>17, <1>18, <1>19, <1>20, <1>21, <1>22, <1>23, <1>24, <1>25, <1>26
     DEF Next, HandlerStep, Request

-----------------------------------------------------------------------------
(* Which actions write which rows. *)

\* Which actions write the votes, the callbacks and the executors' starts.
LEMMA Writers ==
    ASSUME [Next]_vars
    PROVE  /\ UNCHANGED votes \/ \E p \in Handlers : VoteInsert(p)
           /\ UNCHANGED callbacks
                \/ \E j \in started, status \in CallbackStatuses : Report(j[1], j[2], status)
           /\ UNCHANGED started \/ \E p \in Handlers : StartExecutor(p)
           /\ UNCHANGED gate \/ \E p \in Handlers : RejectGate(p) \/ ResumeGate(p)
           /\ UNCHANGED issued \/ \E p \in Handlers : IssueCredential(p)
           /\ UNCHANGED step \/ \E p \in Handlers :
                    DispatchStep(p) \/ FailUnknownExecutor(p) \/ CallbackWrite(p)
           /\ \/ UNCHANGED run
              \/ \E p \in Handlers :
                    \/ Trigger(p) \/ AdvanceToGate(p) \/ AdvanceToEnd(p) \/ AdvanceToStep(p)
                    \/ FinishFailed(p) \/ RejectRun(p) \/ RotateToken(p)
<1> USE DEF Next, HandlerStep, Request, Trigger, AdvanceToGate, AdvanceToEnd, AdvanceToStep,
       DispatchStep, StartExecutor, FailUnknownExecutor, FinishFailed, CallbackReadRun,
       CallbackReadStep, CallbackWrite, VoteReadRun, VoteReadGate, VoteInsert, VoteEvaluate,
       RejectGate, RejectRun, ResumeGate, RotateToken, IssueReadRun, IssueReadStep,
       IssueReadGate, IssueCredential, Report, Crash, vars, runVars, extVars
<1>1. UNCHANGED votes \/ \E p \in Handlers : VoteInsert(p)
  OBVIOUS
<1>2. UNCHANGED callbacks
        \/ \E j \in started, status \in CallbackStatuses : Report(j[1], j[2], status)
  OBVIOUS
<1>3. UNCHANGED started \/ \E p \in Handlers : StartExecutor(p)
  OBVIOUS
<1>4. UNCHANGED gate \/ \E p \in Handlers : RejectGate(p) \/ ResumeGate(p)
  OBVIOUS
<1>5. UNCHANGED issued \/ \E p \in Handlers : IssueCredential(p)
  OBVIOUS
<1>6. UNCHANGED step \/ \E p \in Handlers :
        DispatchStep(p) \/ FailUnknownExecutor(p) \/ CallbackWrite(p)
  OBVIOUS
<1>7. \/ UNCHANGED run
      \/ \E p \in Handlers :
            \/ Trigger(p) \/ AdvanceToGate(p) \/ AdvanceToEnd(p) \/ AdvanceToStep(p)
            \/ FinishFailed(p) \/ RejectRun(p) \/ RotateToken(p)
  OBVIOUS
<1> QED
  BY ONLY <1>1, <1>2, <1>3, <1>4, <1>5, <1>6, <1>7

\* Votes, callbacks and starts are never taken back.
LEMMA GrowsStep ==
    ASSUME Inv, [Next]_vars PROVE Grows
<1>1. ASSUME NEW p \in Handlers, VoteInsert(p), NEW g \in Gates
      PROVE  /\ Approvers(g) \subseteq Approvers(g)'
             /\ Rejecters(g) \subseteq Rejecters(g)'
  BY <1>1 DEF VoteInsert, Approvers, Rejecters, Inv, TypeOK
<1>2. ASSUME UNCHANGED votes, NEW g \in Gates
      PROVE  /\ Approvers(g) \subseteq Approvers(g)'
             /\ Rejecters(g) \subseteq Rejecters(g)'
  BY <1>2 DEF Approvers, Rejecters
<1>3. callbacks \subseteq callbacks'
  BY Writers DEF Report
<1>4. started \subseteq started'
  BY Writers DEF StartExecutor
<1> QED
  BY <1>1, <1>2, <1>3, <1>4, Writers DEF Grows

\* What a handler has earned, it keeps.
LEMMA EarnedStable ==
    ASSUME Grows, NEW q \in Handlers, NEW x, Typed(x), Earned(x), h'[q] = x
    PROVE  Typed(h[q])' /\ Earned(h[q])'
<1>1. Typed(h[q])'
  BY DEF Typed
<1>2. ASSUME NEW i, Reached(i) PROVE Reached(i)'
  BY <1>2, ReachedStable
<1>3. ASSUME NEW i, Passed(i) PROVE Passed(i)'
  BY <1>3, PassedStable
<1>4. Earned(h[q])'
  BY <1>2, <1>3 DEF Earned, Typed, Grows, VotePCs, IssuePCs
<1> QED
  BY <1>1, <1>4

\* Every step keeps what each handler has earned.
LEMMA HandlersStep ==
    ASSUME Inv, [Next]_vars
    PROVE  /\ h' \in [Handlers -> HandlerState]
           /\ \A q \in Handlers : Typed(h[q])' /\ Earned(h[q])'
<1>1. /\ h \in [Handlers -> HandlerState] /\ Grows
      /\ \A q \in Handlers : Typed(h[q]) /\ Earned(h[q])
  BY GrowsStep DEF Inv, TypeOK
<1>2. CASE UNCHANGED h
  BY <1>1, <1>2, EarnedStable
<1>3. ASSUME NEW p \in Handlers, Move(p)
      PROVE  /\ h' \in [Handlers -> HandlerState]
             /\ \A q \in Handlers : Typed(h[q])' /\ Earned(h[q])'
  <2>1. PICK x \in HandlerState : Typed(x) /\ Earned(x) /\ Become(p, x)
    BY <1>3 DEF Move
  <2>2. h' \in [Handlers -> HandlerState] /\ h'[p] = x
        /\ \A q \in Handlers \ {p} : h'[q] = h[q]
    BY <1>1, <2>1 DEF Become
  <2> QED
    BY <1>1, <2>1, <2>2, EarnedStable
<1> QED
  BY <1>2, <1>3, StepMoves

\* Every vote recorded was admitted by checkVote.
LEMMA VotesCheckedStep ==
    ASSUME Inv, [Next]_vars PROVE VotesChecked'
<1>1. CASE UNCHANGED votes
  BY <1>1 DEF Inv, VotesChecked
<1>2. ASSUME NEW p \in Handlers, VoteInsert(p), NEW g \in Gates, NEW u \in Users,
             votes'[g][u] # "none"
      PROVE  CheckVote(GateReq[g], g \in PreventSelf, {Triggerer}, u)
  <2>1. CASE votes[g][u] # "none"
    BY <2>1 DEF Inv, VotesChecked
  <2>2. CASE votes[g][u] = "none"
    <3>1. g = h[p].at /\ u = h[p].user
      BY <1>2, <2>2 DEF VoteInsert, Inv, TypeOK
    <3>2. CheckVote(GateReq[h[p].at], h[p].at \in PreventSelf, {Triggerer}, h[p].user)
      BY <1>2 DEF VoteInsert, Inv, Earned
    <3> QED
      BY <3>1, <3>2
  <2> QED
    BY <2>1, <2>2
<1> QED
  BY <1>1, <1>2, Writers DEF VotesChecked

\* A gate is resumed only by its quorum and rejected only on a reject.
LEMMA GatesEarnedStep ==
    ASSUME Inv, [Next]_vars PROVE GatesEarned'
<1> SUFFICES ASSUME NEW g \in Gates
             PROVE  /\ gate'[g] = "resumed" => Passed(g)'
                    /\ gate'[g] = "rejected" => Rejecters(g)' # {}
  BY DEF GatesEarned
<1>1. Grows
  BY GrowsStep
<1>2. /\ Passed(g) => Passed(g)'
      /\ Rejecters(g) # {} => Rejecters(g)' # {}
  BY <1>1, PassedStable DEF Grows
<1>3. CASE gate'[g] = gate[g]
  BY <1>2, <1>3 DEF Inv, GatesEarned
<1>4. ASSUME NEW p \in Handlers, RejectGate(p), gate'[g] # gate[g]
      PROVE  gate'[g] = "rejected" /\ Rejecters(g) # {}
  BY <1>4 DEF RejectGate, Inv, TypeOK, Earned
<1>5. ASSUME NEW p \in Handlers, ResumeGate(p), gate'[g] # gate[g]
      PROVE  gate'[g] = "resumed" /\ Passed(g)
  BY <1>5 DEF ResumeGate, Inv, TypeOK, Earned
<1> QED
  BY <1>2, <1>3, <1>4, <1>5, Writers

\* The run moves only onto items that have been reached.
LEMMA RunStep ==
    ASSUME Inv, [Next]_vars PROVE RunEarned' /\ ProgressEarned'
<1>1. Grows
  BY GrowsStep
<1>2. ASSUME NEW i, Reached(i) PROVE Reached(i)'
  BY <1>1, <1>2, ReachedStable
<1>3. (\E g \in Gates : Rejecters(g) # {}) => (\E g \in Gates : Rejecters(g)' # {})
  BY <1>1 DEF Grows
<1>4. ASSUME NEW j \in started' PROVE Reached(j[1])'
  <2>1. CASE j \in started
    BY <1>2, <2>1 DEF Inv, ProgressEarned
  <2>2. ASSUME NEW p \in Handlers, StartExecutor(p), j \notin started PROVE Reached(j[1])
    <3>1. j = <<h[p].at, h[p].tok>>
      BY <2>2 DEF StartExecutor
    <3>2. Reached(h[p].at)
      BY <2>2 DEF StartExecutor, Inv, Earned
    <3> QED
      BY <3>1, <3>2
  <2> QED
    BY <1>2, <2>1, <2>2, Writers
<1>5. /\ Reached(run'.cursor)
      /\ run'.state = "succeeded" => Reached(N)
      /\ run'.state = "rejected" => \E g \in Gates : Rejecters(g) # {}
  <2> DEFINE Goal == /\ Reached(run'.cursor)
                     /\ run'.state = "succeeded" => Reached(N)
                     /\ run'.state = "rejected" => \E g \in Gates : Rejecters(g) # {}
  <2> USE DEF Inv, TypeOK, RunEarned, ProgressEarned, Earned
  <2>1. CASE UNCHANGED run
    BY <2>1
  <2>2. ASSUME NEW p \in Handlers, Trigger(p) PROVE Goal
    BY <2>2 DEF Trigger, Reached
  <2>3. ASSUME NEW p \in Handlers, AdvanceToGate(p) PROVE Goal
    BY <2>3 DEF AdvanceToGate
  <2>4. ASSUME NEW p \in Handlers, AdvanceToEnd(p) PROVE Goal
    BY <2>4 DEF AdvanceToEnd
  <2>5. ASSUME NEW p \in Handlers, AdvanceToStep(p) PROVE Goal
    BY <2>5 DEF AdvanceToStep
  <2>6. ASSUME NEW p \in Handlers, FinishFailed(p) PROVE Goal
    BY <2>6 DEF FinishFailed
  <2>7. ASSUME NEW p \in Handlers, RejectRun(p) PROVE Goal
    BY <2>7 DEF RejectRun
  <2>8. ASSUME NEW p \in Handlers, RotateToken(p) PROVE Goal
    BY <2>8 DEF RotateToken
  <2> QED
    BY <2>1, <2>2, <2>3, <2>4, <2>5, <2>6, <2>7, <2>8, Writers
<1>6. ASSUME NEW s \in Steps, step'[s] \in InFlightStatuses PROVE Reached(s)
  <2>1. CASE step'[s] = step[s]
    BY <1>6, <2>1 DEF Inv, RunEarned
  <2>2. ASSUME NEW p \in Handlers, DispatchStep(p), step'[s] # step[s] PROVE Reached(s)
    BY <2>2 DEF DispatchStep, Inv, TypeOK, Earned
  <2>3. ASSUME NEW p \in Handlers, FailUnknownExecutor(p), step'[s] # step[s]
        PROVE  Reached(s)
    BY <2>3 DEF FailUnknownExecutor, Inv, TypeOK, Earned
  <2>4. ASSUME NEW p \in Handlers, CallbackWrite(p), step'[s] # step[s] PROVE Reached(s)
    BY <2>4 DEF CallbackWrite, Inv, TypeOK, Earned
  <2> QED
    BY <2>1, <2>2, <2>3, <2>4, Writers
<1> QED
  BY <1>2, <1>3, <1>4, <1>5, <1>6 DEF RunEarned, ProgressEarned

\* A credential is issued only behind a gate that has its quorum.
LEMMA CredentialStep ==
    ASSUME Inv, [Next]_vars PROVE CredentialEarned'
<1>1. Grows
  BY GrowsStep
<1> SUFFICES ASSUME NEW s \in issued'
             PROVE  /\ s \in DOMAIN CredentialGate
                    /\ Passed(CredentialGate[s])
                    /\ Reached(s)
  BY <1>1, PassedStable, ReachedStable DEF CredentialEarned
<1>2. CASE s \in issued
  BY <1>2 DEF Inv, CredentialEarned
<1>3. ASSUME NEW p \in Handlers, IssueCredential(p), s \notin issued
      PROVE  h[p].pc = "issue" /\ h[p].at = s
  BY <1>3 DEF IssueCredential
<1> QED
  BY <1>2, <1>3, Writers DEF Inv, Earned, IssuePCs

-----------------------------------------------------------------------------
\* The invariant holds at first.
LEMMA InvInit == Init => Inv
<1> SUFFICES ASSUME Init PROVE Inv
  OBVIOUS
<1>1. TypeOK
  <2>1. RowsTyped /\ h \in [Handlers -> HandlerState]
    BY PipelineAssumption, IdleFacts DEF Init, RowsTyped
  <2>2. overwrote \in BOOLEAN
    BY DEF Init
  <2> QED
    BY <2>1, <2>2 DEF RowsTyped, TypeOK
<1>2. ASSUME NEW p \in Handlers PROVE Typed(h[p]) /\ Earned(h[p])
  BY IdleFacts DEF Init
<1>3. VotesChecked /\ GatesEarned
  BY DEF Init, VotesChecked, GatesEarned
<1>4. RunEarned /\ ProgressEarned /\ CredentialEarned
  BY DEF Init, RunEarned, ProgressEarned, CredentialEarned, Reached, InFlightStatuses
<1> QED
  BY <1>1, <1>2, <1>3, <1>4 DEF Inv

\* Every step preserves it.
LEMMA InvStep == Inv /\ [Next]_vars => Inv'
<1> SUFFICES ASSUME Inv, [Next]_vars PROVE Inv'
  OBVIOUS
<1>1. TypeOK'
  BY RowsStep, HandlersStep, HistoryStep DEF Inv, RowsTyped, TypeOK
<1> QED
  BY <1>1, HandlersStep, VotesCheckedStep, GatesEarnedStep, RunStep, CredentialStep DEF Inv

(***************************************************************************)
(* The inductive invariant of GatedRun holds in every reachable state, for *)
(* every pipeline and any number of concurrent handlers.                   *)
(***************************************************************************)
THEOREM Invariance == Spec => []Inv
BY InvInit, InvStep, PTL DEF Spec

(***************************************************************************)
(* The rows and the handlers of a run keep their types.                    *)
(***************************************************************************)
THEOREM TypeCorrect == Spec => []TypeOK
<1>1. Inv => TypeOK
  BY DEF Inv
<1> QED
  BY <1>1, Invariance, PTL

(***************************************************************************)
(* No interleaving of votes, callbacks, broker requests and crashes hands  *)
(* an executor a step, or declares a run succeeded, before every earlier   *)
(* gate has its quorum of distinct, independent approvers and every        *)
(* earlier step has succeeded.                                             *)
(***************************************************************************)
THEOREM ProgressIsEarned == Spec => []ProgressEarned
<1>1. Inv => ProgressEarned
  BY DEF Inv
<1> QED
  BY <1>1, Invariance, PTL

(***************************************************************************)
(* The broker never issues a credential whose gate lacks its quorum.       *)
(***************************************************************************)
THEOREM CredentialIsEarned == Spec => []CredentialEarned
<1>1. Inv => CredentialEarned
  BY DEF Inv
<1> QED
  BY <1>1, Invariance, PTL

(***************************************************************************)
(* A gate or a run is rejected only on an admitted rejecting vote.         *)
(***************************************************************************)
THEOREM RejectionIsBacked == Spec => []RejectionBacked
<1>1. Inv => RejectionBacked
  BY DEF Inv, RejectionBacked, GatesEarned, RunEarned, VotesChecked, Rejecters
<1> QED
  BY <1>1, Invariance, PTL

-----------------------------------------------------------------------------
(* GatedRun implements Rollout. *)

ApprovedMap == {x \in Gates \X Users : votes[x[1]][x[2]] = "resume"}
StartedMap == {j[1] : j \in started}
SucceededMap == {s \in Steps : \E c \in callbacks : c.step = s /\ c.status = "succeeded"}

\* Both levels agree on which items have been passed and reached.
LEMMA SamePassed ==
    ASSUME Inv, NEW i \in Items, Passed(i)
    PROVE  R!Passed(i)
<1>1. CASE i \in Gates
  <2>1. {u \in Users : <<i, u>> \in ApprovedMap} = IndependentApprovers(i)
    BY <1>1, QuorumIsIndependent DEF Inv, Approvers, ApprovedMap
  <2>2. ASSUME NEW req, NEW S, Filled(req, S) PROVE R!Filled(req, S)
    BY <2>2 DEF Filled, R!Filled, RoleSlots, R!RoleSlots, IsInjective, R!IsInjective
  <2> QED
    BY <1>1, <2>1, <2>2 DEF Passed, R!Passed, R!Gates, ApprovedMap
<1>2. CASE i \notin Gates
  BY <1>2 DEF Passed, R!Passed, R!Gates
<1> QED
  BY <1>1, <1>2

\* An item reached here is reached in the abstract rollout.
LEMMA SameReached ==
    ASSUME Inv, NEW i \in 0..N, Reached(i)
    PROVE  R!Reached(i)
BY SamePassed, PipelineAssumption DEF Reached, R!Reached

\* Every step is a step of the abstract rollout, or none.
LEMMA RolloutStep ==
    ASSUME Inv, [Next]_vars
    PROVE  [R!Next]_(R!rolloutVars)
<1>1. CASE UNCHANGED <<votes, started, callbacks, issued>>
  BY <1>1 DEF R!rolloutVars
<1>2. ASSUME NEW p \in Handlers, VoteInsert(p) PROVE [R!Next]_(R!rolloutVars)
  <2>0. PICK g \in Gates, u \in Users : g = h[p].at /\ u = h[p].user
    BY <1>2 DEF VoteInsert, Inv, TypeOK, HandlerState, Typed, VotePCs
  <2>1. /\ Reached(g) /\ h[p].say \in Decisions
        /\ CheckVote(GateReq[g], g \in PreventSelf, {Triggerer}, u)
    BY <1>2, <2>0 DEF VoteInsert, Inv, Typed, Earned, VotePCs
  <2>2. UNCHANGED <<started, callbacks, issued>>
    BY <1>2 DEF VoteInsert, extVars
  <2>3. CASE h[p].say = "resume" /\ votes[g][u] = "none"
    <3>1. ApprovedMap' = ApprovedMap \cup {<<g, u>>}
      BY <1>2, <2>0, <2>1, <2>3 DEF VoteInsert, ApprovedMap, Inv, TypeOK
    <3>2. R!Reached(g)
      BY <2>1, SameReached, PipelineAssumption
    <3>3. R!Approve(g, u)
      BY <2>1, <2>2, <3>1, <3>2
         DEF R!Approve, R!CheckVote, CheckVote, R!RequiredRoles, RequiredRoles, ApprovedMap
    <3> QED
      BY <2>1, <3>3 DEF R!Next, R!Gates
  <2>4. CASE ~(h[p].say = "resume" /\ votes[g][u] = "none")
    <3>1. ApprovedMap' = ApprovedMap
      BY <1>2, <2>0, <2>1, <2>4 DEF VoteInsert, ApprovedMap, Inv, TypeOK
    <3> QED
      BY <2>2, <3>1 DEF R!rolloutVars, ApprovedMap
  <2> QED
    BY <2>3, <2>4
<1>3. ASSUME NEW p \in Handlers, StartExecutor(p) PROVE [R!Next]_(R!rolloutVars)
  <2>1. PICK s \in Steps : s = h[p].at /\ Reached(s)
    BY <1>3 DEF StartExecutor, Inv, Typed, Earned, IssuePCs
  <2>2. UNCHANGED <<votes, callbacks, issued>>
    BY <1>3 DEF StartExecutor, runVars
  <2>3. StartedMap' = StartedMap \cup {s}
    <3>1. started' = started \cup {<<s, h[p].tok>>} /\ <<s, h[p].tok>>[1] = s
      BY <1>3, <2>1 DEF StartExecutor
    <3> QED
      BY <3>1 DEF StartedMap
  <2>4. R!Start(s)
    BY <2>1, <2>2, <2>3, SameReached, PipelineAssumption DEF R!Start, StartedMap
  <2> QED
    BY <2>1, <2>4 DEF R!Next, R!Steps, R!Gates
<1>4. ASSUME NEW j \in started, NEW status \in CallbackStatuses, Report(j[1], j[2], status)
      PROVE  [R!Next]_(R!rolloutVars)
  <2> DEFINE s == j[1]
             c == [step |-> s, tok |-> j[2], status |-> status]
  <2>1. s \in Steps /\ s \in StartedMap
    BY DEF Inv, TypeOK, StartedMap
  <2>2. UNCHANGED <<votes, started, issued>> /\ callbacks' = callbacks \cup {c}
    BY <1>4 DEF Report, runVars
  <2>3. c.step = s /\ c.status = status
    OBVIOUS
  <2>4. CASE status = "succeeded"
    <3>1. SucceededMap' = SucceededMap \cup {s}
      BY <2>1, <2>2, <2>3, <2>4 DEF SucceededMap
    <3>2. R!Succeed(s)
      BY <2>1, <2>2, <3>1 DEF R!Succeed, SucceededMap, StartedMap
    <3> QED
      BY <2>1, <3>2 DEF R!Next, R!Steps, R!Gates
  <2>5. CASE status # "succeeded"
    <3>1. SucceededMap' = SucceededMap
      BY <2>2, <2>3, <2>5 DEF SucceededMap
    <3> QED
      BY <2>2, <3>1 DEF R!rolloutVars, SucceededMap
  <2> QED
    BY <2>4, <2>5
<1>5. ASSUME NEW p \in Handlers, IssueCredential(p) PROVE [R!Next]_(R!rolloutVars)
  <2>1. PICK s \in Steps : /\ s = h[p].at /\ Reached(s)
                           /\ s \in DOMAIN CredentialGate
                           /\ Passed(CredentialGate[s])
    BY <1>5 DEF IssueCredential, Inv, Typed, Earned, IssuePCs
  <2>2. UNCHANGED <<votes, started, callbacks>> /\ issued' = issued \cup {s}
    BY <1>5, <2>1 DEF IssueCredential, runVars, extVars
  <2>3. R!Passed(CredentialGate[s])
    BY <2>1, SamePassed, CredentialAssumption, PipelineAssumption
  <2>4. R!Issue(s)
    BY <2>1, <2>2, <2>3, SameReached, PipelineAssumption DEF R!Issue
  <2> QED
    BY <2>1, <2>4 DEF R!Next, R!Steps, R!Gates
<1> QED
  BY <1>1, <1>2, <1>3, <1>4, <1>5, Writers

\* The initial states map to initial states of the rollout.
LEMMA RolloutInit == Init => R!Init
BY DEF Init, R!Init

(***************************************************************************)
(* The concurrent request handlers of a run implement the abstract promise *)
(* of module Rollout, whatever the pipeline and the number of handlers.    *)
(***************************************************************************)
THEOREM Refinement == Spec => RolloutSpec
<1>1. Inv /\ [Next]_vars => [R!Next]_(R!rolloutVars)
  BY RolloutStep
<1> QED
  BY <1>1, RolloutInit, Invariance, PTL DEF Spec, RolloutSpec, R!Spec

-----------------------------------------------------------------------------
(* Invocations that overlap.  What a callback or a vote has read may have  *)
(* changed when it writes; until one of them settles a step or a gate that *)
(* is settled already, only one handler at a time carries the run on.      *)

\* The statements that carry the run on.
Movers == {"advance", "dispatch", "start", "finish", "rotate", "rejectRun"}
Moving(p) == h[p].pc \in Movers

VoterPCs == VotePCs \ {"rotate"}

\* The run stands at a gate that nobody has settled; no executor is at work.
Waiting == run.state = "awaiting_gate" /\ gate[run.cursor] = "pending"
NobodyWorks == \A j \in started : step[j[1]] \notin InFlightStatuses

\* Where the run stands while a handler is at a statement.
Placed(x) ==
    /\ x.pc \in Movers => ~Waiting /\ NobodyWorks
    /\ x.pc = "advance" =>
          /\ run.state \in {"queued", "running", "awaiting_gate"} /\ x.tok = run.tok /\ NoneInFlight
          /\ x.at = run.cursor + 1 \/ (x.at = run.cursor /\ run.state = "queued")
    /\ x.pc \in {"dispatch", "start"} =>
          /\ run.state = "running" /\ x.tok = run.tok /\ x.at = run.cursor
          /\ (dispatches[x.at] = 0) <=> (x.pc = "dispatch")
    /\ x.pc = "start" => \A j \in started : j[1] # x.at
    /\ x.pc = "finish" => run.state = "running" /\ NoneInFlight
    /\ x.pc = "rotate" => run.state = "awaiting_gate" /\ x.at = run.cursor
    /\ x.pc = "rejectRun" => run.state = "awaiting_gate"
    /\ x.pc \in VoterPCs /\ gate[x.at] = "pending" =>
          run.state = "awaiting_gate" /\ x.at = run.cursor

\* The rows agree: what lies ahead of the cursor is untouched, only the step at the cursor
\* is in flight, and its executor has the token of the run.
StepsAgree ==
    \A s \in Steps :
        /\ s > run.cursor => dispatches[s] = 0
        /\ s = run.cursor /\ run.state \notin {"running", "succeeded", "failed"} => dispatches[s] = 0
        /\ dispatches[s] <= 1
        /\ dispatches[s] = 0 <=> step[s] = "pending"
        /\ step[s] \in InFlightStatuses => run.state = "running" /\ run.cursor = s
TokensAgree ==
    /\ \A j \in started : dispatches[j[1]] # 0 /\ (j[1] = run.cursor => j[2] = run.tok)
    /\ \A c \in callbacks : <<c.step, c.tok>> \in started

\* The parts about rows alone.
RowsAgree ==
    /\ run.state = "none" => run.cursor = 0
    /\ StepsAgree
    /\ TokensAgree

Orderly ==
    /\ \A p, q \in Handlers : Moving(p) /\ Moving(q) => p = q
    /\ \A p \in Handlers : Placed(h[p])
    /\ RowsAgree

OverlapInv == overwrote \/ Orderly

\* A handler writes its own slot.
LEMMA OwnSlot ==
    ASSUME TypeOK, NEW p \in Handlers, NEW x, Become(p, x)
    PROVE  h'[p] = x /\ \A q \in Handlers \ {p} : h'[q] = h[q]
BY DEF TypeOK, Become

\* Everybody else is still placed: gates are settled and never unsettled, and either no
\* row that they are placed by changes, or only a voter is left whose gate is settled.
OthersPlaced(p) == \A q \in Handlers \ {p} : Placed(h[q])'
NobodyElse(p) == \A q \in Handlers \ {p} : ~Moving(q)
GatesStay == \A g \in Gates : gate'[g] = "pending" => gate[g] = "pending"

\* A handler is at another statement, placed; the others are still placed.
LEMMA OrderlyStep ==
    ASSUME TypeOK, Orderly, NEW p \in Handlers, NEW x, Become(p, x), x.pc \in Movers => NobodyElse(p),
           Placed(h[p])', OthersPlaced(p), RowsAgree'
    PROVE  Orderly'
<1>1. h'[p] = x /\ \A q \in Handlers \ {p} : h'[q] = h[q]
  BY OwnSlot
<1>2. ASSUME NEW r \in Handlers, NEW q \in Handlers, Moving(r)', Moving(q)' PROVE r = q
  <2>1. \A s \in Handlers \ {p} : Moving(s)' => Moving(s) /\ (x.pc \in Movers => FALSE)
    BY <1>1 DEF Moving, NobodyElse
  <2> QED
    BY <1>1, <1>2, <2>1 DEF Moving, Orderly
<1>3. \A q \in Handlers : Placed(h[q])'
  BY DEF OthersPlaced
<1> QED
  BY <1>2, <1>3 DEF Orderly

\* The rows that handlers are placed by are not written.
LEMMA OthersSame ==
    ASSUME TypeOK, Orderly, NEW p \in Handlers, NEW x, Become(p, x),
           UNCHANGED <<run, gate, step, dispatches, started>>
    PROVE  OthersPlaced(p)
<1>1. \A q \in Handlers \ {p} : h'[q] = h[q] /\ Placed(h[q])
  BY OwnSlot DEF Orderly
<1> QED
  BY <1>1 DEF OthersPlaced, Placed, Waiting, NobodyWorks, NoneInFlight

\* Nobody else moves, and the run stays where it is.
LEMMA OthersVote ==
    ASSUME Inv, Orderly, NEW p \in Handlers, NEW x, Become(p, x), NobodyElse(p), GatesStay,
           run' = run \/ ~Waiting
    PROVE  OthersPlaced(p)
<1> SUFFICES ASSUME NEW q \in Handlers \ {p} PROVE Placed(h[q])'
  BY DEF OthersPlaced
<1>1. h'[q] = h[q] /\ Placed(h[q]) /\ h[q].pc \notin Movers /\ Typed(h[q])
  BY OwnSlot DEF Orderly, NobodyElse, Moving, Inv
<1>2. ASSUME h[q].pc \in VoterPCs, gate'[h[q].at] = "pending"
      PROVE  run'.state = "awaiting_gate" /\ h[q].at = run'.cursor
  <2>1. gate[h[q].at] = "pending"
    BY <1>1, <1>2 DEF Typed, GatesStay, VoterPCs
  <2> QED
    BY <1>1, <1>2, <2>1 DEF Placed, Waiting
<1> QED
  BY <1>1, <1>2 DEF Placed, Movers

\* Nothing that the rows are compared by is written.
LEMMA RowsSame ==
    ASSUME RowsAgree, UNCHANGED <<run, step, dispatches, started, callbacks>>
    PROVE  RowsAgree'
BY DEF RowsAgree, StepsAgree, TokensAgree

\* A handler that moves is the only one, and the run does not wait for votes.
LEMMA MoverAlone ==
    ASSUME Orderly, NEW p \in Handlers, Moving(p)
    PROVE  NobodyElse(p) /\ ~Waiting /\ NobodyWorks
BY DEF Orderly, NobodyElse, Moving, Placed

\* Nobody moves where the run waits for votes, or where an executor is at work.
LEMMA NobodyMoves ==
    ASSUME Orderly, Waiting \/ ~NobodyWorks \/ run.state = "none"
    PROVE  \A q \in Handlers : ~Moving(q)
<1>1. \A q \in Handlers : Moving(q) => ~Waiting /\ NobodyWorks /\ run.state # "none"
  BY DEF Orderly, Moving, Placed, Movers
<1> QED
  BY <1>1

\* An invocation ends: it is placed anywhere.
LEMMA Ends ==
    ASSUME TypeOK, Orderly, NEW p \in Handlers, Done(p) \/ Become(p, Dead), OthersPlaced(p), RowsAgree'
    PROVE  Orderly'
<1>1. PICK x : Become(p, x) /\ x.pc \in {"idle", "dead"}
  BY DEF Done, Dead, Idle
<1>2. h'[p] = x
  BY <1>1, OwnSlot
<1>3. Placed(h[p])'
  BY <1>1, <1>2 DEF Placed, VotePCs, VoterPCs, Movers
<1> QED
  BY <1>1, <1>3, OrderlyStep DEF Movers

\* It goes on to another statement about the same item.
LEMMA GoesTo ==
    ASSUME TypeOK, NEW p \in Handlers, NEW pc \in PCs, Goto(p, pc)
    PROVE  h'[p].pc = pc /\ h'[p].at = h[p].at /\ h'[p].tok = h[p].tok
<1>1. h[p] \in HandlerState
  BY DEF TypeOK
<1>2. h'[p] = [h[p] EXCEPT !.pc = pc]
  BY OwnSlot DEF Goto
<1> QED
  BY <1>1, <1>2 DEF HandlerState

LEMMA Continues ==
    ASSUME TypeOK, Orderly, NEW p \in Handlers, NEW pc \in PCs, Goto(p, pc),
           pc \in Movers => NobodyElse(p), Placed(h[p])', OthersPlaced(p), RowsAgree'
    PROVE  Orderly'
<1>1. Become(p, [h[p] EXCEPT !.pc = pc]) /\ [h[p] EXCEPT !.pc = pc].pc = pc
  BY DEF Goto, TypeOK, HandlerState
<1> HIDE DEF Become
<1> QED
  BY <1>1, OrderlyStep

\* It advances to item i.
LEMMA AdvancesTo ==
    ASSUME TypeOK, NEW p \in Handlers, NEW i, NEW t, AdvanceTo(p, i, t)
    PROVE  h'[p].pc = "advance" /\ h'[p].at = i /\ h'[p].tok = t
<1>1. h[p] \in HandlerState
  BY DEF TypeOK
<1>2. h'[p] = [h[p] EXCEPT !.pc = "advance", !.at = i, !.tok = t]
  BY OwnSlot DEF AdvanceTo
<1> QED
  BY <1>1, <1>2 DEF HandlerState

LEMMA Advances ==
    ASSUME TypeOK, Orderly, NEW p \in Handlers, NEW i, NEW t, AdvanceTo(p, i, t), NobodyElse(p),
           run'.state \in {"queued", "running", "awaiting_gate"}, t = run'.tok,
           NoneInFlight', NobodyWorks', ~Waiting',
           i = run'.cursor + 1 \/ (i = run'.cursor /\ run'.state = "queued"),
           OthersPlaced(p), RowsAgree'
    PROVE  Orderly'
<1>1. PICK x : Become(p, x)
  BY DEF AdvanceTo
<1>2. h'[p].pc = "advance" /\ h'[p].at = i /\ h'[p].tok = t
  BY AdvancesTo
<1>3. Placed(h[p])'
  BY <1>2 DEF Placed, VotePCs, VoterPCs
<1> QED
  BY <1>1, <1>3, OrderlyStep

-----------------------------------------------------------------------------
LEMMA TriggerOrderly ==
    ASSUME Inv, Orderly, NEW p \in Handlers, Trigger(p)
    PROVE  Orderly'
<1>1. TypeOK /\ run.state = "none" /\ run.cursor = 0 /\ RowsAgree
  BY DEF Inv, Trigger, Orderly, RowsAgree
<1>2. run' = [state |-> "queued", cursor |-> 0, tok |-> minted + 1]
      /\ UNCHANGED <<step, gate, dispatches, started, callbacks>>
  BY DEF Trigger, extVars
<1>3. \A s \in Steps : dispatches[s] = 0 /\ step[s] = "pending"
  BY <1>1 DEF RowsAgree, StepsAgree
<1>4. started = {} /\ callbacks = {}
  <2>1. started \subseteq Steps \X Nat
    BY <1>1 DEF TypeOK
  <2>2. \A j \in started : j[1] \in Steps /\ dispatches[j[1]] # 0
    BY <1>1, <2>1 DEF RowsAgree, TokensAgree
  <2>3. started = {}
    BY <1>3, <2>2
  <2> QED
    BY <1>1, <2>3 DEF RowsAgree, TokensAgree
<1>5. RowsAgree'
  BY <1>2, <1>3, <1>4 DEF RowsAgree, StepsAgree, TokensAgree, InFlightStatuses
<1>6. NoneInFlight' /\ NobodyWorks' /\ ~Waiting'
  BY <1>2, <1>3, <1>4 DEF NoneInFlight, NobodyWorks, Waiting, InFlightStatuses
<1>7. AdvanceTo(p, 0, minted + 1)
  BY DEF Trigger
<1>8. NobodyElse(p)
  BY <1>1, NobodyMoves DEF NobodyElse
<1>9. OthersPlaced(p)
  <2>1. PICK x : Become(p, x)
    BY <1>7 DEF AdvanceTo
  <2>2. GatesStay /\ ~Waiting
    BY <1>1, <1>2 DEF GatesStay, Waiting
  <2> QED
    BY <1>8, <2>1, <2>2, OthersVote
<1> QED
  BY <1>1, <1>2, <1>5, <1>6, <1>7, <1>8, <1>9, Advances

\* The handler that moves writes the run or its own step: the others are voters at most,
\* and their gates are settled.
LEMMA MoverWrites ==
    ASSUME Inv, Orderly, NEW p \in Handlers, Moving(p), NEW x, Become(p, x), gate' = gate
    PROVE  OthersPlaced(p)
<1>1. NobodyElse(p) /\ ~Waiting
  BY MoverAlone
<1>2. GatesStay
  BY DEF GatesStay
<1> QED
  BY <1>1, <1>2, OthersVote

LEMMA AdvanceOrderly ==
    ASSUME Inv, Orderly, NEW p \in Handlers,
           AdvanceToGate(p) \/ AdvanceToEnd(p) \/ AdvanceToStep(p)
    PROVE  Orderly'
<1>0. TypeOK /\ h[p] \in HandlerState /\ h[p].pc = "advance" /\ Moving(p) /\ RowsAgree
  BY DEF Inv, TypeOK, AdvanceToGate, AdvanceToEnd, AdvanceToStep, Moving, Movers, Orderly, RowsAgree
<1>1. /\ run.state \in {"queued", "running", "awaiting_gate"} /\ h[p].tok = run.tok /\ NoneInFlight
      /\ h[p].at = run.cursor + 1 \/ (h[p].at = run.cursor /\ run.state = "queued")
      /\ NobodyElse(p) /\ NobodyWorks
  BY <1>0, MoverAlone DEF Orderly, Placed
<1>2. \A s \in Steps : s >= h[p].at => dispatches[s] = 0
  <2>1. run.cursor \in Nat /\ h[p].at \in Nat
    BY <1>0, PipelineAssumption DEF TypeOK, HandlerState
  <2> QED
    BY <1>0, <1>1, <2>1 DEF RowsAgree, StepsAgree
<1>3. UNCHANGED <<step, gate, dispatches, started, callbacks>>
      /\ run \in [state : RunStates, cursor : 0..N, tok : Nat] /\ h[p].at \in 0..N
  BY <1>0 DEF AdvanceToGate, AdvanceToEnd, AdvanceToStep, extVars, TypeOK, HandlerState
<1>4. started \subseteq Steps \X Nat
  BY <1>0 DEF TypeOK
<1>8. OthersPlaced(p)
  <2>1. PICK x : Become(p, x)
    BY DEF AdvanceToGate, AdvanceToEnd, AdvanceToStep, Done, Goto
  <2> QED
    BY <1>0, <1>3, <2>1, MoverWrites
<1>5. ASSUME h[p].at \in Gates, run' = [run EXCEPT !.state = "awaiting_gate", !.cursor = h[p].at], Done(p)
      PROVE  Orderly'
  <2>1. run'.state = "awaiting_gate" /\ run'.cursor = h[p].at /\ run'.tok = run.tok
    BY <1>3, <1>5
  <2>2. RowsAgree'
    BY <1>0, <1>1, <1>2, <1>3, <1>4, <1>5, <2>1 DEF RowsAgree, StepsAgree, TokensAgree, NoneInFlight
  <2> QED
    BY <1>0, <1>5, <1>8, <2>2, Ends
<1>6. ASSUME run' = [run EXCEPT !.state = "succeeded"], Done(p)
      PROVE  Orderly'
  <2>1. run'.state = "succeeded" /\ run'.cursor = run.cursor /\ run'.tok = run.tok
    BY <1>3, <1>6
  <2>2. RowsAgree'
    BY <1>0, <1>1, <1>3, <2>1 DEF RowsAgree, StepsAgree, TokensAgree, NoneInFlight
  <2> QED
    BY <1>0, <1>6, <1>8, <2>2, Ends
<1>7. ASSUME h[p].at \in Steps, run' = [run EXCEPT !.state = "running", !.cursor = h[p].at], Goto(p, "dispatch")
      PROVE  Orderly'
  <2>1. run'.state = "running" /\ run'.cursor = h[p].at /\ run'.tok = run.tok
    BY <1>3, <1>7
  <2>2. dispatches[h[p].at] = 0
    BY <1>2, <1>3, <1>7, PipelineAssumption
  <2>3. RowsAgree'
    <3>1. StepsAgree'
      BY <1>0, <1>1, <1>2, <1>3, <2>1 DEF RowsAgree, StepsAgree, NoneInFlight
    <3>2. TokensAgree'
      BY <1>0, <1>3, <2>1, <2>2 DEF RowsAgree, TokensAgree
    <3> QED
      BY <2>1, <3>1, <3>2 DEF RowsAgree
  <2>4. h'[p].pc = "dispatch" /\ h'[p].at = h[p].at /\ h'[p].tok = h[p].tok
    BY <1>0, <1>7, GoesTo
  <2>5. Placed(h[p])'
    BY <1>1, <1>3, <2>1, <2>2, <2>4 DEF Placed, VotePCs, VoterPCs, Waiting, NobodyWorks
  <2> QED
    BY <1>0, <1>1, <1>7, <1>8, <2>3, <2>5, Continues
<1> QED
  BY <1>5, <1>6, <1>7 DEF AdvanceToGate, AdvanceToEnd, AdvanceToStep

LEMMA DispatchOrderly ==
    ASSUME Inv, Orderly, NEW p \in Handlers, DispatchStep(p)
    PROVE  Orderly'
<1> DEFINE s == h[p].at
<1>0. TypeOK /\ h[p] \in HandlerState /\ h[p].pc = "dispatch" /\ Moving(p) /\ RowsAgree /\ s \in Steps
  BY DEF Inv, TypeOK, DispatchStep, Moving, Movers, Orderly, RowsAgree, Typed
<1>1. run.state = "running" /\ h[p].tok = run.tok /\ s = run.cursor /\ dispatches[s] = 0
      /\ NobodyElse(p) /\ NobodyWorks
  BY <1>0, MoverAlone DEF Orderly, Placed
<1>2. /\ step' = [step EXCEPT ![s] = "dispatched"]
      /\ dispatches' = [dispatches EXCEPT ![s] = 1]
      /\ UNCHANGED <<run, gate, started, callbacks>> /\ Goto(p, "start")
  BY <1>0, <1>1 DEF DispatchStep, extVars, TypeOK
<1>3. step \in [Steps -> StepStatuses] /\ dispatches \in [Steps -> 0..2] /\ started \subseteq Steps \X Nat
  BY <1>0 DEF TypeOK
<1>4. h'[p].pc = "start" /\ h'[p].at = s /\ h'[p].tok = h[p].tok
  BY <1>0, <1>2, GoesTo
<1>11. OthersPlaced(p)
  <2>1. PICK x : Become(p, x)
    BY <1>2 DEF Goto
  <2> QED
    BY <1>0, <1>2, <2>1, MoverWrites
<1> HIDE DEF s
<1>5. /\ step'[s] = "dispatched" /\ dispatches'[s] = 1
      /\ \A r \in Steps \ {s} : step'[r] = step[r] /\ dispatches'[r] = dispatches[r]
  BY <1>0, <1>2, <1>3
<1>6. s \in Nat
  BY <1>0, PipelineAssumption
<1>7. StepsAgree'
  BY <1>0, <1>1, <1>2, <1>5, <1>6 DEF RowsAgree, StepsAgree
<1>8. TokensAgree'
  BY <1>0, <1>2, <1>3, <1>5 DEF RowsAgree, TokensAgree
<1>12. \A j \in started : j[1] \in Steps \ {s}
  BY <1>0, <1>1, <1>3 DEF RowsAgree, TokensAgree
<1>13. NobodyWorks' /\ ~Waiting'
  BY <1>1, <1>2, <1>5, <1>12 DEF NobodyWorks, Waiting
<1>9. Placed(h[p])'
  BY <1>1, <1>2, <1>4, <1>5, <1>12, <1>13 DEF Placed, VotePCs, VoterPCs
<1>10. RowsAgree'
  BY <1>0, <1>2, <1>7, <1>8 DEF RowsAgree
<1> QED
  BY <1>0, <1>1, <1>2, <1>9, <1>10, <1>11, Continues

LEMMA StartOrderly ==
    ASSUME Inv, Orderly, NEW p \in Handlers, StartExecutor(p)
    PROVE  Orderly'
<1>0. TypeOK /\ h[p].pc = "start" /\ Moving(p) /\ RowsAgree
  BY DEF Inv, StartExecutor, Moving, Movers, Orderly, RowsAgree
<1>1. h[p].tok = run.tok /\ h[p].at = run.cursor /\ dispatches[h[p].at] # 0
  BY <1>0 DEF Orderly, Placed
<1>2. started' = started \cup {<<h[p].at, h[p].tok>>} /\ UNCHANGED <<run, gate, step, dispatches, callbacks>> /\ Done(p)
  BY DEF StartExecutor, runVars
<1>3. TokensAgree'
  BY <1>0, <1>1, <1>2 DEF RowsAgree, TokensAgree
<1>4. RowsAgree'
  BY <1>0, <1>2, <1>3 DEF RowsAgree, StepsAgree
<1>5. OthersPlaced(p)
  <2>1. PICK x : Become(p, x)
    BY <1>2 DEF Done
  <2> QED
    BY <1>0, <1>2, <2>1, MoverWrites
<1> QED
  BY <1>0, <1>2, <1>4, <1>5, Ends

\* The step at the cursor is written, and its run goes on from there.
LEMMA StepWritten ==
    ASSUME TypeOK, RowsAgree, NEW s \in Steps, NEW to \in StepStatuses \ {"pending"},
           run.state = "running", s = run.cursor, dispatches[s] # 0,
           step' = [step EXCEPT ![s] = to], UNCHANGED <<run, dispatches, started, callbacks>>
    PROVE  RowsAgree' /\ (to \notin InFlightStatuses => NoneInFlight' /\ NobodyWorks')
<1>1. step \in [Steps -> StepStatuses] /\ started \subseteq Steps \X Nat
  BY DEF TypeOK
<1>2. step'[s] = to /\ \A r \in Steps \ {s} : step'[r] = step[r]
  BY <1>1
<1>3. StepsAgree' /\ TokensAgree'
  BY <1>2 DEF RowsAgree, StepsAgree, TokensAgree
<1>4. to \notin InFlightStatuses => NoneInFlight'
  BY <1>2 DEF RowsAgree, StepsAgree, NoneInFlight
<1>5. NoneInFlight' => NobodyWorks'
  BY <1>1 DEF NoneInFlight, NobodyWorks
<1> QED
  BY <1>3, <1>4, <1>5 DEF RowsAgree

LEMMA FailOrderly ==
    ASSUME Inv, Orderly, NEW p \in Handlers, FailUnknownExecutor(p)
    PROVE  Orderly'
<1>0. TypeOK /\ h[p].pc = "start" /\ Moving(p) /\ RowsAgree /\ h[p].at \in Steps
  BY DEF Inv, FailUnknownExecutor, Moving, Movers, Orderly, RowsAgree, Typed
<1>1. run.state = "running" /\ h[p].at = run.cursor /\ dispatches[h[p].at] # 0 /\ NobodyElse(p)
  BY <1>0, MoverAlone DEF Orderly, Placed
<1>2. step' = [step EXCEPT ![h[p].at] = "failed"] /\ UNCHANGED <<run, gate, dispatches, started, callbacks>>
      /\ Goto(p, "finish")
  BY DEF FailUnknownExecutor, extVars
<1>3. RowsAgree' /\ NoneInFlight' /\ NobodyWorks'
  <2>1. "failed" \in StepStatuses \ {"pending"} /\ "failed" \notin InFlightStatuses
    BY DEF InFlightStatuses
  <2> QED
    BY <1>0, <1>1, <1>2, <2>1, StepWritten
<1>4. h'[p].pc = "finish"
  BY <1>0, <1>2, GoesTo
<1>5. Placed(h[p])'
  BY <1>1, <1>2, <1>3, <1>4 DEF Placed, VotePCs, VoterPCs, Waiting
<1>6. OthersPlaced(p)
  <2>1. PICK x : Become(p, x)
    BY <1>2 DEF Goto
  <2> QED
    BY <1>0, <1>2, <2>1, MoverWrites
<1> QED
  BY <1>0, <1>1, <1>2, <1>3, <1>5, <1>6, Continues

\* The run ends: nothing is in flight.
LEMMA FinishOrderly ==
    ASSUME Inv, Orderly, NEW p \in Handlers, FinishFailed(p) \/ RejectRun(p)
    PROVE  Orderly'
<1>0. TypeOK /\ h[p].pc \in {"finish", "rejectRun"} /\ Moving(p) /\ RowsAgree
  BY DEF Inv, FinishFailed, RejectRun, Moving, Movers, Orderly, RowsAgree
<1>1. /\ h[p].pc = "finish" => run.state = "running"
      /\ h[p].pc = "rejectRun" => run.state = "awaiting_gate"
      /\ NoneInFlight
  BY <1>0 DEF Orderly, Placed, RowsAgree, StepsAgree, NoneInFlight
<1>2. /\ run' = [run EXCEPT !.state = IF h[p].pc = "finish" THEN "failed" ELSE "rejected"]
      /\ UNCHANGED <<step, gate, dispatches, started, callbacks>> /\ Done(p)
  BY <1>0 DEF FinishFailed, RejectRun, extVars
<1>3. /\ run'.state = (IF h[p].pc = "finish" THEN "failed" ELSE "rejected")
      /\ run'.cursor = run.cursor /\ run'.tok = run.tok
  BY <1>0, <1>2 DEF TypeOK
<1>4. RowsAgree'
  BY <1>0, <1>1, <1>2, <1>3 DEF RowsAgree, StepsAgree, TokensAgree, NoneInFlight
<1>5. OthersPlaced(p)
  <2>1. PICK x : Become(p, x)
    BY <1>2 DEF Done
  <2> QED
    BY <1>0, <1>2, <2>1, MoverWrites
<1> QED
  BY <1>0, <1>2, <1>4, <1>5, Ends

\* Reads: no row is written, and the handler goes on to read or write elsewhere.
LEMMA ReadsOrderly ==
    ASSUME TypeOK, Orderly, NEW p \in Handlers, NEW x, Become(p, x), x.pc \notin Movers,
           x.pc \in VoterPCs /\ gate[x.at] = "pending" => run.state = "awaiting_gate" /\ x.at = run.cursor,
           UNCHANGED <<run, gate, step, dispatches, started, callbacks>>
    PROVE  Orderly'
<1>1. OthersPlaced(p)
  BY OthersSame
<1>2. RowsAgree'
  BY RowsSame DEF Orderly
<1>3. h'[p] = x
  BY OwnSlot
<1>4. Placed(h[p])'
  BY <1>3 DEF Placed, Movers
<1> QED
  BY <1>1, <1>2, <1>4, OrderlyStep

\* Requests begin with a read: a vote at the gate of the cursor, a callback, the broker.
LEMMA RequestsOrderly ==
    ASSUME Inv, Orderly, NEW p \in Handlers, Request(p), ~Trigger(p)
    PROVE  Orderly'
<1>0. TypeOK /\ UNCHANGED <<run, gate, step, dispatches, started, callbacks>>
  BY DEF Inv, Request, CallbackReadRun, VoteReadRun, IssueReadRun, runVars, extVars
<1>1. ASSUME NEW x, Become(p, x), x.pc \in {"cbStep", "issueStep"} PROVE Orderly'
  <2>1. x.pc \notin Movers /\ x.pc \notin VoterPCs
    BY <1>1 DEF Movers, VoterPCs, VotePCs
  <2> QED
    BY <1>0, <1>1, <2>1, ReadsOrderly
<1>2. ASSUME NEW c \in callbacks, CallbackReadRun(p, c) PROVE Orderly'
  BY <1>1, <1>2 DEF CallbackReadRun
<1>3. ASSUME NEW s \in Steps, NEW j \in started, IssueReadRun(p, s, j[2]) PROVE Orderly'
  BY <1>1, <1>3 DEF IssueReadRun
<1>4. ASSUME NEW g \in Gates, NEW u \in Users, NEW d \in Decisions, VoteReadRun(p, g, u, d) PROVE Orderly'
  <2> DEFINE x == [pc |-> "voteGate", at |-> g, tok |-> 0, user |-> u, say |-> d]
  <2>1. Become(p, x) /\ x.pc = "voteGate" /\ x.at = g /\ run.state = "awaiting_gate" /\ run.cursor = g
    BY <1>4 DEF VoteReadRun
  <2>2. x.pc \notin Movers
    BY <2>1 DEF Movers
  <2> HIDE DEF x
  <2> QED
    BY <1>0, <2>1, <2>2, ReadsOrderly
<1> QED
  BY <1>2, <1>3, <1>4 DEF Request

\* Within an invocation: the reads before a write, the broker, votes on record, deaths.
LEMMA ReadingOrderly ==
    ASSUME Inv, Orderly, NEW p \in Handlers,
           \/ CallbackReadStep(p) \/ VoteReadGate(p) \/ VoteInsert(p) \/ VoteEvaluate(p)
           \/ IssueReadStep(p) \/ IssueReadGate(p) \/ IssueCredential(p) \/ Crash(p)
    PROVE  Orderly'
<1>0. TypeOK /\ h[p] \in HandlerState /\ UNCHANGED <<run, gate, step, dispatches, started, callbacks>>
  BY DEF Inv, TypeOK, CallbackReadStep, VoteReadGate, VoteInsert, VoteEvaluate, IssueReadStep, IssueReadGate,
         IssueCredential, Crash, runVars, extVars
<1>1. CASE Done(p) \/ Become(p, Dead)
  <2>1. PICK x : Become(p, x) /\ x.pc \in {"idle", "dead"}
    BY <1>1 DEF Done, Dead, Idle
  <2>2. x.pc \notin Movers /\ x.pc \notin VoterPCs
    BY <2>1 DEF Movers, VoterPCs, VotePCs
  <2> QED
    BY <1>0, <2>1, <2>2, ReadsOrderly
<1>2. ASSUME NEW pc \in {"cbWrite", "issueGate", "issue"}, Goto(p, pc) PROVE Orderly'
  <2>1. Become(p, [h[p] EXCEPT !.pc = pc]) /\ [h[p] EXCEPT !.pc = pc].pc = pc
    BY <1>0, <1>2 DEF Goto, HandlerState
  <2>2. pc \notin Movers /\ pc \notin VoterPCs
    BY DEF Movers, VoterPCs, VotePCs
  <2> HIDE DEF Become
  <2> QED
    BY <1>0, <2>1, <2>2, ReadsOrderly
<1>3. ASSUME h[p].pc \in {"voteGate", "voteInsert", "voteEval"},
             NEW pc \in {"voteInsert", "voteEval", "rejectGate", "resumeGate"}, Goto(p, pc)
      PROVE  Orderly'
  <2> DEFINE x == [h[p] EXCEPT !.pc = pc]
  <2>1. Become(p, x) /\ x.pc = pc /\ x.at = h[p].at
    BY <1>0, <1>3 DEF Goto, HandlerState
  <2>2. pc \notin Movers
    BY DEF Movers
  <2>3. gate[h[p].at] = "pending" => run.state = "awaiting_gate" /\ h[p].at = run.cursor
    BY <1>3 DEF Orderly, Placed, VoterPCs, VotePCs
  <2> HIDE DEF x
  <2> QED
    BY <1>0, <2>1, <2>2, <2>3, ReadsOrderly
<1>4. CASE VoteEvaluate(p)
  <2>1. GateOutcome(h[p].at) \in {"rejected", "resumed", "pending"}
    BY DEF GateOutcome, Outcome
  <2>2. h[p].pc = "voteEval" /\ (Done(p) \/ Goto(p, "rejectGate") \/ Goto(p, "resumeGate"))
    BY <1>4, <2>1 DEF VoteEvaluate
  <2> QED
    BY <1>1, <1>3, <2>2
<1>5. CASE VoteReadGate(p) \/ VoteInsert(p)
  <2>1. Done(p) \/ (h[p].pc \in {"voteGate", "voteInsert"} /\ (Goto(p, "voteInsert") \/ Goto(p, "voteEval")))
    BY <1>5 DEF VoteReadGate, VoteInsert
  <2> QED
    BY <1>1, <1>3, <2>1
<1> QED
  BY <1>1, <1>2, <1>4, <1>5 DEF CallbackReadStep, IssueReadStep, IssueReadGate, IssueCredential, Crash

\* A callback that settles a step which is not settled is of the step at the cursor, and
\* nobody else carries the run on.
LEMMA CallbackWriteOrderly ==
    ASSUME Inv, Orderly, NEW p \in Handlers, CallbackWrite(p), ~overwrote'
    PROVE  Orderly'
<1>0. TypeOK /\ h[p] \in HandlerState /\ h[p].pc = "cbWrite" /\ RowsAgree /\ h[p].at \in Steps
      /\ h[p].say \in CallbackStatuses /\ [step |-> h[p].at, tok |-> h[p].tok, status |-> h[p].say] \in callbacks
  BY DEF Inv, TypeOK, CallbackWrite, Orderly, RowsAgree, Typed, Earned
<1>1. <<h[p].at, h[p].tok>> \in started
  BY <1>0 DEF RowsAgree, TokensAgree
<1>2. dispatches[h[p].at] # 0
  BY <1>0, <1>1 DEF RowsAgree, TokensAgree
<1>3. step[h[p].at] \in InFlightStatuses
  BY <1>0, <1>2 DEF CallbackWrite, RowsAgree, StepsAgree, TypeOK, TerminalStepStatuses, InFlightStatuses
<1>4. run.state = "running" /\ h[p].at = run.cursor /\ h[p].tok = run.tok
  BY <1>0, <1>1, <1>3 DEF RowsAgree, StepsAgree, TokensAgree
<1>5. NobodyElse(p)
  <2>1. ~NobodyWorks
    BY <1>1, <1>3 DEF NobodyWorks
  <2> QED
    BY <2>1, NobodyMoves DEF NobodyElse
<1>6. step' = [step EXCEPT ![h[p].at] = h[p].say] /\ UNCHANGED <<run, gate, dispatches, started, callbacks>>
  BY DEF CallbackWrite, extVars
<1>7. RowsAgree' /\ (h[p].say \notin InFlightStatuses => NoneInFlight' /\ NobodyWorks')
  BY <1>0, <1>2, <1>4, <1>6, StepWritten
<1>8. OthersPlaced(p)
  <2>1. PICK x : Become(p, x)
    BY <1>0 DEF CallbackWrite, Done, Goto, AdvanceTo
  <2>2. GatesStay
    BY <1>6 DEF GatesStay
  <2> QED
    BY <1>5, <1>6, <2>1, <2>2, OthersVote
<1>9. CASE h[p].say = "running"
  <2>1. Done(p)
    BY <1>9 DEF CallbackWrite
  <2> QED
    BY <1>0, <1>7, <1>8, <2>1, Ends
<1>10. CASE h[p].say = "failed"
  <2>1. Goto(p, "finish")
    BY <1>10 DEF CallbackWrite
  <2>2. h'[p].pc = "finish"
    BY <1>0, <2>1, GoesTo
  <2>3. Placed(h[p])'
    BY <1>4, <1>6, <1>7, <1>10, <2>2 DEF Placed, VotePCs, VoterPCs, InFlightStatuses, Waiting
  <2> QED
    BY <1>0, <1>5, <1>7, <1>8, <2>1, <2>3, Continues
<1>11. CASE h[p].say = "succeeded"
  <2>1. AdvanceTo(p, h[p].at + 1, h[p].tok)
    BY <1>11 DEF CallbackWrite
  <2>2. NoneInFlight' /\ NobodyWorks' /\ ~Waiting'
    BY <1>4, <1>6, <1>7, <1>11 DEF InFlightStatuses, Waiting
  <2> QED
    BY <1>0, <1>4, <1>5, <1>6, <1>7, <1>8, <2>1, <2>2, Advances
<1> QED
  BY <1>0, <1>9, <1>10, <1>11

\* A vote that settles a gate which is not settled finds the run waiting there, and nobody
\* else carries the run on.
LEMMA SettleGateOrderly ==
    ASSUME Inv, Orderly, NEW p \in Handlers, RejectGate(p) \/ ResumeGate(p), ~overwrote'
    PROVE  Orderly'
<1>0. /\ TypeOK /\ h[p].pc \in VoterPCs /\ h[p].at \in Gates /\ RowsAgree
      /\ gate[h[p].at] = "pending" /\ UNCHANGED <<run, step, dispatches, started, callbacks>>
  BY DEF Inv, RejectGate, ResumeGate, VoterPCs, VotePCs, Orderly, RowsAgree, Typed, extVars
<1>1. run.state = "awaiting_gate" /\ h[p].at = run.cursor /\ Waiting
  BY <1>0 DEF Orderly, Placed, Waiting
<1>2. PICK pc \in {"rejectRun", "rotate"}, to \in {"rejected", "resumed"} :
          gate' = [gate EXCEPT ![h[p].at] = to] /\ Goto(p, pc)
  BY DEF RejectGate, ResumeGate
<1>3. gate'[h[p].at] = to /\ \A g \in Gates \ {h[p].at} : gate'[g] = gate[g]
  BY <1>0, <1>2 DEF TypeOK
<1>4. NobodyElse(p)
  BY <1>1, NobodyMoves DEF NobodyElse
<1>5. OthersPlaced(p)
  <2>1. PICK x : Become(p, x)
    BY <1>2 DEF Goto
  <2>2. GatesStay
    BY <1>0, <1>3 DEF GatesStay
  <2> QED
    BY <1>0, <1>4, <2>1, <2>2, OthersVote
<1>6. RowsAgree'
  BY <1>0, RowsSame
<1>7. h'[p].pc = pc /\ h'[p].at = h[p].at
  BY <1>0, <1>2, GoesTo
<1>8. NobodyWorks'
  <2>1. started \subseteq Steps \X Nat
    BY <1>0 DEF TypeOK
  <2> QED
    BY <1>0, <1>1, <2>1 DEF NobodyWorks, RowsAgree, StepsAgree
<1>9. Placed(h[p])'
  BY <1>0, <1>1, <1>2, <1>3, <1>7, <1>8 DEF Placed, Waiting, VoterPCs, VotePCs
<1> QED
  BY <1>0, <1>2, <1>4, <1>5, <1>6, <1>9, Continues

LEMMA RotateOrderly ==
    ASSUME Inv, Orderly, NEW p \in Handlers, RotateToken(p)
    PROVE  Orderly'
<1>0. TypeOK /\ h[p].pc = "rotate" /\ Moving(p) /\ RowsAgree /\ h[p].at \in Gates
  BY DEF Inv, RotateToken, Moving, Movers, Orderly, RowsAgree, Typed, VotePCs
<1>1. run.state = "awaiting_gate" /\ h[p].at = run.cursor /\ NobodyElse(p) /\ ~Waiting
  BY <1>0, MoverAlone DEF Orderly, Placed
<1>2. run' = [run EXCEPT !.tok = minted + 1] /\ UNCHANGED <<step, gate, dispatches, started, callbacks>>
      /\ AdvanceTo(p, h[p].at + 1, minted + 1)
  BY DEF RotateToken, extVars
<1>3. run'.state = "awaiting_gate" /\ run'.cursor = run.cursor /\ run'.tok = minted + 1
  BY <1>0, <1>1, <1>2 DEF TypeOK
<1>4. RowsAgree' /\ NoneInFlight' /\ NobodyWorks'
  <2>1. \A j \in started : j[1] \in Steps
    BY <1>0 DEF TypeOK
  <2> QED
    BY <1>0, <1>1, <1>2, <1>3, <2>1 DEF RowsAgree, StepsAgree, TokensAgree, NoneInFlight, NobodyWorks
<1>5. ~Waiting'
  BY <1>1, <1>2, <1>3 DEF Waiting
<1>6. OthersPlaced(p)
  <2>1. PICK x : Become(p, x)
    BY <1>2 DEF AdvanceTo
  <2> QED
    BY <1>0, <1>2, <2>1, MoverWrites
<1> QED
  BY <1>0, <1>1, <1>2, <1>3, <1>4, <1>5, <1>6, Advances

\* An executor reports what it was started for.
LEMMA ReportOrderly ==
    ASSUME Orderly, NEW s, NEW t, NEW status, Report(s, t, status)
    PROVE  Orderly'
<1>1. UNCHANGED <<run, gate, step, dispatches, started, h>>
      /\ callbacks' = callbacks \cup {[step |-> s, tok |-> t, status |-> status]} /\ <<s, t>> \in started
  BY DEF Report, runVars
<1>2. TokensAgree'
  BY <1>1 DEF Orderly, TokensAgree, RowsAgree
<1> QED
  BY <1>1, <1>2 DEF Orderly, RowsAgree, StepsAgree, Placed, NoneInFlight, NobodyWorks, Waiting, Moving

LEMMA OverlapInit == Init => OverlapInv
<1> SUFFICES ASSUME Init PROVE Orderly
  BY DEF OverlapInv
<1>1. \A p \in Handlers : h[p].pc = "idle"
  BY DEF Init, Idle
<1>2. RowsAgree
  BY DEF Init, RowsAgree, StepsAgree, TokensAgree, InFlightStatuses
<1> QED
  BY <1>1, <1>2 DEF Orderly, Moving, Movers, Placed, VotePCs, VoterPCs

LEMMA OverlapNext == Inv /\ OverlapInv /\ [Next]_vars => OverlapInv'
<1>1. SUFFICES ASSUME Inv, Orderly, [Next]_vars, ~overwrote' PROVE Orderly'
  BY HistoryStep DEF OverlapInv, Inv, TypeOK
<1>2. ASSUME NEW p \in Handlers, HandlerStep(p) PROVE Orderly'
  BY <1>1, <1>2, AdvanceOrderly, DispatchOrderly, StartOrderly, FailOrderly, FinishOrderly, ReadingOrderly,
     CallbackWriteOrderly, SettleGateOrderly, RotateOrderly DEF HandlerStep
<1>3. ASSUME NEW p \in Handlers, Request(p) PROVE Orderly'
  BY <1>1, <1>3, TriggerOrderly, RequestsOrderly
<1>4. CASE UNCHANGED vars
  BY <1>1, <1>4 DEF vars, runVars, extVars, Orderly, RowsAgree, StepsAgree, TokensAgree, Placed, NoneInFlight,
                    NobodyWorks, Waiting, Moving
<1> QED
  BY <1>1, <1>2, <1>3, <1>4, ReadingOrderly, ReportOrderly DEF Next

LEMMA OverlapInvariance == Spec => []OverlapInv
<1> QED
  BY OverlapInit, OverlapNext, Invariance, PTL DEF Spec

(***************************************************************************)
(* applyCallback: however callbacks, votes and deaths interleave, no step  *)
(* is dispatched a second time unless an invocation has settled a step or  *)
(* a gate that another had settled already.                                *)
(***************************************************************************)
THEOREM NoSecondDispatch == Spec => []DispatchedOnce
<1>1. OverlapInv => DispatchedOnce
  BY DEF OverlapInv, Orderly, RowsAgree, StepsAgree, DispatchedOnce
<1> QED
  BY <1>1, OverlapInvariance, PTL

(***************************************************************************)
(* With the same exception, the run stays with the step in flight, and the *)
(* token of its executor stays good until the step is settled.             *)
(***************************************************************************)
THEOREM StepsStayAnswerable == Spec => [](overwrote \/ InFlightAnswerable)
<1>1. OverlapInv => overwrote \/ InFlightAnswerable
  BY DEF OverlapInv, Orderly, RowsAgree, StepsAgree, TokensAgree, InFlightAnswerable
<1> QED
  BY <1>1, OverlapInvariance, PTL

\* Who writes the run's state, and who its token, and where the run is then.
LEMMA StateWriters ==
    ASSUME Inv, OverlapInv, [Next]_vars, ~overwrote
    PROVE  /\ run.state \in FinishedRunStates => run'.state = run.state
           /\ run'.tok # run.tok => run.state \in {"none", "awaiting_gate"}
<1>0. run \in [state : RunStates, cursor : 0..N, tok : Nat] /\ Orderly
  BY DEF Inv, TypeOK, OverlapInv
<1>1. ASSUME NEW p \in Handlers, AdvanceToGate(p) \/ AdvanceToEnd(p) \/ AdvanceToStep(p)
      PROVE  run.state \notin FinishedRunStates /\ run'.tok = run.tok
  <2>1. Placed(h[p]) /\ h[p].pc = "advance"
    BY <1>0, <1>1 DEF Orderly, AdvanceToGate, AdvanceToEnd, AdvanceToStep
  <2>2. run'.tok = run.tok
    BY <1>0, <1>1 DEF AdvanceToGate, AdvanceToEnd, AdvanceToStep
  <2> QED
    BY <2>1, <2>2 DEF Placed, FinishedRunStates
<1>2. ASSUME NEW p \in Handlers, FinishFailed(p) \/ RejectRun(p)
      PROVE  run.state \notin FinishedRunStates /\ run'.tok = run.tok
  <2>1. Placed(h[p]) /\ h[p].pc \in {"finish", "rejectRun"}
    BY <1>0, <1>2 DEF Orderly, FinishFailed, RejectRun
  <2>2. run'.tok = run.tok
    BY <1>0, <1>2 DEF FinishFailed, RejectRun
  <2> QED
    BY <2>1, <2>2 DEF Placed, FinishedRunStates
<1>3. ASSUME NEW p \in Handlers, RotateToken(p) PROVE run.state = "awaiting_gate"
  BY <1>0, <1>3 DEF Orderly, RotateToken, Placed
<1>4. ASSUME NEW p \in Handlers, Trigger(p) PROVE run.state = "none"
  BY <1>4 DEF Trigger
<1>5. ASSUME run' # run
      PROVE  \E p \in Handlers : \/ AdvanceToGate(p) \/ AdvanceToEnd(p) \/ AdvanceToStep(p)
                                 \/ FinishFailed(p) \/ RejectRun(p) \/ RotateToken(p) \/ Trigger(p)
  BY <1>5 DEF Next, vars, runVars, HandlerStep, Request, Crash, Report, DispatchStep, StartExecutor, FailUnknownExecutor,
              CallbackReadRun, CallbackReadStep, CallbackWrite, VoteReadRun, VoteReadGate, VoteInsert, VoteEvaluate,
              RejectGate, ResumeGate, IssueReadRun, IssueReadStep, IssueReadGate, IssueCredential
<1> QED
  BY <1>1, <1>2, <1>3, <1>4, <1>5 DEF FinishedRunStates

(***************************************************************************)
(* FINISHED_RUN_STATES: with the same exception, nothing moves a finished  *)
(* run any more.                                                           *)
(***************************************************************************)
THEOREM FinishedStays == Spec => FinishedUnlessOverwritten
<1>1. Inv /\ OverlapInv /\ [Next]_vars
          => [~overwrote /\ run.state \in FinishedRunStates => run'.state = run.state]_vars
  BY StateWriters
<1> QED
  BY <1>1, Invariance, OverlapInvariance, PTL DEF Spec, FinishedUnlessOverwritten

(***************************************************************************)
(* resumeFromGate: with the same exception, the token changes only while   *)
(* no executor is at work.                                                 *)
(***************************************************************************)
THEOREM RotationIsSafe == Spec => RotationUnlessOverwritten
<1>1. Inv /\ OverlapInv /\ [Next]_vars => [~overwrote /\ run'.tok # run.tok => NoneInFlight]_vars
  BY StateWriters DEF OverlapInv, Orderly, RowsAgree, StepsAgree, NoneInFlight
<1> QED
  BY <1>1, Invariance, OverlapInvariance, PTL DEF Spec, RotationUnlessOverwritten
=============================================================================
