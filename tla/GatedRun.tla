------------------------------- MODULE GatedRun -------------------------------
(***************************************************************************)
(* One run of a pipeline: the trigger -> callback -> advance loop of       *)
(* execution/RunService.ts, the gate votes of governance/GateService.ts    *)
(* and the credential broker of credential/CredentialBroker.ts, sharing    *)
(* the rows of one run.                                                    *)
(*                                                                         *)
(* None of the three opens a transaction: every request handler is a       *)
(* sequence of single database statements, so one action here is one       *)
(* statement (reads of rows that never change are folded into the next     *)
(* one), and a handler may stop for good between two of them.  A handler   *)
(* slot is one function invocation with what it defers by waitUntil.       *)
(***************************************************************************)
EXTENDS GateRules

CONSTANTS
    N,                \* number of pipeline items; the cursor runs over 0..N
    GateReq,          \* the gate items, with the requirement of each
    PreventSelf,      \* the gates with prevent_self
    CredentialGate,   \* the steps that request a credential, with its gate
    UnknownExecutor,  \* the steps whose executor id has no adapter
    Granted,          \* the steps whose credential the allowlist grants
    Triggerer,        \* who triggered the run
    Handlers,         \* slots for invocations; one that is killed takes its slot with it
    Overlap,          \* whether invocations overlap, or each waits for the one before
    MayFail           \* whether invocations and dispatches may fail

Gates == DOMAIN GateReq
Items == 0..(N - 1)
Steps == Items \ Gates

ASSUME PipelineAssumption ==
    /\ N \in Nat
    /\ Gates \subseteq Items
    /\ GateReq \in [Gates -> Requirement]
    /\ PreventSelf \subseteq Gates
    /\ UnknownExecutor \subseteq Steps
    /\ Granted \subseteq Steps
    /\ Triggerer \in Users
    /\ Overlap \in BOOLEAN
    /\ MayFail \in BOOLEAN

\* moccoConfigSchema refuses a credential whose gate is not an earlier item.
ASSUME CredentialAssumption ==
    /\ DOMAIN CredentialGate \subseteq Steps
    /\ \A s \in DOMAIN CredentialGate :
          CredentialGate[s] \in Gates /\ CredentialGate[s] < s

RunStates == {"none", "queued", "running", "awaiting_gate",
              "succeeded", "failed", "rejected"}
FinishedRunStates == {"succeeded", "failed", "rejected"}
StepStatuses == {"pending", "dispatched", "running", "succeeded", "failed"}
TerminalStepStatuses == {"succeeded", "failed"}
InFlightStatuses == {"dispatched", "running"}
GateStates == {"pending", "resumed", "rejected"}
CallbackStatuses == {"running", "succeeded", "failed"}
Decisions == {"resume", "reject"}

VARIABLES
    run,         \* the run row: state, cursor (currentIndex), token hash
    minted,      \* callback tokens minted so far; a token is its number
    step,        \* run_steps: the status of each step
    gate,        \* run_gates: the state of each gate
    votes,       \* resumes: the decision of each user on each gate
    dispatches,  \* step.dispatched events of each step: 0, 1 or 2 (several)
    h,           \* what each handler slot is doing
    started,     \* external: the <<step, token>> an executor has started
    callbacks,   \* external: callbacks sent; delivery never uses one up
    issued,      \* the steps the broker has issued a credential to
    overwrote    \* history: did an invocation settle a step or a gate that was settled already?

runVars == <<run, minted, step, gate, votes, dispatches>>
extVars == <<started, callbacks>>
vars == <<runVars, h, extVars, issued, overwrote>>

Approvers(g) == {u \in Users : votes[g][u] = "resume"}
Rejecters(g) == {u \in Users : votes[g][u] = "reject"}

Callback == [step : Steps, tok : Nat, status : CallbackStatuses]

PCs == {"idle", "dead",
        "advance", "dispatch", "start", "finish",          \* RunService
        "cbStep", "cbWrite",                               \* applyCallback
        "voteGate", "voteInsert", "voteEval",              \* GateService
        "rejectGate", "rejectRun", "resumeGate", "rotate",
        "issueStep", "issueGate", "issue"}                 \* CredentialBroker

Idle == [pc |-> "idle", at |-> 0, tok |-> 0, user |-> Triggerer, say |-> "none"]

Dead == [Idle EXCEPT !.pc = "dead"]

HandlerState == [pc : PCs, at : 0..N, tok : Nat, user : Users,
                 say : CallbackStatuses \cup Decisions \cup {"none"}]

TypeOK ==
    /\ run \in [state : RunStates, cursor : 0..N, tok : Nat]
    /\ minted \in Nat
    /\ step \in [Steps -> StepStatuses]
    /\ gate \in [Gates -> GateStates]
    /\ votes \in [Gates -> [Users -> Decisions \cup {"none"}]]
    /\ dispatches \in [Steps -> 0..2]
    /\ h \in [Handlers -> HandlerState]
    /\ started \subseteq Steps \X Nat
    /\ callbacks \subseteq Callback
    /\ issued \subseteq Steps
    /\ overwrote \in BOOLEAN

Init ==
    /\ run = [state |-> "none", cursor |-> 0, tok |-> 0]
    /\ minted = 0
    /\ step = [s \in Steps |-> "pending"]
    /\ gate = [g \in Gates |-> "pending"]
    /\ votes = [g \in Gates |-> [u \in Users |-> "none"]]
    /\ dispatches = [s \in Steps |-> 0]
    /\ h = [p \in Handlers |-> Idle]
    /\ started = {}
    /\ callbacks = {}
    /\ issued = {}
    /\ overwrote = FALSE

\* Handler p goes on in state x: at another statement, on another item, done.
Become(p, x) == h' = [h EXCEPT ![p] = x]
Goto(p, pc) == Become(p, [h[p] EXCEPT !.pc = pc])
AdvanceTo(p, i, t) == Become(p, [h[p] EXCEPT !.pc = "advance", !.at = i, !.tok = t])
Done(p) == Become(p, Idle)

\* A request can begin in slot p.
Free(p) ==
    /\ h[p].pc = "idle"
    /\ Overlap \/ \A q \in Handlers : h[q].pc \in {"idle", "dead"}

-----------------------------------------------------------------------------
(* RunService *)

(***************************************************************************)
(* trigger: create the run with a fresh token, materialize its items, then *)
(* advance to item 0.  Until then the run is `queued` and no request can   *)
(* touch it, so the inserts are one action.                                *)
(***************************************************************************)
Trigger(p) ==
    /\ Free(p)
    /\ run.state = "none"
    /\ minted' = minted + 1
    /\ run' = [state |-> "queued", cursor |-> 0, tok |-> minted + 1]
    /\ AdvanceTo(p, 0, minted + 1)
    /\ UNCHANGED <<step, gate, votes, dispatches, extVars, issued, overwrote>>

\* advance onto a gate: the run pauses there.
AdvanceToGate(p) ==
    /\ h[p].pc = "advance"
    /\ h[p].at \in Gates
    /\ run' = [run EXCEPT !.state = "awaiting_gate", !.cursor = h[p].at]
    /\ Done(p)
    /\ UNCHANGED <<minted, step, gate, votes, dispatches, extVars, issued, overwrote>>

\* advance past the last item: the run has succeeded.
AdvanceToEnd(p) ==
    /\ h[p].pc = "advance"
    /\ h[p].at = N
    /\ run' = [run EXCEPT !.state = "succeeded"]
    /\ Done(p)
    /\ UNCHANGED <<minted, step, gate, votes, dispatches, extVars, issued, overwrote>>

\* Mutant: the state is set, the cursor is not.
AdvanceWithoutCursor(p) ==
    /\ h[p].pc = "advance"
    /\ h[p].at \in Steps
    /\ run' = [run EXCEPT !.state = "running"]
    /\ Goto(p, "dispatch")
    /\ UNCHANGED <<minted, step, gate, votes, dispatches, extVars, issued, overwrote>>

\* advance onto a step: move the cursor, then dispatch it.
AdvanceToStep(p) ==
    /\ h[p].pc = "advance"
    /\ h[p].at \in Steps
    /\ run' = [run EXCEPT !.state = "running", !.cursor = h[p].at]
    /\ Goto(p, "dispatch")
    /\ UNCHANGED <<minted, step, gate, votes, dispatches, extVars, issued, overwrote>>

\* dispatchStep: mark the step, log the event, defer the executor's start.
DispatchStep(p) ==
    LET s == h[p].at IN
    /\ h[p].pc = "dispatch"
    /\ step' = [step EXCEPT ![s] = "dispatched"]
    /\ dispatches' = [dispatches EXCEPT ![s] = IF @ = 0 THEN 1 ELSE 2]
    /\ Goto(p, "start")
    /\ UNCHANGED <<run, minted, gate, votes, extVars, issued, overwrote>>

\* startExecutor, adapter known: the executor takes the step and the token.
StartExecutor(p) ==
    /\ h[p].pc = "start"
    /\ h[p].at \notin UnknownExecutor
    /\ started' = started \cup {<<h[p].at, h[p].tok>>}
    /\ Done(p)
    /\ UNCHANGED <<runVars, callbacks, issued, overwrote>>

\* Mutant: an unknown executor is only logged, and the step stalls.
StallUnknownExecutor(p) ==
    /\ h[p].pc = "start"
    /\ h[p].at \in UnknownExecutor
    /\ Done(p)
    /\ UNCHANGED <<runVars, extVars, issued, overwrote>>

\* startExecutor, no adapter: fail the step, then the run.
FailUnknownExecutor(p) ==
    /\ h[p].pc = "start"
    /\ h[p].at \in UnknownExecutor
    /\ step' = [step EXCEPT ![h[p].at] = "failed"]
    /\ Goto(p, "finish")
    /\ UNCHANGED <<run, minted, gate, votes, dispatches, extVars, issued, overwrote>>

\* finishRun(failed).
FinishFailed(p) ==
    /\ h[p].pc = "finish"
    /\ run' = [run EXCEPT !.state = "failed"]
    /\ Done(p)
    /\ UNCHANGED <<minted, step, gate, votes, dispatches, extVars, issued, overwrote>>

\* Mutant: only the token is checked; the idempotency guards are gone.
CallbackUnguarded(p, c) ==
    /\ Free(p)
    /\ run.state # "none"
    /\ c.tok = run.tok
    /\ Become(p, [pc |-> "cbWrite", at |-> c.step, tok |-> c.tok,
                  user |-> Triggerer, say |-> c.status])
    /\ UNCHANGED <<runVars, extVars, issued, overwrote>>

(***************************************************************************)
(* applyCallback, first read: the run row.  A wrong token, a finished run  *)
(* and a step that is not at the cursor all end the request without        *)
(* writing, whatever the step's row says, so they are this action's guard. *)
(***************************************************************************)
CallbackReadRun(p, c) ==
    /\ Free(p)
    /\ run.state # "none"
    /\ c.tok = run.tok
    /\ run.state \notin FinishedRunStates
    /\ c.step = run.cursor
    /\ Become(p, [pc |-> "cbStep", at |-> c.step, tok |-> c.tok,
                  user |-> Triggerer, say |-> c.status])
    /\ UNCHANGED <<runVars, extVars, issued, overwrote>>

\* Second read: the step row.  A settled step makes the callback a no-op.
CallbackReadStep(p) ==
    /\ h[p].pc = "cbStep"
    /\ IF step[h[p].at] \in TerminalStepStatuses THEN Done(p) ELSE Goto(p, "cbWrite")
    /\ UNCHANGED <<runVars, extVars, issued, overwrote>>

\* Mutant: an off-by-one advances to the step that has just succeeded.
CallbackRepeatsStep(p) ==
    LET s == h[p].at IN
    /\ h[p].pc = "cbWrite"
    /\ step' = [step EXCEPT ![s] = h[p].say]
    /\ CASE h[p].say = "running"   -> Done(p)
         [] h[p].say = "failed"    -> Goto(p, "finish")
         [] h[p].say = "succeeded" -> AdvanceTo(p, s, h[p].tok)
    /\ UNCHANGED <<run, minted, gate, votes, dispatches, extVars, issued>>
    /\ overwrote' = (overwrote \/ step[s] \in TerminalStepStatuses)

\* The write, and what the handler does after it.
CallbackWrite(p) ==
    LET s == h[p].at IN
    /\ h[p].pc = "cbWrite"
    /\ step' = [step EXCEPT ![s] = h[p].say]
    /\ CASE h[p].say = "running"   -> Done(p)
         [] h[p].say = "failed"    -> Goto(p, "finish")
         [] h[p].say = "succeeded" -> AdvanceTo(p, s + 1, h[p].tok)
    /\ UNCHANGED <<run, minted, gate, votes, dispatches, extVars, issued>>
    /\ overwrote' = (overwrote \/ step[s] \in TerminalStepStatuses)

-----------------------------------------------------------------------------
(* GateService *)

\* resume, first read: the run is paused at the gate voted on.
VoteReadRun(p, g, u, d) ==
    /\ Free(p)
    /\ run.state = "awaiting_gate"
    /\ run.cursor = g
    /\ Become(p, [pc |-> "voteGate", at |-> g, tok |-> 0,
                  user |-> u, say |-> d])
    /\ UNCHANGED <<runVars, extVars, issued, overwrote>>

\* Mutant: the voter guards are not applied.
VoteUnchecked(p) ==
    /\ h[p].pc = "voteGate"
    /\ IF gate[h[p].at] = "pending" THEN Goto(p, "voteInsert") ELSE Done(p)
    /\ UNCHANGED <<runVars, extVars, issued, overwrote>>

\* Second read: the gate is pending; then the voter guards.
VoteReadGate(p) ==
    LET g == h[p].at IN
    /\ h[p].pc = "voteGate"
    /\ IF /\ gate[g] = "pending"
          /\ CheckVote(GateReq[g], g \in PreventSelf, {Triggerer}, h[p].user)
       THEN Goto(p, "voteInsert")
       ELSE Done(p)
    /\ UNCHANGED <<runVars, extVars, issued, overwrote>>

\* Record the vote; the unique (gate, user) constraint refuses a second one.
VoteInsert(p) ==
    LET g == h[p].at
        u == h[p].user
    IN
    /\ h[p].pc = "voteInsert"
    /\ IF votes[g][u] = "none"
       THEN votes' = [votes EXCEPT ![g][u] = h[p].say] /\ Goto(p, "voteEval")
       ELSE Done(p) /\ UNCHANGED votes
    /\ UNCHANGED <<run, minted, step, gate, dispatches, extVars, issued, overwrote>>

GateOutcome(g) == Outcome(GateReq[g], Approvers(g), Rejecters(g))

\* Read every vote on the gate and evaluate it.
VoteEvaluate(p) ==
    LET outcome == GateOutcome(h[p].at) IN
    /\ h[p].pc = "voteEval"
    /\ CASE outcome = "rejected" -> Goto(p, "rejectGate")
         [] outcome = "resumed"  -> Goto(p, "resumeGate")
         [] outcome = "pending"  -> Done(p)
    /\ UNCHANGED <<runVars, extVars, issued, overwrote>>

\* rejectRun: settle the gate, then the run.
RejectGate(p) ==
    /\ h[p].pc = "rejectGate"
    /\ gate' = [gate EXCEPT ![h[p].at] = "rejected"]
    /\ Goto(p, "rejectRun")
    /\ UNCHANGED <<run, minted, step, votes, dispatches, extVars, issued>>
    /\ overwrote' = (overwrote \/ gate[h[p].at] # "pending")

RejectRun(p) ==
    /\ h[p].pc = "rejectRun"
    /\ run' = [run EXCEPT !.state = "rejected"]
    /\ Done(p)
    /\ UNCHANGED <<minted, step, gate, votes, dispatches, extVars, issued, overwrote>>

\* Mutant: the gate stays pending in its row.
ResumeUnsettled(p) ==
    /\ h[p].pc = "resumeGate"
    /\ Goto(p, "rotate")
    /\ UNCHANGED <<runVars, extVars, issued>>
    /\ overwrote' = (overwrote \/ gate[h[p].at] # "pending")

ResumeGate(p) ==
    /\ h[p].pc = "resumeGate"
    /\ gate' = [gate EXCEPT ![h[p].at] = "resumed"]
    /\ Goto(p, "rotate")
    /\ UNCHANGED <<run, minted, step, votes, dispatches, extVars, issued>>
    /\ overwrote' = (overwrote \/ gate[h[p].at] # "pending")

\* resumeFromGate: a fresh token for what follows the gate, then advance.
RotateToken(p) ==
    /\ h[p].pc = "rotate"
    /\ minted' = minted + 1
    /\ run' = [run EXCEPT !.tok = minted + 1]
    /\ AdvanceTo(p, h[p].at + 1, minted + 1)
    /\ UNCHANGED <<step, gate, votes, dispatches, extVars, issued, overwrote>>

-----------------------------------------------------------------------------
(* CredentialBroker: whoever holds a token asks for the credential of a step *)

IssueReadRun(p, s, t) ==
    /\ Free(p)
    /\ run.tok = t
    /\ Become(p, [pc |-> "issueStep", at |-> s, tok |-> t,
                  user |-> Triggerer, say |-> "none"])
    /\ UNCHANGED <<runVars, extVars, issued, overwrote>>

\* Mutant: any step may ask, in flight or not.
IssueAnyStep(p) ==
    /\ h[p].pc = "issueStep"
    /\ IF h[p].at \in DOMAIN CredentialGate THEN Goto(p, "issueGate") ELSE Done(p)
    /\ UNCHANGED <<runVars, extVars, issued, overwrote>>

\* The step is in flight, and its pinned item requests a credential.
IssueReadStep(p) ==
    LET s == h[p].at IN
    /\ h[p].pc = "issueStep"
    /\ IF step[s] \in InFlightStatuses /\ s \in DOMAIN CredentialGate
       THEN Goto(p, "issueGate")
       ELSE Done(p)
    /\ UNCHANGED <<runVars, extVars, issued, overwrote>>

\* The gate it names is resumed, and the allowlist grants the request.
IssueReadGate(p) ==
    LET s == h[p].at IN
    /\ h[p].pc = "issueGate"
    /\ IF gate[CredentialGate[s]] = "resumed" /\ s \in Granted
       THEN Goto(p, "issue")
       ELSE Done(p)
    /\ UNCHANGED <<runVars, extVars, issued, overwrote>>

IssueCredential(p) ==
    /\ h[p].pc = "issue"
    /\ issued' = issued \cup {h[p].at}
    /\ Done(p)
    /\ UNCHANGED <<runVars, extVars, overwrote>>

-----------------------------------------------------------------------------
(* External: executors and failures *)

\* An executor settles a step one way; it may report progress at any time.
Report(s, t, status) ==
    /\ <<s, t>> \in started
    /\ status # "running" =>
          \A c \in callbacks : c.step = s /\ c.tok = t => c.status \in {"running", status}
    /\ callbacks' = callbacks \cup {[step |-> s, tok |-> t, status |-> status]}
    /\ UNCHANGED <<runVars, h, started, issued, overwrote>>

\* The invocation dies, a statement throws, or a known executor's start fails.
Crash(p) ==
    /\ MayFail
    /\ h[p].pc \notin {"idle", "dead"}
    /\ Become(p, Dead)
    /\ UNCHANGED <<runVars, extVars, issued, overwrote>>

HandlerStep(p) ==
    \/ AdvanceToGate(p) \/ AdvanceToEnd(p) \/ AdvanceToStep(p)
    \/ DispatchStep(p) \/ StartExecutor(p) \/ FailUnknownExecutor(p)
    \/ FinishFailed(p) \/ CallbackReadStep(p) \/ CallbackWrite(p)
    \/ VoteReadGate(p) \/ VoteInsert(p) \/ VoteEvaluate(p)
    \/ RejectGate(p) \/ RejectRun(p) \/ ResumeGate(p) \/ RotateToken(p)
    \/ IssueReadStep(p) \/ IssueReadGate(p) \/ IssueCredential(p)

Request(p) ==
    \/ Trigger(p)
    \/ \E c \in callbacks : CallbackReadRun(p, c)
    \/ \E g \in Gates, u \in Users, d \in Decisions : VoteReadRun(p, g, u, d)
    \/ \E s \in Steps, j \in started : IssueReadRun(p, s, j[2])

Next ==
    \/ \E p \in Handlers : HandlerStep(p) \/ Request(p) \/ Crash(p)
    \/ \E j \in started, status \in CallbackStatuses : Report(j[1], j[2], status)

Spec == Init /\ [][Next]_vars

(***************************************************************************)
(* Fairness: a handler that is running goes on, an executor that took a    *)
(* step settles it, and a callback that stays acceptable is delivered      *)
(* again until it is taken.  Nothing is assumed of the people who vote or  *)
(* of credential requests, and invocations may be killed for ever.         *)
(***************************************************************************)
Settle(j) == \E status \in TerminalStepStatuses : Report(j[1], j[2], status)
DeliverOutcome(p) ==
    \E c \in callbacks : c.status \in TerminalStepStatuses /\ CallbackReadRun(p, c)

Fairness ==
    /\ \A p \in Handlers : WF_vars(HandlerStep(p))
    /\ WF_vars(\E j \in started : Settle(j))
    /\ SF_vars(\E p \in Handlers : DeliverOutcome(p))

FairSpec == Spec /\ Fairness

-----------------------------------------------------------------------------
(* Properties *)

\* The approvals of g by people prevent_self does not bar.
IndependentApprovers(g) ==
    Approvers(g) \ (IF g \in PreventSelf THEN {Triggerer} ELSE {})

\* Item i is behind the run: a gate with its quorum, a step that succeeded.
Passed(i) ==
    IF i \in Gates
    THEN Filled(GateReq[i], IndependentApprovers(i))
    ELSE \E c \in callbacks : c.step = i /\ c.status = "succeeded"

Reached(i) == \A j \in 0..(i - 1) : Passed(j)

(***************************************************************************)
(* An executor is handed a step (startExecutor) only when every earlier    *)
(* step has reported success and every earlier gate holds a quorum of      *)
(* distinct, independent approvers on record, and a run is `succeeded`     *)
(* only when that is so of all its items, however votes, callbacks and     *)
(* crashes of advance, applyCallback and resume interleave.                *)
(***************************************************************************)
ProgressEarned ==
    /\ \A j \in started : Reached(j[1])
    /\ run.state = "succeeded" => Reached(N)

(***************************************************************************)
(* CredentialBroker.issue hands out a credential only for a step the run   *)
(* has reached, with the quorum of the gate its item names on record,      *)
(* although the request names the step, the token is shared by all steps   *)
(* up to the next gate, and issue reads run, step and gate one after the   *)
(* other while they change.                                                *)
(***************************************************************************)
CredentialEarned ==
    \A s \in issued :
        /\ s \in DOMAIN CredentialGate
        /\ Passed(CredentialGate[s])
        /\ Reached(s)

(***************************************************************************)
(* rejectRun has a cause: a gate or a run is `rejected` only with a        *)
(* rejecting vote on record from someone checkVote admits.                 *)
(***************************************************************************)
RejectionBacked ==
    /\ \A g \in Gates : gate[g] = "rejected" => Rejecters(g) # {}
    /\ run.state = "rejected" =>
          \E g \in Gates, u \in Users :
              /\ votes[g][u] = "reject"
              /\ CheckVote(GateReq[g], g \in PreventSelf, {Triggerer}, u)

(***************************************************************************)
(* FINISHED_RUN_STATES: nothing moves a finished run any more.  So it is   *)
(* when invocations do not overlap; a reject that lands beside another     *)
(* voter's resume breaks it.                                               *)
(***************************************************************************)
FinishedIsFinal ==
    [][run.state \in FinishedRunStates => run'.state = run.state]_vars

(***************************************************************************)
(* FINISHED_RUN_STATES with overlapping invocations: nothing moves a       *)
(* finished run, unless one of them has settled a step or a gate that      *)
(* another had settled since it read it.                                   *)
(***************************************************************************)
FinishedUnlessOverwritten ==
    [][~overwrote /\ run.state \in FinishedRunStates => run'.state = run.state]_vars

(***************************************************************************)
(* applyCallback and redelivery: callbacks, votes and crashes interleaved  *)
(* anyhow, a step is dispatched at most once, unless an invocation has     *)
(* settled a step or a gate that another had settled since it read it.     *)
(* Two overlapping deliveries of one callback do that, and dispatch the    *)
(* next step twice: redelivery is idempotent only once the first delivery  *)
(* has written.                                                            *)
(***************************************************************************)
DispatchedOnce == overwrote \/ \A s \in Steps : dispatches[s] <= 1

NoneInFlight == \A s \in Steps : step[s] \notin InFlightStatuses

(***************************************************************************)
(* resumeFromGate: "no step is in flight at a gate, so rotating it is      *)
(* safe".  The callback token changes only while no step is in flight, so  *)
(* no executor is left holding a token that is refused.                    *)
(***************************************************************************)
RotationSafe == [][run'.tok # run.tok => NoneInFlight]_vars

(***************************************************************************)
(* resumeFromGate with overlapping invocations: the callback token changes *)
(* only while no step is in flight, unless an invocation has settled a     *)
(* gate or a step that another had settled since it read it, as the second *)
(* of two voters who complete a quorum together does.                      *)
(***************************************************************************)
RotationUnlessOverwritten ==
    [][~overwrote /\ run'.tok # run.tok => NoneInFlight]_vars

(***************************************************************************)
(* While a step is in flight the run is `running` with its cursor on that  *)
(* step, and the token its executor holds is the run's: the callback that  *)
(* ends the step, or a credential request, is accepted (applyCallback,     *)
(* issue).  So it is when invocations do not overlap; two voters who       *)
(* resume one gate, or two deliveries of one callback, break it.           *)
(***************************************************************************)
InFlightAnswerable ==
    \A s \in Steps : step[s] \in InFlightStatuses =>
        /\ run.state = "running"
        /\ run.cursor = s
        /\ \A j \in started : j[1] = s => j[2] = run.tok

\* The run waits on people: no quorum and no reject among the recorded votes.
AwaitingPeople ==
    /\ run.state = "awaiting_gate"
    /\ GateOutcome(run.cursor) = "pending"

(***************************************************************************)
(* Unless an invocation is killed, a triggered run always ends up finished *)
(* or at a gate whose recorded votes decide nothing yet: neither trigger,  *)
(* applyCallback nor resume leaves a run stranded.                         *)
(***************************************************************************)
Settles ==
    run.state # "none" ~> \/ run.state \in FinishedRunStates
                          \/ AwaitingPeople
                          \/ \E p \in Handlers : h[p].pc = "dead"

R == INSTANCE Rollout WITH
        approved  <- {x \in Gates \X Users : votes[x[1]][x[2]] = "resume"},
        started   <- {j[1] : j \in started},
        succeeded <- {s \in Steps : \E c \in callbacks :
                          c.step = s /\ c.status = "succeeded"},
        issued    <- issued

(***************************************************************************)
(* The handlers of one run together implement the promise of module        *)
(* Rollout: approvals are given only at a gate the run has reached, steps  *)
(* start in order, credentials follow their gate.                          *)
(***************************************************************************)
RolloutSpec == R!Spec

-----------------------------------------------------------------------------
(* The inductive invariant behind ProgressEarned, CredentialEarned and     *)
(* RolloutSpec: what a handler has already established when it is at a     *)
(* given statement.                                                        *)

VotePCs == {"voteGate", "voteInsert", "voteEval", "rejectGate", "resumeGate", "rotate"}
IssuePCs == {"issueStep", "issueGate", "issue"}

\* The item a handler is about is of the kind its code handles.
Typed(x) ==
    /\ x.pc \in {"dispatch", "start", "cbStep", "cbWrite"} \cup IssuePCs => x.at \in Steps
    /\ x.pc \in {"cbStep", "cbWrite"} => x.say \in CallbackStatuses
    /\ x.pc \in VotePCs => x.at \in Gates /\ x.say \in Decisions

\* A handler that will write past an item has the right to.
Earned(x) ==
    /\ x.pc \in {"advance", "dispatch", "start", "cbStep", "cbWrite"} \cup VotePCs
          => Reached(x.at)
    /\ x.pc \in {"cbStep", "cbWrite"} =>
          [step |-> x.at, tok |-> x.tok, status |-> x.say] \in callbacks
    /\ x.pc = "voteInsert" =>
          CheckVote(GateReq[x.at], x.at \in PreventSelf, {Triggerer}, x.user)
    /\ x.pc \in {"resumeGate", "rotate"} => Passed(x.at)
    /\ x.pc = "rejectGate" => Rejecters(x.at) # {}
    /\ x.pc = "rejectRun" => \E g \in Gates : Rejecters(g) # {}
    /\ x.pc \in {"issueGate", "issue"} => x.at \in DOMAIN CredentialGate /\ Reached(x.at)
    /\ x.pc = "issue" => Passed(CredentialGate[x.at])

VotesChecked ==
    \A g \in Gates, u \in Users : votes[g][u] # "none" =>
        CheckVote(GateReq[g], g \in PreventSelf, {Triggerer}, u)

GatesEarned ==
    \A g \in Gates : /\ gate[g] = "resumed" => Passed(g)
                     /\ gate[g] = "rejected" => Rejecters(g) # {}

RunEarned ==
    /\ Reached(run.cursor)
    /\ \A s \in Steps : step[s] \in InFlightStatuses => Reached(s)
    /\ run.state = "rejected" => \E g \in Gates : Rejecters(g) # {}

Inv ==
    /\ TypeOK
    /\ \A p \in Handlers : Typed(h[p])
    /\ VotesChecked
    /\ \A p \in Handlers : Earned(h[p])
    /\ GatesEarned
    /\ RunEarned
    /\ ProgressEarned
    /\ CredentialEarned
=============================================================================
