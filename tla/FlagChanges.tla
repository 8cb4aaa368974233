------------------------------ MODULE FlagChanges ------------------------------
(***************************************************************************)
(* Changes to one flag environment: flags/FlagService.ts (submitting),      *)
(* flags/FlagGovernanceService.ts (changesets and change gates behind       *)
(* approvals), flags/KillSwitchService.ts and the versioned publish of      *)
(* flags/RulesetPublisher.ts.                                               *)
(*                                                                         *)
(* One action is one statement; a publish is one transaction under the      *)
(* environment's advisory lock.  Approvals are the contract module Approval *)
(* proves: a pending request is resolved once, and the invocation that      *)
(* approved or rejected it is the one that runs its handler, unless it is   *)
(* killed first.  What the operations of a changeset do to the flags is not *)
(* told apart: a ruleset is its version.                                    *)
(***************************************************************************)
EXTENDS Naturals, FiniteSets

CONSTANTS
    Changesets,    \* the changeset rows that may ever be created
    KindOf,        \* ui, repo, kill, or create (a new flag, in every environment)
    GateRequests,  \* the approval requests for a change of the gate
    Gates,         \* change gates; "none" is an unprotected environment
    FirstGate,     \* the gates the environment may start with
    Workers,       \* slots for invocations
    Workloads      \* bounds: what is submitted, and how many invocations are killed

Governed == {c \in Changesets : KindOf[c] \in {"ui", "repo"}}
Bypassing == Changesets \ Governed
FromRepo == {c \in Changesets : KindOf[c] = "repo"}

ASSUME FlagAssumption ==
    /\ KindOf \in [Changesets -> {"ui", "repo", "kill", "create"}]
    /\ Changesets \cap GateRequests = {}
    /\ "none" \in Gates
    /\ FirstGate \subseteq Gates
    /\ Workloads \subseteq [coming : SUBSET (Changesets \cup GateRequests), faults : Nat]

ChangesetStates == {"pending", "applied", "rejected", "expired", "withdrawn", "conflicted", "superseded"}
RequestStates == {"none", "pending", "approved", "rejected", "expired", "superseded"}

VARIABLES
    version,   \* flag_environments: current_version
    gate,      \* and change_gate
    cs,        \* flag_changesets: state, base version, pinned gate, applied version
    request,   \* the approval request of each changeset
    gateReq,   \* the approval requests for gates: state, the gate asked for, the gate it is under
    due,       \* the changesets past their expires_at
    reviewed,  \* the kills with a review request
    lost,      \* the kills whose review no invocation will open any more
    raced,     \* did two changes of the gate overlap?
    coming,    \* what has not been submitted yet
    faults,    \* kills of invocations still to come
    task       \* what each worker is doing

env == <<version, gate>>
approvals == <<request, gateReq, reviewed>>
ghosts == <<lost, raced>>
vars == <<env, cs, approvals, due, ghosts, coming, faults, task>>

Absent == [state |-> "none", base |-> 0, gate |-> "none", at |-> 0]
Idle == [pc |-> "idle"]

\* Work on a changeset, with the gate and the version its invocation has read; next
\* holds the changeset to propose after this one is closed, if there is one.
Doing(pc, c, g, v) == [pc |-> pc, c |-> c, gate |-> g, version |-> v]
Closing(c, to, next, g, v) ==
    [pc |-> "close", c |-> c, to |-> to, next |-> next, gate |-> g, version |-> v]
\* Work on the gate: the request, the gate asked for and the gate read.
Gating(pc, q, to, under) == [pc |-> pc, q |-> q, to |-> to, under |-> under]

GatePCs == {"supersedeGate", "requestGate", "writeGate"}
PCs == {"publish", "findRepo", "insert", "request", "find", "conflict", "tell",
        "close", "supersede", "expireRequests", "expire", "bypass", "review"} \cup GatePCs

\* The rows have their types, and an applied version exactly where the schema's
\* check mocco_flag_changesets_applied_check asks for one.
TypeOK ==
    /\ version \in Nat
    /\ gate \in Gates
    /\ cs \in [Changesets -> [state : ChangesetStates \cup {"none"}, base : Nat, gate : Gates, at : Nat]]
    /\ request \in [Changesets -> RequestStates]
    /\ gateReq \in [GateRequests -> [state : RequestStates, to : Gates, under : Gates]]
    /\ {due, reviewed, lost} \subseteq SUBSET Changesets
    /\ raced \in BOOLEAN
    /\ coming \subseteq Changesets \cup GateRequests
    /\ faults \in Nat
    /\ \A w \in Workers : task[w].pc \in PCs \cup {"idle"}
    /\ \A c \in Changesets : (cs[c].state = "applied") <=> (cs[c].at > 0)

Init ==
    /\ version = 0
    /\ gate \in FirstGate
    /\ cs = [c \in Changesets |-> Absent]
    /\ request = [c \in Changesets |-> "none"]
    /\ gateReq = [q \in GateRequests |-> [state |-> "none", to |-> "none", under |-> "none"]]
    /\ due = {} /\ reviewed = {} /\ lost = {}
    /\ raced = FALSE
    /\ \E l \in Workloads : coming = l.coming /\ faults = l.faults
    /\ task = [w \in Workers |-> Idle]

Become(w, t) == task' = [task EXCEPT ![w] = t]
Goto(w, pc) == Become(w, [task[w] EXCEPT !.pc = pc])
At(w, pc) == task[w].pc = pc
Comes(x) == x \in coming /\ coming' = coming \ {x}

Pending(c) == cs[c].state = "pending"

\* Mutant: the last resolver wins.
ResolveAnyway(c, state) ==
    cs' = IF cs[c].state # "none" THEN [cs EXCEPT ![c].state = state, ![c].at = 0] ELSE cs

\* resolvePending: the first resolver wins.
Resolve(c, state) == cs' = IF Pending(c) THEN [cs EXCEPT ![c].state = state] ELSE cs

-----------------------------------------------------------------------------
(* FlagService: submitting a change                                        *)

\* Mutant: what comes from the repository has been reviewed there.
SubmitReviewed(w, c) ==
    /\ At(w, "idle")
    /\ c \in Governed
    /\ Comes(c)
    /\ Become(w, Doing(IF c \in FromRepo THEN "bypass" ELSE IF gate = "none" THEN "publish" ELSE "insert",
                       c, gate, version))
    /\ UNCHANGED <<env, cs, approvals, due, ghosts, faults>>

\* applyChangeset, whose caller has seen the version read (or is refused), and
\* applyRepoChangeset, which has no base version where no approval is needed.
Submit(w, c) ==
    /\ At(w, "idle")
    /\ c \in Governed
    /\ Comes(c)
    /\ Become(w, Doing(IF gate = "none" THEN IF c \in FromRepo THEN "bypass" ELSE "publish"
                                        ELSE IF c \in FromRepo THEN "findRepo" ELSE "insert",
                       c, gate, version))
    /\ UNCHANGED <<env, cs, approvals, due, ghosts, faults>>

\* supersedeRepoPending: what the repo's last push left pending is closed first.
FindRepoPending(w) ==
    LET t == task[w] IN
    /\ At(w, "findRepo")
    /\ \/ /\ \A c \in FromRepo : ~Pending(c)
          /\ Goto(w, "insert")
       \/ \E c \in FromRepo : Pending(c) /\ Become(w, Closing(c, "superseded", {t.c}, t.gate, t.version))
    /\ UNCHANGED <<env, cs, approvals, due, ghosts, coming, faults>>

\* propose: the row, with the gate pinned.  A repo has at most one pending row in
\* an environment: a second insert throws.
InsertPending(w) ==
    LET t == task[w] IN
    /\ At(w, "insert")
    /\ IF t.c \in FromRepo /\ \E c \in FromRepo : Pending(c)
       THEN Become(w, Idle) /\ UNCHANGED cs
       ELSE /\ cs' = [cs EXCEPT ![t.c] = [state |-> "pending", base |-> t.version, gate |-> t.gate, at |-> 0]]
            /\ Goto(w, "request")
    /\ UNCHANGED <<env, approvals, due, ghosts, coming, faults>>

\* propose: the approval request; its id is put on the row next, which a vote cast
\* in the approval inbox does not wait for.
OpenRequest(w) ==
    /\ At(w, "request")
    /\ request' = [request EXCEPT ![task[w].c] = "pending"]
    /\ Become(w, Idle)
    /\ UNCHANGED <<env, cs, gateReq, reviewed, due, ghosts, coming, faults>>

-----------------------------------------------------------------------------
(* RulesetPublisher.apply, one transaction under the publish lock          *)

\* The row, the snapshot and the version of the environment.
Publishes(c, row) ==
    /\ cs' = [cs EXCEPT ![c] = [row EXCEPT !.state = "applied", !.at = version + 1]]
    /\ version' = version + 1

\* Mutant: that the row was resolved meanwhile is not noticed.
PublishLost(w) ==
    LET t == task[w]
        row == IF cs[t.c].state = "none" THEN [Absent EXCEPT !.base = t.version] ELSE cs[t.c] IN
    /\ At(w, "publish")
    /\ IF row.base # version THEN Goto(w, "conflict") /\ UNCHANGED <<version, cs>>
       ELSE /\ version' = version + 1
            /\ cs' = IF row.state \in {"none", "pending"}
                     THEN [cs EXCEPT ![t.c] = [row EXCEPT !.state = "applied", !.at = version + 1]] ELSE cs
            /\ Become(w, Idle)
    /\ UNCHANGED <<gate, approvals, due, ghosts, coming, faults>>

\* A direct change is inserted as applied, an approved one moves from pending.  The
\* environment must be at the base version (else it is a conflict) and the row
\* still pending (else everything is rolled back and the handler throws).
Publish(w) ==
    LET t == task[w]
        row == IF cs[t.c].state = "none" THEN [Absent EXCEPT !.base = t.version] ELSE cs[t.c] IN
    /\ At(w, "publish")
    /\ CASE row.base # version -> Goto(w, "conflict") /\ UNCHANGED <<version, cs>>
         [] row.base = version /\ row.state \in {"none", "pending"} -> Publishes(t.c, row) /\ Become(w, Idle)
         [] OTHER -> Become(w, Idle) /\ UNCHANGED <<version, cs>>
    /\ UNCHANGED <<gate, approvals, due, ghosts, coming, faults>>

\* A direct change that conflicts leaves no row.  (The catch block of applyApproved.)
MarkConflicted(w) ==
    /\ At(w, "conflict")
    /\ Resolve(task[w].c, "conflicted")
    /\ Become(w, Idle)
    /\ UNCHANGED <<env, approvals, due, ghosts, coming, faults>>

\* KillSwitchService.kill, and the creation of a flag: no base version, no approval.
Bypass(w, c) ==
    /\ At(w, "idle")
    /\ c \in Bypassing
    /\ Comes(c)
    /\ Become(w, Doing("bypass", c, gate, version))
    /\ UNCHANGED <<env, cs, approvals, due, ghosts, faults>>

PublishBypass(w) ==
    LET c == task[w].c IN
    /\ At(w, "bypass")
    /\ Publishes(c, [Absent EXCEPT !.base = version, !.gate = task[w].gate])
    /\ IF KindOf[c] = "kill" /\ task[w].gate # "none" THEN Goto(w, "review") ELSE Become(w, Idle)
    /\ UNCHANGED <<gate, approvals, due, ghosts, coming, faults>>

\* A kill in a protected environment is reviewed afterwards.
OpenReview(w) ==
    /\ At(w, "review")
    /\ reviewed' = reviewed \cup {task[w].c}
    /\ Become(w, Idle)
    /\ UNCHANGED <<env, cs, request, gateReq, due, ghosts, coming, faults>>

-----------------------------------------------------------------------------
(* Votes on a changeset, and what follows from them                        *)

\* The vote that completes the quorum (module Approval).  It compares the clock with
\* expires_at before it is counted, so it may still resolve a request that is due.
Approve(w, c) ==
    /\ At(w, "idle")
    /\ request[c] = "pending"
    /\ request' = [request EXCEPT ![c] = "approved"]
    /\ Become(w, Doing("find", c, "none", 0))
    /\ UNCHANGED <<env, cs, gateReq, reviewed, due, ghosts, coming, faults>>

\* applyApproved goes on only with a changeset that is still pending.
FindApproved(w) ==
    /\ At(w, "find")
    /\ IF Pending(task[w].c) THEN Goto(w, "publish") ELSE Become(w, Idle)
    /\ UNCHANGED <<env, cs, approvals, due, ghosts, coming, faults>>

Reject(w, c) ==
    /\ At(w, "idle")
    /\ request[c] = "pending"
    /\ request' = [request EXCEPT ![c] = "rejected"]
    /\ Become(w, Doing("tell", c, "none", 0))
    /\ UNCHANGED <<env, cs, gateReq, reviewed, due, ghosts, coming, faults>>

MarkRejected(w) ==
    /\ At(w, "tell")
    /\ Resolve(task[w].c, "rejected")
    /\ Become(w, Idle)
    /\ UNCHANGED <<env, approvals, due, ghosts, coming, faults>>

-----------------------------------------------------------------------------
(* Withdrawing and rebasing                                                *)

Withdraw(w, c) ==
    /\ At(w, "idle")
    /\ c \in Governed
    /\ Pending(c)
    /\ Become(w, Closing(c, "withdrawn", {}, "none", 0))
    /\ UNCHANGED <<env, cs, approvals, due, ghosts, coming, faults>>

\* close: it throws when another resolver was first.
Close(w) ==
    LET t == task[w] IN
    /\ At(w, "close")
    /\ Resolve(t.c, t.to)
    /\ IF Pending(t.c) THEN Goto(w, "supersede") ELSE Become(w, Idle)
    /\ UNCHANGED <<env, approvals, due, ghosts, coming, faults>>

\* Then the request of the closed changeset; then the changeset that replaces it.
SupersedeRequest(w) ==
    LET t == task[w] IN
    /\ At(w, "supersede")
    /\ request' = [request EXCEPT ![t.c] = IF @ = "pending" THEN "superseded" ELSE @]
    /\ \/ t.next = {} /\ Become(w, Idle)
       \/ \E n \in t.next : Become(w, Doing("insert", n, t.gate, t.version))
    /\ UNCHANGED <<env, cs, gateReq, reviewed, due, ghosts, coming, faults>>

\* The same operations proposed again, on the version and under the gate of now.
Rebase(w, c, again) ==
    /\ At(w, "idle")
    /\ gate # "none"
    /\ {c, again} \subseteq Governed /\ KindOf[c] = KindOf[again]
    /\ Comes(again)
    /\ \/ Pending(c) /\ Become(w, Closing(c, "superseded", {again}, gate, version))
       \/ cs[c].state = "conflicted" /\ Become(w, Doing("insert", again, gate, version))
    /\ UNCHANGED <<env, cs, approvals, due, ghosts, faults>>

-----------------------------------------------------------------------------
(* Expiry                                                                  *)

Elapse(c) ==
    /\ Pending(c)
    /\ c \notin due
    /\ due' = due \cup {c}
    /\ UNCHANGED <<env, cs, approvals, ghosts, coming, faults, task>>

\* Mutant: the job goes by the approval requests.
ExpireAnswerable(w, c) ==
    /\ At(w, "idle")
    /\ Pending(c) /\ c \in due /\ request[c] = "pending"
    /\ Become(w, Doing("expireRequests", c, "none", 0))
    /\ UNCHANGED <<env, cs, approvals, due, ghosts, coming, faults>>

\* expireDue works on the listed changesets side by side: one task each.
ExpireDue(w, c) ==
    /\ At(w, "idle")
    /\ Pending(c) /\ c \in due
    /\ Become(w, Doing("expireRequests", c, "none", 0))
    /\ UNCHANGED <<env, cs, approvals, due, ghosts, coming, faults>>

\* ApprovalService.expireDue of the whole workspace.
ExpireRequests(w) ==
    /\ At(w, "expireRequests")
    /\ request' = [c \in Changesets |-> IF c \in due /\ request[c] = "pending" THEN "expired" ELSE request[c]]
    /\ Goto(w, "expire")
    /\ UNCHANGED <<env, cs, gateReq, reviewed, due, ghosts, coming, faults>>

ExpireChangeset(w) ==
    /\ At(w, "expire")
    /\ Resolve(task[w].c, "expired")
    /\ Become(w, Idle)
    /\ UNCHANGED <<env, approvals, due, ghosts, coming, faults>>

-----------------------------------------------------------------------------
(* The change gate                                                         *)

\* Whether this change of the gate overlaps another one.
NoteOverlap(w) == raced' = (raced \/ \E x \in Workers \ {w} : task[x].pc \in GatePCs)

\* An unprotected environment is protected at once.
SetChangeGate(w, q, to) ==
    /\ At(w, "idle")
    /\ Comes(q)
    /\ Become(w, Gating(IF gate = "none" THEN "writeGate" ELSE "supersedeGate", q, to, gate))
    /\ NoteOverlap(w)
    /\ UNCHANGED <<env, cs, approvals, due, lost, faults>>

\* Mutant: the older requests stay open.
SupersedeNoGate(w) ==
    /\ At(w, "supersedeGate")
    /\ Goto(w, "requestGate")
    /\ UNCHANGED <<env, cs, approvals, due, ghosts, coming, faults>>

SupersedeGate(w) ==
    /\ At(w, "supersedeGate")
    /\ gateReq' = [q \in GateRequests |->
                     IF gateReq[q].state = "pending" THEN [gateReq[q] EXCEPT !.state = "superseded"] ELSE gateReq[q]]
    /\ Goto(w, "requestGate")
    /\ UNCHANGED <<env, cs, request, reviewed, due, ghosts, coming, faults>>

RequestGate(w) ==
    LET t == task[w] IN
    /\ At(w, "requestGate")
    /\ gateReq' = [gateReq EXCEPT ![t.q] = [state |-> "pending", to |-> t.to, under |-> t.under]]
    /\ Become(w, Idle)
    /\ UNCHANGED <<env, cs, request, reviewed, due, ghosts, coming, faults>>

\* The votes, under the requirements pinned in the request; then its handler.
ApproveGate(w, q) ==
    /\ At(w, "idle")
    /\ gateReq[q].state = "pending"
    /\ gateReq' = [gateReq EXCEPT ![q].state = "approved"]
    /\ Become(w, Gating("writeGate", q, gateReq[q].to, gateReq[q].under))
    /\ NoteOverlap(w)
    /\ UNCHANGED <<env, cs, request, reviewed, due, lost, coming, faults>>

\* Nothing listens for the rejection of a gate.
RejectGate(q) ==
    /\ gateReq[q].state = "pending"
    /\ gateReq' = [gateReq EXCEPT ![q].state = "rejected"]
    /\ UNCHANGED <<env, cs, request, reviewed, due, ghosts, coming, faults, task>>

\* writeGate does not look at the gate it replaces.
WriteGate(w) ==
    /\ At(w, "writeGate")
    /\ gate' = task[w].to
    /\ Become(w, Idle)
    /\ UNCHANGED <<version, cs, approvals, due, ghosts, coming, faults>>

-----------------------------------------------------------------------------

\* The invocation throws or is killed between two statements.
Fail(w) ==
    /\ ~At(w, "idle")
    /\ faults > 0
    /\ faults' = faults - 1
    /\ lost' = IF At(w, "review") THEN lost \cup {task[w].c} ELSE lost
    /\ Become(w, Idle)
    /\ UNCHANGED <<env, cs, approvals, due, raced, coming>>

WorkerStep(w) ==
    \/ FindRepoPending(w) \/ InsertPending(w) \/ OpenRequest(w)
    \/ Publish(w) \/ MarkConflicted(w) \/ PublishBypass(w) \/ OpenReview(w)
    \/ FindApproved(w) \/ MarkRejected(w)
    \/ Close(w) \/ SupersedeRequest(w)
    \/ ExpireRequests(w) \/ ExpireChangeset(w)
    \/ SupersedeGate(w) \/ RequestGate(w) \/ WriteGate(w)

Next ==
    \/ \E w \in Workers : WorkerStep(w) \/ Fail(w)
    \/ \E w \in Workers, c \in Changesets :
          Submit(w, c) \/ Bypass(w, c) \/ Approve(w, c) \/ Reject(w, c) \/ Withdraw(w, c) \/ ExpireDue(w, c)
    \/ \E w \in Workers, c \in Changesets, again \in Changesets : Rebase(w, c, again)
    \/ \E w \in Workers, q \in GateRequests : ApproveGate(w, q)
    \/ \E w \in Workers, q \in GateRequests, to \in Gates : SetChangeGate(w, q, to)
    \/ \E q \in GateRequests : RejectGate(q)
    \/ \E c \in Changesets : Elapse(c)

Spec == Init /\ [][Next]_vars

\* Invocations run on, time passes, and the expiry job runs every few minutes.
FairSpec ==
    /\ Spec
    /\ \A w \in Workers : WF_vars(WorkerStep(w))
    /\ \A c \in Changesets : WF_vars(Elapse(c)) /\ WF_vars(\E w \in Workers : ExpireDue(w, c))

-----------------------------------------------------------------------------
(* Properties                                                              *)

Applied == {c \in Changesets : cs[c].state = "applied"}

\* Every published version has exactly one applied changeset behind it, made on the
\* version just below: no withdrawal, expiry or kill that races a publish leaves a
\* version nobody proposed, and no approved change goes on top of one its approvers
\* did not see (RulesetPublisher.apply).
EveryVersionExplained ==
    /\ Cardinality(Applied) = version
    /\ {cs[c].at : c \in Applied} = 1..version
    /\ \A c \in Applied : cs[c].base + 1 = cs[c].at

\* What was proposed under a gate is applied only by an approved request, and a kill in
\* a protected environment is under review, about to be, or lost with the
\* invocation that made it (KillSwitchService.kill opens the review after the publish).
AppliedGoverned ==
    \A c \in Applied : cs[c].gate # "none" =>
        IF c \in Governed THEN request[c] = "approved"
        ELSE KindOf[c] = "kill" =>
             c \in reviewed \cup lost \/ \E w \in Workers : At(w, "review") /\ task[w].c = c

\* A changeset is decided once: whichever of approval, rejection, expiry, withdrawal,
\* rebase and a newer push comes first (FlagChangesetRepo.resolvePending).
FateFinal ==
    [][\A c \in Changesets : cs[c].state \notin {"none", "pending"} => cs'[c] = cs[c]]_vars

\* As long as changes of the gate do not overlap, the gate of a protected environment
\* changes only by a request that was approved under that very gate.
GateGoverned ==
    [][gate' # gate /\ gate # "none" /\ ~raced =>
         \E w \in Workers : task[w].pc = "writeGate" /\ task[w].under = gate
                           /\ gateReq[task[w].q].state = "approved"]_vars

\* No changeset stays pending: the expiry job ends what a killed proposal, a killed
\* handler or a silent team leaves behind (FlagGovernanceService.expireDue).
ChangesetsEnd == \A c \in Changesets : Pending(c) ~> ~Pending(c)

\* The changesets whose approval an invocation is about to act on.
Granted == {c \in Changesets : \E w \in Workers : At(w, "find") /\ task[w].c = c}

D == INSTANCE DecidedOnce WITH
        Asked <- Changesets, Acting <- Changesets, decision <- request, granted <- Granted

\* And the requests for a gate, where a gate that is set at once has no request behind it.
GateDecisions == [q \in GateRequests |-> gateReq[q].state]
GateGranted ==
    {q \in GateRequests : gateReq[q].state = "approved" /\ \E w \in Workers : At(w, "writeGate") /\ task[w].q = q}

G == INSTANCE DecidedOnce WITH
        Asked <- GateRequests, Acting <- GateRequests, decision <- GateDecisions, granted <- GateGranted

(***************************************************************************)
(* The requests of changesets and those for a gate keep the promise that   *)
(* module Approval makes (DecidedOnce): submitting, withdrawing, rebasing, *)
(* expiring and changing the gate never open a request twice or decide     *)
(* one again (FlagGovernanceService).                                      *)
(***************************************************************************)
RequestsDecidedOnce == D!Spec /\ G!Spec
=============================================================================
