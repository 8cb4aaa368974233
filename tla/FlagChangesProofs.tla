--------------------------- MODULE FlagChangesProofs ---------------------------
(***************************************************************************)
(* Proofs about FlagChanges, for any changesets, gates, workers, kills and  *)
(* order of statements.                                                     *)
(***************************************************************************)
EXTENDS FlagChanges, FiniteSetTheorems, TLAPS

-----------------------------------------------------------------------------
(* Types                                                                   *)

RowType == [state : ChangesetStates \cup {"none"}, base : Nat, gate : Gates, at : Nat]
GateRow == [state : RequestStates, to : Gates, under : Gates]

DoPCs == {"publish", "findRepo", "insert", "request", "find", "conflict", "tell",
          "expireRequests", "expire", "bypass", "review"}
ClosePCs == {"close", "supersede"}

\* The tasks, by the statements they are at.
DoTask == [pc : DoPCs, c : Changesets, gate : Gates, version : Nat]
CloseTask == [pc : ClosePCs, c : Changesets, to : {"withdrawn", "superseded"},
              next : SUBSET Changesets, gate : Gates, version : Nat]
GateTask == [pc : GatePCs, q : GateRequests, to : Gates, under : Gates]
Tasks == DoTask \cup CloseTask \cup GateTask \cup {Idle}

AppliedAt == \A c \in Changesets : (cs[c].state = "applied") <=> (cs[c].at > 0)

Types ==
    /\ version \in Nat
    /\ gate \in Gates
    /\ cs \in [Changesets -> RowType]
    /\ AppliedAt
    /\ request \in [Changesets -> RequestStates]
    /\ gateReq \in [GateRequests -> GateRow]
    /\ due \subseteq Changesets
    /\ reviewed \subseteq Changesets
    /\ lost \subseteq Changesets
    /\ raced \in BOOLEAN
    /\ coming \subseteq Changesets \cup GateRequests
    /\ faults \in Nat
    /\ task \in [Workers -> Tasks]

\* Which task a worker has, by the statement it is at.
LEMMA TaskKinds ==
    ASSUME NEW t \in Tasks
    PROVE  /\ t.pc \in DoPCs => t \in DoTask
           /\ t.pc \in ClosePCs => t \in CloseTask
           /\ t.pc \in GatePCs => t \in GateTask
           /\ t.pc = "idle" => t = Idle
           /\ t.pc \in PCs \cup {"idle"}
  BY DEF Tasks, DoTask, CloseTask, GateTask, Idle, DoPCs, ClosePCs, GatePCs, PCs

\* One worker changes its task.
LEMMA BecomeTask ==
    ASSUME Types, NEW w \in Workers, NEW t \in Tasks, Become(w, t)
    PROVE  /\ task' \in [Workers -> Tasks] /\ task'[w] = t
           /\ \A v \in Workers \ {w} : task'[v] = task[v]
  BY DEF Types, Become

\* The worker is done.
LEMMA Rests ==
    ASSUME Types, NEW w \in Workers, Become(w, Idle)
    PROVE  /\ task' \in [Workers -> Tasks] /\ task'[w] = Idle /\ task'[w].pc = "idle"
           /\ \A v \in Workers \ {w} : task'[v] = task[v]
  BY BecomeTask DEF Tasks, Idle

\* It starts work on a changeset.
LEMMA Does ==
    ASSUME Types, NEW w \in Workers, NEW pc \in DoPCs, NEW c \in Changesets, NEW g \in Gates,
           NEW v \in Nat, Become(w, Doing(pc, c, g, v))
    PROVE  /\ task' \in [Workers -> Tasks]
           /\ task'[w].pc = pc /\ task'[w].c = c /\ task'[w].gate = g
           /\ \A u \in Workers \ {w} : task'[u] = task[u]
<1>1. Doing(pc, c, g, v) \in Tasks
  BY DEF Doing, Tasks, DoTask
<1> QED
  BY <1>1, BecomeTask DEF Doing

\* It starts to close one.
LEMMA Closes ==
    ASSUME Types, NEW w \in Workers, NEW c \in Changesets, NEW to \in {"withdrawn", "superseded"},
           NEW next \in SUBSET Changesets, NEW g \in Gates, NEW v \in Nat,
           Become(w, Closing(c, to, next, g, v))
    PROVE  /\ task' \in [Workers -> Tasks]
           /\ task'[w].pc = "close" /\ task'[w].next = next
           /\ \A u \in Workers \ {w} : task'[u] = task[u]
<1>1. Closing(c, to, next, g, v) \in Tasks
  BY DEF Closing, Tasks, CloseTask, ClosePCs
<1> QED
  BY <1>1, BecomeTask DEF Closing

\* It starts work on the gate.
LEMMA GatesAt ==
    ASSUME Types, NEW w \in Workers, NEW pc \in GatePCs, NEW q \in GateRequests, NEW to \in Gates,
           NEW under \in Gates, Become(w, Gating(pc, q, to, under))
    PROVE  /\ task' \in [Workers -> Tasks]
           /\ task'[w].pc = pc /\ task'[w].q = q /\ task'[w].under = under
           /\ \A u \in Workers \ {w} : task'[u] = task[u]
<1>1. Gating(pc, q, to, under) \in Tasks
  BY DEF Gating, Tasks, GateTask
<1> QED
  BY <1>1, BecomeTask DEF Gating

\* It goes on with a changeset.
LEMMA GoesOn ==
    ASSUME Types, NEW w \in Workers, task[w].pc \in DoPCs, NEW pc \in DoPCs, Goto(w, pc)
    PROVE  /\ task' \in [Workers -> Tasks] /\ task[w].c \in Changesets
           /\ task'[w].pc = pc /\ task'[w].c = task[w].c /\ task'[w].gate = task[w].gate
           /\ \A u \in Workers \ {w} : task'[u] = task[u]
<1>1. task[w] \in DoTask
  BY TaskKinds DEF Types
<1> DEFINE t == [task[w] EXCEPT !.pc = pc]
<1>2. /\ t \in DoTask /\ t.pc = pc /\ t.c = task[w].c /\ t.gate = task[w].gate
      /\ task[w].c \in Changesets
  BY <1>1 DEF DoTask
<1>3. Become(w, t)
  BY DEF Goto
<1> HIDE DEF t
<1> QED
  BY <1>2, <1>3, BecomeTask DEF Tasks

\* It goes on with a close.
LEMMA ClosesOn ==
    ASSUME Types, NEW w \in Workers, task[w].pc = "close", Goto(w, "supersede")
    PROVE  /\ task' \in [Workers -> Tasks]
           /\ task'[w].pc = "supersede" /\ task'[w].next = task[w].next
           /\ \A u \in Workers \ {w} : task'[u] = task[u]
<1>1. task[w] \in CloseTask
  BY TaskKinds DEF Types, ClosePCs
<1> DEFINE t == [task[w] EXCEPT !.pc = "supersede"]
<1>2. /\ t \in CloseTask /\ t.pc = "supersede" /\ t.next = task[w].next
  BY <1>1 DEF CloseTask, ClosePCs
<1>3. Become(w, t)
  BY DEF Goto
<1> HIDE DEF t
<1> QED
  BY <1>2, <1>3, BecomeTask DEF Tasks

\* It goes on with the gate.
LEMMA GatesOn ==
    ASSUME Types, NEW w \in Workers, task[w].pc = "supersedeGate", Goto(w, "requestGate")
    PROVE  /\ task' \in [Workers -> Tasks]
           /\ task'[w].pc = "requestGate" /\ task'[w].q = task[w].q /\ task'[w].under = task[w].under
           /\ \A u \in Workers \ {w} : task'[u] = task[u]
<1>1. task[w] \in GateTask
  BY TaskKinds DEF Types, GatePCs
<1> DEFINE t == [task[w] EXCEPT !.pc = "requestGate"]
<1>2. /\ t \in GateTask /\ t.pc = "requestGate" /\ t.q = task[w].q /\ t.under = task[w].under
  BY <1>1 DEF GateTask, GatePCs
<1>3. Become(w, t)
  BY DEF Goto
<1> HIDE DEF t
<1> QED
  BY <1>2, <1>3, BecomeTask DEF Tasks

\* The fields of a task.
LEMMA TaskFields ==
    ASSUME Types, NEW w \in Workers
    PROVE  /\ task[w].pc \in DoPCs =>
                 task[w].c \in Changesets /\ task[w].gate \in Gates /\ task[w].version \in Nat
           /\ task[w].pc \in ClosePCs =>
                 /\ task[w].c \in Changesets /\ task[w].gate \in Gates /\ task[w].version \in Nat
                 /\ task[w].to \in {"withdrawn", "superseded"} /\ task[w].next \subseteq Changesets
           /\ task[w].pc \in GatePCs =>
                 task[w].q \in GateRequests /\ task[w].to \in Gates /\ task[w].under \in Gates
<1>1. task[w] \in Tasks
  BY DEF Types
<1> QED
  BY <1>1, TaskKinds DEF DoTask, CloseTask, GateTask

-----------------------------------------------------------------------------
(* The rows of the changesets                                              *)

\* resolvePending moves a pending row only, and to a state without a version.
LEMMA Resolves ==
    ASSUME Types, NEW c \in Changesets, NEW s \in ChangesetStates \ {"pending", "applied"},
           Resolve(c, s)
    PROVE  /\ cs' \in [Changesets -> RowType] /\ AppliedAt'
           /\ \A e \in Changesets :
                 \/ cs'[e] = cs[e]
                 \/ cs[e].state = "pending" /\ cs'[e].state = s
<1>1. CASE Pending(c)
  <2> DEFINE r == [cs[c] EXCEPT !.state = s]
  <2>1. cs[c] \in RowType /\ ~(cs[c].at > 0)
    BY <1>1 DEF Types, AppliedAt, Pending
  <2>2. r \in RowType /\ r.state = s /\ r.at = cs[c].at
    BY <2>1 DEF RowType
  <2>3. cs' = [cs EXCEPT ![c] = r]
    BY <1>1 DEF Resolve
  <2> HIDE DEF r
  <2>4. cs' \in [Changesets -> RowType] /\ cs'[c] = r /\ \A e \in Changesets \ {c} : cs'[e] = cs[e]
    BY <2>2, <2>3 DEF Types
  <2>5. AppliedAt'
    BY <2>1, <2>2, <2>4 DEF Types, AppliedAt
  <2> QED
    BY <1>1, <2>2, <2>4, <2>5 DEF Pending
<1>2. CASE ~Pending(c)
  <2>1. cs' = cs
    BY <1>2 DEF Resolve
  <2> QED
    BY <2>1 DEF Types, AppliedAt
<1> QED
  BY <1>1, <1>2

\* A publish writes one row and the version.
LEMMA PublishesRow ==
    ASSUME Types, NEW c \in Changesets, NEW r \in RowType, Publishes(c, r)
    PROVE  /\ cs' \in [Changesets -> RowType] /\ AppliedAt' /\ version' = version + 1 /\ version' \in Nat
           /\ cs'[c].state = "applied" /\ cs'[c].at = version + 1
           /\ cs'[c].base = r.base /\ cs'[c].gate = r.gate
           /\ \A e \in Changesets \ {c} : cs'[e] = cs[e]
<1> DEFINE r1 == [r EXCEPT !.state = "applied"]
           r2 == [r1 EXCEPT !.at = version + 1]
<1>1. version \in Nat /\ version' = version + 1 /\ cs' = [cs EXCEPT ![c] = r2]
  BY DEF Types, Publishes
<1>2. r1 \in RowType /\ r1.state = "applied" /\ r1.base = r.base /\ r1.gate = r.gate
  BY DEF RowType, ChangesetStates
<1> HIDE DEF r1
<1>3. r2 \in RowType /\ r2.state = "applied" /\ r2.base = r.base /\ r2.gate = r.gate /\ r2.at = version + 1
  BY <1>1, <1>2 DEF RowType
<1> HIDE DEF r2
<1>4. cs' \in [Changesets -> RowType] /\ cs'[c] = r2 /\ \A e \in Changesets \ {c} : cs'[e] = cs[e]
  BY <1>1, <1>3 DEF Types
<1>5. AppliedAt'
  BY <1>1, <1>3, <1>4 DEF Types, AppliedAt
<1> QED
  BY <1>1, <1>3, <1>4, <1>5

-----------------------------------------------------------------------------
(* Who creates a changeset, and by what it may be applied                  *)

\* The changesets a task may still create (an approved publish finds its row there).
Makes(t) ==
    IF t.pc \in {"publish", "findRepo", "insert", "bypass"} THEN {t.c}
    ELSE IF t.pc \in ClosePCs THEN t.next ELSE {}

\* What a task knows of its changeset.
StepOK(t) ==
    /\ t.pc \in {"findRepo", "insert", "bypass"} => cs[t.c].state = "none"
    /\ t.pc \in ClosePCs => \A c \in t.next : cs[c].state = "none" /\ c \in Governed
    /\ t.pc = "publish" => cs[t.c].state = "none" \/ request[t.c] = "approved"
    /\ t.pc \in {"publish", "findRepo", "insert", "request"} => t.c \in Governed
    /\ t.pc = "bypass" /\ t.c \in Governed => t.gate = "none"
    /\ t.pc = "request" => request[t.c] = "none" /\ cs[t.c].state # "none"
    /\ t.pc = "find" => request[t.c] = "approved"

\* A row is created once, by one task, and its request after it.
Unseen ==
    \A c \in coming \cap Changesets :
        cs[c].state = "none" /\ request[c] = "none" /\ \A w \in Workers : c \notin Makes(task[w])
Apart ==
    \A w, v \in Workers : w # v =>
        /\ \A c \in Makes(task[w]) \cap Makes(task[v]) : cs[c].state # "none"
        /\ At(w, "request") /\ At(v, "request") => task[w].c # task[v].c
RowsFirst ==
    \A c \in Changesets :
        /\ request[c] # "none" => cs[c].state # "none"
        /\ cs[c].state = "pending" => c \in Governed
ChangeInv == Unseen /\ Apart /\ RowsFirst /\ \A w \in Workers : StepOK(task[w])

\* What a step does to the rows: it creates or decides what is undecided, or it applies
\* one changeset, on top of the version it was made for.
KeepsRows ==
    /\ version' = version
    /\ \A c \in Changesets :
          \/ cs'[c] = cs[c]
          \/ cs[c].state \in {"none", "pending"} /\ cs'[c].state \notin {"none", "applied"}

UnderReview == reviewed \cup lost \cup {c \in Changesets : \E w \in Workers : At(w, "review") /\ task[w].c = c}

Allowed(c) ==
    cs[c].gate # "none" =>
        IF c \in Governed THEN request[c] = "approved" ELSE KindOf[c] = "kill" => c \in UnderReview

AddsVersion(c) ==
    /\ version' = version + 1
    /\ cs[c].state \in {"none", "pending"}
    /\ cs'[c].state = "applied" /\ cs'[c].base = version /\ cs'[c].at = version + 1
    /\ \A e \in Changesets \ {c} : cs'[e] = cs[e]
    /\ Allowed(c)'

Governs ==
    /\ \A c \in Changesets : request[c] = "approved" => request'[c] = "approved"
    /\ UnderReview \subseteq UnderReview'

\* A step that leaves the gate and the work on it alone.
GateIdle ==
    /\ UNCHANGED <<gate, gateReq, raced>>
    /\ \A w \in Workers : task'[w].pc \in GatePCs => task'[w] = task[w]

Effect == Types' /\ ChangeInv' /\ (KeepsRows \/ \E c \in Changesets : AddsVersion(c)) /\ Governs

\* A step of one worker that creates only what is its own to create.
LEMMA Effects ==
    ASSUME Types, Types', ChangeInv, KeepsRows \/ \E c \in Changesets : AddsVersion(c),
           NEW w \in Workers, \A v \in Workers \ {w} : task'[v] = task[v],
           coming' \subseteq coming,
           \A c \in Changesets : cs[c].state = "none" => cs'[c].state = "none" \/ c \in Makes(task[w]),
           \A c \in Changesets : cs'[c].state = "pending" => cs[c].state = "pending" \/ c \in Governed,
           \A c \in Changesets : request[c] = "approved" => request'[c] = "approved",
           \A c \in Changesets :
               request[c] = "none" /\ request'[c] # "none" => At(w, "request") /\ task[w].c = c,
           StepOK(task[w])',
           \A c \in Makes(task'[w]) :
               c \in Makes(task[w]) \/ (c \in coming /\ c \notin coming') \/ cs'[c].state # "none",
           At(w, "request")' => cs[task'[w].c].state = "none",
           reviewed \subseteq reviewed', lost \subseteq lost',
           At(w, "review") => task[w].c \in reviewed' \cup lost'
    PROVE  Effect
<1>0. \A c \in Changesets : cs[c].state # "none" => cs'[c].state # "none"
  <2>1. CASE KeepsRows
    BY <2>1 DEF KeepsRows
  <2>2. ASSUME NEW c \in Changesets, AddsVersion(c)
        PROVE  \A e \in Changesets : cs[e].state # "none" => cs'[e].state # "none"
    BY <2>2 DEF AddsVersion
  <2> QED
    BY <2>1, <2>2
<1>1. \A v \in Workers : Makes(task[v]) \subseteq Changesets
  <2> SUFFICES ASSUME NEW v \in Workers PROVE Makes(task[v]) \subseteq Changesets
    OBVIOUS
  <2> QED
    BY TaskFields DEF Makes, DoPCs, ClosePCs
<1>2. \A v \in Workers : Makes(task'[v]) \subseteq Changesets
  <2>1. Makes(task'[w]) \subseteq Changesets
    <3>1. task'[w] \in Tasks
      BY DEF Types
    <3> QED
      BY <3>1, TaskKinds DEF Makes, DoPCs, ClosePCs, DoTask, CloseTask
  <2> QED
    BY <1>1, <2>1
<1>3. ASSUME NEW c \in Changesets, cs[c].state = "none", NEW v \in Workers, v # w, c \in Makes(task[v])
      PROVE  cs'[c].state = "none"
  BY <1>3 DEF ChangeInv, Apart
<1>4. Unseen'
  <2> SUFFICES ASSUME NEW c \in Changesets, c \in coming'
               PROVE  cs'[c].state = "none" /\ request'[c] = "none" /\ \A v \in Workers : c \notin Makes(task'[v])
    BY DEF Unseen
  <2>1. c \in coming /\ cs[c].state = "none" /\ request[c] = "none" /\ \A v \in Workers : c \notin Makes(task[v])
    BY DEF ChangeInv, Unseen
  <2>2. cs'[c].state = "none"
    BY <2>1
  <2>3. request'[c] = "none"
    BY <2>1 DEF ChangeInv, StepOK, At
  <2>4. ASSUME NEW v \in Workers PROVE c \notin Makes(task'[v])
    BY <2>1, <2>2
  <2> QED
    BY <2>2, <2>3, <2>4
<1>5. ASSUME NEW v \in Workers, v # w PROVE StepOK(task[v])'
  <2> DEFINE t == task[v]
  <2>0. task'[v] = t /\ StepOK(t)
    BY <1>5 DEF ChangeInv
  <2>1. t.pc \in {"findRepo", "insert", "bypass"} => cs'[t.c].state = "none"
    BY <1>1, <1>3, <1>5, <2>0 DEF StepOK, Makes
  <2>2. t.pc \in ClosePCs => \A c \in t.next : cs'[c].state = "none" /\ c \in Governed
    <3> SUFFICES ASSUME t.pc \in ClosePCs, NEW c \in t.next PROVE cs'[c].state = "none" /\ c \in Governed
      OBVIOUS
    <3>1. c \in Makes(t)
      BY DEF Makes, ClosePCs
    <3>2. cs[c].state = "none" /\ c \in Governed
      BY <2>0 DEF StepOK
    <3> QED
      BY <1>1, <1>3, <1>5, <3>1, <3>2
  <2>3. t.pc = "publish" => cs'[t.c].state = "none" \/ request'[t.c] = "approved"
    BY <1>1, <1>3, <1>5, <2>0 DEF StepOK, Makes
  <2>4. t.pc = "request" => request'[t.c] = "none" /\ cs'[t.c].state # "none"
    <3> SUFFICES ASSUME t.pc = "request" PROVE request'[t.c] = "none" /\ cs'[t.c].state # "none"
      OBVIOUS
    <3>1. t.c \in Changesets /\ request[t.c] = "none" /\ cs[t.c].state # "none"
      BY <2>0, TaskFields DEF StepOK, DoPCs
    <3>2. ~(At(w, "request") /\ task[w].c = t.c)
      BY <1>5 DEF ChangeInv, Apart, At
    <3> QED
      BY <1>0, <3>1, <3>2
  <2>5. t.pc = "find" => request'[t.c] = "approved"
    BY <2>0, TaskFields DEF StepOK, DoPCs
  <2>6. t.pc \in {"publish", "findRepo", "insert", "request"} => t.c \in Governed
    BY <2>0 DEF StepOK
  <2>7. t.pc = "bypass" /\ t.c \in Governed => t.gate = "none"
    BY <2>0 DEF StepOK
  <2> HIDE DEF t
  <2>8. task'[v] = t
    BY <2>0
  <2> QED
    BY <2>1, <2>2, <2>3, <2>4, <2>5, <2>6, <2>7, <2>8 DEF StepOK
<1>6. \A v \in Workers : StepOK(task[v])'
  BY <1>5
<1>7. ASSUME NEW v \in Workers, v # w
      PROVE  /\ \A c \in Makes(task'[w]) \cap Makes(task'[v]) : cs'[c].state # "none"
             /\ At(w, "request")' /\ At(v, "request")' => task'[w].c # task'[v].c
  <2>1. task'[v] = task[v]
    BY <1>7
  <2>2. ASSUME NEW c \in Makes(task'[w]), c \in Makes(task[v]) PROVE cs'[c].state # "none"
    <3>1. c \in Changesets
      BY <1>1, <2>2
    <3>2. CASE c \in Makes(task[w])
      BY <1>0, <1>7, <2>2, <3>1, <3>2 DEF ChangeInv, Apart
    <3>3. ~(c \in coming /\ c \notin coming')
      BY <2>2, <3>1 DEF ChangeInv, Unseen
    <3> QED
      BY <2>2, <3>2, <3>3
  <2>3. At(w, "request")' /\ At(v, "request")' => task'[w].c # task'[v].c
    BY <2>1 DEF ChangeInv, StepOK, At
  <2> QED
    BY <2>1, <2>2, <2>3
<1>8. Apart'
  <2> SUFFICES ASSUME NEW u \in Workers, NEW v \in Workers, u # v
               PROVE  /\ \A c \in Makes(task'[u]) \cap Makes(task'[v]) : cs'[c].state # "none"
                      /\ At(u, "request")' /\ At(v, "request")' => task'[u].c # task'[v].c
    BY DEF Apart
  <2>1. CASE u = w \/ v = w
    BY <1>7, <2>1
  <2>2. CASE u # w /\ v # w
    <3>1. task'[u] = task[u] /\ task'[v] = task[v]
      BY <2>2
    <3>2. \A c \in Makes(task[u]) \cap Makes(task[v]) : cs[c].state # "none" /\ c \in Changesets
      BY <1>1 DEF ChangeInv, Apart
    <3>3. At(u, "request") /\ At(v, "request") => task[u].c # task[v].c
      BY DEF ChangeInv, Apart
    <3> QED
      BY <1>0, <3>1, <3>2, <3>3 DEF At
  <2> QED
    BY <2>1, <2>2
<1>9. RowsFirst'
  <2> SUFFICES ASSUME NEW c \in Changesets
               PROVE  /\ request'[c] # "none" => cs'[c].state # "none"
                      /\ cs'[c].state = "pending" => c \in Governed
    BY DEF RowsFirst
  <2>1. request'[c] # "none" => cs[c].state # "none"
    BY DEF ChangeInv, RowsFirst, StepOK, At
  <2> QED
    BY <1>0, <2>1 DEF ChangeInv, RowsFirst
<1>10. UnderReview \subseteq UnderReview'
  <2> SUFFICES ASSUME NEW c \in UnderReview PROVE c \in UnderReview'
    OBVIOUS
  <2>1. CASE c \in reviewed \cup lost
    BY <2>1 DEF UnderReview
  <2>2. ASSUME NEW v \in Workers, At(v, "review"), task[v].c = c, c \in Changesets PROVE c \in UnderReview'
    <3>1. CASE v = w
      BY <2>2, <3>1 DEF UnderReview
    <3>2. CASE v # w
      <4>1. task'[v] = task[v]
        BY <3>2
      <4> QED
        BY <2>2, <4>1 DEF UnderReview, At
    <3> QED
      BY <3>1, <3>2
  <2> QED
    BY <2>1, <2>2 DEF UnderReview
<1> QED
  BY <1>4, <1>6, <1>8, <1>9, <1>10 DEF Effect, ChangeInv, Governs

\* A step of one worker that changes no row and no request.
LEMMA Turns ==
    ASSUME Types, ChangeInv, UNCHANGED <<env, cs, approvals, due>>, lost' \subseteq Changesets,
           raced' \in BOOLEAN, faults' \in Nat,
           NEW w \in Workers, \A v \in Workers \ {w} : task'[v] = task[v], task' \in [Workers -> Tasks],
           coming' \subseteq coming, StepOK(task'[w]), ~At(w, "request")',
           \A c \in Makes(task'[w]) :
               c \in Makes(task[w]) \/ (c \in coming /\ c \notin coming') \/ cs[c].state # "none",
           lost \subseteq lost', At(w, "review") => task[w].c \in reviewed \cup lost'
    PROVE  Effect
<1>1. /\ UNCHANGED <<version, gate, cs, request, gateReq, reviewed, due>>
  BY DEF env, approvals
<1>2. Types'
  BY <1>1 DEF Types, AppliedAt
<1>3. StepOK(task[w])'
  BY <1>1 DEF StepOK
<1>4. KeepsRows
  BY <1>1 DEF KeepsRows
<1> QED
  BY <1>1, <1>2, <1>3, <1>4, Effects

\* applyChangeset, applyRepoChangeset, a kill, a new flag.
LEMMA SubmitEffect ==
    ASSUME Types, ChangeInv, NEW w \in Workers, NEW c \in Changesets, Submit(w, c) \/ Bypass(w, c)
    PROVE  Effect /\ GateIdle
<1>0. /\ At(w, "idle") /\ c \in coming /\ coming' = coming \ {c}
      /\ UNCHANGED <<env, cs, approvals, due, ghosts, faults>>
  BY DEF Submit, Bypass, Comes
<1>1. \E pc \in {"publish", "findRepo", "insert", "bypass"} :
          /\ Become(w, Doing(pc, c, gate, version))
          /\ pc = "bypass" => c \notin Governed \/ gate = "none"
          /\ pc # "bypass" => c \in Governed
  <2>1. CASE Submit(w, c)
    BY <2>1 DEF Submit
  <2>2. CASE Bypass(w, c)
    BY <2>2 DEF Bypass, Bypassing
  <2> QED
    BY <2>1, <2>2
<1>2. PICK pc \in {"publish", "findRepo", "insert", "bypass"} :
          /\ Become(w, Doing(pc, c, gate, version))
          /\ pc = "bypass" => c \notin Governed \/ gate = "none"
          /\ pc # "bypass" => c \in Governed
  BY <1>1
<1>3. pc \in DoPCs /\ gate \in Gates /\ version \in Nat
  BY DEF DoPCs, Types
<1>4. /\ task' \in [Workers -> Tasks] /\ task'[w].pc = pc /\ task'[w].c = c /\ task'[w].gate = gate
      /\ \A v \in Workers \ {w} : task'[v] = task[v]
  BY <1>2, <1>3, Does
<1>5. cs[c].state = "none"
  BY <1>0 DEF ChangeInv, Unseen
<1>6. StepOK(task'[w]) /\ ~At(w, "request")' /\ task'[w].pc \notin GatePCs
  BY <1>2, <1>4, <1>5 DEF StepOK, At, ClosePCs, GatePCs
<1>7. Makes(task'[w]) = {c}
  BY <1>4 DEF Makes
<1>8. /\ lost' = lost /\ lost' \subseteq Changesets /\ raced' = raced /\ raced' \in BOOLEAN /\ faults' \in Nat
      /\ UNCHANGED <<gate, gateReq>> /\ ~At(w, "review")
  BY <1>0 DEF ghosts, env, approvals, Types, At
<1>9. Effect
  BY <1>0, <1>4, <1>6, <1>7, <1>8, Turns
<1>10. GateIdle
  BY <1>4, <1>6, <1>8 DEF GateIdle
<1> QED
  BY <1>9, <1>10

\* A rebase.
LEMMA RebaseEffect ==
    ASSUME Types, ChangeInv, NEW w \in Workers, NEW c \in Changesets, NEW again \in Changesets,
           Rebase(w, c, again)
    PROVE  Effect /\ GateIdle
<1>0. /\ At(w, "idle") /\ again \in coming /\ coming' = coming \ {again} /\ again \in Governed
      /\ UNCHANGED <<env, cs, approvals, due, ghosts, faults>>
  BY DEF Rebase, Comes
<1>1. gate \in Gates /\ version \in Nat /\ cs[again].state = "none" /\ {again} \subseteq Changesets
  BY <1>0 DEF Types, ChangeInv, Unseen
<1>2. /\ task' \in [Workers -> Tasks] /\ \A v \in Workers \ {w} : task'[v] = task[v]
      /\ \/ task'[w].pc = "close" /\ task'[w].next = {again}
         \/ task'[w].pc = "insert" /\ task'[w].c = again
  <2>1. CASE Become(w, Closing(c, "superseded", {again}, gate, version))
    BY <1>1, <2>1, Closes
  <2>2. CASE Become(w, Doing("insert", again, gate, version))
    BY <1>1, <2>2, Does DEF DoPCs
  <2> QED
    BY <2>1, <2>2 DEF Rebase
<1>3. /\ StepOK(task'[w]) /\ ~At(w, "request")' /\ task'[w].pc \notin GatePCs
      /\ Makes(task'[w]) = {again}
  BY <1>0, <1>1, <1>2 DEF StepOK, At, ClosePCs, GatePCs, Makes
<1>4. /\ lost' = lost /\ lost' \subseteq Changesets /\ raced' = raced /\ raced' \in BOOLEAN /\ faults' \in Nat
      /\ UNCHANGED <<gate, gateReq>> /\ ~At(w, "review")
  BY <1>0 DEF ghosts, env, approvals, Types, At
<1>5. Effect
  BY <1>0, <1>2, <1>3, <1>4, Turns
<1>6. GateIdle
  BY <1>2, <1>3, <1>4 DEF GateIdle
<1> QED
  BY <1>5, <1>6

\* Steps that only read, and kills.
LEMMA TurnEffect ==
    ASSUME Types, ChangeInv, NEW w \in Workers,
           \/ FindRepoPending(w) \/ FindApproved(w) \/ Fail(w)
           \/ \E c \in Changesets : Withdraw(w, c) \/ ExpireDue(w, c)
    PROVE  Effect /\ GateIdle
<1>0. /\ UNCHANGED <<env, cs, approvals, due, coming, raced>> /\ lost \subseteq lost' /\ faults' \in Nat
      /\ lost' \subseteq Changesets /\ (At(w, "review") => task[w].c \in lost')
  <2>1. CASE Fail(w)
    <3>1. At(w, "review") => task[w].c \in Changesets
      BY TaskFields DEF At, DoPCs
    <3> QED
      BY <2>1, <3>1 DEF Fail, Types
  <2>2. CASE ~Fail(w)
    BY <2>2 DEF FindRepoPending, FindApproved, Withdraw, ExpireDue, Types, ghosts, At
  <2> QED
    BY <2>1, <2>2
<1>1. /\ task' \in [Workers -> Tasks] /\ \A v \in Workers \ {w} : task'[v] = task[v]
      /\ \/ task'[w].pc \in {"idle", "expireRequests"}
         \/ task'[w].pc = "close" /\ task'[w].next = {}
         \/ At(w, "findRepo") /\ task'[w].pc = "insert" /\ task'[w].c = task[w].c
         \/ At(w, "findRepo") /\ task'[w].pc = "close" /\ task'[w].next = {task[w].c}
         \/ At(w, "find") /\ Pending(task[w].c) /\ task'[w].pc = "publish" /\ task'[w].c = task[w].c
  <2>1. CASE FindRepoPending(w)
    <3>1. task[w].pc = "findRepo" /\ task[w].pc \in DoPCs
      BY <2>1 DEF FindRepoPending, At, DoPCs
    <3>2. task[w].c \in Changesets /\ task[w].gate \in Gates /\ task[w].version \in Nat /\ "insert" \in DoPCs
      BY <3>1, TaskFields DEF DoPCs
    <3>3. CASE Goto(w, "insert")
      BY <3>1, <3>2, <3>3, GoesOn DEF At
    <3>4. ASSUME NEW c \in FromRepo, Become(w, Closing(c, "superseded", {task[w].c}, task[w].gate, task[w].version))
          PROVE  /\ task' \in [Workers -> Tasks] /\ \A v \in Workers \ {w} : task'[v] = task[v]
                 /\ task'[w].pc = "close" /\ task'[w].next = {task[w].c}
      <4>1. c \in Changesets /\ {task[w].c} \in SUBSET Changesets
        BY <3>2 DEF FromRepo
      <4> QED
        BY <3>2, <3>4, <4>1, Closes
    <3> QED
      BY <2>1, <3>1, <3>3, <3>4 DEF FindRepoPending, At
  <2>2. CASE FindApproved(w)
    <3>1. task[w].pc = "find" /\ task[w].pc \in DoPCs /\ "publish" \in DoPCs
      BY <2>2 DEF FindApproved, At, DoPCs
    <3> QED
      BY <2>2, <3>1, GoesOn, Rests DEF FindApproved, At
  <2>3. CASE Fail(w)
    BY <2>3, Rests DEF Fail
  <2>4. ASSUME NEW c \in Changesets, Withdraw(w, c)
        PROVE  /\ task' \in [Workers -> Tasks] /\ \A v \in Workers \ {w} : task'[v] = task[v]
               /\ task'[w].pc = "close" /\ task'[w].next = {}
    BY <2>4, Closes, FlagAssumption DEF Withdraw
  <2>5. ASSUME NEW c \in Changesets, ExpireDue(w, c)
        PROVE  /\ task' \in [Workers -> Tasks] /\ \A v \in Workers \ {w} : task'[v] = task[v]
               /\ task'[w].pc = "expireRequests"
    BY <2>5, Does, FlagAssumption DEF ExpireDue, DoPCs
  <2> QED
    BY <2>1, <2>2, <2>3, <2>4, <2>5
<1>2. StepOK(task[w])
  BY DEF ChangeInv
<1>3. task'[w].pc = "publish" => task[w].c \in Governed
  <2>1. At(w, "find") => task[w].c \in Changesets
    BY TaskFields DEF At, DoPCs
  <2> QED
    BY <1>1, <2>1 DEF ChangeInv, RowsFirst, Pending
<1>4. StepOK(task'[w]) /\ ~At(w, "request")' /\ task'[w].pc \notin GatePCs
  BY <1>1, <1>2, <1>3 DEF StepOK, At, ClosePCs, GatePCs
<1>5. \A c \in Makes(task'[w]) : c \in Makes(task[w]) \/ cs[c].state # "none"
  BY <1>1 DEF Makes, At, ClosePCs, Pending
<1>6. raced' \in BOOLEAN /\ UNCHANGED <<gate, gateReq, raced>> /\ coming' \subseteq coming
      /\ UNCHANGED <<env, cs, approvals, due>>
  BY <1>0 DEF env, approvals, Types
<1>7. Effect
  BY <1>0, <1>1, <1>4, <1>5, <1>6, Turns
<1>8. GateIdle
  BY <1>1, <1>4, <1>6 DEF GateIdle
<1> QED
  BY <1>7, <1>8

\* A worker that ends, or goes on without a changeset to create.
LEMMA Bare ==
    ASSUME NEW w \in Workers, task'[w].pc \in {"idle", "conflict", "tell", "expire", "review"}
    PROVE  StepOK(task[w])' /\ Makes(task'[w]) = {} /\ ~At(w, "request")' /\ task'[w].pc \notin GatePCs
  BY DEF StepOK, Makes, At, ClosePCs, GatePCs

\* A changeset is proposed.
LEMMA InsertEffect ==
    ASSUME Types, ChangeInv, NEW w \in Workers, InsertPending(w)
    PROVE  Effect /\ GateIdle
<1> DEFINE c == task[w].c
           r == [state |-> "pending", base |-> task[w].version, gate |-> task[w].gate, at |-> 0]
<1>0. task[w].pc = "insert" /\ task[w].pc \in DoPCs /\ UNCHANGED <<env, approvals, due, ghosts, coming, faults>>
  BY DEF InsertPending, At, DoPCs
<1>1. c \in Changesets /\ cs[c].state = "none" /\ c \in Governed /\ request[c] = "none"
  <2>1. c \in Changesets /\ cs[c].state = "none" /\ c \in Governed
    BY <1>0, TaskFields DEF ChangeInv, StepOK
  <2> QED
    BY <2>1 DEF ChangeInv, RowsFirst
<1>2. /\ UNCHANGED <<version, gate, request, gateReq, reviewed, due, lost, raced, coming, faults>>
      /\ ~At(w, "review") /\ ~At(w, "request")
  BY <1>0 DEF env, approvals, ghosts, At
<1>3. CASE Become(w, Idle) /\ UNCHANGED cs
  <2>1. /\ task' \in [Workers -> Tasks] /\ task'[w].pc = "idle" /\ \A v \in Workers \ {w} : task'[v] = task[v]
    BY <1>3, Rests
  <2>2. Types' /\ KeepsRows
    BY <1>2, <1>3, <2>1 DEF Types, AppliedAt, KeepsRows
  <2>3. StepOK(task[w])' /\ Makes(task'[w]) = {} /\ ~At(w, "request")' /\ task'[w].pc \notin GatePCs
    BY <2>1, Bare
  <2>4. Effect
    BY <1>2, <1>3, <2>1, <2>2, <2>3, Effects
  <2>5. GateIdle
    BY <1>2, <2>1, <2>3 DEF GateIdle
  <2> QED
    BY <2>4, <2>5
<1>4. CASE cs' = [cs EXCEPT ![c] = r] /\ Goto(w, "request")
  <2>1. /\ task' \in [Workers -> Tasks] /\ task'[w].pc = "request" /\ task'[w].c = c
        /\ \A v \in Workers \ {w} : task'[v] = task[v]
    BY <1>0, <1>4, GoesOn DEF DoPCs
  <2>2. r \in RowType /\ r.state = "pending" /\ r.at = 0
    BY <1>0, TaskFields DEF RowType, ChangesetStates
  <2> HIDE DEF r
  <2>3. cs' \in [Changesets -> RowType] /\ cs'[c] = r /\ \A e \in Changesets \ {c} : cs'[e] = cs[e]
    BY <1>1, <1>4, <2>2 DEF Types
  <2>4. AppliedAt'
    BY <2>2, <2>3 DEF AppliedAt, Types
  <2>5. Types'
    BY <1>2, <2>1, <2>3, <2>4 DEF Types
  <2>6. KeepsRows
    BY <1>1, <1>2, <2>2, <2>3 DEF KeepsRows
  <2>7. StepOK(task[w])' /\ Makes(task'[w]) = {} /\ At(w, "request")' /\ task'[w].pc \notin GatePCs
    BY <1>1, <1>2, <2>1, <2>2, <2>3 DEF StepOK, Makes, At, ClosePCs, GatePCs
  <2>8. c \in Makes(task[w])
    BY <1>0 DEF Makes
  <2>9. /\ \A e \in Changesets : cs[e].state = "none" => cs'[e].state = "none" \/ e \in Makes(task[w])
        /\ \A e \in Changesets : cs'[e].state = "pending" => cs[e].state = "pending" \/ e \in Governed
    BY <1>1, <2>3, <2>8
  <2>10. Effect
    BY <1>1, <1>2, <2>1, <2>5, <2>6, <2>7, <2>9, Effects
  <2>11. GateIdle
    BY <1>2, <2>1, <2>7 DEF GateIdle
  <2> QED
    BY <2>10, <2>11
<1> QED
  BY <1>3, <1>4 DEF InsertPending

\* A change is published, finds a conflict, or was decided meanwhile.
LEMMA PublishEffect ==
    ASSUME Types, ChangeInv, NEW w \in Workers, Publish(w)
    PROVE  Effect /\ GateIdle
<1> DEFINE c == task[w].c
           r == IF cs[c].state = "none" THEN [Absent EXCEPT !.base = task[w].version] ELSE cs[c]
<1>0. task[w].pc = "publish" /\ task[w].pc \in DoPCs /\ UNCHANGED <<gate, approvals, due, ghosts, coming, faults>>
  BY DEF Publish, At, DoPCs
<1>1. /\ c \in Changesets /\ task[w].version \in Nat /\ c \in Governed
      /\ cs[c].state = "none" \/ request[c] = "approved"
  BY <1>0, TaskFields DEF ChangeInv, StepOK
<1>2. /\ UNCHANGED <<gate, request, gateReq, reviewed, due, lost, raced, coming, faults>>
      /\ ~At(w, "review") /\ ~At(w, "request") /\ c \in Makes(task[w])
  BY <1>0 DEF approvals, ghosts, At, Makes
<1>3. r \in RowType /\ r.state = cs[c].state /\ (cs[c].state = "none" => r.gate = "none")
  <2>1. "none" \in Gates /\ cs[c] \in RowType
    BY <1>1, FlagAssumption DEF Types
  <2>2. /\ [Absent EXCEPT !.base = task[w].version] \in RowType
        /\ [Absent EXCEPT !.base = task[w].version].state = "none"
        /\ [Absent EXCEPT !.base = task[w].version].gate = "none"
    BY <1>1, <2>1 DEF Absent, RowType
  <2> QED
    BY <2>1, <2>2
<1>4. \/ r.base = version /\ r.state \in {"none", "pending"} /\ Publishes(c, r) /\ Become(w, Idle)
      \/ UNCHANGED <<version, cs>> /\ (Become(w, Idle) \/ Goto(w, "conflict"))
  BY DEF Publish
<1> HIDE DEF r
<1>5. CASE UNCHANGED <<version, cs>> /\ (Become(w, Idle) \/ Goto(w, "conflict"))
  <2>1. /\ task' \in [Workers -> Tasks] /\ task'[w].pc \in {"idle", "conflict"}
        /\ \A v \in Workers \ {w} : task'[v] = task[v]
    BY <1>0, <1>5, Rests, GoesOn DEF DoPCs
  <2>2. Types' /\ KeepsRows
    BY <1>2, <1>5, <2>1 DEF Types, AppliedAt, KeepsRows
  <2>3. StepOK(task[w])' /\ Makes(task'[w]) = {} /\ ~At(w, "request")' /\ task'[w].pc \notin GatePCs
    BY <2>1, Bare
  <2>4. Effect
    BY <1>2, <1>5, <2>1, <2>2, <2>3, Effects
  <2>5. GateIdle
    BY <1>2, <2>1, <2>3 DEF GateIdle
  <2> QED
    BY <2>4, <2>5
<1>6. CASE r.base = version /\ r.state \in {"none", "pending"} /\ Publishes(c, r) /\ Become(w, Idle)
  <2>1. /\ task' \in [Workers -> Tasks] /\ task'[w].pc = "idle"
        /\ \A v \in Workers \ {w} : task'[v] = task[v]
    BY <1>6, Rests
  <2>2. /\ cs' \in [Changesets -> RowType] /\ AppliedAt' /\ version' = version + 1 /\ version' \in Nat
        /\ cs'[c].state = "applied" /\ cs'[c].at = version + 1
        /\ cs'[c].base = version /\ cs'[c].gate = r.gate
        /\ \A e \in Changesets \ {c} : cs'[e] = cs[e]
    BY <1>1, <1>3, <1>6, PublishesRow
  <2>3. Types'
    BY <1>2, <2>1, <2>2 DEF Types
  <2>4. PICK x \in Changesets : x = c
    BY <1>1
  <2>5. AddsVersion(x)
    <3>1. Allowed(x)'
      BY <1>1, <1>2, <1>3, <2>2, <2>4 DEF Allowed
    <3> QED
      BY <1>3, <1>6, <2>2, <2>4, <3>1 DEF AddsVersion
  <2>6. StepOK(task[w])' /\ Makes(task'[w]) = {} /\ ~At(w, "request")' /\ task'[w].pc \notin GatePCs
    BY <2>1, Bare
  <2>7. /\ \A e \in Changesets : cs[e].state = "none" => cs'[e].state = "none" \/ e \in Makes(task[w])
        /\ \A e \in Changesets : cs'[e].state = "pending" => cs[e].state = "pending" \/ e \in Governed
    BY <1>2, <2>2
  <2>8. Effect
    BY <1>1, <1>2, <2>1, <2>3, <2>5, <2>6, <2>7, Effects
  <2>9. GateIdle
    BY <1>2, <2>1, <2>6 DEF GateIdle
  <2> QED
    BY <2>8, <2>9
<1> QED
  BY <1>4, <1>5, <1>6

\* A kill, a new flag or an unprotected push is published.
LEMMA BypassEffect ==
    ASSUME Types, ChangeInv, NEW w \in Workers, PublishBypass(w)
    PROVE  Effect /\ GateIdle
<1> DEFINE c == task[w].c
           r == [Absent EXCEPT !.base = version, !.gate = task[w].gate]
<1>0. /\ task[w].pc = "bypass" /\ task[w].pc \in DoPCs /\ "review" \in DoPCs
      /\ UNCHANGED <<gate, approvals, due, ghosts, coming, faults>>
  BY DEF PublishBypass, At, DoPCs
<1>1. /\ c \in Changesets /\ task[w].gate \in Gates /\ cs[c].state = "none"
      /\ c \in Governed => task[w].gate = "none"
  BY <1>0, TaskFields DEF ChangeInv, StepOK
<1>2. /\ UNCHANGED <<gate, request, gateReq, reviewed, due, lost, raced, coming, faults>>
      /\ ~At(w, "review") /\ ~At(w, "request") /\ c \in Makes(task[w])
  BY <1>0 DEF approvals, ghosts, At, Makes
<1>3. r \in RowType /\ r.base = version /\ r.gate = task[w].gate
  <2>1. version \in Nat
    BY DEF Types
  <2> QED
    BY <1>1, <2>1 DEF Absent, RowType
<1>4. Publishes(c, r)
  BY DEF PublishBypass
<1> HIDE DEF r
<1>5. /\ task' \in [Workers -> Tasks] /\ task'[w].pc \in {"idle", "review"}
      /\ \A v \in Workers \ {w} : task'[v] = task[v]
      /\ KindOf[c] = "kill" /\ task[w].gate # "none" => task'[w].pc = "review" /\ task'[w].c = c
  <2>1. CASE KindOf[c] = "kill" /\ task[w].gate # "none"
    <3>1. Goto(w, "review")
      BY <2>1 DEF PublishBypass
    <3> QED
      BY <1>0, <3>1, GoesOn
  <2>2. CASE ~(KindOf[c] = "kill" /\ task[w].gate # "none")
    <3>1. Become(w, Idle)
      BY <2>2 DEF PublishBypass
    <3> QED
      BY <2>2, <3>1, Rests
  <2> QED
    BY <2>1, <2>2
<1>6. /\ cs' \in [Changesets -> RowType] /\ AppliedAt' /\ version' = version + 1 /\ version' \in Nat
      /\ cs'[c].state = "applied" /\ cs'[c].at = version + 1
      /\ cs'[c].base = version /\ cs'[c].gate = task[w].gate
      /\ \A e \in Changesets \ {c} : cs'[e] = cs[e]
  BY <1>1, <1>3, <1>4, PublishesRow
<1>7. Types'
  BY <1>2, <1>5, <1>6 DEF Types
<1>8. PICK x \in Changesets : x = c
  BY <1>1
<1>9. AddsVersion(x)
  <2>1. KindOf[x] = "kill" /\ task[w].gate # "none" => x \in UnderReview'
    BY <1>1, <1>5, <1>8 DEF UnderReview, At
  <2>2. Allowed(x)'
    BY <1>1, <1>6, <1>8, <2>1 DEF Allowed
  <2> QED
    BY <1>1, <1>6, <1>8, <2>2 DEF AddsVersion
<1>10. StepOK(task[w])' /\ Makes(task'[w]) = {} /\ ~At(w, "request")' /\ task'[w].pc \notin GatePCs
  BY <1>5, Bare
<1>11. /\ \A e \in Changesets : cs[e].state = "none" => cs'[e].state = "none" \/ e \in Makes(task[w])
       /\ \A e \in Changesets : cs'[e].state = "pending" => cs[e].state = "pending" \/ e \in Governed
  BY <1>2, <1>6
<1>12. Effect
  BY <1>1, <1>2, <1>5, <1>7, <1>9, <1>10, <1>11, Effects
<1>13. GateIdle
  BY <1>2, <1>5, <1>10 DEF GateIdle
<1> QED
  BY <1>12, <1>13

\* A pending changeset is conflicted, rejected, expired or closed.
LEMMA ResolveEffect ==
    ASSUME Types, ChangeInv, NEW w \in Workers,
           MarkConflicted(w) \/ MarkRejected(w) \/ ExpireChangeset(w) \/ Close(w)
    PROVE  Effect /\ GateIdle
<1> DEFINE c == task[w].c
<1>0. /\ UNCHANGED <<version, gate, request, gateReq, reviewed, due, lost, raced, coming, faults>>
      /\ ~At(w, "review") /\ ~At(w, "request")
      /\ task[w].pc \in {"conflict", "tell", "expire", "close"}
  BY DEF MarkConflicted, MarkRejected, ExpireChangeset, Close, env, approvals, ghosts, At
<1>1. c \in Changesets
  BY <1>0, TaskFields DEF DoPCs, ClosePCs
<1>2. \E s \in ChangesetStates \ {"pending", "applied"} : Resolve(c, s)
  <2>1. CASE Close(w)
    <3>1. Resolve(c, task[w].to) /\ task[w].to \in {"withdrawn", "superseded"}
      BY <2>1, TaskFields DEF Close, At, ClosePCs
    <3> QED
      BY <3>1 DEF ChangesetStates
  <2>2. CASE MarkConflicted(w) \/ MarkRejected(w) \/ ExpireChangeset(w)
    BY <2>2 DEF MarkConflicted, MarkRejected, ExpireChangeset, ChangesetStates
  <2> QED
    BY <2>1, <2>2
<1>3. /\ cs' \in [Changesets -> RowType] /\ AppliedAt'
      /\ \A e \in Changesets :
            \/ cs'[e] = cs[e]
            \/ cs[e].state = "pending" /\ cs'[e].state \in ChangesetStates \ {"pending", "applied"}
  BY <1>1, <1>2, Resolves
<1>4. /\ task' \in [Workers -> Tasks] /\ \A v \in Workers \ {w} : task'[v] = task[v]
      /\ \/ task'[w].pc = "idle"
         \/ task[w].pc = "close" /\ task'[w].pc = "supersede" /\ task'[w].next = task[w].next
  <2>1. Become(w, Idle) \/ (task[w].pc = "close" /\ Goto(w, "supersede"))
    BY DEF MarkConflicted, MarkRejected, ExpireChangeset, Close, At
  <2> QED
    BY <2>1, Rests, ClosesOn
<1>5. Types'
  BY <1>0, <1>3, <1>4 DEF Types
<1>6. KeepsRows
  BY <1>0, <1>3 DEF KeepsRows, ChangesetStates
<1>7. \A e \in Changesets : cs[e].state = "none" => cs'[e].state = "none"
  BY <1>3
<1>8. StepOK(task[w])' /\ Makes(task'[w]) \subseteq Makes(task[w]) /\ ~At(w, "request")' /\ task'[w].pc \notin GatePCs
  <2>1. CASE task'[w].pc = "idle"
    BY <2>1, Bare
  <2>2. CASE task[w].pc = "close" /\ task'[w].pc = "supersede" /\ task'[w].next = task[w].next
    <3>1. \A n \in task[w].next : cs[n].state = "none" /\ n \in Governed
      BY <2>2 DEF ChangeInv, StepOK, ClosePCs
    <3> QED
      BY <1>7, <2>2, <3>1 DEF StepOK, Makes, At, ClosePCs, GatePCs, Governed
  <2> QED
    BY <1>4, <2>1, <2>2
<1>9. \A e \in Changesets : cs'[e].state = "pending" => cs[e].state = "pending"
  BY <1>3
<1>10. Effect
  BY <1>0, <1>4, <1>5, <1>6, <1>7, <1>8, <1>9, Effects
<1>11. GateIdle
  BY <1>0, <1>4, <1>8 DEF GateIdle
<1> QED
  BY <1>10, <1>11

\* A step of one worker that changes requests, and no row.
LEMMA Asks ==
    ASSUME Types, ChangeInv, UNCHANGED <<env, cs, gateReq, reviewed, due, ghosts, coming, faults>>,
           request' \in [Changesets -> RequestStates],
           NEW w \in Workers, \A v \in Workers \ {w} : task'[v] = task[v], task' \in [Workers -> Tasks],
           \A c \in Changesets : request[c] = "approved" => request'[c] = "approved",
           \A c \in Changesets :
               request[c] = "none" /\ request'[c] # "none" => At(w, "request") /\ task[w].c = c,
           StepOK(task[w])', ~At(w, "request")', ~At(w, "review"),
           task'[w].pc \notin GatePCs, Makes(task'[w]) \subseteq Makes(task[w])
    PROVE  Effect /\ GateIdle
<1>1. UNCHANGED <<version, gate, cs, gateReq, reviewed, due, lost, raced, coming, faults>>
  BY DEF env, ghosts
<1>2. Types'
  BY <1>1 DEF Types, AppliedAt
<1>3. KeepsRows
  BY <1>1 DEF KeepsRows
<1>4. Effect
  BY <1>1, <1>2, <1>3, Effects
<1>5. GateIdle
  BY <1>1 DEF GateIdle
<1> QED
  BY <1>4, <1>5

\* The request of a proposal is opened.
LEMMA OpenEffect ==
    ASSUME Types, ChangeInv, NEW w \in Workers, OpenRequest(w)
    PROVE  Effect /\ GateIdle
<1> DEFINE c == task[w].c
<1>1. /\ task[w].pc = "request" /\ request' = [request EXCEPT ![c] = "pending"] /\ Become(w, Idle)
      /\ UNCHANGED <<env, cs, gateReq, reviewed, due, ghosts, coming, faults>>
  BY DEF OpenRequest, At
<1>2. c \in Changesets /\ request[c] = "none"
  BY <1>1, TaskFields DEF ChangeInv, StepOK, DoPCs
<1>3. /\ task' \in [Workers -> Tasks] /\ task'[w].pc = "idle" /\ \A v \in Workers \ {w} : task'[v] = task[v]
  BY <1>1, Rests
<1>4. StepOK(task[w])' /\ Makes(task'[w]) = {} /\ ~At(w, "request")' /\ task'[w].pc \notin GatePCs
  BY <1>3, Bare
<1>5. /\ request' \in [Changesets -> RequestStates]
      /\ \A e \in Changesets : request[e] = "approved" => request'[e] = "approved"
      /\ \A e \in Changesets : request[e] = "none" /\ request'[e] # "none" => At(w, "request") /\ c = e
  BY <1>1, <1>2 DEF Types, RequestStates, At
<1>6. ~At(w, "review")
  BY <1>1 DEF At
<1> QED
  BY <1>1, <1>3, <1>4, <1>5, <1>6, Asks

\* The quorum approves or a vote rejects.
LEMMA VoteEffect ==
    ASSUME Types, ChangeInv, NEW w \in Workers, NEW c \in Changesets, Approve(w, c) \/ Reject(w, c)
    PROVE  Effect /\ GateIdle
<1>1. /\ task[w].pc = "idle" /\ request[c] = "pending"
      /\ UNCHANGED <<env, cs, gateReq, reviewed, due, ghosts, coming, faults>>
      /\ \/ request' = [request EXCEPT ![c] = "approved"] /\ Become(w, Doing("find", c, "none", 0))
         \/ request' = [request EXCEPT ![c] = "rejected"] /\ Become(w, Doing("tell", c, "none", 0))
  BY DEF Approve, Reject, At
<1>2. /\ task' \in [Workers -> Tasks] /\ task'[w].c = c /\ \A v \in Workers \ {w} : task'[v] = task[v]
      /\ (task'[w].pc = "find" /\ request'[c] = "approved") \/ task'[w].pc = "tell"
  <2>1. "find" \in DoPCs /\ "tell" \in DoPCs /\ "none" \in Gates /\ 0 \in Nat
    BY FlagAssumption DEF DoPCs
  <2>2. CASE request' = [request EXCEPT ![c] = "approved"] /\ Become(w, Doing("find", c, "none", 0))
    BY <2>1, <2>2, Does DEF Types
  <2>3. CASE request' = [request EXCEPT ![c] = "rejected"] /\ Become(w, Doing("tell", c, "none", 0))
    BY <2>1, <2>3, Does
  <2> QED
    BY <1>1, <2>2, <2>3
<1>3. /\ StepOK(task[w])' /\ Makes(task'[w]) = {} /\ ~At(w, "request")' /\ task'[w].pc \notin GatePCs
  BY <1>2 DEF StepOK, Makes, At, ClosePCs, GatePCs
<1>4. /\ request' \in [Changesets -> RequestStates]
      /\ \A e \in Changesets : request[e] = "approved" => request'[e] = "approved"
      /\ \A e \in Changesets : request[e] = "none" => request'[e] = "none"
  BY <1>1 DEF Types, RequestStates
<1>5. ~At(w, "review")
  BY <1>1 DEF At
<1> QED
  BY <1>1, <1>2, <1>3, <1>4, <1>5, Asks

\* The request of a closed changeset is superseded, and the next one is proposed.
LEMMA SupersedeEffect ==
    ASSUME Types, ChangeInv, NEW w \in Workers, SupersedeRequest(w)
    PROVE  Effect /\ GateIdle
<1> DEFINE c == task[w].c
<1>1. /\ task[w].pc = "supersede"
      /\ request' = [request EXCEPT ![c] = IF request[c] = "pending" THEN "superseded" ELSE request[c]]
      /\ UNCHANGED <<env, cs, gateReq, reviewed, due, ghosts, coming, faults>>
      /\ \/ Become(w, Idle)
         \/ \E n \in task[w].next : Become(w, Doing("insert", n, task[w].gate, task[w].version))
  BY DEF SupersedeRequest, At
<1>2. /\ c \in Changesets /\ task[w].gate \in Gates /\ task[w].version \in Nat
      /\ \A n \in task[w].next : n \in Changesets /\ cs[n].state = "none" /\ n \in Governed
  BY <1>1, TaskFields DEF ChangeInv, StepOK, ClosePCs
<1>3. /\ task' \in [Workers -> Tasks] /\ \A v \in Workers \ {w} : task'[v] = task[v]
      /\ \/ task'[w].pc = "idle"
         \/ task'[w].pc = "insert" /\ task'[w].c \in task[w].next
  <2>1. CASE Become(w, Idle)
    BY <2>1, Rests
  <2>2. ASSUME NEW n \in task[w].next, Become(w, Doing("insert", n, task[w].gate, task[w].version))
        PROVE  /\ task' \in [Workers -> Tasks] /\ \A v \in Workers \ {w} : task'[v] = task[v]
               /\ task'[w].pc = "insert" /\ task'[w].c = n
    <3>1. "insert" \in DoPCs /\ n \in Changesets
      BY <1>2 DEF DoPCs
    <3> QED
      BY <1>2, <2>2, <3>1, Does
  <2> QED
    BY <1>1, <2>1, <2>2
<1>4. cs' = cs
  BY <1>1
<1>5. StepOK(task[w])' /\ Makes(task'[w]) \subseteq Makes(task[w]) /\ ~At(w, "request")' /\ task'[w].pc \notin GatePCs
  <2>1. CASE task'[w].pc = "idle"
    BY <2>1, Bare
  <2>2. CASE task'[w].pc = "insert" /\ task'[w].c \in task[w].next
    BY <1>1, <1>2, <1>4, <2>2 DEF StepOK, Makes, At, ClosePCs, GatePCs
  <2> QED
    BY <1>3, <2>1, <2>2
<1>6. /\ request' \in [Changesets -> RequestStates]
      /\ \A e \in Changesets : request[e] = "approved" => request'[e] = "approved"
      /\ \A e \in Changesets : request[e] = "none" => request'[e] = "none"
  BY <1>1, <1>2 DEF Types, RequestStates
<1>7. ~At(w, "review")
  BY <1>1 DEF At
<1> QED
  BY <1>1, <1>3, <1>5, <1>6, <1>7, Asks

\* The requests that are due expire.
LEMMA ExpireEffect ==
    ASSUME Types, ChangeInv, NEW w \in Workers, ExpireRequests(w)
    PROVE  Effect /\ GateIdle
<1>1. /\ task[w].pc = "expireRequests" /\ Goto(w, "expire")
      /\ request' = [c \in Changesets |-> IF c \in due /\ request[c] = "pending" THEN "expired" ELSE request[c]]
      /\ UNCHANGED <<env, cs, gateReq, reviewed, due, ghosts, coming, faults>>
  BY DEF ExpireRequests, At
<1>2. /\ task' \in [Workers -> Tasks] /\ task'[w].pc = "expire" /\ \A v \in Workers \ {w} : task'[v] = task[v]
  BY <1>1, GoesOn DEF DoPCs
<1>3. StepOK(task[w])' /\ Makes(task'[w]) = {} /\ ~At(w, "request")' /\ task'[w].pc \notin GatePCs
  BY <1>2, Bare
<1>4. /\ request' \in [Changesets -> RequestStates]
      /\ \A e \in Changesets : request[e] = "approved" => request'[e] = "approved"
      /\ \A e \in Changesets : request[e] = "none" => request'[e] = "none"
  BY <1>1 DEF Types, RequestStates
<1>5. ~At(w, "review")
  BY <1>1 DEF At
<1> QED
  BY <1>1, <1>2, <1>3, <1>4, <1>5, Asks

\* The review of a kill is opened.
LEMMA ReviewEffect ==
    ASSUME Types, ChangeInv, NEW w \in Workers, OpenReview(w)
    PROVE  Effect /\ GateIdle
<1>1. /\ task[w].pc = "review" /\ reviewed' = reviewed \cup {task[w].c} /\ Become(w, Idle)
      /\ UNCHANGED <<version, gate, cs, request, gateReq, due, lost, raced, coming, faults>>
  BY DEF OpenReview, At, env, ghosts
<1>2. task[w].c \in Changesets
  BY <1>1, TaskFields DEF DoPCs
<1>3. /\ task' \in [Workers -> Tasks] /\ task'[w].pc = "idle" /\ \A v \in Workers \ {w} : task'[v] = task[v]
  BY <1>1, Rests
<1>4. StepOK(task[w])' /\ Makes(task'[w]) = {} /\ ~At(w, "request")' /\ task'[w].pc \notin GatePCs
  BY <1>3, Bare
<1>5. Types'
  BY <1>1, <1>2, <1>3 DEF Types, AppliedAt
<1>6. KeepsRows
  BY <1>1 DEF KeepsRows
<1>7. Effect
  BY <1>1, <1>3, <1>4, <1>5, <1>6, Effects
<1>8. GateIdle
  BY <1>1, <1>3, <1>4 DEF GateIdle
<1> QED
  BY <1>7, <1>8

\* Steps that no worker takes, and stuttering.
LEMMA StillEffect ==
    ASSUME Types, ChangeInv, UNCHANGED <<env, cs, request, reviewed, coming, faults, ghosts, task>>,
           gateReq' \in [GateRequests -> GateRow], due' \subseteq Changesets
    PROVE  Effect
<1>1. UNCHANGED <<version, gate, cs, request, reviewed, coming, faults, lost, raced, task>>
  BY DEF env, ghosts
<1>2. Types'
  BY <1>1 DEF Types, AppliedAt
<1>3. ChangeInv'
  BY <1>1 DEF ChangeInv, Unseen, Apart, RowsFirst, StepOK, At
<1>4. KeepsRows /\ Governs
  BY <1>1 DEF KeepsRows, Governs, UnderReview, At
<1> QED
  BY <1>2, <1>3, <1>4 DEF Effect

\* The work on the gate leaves the changesets alone.
LEMMA GateEffect ==
    ASSUME Types, ChangeInv, NEW w \in Workers,
           \/ \E q \in GateRequests, to \in Gates : SetChangeGate(w, q, to)
           \/ \E q \in GateRequests : ApproveGate(w, q)
           \/ SupersedeGate(w) \/ RequestGate(w) \/ WriteGate(w)
    PROVE  Effect /\ task' \in [Workers -> Tasks] /\ \A v \in Workers \ {w} : task'[v] = task[v]
<1>1. /\ UNCHANGED <<version, cs, request, reviewed, due, lost, faults>> /\ coming' \subseteq coming
      /\ task[w].pc \in {"idle"} \cup GatePCs
  BY DEF SetChangeGate, ApproveGate, SupersedeGate, RequestGate, WriteGate, Comes, env, approvals, ghosts,
         At, GatePCs
<1>2. /\ task' \in [Workers -> Tasks] /\ \A v \in Workers \ {w} : task'[v] = task[v]
      /\ task'[w].pc \in {"idle"} \cup GatePCs
  <2>1. ASSUME NEW q \in GateRequests, NEW to \in Gates, SetChangeGate(w, q, to)
        PROVE  /\ task' \in [Workers -> Tasks] /\ \A v \in Workers \ {w} : task'[v] = task[v]
               /\ task'[w].pc \in GatePCs
    <3>1. "writeGate" \in GatePCs /\ "supersedeGate" \in GatePCs /\ gate \in Gates
      BY DEF GatePCs, Types
    <3> QED
      BY <2>1, <3>1, GatesAt DEF SetChangeGate
  <2>2. ASSUME NEW q \in GateRequests, ApproveGate(w, q)
        PROVE  /\ task' \in [Workers -> Tasks] /\ \A v \in Workers \ {w} : task'[v] = task[v]
               /\ task'[w].pc \in GatePCs
    <3>1. "writeGate" \in GatePCs /\ gateReq[q].to \in Gates /\ gateReq[q].under \in Gates
      BY DEF GatePCs, Types, GateRow
    <3> QED
      BY <2>2, <3>1, GatesAt DEF ApproveGate
  <2>3. CASE SupersedeGate(w)
    BY <2>3, GatesOn DEF SupersedeGate, At, GatePCs
  <2>4. CASE RequestGate(w) \/ WriteGate(w)
    BY <2>4, Rests DEF RequestGate, WriteGate
  <2> QED
    BY <2>1, <2>2, <2>3, <2>4
<1>3. gate' \in Gates /\ gateReq' \in [GateRequests -> GateRow] /\ raced' \in BOOLEAN
  <2>1. CASE (\E q \in GateRequests, to \in Gates : SetChangeGate(w, q, to))
    BY <2>1 DEF SetChangeGate, env, approvals, NoteOverlap, Types
  <2>2. ASSUME NEW q \in GateRequests, ApproveGate(w, q)
        PROVE  gate' \in Gates /\ gateReq' \in [GateRequests -> GateRow] /\ raced' \in BOOLEAN
    <3>1. [gateReq[q] EXCEPT !.state = "approved"] \in GateRow
      BY DEF Types, GateRow, RequestStates
    <3> QED
      BY <2>2, <3>1 DEF ApproveGate, env, NoteOverlap, Types
  <2>3. CASE SupersedeGate(w)
    <3>1. \A q \in GateRequests : [gateReq[q] EXCEPT !.state = "superseded"] \in GateRow
      BY DEF Types, GateRow, RequestStates
    <3> QED
      BY <2>3, <3>1 DEF SupersedeGate, env, ghosts, Types
  <2>4. CASE RequestGate(w)
    <3>1. [state |-> "pending", to |-> task[w].to, under |-> task[w].under] \in GateRow
      BY <2>4, TaskFields DEF RequestGate, At, GatePCs, GateRow, RequestStates
    <3> QED
      BY <2>4, <3>1 DEF RequestGate, env, ghosts, Types
  <2>5. CASE WriteGate(w)
    BY <2>5, TaskFields DEF WriteGate, At, GatePCs, approvals, ghosts, Types
  <2> QED
    BY <2>1, <2>2, <2>3, <2>4, <2>5
<1>4. Types'
  BY <1>1, <1>2, <1>3 DEF Types, AppliedAt
<1>5. StepOK(task[w])' /\ Makes(task'[w]) = {} /\ ~At(w, "request")' /\ ~At(w, "request") /\ ~At(w, "review")
  BY <1>1, <1>2 DEF StepOK, Makes, At, ClosePCs, GatePCs
<1>6. KeepsRows
  BY <1>1 DEF KeepsRows
<1>7. Effect
  BY <1>1, <1>2, <1>4, <1>5, <1>6, Effects
<1> QED
  BY <1>2, <1>7

\* The first state.
LEMMA ChangesInit == Init => Types /\ ChangeInv
<1> SUFFICES ASSUME Init PROVE Types /\ ChangeInv
  OBVIOUS
<1>1. PICK l \in Workloads : coming = l.coming /\ faults = l.faults
  BY DEF Init
<1>2. coming \subseteq Changesets \cup GateRequests /\ faults \in Nat
  BY <1>1, FlagAssumption
<1>3. Absent \in RowType /\ Absent.state = "none" /\ Absent.at = 0
  BY FlagAssumption DEF Absent, RowType
<1>4. cs \in [Changesets -> RowType] /\ AppliedAt /\ \A c \in Changesets : cs[c].state = "none"
  BY <1>3 DEF Init, AppliedAt
<1>5. gate \in Gates /\ gateReq \in [GateRequests -> GateRow] /\ task \in [Workers -> Tasks]
  BY FlagAssumption DEF Init, GateRow, RequestStates, Tasks
<1>6. Types
  BY <1>2, <1>4, <1>5 DEF Init, Types, RequestStates
<1>7. \A w \in Workers : task[w].pc = "idle"
  BY DEF Init, Idle
<1>8. \A w \in Workers : Makes(task[w]) = {} /\ StepOK(task[w])
  BY <1>7 DEF Makes, StepOK, ClosePCs
<1>9. ChangeInv
  BY <1>4, <1>7, <1>8 DEF Init, ChangeInv, Unseen, Apart, RowsFirst, At
<1> QED
  BY <1>6, <1>9

\* A gate is rejected, or a changeset is due: no worker takes part.
LEMMA AloneEffect ==
    ASSUME Types, ChangeInv,
           (\E q \in GateRequests : RejectGate(q)) \/ (\E c \in Changesets : Elapse(c)) \/ UNCHANGED vars
    PROVE  Effect
<1>1. ASSUME NEW q \in GateRequests, RejectGate(q) PROVE Effect
  <2>1. [gateReq[q] EXCEPT !.state = "rejected"] \in GateRow
    BY DEF Types, GateRow, RequestStates
  <2>2. gateReq' \in [GateRequests -> GateRow] /\ due' \subseteq Changesets
    BY <1>1, <2>1 DEF RejectGate, Types
  <2> QED
    BY <1>1, <2>2, StillEffect DEF RejectGate
<1>2. ASSUME NEW c \in Changesets, Elapse(c) PROVE Effect
  BY <1>2, StillEffect DEF Elapse, approvals, Types
<1>3. CASE UNCHANGED vars
  BY <1>3, StillEffect DEF vars, approvals, Types
<1> QED
  BY <1>1, <1>2, <1>3

\* The steps that have to do with the gate.
GateStep ==
    \/ \E w \in Workers :
          \/ \E q \in GateRequests, to \in Gates : SetChangeGate(w, q, to)
          \/ \E q \in GateRequests : ApproveGate(w, q)
          \/ SupersedeGate(w) \/ RequestGate(w) \/ WriteGate(w)
    \/ \E q \in GateRequests : RejectGate(q)

\* Every step, in what it does to rows, requests and reviews.
LEMMA ChangesStep ==
    ASSUME Types, ChangeInv, [Next]_vars
    PROVE  Effect /\ (GateIdle \/ GateStep)
<1>1. CASE UNCHANGED vars
  BY <1>1, AloneEffect DEF GateIdle, vars, env, approvals, ghosts
<1>2. CASE \E c \in Changesets : Elapse(c)
  BY <1>2, AloneEffect DEF GateIdle, Elapse, env, approvals, ghosts
<1>3. CASE GateStep
  BY <1>3, AloneEffect, GateEffect DEF GateStep
<1>4. ASSUME NEW w \in Workers, WorkerStep(w) \/ Fail(w), ~GateStep PROVE Effect /\ GateIdle
  <2>1. CASE FindRepoPending(w) \/ FindApproved(w) \/ Fail(w)
    BY <2>1, TurnEffect
  <2>2. CASE InsertPending(w)
    BY <2>2, InsertEffect
  <2>3. CASE OpenRequest(w)
    BY <2>3, OpenEffect
  <2>4. CASE Publish(w)
    BY <2>4, PublishEffect
  <2>5. CASE MarkConflicted(w) \/ MarkRejected(w) \/ ExpireChangeset(w) \/ Close(w)
    BY <2>5, ResolveEffect
  <2>6. CASE PublishBypass(w)
    BY <2>6, BypassEffect
  <2>7. CASE OpenReview(w)
    BY <2>7, ReviewEffect
  <2>8. CASE SupersedeRequest(w)
    BY <2>8, SupersedeEffect
  <2>9. CASE ExpireRequests(w)
    BY <2>9, ExpireEffect
  <2> QED
    BY <1>4, <2>1, <2>2, <2>3, <2>4, <2>5, <2>6, <2>7, <2>8, <2>9 DEF WorkerStep, GateStep
<1>5. ASSUME NEW w \in Workers, NEW c \in Changesets,
             Submit(w, c) \/ Bypass(w, c) \/ Approve(w, c) \/ Reject(w, c) \/ Withdraw(w, c) \/ ExpireDue(w, c)
      PROVE  Effect /\ GateIdle
  BY <1>5, SubmitEffect, VoteEffect, TurnEffect
<1>6. ASSUME NEW w \in Workers, NEW c \in Changesets, NEW again \in Changesets, Rebase(w, c, again)
      PROVE  Effect /\ GateIdle
  BY <1>6, RebaseEffect
<1> QED
  BY <1>1, <1>2, <1>3, <1>4, <1>5, <1>6 DEF Next, GateStep

\* Types and ownership together are an invariant.
LEMMA ChangesAlways == Spec => [](Types /\ ChangeInv)
<1>1. Types /\ ChangeInv /\ [Next]_vars => (Types /\ ChangeInv)'
  BY ChangesStep DEF Effect
<1> QED
  BY <1>1, ChangesInit, PTL DEF Spec

\* The rows have their types, and a version exactly when they are applied.
THEOREM TypeSafety == Spec => []TypeOK
<1>1. Types => TypeOK
  <2> SUFFICES ASSUME Types PROVE TypeOK
    OBVIOUS
  <2>1. \A w \in Workers : task[w].pc \in PCs \cup {"idle"}
    BY TaskKinds DEF Types
  <2> QED
    BY <2>1 DEF Types, TypeOK, AppliedAt, RowType, GateRow
<1> QED
  BY <1>1, ChangesAlways, PTL

-----------------------------------------------------------------------------
(* Versions, fates and approvals                                           *)

\* A changeset is decided once.
THEOREM FirstResolverWins == Spec => FateFinal
<1>1. Types /\ ChangeInv /\ [Next]_vars =>
          [\A c \in Changesets : cs[c].state \notin {"none", "pending"} => cs'[c] = cs[c]]_vars
  <2> SUFFICES ASSUME Types, ChangeInv, [Next]_vars, NEW c \in Changesets, cs[c].state \notin {"none", "pending"}
               PROVE  cs'[c] = cs[c]
    OBVIOUS
  <2>1. KeepsRows \/ \E e \in Changesets : AddsVersion(e)
    BY ChangesStep DEF Effect
  <2>2. CASE KeepsRows
    BY <2>2 DEF KeepsRows
  <2>3. ASSUME NEW e \in Changesets, AddsVersion(e) PROVE cs'[c] = cs[c]
    BY <2>3 DEF AddsVersion
  <2> QED
    BY <2>1, <2>2, <2>3
<1> QED
  BY <1>1, ChangesAlways, PTL DEF Spec, FateFinal

VersionInv == IsFiniteSet(Applied) /\ EveryVersionExplained

\* Nothing is applied at the start.
LEMMA VersionInit == Init => VersionInv
<1> SUFFICES ASSUME Init PROVE VersionInv
  OBVIOUS
<1>1. Applied = {} /\ version = 0
  BY DEF Init, Applied, Absent
<1> QED
  BY <1>1, FS_EmptySet DEF VersionInv, EveryVersionExplained

\* A step adds one changeset and one version, or neither.
LEMMA VersionStep ==
    ASSUME Types, ChangeInv, VersionInv, [Next]_vars
    PROVE  VersionInv'
<1>0. KeepsRows \/ \E e \in Changesets : AddsVersion(e)
  BY ChangesStep DEF Effect
<1>1. CASE KeepsRows
  <2>1. Applied' = Applied /\ \A c \in Applied : cs'[c] = cs[c]
    BY <1>1 DEF KeepsRows, Applied
  <2>2. version' = version
    BY <1>1 DEF KeepsRows
  <2> QED
    BY <2>1, <2>2 DEF VersionInv, EveryVersionExplained
<1>2. ASSUME NEW e \in Changesets, AddsVersion(e) PROVE VersionInv'
  <2>1. version \in Nat /\ version' = version + 1
    BY <1>2 DEF Types, AddsVersion
  <2>2. Applied' = Applied \cup {e} /\ e \notin Applied /\ \A c \in Applied : cs'[c] = cs[c]
    BY <1>2 DEF AddsVersion, Applied
  <2>3. IsFiniteSet(Applied) /\ Cardinality(Applied) = version
    BY DEF VersionInv, EveryVersionExplained
  <2>4. IsFiniteSet(Applied') /\ Cardinality(Applied') = version + 1
    BY <2>2, <2>3, FS_AddElement
  <2>5. cs'[e].at = version + 1 /\ cs'[e].base = version
    BY <1>2 DEF AddsVersion
  <2>6. {cs'[c].at : c \in Applied'} = {cs[c].at : c \in Applied} \cup {version + 1}
    BY <2>2, <2>5
  <2>7. {cs[c].at : c \in Applied} = 1..version
    BY DEF VersionInv, EveryVersionExplained
  <2>8. {cs'[c].at : c \in Applied'} = 1..version'
    BY <2>1, <2>6, <2>7
  <2>9. \A c \in Applied' : cs'[c].base + 1 = cs'[c].at
    BY <2>2, <2>5 DEF VersionInv, EveryVersionExplained
  <2> QED
    BY <2>1, <2>4, <2>8, <2>9 DEF VersionInv, EveryVersionExplained
<1> QED
  BY <1>0, <1>1, <1>2

\* Every version has exactly one applied changeset behind it, made on the version below.
THEOREM VersionsExplained == Spec => []EveryVersionExplained
<1>1. Types /\ ChangeInv /\ VersionInv /\ [Next]_vars => VersionInv'
  BY VersionStep
<1>2. VersionInv => EveryVersionExplained
  BY DEF VersionInv
<1> QED
  BY <1>1, <1>2, VersionInit, ChangesAlways, PTL DEF Spec

\* What is applied was allowed: by an approval, by an open environment, or by a review.
LEMMA GovernedStep ==
    ASSUME Types, ChangeInv, AppliedGoverned, [Next]_vars
    PROVE  AppliedGoverned'
<1>0. (KeepsRows \/ \E e \in Changesets : AddsVersion(e)) /\ Governs
  BY ChangesStep DEF Effect
<1>1. \A c \in Applied : Allowed(c)
  BY DEF AppliedGoverned, Allowed, UnderReview, Applied
<1>2. ASSUME NEW c \in Changesets, Allowed(c), cs'[c] = cs[c] PROVE Allowed(c)'
  BY <1>0, <1>2 DEF Allowed, Governs
<1>3. \A c \in Applied' : Allowed(c)'
  <2>1. CASE KeepsRows
    <3>1. \A c \in Applied' : c \in Applied /\ cs'[c] = cs[c] /\ c \in Changesets
      BY <2>1 DEF KeepsRows, Applied
    <3> QED
      BY <1>1, <1>2, <3>1
  <2>2. ASSUME NEW e \in Changesets, AddsVersion(e) PROVE \A c \in Applied' : Allowed(c)'
    <3>1. \A c \in Applied' \ {e} : c \in Applied /\ cs'[c] = cs[c] /\ c \in Changesets
      BY <2>2 DEF AddsVersion, Applied
    <3>2. Allowed(e)'
      BY <2>2 DEF AddsVersion
    <3> QED
      BY <1>1, <1>2, <3>1, <3>2
  <2> QED
    BY <1>0, <2>1, <2>2
<1> QED
  BY <1>3 DEF AppliedGoverned, Allowed, UnderReview

\* What was proposed under a gate is applied only by an approved request, and a kill in a
\* protected environment is reviewed, about to be, or lost with its invocation.
THEOREM ChangesGoverned == Spec => []AppliedGoverned
<1>1. Init => AppliedGoverned
  BY DEF Init, AppliedGoverned, Applied, Absent
<1>2. Types /\ ChangeInv /\ AppliedGoverned /\ [Next]_vars => AppliedGoverned'
  BY GovernedStep
<1> QED
  BY <1>1, <1>2, ChangesAlways, PTL DEF Spec

-----------------------------------------------------------------------------
(* The gate                                                                *)

NonePending == \A q \in GateRequests : gateReq[q].state # "pending"
GateWork(w) == task[w].pc \in GatePCs

\* While changes of the gate do not overlap, one worker at a time is at it and has read
\* the gate of now; at most one request is pending, under that gate; and none is while the
\* gate is about to be written or is open.
GateInv ==
    /\ \A w, v \in Workers : GateWork(w) /\ GateWork(v) => w = v
    /\ \A w \in Workers : GateWork(w) =>
          /\ task[w].under = gate
          /\ task[w].pc # "writeGate" => gate # "none"
          /\ task[w].pc # "supersedeGate" => NonePending
          /\ At(w, "writeGate") => gate = "none" \/ gateReq[task[w].q].state = "approved"
    /\ \A q, r \in GateRequests : gateReq[q].state = "pending" /\ gateReq[r].state = "pending" => q = r
    /\ \A q \in GateRequests : gateReq[q].state = "pending" => gateReq[q].under = gate
    /\ gate = "none" => NonePending

\* The first state.
LEMMA GateInit == Init => raced \/ GateInv
  BY DEF Init, GateInv, NonePending, GateWork, GatePCs, Idle, At

\* Steps that leave the gate alone.
LEMMA GateKept ==
    ASSUME GateInv, GateIdle
    PROVE  GateInv'
<1>1. \A w \in Workers : GateWork(w)' => GateWork(w) /\ task'[w] = task[w]
  BY DEF GateIdle, GateWork
<1>2. UNCHANGED <<gate, gateReq>> /\ (NonePending' <=> NonePending)
  BY DEF GateIdle, NonePending
<1> QED
  BY <1>1, <1>2 DEF GateInv, At

\* A change of the gate begins.
LEMMA GateBegins ==
    ASSUME Types, ChangeInv, GateInv, NEW w \in Workers, ~raced',
           \/ \E q \in GateRequests, to \in Gates : SetChangeGate(w, q, to)
           \/ \E q \in GateRequests : ApproveGate(w, q)
    PROVE  GateInv'
<1>1. /\ task' \in [Workers -> Tasks] /\ \A v \in Workers \ {w} : task'[v] = task[v]
      /\ gate' = gate /\ gate \in Gates
  BY GateEffect DEF SetChangeGate, ApproveGate, env, Types
<1>2. \A v \in Workers \ {w} : ~GateWork(v)
  BY DEF SetChangeGate, ApproveGate, NoteOverlap, GateWork
<1>3. \A v \in Workers \ {w} : ~GateWork(v)'
  BY <1>1, <1>2 DEF GateWork
<1>4. ASSUME NEW q \in GateRequests, NEW to \in Gates, SetChangeGate(w, q, to) PROVE GateInv'
  <2>1. gateReq' = gateReq
    BY <1>4 DEF SetChangeGate, approvals
  <2>2. /\ task'[w].under = gate
        /\ task'[w].pc = IF gate = "none" THEN "writeGate" ELSE "supersedeGate"
    <3>1. "writeGate" \in GatePCs /\ "supersedeGate" \in GatePCs
      BY DEF GatePCs
    <3> QED
      BY <1>1, <1>4, <3>1, GatesAt DEF SetChangeGate
  <2> QED
    BY <1>1, <1>3, <2>1, <2>2 DEF GateInv, NonePending, GateWork, At
<1>5. ASSUME NEW q \in GateRequests, ApproveGate(w, q) PROVE GateInv'
  <2>1. gateReq[q].state = "pending" /\ gateReq[q].under = gate /\ gate # "none"
    BY <1>5 DEF ApproveGate, GateInv, NonePending
  <2>2. /\ gateReq'[q].state = "approved" /\ \A r \in GateRequests \ {q} : gateReq'[r] = gateReq[r]
    <3> DEFINE r1 == [gateReq[q] EXCEPT !.state = "approved"]
    <3>1. gateReq[q] \in GateRow /\ gateReq' = [gateReq EXCEPT ![q] = r1]
      BY <1>5 DEF ApproveGate, Types
    <3>2. r1.state = "approved"
      BY <3>1 DEF GateRow
    <3> HIDE DEF r1
    <3> QED
      BY <3>1, <3>2 DEF Types
  <2>3. NonePending'
    BY <2>1, <2>2 DEF GateInv, NonePending
  <2>4. task'[w].pc = "writeGate" /\ task'[w].q = q /\ task'[w].under = gate
    <3>1. "writeGate" \in GatePCs /\ gateReq[q].to \in Gates /\ gateReq[q].under \in Gates
      BY DEF GatePCs, Types, GateRow
    <3> QED
      BY <1>5, <2>1, <3>1, GatesAt DEF ApproveGate
  <2>5. \A v \in Workers : GateWork(v)' => v = w
    BY <1>3
  <2>6. \A v \in Workers : GateWork(v)' =>
          /\ task'[v].under = gate'
          /\ task'[v].pc # "writeGate" => gate' # "none"
          /\ task'[v].pc # "supersedeGate" => NonePending'
          /\ At(v, "writeGate")' => gate' = "none" \/ gateReq'[task'[v].q].state = "approved"
    BY <1>1, <2>2, <2>3, <2>4, <2>5
  <2> QED
    BY <2>3, <2>5, <2>6 DEF GateInv, NonePending
<1> QED
  BY <1>4, <1>5

\* It goes on.
LEMMA GateGoesOn ==
    ASSUME Types, ChangeInv, GateInv, NEW w \in Workers, SupersedeGate(w) \/ RequestGate(w) \/ WriteGate(w)
    PROVE  GateInv'
<1>1. \A v \in Workers \ {w} : task'[v] = task[v]
  BY GateEffect
<1>2. GateWork(w) /\ task[w].under = gate
  BY DEF SupersedeGate, RequestGate, WriteGate, At, GateWork, GatePCs, GateInv
<1>3. \A v \in Workers \ {w} : ~GateWork(v)'
  <2>1. \A v \in Workers \ {w} : ~GateWork(v)
    BY <1>2 DEF GateInv
  <2> QED
    BY <1>1, <2>1 DEF GateWork
<1>4. CASE SupersedeGate(w)
  <2>1. gate' = gate /\ gate # "none" /\ task[w].pc = "supersedeGate"
    BY <1>2, <1>4 DEF SupersedeGate, env, At, GateInv
  <2>2. task'[w].pc = "requestGate" /\ task'[w].under = gate
    BY <1>2, <1>4, <2>1, GatesOn DEF SupersedeGate
  <2>3. NonePending'
    <3>1. ASSUME NEW q \in GateRequests PROVE [gateReq[q] EXCEPT !.state = "superseded"].state = "superseded"
      BY DEF Types, GateRow
    <3>2. \A q \in GateRequests : gateReq'[q] = IF gateReq[q].state = "pending"
                                                THEN [gateReq[q] EXCEPT !.state = "superseded"] ELSE gateReq[q]
      BY <1>4 DEF SupersedeGate
    <3> QED
      BY <3>1, <3>2 DEF NonePending
  <2> QED
    BY <1>3, <2>1, <2>2, <2>3 DEF GateInv, NonePending, At
<1>5. CASE RequestGate(w)
  <2>1. gate' = gate /\ gate # "none" /\ NonePending /\ task[w].q \in GateRequests
    BY <1>2, <1>5, TaskFields DEF RequestGate, env, At, GateInv, GateWork
  <2>2. ~GateWork(w)'
    BY <1>5, Rests DEF RequestGate, GateWork, GatePCs
  <2>3. /\ gateReq'[task[w].q].under = gate
        /\ \A q \in GateRequests \ {task[w].q} : gateReq'[q] = gateReq[q]
    BY <1>2, <1>5, <2>1 DEF RequestGate, Types
  <2> QED
    BY <1>3, <2>1, <2>2, <2>3 DEF GateInv, NonePending
<1>6. CASE WriteGate(w)
  <2>1. NonePending /\ gateReq' = gateReq
    BY <1>2, <1>6 DEF WriteGate, approvals, At, GateInv
  <2>2. ~GateWork(w)'
    BY <1>6, Rests DEF WriteGate, GateWork, GatePCs
  <2> QED
    BY <1>3, <2>1, <2>2 DEF GateInv, NonePending
<1> QED
  BY <1>4, <1>5, <1>6

\* A request is rejected.
LEMMA GateRejected ==
    ASSUME Types, GateInv, NEW q \in GateRequests, RejectGate(q)
    PROVE  GateInv'
<1>1. gate' = gate /\ task' = task /\ gateReq[q].state = "pending"
  BY DEF RejectGate, env
<1>2. gateReq'[q].state = "rejected" /\ \A r \in GateRequests \ {q} : gateReq'[r] = gateReq[r]
  <2> DEFINE r1 == [gateReq[q] EXCEPT !.state = "rejected"]
  <2>1. gateReq[q] \in GateRow /\ gateReq' = [gateReq EXCEPT ![q] = r1]
    BY DEF RejectGate, Types
  <2>2. r1.state = "rejected"
    BY <2>1 DEF GateRow
  <2> HIDE DEF r1
  <2> QED
    BY <2>1, <2>2 DEF Types
<1>3. NonePending => NonePending'
  BY <1>1 DEF NonePending
<1>4. ASSUME NEW w \in Workers, GateWork(w), gateReq[task[w].q].state = "approved"
      PROVE  gateReq'[task[w].q].state = "approved"
  BY <1>1, <1>2, <1>4, TaskFields DEF GateWork
<1> QED
  BY <1>1, <1>2, <1>3, <1>4 DEF GateInv, GateWork, At

\* Every step.
LEMMA GateStepKeeps ==
    ASSUME Types, ChangeInv, raced \/ GateInv, [Next]_vars
    PROVE  raced' \/ GateInv'
<1>1. raced => raced'
  <2>1. GateIdle => raced' = raced
    BY DEF GateIdle
  <2>2. GateStep => (raced => raced')
    BY DEF GateStep, SetChangeGate, ApproveGate, SupersedeGate, RequestGate, WriteGate, RejectGate,
           NoteOverlap, ghosts
  <2> QED
    BY <2>1, <2>2, ChangesStep
<1>2. ASSUME ~raced', GateInv, GateStep PROVE GateInv'
  BY <1>2, GateBegins, GateGoesOn, GateRejected DEF GateStep
<1> QED
  BY <1>1, <1>2, ChangesStep, GateKept

\* As long as changes of the gate do not overlap, the gate of a protected environment
\* changes only by a request that was approved under that very gate.
THEOREM GateByApproval == Spec => GateGoverned
<1> DEFINE P == gate' # gate /\ gate # "none" /\ ~raced =>
                  \E w \in Workers : task[w].pc = "writeGate" /\ task[w].under = gate
                                    /\ gateReq[task[w].q].state = "approved"
<1>1. Types /\ ChangeInv /\ (raced \/ GateInv) /\ [Next]_vars => [P]_vars
  <2> SUFFICES ASSUME Types, ChangeInv, GateInv, Next, gate' # gate, gate # "none"
               PROVE  \E w \in Workers : task[w].pc = "writeGate" /\ task[w].under = gate
                                        /\ gateReq[task[w].q].state = "approved"
    OBVIOUS
  <2>1. GateStep
    BY ChangesStep DEF GateIdle
  <2>2. \E w \in Workers : WriteGate(w)
    BY <2>1 DEF GateStep, SetChangeGate, ApproveGate, SupersedeGate, RequestGate, RejectGate, env
  <2>3. PICK w \in Workers : At(w, "writeGate")
    BY <2>2 DEF WriteGate
  <2> QED
    BY <2>3 DEF GateInv, GateWork, At, GatePCs
<1>2. Types /\ ChangeInv /\ (raced \/ GateInv) /\ [Next]_vars => (raced \/ GateInv)'
  BY GateStepKeeps
<1> QED
  BY <1>1, <1>2, GateInit, ChangesAlways, PTL DEF Spec, GateGoverned

-----------------------------------------------------------------------------
(* The contract of module DecidedOnce                                      *)

\* A worker goes from one statement to another, neither of them the start of a handler.
Plain(w) ==
    /\ task[w].pc # "find" /\ task'[w].pc # "find"
    /\ \A v \in Workers \ {w} : task'[v] = task[v]

\* How a step of one worker changes whose approval is about to be acted on.
LEMMA GrantedStep ==
    ASSUME Types, NEW w \in Workers, \A v \in Workers \ {w} : task'[v] = task[v]
    PROVE  /\ Plain(w) => Granted' = Granted
           /\ task[w].pc # "find" /\ task'[w].pc = "find" /\ task'[w].c \in Changesets =>
                  Granted' = Granted \cup {task'[w].c}
           /\ task[w].pc = "find" /\ task'[w].pc # "find" =>
                  /\ task[w].c \in Granted
                  /\ Granted' = Granted \/ Granted' = Granted \ {task[w].c}
<1>1. CASE task[w].pc # "find"
  BY <1>1 DEF Granted, At, Plain
<1>2. CASE task[w].pc = "find"
  <2>1. task[w].c \in Changesets
    BY <1>2, TaskFields DEF DoPCs
  <2>2. task[w].c \in Granted
    BY <1>2, <2>1 DEF Granted, At
  <2>3. task'[w].pc # "find" => \A c \in Changesets \ {task[w].c} : c \in Granted' <=> c \in Granted
    BY <1>2 DEF Granted, At
  <2>4. Granted \subseteq Changesets /\ Granted' \subseteq Changesets
    BY DEF Granted
  <2> QED
    BY <1>2, <2>2, <2>3, <2>4 DEF Plain
<1> QED
  BY <1>1, <1>2

\* Such a step that leaves the requests alone is nothing to the contract.
LEMMA PlainStep ==
    ASSUME Types, NEW w \in Workers, Plain(w), request' = request
    PROVE  [D!Next]_(D!contractVars)
BY GrantedStep DEF Plain, D!contractVars

\* The statement a worker goes to.
LEMMA GoesTo ==
    ASSUME Types, NEW w \in Workers, NEW pc, Goto(w, pc)
    PROVE  task'[w].pc = pc /\ \A v \in Workers \ {w} : task'[v] = task[v]
<1>1. task[w] \in Tasks /\ task'[w] = [task[w] EXCEPT !.pc = pc]
      /\ \A v \in Workers \ {w} : task'[v] = task[v]
  BY DEF Types, Goto, Become
<1>2. [task[w] EXCEPT !.pc = pc].pc = pc
  BY <1>1 DEF Tasks, DoTask, CloseTask, GateTask, Idle
<1> QED
  BY <1>1, <1>2

\* The task it takes up.
LEMMA TakesUp ==
    ASSUME Types, NEW w \in Workers, NEW t, Become(w, t)
    PROVE  task'[w] = t /\ \A v \in Workers \ {w} : task'[v] = task[v]
BY DEF Types, Become

\* The new tasks by their statement.
LEMMA TaskPcs ==
    /\ Idle.pc = "idle"
    /\ \A pc, c, g, v : Doing(pc, c, g, v).pc = pc /\ Doing(pc, c, g, v).c = c
    /\ \A c, to, next, g, v : Closing(c, to, next, g, v).pc = "close"
    /\ \A pc, q, to, under : Gating(pc, q, to, under).pc = pc
BY DEF Idle, Doing, Closing, Gating

\* A worker that is not at the start of a handler and stays away from it.
LEMMA PlainMove ==
    ASSUME Types, NEW w \in Workers, ~At(w, "find"), request' = request,
           \/ \E pc : pc # "find" /\ Goto(w, pc)
           \/ \E t : t.pc # "find" /\ Become(w, t)
    PROVE  [D!Next]_(D!contractVars)
<1>1. task'[w].pc # "find" /\ \A v \in Workers \ {w} : task'[v] = task[v]
  <2>1. ASSUME NEW pc, pc # "find", Goto(w, pc)
        PROVE  task'[w].pc # "find" /\ \A v \in Workers \ {w} : task'[v] = task[v]
    BY <2>1, GoesTo
  <2>2. ASSUME NEW t, t.pc # "find", Become(w, t)
        PROVE  task'[w].pc # "find" /\ \A v \in Workers \ {w} : task'[v] = task[v]
    BY <2>2, TakesUp
  <2> QED
    BY <2>1, <2>2
<1>2. Plain(w)
  BY <1>1 DEF Plain, At
<1> QED
  BY <1>2, PlainStep

\* The statements of a task that leave the requests of changesets alone.
LEMMA QuietWork ==
    ASSUME Types, NEW w \in Workers,
           \/ FindRepoPending(w) \/ InsertPending(w) \/ Publish(w) \/ MarkConflicted(w)
           \/ PublishBypass(w) \/ OpenReview(w) \/ MarkRejected(w) \/ Close(w) \/ ExpireChangeset(w)
           \/ SupersedeGate(w) \/ RequestGate(w) \/ WriteGate(w)
    PROVE  [D!Next]_(D!contractVars)
<1>1. CASE FindRepoPending(w)
  <2>1. ~At(w, "find") /\ request' = request
    BY <1>1 DEF FindRepoPending, At, approvals
  <2>2. Goto(w, "insert") \/ \E t : t.pc # "find" /\ Become(w, t)
    BY <1>1, TaskPcs DEF FindRepoPending
  <2> QED
    BY <2>1, <2>2, PlainMove
<1>2. CASE InsertPending(w)
  <2>1. ~At(w, "find") /\ request' = request
    BY <1>2 DEF InsertPending, At, approvals
  <2>2. Goto(w, "request") \/ Become(w, Idle)
    BY <1>2 DEF InsertPending
  <2> QED
    BY <2>1, <2>2, PlainMove, TaskPcs
<1>3. CASE Publish(w)
  <2>1. ~At(w, "find") /\ request' = request
    BY <1>3 DEF Publish, At, approvals
  <2>2. Goto(w, "conflict") \/ Become(w, Idle)
    BY <1>3 DEF Publish
  <2> QED
    BY <2>1, <2>2, PlainMove, TaskPcs
<1>4. CASE PublishBypass(w)
  <2>1. ~At(w, "find") /\ request' = request
    BY <1>4 DEF PublishBypass, At, approvals
  <2>2. Goto(w, "review") \/ Become(w, Idle)
    BY <1>4 DEF PublishBypass
  <2> QED
    BY <2>1, <2>2, PlainMove, TaskPcs
<1>5. CASE Close(w)
  <2>1. ~At(w, "find") /\ request' = request
    BY <1>5 DEF Close, At, approvals
  <2>2. Goto(w, "supersede") \/ Become(w, Idle)
    BY <1>5 DEF Close
  <2> QED
    BY <2>1, <2>2, PlainMove, TaskPcs
<1>6. CASE SupersedeGate(w)
  <2>1. ~At(w, "find") /\ request' = request /\ Goto(w, "requestGate")
    BY <1>6 DEF SupersedeGate, At
  <2> QED
    BY <2>1, PlainMove
<1>7. CASE MarkConflicted(w) \/ OpenReview(w) \/ MarkRejected(w) \/ ExpireChangeset(w)
           \/ RequestGate(w) \/ WriteGate(w)
  <2>1. ~At(w, "find") /\ request' = request /\ Become(w, Idle)
    BY <1>7 DEF MarkConflicted, OpenReview, MarkRejected, ExpireChangeset, RequestGate, WriteGate,
                At, approvals
  <2> QED
    BY <2>1, PlainMove, TaskPcs
<1> QED
  BY <1>1, <1>2, <1>3, <1>4, <1>5, <1>6, <1>7

\* What an idle worker takes up without a vote.
LEMMA QuietStart ==
    ASSUME Types, NEW w \in Workers,
           \/ \E c \in Changesets : Submit(w, c) \/ Bypass(w, c) \/ Withdraw(w, c) \/ ExpireDue(w, c)
           \/ \E c, again \in Changesets : Rebase(w, c, again)
           \/ \E q \in GateRequests : ApproveGate(w, q)
           \/ \E q \in GateRequests, to \in Gates : SetChangeGate(w, q, to)
    PROVE  [D!Next]_(D!contractVars)
<1>1. ~At(w, "find") /\ request' = request
  BY DEF Submit, Bypass, Withdraw, ExpireDue, Rebase, ApproveGate, SetChangeGate, At, approvals
<1>2. ASSUME NEW c \in Changesets, Submit(w, c) PROVE \E t : t.pc # "find" /\ Become(w, t)
  <2> DEFINE pc == IF gate = "none" THEN IF c \in FromRepo THEN "bypass" ELSE "publish"
                                    ELSE IF c \in FromRepo THEN "findRepo" ELSE "insert"
  <2>1. Become(w, Doing(pc, c, gate, version)) /\ pc # "find"
    BY <1>2 DEF Submit
  <2> HIDE DEF pc
  <2> QED
    BY <2>1, TaskPcs
<1>3. ASSUME NEW c \in Changesets, Bypass(w, c) \/ Withdraw(w, c) \/ ExpireDue(w, c)
      PROVE  \E t : t.pc # "find" /\ Become(w, t)
  BY <1>3, TaskPcs DEF Bypass, Withdraw, ExpireDue
<1>4. ASSUME NEW c \in Changesets, NEW again \in Changesets, Rebase(w, c, again)
      PROVE  \E t : t.pc # "find" /\ Become(w, t)
  BY <1>4, TaskPcs DEF Rebase
<1>5. ASSUME NEW q \in GateRequests, ApproveGate(w, q) PROVE \E t : t.pc # "find" /\ Become(w, t)
  BY <1>5, TaskPcs DEF ApproveGate
<1>6. ASSUME NEW q \in GateRequests, NEW to \in Gates, SetChangeGate(w, q, to)
      PROVE  \E t : t.pc # "find" /\ Become(w, t)
  <2> DEFINE pc == IF gate = "none" THEN "writeGate" ELSE "supersedeGate"
  <2>1. Become(w, Gating(pc, q, to, gate)) /\ pc # "find"
    BY <1>6 DEF SetChangeGate
  <2> HIDE DEF pc
  <2> QED
    BY <2>1, TaskPcs
<1> QED
  BY <1>1, <1>2, <1>3, <1>4, <1>5, <1>6, PlainMove

\* Requests that close together.
LEMMA ClosingStep ==
    ASSUME Types, NEW S \in SUBSET Changesets, \A c \in S : request[c] = "pending",
           NEW how \in {"rejected", "expired", "superseded"},
           request' = [c \in Changesets |-> IF c \in S THEN how ELSE request[c]],
           Granted' = Granted
    PROVE  [D!Next]_(D!contractVars)
<1>1. D!Close(S, how)
  BY DEF D!Close
<1> QED
  BY <1>1 DEF D!Next

\* The statements and votes that change requests.
LEMMA RequestWork ==
    ASSUME Types, ChangeInv, NEW w \in Workers,
           \/ OpenRequest(w) \/ SupersedeRequest(w) \/ ExpireRequests(w)
           \/ \E c \in Changesets : Approve(w, c) \/ Reject(w, c)
    PROVE  [D!Next]_(D!contractVars)
<1>1. CASE OpenRequest(w)
  <2> DEFINE c == task[w].c
  <2>1. At(w, "request") /\ request' = [request EXCEPT ![c] = "pending"] /\ Become(w, Idle)
    BY <1>1 DEF OpenRequest
  <2>2. c \in Changesets /\ request[c] = "none"
    BY <2>1, TaskFields DEF ChangeInv, StepOK, DoPCs, At
  <2>3. Plain(w)
    BY <2>1, TakesUp, TaskPcs DEF Plain, At
  <2>4. Granted' = Granted
    BY <2>3, GrantedStep DEF Plain
  <2>5. D!Open(c)
    BY <2>1, <2>2, <2>4 DEF D!Open
  <2> QED
    BY <2>2, <2>5 DEF D!Next
<1>2. CASE SupersedeRequest(w)
  <2> DEFINE c == task[w].c
             S == {c} \cap {e \in Changesets : request[e] = "pending"}
  <2>1. /\ At(w, "supersede")
        /\ request' = [request EXCEPT ![c] = IF request[c] = "pending" THEN "superseded" ELSE request[c]]
        /\ \E t : t.pc # "find" /\ Become(w, t)
    BY <1>2, TaskPcs DEF SupersedeRequest
  <2>2. c \in Changesets
    BY <2>1, TaskFields DEF ClosePCs, At
  <2>3. Plain(w)
    BY <2>1, TakesUp DEF Plain, At
  <2>4. Granted' = Granted
    BY <2>3, GrantedStep DEF Plain
  <2>5. request' = [e \in Changesets |-> IF e \in S THEN "superseded" ELSE request[e]]
    BY <2>1, <2>2 DEF Types
  <2>6. S \in SUBSET Changesets /\ \A e \in S : request[e] = "pending"
    OBVIOUS
  <2> HIDE DEF S
  <2> QED
    BY <2>4, <2>5, <2>6, ClosingStep
<1>3. CASE ExpireRequests(w)
  <2> DEFINE S == {e \in Changesets : e \in due /\ request[e] = "pending"}
  <2>1. At(w, "expireRequests") /\ Goto(w, "expire")
        /\ request' = [e \in Changesets |-> IF e \in S THEN "expired" ELSE request[e]]
    BY <1>3 DEF ExpireRequests
  <2>2. Plain(w)
    BY <2>1, GoesTo DEF Plain, At
  <2>3. Granted' = Granted
    BY <2>2, GrantedStep DEF Plain
  <2>4. S \in SUBSET Changesets /\ \A e \in S : request[e] = "pending"
    OBVIOUS
  <2> HIDE DEF S
  <2> QED
    BY <2>1, <2>3, <2>4, ClosingStep
<1>4. ASSUME NEW c \in Changesets, Approve(w, c) PROVE [D!Next]_(D!contractVars)
  <2>1. /\ At(w, "idle") /\ request[c] = "pending" /\ request' = [request EXCEPT ![c] = "approved"]
        /\ Become(w, Doing("find", c, "none", 0))
    BY <1>4 DEF Approve
  <2>2. task'[w].pc = "find" /\ task'[w].c = c /\ \A v \in Workers \ {w} : task'[v] = task[v]
    BY <2>1, TakesUp, TaskPcs
  <2>3. Granted' = Granted \cup {c}
    BY <2>1, <2>2, GrantedStep DEF At
  <2>4. D!Approve(c)
    BY <2>1, <2>3 DEF D!Approve
  <2> QED
    BY <2>4 DEF D!Next
<1>5. ASSUME NEW c \in Changesets, Reject(w, c) PROVE [D!Next]_(D!contractVars)
  <2>1. /\ At(w, "idle") /\ request[c] = "pending" /\ request' = [request EXCEPT ![c] = "rejected"]
        /\ Become(w, Doing("tell", c, "none", 0))
    BY <1>5 DEF Reject
  <2>2. Plain(w)
    BY <2>1, TakesUp, TaskPcs DEF Plain, At
  <2>3. Granted' = Granted
    BY <2>2, GrantedStep DEF Plain
  <2>4. request' = [e \in Changesets |-> IF e \in {c} THEN "rejected" ELSE request[e]]
    BY <2>1 DEF Types
  <2> QED
    BY <2>1, <2>3, <2>4, ClosingStep
<1> QED
  BY <1>1, <1>2, <1>3, <1>4, <1>5

\* A handler begins, or the invocation dies.
LEMMA LeavesWork ==
    ASSUME Types, NEW w \in Workers, FindApproved(w) \/ Fail(w)
    PROVE  [D!Next]_(D!contractVars)
<1>1. request' = request
  BY DEF FindApproved, Fail, approvals
<1>2. task'[w].pc # "find" /\ \A v \in Workers \ {w} : task'[v] = task[v]
  <2>1. Goto(w, "publish") \/ Become(w, Idle)
    BY DEF FindApproved, Fail
  <2> QED
    BY <2>1, GoesTo, TakesUp, TaskPcs
<1>3. CASE At(w, "find")
  <2>1. task[w].c \in Granted /\ (Granted' = Granted \/ Granted' = Granted \ {task[w].c})
    BY <1>2, <1>3, GrantedStep DEF At
  <2>2. task[w].c \in Changesets
    BY <2>1 DEF Granted
  <2>3. CASE Granted' = Granted
    BY <1>1, <2>3 DEF D!contractVars
  <2>4. CASE Granted' = Granted \ {task[w].c}
    <3>1. D!UseOrLose(task[w].c)
      BY <1>1, <2>1, <2>4 DEF D!UseOrLose
    <3> QED
      BY <2>2, <3>1 DEF D!Next
  <2> QED
    BY <2>1, <2>3, <2>4
<1>4. CASE ~At(w, "find")
  <2>1. Plain(w)
    BY <1>2, <1>4 DEF Plain, At
  <2> QED
    BY <1>1, <2>1, PlainStep
<1> QED
  BY <1>3, <1>4

\* Every step.
LEMMA ContractStep ==
    ASSUME Types, ChangeInv, [Next]_vars
    PROVE  [D!Next]_(D!contractVars)
<1>1. ASSUME NEW w \in Workers, WorkerStep(w) \/ Fail(w) PROVE [D!Next]_(D!contractVars)
  BY <1>1, QuietWork, RequestWork, LeavesWork DEF WorkerStep
<1>2. ASSUME NEW w \in Workers, NEW c \in Changesets,
             \/ Submit(w, c) \/ Bypass(w, c) \/ Approve(w, c) \/ Reject(w, c)
             \/ Withdraw(w, c) \/ ExpireDue(w, c)
      PROVE  [D!Next]_(D!contractVars)
  BY <1>2, QuietStart, RequestWork
<1>3. ASSUME NEW w \in Workers,
             \/ \E c, again \in Changesets : Rebase(w, c, again)
             \/ \E q \in GateRequests : ApproveGate(w, q)
             \/ \E q \in GateRequests, to \in Gates : SetChangeGate(w, q, to)
      PROVE  [D!Next]_(D!contractVars)
  BY <1>3, QuietStart
<1>4. CASE \/ \E q \in GateRequests : RejectGate(q)
           \/ \E c \in Changesets : Elapse(c)
           \/ UNCHANGED vars
  <2>1. request' = request /\ task' = task
    BY <1>4 DEF RejectGate, Elapse, vars, approvals
  <2> QED
    BY <2>1 DEF D!contractVars, Granted, At
<1> QED
  BY <1>1, <1>2, <1>3, <1>4 DEF Next

\* The requests for a gate: one that was not asked for yet is in nobody's hands, an
\* invocation at the gate has a request of its own, and that is not pending.
GateHands ==
    /\ \A q \in coming \cap GateRequests : gateReq[q].state = "none"
    /\ \A w \in Workers : GateWork(w) =>
          /\ task[w].q \notin coming
          /\ gateReq[task[w].q].state = "none" \/ (At(w, "writeGate") /\ gateReq[task[w].q].state = "approved")
    /\ \A w, v \in Workers : w # v /\ GateWork(w) /\ GateWork(v) => task[w].q # task[v].q

\* At most one worker moves in a step, and what was asked for does not come again.
LEMMA OneMoves ==
    ASSUME [Next]_vars
    PROVE  /\ coming' \subseteq coming
           /\ task' = task \/ \E w \in Workers : \E t : Become(w, t)
<1>1. CASE UNCHANGED vars
  BY <1>1 DEF vars
<1>2. ASSUME NEW w \in Workers,
             \/ FindRepoPending(w) \/ InsertPending(w) \/ OpenRequest(w) \/ Publish(w)
             \/ MarkConflicted(w) \/ PublishBypass(w) \/ OpenReview(w) \/ FindApproved(w)
      PROVE  coming' \subseteq coming /\ \E t : Become(w, t)
  BY <1>2 DEF FindRepoPending, InsertPending, OpenRequest, Publish, MarkConflicted, PublishBypass,
              OpenReview, FindApproved, Goto
<1>3. ASSUME NEW w \in Workers,
             \/ MarkRejected(w) \/ Close(w) \/ SupersedeRequest(w) \/ ExpireRequests(w)
             \/ ExpireChangeset(w) \/ SupersedeGate(w) \/ RequestGate(w) \/ WriteGate(w) \/ Fail(w)
      PROVE  coming' \subseteq coming /\ \E t : Become(w, t)
  BY <1>3 DEF MarkRejected, Close, SupersedeRequest, ExpireRequests, ExpireChangeset, SupersedeGate,
              RequestGate, WriteGate, Fail, Goto
<1>4. ASSUME NEW w \in Workers, NEW c \in Changesets,
             \/ Submit(w, c) \/ Bypass(w, c) \/ Approve(w, c) \/ Reject(w, c)
             \/ Withdraw(w, c) \/ ExpireDue(w, c) \/ \E again \in Changesets : Rebase(w, c, again)
      PROVE  coming' \subseteq coming /\ \E t : Become(w, t)
  BY <1>4 DEF Submit, Bypass, Approve, Reject, Withdraw, ExpireDue, Rebase, Comes
<1>5. ASSUME NEW w \in Workers, NEW q \in GateRequests,
             ApproveGate(w, q) \/ \E to \in Gates : SetChangeGate(w, q, to)
      PROVE  coming' \subseteq coming /\ \E t : Become(w, t)
  BY <1>5 DEF ApproveGate, SetChangeGate, Comes
<1>6. CASE (\E q \in GateRequests : RejectGate(q)) \/ (\E c \in Changesets : Elapse(c))
  BY <1>6 DEF RejectGate, Elapse
<1> QED
  BY <1>1, <1>2, <1>3, <1>4, <1>5, <1>6 DEF Next, WorkerStep

\* A worker that goes on without a right of its own, while the requests stay as they are:
\* the right it had, if any, is used or lost.
LEMMA GateLeaves ==
    ASSUME Types, GateHands, NEW w \in Workers, \A v \in Workers \ {w} : task'[v] = task[v],
           gateReq' = gateReq, ~At(w, "writeGate")'
    PROVE  [G!Next]_(G!contractVars)
<1>1. GateDecisions' = GateDecisions
  BY DEF GateDecisions
<1>2. CASE ~At(w, "writeGate")
  <2>1. GateGranted' = GateGranted
    BY <1>2 DEF GateGranted, At
  <2> QED
    BY <1>1, <2>1 DEF G!contractVars
<1>3. CASE At(w, "writeGate")
  <2> DEFINE q == task[w].q
  <2>1. q \in GateRequests /\ GateWork(w)
    BY <1>3, TaskFields DEF At, GateWork, GatePCs
  <2>2. \A v \in Workers \ {w} : At(v, "writeGate") => task[v].q # q
    BY <2>1 DEF GateHands, GateWork, At, GatePCs
  <2>3. \A r \in GateRequests : r \in GateGranted' <=> r \in GateGranted /\ r # q
    BY <1>3, <2>2 DEF GateGranted, At
  <2>4. GateGranted \subseteq GateRequests /\ GateGranted' \subseteq GateRequests
    BY DEF GateGranted
  <2>5. CASE q \in GateGranted
    <3>1. GateGranted' = GateGranted \ {q}
      BY <2>3, <2>4
    <3>2. G!UseOrLose(q)
      BY <1>1, <2>5, <3>1 DEF G!UseOrLose
    <3> QED
      BY <2>1, <3>2 DEF G!Next
  <2>6. CASE q \notin GateGranted
    <3>1. GateGranted' = GateGranted
      BY <2>3, <2>4, <2>6
    <3> QED
      BY <1>1, <3>1 DEF G!contractVars
  <2> QED
    BY <2>5, <2>6
<1> QED
  BY <1>2, <1>3

\* Steps that leave the gate alone; a worker at the gate may die in one.
LEMMA GateHandsRest ==
    ASSUME Types, GateHands, GateIdle, [Next]_vars
    PROVE  GateHands' /\ [G!Next]_(G!contractVars)
<1>1. gateReq' = gateReq /\ coming' \subseteq coming
  BY OneMoves DEF GateIdle
<1>2. \A w \in Workers : GateWork(w)' => GateWork(w) /\ task'[w] = task[w]
  BY DEF GateIdle, GateWork
<1>3. GateHands'
  BY <1>1, <1>2 DEF GateHands, At
<1>4. CASE task' = task
  <2>1. GateGranted' = GateGranted /\ GateDecisions' = GateDecisions
    BY <1>1, <1>4 DEF GateDecisions, GateGranted, At
  <2> QED
    BY <1>3, <2>1 DEF G!contractVars
<1>5. ASSUME NEW w \in Workers, NEW t, Become(w, t) PROVE [G!Next]_(G!contractVars)
  <2>1. \A v \in Workers \ {w} : task'[v] = task[v]
    BY <1>5, TakesUp
  <2>2. CASE ~At(w, "writeGate")'
    BY <1>1, <2>1, <2>2, GateLeaves
  <2>3. CASE At(w, "writeGate")'
    <3>1. task'[w] = task[w]
      BY <2>3, <1>2 DEF At, GateWork, GatePCs
    <3>2. \A v \in Workers : task'[v] = task[v]
      BY <2>1, <3>1
    <3> QED
      BY <1>1, <3>2 DEF G!contractVars, GateDecisions, GateGranted, At
  <2> QED
    BY <2>2, <2>3
<1> QED
  BY <1>3, <1>4, <1>5, OneMoves

\* A change of the gate is asked for.
LEMMA GateHandsSet ==
    ASSUME Types, ChangeInv, GateHands, NEW w \in Workers, NEW q \in GateRequests, NEW to \in Gates,
           SetChangeGate(w, q, to)
    PROVE  GateHands' /\ [G!Next]_(G!contractVars)
<1>1. /\ gateReq' = gateReq /\ q \in coming /\ coming' = coming \ {q} /\ ~GateWork(w)
      /\ gateReq[q].state = "none"
  BY DEF SetChangeGate, Comes, approvals, GateHands, GateWork, At, GatePCs
<1>2. task'[w].q = q /\ \A v \in Workers \ {w} : task'[v] = task[v]
  <2>1. "writeGate" \in GatePCs /\ "supersedeGate" \in GatePCs /\ gate \in Gates
    BY DEF GatePCs, Types
  <2> QED
    BY <2>1, GatesAt DEF SetChangeGate
<1>3. \A v \in Workers \ {w} : GateWork(v)' => GateWork(v) /\ task[v].q # q
  BY <1>1, <1>2 DEF GateWork, GateHands
<1>4. GateHands'
  <2>1. \A r \in coming' \cap GateRequests : gateReq'[r].state = "none"
    BY <1>1 DEF GateHands
  <2>2. \A v \in Workers : GateWork(v)' =>
           /\ task'[v].q \notin coming'
           /\ \/ gateReq'[task'[v].q].state = "none"
              \/ At(v, "writeGate")' /\ gateReq'[task'[v].q].state = "approved"
    BY <1>1, <1>2, <1>3 DEF GateHands, At
  <2>3. \A u, v \in Workers : u # v /\ GateWork(u)' /\ GateWork(v)' => task'[u].q # task'[v].q
    BY <1>2, <1>3 DEF GateHands
  <2> QED
    BY <2>1, <2>2, <2>3 DEF GateHands
<1>5. GateGranted' = GateGranted
  <2>1. ~At(w, "writeGate")
    BY <1>1 DEF At, GateWork, GatePCs
  <2> QED
    BY <1>1, <1>2, <2>1 DEF GateGranted, At
<1>6. GateDecisions' = GateDecisions
  BY <1>1 DEF GateDecisions
<1> QED
  BY <1>4, <1>5, <1>6 DEF G!contractVars

\* The request of a gate is opened.
LEMMA GateHandsOpen ==
    ASSUME Types, ChangeInv, GateHands, NEW w \in Workers, RequestGate(w)
    PROVE  GateHands' /\ [G!Next]_(G!contractVars)
<1> DEFINE q == task[w].q
<1>1. /\ GateWork(w) /\ ~At(w, "writeGate") /\ coming' = coming
      /\ gateReq' = [gateReq EXCEPT ![q] = [state |-> "pending", to |-> task[w].to, under |-> task[w].under]]
  BY DEF RequestGate, GateWork, At, GatePCs
<1>2. q \in GateRequests /\ q \notin coming /\ gateReq[q].state = "none"
  BY <1>1, TaskFields DEF GateHands, GateWork
<1>3. ~GateWork(w)' /\ \A v \in Workers \ {w} : task'[v] = task[v]
  BY Rests DEF RequestGate, GateWork, GatePCs
<1>4. gateReq'[q].state = "pending" /\ \A r \in GateRequests \ {q} : gateReq'[r] = gateReq[r]
  BY <1>1, <1>2 DEF Types
<1>5. \A v \in Workers : GateWork(v)' =>
         /\ v # w /\ GateWork(v) /\ task'[v] = task[v] /\ task[v].q \in GateRequests \ {q}
  <2>1. \A v \in Workers \ {w} : GateWork(v) => task[v].q # q /\ task[v].q \in GateRequests
    BY <1>1, TaskFields DEF GateHands, GateWork
  <2> QED
    BY <1>3, <2>1 DEF GateWork
<1>6. GateHands'
  BY <1>1, <1>2, <1>4, <1>5 DEF GateHands, At
<1>7. GateGranted' = GateGranted
  <2>1. \A r \in GateRequests \ {q} : r \in GateGranted' <=> r \in GateGranted
    BY <1>1, <1>3, <1>4 DEF GateGranted, GateWork, At, GatePCs
  <2>2. q \notin GateGranted /\ q \notin GateGranted'
    BY <1>2, <1>4 DEF GateGranted
  <2> QED
    BY <2>1, <2>2 DEF GateGranted
<1>8. GateDecisions' = [GateDecisions EXCEPT ![q] = "pending"] /\ GateDecisions[q] = "none"
  BY <1>2, <1>4 DEF GateDecisions
<1>9. G!Open(q)
  BY <1>7, <1>8 DEF G!Open
<1> QED
  BY <1>2, <1>6, <1>9 DEF G!Next

\* Requests of a gate are closed together, by a rejection or by a newer change.
LEMMA GateHandsClose ==
    ASSUME Types, GateHands, NEW S \in SUBSET GateRequests, \A q \in S : gateReq[q].state = "pending",
           NEW how \in {"rejected", "expired", "superseded"}, coming' = coming,
           \A q \in S : gateReq'[q].state = how,
           \A q \in GateRequests \ S : gateReq'[q] = gateReq[q],
           \A w \in Workers : /\ GateWork(w)' <=> GateWork(w)
                              /\ At(w, "writeGate")' <=> At(w, "writeGate")
                              /\ GateWork(w) => task'[w].q = task[w].q
    PROVE  GateHands' /\ [G!Next]_(G!contractVars)
<1>1. \A w \in Workers : GateWork(w) => task[w].q \in GateRequests /\ task[w].q \notin S
  BY TaskFields DEF GateHands, GateWork
<1>2. GateHands'
  <2>1. \A r \in coming' \cap GateRequests : gateReq'[r].state = "none"
    BY DEF GateHands
  <2>2. \A v \in Workers : GateWork(v)' =>
           /\ task'[v].q \notin coming'
           /\ \/ gateReq'[task'[v].q].state = "none"
              \/ At(v, "writeGate")' /\ gateReq'[task'[v].q].state = "approved"
    BY <1>1 DEF GateHands
  <2>3. \A u, v \in Workers : u # v /\ GateWork(u)' /\ GateWork(v)' => task'[u].q # task'[v].q
    BY DEF GateHands
  <2> QED
    BY <2>1, <2>2, <2>3 DEF GateHands
<1>3. GateGranted' = GateGranted
  <2>1. \A w \in Workers : At(w, "writeGate") => GateWork(w)
    BY DEF At, GateWork, GatePCs
  <2>2. \A q \in GateRequests : q \in GateGranted' <=> q \in GateGranted
    BY <2>1 DEF GateGranted
  <2> QED
    BY <2>2 DEF GateGranted
<1>4. GateDecisions' = [q \in GateRequests |-> IF q \in S THEN how ELSE GateDecisions[q]]
  BY DEF GateDecisions
<1>5. G!Close(S, how)
  BY <1>3, <1>4 DEF G!Close, GateDecisions
<1> QED
  BY <1>2, <1>5 DEF G!Next

\* A newer change closes those that are pending.
LEMMA GateHandsSupersede ==
    ASSUME Types, ChangeInv, GateHands, NEW w \in Workers, SupersedeGate(w)
    PROVE  GateHands' /\ [G!Next]_(G!contractVars)
<1> DEFINE S == {q \in GateRequests : gateReq[q].state = "pending"}
<1>1. coming' = coming /\ task[w].pc = "supersedeGate"
  BY DEF SupersedeGate, At
<1>2. task'[w].pc = "requestGate" /\ task'[w].q = task[w].q /\ \A v \in Workers \ {w} : task'[v] = task[v]
  BY <1>1, GatesOn DEF SupersedeGate
<1>3. \A q \in GateRequests : [gateReq[q] EXCEPT !.state = "superseded"].state = "superseded"
  BY DEF Types, GateRow
<1>4. /\ \A q \in S : gateReq'[q].state = "superseded"
      /\ \A q \in GateRequests \ S : gateReq'[q] = gateReq[q]
  BY <1>3 DEF SupersedeGate
<1>5. \A v \in Workers : /\ GateWork(v)' <=> GateWork(v)
                         /\ At(v, "writeGate")' <=> At(v, "writeGate")
                         /\ GateWork(v) => task'[v].q = task[v].q
  BY <1>1, <1>2 DEF GateWork, At, GatePCs
<1>6. S \in SUBSET GateRequests /\ \A q \in S : gateReq[q].state = "pending"
  OBVIOUS
<1> HIDE DEF S
<1> QED
  BY <1>1, <1>4, <1>5, <1>6, GateHandsClose

\* A rejection closes one.
LEMMA GateHandsReject ==
    ASSUME Types, GateHands, NEW q \in GateRequests, RejectGate(q)
    PROVE  GateHands' /\ [G!Next]_(G!contractVars)
<1>1. coming' = coming /\ task' = task /\ gateReq[q].state = "pending"
  BY DEF RejectGate
<1>2. gateReq'[q].state = "rejected" /\ \A r \in GateRequests \ {q} : gateReq'[r] = gateReq[r]
  <2> DEFINE r1 == [gateReq[q] EXCEPT !.state = "rejected"]
  <2>1. gateReq[q] \in GateRow /\ gateReq' = [gateReq EXCEPT ![q] = r1]
    BY DEF RejectGate, Types
  <2>2. r1.state = "rejected"
    BY <2>1 DEF GateRow
  <2> HIDE DEF r1
  <2> QED
    BY <2>1, <2>2 DEF Types
<1>3. \A v \in Workers : /\ GateWork(v)' <=> GateWork(v)
                         /\ At(v, "writeGate")' <=> At(v, "writeGate")
                         /\ GateWork(v) => task'[v].q = task[v].q
  BY <1>1 DEF GateWork, At
<1> QED
  BY <1>1, <1>2, <1>3, GateHandsClose

\* An approval gives the right to write the gate to the invocation that made it.
LEMMA GateHandsApprove ==
    ASSUME Types, ChangeInv, GateHands, NEW w \in Workers, NEW q \in GateRequests, ApproveGate(w, q)
    PROVE  GateHands' /\ [G!Next]_(G!contractVars)
<1>1. coming' = coming /\ gateReq[q].state = "pending" /\ ~GateWork(w) /\ ~At(w, "writeGate")
  BY DEF ApproveGate, GateWork, At, GatePCs
<1>2. gateReq'[q].state = "approved" /\ \A r \in GateRequests \ {q} : gateReq'[r] = gateReq[r]
  <2> DEFINE r1 == [gateReq[q] EXCEPT !.state = "approved"]
  <2>1. gateReq[q] \in GateRow /\ gateReq' = [gateReq EXCEPT ![q] = r1]
    BY DEF ApproveGate, Types
  <2>2. r1.state = "approved"
    BY <2>1 DEF GateRow
  <2> HIDE DEF r1
  <2> QED
    BY <2>1, <2>2 DEF Types
<1>3. task'[w].pc = "writeGate" /\ task'[w].q = q /\ \A v \in Workers \ {w} : task'[v] = task[v]
  <2>1. "writeGate" \in GatePCs /\ gateReq[q].to \in Gates /\ gateReq[q].under \in Gates
    BY DEF GatePCs, Types, GateRow
  <2> QED
    BY <2>1, GatesAt DEF ApproveGate
<1>4. \A v \in Workers \ {w} : GateWork(v)' => GateWork(v) /\ task[v].q \in GateRequests \ {q}
  <2>1. \A v \in Workers : GateWork(v) => task[v].q # q /\ task[v].q \in GateRequests
    BY <1>1, TaskFields DEF GateHands, GateWork
  <2> QED
    BY <1>3, <2>1 DEF GateWork
<1>5. GateHands'
  <2>1. q \notin coming
    BY <1>1 DEF GateHands
  <2>2. \A r \in coming' \cap GateRequests : gateReq'[r].state = "none"
    BY <1>1, <1>2, <2>1 DEF GateHands
  <2>3. \A v \in Workers : GateWork(v)' =>
           /\ task'[v].q \notin coming'
           /\ \/ gateReq'[task'[v].q].state = "none"
              \/ At(v, "writeGate")' /\ gateReq'[task'[v].q].state = "approved"
    BY <1>1, <1>2, <1>3, <1>4, <2>1 DEF GateHands, At
  <2>4. \A u, v \in Workers : u # v /\ GateWork(u)' /\ GateWork(v)' => task'[u].q # task'[v].q
    BY <1>3, <1>4 DEF GateHands
  <2> QED
    BY <2>2, <2>3, <2>4 DEF GateHands
<1>6. GateGranted' = GateGranted \cup {q}
  <2>1. \A r \in GateRequests \ {q} : r \in GateGranted' <=> r \in GateGranted
    BY <1>1, <1>2, <1>3 DEF GateGranted, At
  <2>2. q \in GateGranted'
    BY <1>2, <1>3 DEF GateGranted, At
  <2> QED
    BY <2>1, <2>2 DEF GateGranted
<1>7. GateDecisions' = [GateDecisions EXCEPT ![q] = "approved"] /\ GateDecisions[q] = "pending"
  BY <1>1, <1>2 DEF GateDecisions
<1>8. G!Approve(q)
  BY <1>6, <1>7 DEF G!Approve
<1> QED
  BY <1>5, <1>8 DEF G!Next

\* The gate is written.
LEMMA GateHandsWrite ==
    ASSUME Types, GateHands, NEW w \in Workers, WriteGate(w)
    PROVE  GateHands' /\ [G!Next]_(G!contractVars)
<1>1. gateReq' = gateReq /\ coming' = coming
  BY DEF WriteGate, approvals
<1>2. ~GateWork(w)' /\ ~At(w, "writeGate")' /\ \A v \in Workers \ {w} : task'[v] = task[v]
  BY Rests DEF WriteGate, GateWork, GatePCs, At
<1>3. \A v \in Workers : GateWork(v)' => GateWork(v) /\ task'[v] = task[v]
  BY <1>2 DEF GateWork
<1>4. GateHands'
  BY <1>1, <1>3 DEF GateHands, At
<1> QED
  BY <1>1, <1>2, <1>4, GateLeaves

\* Every step.
LEMMA GateContractStep ==
    ASSUME Types, ChangeInv, GateHands, [Next]_vars
    PROVE  GateHands' /\ [G!Next]_(G!contractVars)
<1>1. CASE GateIdle
  BY <1>1, GateHandsRest
<1>2. CASE GateStep
  BY <1>2, GateHandsSet, GateHandsOpen, GateHandsSupersede, GateHandsReject, GateHandsApprove,
     GateHandsWrite DEF GateStep
<1> QED
  BY <1>1, <1>2, ChangesStep

\* Whatever proposals, withdrawals, rebases, pushes, changes of the gate, expiry jobs and
\* deaths interleave, the requests of changesets and those for a gate keep the promise of
\* DecidedOnce that the approval service makes for all its callers.
THEOREM RequestsKeepContract == Spec => RequestsDecidedOnce
<1>1. Init => D!Init /\ G!Init /\ GateHands
  <2> SUFFICES ASSUME Init PROVE D!Init /\ G!Init /\ GateHands
    OBVIOUS
  <2>1. \A w \in Workers : task[w].pc = "idle"
    BY DEF Init, Idle
  <2>2. \A q \in GateRequests : gateReq[q].state = "none"
    BY DEF Init
  <2>3. D!Init
    BY <2>1 DEF Init, D!Init, Granted, At
  <2>4. G!Init
    BY <2>1, <2>2 DEF G!Init, GateDecisions, GateGranted, At
  <2> QED
    BY <2>1, <2>2, <2>3, <2>4 DEF GateHands, GateWork, GatePCs
<1>2. Types /\ ChangeInv /\ [Next]_vars => [D!Next]_(D!contractVars)
  BY ContractStep
<1>3. Types /\ ChangeInv /\ GateHands /\ [Next]_vars => GateHands' /\ [G!Next]_(G!contractVars)
  BY GateContractStep
<1> QED
  BY <1>1, <1>2, <1>3, ChangesAlways, PTL DEF Spec, RequestsDecidedOnce, D!Spec, G!Spec
=============================================================================
