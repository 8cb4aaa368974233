----------------------------- MODULE EvaluateGate -----------------------------
(***************************************************************************)
(* governance/evaluate-gate.ts: Kuhn's augmenting paths over the role      *)
(* slots of a gate and the principals that approved it, one step of the    *)
(* search at a time.                                                       *)
(*                                                                         *)
(* A requirement list is a sequence of [role, count]; a role may be listed *)
(* twice.  A slot is <<j, k>>, the k-th of its j-th entry.  `calls` is the *)
(* stack of canFillSlot: each call with its slot and the principal its     *)
(* `some` is at.  The visited set and the matching are shared by the calls *)
(* of one search, as in the code.                                          *)
(***************************************************************************)
EXTENDS GateRules, SequencesExt

CONSTANTS
    MaxListed,   \* bound: entries of a requirement list
    MaxCount,    \* bound: count of an entry
    NoSlot       \* the slot of a principal that has none

ASSUME EvaluateAssumption ==
    /\ {MaxListed, MaxCount} \subseteq Nat
    /\ NoSlot \notin Nat \X Nat

VARIABLES
    requirements,     \* the requirement list of the gate
    principals,       \* who approved, in the order of their votes
    rejecters,        \* who rejected
    pc,               \* where the evaluation is, in the end the outcome
    todo,             \* the slots that `every` has not come to
    slotOfPrincipal,  \* the matching
    visited,          \* the principals this search has tried
    calls             \* the calls of canFillSlot

votes == <<requirements, principals, rejecters>>
vars == <<votes, pc, todo, slotOfPrincipal, visited, calls>>

Lists == UNION {[1..n -> [role : Roles, count : 0..MaxCount]] : n \in 0..MaxListed}
Orders == {p \in UNION {[1..n -> Users] : n \in 0..Cardinality(Users)} : IsInjective(p)}
Outcomes == {"resumed", "rejected", "pending"}

\* Every entry expanded `count` times; the order of the slots; the role of one.
Slots == UNION {{j} \X (1..requirements[j].count) : j \in DOMAIN requirements}
Before(s, t) == s[1] < t[1] \/ (s[1] = t[1] /\ s[2] < t[2])
RoleOfSlot(s) == requirements[s[1]].role

Covers(u, s) == RoleOfSlot(s) \in RolesOf[u]

\* The call in progress, and the principal it looks at.
Call == Last(calls)
Principal == principals[Call.at]
Enter(s) == [slot |-> s, at |-> 1]
Onwards(c) == [c EXCEPT ![Len(c)].at = @ + 1]

TypeOK ==
    /\ requirements \in Lists
    /\ principals \in Seq(Users) /\ IsInjective(principals)
    /\ rejecters \subseteq Users
    /\ pc \in {"start", "every", "search", "found"} \cup Outcomes
    /\ todo \subseteq Slots
    /\ slotOfPrincipal \in [Users -> Slots \cup {NoSlot}]
    /\ visited \subseteq Users
    /\ calls \in Seq([slot : Slots, at : Nat \ {0}])

Init ==
    /\ requirements \in Lists
    /\ principals \in Orders
    /\ rejecters \in SUBSET (Users \ Range(principals))
    /\ pc = "start"
    /\ todo = Slots
    /\ slotOfPrincipal = [u \in Users |-> NoSlot]
    /\ visited = {}
    /\ calls = <<>>

-----------------------------------------------------------------------------
\* Any reject wins.
Start ==
    /\ pc = "start"
    /\ pc' = IF rejecters # {} THEN "rejected" ELSE "every"
    /\ UNCHANGED <<votes, todo, slotOfPrincipal, visited, calls>>

\* slots.every: the slots in order, each with a visited set of its own.
FillNext(s) ==
    /\ pc = "every"
    /\ \A t \in todo \ {s} : Before(s, t)
    /\ pc' = "search"
    /\ todo' = todo \ {s}
    /\ visited' = {}
    /\ calls' = <<Enter(s)>>
    /\ UNCHANGED <<votes, slotOfPrincipal>>

AllFilled ==
    /\ pc = "every" /\ todo = {}
    /\ pc' = "resumed"
    /\ UNCHANGED <<votes, todo, slotOfPrincipal, visited, calls>>

\* canFillSlot: a principal that was visited, or does not cover the slot, is passed over.
Skip ==
    /\ pc = "search" /\ Call.at <= Len(principals)
    /\ Principal \in visited \/ ~Covers(Principal, Call.slot)
    /\ calls' = Onwards(calls)
    /\ UNCHANGED <<votes, pc, todo, slotOfPrincipal, visited>>

Visit ==
    /\ pc = "search" /\ Call.at <= Len(principals)
    /\ Principal \notin visited /\ Covers(Principal, Call.slot)
    /\ visited' = visited \cup {Principal}

TakeFree ==
    /\ Visit
    /\ slotOfPrincipal[Principal] = NoSlot
    /\ pc' = "found"
    /\ UNCHANGED <<votes, todo, slotOfPrincipal, calls>>

\* Mutant: nobody who holds a slot is moved to another one.
LeaveHolder ==
    /\ Visit
    /\ slotOfPrincipal[Principal] # NoSlot
    /\ calls' = Onwards(calls)
    /\ UNCHANGED <<votes, pc, todo, slotOfPrincipal>>

\* The slot a principal holds may be filled by another one: a call for it.
TryHolder ==
    /\ Visit
    /\ slotOfPrincipal[Principal] # NoSlot
    /\ calls' = Append(calls, Enter(slotOfPrincipal[Principal]))
    /\ UNCHANGED <<votes, pc, todo, slotOfPrincipal>>

\* Mutant: a slot that nobody fills is tried again.
ExhaustedRetries ==
    /\ pc = "search" /\ Call.at > Len(principals)
    /\ calls' = IF Len(calls) = 1 THEN <<>> ELSE Onwards(Front(calls))
    /\ pc' = IF Len(calls) = 1 THEN "every" ELSE pc
    /\ todo' = IF Len(calls) = 1 THEN todo \cup {Call.slot} ELSE todo
    /\ UNCHANGED <<votes, slotOfPrincipal, visited>>

\* Nobody fills the slot of this call: back to the one that made it, or `every` ends.
Exhausted ==
    /\ pc = "search" /\ Call.at > Len(principals)
    /\ calls' = IF Len(calls) = 1 THEN <<>> ELSE Onwards(Front(calls))
    /\ pc' = IF Len(calls) = 1 THEN "pending" ELSE pc
    /\ UNCHANGED <<votes, todo, slotOfPrincipal, visited>>

\* A call succeeds: its principal gets its slot, and the call that made it succeeds too.
Rehome ==
    /\ pc = "found"
    /\ slotOfPrincipal' = [slotOfPrincipal EXCEPT ![Principal] = Call.slot]
    /\ calls' = Front(calls)
    /\ pc' = IF Len(calls) = 1 THEN "every" ELSE pc
    /\ UNCHANGED <<votes, todo, visited>>

Next ==
    \/ Start \/ (\E s \in todo : FillNext(s)) \/ AllFilled
    \/ Skip \/ TakeFree \/ TryHolder \/ Exhausted \/ Rehome

Spec == Init /\ [][Next]_vars

\* The evaluation is a computation: it goes on until it ends.
FairSpec == Spec /\ WF_vars(Next)

-----------------------------------------------------------------------------
(* Properties                                                              *)

\* How many slots the list has for each role in all.
Required == [r \in Roles |-> Cardinality({s \in Slots : RoleOfSlot(s) = r})]

\* evaluateGate finds a quorum exactly when there is one: whatever the order of
\* the votes and of the requirement list, its greedy search with re-homing agrees
\* with the existence of an assignment of distinct principals to the slots.
MeetsContract ==
    pc \in Outcomes => pc = Outcome(Required, Range(principals), rejecters)

\* The search ends, although principals are moved from slot to slot (evaluateGate).
Decides == <>(pc \in Outcomes)
=============================================================================
