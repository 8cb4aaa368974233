-------------------------- MODULE EvaluateGateProofs --------------------------
(***************************************************************************)
(* Proofs about EvaluateGate, for every set of users and roles and every   *)
(* bound on the requirement list.                                          *)
(***************************************************************************)
EXTENDS EvaluateGate, FiniteSetTheorems, FunctionTheorems, SequenceTheorems, WellFoundedInduction, TLAPS

USE DEF Outcomes

Calls == [slot : Slots, at : Nat \ {0}]

\* The slots before the one being filled, and whose entry in the matching is out
\* of date: on the way back from a free principal, the one about to be moved.
Filling == pc \in {"search", "found"}
Done == {s \in Slots : s \notin todo /\ (Filling => s # calls[1].slot)}
Moving(u) == pc = "found" /\ u = Principal

\* The matching: everybody it names approved and covers the slot, nobody has the
\* slot of another, and it fills the slots that are done.
Matched ==
    /\ \A u \in Users : slotOfPrincipal[u] # NoSlot /\ ~Moving(u) =>
           /\ u \in Range(principals)
           /\ slotOfPrincipal[u] \in Done
           /\ Covers(u, slotOfPrincipal[u])
    /\ \A u, v \in Users :
           slotOfPrincipal[u] = slotOfPrincipal[v] /\ slotOfPrincipal[u] # NoSlot
               /\ ~Moving(u) /\ ~Moving(v) => u = v
    /\ \A s \in Done : \E u \in Users : slotOfPrincipal[u] = s /\ ~Moving(u)

\* The call k waits for the slot its principal holds, or has found a free one.
At(k) == principals[calls[k].at]
Asked(k) == k < Len(calls) \/ pc = "found"
Path ==
    Filling =>
        /\ Len(calls) > 0
        /\ calls[1].slot \notin todo
        /\ \A k \in 1..Len(calls) : Asked(k) =>
               /\ calls[k].at <= Len(principals)
               /\ Covers(At(k), calls[k].slot)
               /\ k < Len(calls) => slotOfPrincipal[At(k)] = calls[k + 1].slot
        /\ \A j, k \in 1..Len(calls) : Asked(j) /\ Asked(k) /\ At(j) = At(k) => j = k

\* Whoever could fill a slot has been visited.
Explored(s) == \A u \in Range(principals) : Covers(u, s) => u \in visited

Tried ==
    pc = "search" =>
        /\ \A k \in 1..Len(calls) :
               /\ k < Len(calls) => At(k) \in visited
               /\ calls[k].at <= Len(principals) + 1
               /\ \A i \in 1..Len(principals) :
                      i < calls[k].at /\ Covers(principals[i], calls[k].slot)
                          => principals[i] \in visited
        /\ \A u \in visited :
               /\ u \in Range(principals)
               /\ slotOfPrincipal[u] # NoSlot
               /\ \/ \E k \in 2..Len(calls) : calls[k].slot = slotOfPrincipal[u]
                  \/ Explored(slotOfPrincipal[u])

\* Every outcome is the right one.
Decided ==
    /\ pc # "start" => (pc = "rejected" <=> rejecters # {})
    /\ pc = "resumed" => Filled(Required, Range(principals))
    /\ pc = "pending" => ~Filled(Required, Range(principals))

Inv == TypeOK /\ (pc \notin Outcomes => Matched) /\ Path /\ Tried /\ Decided

-----------------------------------------------------------------------------
(* Slots and calls                                                         *)

\* A slot is a pair of numbers, so the absence of one is not a slot.
LEMMA SlotsArePairs ==
    ASSUME requirements \in Lists
    PROVE  /\ Slots \subseteq (1..MaxListed) \X (1..MaxCount)
           /\ NoSlot \notin Slots
           /\ \A s \in Slots : RoleOfSlot(s) \in Roles
<1>1. PICK n \in 0..MaxListed : requirements \in [1..n -> [role : Roles, count : 0..MaxCount]]
  BY DEF Lists
<1>2. ASSUME NEW s \in Slots
      PROVE  s \in (1..MaxListed) \X (1..MaxCount) /\ RoleOfSlot(s) \in Roles
  <2>1. PICK j \in 1..n : s \in {j} \X (1..requirements[j].count)
    BY <1>1, <1>2 DEF Slots
  <2>2. requirements[j] \in [role : Roles, count : 0..MaxCount]
    BY <1>1
  <2>3. s[1] = j /\ s[2] \in 1..requirements[j].count /\ s = <<s[1], s[2]>>
    BY <2>1
  <2>4. j \in 1..MaxListed /\ s[2] \in 1..MaxCount
    BY <2>2, <2>3, EvaluateAssumption
  <2> QED
    BY <2>2, <2>3, <2>4 DEF RoleOfSlot
<1>3. (1..MaxListed) \X (1..MaxCount) \subseteq Nat \X Nat
  BY EvaluateAssumption
<1> QED
  BY <1>2, <1>3, EvaluateAssumption

\* There are finitely many slots.
LEMMA SlotsFinite ==
    ASSUME requirements \in Lists
    PROVE  IsFiniteSet(Slots)
<1>1. IsFiniteSet(1..MaxListed) /\ IsFiniteSet(1..MaxCount)
  BY FS_Interval, EvaluateAssumption
<1>2. IsFiniteSet((1..MaxListed) \X (1..MaxCount))
  BY <1>1, FS_Product
<1> QED
  BY <1>2, SlotsArePairs, FS_Subset

\* The stack without its last call.
LEMMA FrontOf ==
    ASSUME NEW T, NEW c \in Seq(T), Len(c) > 0
    PROVE  /\ Front(c) \in Seq(T)
           /\ Len(Front(c)) = Len(c) - 1
           /\ \A k \in 1..(Len(c) - 1) : Front(c)[k] = c[k]
BY DEF Front

\* The stack with its last call at the next principal.
LEMMA OnwardsOf ==
    ASSUME NEW c \in Seq(Calls), Len(c) > 0
    PROVE  /\ Onwards(c) \in Seq(Calls)
           /\ Len(Onwards(c)) = Len(c)
           /\ \A k \in 1..Len(c) : Onwards(c)[k].slot = c[k].slot
           /\ \A k \in 1..(Len(c) - 1) : Onwards(c)[k] = c[k]
           /\ Onwards(c)[Len(c)].at = c[Len(c)].at + 1
<1> DEFINE d == [c[Len(c)] EXCEPT !.at = @ + 1]
<1>0. Len(c) \in 1..Len(c)
  BY LenProperties
<1>1. c[Len(c)] \in Calls
  BY <1>0, ElementOfSeq
<1>2. d \in Calls /\ d.slot = c[Len(c)].slot /\ d.at = c[Len(c)].at + 1
  BY <1>1 DEF Calls
<1>3. Onwards(c) = [c EXCEPT ![Len(c)] = d]
  BY <1>0, <1>1 DEF Onwards, Calls
<1> HIDE DEF d
<1>4. /\ Onwards(c) \in Seq(Calls)
      /\ Len(Onwards(c)) = Len(c)
      /\ \A k \in 1..Len(c) : Onwards(c)[k] = IF k = Len(c) THEN d ELSE c[k]
  BY <1>0, <1>1, <1>2, <1>3, ExceptSeq
<1> QED
  BY <1>0, <1>1, <1>2, <1>4

-----------------------------------------------------------------------------
(* The slots of the list and the counts of its roles                       *)

Assigns(g, A) ==
    g \in Injection(Slots, A) /\ \A s \in Slots : Covers(g[s], s)

\* The role slots that GateRules counts are the slots of the list, renamed.
LEMMA Renaming ==
    ASSUME requirements \in Lists
    PROVE  \E h \in Bijection(RoleSlots(Required), Slots) :
               \A x \in RoleSlots(Required) : RoleOfSlot(h[x]) = x[1]
<1> DEFINE Of(r) == {s \in Slots : RoleOfSlot(s) = r}
           b == [r \in Roles |-> CHOOSE f : f \in Bijection(1..Required[r], Of(r))]
           h == [x \in RoleSlots(Required) |-> b[x[1]][x[2]]]
<1>1. ASSUME NEW r \in Roles
      PROVE  /\ b[r] \in [1..Required[r] -> Of(r)]
             /\ \A i, j \in 1..Required[r] : b[r][i] = b[r][j] => i = j
             /\ \A s \in Of(r) : \E i \in 1..Required[r] : b[r][i] = s
  <2>1. IsFiniteSet(Of(r))
    BY SlotsFinite, FS_Subset
  <2>2. Required[r] = Cardinality(Of(r))
    BY DEF Required
  <2>3. Required[r] \in Nat /\ ExistsBijection(1..Required[r], Of(r))
    BY <2>1, <2>2, FS_CardinalityType
  <2>4. \E f : f \in Bijection(1..Required[r], Of(r))
    BY <2>3, Fun_ExistsBij
  <2>5. b[r] \in Bijection(1..Required[r], Of(r))
    BY <2>4
  <2> HIDE DEF b, Of
  <2> QED
    BY <2>5 DEF Bijection, Injection, Surjection, IsInjective
<1> HIDE DEF b
<1>2. ASSUME NEW x \in RoleSlots(Required)
      PROVE  /\ x[1] \in Roles /\ x[2] \in 1..Required[x[1]] /\ x = <<x[1], x[2]>>
             /\ h[x] = b[x[1]][x[2]]
             /\ h[x] \in Slots /\ RoleOfSlot(h[x]) = x[1]
  <2>1. x[1] \in Roles /\ x[2] \in 1..Required[x[1]] /\ x = <<x[1], x[2]>>
    BY DEF RoleSlots
  <2>2. b[x[1]] \in [1..Required[x[1]] -> Of(x[1])]
    BY <1>1, <2>1
  <2> QED
    BY <2>1, <2>2
<1>3. ASSUME NEW x \in RoleSlots(Required), NEW y \in RoleSlots(Required), h[x] = h[y]
      PROVE  x = y
  <2>1. x[1] = y[1]
    BY <1>2, <1>3
  <2>2. x[2] = y[2]
    <3>1. x[1] \in Roles
      BY <1>2
    <3>2. \A i, j \in 1..Required[x[1]] : b[x[1]][i] = b[x[1]][j] => i = j
      BY <1>1, <3>1
    <3> QED
      BY <1>2, <1>3, <2>1, <3>2
  <2> QED
    BY <1>2, <2>1, <2>2
<1>4. ASSUME NEW s \in Slots
      PROVE  \E x \in RoleSlots(Required) : h[x] = s
  <2>1. RoleOfSlot(s) \in Roles /\ s \in Of(RoleOfSlot(s))
    BY SlotsArePairs
  <2>2. PICK i \in 1..Required[RoleOfSlot(s)] : b[RoleOfSlot(s)][i] = s
    BY <1>1, <2>1
  <2>3. <<RoleOfSlot(s), i>> \in RoleSlots(Required)
    BY <2>1, <2>2 DEF RoleSlots
  <2> QED
    BY <1>2, <2>2, <2>3
<1> HIDE DEF Of
<1>5. h \in [RoleSlots(Required) -> Slots]
  BY <1>2
<1> HIDE DEF h
<1>6. h \in Bijection(RoleSlots(Required), Slots)
  BY <1>3, <1>4, <1>5, Fun_IsBij
<1> QED
  BY <1>2, <1>6

\* A quorum in the sense of GateRules is an assignment to the slots of the list.
LEMMA QuorumIsAssignment ==
    ASSUME requirements \in Lists, NEW A
    PROVE  Filled(Required, A) <=> \E g : Assigns(g, A)
<1>1. PICK h \in Bijection(RoleSlots(Required), Slots) :
          \A x \in RoleSlots(Required) : RoleOfSlot(h[x]) = x[1]
  BY Renaming
<1> DEFINE R == RoleSlots(Required)
<1>2. /\ h \in [R -> Slots]
      /\ \A x, y \in R : h[x] = h[y] => x = y
      /\ \A s \in Slots : \E x \in R : h[x] = s
  BY <1>1, Fun_BijectionProperties
<1> HIDE DEF R
<1>3. ASSUME Filled(Required, A) PROVE \E g : Assigns(g, A)
  <2>1. PICK f \in [R -> A] : (\A x \in R : x[1] \in RolesOf[f[x]]) /\ IsInjective(f)
    BY <1>3 DEF Filled, R
  <2> DEFINE back == [s \in Slots |-> CHOOSE x \in R : h[x] = s]
             g == [s \in Slots |-> f[back[s]]]
  <2>2. \A s \in Slots : back[s] \in R /\ h[back[s]] = s
    BY <1>2
  <2> HIDE DEF back
  <2>3. \A s \in Slots : g[s] \in A /\ Covers(g[s], s)
    BY <1>1, <2>1, <2>2 DEF Covers, R
  <2>4. \A s, t \in Slots : g[s] = g[t] => s = t
    BY <2>1, <2>2 DEF IsInjective
  <2>5. g \in [Slots -> A]
    BY <2>3
  <2> HIDE DEF g
  <2>6. g \in Injection(Slots, A)
    BY <2>4, <2>5, Fun_IsInj
  <2> QED
    BY <2>3, <2>6 DEF Assigns
<1>4. ASSUME NEW g, Assigns(g, A) PROVE Filled(Required, A)
  <2>1. /\ g \in [Slots -> A] /\ \A s, t \in Slots : g[s] = g[t] => s = t
        /\ \A s \in Slots : Covers(g[s], s)
    BY <1>4, Fun_InjectionProperties DEF Assigns
  <2> DEFINE f == [x \in R |-> g[h[x]]]
  <2>2. f \in [R -> A] /\ \A x \in R : x[1] \in RolesOf[f[x]]
    BY <1>1, <1>2, <2>1 DEF Covers, R
  <2>3. IsInjective(f)
    BY <1>2, <2>1 DEF IsInjective
  <2> QED
    BY <2>2, <2>3 DEF Filled, R
<1> QED
  BY <1>3, <1>4

-----------------------------------------------------------------------------
(* The two verdicts                                                        *)

\* Who approved is a finite set of users.
LEMMA PrincipalsFinite ==
    ASSUME TypeOK
    PROVE  /\ IsFiniteSet(Range(principals))
           /\ Range(principals) \subseteq Users
           /\ \A i \in 1..Len(principals) : principals[i] \in Range(principals)
           /\ \A u \in Range(principals) : \E i \in 1..Len(principals) : principals[i] = u
<1>1. principals \in [1..Len(principals) -> Users] /\ Len(principals) \in Nat
  BY LenProperties DEF TypeOK
<1>2. IsFiniteSet(1..Len(principals))
  BY <1>1, FS_Interval
<1>3. principals \in Surjection(1..Len(principals), Range(principals))
  BY <1>1, Fun_RangeProperties
<1> QED
  BY <1>1, <1>2, <1>3, FS_Surjection DEF Range

\* When `every` has come to its end, the matching is an assignment.
LEMMA ResumedIsRight ==
    ASSUME TypeOK, Matched, pc = "every", todo = {}
    PROVE  Filled(Required, Range(principals))
<1> DEFINE g == [s \in Slots |-> CHOOSE u \in Users : slotOfPrincipal[u] = s]
<1>1. NoSlot \notin Slots
  BY SlotsArePairs DEF TypeOK
<1>2. ASSUME NEW s \in Slots
      PROVE  g[s] \in Users /\ slotOfPrincipal[g[s]] = s
  <2>1. s \in Done
    BY DEF Done, Filling
  <2>2. \E u \in Users : slotOfPrincipal[u] = s
    BY <2>1 DEF Matched
  <2> QED
    BY <2>2
<1> HIDE DEF g
<1>3. ASSUME NEW s \in Slots
      PROVE  g[s] \in Range(principals) /\ Covers(g[s], s)
  BY <1>1, <1>2 DEF Matched, Moving
<1>4. g \in [Slots -> Range(principals)]
  BY <1>3 DEF g
<1>5. g \in Injection(Slots, Range(principals))
  BY <1>2, <1>4, Fun_IsInj
<1> QED
  BY <1>3, <1>5, QuorumIsAssignment DEF Assigns, TypeOK

(***************************************************************************)
(* When the first call of a search fails, the slot it was for and those of *)
(* the visited principals are one more than the visited principals, who    *)
(* are the only ones that cover them: there is no assignment.              *)
(***************************************************************************)
LEMMA PendingIsRight ==
    ASSUME TypeOK, Matched, Path, Tried, pc = "search",
           Len(calls) = 1, calls[1].at > Len(principals)
    PROVE  ~Filled(Required, Range(principals))
<1> DEFINE root == calls[1].slot
           held == [u \in visited |-> slotOfPrincipal[u]]
           H == {slotOfPrincipal[u] : u \in visited}
           S == H \cup {root}
<1>0. root \in Slots /\ calls[1].at \in Nat /\ Len(principals) \in Nat
  <2>1. calls \in Seq([slot : Slots, at : Nat \ {0}]) /\ 1 \in 1..Len(calls)
    BY DEF TypeOK
  <2>2. calls[1] \in [slot : Slots, at : Nat \ {0}]
    BY <2>1, ElementOfSeq
  <2> QED
    BY <2>2 DEF TypeOK
<1>1. visited \subseteq Range(principals) /\ IsFiniteSet(visited)
  <2>1. visited \subseteq Range(principals)
    BY DEF Tried
  <2> QED
    BY <2>1, PrincipalsFinite, FS_Subset
<1>2. ASSUME NEW u \in visited
      PROVE  /\ u \in Users
             /\ slotOfPrincipal[u] \in Slots
             /\ slotOfPrincipal[u] # root
             /\ Explored(slotOfPrincipal[u])
             /\ \A v \in visited : slotOfPrincipal[u] = slotOfPrincipal[v] => u = v
  <2>1. slotOfPrincipal[u] # NoSlot /\ Explored(slotOfPrincipal[u])
    BY DEF Tried
  <2>2. u \in Users /\ \A v \in Users : ~Moving(v)
    BY DEF TypeOK, Moving
  <2>3. slotOfPrincipal[u] \in Done
    BY <2>1, <2>2 DEF Matched
  <2>4. \A v \in visited : slotOfPrincipal[u] = slotOfPrincipal[v] => u = v
    BY <2>1, <2>2 DEF Matched, TypeOK
  <2> QED
    BY <2>1, <2>2, <2>3, <2>4 DEF Done, Filling
<1>3. Cardinality(visited) \in Nat /\ IsFiniteSet(H) /\ Cardinality(H) = Cardinality(visited)
  <2>1. held \in [visited -> H] /\ \A h \in H : \E u \in visited : held[u] = h
    OBVIOUS
  <2>2. \A u, v \in visited : held[u] = held[v] => u = v
    BY <1>2
  <2> HIDE DEF held, H
  <2>3. held \in Bijection(visited, H)
    BY <2>1, <2>2, Fun_IsBij
  <2>4. ExistsBijection(visited, H)
    BY <2>3, Fun_ExistsBij
  <2> QED
    BY <1>1, <2>4, FS_Bijection, FS_CardinalityType
<1>4. root \notin H
  BY <1>2
<1>5. IsFiniteSet(S) /\ Cardinality(visited) < Cardinality(S)
  <2> HIDE DEF H, root
  <2>1. IsFiniteSet(H \cup {root}) /\ Cardinality(H \cup {root}) = Cardinality(H) + 1
    BY <1>3, <1>4, FS_AddElement
  <2> QED
    BY <1>3, <2>1
<1>6. ASSUME NEW s \in S PROVE s \in Slots /\ Explored(s)
  <2>1. CASE s = root
    <3>1. ASSUME NEW u \in Range(principals), Covers(u, root) PROVE u \in visited
      <4>1. PICK i \in 1..Len(principals) : principals[i] = u
        BY PrincipalsFinite
      <4>2. i < calls[1].at
        BY <1>0
      <4> QED
        BY <3>1, <4>1, <4>2 DEF Tried
    <3> QED
      BY <1>0, <2>1, <3>1 DEF Explored
  <2>2. CASE s \in H
    BY <1>2, <2>2
  <2> QED
    BY <2>1, <2>2
<1> SUFFICES ASSUME NEW g, Assigns(g, Range(principals)) PROVE FALSE
  BY QuorumIsAssignment DEF TypeOK
<1>7. /\ g \in [Slots -> Range(principals)]
      /\ \A s, t \in Slots : g[s] = g[t] => s = t
      /\ \A s \in Slots : Covers(g[s], s)
  BY Fun_InjectionProperties DEF Assigns
<1> DEFINE f == [s \in S |-> g[s]]
<1> HIDE DEF S
<1>8. f \in [S -> visited]
  BY <1>6, <1>7 DEF Explored
<1> HIDE DEF f
<1>9. PICK x \in S, y \in S : x # y /\ f[x] = f[y]
  BY <1>1, <1>5, <1>8, FS_PigeonHole
<1> QED
  BY <1>6, <1>7, <1>9 DEF f

-----------------------------------------------------------------------------
(* Every step preserves the invariant                                      *)

\* A step of the evaluation leaves the gate alone.
LEMMA SameGate ==
    ASSUME UNCHANGED votes
    PROVE  /\ requirements' = requirements /\ principals' = principals /\ rejecters' = rejecters
           /\ Slots' = Slots /\ Required' = Required /\ Calls' = Calls
<1>1. requirements' = requirements /\ principals' = principals /\ rejecters' = rejecters
  BY DEF votes
<1>2. Slots' = Slots
  BY <1>1 DEF Slots
<1> QED
  BY <1>1, <1>2 DEF Required, RoleOfSlot, Calls

\* The call in progress and the ones below it.
LEMMA Stack ==
    ASSUME TypeOK, Path, Filling
    PROVE  /\ Len(calls) \in Nat \ {0} /\ Len(principals) \in Nat
           /\ calls \in Seq(Calls)
           /\ \A k \in 1..Len(calls) :
                  /\ calls[k].slot \in Slots /\ calls[k].at \in Nat \ {0}
                  /\ calls[k].at <= Len(principals) =>
                         At(k) \in Range(principals) /\ At(k) \in Users
           /\ Call = calls[Len(calls)]
           /\ Principal = At(Len(calls))
<1>1. calls \in Seq(Calls) /\ Len(calls) > 0
  BY DEF TypeOK, Path, Calls
<1>2. Len(calls) \in Nat \ {0} /\ Len(principals) \in Nat
  BY <1>1 DEF TypeOK
<1>3. \A k \in 1..Len(calls) : calls[k] \in Calls
  BY <1>1, ElementOfSeq
<1>4. \A k \in 1..Len(calls) : calls[k].slot \in Slots /\ calls[k].at \in Nat \ {0}
  BY <1>3 DEF Calls
<1>5. ASSUME NEW k \in 1..Len(calls), calls[k].at <= Len(principals)
      PROVE  At(k) \in Range(principals) /\ At(k) \in Users
  <2>1. calls[k].at \in 1..Len(principals)
    BY <1>2, <1>4, <1>5
  <2> QED
    BY <2>1, PrincipalsFinite DEF At
<1> QED
  BY <1>1, <1>2, <1>4, <1>5 DEF Call, Last, Principal, At

\* The evaluation starts with an empty matching.
LEMMA InitInv ==
    ASSUME Init
    PROVE  Inv
<1>1. TypeOK
  <2>1. principals \in Seq(Users) /\ IsInjective(principals)
    BY DEF Init, Orders
  <2> QED
    BY <2>1 DEF Init, TypeOK
<1>2. Matched
  BY DEF Init, Matched, Done
<1> QED
  BY <1>1, <1>2 DEF Init, Inv, Path, Tried, Decided, Filling

LEMMA StartInv ==
    ASSUME Inv, Start
    PROVE  Inv'
<1>1. TypeOK'
  BY SameGate DEF Inv, TypeOK, Start
<1>2. Matched'
  BY SameGate DEF Inv, Matched, Start, Done, Filling, Moving, Covers, RoleOfSlot
<1> QED
  BY <1>1, <1>2, SameGate DEF Inv, Path, Tried, Decided, Filling, Start

LEMMA AllFilledInv ==
    ASSUME Inv, AllFilled
    PROVE  Inv'
<1>1. TypeOK'
  BY SameGate DEF Inv, TypeOK, AllFilled
<1>2. Filled(Required, Range(principals))
  BY ResumedIsRight DEF Inv, AllFilled
<1> QED
  BY <1>1, <1>2, SameGate DEF Inv, Path, Tried, Decided, Filling, AllFilled

LEMMA FillNextInv ==
    ASSUME Inv, NEW s \in todo, FillNext(s)
    PROVE  Inv'
<1>1. s \in Slots /\ Enter(s) \in Calls /\ Enter(s).slot = s /\ Enter(s).at = 1
  BY DEF Inv, TypeOK, Enter, Calls
<1>2. calls' \in Seq(Calls) /\ Len(calls') = 1 /\ calls'[1] = Enter(s)
  BY <1>1 DEF FillNext
<1>3. TypeOK'
  BY <1>2, SameGate DEF Inv, TypeOK, FillNext, Calls
<1>4. Done' = Done /\ \A u : ~Moving(u)' /\ ~Moving(u)
  BY <1>1, <1>2, SameGate DEF FillNext, Done, Filling, Moving
<1>5. Matched'
  BY <1>4, SameGate DEF Inv, Matched, FillNext, Covers, RoleOfSlot
<1>6. Path'
  BY <1>1, <1>2 DEF FillNext, Path, Asked
<1>7. Tried'
  <2>1. Len(principals) \in Nat
    BY DEF Inv, TypeOK
  <2> QED
    BY <1>1, <1>2, <2>1, SameGate DEF FillNext, Tried
<1> QED
  BY <1>3, <1>5, <1>6, <1>7, SameGate DEF Inv, Decided, FillNext

LEMMA SkipInv ==
    ASSUME Inv, Skip
    PROVE  Inv'
<1> DEFINE n == Len(calls)
<1>1. Filling /\ Filling' /\ pc = "search" /\ pc' = "search"
  BY DEF Skip, Filling
<1>2. /\ n \in Nat \ {0} /\ Len(principals) \in Nat /\ calls \in Seq(Calls)
      /\ \A k \in 1..n : calls[k].slot \in Slots /\ calls[k].at \in Nat \ {0}
      /\ Call = calls[n] /\ Principal = At(n)
  BY <1>1, Stack DEF Inv
<1>3. /\ calls' \in Seq(Calls) /\ Len(calls') = n
      /\ \A k \in 1..n : calls'[k].slot = calls[k].slot
      /\ \A k \in 1..(n - 1) : calls'[k] = calls[k]
      /\ calls'[n].at = calls[n].at + 1
  <2>1. calls' = Onwards(calls)
    BY DEF Skip
  <2> HIDE DEF n
  <2> QED
    BY <1>2, <2>1, OnwardsOf DEF n
<1> HIDE DEF n
<1>4. TypeOK'
  BY <1>3, SameGate DEF Inv, TypeOK, Skip, Calls
<1>5. Done' = Done /\ \A u : ~Moving(u)' /\ ~Moving(u)
  BY <1>1, <1>2, <1>3, SameGate DEF Skip, Done, Moving
<1>6. Matched'
  BY <1>1, <1>5, SameGate DEF Inv, Matched, Skip, Covers, RoleOfSlot
<1>7. Path'
  <2>1. ASSUME NEW k \in 1..n, Asked(k)'
        PROVE  k \in 1..(n - 1) /\ Asked(k) /\ At(k)' = At(k)
    <3>1. k < n /\ k \in 1..(n - 1)
      BY <1>1, <1>2, <1>3, <2>1 DEF Asked
    <3>2. At(k)' = At(k)
      BY <1>3, <3>1, SameGate DEF Skip, At
    <3> QED
      BY <3>1, <3>2 DEF Asked, n
  <2>2. calls'[1].slot = calls[1].slot
    BY <1>2, <1>3
  <2>3. ASSUME NEW k \in 1..n, Asked(k)'
        PROVE  /\ calls'[k].at <= Len(principals)
               /\ Covers(At(k), calls'[k].slot)
               /\ k < n => slotOfPrincipal[At(k)] = calls'[k + 1].slot
    BY <1>1, <1>2, <1>3, <2>1, <2>3 DEF Inv, Path, n
  <2>4. \A j, k \in 1..n : Asked(j) /\ Asked(k) /\ At(j) = At(k) => j = k
    BY <1>1 DEF Inv, Path, n
  <2>5. \A j, k \in 1..n : (Asked(j) /\ Asked(k) /\ At(j) = At(k))' => j = k
    BY <2>1, <2>4
  <2>6. calls[1].slot \notin todo
    BY <1>1 DEF Inv, Path
  <2>7. UNCHANGED <<requirements, principals, slotOfPrincipal, todo>>
    BY SameGate DEF Skip
  <2> QED
    BY <1>1, <1>2, <1>3, <2>1, <2>2, <2>3, <2>5, <2>6, <2>7 DEF Path, Covers, RoleOfSlot
<1>8. Tried'
  <2>1. ASSUME NEW k \in 1..n
        PROVE  /\ k < n => At(k)' \in visited
               /\ calls'[k].at <= Len(principals) + 1
               /\ \A i \in 1..Len(principals) :
                      i < calls'[k].at /\ Covers(principals[i], calls[k].slot)
                          => principals[i] \in visited
    <3>1. CASE k < n
      <4>1. calls'[k] = calls[k]
        BY <1>2, <1>3, <3>1
      <4>2. At(k)' = At(k)
        BY <4>1, SameGate DEF Skip, At
      <4> QED
        BY <1>1, <3>1, <4>1, <4>2 DEF Inv, Tried, n
    <3>2. CASE k = n
      <4>1. \A i \in 1..Len(principals) : i < calls'[n].at =>
                i < calls[n].at \/ (i = calls[n].at /\ principals[i] = Principal)
        BY <1>2, <1>3 DEF At
      <4>2. Principal \in visited \/ ~Covers(Principal, calls[n].slot)
        BY <1>2 DEF Skip
      <4>3. calls'[n].at <= Len(principals) + 1
        BY <1>2, <1>3 DEF Skip
      <4> QED
        BY <1>1, <1>2, <3>2, <4>1, <4>2, <4>3 DEF Inv, Tried, n
    <3> QED
      BY <1>2, <3>1, <3>2
  <2>2. ASSUME NEW u \in visited
        PROVE  /\ u \in Range(principals)
               /\ slotOfPrincipal[u] # NoSlot
               /\ \/ \E k \in 2..n : calls'[k].slot = slotOfPrincipal[u]
                  \/ Explored(slotOfPrincipal[u])
    BY <1>1, <1>2, <1>3 DEF Inv, Tried, n
  <2> QED
    BY <1>3, <2>1, <2>2, SameGate DEF Tried, Skip, Explored, Covers, RoleOfSlot
<1> QED
  BY <1>1, <1>4, <1>6, <1>7, <1>8, SameGate DEF Inv, Decided, Skip

\* What holds of the principal that a call visits.
LEMMA VisitFacts ==
    ASSUME Inv, Visit
    PROVE  /\ pc = "search" /\ Filling
           /\ Len(calls) \in Nat \ {0} /\ Len(principals) \in Nat /\ calls \in Seq(Calls)
           /\ \A k \in 1..Len(calls) : calls[k].slot \in Slots /\ calls[k].at \in Nat \ {0}
           /\ calls[Len(calls)].at <= Len(principals)
           /\ Principal = At(Len(calls))
           /\ Principal \in Range(principals) /\ Principal \in Users
           /\ Principal \notin visited
           /\ Covers(Principal, calls[Len(calls)].slot)
           /\ \A k \in 1..Len(calls) : k < Len(calls) => At(k) \in visited
           /\ \A j, k \in 1..Len(calls) : At(j) = At(k) => j = k
<1>1. pc = "search" /\ Filling
  BY DEF Visit, Filling
<1>2. /\ Len(calls) \in Nat \ {0} /\ Len(principals) \in Nat /\ calls \in Seq(Calls)
      /\ \A k \in 1..Len(calls) :
             /\ calls[k].slot \in Slots /\ calls[k].at \in Nat \ {0}
             /\ calls[k].at <= Len(principals) => At(k) \in Range(principals) /\ At(k) \in Users
      /\ Call = calls[Len(calls)] /\ Principal = At(Len(calls))
  BY <1>1, Stack DEF Inv
<1>3. /\ calls[Len(calls)].at <= Len(principals)
      /\ Principal \notin visited
      /\ Covers(Principal, calls[Len(calls)].slot)
  BY <1>2 DEF Visit
<1>4. Principal \in Range(principals) /\ Principal \in Users
  BY <1>2, <1>3
<1>5. \A k \in 1..Len(calls) : k < Len(calls) => At(k) \in visited
  BY <1>1 DEF Inv, Tried
<1>6. ASSUME NEW j \in 1..Len(calls), NEW k \in 1..Len(calls), At(j) = At(k) PROVE j = k
  <2>1. CASE j < Len(calls) /\ k < Len(calls)
    BY <1>1, <1>6, <2>1 DEF Inv, Path, Asked
  <2>2. CASE j = Len(calls) \/ k = Len(calls)
    BY <1>2, <1>3, <1>5, <1>6, <2>2
  <2> QED
    BY <1>2, <2>1, <2>2
<1> QED
  BY <1>1, <1>2, <1>3, <1>4, <1>5, <1>6

LEMMA TakeFreeInv ==
    ASSUME Inv, TakeFree
    PROVE  Inv'
<1> DEFINE n == Len(calls)
<1>1. Visit /\ pc' = "found" /\ Filling' /\ slotOfPrincipal[Principal] = NoSlot
  BY DEF TakeFree, Filling
<1>2. UNCHANGED <<requirements, principals, rejecters, todo, slotOfPrincipal, calls, Slots, Principal>>
  BY SameGate DEF TakeFree, Principal, Call
<1>3. visited' = visited \cup {Principal}
  BY <1>1 DEF Visit
<1>4. TypeOK'
  BY <1>1, <1>2, <1>3, VisitFacts DEF Inv, TypeOK
<1>5. Done' = Done
  BY <1>1, <1>2, VisitFacts DEF Done
<1>6. \A u : ~Moving(u) /\ (Moving(u)' <=> u = Principal)
  BY <1>1, <1>2, VisitFacts DEF Moving
<1>7. Matched'
  <2>1. NoSlot \notin Slots
    BY SlotsArePairs DEF Inv, TypeOK
  <2>2. \A s \in Done : \E u \in Users : slotOfPrincipal[u] = s /\ u # Principal
    BY <1>1, <2>1, VisitFacts DEF Inv, Matched, Done
  <2> QED
    BY <1>1, <1>2, <1>5, <1>6, <2>2, VisitFacts DEF Inv, Matched, Covers, RoleOfSlot
<1>8. Path'
  <2>1. ASSUME NEW k \in 1..n
        PROVE  /\ calls[k].at <= Len(principals)
               /\ Covers(At(k), calls[k].slot)
               /\ k < n => slotOfPrincipal[At(k)] = calls[k + 1].slot
    <3>1. CASE k < n
      BY <1>1, <3>1, VisitFacts DEF Inv, Path, Asked
    <3>2. CASE k = n
      BY <1>1, <3>2, VisitFacts
    <3> QED
      BY <1>1, <3>1, <3>2, VisitFacts
  <2>2. n > 0 /\ calls[1].slot \notin todo
    BY <1>1, VisitFacts DEF Inv, Path
  <2>3. \A j, k \in 1..n : At(j) = At(k) => j = k
    BY <1>1, VisitFacts
  <2> QED
    BY <1>2, <2>1, <2>2, <2>3 DEF Path, At, Covers, RoleOfSlot
<1> QED
  BY <1>1, <1>2, <1>4, <1>7, <1>8, VisitFacts DEF Inv, Tried, Decided

LEMMA TryHolderInv ==
    ASSUME Inv, TryHolder
    PROVE  Inv'
<1> DEFINE n == Len(calls)
           t == slotOfPrincipal[Principal]
<1>1. Visit /\ pc = "search" /\ pc' = "search" /\ Filling' /\ t # NoSlot
  BY DEF TryHolder, Visit, Filling
<1>2. UNCHANGED <<requirements, principals, rejecters, todo, slotOfPrincipal, Slots, Calls>>
  BY SameGate DEF TryHolder
<1>3. visited' = visited \cup {Principal}
  BY <1>1 DEF Visit
<1>4. t \in Slots /\ Enter(t) \in Calls /\ Enter(t).slot = t /\ Enter(t).at = 1
  BY <1>1, VisitFacts DEF Inv, TypeOK, Enter, Calls
<1>5. /\ n \in Nat \ {0} /\ Len(principals) \in Nat /\ calls \in Seq(Calls)
      /\ Principal = At(n)
  BY <1>1, VisitFacts
<1>6. /\ calls' \in Seq(Calls) /\ Len(calls') = n + 1
      /\ \A k \in 1..n : calls'[k] = calls[k]
      /\ calls'[n + 1].slot = t /\ calls'[n + 1].at = 1
  BY <1>4, <1>5 DEF TryHolder
<1>7. \A k \in 1..n : At(k)' = At(k)
  BY <1>2, <1>6 DEF At
<1> HIDE DEF n, t
<1>8. TypeOK'
  BY <1>1, <1>2, <1>3, <1>6, VisitFacts DEF Inv, TypeOK, Calls
<1>9. Done' = Done /\ \A u : ~Moving(u)' /\ ~Moving(u)
  BY <1>1, <1>2, <1>5, <1>6, VisitFacts DEF Done, Moving
<1>10. Matched'
  BY <1>1, <1>2, <1>9 DEF Inv, Matched, Covers, RoleOfSlot
<1>11. Path'
  <2>1. ASSUME NEW k \in 1..(n + 1), Asked(k)'
        PROVE  k \in 1..n /\ At(k)' = At(k)
    BY <1>1, <1>5, <1>6, <1>7, <2>1 DEF Asked
  <2>2. ASSUME NEW k \in 1..n
        PROVE  /\ calls'[k].at <= Len(principals)
               /\ Covers(At(k), calls'[k].slot)
               /\ slotOfPrincipal[At(k)] = calls'[k + 1].slot
    <3>1. CASE k < n
      <4>1. k + 1 \in 1..n
        BY <1>5, <3>1
      <4> QED
        BY <1>1, <1>6, <3>1, <4>1, VisitFacts DEF Inv, Path, Asked, n
    <3>2. CASE k = n
      BY <1>1, <1>5, <1>6, <3>2, VisitFacts DEF n, t
    <3> QED
      BY <1>5, <3>1, <3>2
  <2>3. calls'[1].slot \notin todo /\ n + 1 > 0
    BY <1>1, <1>5, <1>6, VisitFacts DEF Inv, Path, n
  <2>4. \A j, k \in 1..n : At(j) = At(k) => j = k
    BY <1>1, VisitFacts DEF n
  <2>5. \A j, k \in 1..(n + 1) : (Asked(j) /\ Asked(k) /\ At(j) = At(k))' => j = k
    BY <2>1, <2>4
  <2> QED
    BY <1>2, <1>6, <2>1, <2>2, <2>3, <2>5 DEF Path, Covers, RoleOfSlot
<1>12. Tried'
  <2>1. ASSUME NEW k \in 1..(n + 1)
        PROVE  /\ k < n + 1 => At(k)' \in visited'
               /\ calls'[k].at <= Len(principals) + 1
               /\ \A i \in 1..Len(principals) :
                      i < calls'[k].at /\ Covers(principals[i], calls'[k].slot)
                          => principals[i] \in visited'
    <3>1. CASE k \in 1..n
      <4>1. At(k) \in visited'
        BY <1>1, <1>3, <1>5, <3>1, VisitFacts DEF n
      <4> QED
        BY <1>1, <1>3, <1>6, <1>7, <3>1, <4>1 DEF Inv, Tried, n
    <3>2. CASE k = n + 1
      BY <1>5, <1>6, <3>2
    <3> QED
      BY <1>5, <3>1, <3>2
  <2>2. ASSUME NEW u \in visited'
        PROVE  /\ u \in Range(principals)
               /\ slotOfPrincipal[u] # NoSlot
               /\ \/ \E k \in 2..(n + 1) : calls'[k].slot = slotOfPrincipal[u]
                  \/ \A v \in Range(principals) : Covers(v, slotOfPrincipal[u]) => v \in visited'
    <3>1. CASE u = Principal
      BY <1>1, <1>5, <1>6, <3>1, VisitFacts DEF t
    <3>2. CASE u \in visited
      BY <1>1, <1>3, <1>5, <1>6, <3>2 DEF Inv, Tried, Explored, n
    <3> QED
      BY <1>3, <3>1, <3>2
  <2> QED
    BY <1>2, <1>6, <2>1, <2>2 DEF Tried, Explored, Covers, RoleOfSlot
<1> QED
  BY <1>1, <1>2, <1>8, <1>10, <1>11, <1>12 DEF Inv, Decided

LEMMA ExhaustedInv ==
    ASSUME Inv, Exhausted
    PROVE  Inv'
<1> DEFINE n == Len(calls)
<1>1. pc = "search" /\ Filling
  BY DEF Exhausted, Filling
<1>2. UNCHANGED <<requirements, principals, rejecters, todo, slotOfPrincipal, visited, Slots, Required, Calls>>
  BY SameGate DEF Exhausted
<1>3. /\ n \in Nat \ {0} /\ Len(principals) \in Nat /\ calls \in Seq(Calls)
      /\ \A k \in 1..n : calls[k].slot \in Slots /\ calls[k].at \in Nat \ {0}
      /\ calls[n].at > Len(principals)
  BY <1>1, Stack DEF Inv, Exhausted
<1>4. CASE n = 1
  <2>1. pc' = "pending" /\ calls' = <<>>
    BY <1>4 DEF Exhausted
  <2>2. ~Filled(Required, Range(principals))
    BY <1>1, <1>3, <1>4, PendingIsRight DEF Inv
  <2>3. TypeOK'
    BY <1>2, <2>1 DEF Inv, TypeOK
  <2> QED
    BY <1>1, <1>2, <2>1, <2>2, <2>3 DEF Inv, Path, Tried, Decided, Filling
<1>5. CASE n > 1
  <2>1. pc' = "search" /\ Filling' /\ calls' = Onwards(Front(calls))
    <3>1. Len(calls) # 1
      BY <1>3, <1>5
    <3> QED
      BY <1>1, <3>1 DEF Exhausted, Filling
  <2>2. /\ Front(calls) \in Seq(Calls) /\ Len(Front(calls)) = n - 1
        /\ \A k \in 1..(n - 1) : Front(calls)[k] = calls[k]
    BY <1>3, FrontOf
  <2> HIDE DEF n
  <2>3. /\ calls' \in Seq(Calls) /\ Len(calls') = n - 1
        /\ \A k \in 1..(n - 1) : calls'[k].slot = calls[k].slot
        /\ \A k \in 1..(n - 2) : calls'[k] = calls[k]
        /\ calls'[n - 1].at = calls[n - 1].at + 1
    <3>1. Len(Front(calls)) > 0
      BY <1>3, <1>5, <2>2
    <3>2. /\ Onwards(Front(calls)) \in Seq(Calls)
          /\ Len(Onwards(Front(calls))) = Len(Front(calls))
          /\ \A k \in 1..Len(Front(calls)) : Onwards(Front(calls))[k].slot = Front(calls)[k].slot
          /\ \A k \in 1..(Len(Front(calls)) - 1) : Onwards(Front(calls))[k] = Front(calls)[k]
          /\ Onwards(Front(calls))[Len(Front(calls))].at = Front(calls)[Len(Front(calls))].at + 1
      BY <2>2, <3>1, OnwardsOf
    <3> QED
      BY <1>3, <1>5, <2>1, <2>2, <3>2
  <2>4. TypeOK'
    BY <1>1, <1>2, <2>1, <2>3 DEF Inv, TypeOK, Calls
  <2>5. Done' = Done /\ \A u : ~Moving(u)' /\ ~Moving(u)
    BY <1>1, <1>2, <1>3, <1>5, <2>1, <2>3 DEF Done, Moving
  <2>6. Matched'
    BY <1>1, <1>2, <2>5 DEF Inv, Matched, Covers, RoleOfSlot
  <2>7. \A k \in 1..(n - 2) : At(k)' = At(k)
    BY <1>2, <2>3 DEF At
  <2>8. Path'
    <3>1. ASSUME NEW k \in 1..(n - 1), Asked(k)'
          PROVE  k \in 1..(n - 2) /\ Asked(k) /\ At(k)' = At(k)
      <4>1. k \in 1..(n - 2)
        BY <1>3, <2>1, <2>3, <3>1 DEF Asked
      <4> QED
        BY <1>3, <2>7, <4>1 DEF Asked, n
    <3>2. ASSUME NEW k \in 1..(n - 2)
          PROVE  /\ calls'[k].at <= Len(principals)
                 /\ Covers(At(k), calls'[k].slot)
                 /\ slotOfPrincipal[At(k)] = calls'[k + 1].slot
      <4>1. k \in 1..n /\ k + 1 \in 1..(n - 1) /\ k \in 1..(n - 1) /\ k < n /\ Asked(k)
        BY <1>3 DEF Asked, n
      <4> QED
        BY <1>1, <1>3, <2>3, <4>1 DEF Inv, Path, n
    <3>3. calls'[1].slot \notin todo /\ n - 1 > 0
      BY <1>1, <1>3, <1>5, <2>3 DEF Inv, Path
    <3>4. \A j, k \in 1..n : Asked(j) /\ Asked(k) /\ At(j) = At(k) => j = k
      BY <1>1 DEF Inv, Path, n
    <3>5. \A j, k \in 1..(n - 1) : (Asked(j) /\ Asked(k) /\ At(j) = At(k))' => j = k
      BY <1>3, <3>1, <3>4
    <3> QED
      BY <1>2, <2>3, <3>1, <3>2, <3>3, <3>5 DEF Path, Covers, RoleOfSlot
  <2>9. Tried'
    <3>1. ASSUME NEW k \in 1..(n - 1)
          PROVE  /\ k < n - 1 => At(k)' \in visited
                 /\ calls'[k].at <= Len(principals) + 1
                 /\ \A i \in 1..Len(principals) :
                        i < calls'[k].at /\ Covers(principals[i], calls[k].slot)
                            => principals[i] \in visited
      <4>1. k \in 1..n /\ k < n
        BY <1>3
      <4>2. /\ At(k) \in visited
            /\ calls[k].at <= Len(principals)
            /\ \A i \in 1..Len(principals) :
                   i < calls[k].at /\ Covers(principals[i], calls[k].slot)
                       => principals[i] \in visited
        BY <1>1, <4>1 DEF Inv, Tried, Path, Asked, n
      <4>3. CASE k < n - 1
        <5>1. k \in 1..(n - 2)
          BY <1>3, <4>3
        <5>2. calls'[k] = calls[k] /\ At(k)' = At(k)
          BY <2>3, <2>7, <5>1
        <5>3. calls[k].at <= Len(principals) + 1
          BY <1>3, <4>1, <4>2
        <5> QED
          BY <4>2, <5>2, <5>3
      <4>4. CASE k = n - 1
        <5>1. \A i \in 1..Len(principals) : i < calls'[k].at =>
                  i < calls[k].at \/ principals[i] = At(k)
          BY <1>3, <2>3, <4>1, <4>4 DEF At
        <5> QED
          BY <1>3, <2>3, <4>1, <4>2, <4>4, <5>1
      <4> QED
        BY <1>3, <4>3, <4>4
    <3>2. Explored(calls[n].slot)
      <4>1. ASSUME NEW u \in Range(principals), Covers(u, calls[n].slot) PROVE u \in visited
        <5>1. PICK i \in 1..Len(principals) : principals[i] = u
          BY PrincipalsFinite DEF Inv
        <5>2. i < calls[n].at /\ n \in 1..n
          BY <1>3
        <5> QED
          BY <1>1, <4>1, <5>1, <5>2 DEF Inv, Tried, n
      <4> QED
        BY <4>1 DEF Explored
    <3>3. ASSUME NEW u \in visited
          PROVE  /\ u \in Range(principals)
                 /\ slotOfPrincipal[u] # NoSlot
                 /\ \/ \E k \in 2..(n - 1) : calls'[k].slot = slotOfPrincipal[u]
                    \/ Explored(slotOfPrincipal[u])
      <4>1. /\ u \in Range(principals)
            /\ slotOfPrincipal[u] # NoSlot
            /\ \/ \E k \in 2..n : calls[k].slot = slotOfPrincipal[u]
               \/ Explored(slotOfPrincipal[u])
        BY <1>1 DEF Inv, Tried, n
      <4>2. CASE Explored(slotOfPrincipal[u])
        BY <4>1, <4>2
      <4>3. ASSUME NEW k \in 2..n, calls[k].slot = slotOfPrincipal[u]
            PROVE  \/ \E j \in 2..(n - 1) : calls'[j].slot = slotOfPrincipal[u]
                   \/ Explored(slotOfPrincipal[u])
        <5>1. CASE k = n
          BY <3>2, <4>3, <5>1
        <5>2. CASE k < n
          <6>1. k \in 2..(n - 1) /\ k \in 1..(n - 1)
            BY <1>3, <5>2
          <6>2. calls'[k].slot = slotOfPrincipal[u]
            BY <2>3, <4>3, <6>1
          <6> QED
            BY <6>1, <6>2
        <5> QED
          BY <1>3, <5>1, <5>2
      <4> QED
        BY <4>1, <4>2, <4>3
    <3> QED
      BY <1>2, <2>3, <3>1, <3>3 DEF Tried, Explored, Covers, RoleOfSlot
  <2> QED
    BY <1>1, <1>2, <2>1, <2>4, <2>6, <2>8, <2>9 DEF Inv, Decided
<1>6. n \in Nat \ {0}
  BY <1>3
<1> HIDE DEF n
<1>7. n = 1 \/ n > 1
  BY <1>6
<1> QED
  BY <1>4, <1>5, <1>7

LEMMA RehomeInv ==
    ASSUME Inv, Rehome
    PROVE  Inv'
<1> DEFINE n == Len(calls)
           p == At(n)
           t == calls[n].slot
<1>1. pc = "found" /\ Filling
  BY DEF Rehome, Filling
<1>2. UNCHANGED <<requirements, principals, rejecters, todo, visited, Slots, Calls>>
  BY SameGate DEF Rehome
<1>3. /\ n \in Nat \ {0} /\ Len(principals) \in Nat /\ calls \in Seq(Calls)
      /\ Call = calls[n] /\ Principal = p
      /\ t \in Slots
  BY <1>1, Stack DEF Inv
<1>4. /\ \A k \in 1..n : /\ Covers(At(k), calls[k].slot)
                         /\ At(k) \in Range(principals) /\ At(k) \in Users
                         /\ k < n => slotOfPrincipal[At(k)] = calls[k + 1].slot
      /\ \A j, k \in 1..n : At(j) = At(k) => j = k
      /\ \A k \in 1..n : calls[k].slot \in Slots /\ calls[k].at <= Len(principals)
      /\ calls[1].slot \notin todo
  BY <1>1, Stack DEF Inv, Path, Asked
<1>5. slotOfPrincipal' = [slotOfPrincipal EXCEPT ![p] = t] /\ calls' = Front(calls)
  BY <1>3 DEF Rehome
<1>6. p \in Users /\ p \in Range(principals) /\ Covers(p, t)
  BY <1>3, <1>4
<1>7. /\ calls' \in Seq(Calls) /\ Len(calls') = n - 1
      /\ \A k \in 1..(n - 1) : calls'[k] = calls[k]
  BY <1>3, <1>5, FrontOf
<1>8. \A u : Moving(u) <=> u = p
  BY <1>1, <1>3 DEF Moving
<1>9. \A u \in Users : slotOfPrincipal'[u] = IF u = p THEN t ELSE slotOfPrincipal[u]
  BY <1>5, <1>6 DEF Inv, TypeOK
<1>10. slotOfPrincipal' \in [Users -> Slots \cup {NoSlot}]
  BY <1>3, <1>5 DEF Inv, TypeOK
<1>11. NoSlot \notin Slots
  BY SlotsArePairs DEF Inv, TypeOK
<1>12. n = 1 => pc' = "every"
  BY DEF Rehome
<1>13. n # 1 => pc' = "found"
  BY <1>1 DEF Rehome
<1>14. /\ \A u \in Users : slotOfPrincipal[u] # NoSlot /\ u # p =>
              u \in Range(principals) /\ slotOfPrincipal[u] \in Done /\ Covers(u, slotOfPrincipal[u])
       /\ \A u, v \in Users : /\ slotOfPrincipal[u] = slotOfPrincipal[v]
                              /\ slotOfPrincipal[u] # NoSlot /\ u # p /\ v # p
                              => u = v
       /\ \A s \in Done : \E u \in Users : slotOfPrincipal[u] = s /\ u # p
  BY <1>1, <1>8 DEF Inv, Matched
<1> HIDE DEF n, p, t
<1>15. TypeOK'
  BY <1>1, <1>2, <1>7, <1>10, <1>12, <1>13 DEF Inv, TypeOK, Calls
<1>16. CASE n = 1
  <2>1. Done' = Done \cup {t} /\ t \notin Done
    BY <1>1, <1>2, <1>3, <1>4, <1>12, <1>16 DEF Done, Filling, t
  <2>2. \A u : ~Moving(u)'
    BY <1>12, <1>16 DEF Moving
  <2>3. \A u \in Users : slotOfPrincipal'[u] # NoSlot =>
            /\ u \in Range(principals) /\ slotOfPrincipal'[u] \in Done'
            /\ Covers(u, slotOfPrincipal'[u])
    BY <1>6, <1>9, <1>14, <2>1
  <2>4. \A u, v \in Users : slotOfPrincipal'[u] = slotOfPrincipal'[v]
                                /\ slotOfPrincipal'[u] # NoSlot => u = v
    BY <1>3, <1>9, <1>11, <1>14, <2>1
  <2>5. \A s \in Done' : \E u \in Users : slotOfPrincipal'[u] = s
    BY <1>6, <1>9, <1>14, <2>1
  <2>6. Matched'
    BY <1>2, <2>2, <2>3, <2>4, <2>5 DEF Matched, Covers, RoleOfSlot
  <2> QED
    BY <1>1, <1>2, <1>12, <1>15, <1>16, <2>6 DEF Inv, Path, Tried, Decided, Filling
<1>17. CASE n > 1
  <2> DEFINE q == At(n - 1)
  <2>1. n - 1 \in 1..n /\ n - 1 \in 1..(n - 1) /\ n - 1 < n /\ (n - 1) + 1 = n /\ n \in 1..n
        /\ n # 1 /\ 1 \in 1..(n - 1) /\ 1 \in 1..n
    BY <1>3, <1>17
  <2>2. q \in Users /\ q # p /\ slotOfPrincipal[q] = t /\ pc' = "found"
    BY <1>4, <1>13, <2>1 DEF p, t
  <2>3. Done' = Done
    BY <1>1, <1>2, <1>7, <2>1, <2>2 DEF Done, Filling
  <2>4. Principal' = q
    BY <1>2, <1>7, <2>1 DEF Principal, Call, Last, At
  <2>5. \A u : Moving(u)' <=> u = q
    BY <2>2, <2>4 DEF Moving
  <2> HIDE DEF q
  <2>6. \A u \in Users : slotOfPrincipal'[u] # NoSlot /\ u # q =>
            /\ u \in Range(principals) /\ slotOfPrincipal'[u] \in Done
            /\ Covers(u, slotOfPrincipal'[u])
    BY <1>3, <1>6, <1>9, <1>11, <1>14, <2>2
  <2>7. \A u, v \in Users : /\ slotOfPrincipal'[u] = slotOfPrincipal'[v]
                            /\ slotOfPrincipal'[u] # NoSlot /\ u # q /\ v # q
                            => u = v
    BY <1>3, <1>9, <1>11, <1>14, <2>2
  <2>8. \A s \in Done : \E u \in Users : slotOfPrincipal'[u] = s /\ u # q
    BY <1>6, <1>9, <1>14, <2>2
  <2>9. Matched'
    BY <1>2, <2>3, <2>5, <2>6, <2>7, <2>8 DEF Matched, Covers, RoleOfSlot
  <2>10. \A k \in 1..(n - 1) : At(k)' = At(k)
    BY <1>2, <1>7 DEF At
  <2>11. Path'
    <3>1. ASSUME NEW k \in 1..(n - 1)
          PROVE  /\ calls'[k].at <= Len(principals)
                 /\ Covers(At(k), calls'[k].slot)
                 /\ k < n - 1 => slotOfPrincipal'[At(k)] = calls'[k + 1].slot
      <4>1. k \in 1..n /\ k < n /\ calls'[k] = calls[k]
        BY <1>3, <1>7
      <4>2. At(k) # p /\ At(k) \in Users
        BY <1>3, <1>4, <2>1, <4>1 DEF p
      <4>3. ASSUME k < n - 1 PROVE calls'[k + 1] = calls[k + 1]
        BY <1>3, <1>7, <4>3
      <4>4. slotOfPrincipal'[At(k)] = calls[k + 1].slot
        BY <1>4, <1>9, <4>1, <4>2
      <4> QED
        BY <1>4, <4>1, <4>3, <4>4
    <3>2. n - 1 > 0 /\ calls'[1].slot \notin todo
      BY <1>3, <1>4, <1>7, <1>17, <2>1
    <3>3. \A j, k \in 1..(n - 1) : (At(j) = At(k))' => j = k
      BY <1>3, <1>4, <2>10
    <3> QED
      BY <1>2, <1>7, <2>10, <3>1, <3>2, <3>3 DEF Path, Covers, RoleOfSlot
  <2> QED
    BY <1>1, <1>2, <1>15, <2>2, <2>9, <2>11 DEF Inv, Tried, Decided
<1>18. n = 1 \/ n > 1
  BY <1>3
<1> QED
  BY <1>16, <1>17, <1>18

-----------------------------------------------------------------------------
(* The theorems                                                            *)

\* The invariant holds at every point of every evaluation.
LEMMA Safety == Spec => []Inv
<1>1. Init => Inv
  BY InitInv
<1>2. Inv /\ [Next]_vars => Inv'
  <2> SUFFICES ASSUME Inv, [Next]_vars PROVE Inv'
    OBVIOUS
  <2>1. CASE Next
    BY <2>1, StartInv, FillNextInv, AllFilledInv, SkipInv, TakeFreeInv, TryHolderInv,
       ExhaustedInv, RehomeInv DEF Next
  <2>2. CASE UNCHANGED vars
    <3>1. UNCHANGED <<votes, pc, todo, slotOfPrincipal, visited, calls>>
      BY <2>2 DEF vars
    <3>2. UNCHANGED <<Slots, Required, requirements, principals, rejecters>>
      BY <3>1, SameGate
    <3>3. TypeOK' /\ Decided'
      BY <3>1, <3>2 DEF Inv, TypeOK, Decided
    <3>4. UNCHANGED <<Done, Filling, Principal>>
      BY <3>1, <3>2 DEF Done, Filling, Principal, Call
    <3>5. (pc \notin Outcomes => Matched)'
      BY <3>1, <3>2, <3>4 DEF Inv, Matched, Moving, Covers, RoleOfSlot
    <3>6. Path'
      BY <3>1, <3>2, <3>4 DEF Inv, Path, Asked, At, Covers, RoleOfSlot
    <3>7. Tried'
      BY <3>1, <3>2 DEF Inv, Tried, At, Explored, Covers, RoleOfSlot
    <3> QED
      BY <3>3, <3>5, <3>6, <3>7 DEF Inv
  <2> QED
    BY <2>1, <2>2
<1> QED
  BY <1>1, <1>2, PTL DEF Spec

\* Every variable of the search keeps its type: the matching names only slots of
\* the list, and a call on the stack is for a slot there is.
THEOREM TypeSafety == Spec => []TypeOK
<1>1. Inv => TypeOK
  BY DEF Inv
<1> QED
  BY <1>1, Safety, PTL

\* evaluateGate finds a quorum exactly when there is one: for every list, every
\* order of the votes and every distribution of roles, the search with re-homing
\* agrees with the existence of an assignment of distinct principals.
THEOREM EvaluatorIsRight == Spec => []MeetsContract
<1>1. Inv => MeetsContract
  BY DEF Inv, Decided, MeetsContract, Outcome
<1> QED
  BY <1>1, Safety, PTL

-----------------------------------------------------------------------------
(* Why the search ends                                                     *)

Phase == IF pc = "start" THEN 2 ELSE IF pc \in Outcomes THEN 0 ELSE 1
Stage == IF pc = "search" THEN 2 ELSE IF pc = "found" THEN 1 ELSE 0
Untried == Range(principals) \ visited
Ahead == Len(principals) + 1 - Call.at

\* What a step uses up, the most lasting first: the phases of the evaluation, the slots
\* to come, the stages of filling one, the principals not yet visited, the calls and
\* the principals ahead of the call in progress.
Descends ==
    \/ Phase' < Phase
    \/ /\ Phase' = Phase
       /\ \/ todo' \subseteq todo /\ todo' # todo
          \/ /\ todo' = todo
             /\ \/ Stage' < Stage
                \/ /\ Stage' = Stage
                   /\ \/ Untried' \subseteq Untried /\ Untried' # Untried
                      \/ /\ Untried' = Untried
                         /\ \/ Len(calls') < Len(calls)
                            \/ Len(calls') = Len(calls) /\ Ahead' < Ahead /\ Ahead' \in Nat

\* Every step of the search.
LEMMA StepDescends ==
    ASSUME Inv, Next
    PROVE  Descends
<1>1. CASE Start \/ AllFilled
  BY <1>1 DEF Start, AllFilled, Descends, Phase
<1>2. ASSUME NEW s \in todo, FillNext(s) PROVE Descends
  BY <1>2 DEF FillNext, Descends, Phase
<1>3. CASE Skip
  <2>1. pc = "search" /\ pc' = "search" /\ Filling /\ Filling' /\ Call.at <= Len(principals)
        /\ calls' = Onwards(calls) /\ UNCHANGED <<votes, todo, visited>>
    BY <1>3 DEF Skip, Filling
  <2>2. /\ Len(calls) \in Nat \ {0} /\ Len(principals) \in Nat /\ calls \in Seq(Calls)
        /\ \A k \in 1..Len(calls) : calls[k].at \in Nat \ {0}
        /\ Call = calls[Len(calls)]
    BY <2>1, Stack DEF Inv
  <2>3. Len(calls') = Len(calls) /\ calls'[Len(calls)].at = calls[Len(calls)].at + 1
    BY <2>1, <2>2, OnwardsOf
  <2>4. principals' = principals
    BY <2>1, SameGate
  <2>5. Ahead' = Len(principals) + 1 - (Call.at + 1) /\ Call.at \in Nat
    BY <2>2, <2>3, <2>4 DEF Ahead, Call, Last
  <2>6. Ahead' < Ahead /\ Ahead' \in Nat
    BY <2>1, <2>2, <2>5 DEF Ahead
  <2>7. Untried' = Untried /\ Phase' = Phase /\ Stage' = Stage
    BY <2>1, <2>4 DEF Untried, Phase, Stage
  <2> QED
    BY <2>1, <2>3, <2>6, <2>7 DEF Descends
<1>4. CASE TakeFree
  BY <1>4 DEF TakeFree, Visit, Descends, Phase, Stage
<1>5. CASE TryHolder
  <2>1. Visit /\ pc = "search" /\ pc' = "search" /\ todo' = todo /\ UNCHANGED votes
        /\ visited' = visited \cup {Principal}
    BY <1>5 DEF TryHolder, Visit
  <2>2. Principal \in Range(principals) /\ Principal \notin visited
    BY <2>1, VisitFacts
  <2>3. principals' = principals
    BY <2>1, SameGate
  <2>4. Untried' = Untried \ {Principal} /\ Principal \in Untried
    BY <2>1, <2>2, <2>3 DEF Untried
  <2>5. Phase' = Phase /\ Stage' = Stage
    BY <2>1 DEF Phase, Stage
  <2> QED
    BY <2>1, <2>4, <2>5 DEF Descends
<1>6. CASE Exhausted
  <2>1. pc = "search" /\ Filling /\ UNCHANGED <<votes, todo, visited>>
        /\ calls' = (IF Len(calls) = 1 THEN <<>> ELSE Onwards(Front(calls)))
        /\ pc' = IF Len(calls) = 1 THEN "pending" ELSE "search"
    BY <1>6 DEF Exhausted, Filling
  <2>2. CASE Len(calls) = 1
    BY <2>1, <2>2 DEF Descends, Phase
  <2>3. CASE Len(calls) # 1
    <3>1. Len(calls) \in Nat \ {0, 1} /\ calls \in Seq(Calls)
      BY <2>1, <2>3, Stack DEF Inv
    <3>2. Front(calls) \in Seq(Calls) /\ Len(Front(calls)) = Len(calls) - 1
      BY <3>1, FrontOf
    <3>3. Len(calls') = Len(calls) - 1
      BY <2>1, <2>3, <3>1, <3>2, OnwardsOf
    <3>4. Untried' = Untried /\ Phase' = Phase /\ Stage' = Stage
      BY <2>1, <2>3, SameGate DEF Untried, Phase, Stage
    <3> QED
      BY <2>1, <3>1, <3>3, <3>4 DEF Descends
  <2> QED
    BY <2>2, <2>3
<1>7. CASE Rehome
  <2>1. pc = "found" /\ Filling /\ UNCHANGED <<votes, todo, visited>> /\ calls' = Front(calls)
        /\ pc' = IF Len(calls) = 1 THEN "every" ELSE "found"
    BY <1>7 DEF Rehome, Filling
  <2>2. Len(calls) \in Nat \ {0} /\ calls \in Seq(Calls)
    BY <2>1, Stack DEF Inv
  <2>3. Len(calls') < Len(calls)
    BY <2>1, <2>2, FrontOf
  <2>4. Untried' = Untried /\ Phase' = Phase
    BY <2>1, SameGate DEF Untried, Phase
  <2> QED
    BY <2>1, <2>3, <2>4 DEF Descends, Stage
<1> QED
  BY <1>1, <1>2, <1>3, <1>4, <1>5, <1>6, <1>7 DEF Next

\* A set of numbers that is not empty has a least one.
LEMMA LeastNumber ==
    ASSUME NEW T \in SUBSET Nat, T # {}
    PROVE  \E m \in T : \A k \in T : m <= k
<1> DEFINE R == OpToRel(<, Nat)
<1>1. \A k, m \in Nat : <<k, m>> \in R <=> k < m
  BY DEF OpToRel
<1>2. IsWellFoundedOn(R, Nat)
  BY NatLessThanWellFounded
<1> HIDE DEF R
<1>3. PICK m \in T : \A k \in T : ~(<<k, m>> \in R)
  BY <1>2, WFMin
<1>4. m \in Nat /\ \A k \in T : k \in Nat /\ ~(k < m)
  BY <1>1, <1>3
<1> QED
  BY <1>4

\* `every` always has a first slot to come to.
LEMMA FirstSlot ==
    ASSUME requirements \in Lists, NEW T \in SUBSET Slots, T # {}
    PROVE  \E s \in T : \A t \in T \ {s} : Before(s, t)
<1> DEFINE Entries == {s[1] : s \in T}
<1>1. \A s \in T : s[1] \in Nat /\ s[2] \in Nat /\ s = <<s[1], s[2]>>
  BY SlotsArePairs, EvaluateAssumption
<1>2. PICK s0 \in T : TRUE
  OBVIOUS
<1>3. Entries \in SUBSET Nat /\ s0[1] \in Entries
  BY <1>1
<1>4. PICK j \in Entries : \A i \in Entries : j <= i
  BY <1>3, LeastNumber
<1> DEFINE Places == {s[2] : s \in {s \in T : s[1] = j}}
<1>5. PICK s1 \in T : s1[1] = j
  BY <1>4
<1>6. Places \in SUBSET Nat /\ s1[2] \in Places
  BY <1>1, <1>5
<1>7. PICK k \in Places : \A i \in Places : k <= i
  BY <1>6, LeastNumber
<1>8. PICK s \in T : s[1] = j /\ s[2] = k
  BY <1>7
<1>9. ASSUME NEW t \in T \ {s} PROVE Before(s, t)
  <2>1. t[1] \in Entries /\ j <= t[1] /\ (t[1] = j => k <= t[2])
    BY <1>4, <1>7
  <2>2. t[1] # s[1] \/ t[2] # s[2]
    BY <1>1
  <2> QED
    BY <1>1, <1>8, <2>1, <2>2 DEF Before
<1> QED
  BY <1>9

\* What the next statement needs is there.
Ready ==
    \/ pc = "start"
    \/ pc = "every" /\ (todo = {} \/ \E s \in todo : \A t \in todo \ {s} : Before(s, t))
    \/ Filling /\ Len(calls) > 0 /\ (Call.at <= Len(principals) \/ pc = "search")

\* The search cannot go round, and stops nowhere but at an outcome: every step uses up
\* something of which there is a finite supply (`todo` and the visited set of
\* canFillSlot), and until the end the next statement has what it needs.
THEOREM SearchEnds ==
    Spec => /\ [][Descends]_vars
            /\ [](IsFiniteSet(todo) /\ IsFiniteSet(Untried))
            /\ [](pc \notin Outcomes => Ready)
<1>1. Inv /\ [Next]_vars => [Descends]_vars
  BY StepDescends
<1>2. Inv => IsFiniteSet(todo) /\ IsFiniteSet(Untried)
  <2> SUFFICES ASSUME Inv PROVE IsFiniteSet(todo) /\ IsFiniteSet(Untried)
    OBVIOUS
  <2>1. IsFiniteSet(todo)
    BY SlotsFinite, FS_Subset DEF Inv, TypeOK
  <2>2. IsFiniteSet(Range(principals)) /\ Untried \subseteq Range(principals)
    BY PrincipalsFinite DEF Inv, Untried
  <2> QED
    BY <2>1, <2>2, FS_Subset
<1>3. Inv => (pc \notin Outcomes => Ready)
  <2> SUFFICES ASSUME Inv, pc \notin Outcomes PROVE Ready
    OBVIOUS
  <2>1. CASE pc \in {"start", "every"}
    BY <2>1, FirstSlot DEF Inv, TypeOK, Ready
  <2>2. CASE Filling
    <3>1. Len(calls) \in Nat \ {0} /\ Call = calls[Len(calls)]
      BY <2>2, Stack DEF Inv
    <3>2. pc = "found" => Call.at <= Len(principals)
      BY <2>2, <3>1 DEF Inv, Path, Asked
    <3> QED
      BY <2>2, <3>1, <3>2 DEF Ready, Filling
  <2> QED
    BY <2>1, <2>2 DEF Inv, TypeOK, Filling
<1> QED
  BY <1>1, <1>2, <1>3, Safety, PTL DEF Spec
=============================================================================
