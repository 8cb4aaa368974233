--------------------------- MODULE OtaChannelProofs ---------------------------
(***************************************************************************)
(* Proofs about OtaChannel, for any releases, republishes, directives,      *)
(* platforms, policies, workers, kills and order of statements.             *)
(***************************************************************************)
EXTENDS OtaChannel, FiniteSetTheorems, SequenceTheorems, WellFoundedInduction, TLAPS

-----------------------------------------------------------------------------
(* The last directive: a finite set of numbers has a greatest element, by   *)
(* well-founded induction over its finite subsets.                          *)

HasGreatest(A) == \E m \in A : \A x \in A : m >= x

\* A set with one more number has a greatest element if the rest is empty or has one.
LEMMA GreatestOfMore ==
    ASSUME NEW A \in SUBSET Nat, NEW a \in A, A \ {a} = {} \/ HasGreatest(A \ {a})
    PROVE  HasGreatest(A)
<1>1. CASE A \ {a} = {}
  BY <1>1 DEF HasGreatest
<1>2. CASE HasGreatest(A \ {a})
  <2>1. PICK m \in A \ {a} : \A x \in A \ {a} : m >= x
    BY <1>2 DEF HasGreatest
  <2>2. CASE m >= a
    BY <2>1, <2>2 DEF HasGreatest
  <2>3. CASE ~(m >= a)
    <3>1. \A x \in A : a >= x
      BY <2>1, <2>3
    <3> QED
      BY <3>1 DEF HasGreatest
  <2> QED
    BY <2>2, <2>3
<1> QED
  BY <1>1, <1>2

LEMMA FiniteHasGreatest ==
    ASSUME NEW S \in SUBSET Nat, IsFiniteSet(S), S # {}
    PROVE  HasGreatest(S)
<1> DEFINE F == FiniteSubsetsOf(S)
           T == {A \in F : A # {} /\ ~HasGreatest(A)}
<1>1. SUFFICES ASSUME T # {} PROVE FALSE
  <2>1. S \in F
    BY DEF FiniteSubsetsOf
  <2> QED
    BY <1>1, <2>1
<1>2. IsWellFoundedOn(StrictSubsetOrdering(S), F)
  BY FS_StrictSubsetOrderingWellFounded
<1>3. PICK A \in T : \A B \in T : ~(<<B, A>> \in StrictSubsetOrdering(S))
  BY <1>1, <1>2, WFMin
<1>4. A \in SUBSET S /\ IsFiniteSet(A) /\ A # {} /\ ~HasGreatest(A)
  BY DEF FiniteSubsetsOf
<1>5. PICK a \in A : TRUE
  BY <1>4
<1>6. A \ {a} = {} \/ HasGreatest(A \ {a})
  <2>1. SUFFICES ASSUME A \ {a} # {}, ~HasGreatest(A \ {a}) PROVE FALSE
    OBVIOUS
  <2>2. IsFiniteSet(A \ {a}) /\ A \ {a} \in SUBSET S
    BY <1>4, FS_Subset
  <2>3. A \ {a} \in T
    BY <2>1, <2>2 DEF FiniteSubsetsOf
  <2>4. <<A \ {a}, A>> \in StrictSubsetOrdering(S)
    BY <1>4, <1>5, <2>2 DEF StrictSubsetOrdering
  <2> QED
    BY <1>3, <2>3, <2>4
<1> QED
  BY <1>4, <1>5, <1>6, GreatestOfMore

\* Max is that element.
LEMMA MaxIn ==
    ASSUME NEW S \in SUBSET Nat, IsFiniteSet(S), S # {}
    PROVE  Max(S) \in S /\ \A x \in S : Max(S) >= x
  BY FiniteHasGreatest DEF HasGreatest, Max

-----------------------------------------------------------------------------
(* Types                                                                   *)

StopKinds == {"complete", "resume"} \cup Stops
Changes == [kind : {"promote"}, u : Releases, bp : 1..Full, on : SUBSET Platforms]
           \cup [kind : {"rollout"}, u : {None}, bp : 1..Full - 1, on : SUBSET Platforms]
           \cup [kind : StopKinds, u : {None}, bp : {0}, on : SUBSET Platforms]

ChangeRows == [ch : Changes, under : Policies, state : RequestStates]
PolicyRows == [to : Policies, under : Policies, at : Nat, state : RequestStates]

ChangePCs == {"plan", "write", "supersede", "request"}
Invalidating == [pc |-> "invalidate"]
ChangeTasks == [pc : ChangePCs, ch : Changes, under : Policies, req : Nat, seen : [Platforms -> Heads]]
PolicyTasks == [pc : PolicyPCs, to : Policies, under : Policies, at : Nat, req : Nat]
Tasks == ChangeTasks \cup PolicyTasks \cup {Idle, Invalidating}

\* A plan that is carried out was a plan of the heads it has read.
PlansMade == \A w \in Workers : At(w, "write") => CanPlan(task[w].ch, task[w].seen)

Types ==
    /\ status \in [Releases -> ReleaseStates]
    /\ head \in [Platforms -> Heads]
    /\ policy \in Policies /\ stamp \in Nat
    /\ changeReq \in Seq(ChangeRows)
    /\ policyReq \in Seq(PolicyRows)
    /\ cache \in Heads \cup {None} /\ check \in Heads \cup {None}
    /\ device \in Updates \cup {None}
    /\ stale \in BOOLEAN /\ skew \in BOOLEAN /\ unswept \in BOOLEAN
    /\ task \in [Workers -> Tasks]
    /\ PlansMade

\* Which task a worker has, by the statement it is at.
LEMMA TaskKinds ==
    ASSUME NEW t \in Tasks
    PROVE  /\ t.pc \in ChangePCs => t \in ChangeTasks
           /\ t.pc \in PolicyPCs => t \in PolicyTasks
           /\ t.pc = "idle" => t = Idle
           /\ t.pc = "invalidate" => t = Invalidating
           /\ t.pc \in PCs
  BY DEF Tasks, ChangeTasks, PolicyTasks, Idle, Invalidating, ChangePCs, PolicyPCs, PCs

\* Which change it is, by its kind.
LEMMA ChangeKinds ==
    ASSUME NEW ch \in Changes
    PROVE  /\ ch.kind \in Forward \cup Stops
           /\ ch.on \subseteq Platforms
           /\ ch.bp \in 0..Full
           /\ ch.kind = "promote" => ch.u \in Releases /\ ch.bp \in 1..Full
           /\ ch.kind = "rollout" => ch.bp \in 1..Full - 1
  BY OtaAssumption DEF Changes, StopKinds, Forward, Stops

\* None is no head.
LEMMA HeadNotNone ==
    NoHead \in Heads
  BY OtaAssumption DEF NoHead, Heads

-----------------------------------------------------------------------------
(* What a plan makes of a head                                             *)

LEMMA HeadFields ==
    ASSUME NEW s \in Heads
    PROVE  /\ s.active \in Updates \cup {None} /\ s.previous \in Updates \cup {None}
           /\ s.candidate \in Updates \cup {None} /\ s.bp \in 0..Full - 1
           /\ Bad(s) \in Updates \cup {None}
           /\ BackTo(s) \in Updates \cup {None}
  BY DEF Heads, Bad, BackTo

\* One field of a head is written.
LEMMA SetActive ==
    ASSUME NEW h \in Heads, NEW x \in Updates \cup {None}
    PROVE  /\ [h EXCEPT !.active = x] \in Heads
           /\ [h EXCEPT !.active = x].active = x /\ [h EXCEPT !.active = x].previous = h.previous
           /\ [h EXCEPT !.active = x].candidate = h.candidate /\ [h EXCEPT !.active = x].bp = h.bp
  BY DEF Heads

LEMMA SetPrevious ==
    ASSUME NEW h \in Heads, NEW x \in Updates \cup {None}
    PROVE  /\ [h EXCEPT !.previous = x] \in Heads
           /\ [h EXCEPT !.previous = x].active = h.active /\ [h EXCEPT !.previous = x].previous = x
           /\ [h EXCEPT !.previous = x].candidate = h.candidate /\ [h EXCEPT !.previous = x].bp = h.bp
  BY DEF Heads

LEMMA SetCandidate ==
    ASSUME NEW h \in Heads, NEW x \in Updates \cup {None}
    PROVE  /\ [h EXCEPT !.candidate = x] \in Heads
           /\ [h EXCEPT !.candidate = x].active = h.active /\ [h EXCEPT !.candidate = x].previous = h.previous
           /\ [h EXCEPT !.candidate = x].candidate = x /\ [h EXCEPT !.candidate = x].bp = h.bp
  BY DEF Heads

LEMMA SetShare ==
    ASSUME NEW h \in Heads, NEW x \in 0..Full - 1
    PROVE  /\ [h EXCEPT !.bp = x] \in Heads
           /\ [h EXCEPT !.bp = x].active = h.active /\ [h EXCEPT !.bp = x].previous = h.previous
           /\ [h EXCEPT !.bp = x].candidate = h.candidate /\ [h EXCEPT !.bp = x].bp = x
  BY DEF Heads

LEMMA SetPaused ==
    ASSUME NEW h \in Heads, NEW x \in BOOLEAN
    PROVE  /\ [h EXCEPT !.paused = x] \in Heads
           /\ [h EXCEPT !.paused = x].active = h.active /\ [h EXCEPT !.paused = x].previous = h.previous
           /\ [h EXCEPT !.paused = x].candidate = h.candidate /\ [h EXCEPT !.paused = x].bp = h.bp
  BY DEF Heads

LEMMA SetDirective ==
    ASSUME NEW h \in Heads, NEW x \in Nat
    PROVE  /\ [h EXCEPT !.directive = x] \in Heads
           /\ [h EXCEPT !.directive = x].active = h.active /\ [h EXCEPT !.directive = x].previous = h.previous
           /\ [h EXCEPT !.directive = x].candidate = h.candidate /\ [h EXCEPT !.directive = x].bp = h.bp
  BY DEF Heads

\* What is promoted becomes active, and the rollout ends.
LEMMA PromotedHead ==
    ASSUME NEW u \in Updates, NEW s \in Heads, NEW h \in Heads
    PROVE  /\ Promoted(u, s, h) \in Heads
           /\ Promoted(u, s, h).active = u /\ Promoted(u, s, h).previous = s.active
           /\ Promoted(u, s, h).candidate = None
<1> DEFINE g1 == [h EXCEPT !.active = u]
           g2 == [g1 EXCEPT !.previous = s.active]
           g3 == [g2 EXCEPT !.candidate = None]
           g4 == [g3 EXCEPT !.bp = 0]
           g5 == [g4 EXCEPT !.paused = FALSE]
           g6 == [g5 EXCEPT !.directive = 0]
<1>0. 0 \in 0..Full - 1 /\ None \in Updates \cup {None} /\ FALSE \in BOOLEAN /\ 0 \in Nat
  BY OtaAssumption
<1>1. g1 \in Heads /\ g1.active = u /\ g1.previous = h.previous /\ g1.candidate = h.candidate /\ g1.bp = h.bp
  BY <1>0, HeadFields, SetActive
<1> HIDE DEF g1
<1>2. g2 \in Heads /\ g2.active = u /\ g2.previous = s.active /\ g2.candidate = h.candidate /\ g2.bp = h.bp
  BY <1>1, <1>0, HeadFields, SetPrevious
<1> HIDE DEF g2
<1>3. g3 \in Heads /\ g3.active = u /\ g3.previous = s.active /\ g3.candidate = None /\ g3.bp = h.bp
  BY <1>2, <1>0, HeadFields, SetCandidate
<1> HIDE DEF g3
<1>4. g4 \in Heads /\ g4.active = u /\ g4.previous = s.active /\ g4.candidate = None /\ g4.bp = 0
  BY <1>3, <1>0, HeadFields, SetShare
<1> HIDE DEF g4
<1>5. g5 \in Heads /\ g5.active = u /\ g5.previous = s.active /\ g5.candidate = None /\ g5.bp = 0
  BY <1>4, <1>0, HeadFields, SetPaused
<1> HIDE DEF g5
<1>6. g6 \in Heads /\ g6.active = u /\ g6.previous = s.active /\ g6.candidate = None /\ g6.bp = 0
  BY <1>5, <1>0, HeadFields, SetDirective
<1> HIDE DEF g6
<1> QED
  BY <1>6 DEF g1, g2, g3, g4, g5, g6, Promoted

\* A completed rollout: the candidate becomes active.
LEMMA CompletedHead ==
    ASSUME NEW s \in Heads, NEW h \in Heads
    PROVE  /\ Completed(s, h) \in Heads
           /\ Completed(s, h).active = s.candidate /\ Completed(s, h).previous = s.active
           /\ Completed(s, h).candidate = None
<1> DEFINE g1 == [h EXCEPT !.active = s.candidate]
           g2 == [g1 EXCEPT !.previous = s.active]
           g3 == [g2 EXCEPT !.candidate = None]
           g4 == [g3 EXCEPT !.bp = 0]
           g5 == [g4 EXCEPT !.paused = FALSE]
<1>0. 0 \in 0..Full - 1 /\ None \in Updates \cup {None} /\ FALSE \in BOOLEAN /\ 0 \in Nat
  BY OtaAssumption
<1>1. g1 \in Heads /\ g1.active = s.candidate /\ g1.previous = h.previous /\ g1.candidate = h.candidate /\ g1.bp = h.bp
  BY <1>0, HeadFields, SetActive
<1> HIDE DEF g1
<1>2. g2 \in Heads /\ g2.active = s.candidate /\ g2.previous = s.active /\ g2.candidate = h.candidate /\ g2.bp = h.bp
  BY <1>1, <1>0, HeadFields, SetPrevious
<1> HIDE DEF g2
<1>3. g3 \in Heads /\ g3.active = s.candidate /\ g3.previous = s.active /\ g3.candidate = None /\ g3.bp = h.bp
  BY <1>2, <1>0, HeadFields, SetCandidate
<1> HIDE DEF g3
<1>4. g4 \in Heads /\ g4.active = s.candidate /\ g4.previous = s.active /\ g4.candidate = None /\ g4.bp = 0
  BY <1>3, <1>0, HeadFields, SetShare
<1> HIDE DEF g4
<1>5. g5 \in Heads /\ g5.active = s.candidate /\ g5.previous = s.active /\ g5.candidate = None /\ g5.bp = 0
  BY <1>4, <1>0, HeadFields, SetPaused
<1> HIDE DEF g5
<1> QED
  BY <1>5 DEF g1, g2, g3, g4, g5, Completed

\* A rollout begins: the active update stays.
Begun(u, b, h) == [h EXCEPT !.candidate = u, !.bp = b, !.paused = FALSE, !.directive = 0]
LEMMA CandidateHead ==
    ASSUME NEW h \in Heads, NEW u \in Updates, NEW b \in 0..Full - 1
    PROVE  /\ Begun(u, b, h) \in Heads
           /\ Begun(u, b, h).active = h.active /\ Begun(u, b, h).previous = h.previous
           /\ Begun(u, b, h).candidate = u /\ Begun(u, b, h).bp = b
<1> DEFINE g1 == [h EXCEPT !.candidate = u]
           g2 == [g1 EXCEPT !.bp = b]
           g3 == [g2 EXCEPT !.paused = FALSE]
           g4 == [g3 EXCEPT !.directive = 0]
<1>0. 0 \in 0..Full - 1 /\ None \in Updates \cup {None} /\ FALSE \in BOOLEAN /\ 0 \in Nat
  BY OtaAssumption
<1>1. g1 \in Heads /\ g1.active = h.active /\ g1.previous = h.previous /\ g1.candidate = u /\ g1.bp = h.bp
  BY <1>0, HeadFields, SetCandidate
<1> HIDE DEF g1
<1>2. g2 \in Heads /\ g2.active = h.active /\ g2.previous = h.previous /\ g2.candidate = u /\ g2.bp = b
  BY <1>1, <1>0, HeadFields, SetShare
<1> HIDE DEF g2
<1>3. g3 \in Heads /\ g3.active = h.active /\ g3.previous = h.previous /\ g3.candidate = u /\ g3.bp = b
  BY <1>2, <1>0, HeadFields, SetPaused
<1> HIDE DEF g3
<1>4. g4 \in Heads /\ g4.active = h.active /\ g4.previous = h.previous /\ g4.candidate = u /\ g4.bp = b
  BY <1>3, <1>0, HeadFields, SetDirective
<1> HIDE DEF g4
<1> QED
  BY <1>4 DEF g1, g2, g3, g4, Begun

\* The embedded bundle is served: the rollout ends.
LEMMA EmbeddedHead ==
    ASSUME NEW h \in Heads, NEW d \in Nat
    PROVE  /\ [h EXCEPT !.directive = d, !.candidate = None, !.bp = 0, !.paused = FALSE] \in Heads
           /\ [h EXCEPT !.directive = d, !.candidate = None, !.bp = 0, !.paused = FALSE].active = h.active /\ [h EXCEPT !.directive = d, !.candidate = None, !.bp = 0, !.paused = FALSE].previous = h.previous
           /\ [h EXCEPT !.directive = d, !.candidate = None, !.bp = 0, !.paused = FALSE].candidate = None
<1> DEFINE g1 == [h EXCEPT !.directive = d]
           g2 == [g1 EXCEPT !.candidate = None]
           g3 == [g2 EXCEPT !.bp = 0]
           g4 == [g3 EXCEPT !.paused = FALSE]
<1>0. 0 \in 0..Full - 1 /\ None \in Updates \cup {None} /\ FALSE \in BOOLEAN /\ 0 \in Nat
  BY OtaAssumption
<1>1. g1 \in Heads /\ g1.active = h.active /\ g1.previous = h.previous /\ g1.candidate = h.candidate /\ g1.bp = h.bp
  BY <1>0, HeadFields, SetDirective
<1> HIDE DEF g1
<1>2. g2 \in Heads /\ g2.active = h.active /\ g2.previous = h.previous /\ g2.candidate = None /\ g2.bp = h.bp
  BY <1>1, <1>0, HeadFields, SetCandidate
<1> HIDE DEF g2
<1>3. g3 \in Heads /\ g3.active = h.active /\ g3.previous = h.previous /\ g3.candidate = None /\ g3.bp = 0
  BY <1>2, <1>0, HeadFields, SetShare
<1> HIDE DEF g3
<1>4. g4 \in Heads /\ g4.active = h.active /\ g4.previous = h.previous /\ g4.candidate = None /\ g4.bp = 0
  BY <1>3, <1>0, HeadFields, SetPaused
<1> HIDE DEF g4
<1> QED
  BY <1>4 DEF g1, g2, g3, g4

\* The directive that is served is one of the release's.
LEMMA DirectiveMax ==
    ASSUME NEW s \in Heads, Serves(s), DirectiveFor(s) # {}
    PROVE  Max(DirectiveFor(s)) \in Nat /\ Max(DirectiveFor(s)) > Time(Bad(s))
<1>1. ReleaseOf(Bad(s)) \in Releases
  BY HeadFields, OtaAssumption DEF Serves, ReleaseOf, Updates
<1>2. /\ DirectivesOf[ReleaseOf(Bad(s))] \in SUBSET Nat
      /\ IsFiniteSet(DirectivesOf[ReleaseOf(Bad(s))])
  BY <1>1, OtaAssumption
<1>3. DirectiveFor(s) \in SUBSET DirectivesOf[ReleaseOf(Bad(s))]
  BY DEF DirectiveFor
<1>4. IsFiniteSet(DirectiveFor(s)) /\ DirectiveFor(s) \in SUBSET Nat
  BY <1>2, <1>3, FS_Subset
<1>5. Max(DirectiveFor(s)) \in DirectiveFor(s)
  BY <1>4, MaxIn
<1> QED
  BY <1>2, <1>5 DEF DirectiveFor

\* The republish that a rollback serves replaces what is served.
LEMMA RepublishChosen ==
    ASSUME NEW s \in Heads, RepublishFor(s) # {}
    PROVE  LET r == CHOOSE x \in RepublishFor(s) : TRUE
           IN  r \in Republishes /\ r \in Updates /\ Supersedes[r] = Bad(s) /\ ReleaseOf(r) = Bad(s) /\ Bad(s) \in Releases
<1> DEFINE r == CHOOSE x \in RepublishFor(s) : TRUE
<1>1. r \in RepublishFor(s)
  OBVIOUS
<1>2. r \in Republishes /\ Supersedes[r] = Bad(s)
  BY <1>1 DEF RepublishFor
<1> HIDE DEF r
<1>3. Supersedes[r] \in Releases /\ ReleaseOf(r) = Supersedes[r] /\ r \in Updates
  BY <1>2, OtaAssumption DEF ReleaseOf, Updates
<1> QED
  BY <1>2, <1>3 DEF r

LEMMA Times ==
    /\ \A u \in Updates \cup {None} : Time(u) \in Nat
    /\ \A u \in Updates : Time(u) = TimeOf[u] /\ TimeOf[u] > 0
    /\ Time(None) = 0
  BY OtaAssumption DEF Time

\* What a head names is of verified releases.
Ready(h) == \A u \in {h.active, h.previous, h.candidate} \ {None} : status[ReleaseOf(u)] = "ready"
\* A candidate has some share of the devices.
Shared(h) == h.candidate # None => h.bp \in 1..Full - 1
\* A candidate is newer than the active update, if it is not the same.
Ordered(h) == h.candidate # None => h.candidate = h.active \/ Time(h.candidate) > Time(h.active)
\* A change of the active update from h to g.
Advanced(h, g) == g.active # h.active => Time(g.active) > Time(h.active) /\ Time(g.active) >= Time(h.candidate)

\* A plan made for s and written over h.
GoodWrite(s, h, g) ==
    /\ g \in Heads
    /\ Shared(h) => Shared(g)
    /\ Ready(s) /\ Ready(h) => Ready(g)
    /\ s = h /\ Ordered(h) => Ordered(g) /\ Advanced(h, g)

\* What is written when an update u takes over from all that s names.
LEMMA TakesOver ==
    ASSUME NEW s \in Heads, NEW h \in Heads, NEW g \in Heads, NEW u \in Updates,
           g.active = u, g.previous \in {s.active, s.candidate}, g.candidate = None,
           Ready(s) => status[ReleaseOf(u)] = "ready",
           Ordered(s) => /\ u # s.active => Time(u) > Time(s.active)
                         /\ Time(u) >= Time(s.candidate)
    PROVE  GoodWrite(s, h, g)
<1>1. Shared(g) /\ Ordered(g)
  BY DEF Shared, Ordered
<1>2. Ready(s) => Ready(g)
  BY DEF Ready
<1>3. s = h /\ Ordered(h) => Advanced(h, g)
  BY DEF Advanced
<1> QED
  BY <1>1, <1>2, <1>3 DEF GoodWrite

LEMMA WritePromotion ==
    ASSUME NEW ch \in Changes, NEW seen \in [Platforms -> Heads], CanPlan(ch, seen),
           NEW p \in Platforms, NEW h \in Heads, ch.kind = "promote"
    PROVE  GoodWrite(seen[p], h, Written(ch, seen[p], h))
<1> DEFINE s == seen[p]
           g == Written(ch, s, h)
<1>0. s \in Heads
  OBVIOUS
<1>1. ch.u \in Releases /\ ch.u \in Updates /\ ch.bp \in 1..Full /\ ReleaseOf(ch.u) = ch.u
  BY ChangeKinds, OtaAssumption DEF Updates, ReleaseOf
<1>2. status[ReleaseOf(ch.u)] = "ready" /\ ~IsOlder(ch.u, s)
  BY <1>1 DEF CanPlan
<1>3. /\ ch.u # s.active => Time(ch.u) > Time(s.active)
      /\ Time(ch.u) >= Time(s.candidate)
  <2>1. \A v \in {s.active, s.candidate} : v # None /\ v # ch.u => ~(TimeOf[v] >= TimeOf[ch.u])
    BY <1>2 DEF IsOlder
  <2>2. \A v \in {s.active, s.candidate} : v # None /\ v # ch.u => Time(v) < Time(ch.u)
    BY <1>0, <1>1, <2>1, HeadFields, OtaAssumption DEF Time
  <2>3. Time(ch.u) \in Nat /\ Time(ch.u) > 0 /\ Time(None) = 0
    BY <1>1, Times
  <2>4. Time(s.active) \in Nat /\ Time(s.candidate) \in Nat
    BY <1>0, HeadFields, Times
  <2> QED
    BY <2>2, <2>3, <2>4
<1> HIDE DEF s
<1>4. CASE ch.bp = Full
  <2>1. g = Promoted(ch.u, s, h)
    BY <1>4 DEF Written
  <2>2. g \in Heads /\ g.active = ch.u /\ g.previous = s.active /\ g.candidate = None
    BY <1>0, <1>1, <2>1, PromotedHead
  <2> HIDE DEF g
  <2>3. GoodWrite(s, h, g)
    BY <1>0, <1>1, <1>2, <1>3, <2>2, TakesOver
  <2> QED
    BY <2>3 DEF g, s
<1>5. CASE ch.bp # Full
  <2>1. ch.bp \in 0..Full - 1 /\ ch.bp \in 1..Full - 1
    BY <1>1, <1>5, OtaAssumption
  <2>2. g = [h EXCEPT !.candidate = ch.u, !.bp = ch.bp, !.paused = FALSE, !.directive = 0]
    BY <1>5 DEF Written
  <2>3. g \in Heads /\ g.active = h.active /\ g.previous = h.previous /\ g.candidate = ch.u /\ g.bp = ch.bp
    <3>1. g = Begun(ch.u, ch.bp, h)
      BY <2>2 DEF Begun
    <3> QED
      BY <1>1, <2>1, <3>1, CandidateHead
  <2> HIDE DEF g
  <2>4. Shared(g) /\ Advanced(h, g)
    BY <2>1, <2>3 DEF Shared, Advanced
  <2>5. Ready(h) => Ready(g)
    BY <1>2, <2>3 DEF Ready
  <2>6. s = h => Ordered(g)
    BY <1>3, <2>3 DEF Ordered
  <2>7. GoodWrite(s, h, g)
    BY <2>3, <2>4, <2>5, <2>6 DEF GoodWrite
  <2> QED
    BY <2>7 DEF g, s
<1> QED
  BY <1>4, <1>5

\* A rollout goes on with another share, stops or resumes.
LEMMA WriteShare ==
    ASSUME NEW ch \in Changes, NEW s \in Heads, NEW h \in Heads, ch.kind \in {"rollout", "pause", "resume"}
    PROVE  GoodWrite(s, h, Written(ch, s, h))
<1> DEFINE g == Written(ch, s, h)
<1>1. g \in Heads /\ g.active = h.active /\ g.previous = h.previous /\ g.candidate = h.candidate
      /\ (g.bp = h.bp \/ g.bp \in 1..Full - 1)
  <2>1. CASE ch.kind = "rollout"
    <3>1. ch.bp \in 1..Full - 1 /\ ch.bp \in 0..Full - 1
      BY <2>1, ChangeKinds, OtaAssumption
    <3>2. g = [h EXCEPT !.bp = ch.bp]
      BY <2>1 DEF Written
    <3> QED
      BY <3>1, <3>2, SetShare
  <2>2. CASE ch.kind \in {"pause", "resume"}
    <3>1. g = [h EXCEPT !.paused = (ch.kind = "pause")]
      BY <2>2 DEF Written
    <3>2. (ch.kind = "pause") \in BOOLEAN
      OBVIOUS
    <3> QED
      BY <3>1, <3>2, SetPaused
  <2> QED
    BY <2>1, <2>2
<1> HIDE DEF g
<1>2. GoodWrite(s, h, g)
  BY <1>1 DEF GoodWrite, Shared, Ready, Ordered, Advanced
<1> QED
  BY <1>2 DEF g

LEMMA WriteCompletion ==
    ASSUME NEW ch \in Changes, NEW s \in Heads, NEW h \in Heads, ch.kind = "complete", s.candidate # None
    PROVE  GoodWrite(s, h, Written(ch, s, h))
<1> DEFINE g == Written(ch, s, h)
<1>1. g = Completed(s, h)
  BY DEF Written
<1>2. g \in Heads /\ g.active = s.candidate /\ g.previous = s.active /\ g.candidate = None
  BY <1>1, CompletedHead
<1> HIDE DEF g
<1>3. s.candidate \in Updates
  BY HeadFields
<1>4. Ready(s) => status[ReleaseOf(s.candidate)] = "ready"
  BY DEF Ready
<1>5. Time(s.candidate) \in Nat /\ (Ordered(s) => (s.candidate # s.active => Time(s.candidate) > Time(s.active)))
  BY <1>3, Times DEF Ordered
<1>6. GoodWrite(s, h, g)
  BY <1>2, <1>3, <1>4, <1>5, TakesOver
<1> QED
  BY <1>6 DEF g

LEMMA WriteRollback ==
    ASSUME NEW ch \in Changes, NEW s \in Heads, NEW h \in Heads, ch.kind = "rollback", RepublishFor(s) # {}
    PROVE  GoodWrite(s, h, Written(ch, s, h))
<1> DEFINE r == CHOOSE x \in RepublishFor(s) : TRUE
           q == Promoted(r, s, h)
           g == Written(ch, s, h)
<1>1. r \in Republishes /\ r \in Updates /\ Supersedes[r] = Bad(s) /\ ReleaseOf(r) = Bad(s) /\ Bad(s) \in Releases
  BY RepublishChosen
<1>2. g = [q EXCEPT !.previous = Bad(s)]
  BY DEF Written
<1> HIDE DEF r
<1>3. q \in Heads /\ q.active = r /\ q.candidate = None
  BY <1>1, PromotedHead
<1>4. Bad(s) \in Updates \cup {None}
  BY HeadFields
<1> HIDE DEF q, g
<1>5. g \in Heads /\ g.active = r /\ g.previous = Bad(s) /\ g.candidate = None
  BY <1>2, <1>3, <1>4, SetPrevious
<1>6. Bad(s) \in {s.active, s.candidate} /\ Bad(s) # None
  BY <1>1, OtaAssumption DEF Bad, Updates
<1>7. Ready(s) => status[ReleaseOf(r)] = "ready"
  <2>1. ReleaseOf(Bad(s)) = Bad(s)
    BY <1>1, OtaAssumption DEF ReleaseOf
  <2> QED
    BY <1>1, <1>6, <2>1 DEF Ready
<1>8. Time(r) > Time(Bad(s)) /\ Time(r) \in Nat
  <2>1. Time(r) = TimeOf[r] /\ Time(Bad(s)) = TimeOf[Bad(s)] /\ Time(r) \in Nat
    BY <1>1, Times DEF Updates
  <2> QED
    BY <1>1, <2>1, OtaAssumption
<1>9. Ordered(s) => Time(r) > Time(s.active) /\ Time(r) >= Time(s.candidate)
  <2>1. Time(s.active) \in Nat /\ Time(s.candidate) \in Nat /\ Time(None) = 0
    BY HeadFields, Times
  <2>2. CASE s.candidate = None
    BY <1>8, <2>1, <2>2 DEF Bad
  <2>3. CASE s.candidate # None
    BY <1>8, <2>1, <2>3 DEF Bad, Ordered
  <2> QED
    BY <2>2, <2>3
<1>10. GoodWrite(s, h, g)
  BY <1>1, <1>5, <1>6, <1>7, <1>9, TakesOver
<1> QED
  BY <1>10 DEF g

LEMMA WriteEmbedded ==
    ASSUME NEW ch \in Changes, NEW s \in Heads, NEW h \in Heads, ch.kind = "embedded",
           Serves(s), DirectiveFor(s) # {}
    PROVE  GoodWrite(s, h, Written(ch, s, h))
<1> DEFINE g == Written(ch, s, h)
           d == Max(DirectiveFor(s))
<1>1. g = [h EXCEPT !.directive = d, !.candidate = None, !.bp = 0, !.paused = FALSE]
  BY DEF Written
<1>2. d \in Nat
  BY DirectiveMax
<1> HIDE DEF d
<1>3. g \in Heads /\ g.active = h.active /\ g.previous = h.previous /\ g.candidate = None
  BY <1>1, <1>2, EmbeddedHead
<1> HIDE DEF g
<1>4. GoodWrite(s, h, g)
  BY <1>3 DEF GoodWrite, Shared, Ready, Ordered, Advanced
<1> QED
  BY <1>4 DEF g

\* Whatever the plan, and whatever the head is by the time it is written.
LEMMA WrittenHead ==
    ASSUME NEW ch \in Changes, NEW seen \in [Platforms -> Heads], CanPlan(ch, seen),
           NEW p \in Platforms, p \in Touched(ch, seen), NEW h \in Heads
    PROVE  GoodWrite(seen[p], h, Written(ch, seen[p], h))
<1>1. CASE ch.kind = "promote"
  BY <1>1, WritePromotion
<1>2. CASE ch.kind \in {"rollout", "pause", "resume"}
  BY <1>2, WriteShare
<1>3. CASE ch.kind = "complete"
  <2>1. seen[p].candidate # None
    BY <1>3 DEF Touched
  <2> QED
    BY <1>3, <2>1, WriteCompletion
<1>4. CASE ch.kind = "rollback"
  <2>1. RepublishFor(seen[p]) # {}
    BY <1>4 DEF CanPlan
  <2> QED
    BY <1>4, <2>1, WriteRollback
<1>5. CASE ch.kind = "embedded"
  <2>1. Serves(seen[p])
    BY <1>5 DEF Touched
  <2>2. DirectiveFor(seen[p]) # {}
    BY <1>5 DEF CanPlan
  <2> QED
    BY <1>5, <2>1, <2>2, WriteEmbedded
<1> QED
  BY <1>1, <1>2, <1>3, <1>4, <1>5, ChangeKinds DEF Forward, Stops

-----------------------------------------------------------------------------
(* The invariants                                                          *)

\* The heads, as they are and as the plans have seen them.
HeadInv ==
    /\ \A p \in Platforms : Shared(head[p]) /\ Ready(head[p]) /\ (~stale => Ordered(head[p]))
    /\ \A w \in Workers : At(w, "write") => \A p \in Platforms : Ready(task[w].seen[p])

\* What was read with the present stamp was read with the present policy.
Stamped(x) == x.at <= stamp /\ (x.at = stamp => x.under = policy)

\* A change of the policy acts for a request that was approved, or the channel was open.
RulingOK(t) ==
    /\ Stamped(t)
    /\ t.pc = "readPolicy" => t.req # 0
    /\ t.pc = "setPolicy" /\ t.req = 0 => t.under = "open"
    /\ t.pc \in {"readPolicy", "setPolicy"} /\ t.req # 0 =>
          /\ t.req \in DOMAIN policyReq
          /\ policyReq[t.req].state = "approved" /\ policyReq[t.req].under = t.under

PolicyInv ==
    /\ \A i \in DOMAIN policyReq : Stamped(policyReq[i])
    /\ \A w \in Workers : task[w].pc \in PolicyPCs => RulingOK(task[w])

\* A change of the heads that acts for a request has it approved; one that is carried
\* out is a stop, or has one, or read an open channel.
ChangeOK(t) ==
    /\ t.pc \in {"plan", "write"} /\ t.req # 0 =>
          t.req \in DOMAIN changeReq /\ changeReq[t.req] = [ch |-> t.ch, under |-> t.under, state |-> "approved"]
    /\ t.pc = "write" => t.ch.kind \in Stops \/ t.under = "open" \/ t.req # 0

\* Unless changes overlapped: a change of the policy is alone, and a change of the heads
\* that acts for no request goes by the policy in force.  Unless a sweep was lost as well,
\* so do those that act for one and the pending requests, until the sweep that follows a
\* change of the policy.
Solo == \A w, v \in Workers : w # v /\ task[w].pc \in PolicyPCs => task[v].pc = "idle"
ReadNow == \A w \in Workers : task[w].pc \in ChangePCs /\ task[w].req = 0 => task[w].under = policy
UnderNow == \A w \in Workers : task[w].pc \in ChangePCs => task[w].under = policy
PendingNow == (\A i \in DOMAIN changeReq : changeReq[i].state = "pending" => changeReq[i].under = policy)
              \/ \E w \in Workers : At(w, "sweep")

ChangeInv ==
    /\ \A w \in Workers : ChangeOK(task[w])
    /\ ~skew => Solo /\ ReadNow
    /\ ~skew /\ ~unswept => UnderNow /\ PendingNow

Inv == Types /\ HeadInv /\ PolicyInv /\ ChangeInv

-----------------------------------------------------------------------------
(* What keeps the invariants                                               *)

ReadyStays == \A u \in Releases : status[u] = "ready" => status'[u] = "ready"

LEMMA ReadyAfter ==
    ASSUME Types, ReadyStays
    PROVE  \A h \in Heads : Ready(h) => \A u \in {h.active, h.previous, h.candidate} \ {None} : status'[ReleaseOf(u)] = "ready"
<1>1. \A u \in Updates : ReleaseOf(u) \in Releases
  BY OtaAssumption DEF ReleaseOf, Updates
<1>2. \A h \in Heads : \A u \in {h.active, h.previous, h.candidate} \ {None} : u \in Updates
  BY HeadFields
<1> QED
  BY <1>1, <1>2 DEF Ready, ReadyStays

\* One worker goes on; a plan that it now carries out was made.
LEMMA Steps ==
    ASSUME Types, NEW w \in Workers, NEW t \in Tasks, Become(w, t), status' = status,
           t.pc = "write" => CanPlan(t.ch, t.seen)
    PROVE  /\ task' \in [Workers -> Tasks] /\ task'[w] = t
           /\ \A v \in Workers \ {w} : task'[v] = task[v]
           /\ PlansMade'
<1>1. /\ task' \in [Workers -> Tasks] /\ task'[w] = t
      /\ \A v \in Workers \ {w} : task'[v] = task[v]
  BY DEF Types, Become
<1>2. SUFFICES ASSUME NEW v \in Workers, At(v, "write")' PROVE CanPlan(task[v].ch, task[v].seen)'
  BY <1>1 DEF PlansMade
<1>3. CASE v = w
  BY <1>1, <1>2, <1>3 DEF At, CanPlan
<1>4. CASE v # w
  <2>1. task'[v] = task[v] /\ task[v].pc = "write"
    BY <1>1, <1>2, <1>4 DEF At
  <2>2. CanPlan(task[v].ch, task[v].seen)
    BY <2>1 DEF Types, PlansMade, At
  <2> QED
    BY <2>1, <2>2 DEF CanPlan
<1> QED
  BY <1>3, <1>4

\* It is done.
LEMMA Rests ==
    ASSUME Types, NEW w \in Workers, Become(w, Idle), status' = status
    PROVE  /\ task' \in [Workers -> Tasks] /\ task'[w].pc = "idle"
           /\ \A v \in Workers \ {w} : task'[v] = task[v]
           /\ PlansMade'
<1>1. Idle \in Tasks /\ Idle.pc = "idle"
  BY DEF Idle, Tasks
<1> QED
  BY <1>1, Steps

\* It goes on to the next statement of the same change.
LEMMA GoesOn ==
    ASSUME Types, NEW w \in Workers, NEW pc, Goto(w, pc), status' = status, pc # "write",
           \/ task[w].pc \in ChangePCs /\ pc \in ChangePCs
           \/ task[w].pc \in PolicyPCs /\ pc \in PolicyPCs
    PROVE  /\ task' \in [Workers -> Tasks] /\ task'[w] = [task[w] EXCEPT !.pc = pc] /\ task'[w].pc = pc
           /\ \A v \in Workers \ {w} : task'[v] = task[v]
           /\ PlansMade'
<1>1. task[w] \in Tasks
  BY DEF Types
<1>2. [task[w] EXCEPT !.pc = pc] \in Tasks /\ [task[w] EXCEPT !.pc = pc].pc = pc
  <2>1. CASE task[w].pc \in ChangePCs /\ pc \in ChangePCs
    <3>1. task[w] \in ChangeTasks
      BY <1>1, <2>1, TaskKinds
    <3>2. [task[w] EXCEPT !.pc = pc] \in ChangeTasks /\ [task[w] EXCEPT !.pc = pc].pc = pc
      BY <2>1, <3>1 DEF ChangeTasks
    <3> QED
      BY <3>2 DEF Tasks
  <2>2. CASE task[w].pc \in PolicyPCs /\ pc \in PolicyPCs
    <3>1. task[w] \in PolicyTasks
      BY <1>1, <2>2, TaskKinds
    <3>2. [task[w] EXCEPT !.pc = pc] \in PolicyTasks /\ [task[w] EXCEPT !.pc = pc].pc = pc
      BY <2>2, <3>1 DEF PolicyTasks
    <3> QED
      BY <3>2 DEF Tasks
  <2> QED
    BY <2>1, <2>2
<1>3. Become(w, [task[w] EXCEPT !.pc = pc])
  BY DEF Goto
<1> DEFINE t == [task[w] EXCEPT !.pc = pc]
<1> HIDE DEF t
<1> QED
  BY <1>2, <1>3, Steps DEF t

\* The heads stay, and what is carried out from now on was planned on them.
LEMMA HeadsKept ==
    ASSUME Types, HeadInv, head' = head, stale' = stale, ReadyStays,
           \A w \in Workers : task'[w].pc = "write" => task'[w] = task[w] \/ task'[w].seen = head
    PROVE  HeadInv'
<1>1. \A p \in Platforms : head[p] \in Heads
  BY DEF Types
<1>2. ASSUME NEW p \in Platforms
      PROVE  Shared(head[p])' /\ Ready(head[p])' /\ (~stale' => Ordered(head[p])')
  <2>1. Ready(head[p])'
    BY <1>1, ReadyAfter DEF HeadInv, Ready
  <2> QED
    BY <2>1 DEF HeadInv, Shared, Ordered
<1>3. ASSUME NEW w \in Workers, At(w, "write")', NEW p \in Platforms
      PROVE  Ready(task[w].seen[p])'
  <2>1. task'[w].pc = "write"
    BY <1>3 DEF At
  <2>2. CASE task'[w].seen = head
    <3>1. Ready(head[p])
      BY DEF HeadInv
    <3> QED
      BY <1>1, <2>2, <3>1, ReadyAfter DEF Ready
  <2>3. CASE task'[w] = task[w]
    <3>1. task[w] \in ChangeTasks
      BY <2>1, <2>3, TaskKinds DEF Types, ChangePCs
    <3>2. task[w].seen[p] \in Heads
      BY <3>1 DEF ChangeTasks
    <3>3. Ready(task[w].seen[p])
      BY <2>1, <2>3 DEF HeadInv, At
    <3> QED
      BY <2>3, <3>2, <3>3, ReadyAfter DEF Ready
  <2> QED
    BY <2>1, <2>2, <2>3
<1> QED
  BY <1>2, <1>3 DEF HeadInv

\* The policy stays; requests keep what they were made under, and stay approved.
LEMMA PolicyKept ==
    ASSUME Types, PolicyInv, policy' = policy, stamp' = stamp,
           \A i \in DOMAIN policyReq' : Stamped(policyReq'[i]),
           \A i \in DOMAIN policyReq : policyReq[i].state = "approved" =>
               i \in DOMAIN policyReq' /\ policyReq'[i] = policyReq[i],
           \A w \in Workers : task'[w].pc \in PolicyPCs => task'[w] = task[w] \/ RulingOK(task[w])'
    PROVE  PolicyInv'
<1>1. \A i \in DOMAIN policyReq' : Stamped(policyReq[i])'
  BY DEF Stamped
<1>2. ASSUME NEW w \in Workers, task'[w].pc \in PolicyPCs, task'[w] = task[w]
      PROVE  RulingOK(task[w])'
  <2>1. RulingOK(task[w])
    BY <1>2 DEF PolicyInv
  <2> QED
    BY <1>2, <2>1 DEF RulingOK, Stamped
<1> QED
  BY <1>1, <1>2 DEF PolicyInv

\* The channel and the requests for policies are left alone.
LEMMA PolicySame ==
    ASSUME Types, PolicyInv, UNCHANGED <<channel, policyReq>>,
           \A w \in Workers : task'[w].pc \in PolicyPCs => task'[w] = task[w]
    PROVE  PolicyInv'
  BY PolicyKept DEF PolicyInv, Stamped, channel

\* One worker goes on: what it may start is told by skew, a sweep it drops by unswept.
LEMMA ChangeKept ==
    ASSUME Types, ChangeInv, NEW w \in Workers, policy' = policy,
           \A v \in Workers \ {w} : task'[v] = task[v],
           \A i \in DOMAIN changeReq : changeReq[i].state = "approved" =>
               i \in DOMAIN changeReq' /\ changeReq'[i] = changeReq[i],
           ChangeOK(task[w])',
           skew => skew', unswept => unswept',
           ~skew' => /\ task'[w].pc \in PolicyPCs => task[w].pc \in PolicyPCs \/ \A v \in Workers \ {w} : At(v, "idle")
                     /\ task'[w].pc # "idle" => task[w].pc # "idle" \/ \A v \in Workers \ {w} : task[v].pc \notin PolicyPCs
                     /\ task'[w].pc \in ChangePCs /\ task'[w].req = 0 => task'[w].under = policy,
           ~skew' /\ ~unswept' => /\ task'[w].pc \in ChangePCs => task'[w].under = policy
                                  /\ PendingNow'
    PROVE  ChangeInv'
<1>1. ASSUME NEW v \in Workers PROVE ChangeOK(task[v])'
  <2>1. CASE v = w
    BY <2>1
  <2>2. CASE v # w
    <3>1. task'[v] = task[v] /\ ChangeOK(task[v])
      BY <2>2 DEF ChangeInv
    <3>2. task[v].pc \in {"plan", "write"} /\ task[v].req # 0 =>
             /\ task[v].req \in DOMAIN changeReq
             /\ changeReq[task[v].req] = [ch |-> task[v].ch, under |-> task[v].under, state |-> "approved"]
             /\ changeReq[task[v].req].state = "approved"
      BY <3>1 DEF ChangeOK
    <3> QED
      BY <3>1, <3>2 DEF ChangeOK
  <2> QED
    BY <2>1, <2>2
<1>2. ASSUME ~skew' PROVE Solo' /\ ReadNow'
  <2>1. Solo /\ ReadNow
    BY <1>2 DEF ChangeInv, Types
  <2>2. Solo'
    BY <1>2, <2>1 DEF Solo, At
  <2>3. ReadNow'
    BY <1>2, <2>1 DEF ReadNow
  <2> QED
    BY <2>2, <2>3
<1>3. ASSUME ~skew', ~unswept' PROVE UnderNow' /\ PendingNow'
  <2>1. UnderNow
    BY <1>3 DEF ChangeInv, Types
  <2> QED
    BY <1>3, <2>1 DEF UnderNow
<1> QED
  BY <1>1, <1>2, <1>3 DEF ChangeInv

\* The requests for changes of the heads are left alone, and no sweep ends.
LEMMA PendingSame ==
    ASSUME PendingNow, UNCHANGED <<policy, changeReq>>, NEW w \in Workers,
           \A v \in Workers \ {w} : task'[v] = task[v], task[w].pc # "sweep"
    PROVE  PendingNow'
  BY DEF PendingNow, At

\* Nothing that changes are made of is touched.
LEMMA ChangeSame ==
    ASSUME Types, ChangeInv, UNCHANGED <<policy, changeReq, skew, unswept, task>>
    PROVE  ChangeInv'
  BY DEF ChangeInv, ChangeOK, Solo, ReadNow, UnderNow, PendingNow, At

\* Requests that were pending are superseded; the others stay.
LEMMA SupersededRows ==
    ASSUME NEW Rows, NEW reqs \in Seq(Rows),
           \A r \in Rows : r.state = "pending" => [r EXCEPT !.state = "superseded"] \in Rows
    PROVE  /\ Superseded(reqs) \in Seq(Rows)
           /\ DOMAIN Superseded(reqs) = DOMAIN reqs
           /\ \A i \in DOMAIN reqs : reqs[i].state # "pending" => Superseded(reqs)[i] = reqs[i]
           /\ \A i \in DOMAIN reqs : reqs[i].state = "pending" => Superseded(reqs)[i] = [reqs[i] EXCEPT !.state = "superseded"]
<1>1. DOMAIN reqs = 1..Len(reqs) /\ Len(reqs) \in Nat /\ \A i \in DOMAIN reqs : reqs[i] \in Rows
  OBVIOUS
<1>2. \A i \in 1..Len(reqs) : Superseded(reqs)[i] \in Rows
  BY <1>1 DEF Superseded
<1>3. Superseded(reqs) \in [1..Len(reqs) -> Rows]
  BY <1>1, <1>2 DEF Superseded
<1>4. Superseded(reqs) \in Seq(Rows)
  BY <1>1, <1>3, SeqDef
<1> QED
  BY <1>4 DEF Superseded
-----------------------------------------------------------------------------
(* Changes of the heads, statement by statement                            *)

LEMMA ChangeRowSuperseded ==
    \A r \in ChangeRows : /\ [r EXCEPT !.state = "superseded"] \in ChangeRows
                          /\ [r EXCEPT !.state = "superseded"].under = r.under
                          /\ [r EXCEPT !.state = "superseded"].state = "superseded"
  BY DEF ChangeRows, RequestStates

LEMMA PolicyRowSuperseded ==
    \A r \in PolicyRows : /\ [r EXCEPT !.state = "superseded"] \in PolicyRows
                          /\ [r EXCEPT !.state = "superseded"].under = r.under
                          /\ [r EXCEPT !.state = "superseded"].at = r.at
                          /\ [r EXCEPT !.state = "superseded"].state = "superseded"
  BY DEF PolicyRows, RequestStates

LEMMA SupersededChanges ==
    ASSUME NEW reqs \in Seq(ChangeRows)
    PROVE  /\ Superseded(reqs) \in Seq(ChangeRows)
           /\ DOMAIN Superseded(reqs) = DOMAIN reqs
           /\ \A i \in DOMAIN reqs : reqs[i].state # "pending" => Superseded(reqs)[i] = reqs[i]
           /\ \A i \in DOMAIN reqs : reqs[i].state = "pending" => Superseded(reqs)[i].state = "superseded"
           /\ \A i \in DOMAIN reqs : Superseded(reqs)[i].under = reqs[i].under
<1>1. \A r \in ChangeRows : r.state = "pending" => [r EXCEPT !.state = "superseded"] \in ChangeRows
  BY ChangeRowSuperseded
<1>2. /\ Superseded(reqs) \in Seq(ChangeRows)
      /\ DOMAIN Superseded(reqs) = DOMAIN reqs
      /\ \A i \in DOMAIN reqs : reqs[i].state # "pending" => Superseded(reqs)[i] = reqs[i]
  BY <1>1, SupersededRows
<1>3. ASSUME NEW i \in DOMAIN reqs
      PROVE  /\ reqs[i].state = "pending" => Superseded(reqs)[i].state = "superseded"
             /\ Superseded(reqs)[i].under = reqs[i].under
  <2>1. PICK r \in ChangeRows : r = reqs[i]
    OBVIOUS
  <2>2. CASE r.state = "pending"
    <3> DEFINE q == [r EXCEPT !.state = "superseded"]
    <3>1. Superseded(reqs)[i] = q
      BY <2>1, <2>2 DEF Superseded
    <3>2. q.state = "superseded" /\ q.under = r.under
      BY ChangeRowSuperseded
    <3> HIDE DEF q
    <3> QED
      BY <2>1, <3>1, <3>2
  <2>3. CASE r.state # "pending"
    BY <1>2, <2>1, <2>3
  <2> QED
    BY <2>2, <2>3
<1> QED
  BY <1>2, <1>3

LEMMA SupersededPolicies ==
    ASSUME NEW reqs \in Seq(PolicyRows)
    PROVE  /\ Superseded(reqs) \in Seq(PolicyRows)
           /\ DOMAIN Superseded(reqs) = DOMAIN reqs
           /\ \A i \in DOMAIN reqs : reqs[i].state # "pending" => Superseded(reqs)[i] = reqs[i]
           /\ \A i \in DOMAIN reqs : reqs[i].state = "pending" => Superseded(reqs)[i].state = "superseded"
           /\ \A i \in DOMAIN reqs : Superseded(reqs)[i].under = reqs[i].under /\ Superseded(reqs)[i].at = reqs[i].at
<1>1. \A r \in PolicyRows : r.state = "pending" => [r EXCEPT !.state = "superseded"] \in PolicyRows
  BY PolicyRowSuperseded
<1>2. /\ Superseded(reqs) \in Seq(PolicyRows)
      /\ DOMAIN Superseded(reqs) = DOMAIN reqs
      /\ \A i \in DOMAIN reqs : reqs[i].state # "pending" => Superseded(reqs)[i] = reqs[i]
  BY <1>1, SupersededRows
<1>3. ASSUME NEW i \in DOMAIN reqs
      PROVE  /\ reqs[i].state = "pending" => Superseded(reqs)[i].state = "superseded"
             /\ Superseded(reqs)[i].under = reqs[i].under /\ Superseded(reqs)[i].at = reqs[i].at
  <2>1. PICK r \in PolicyRows : r = reqs[i]
    OBVIOUS
  <2>2. CASE r.state = "pending"
    <3> DEFINE q == [r EXCEPT !.state = "superseded"]
    <3>1. Superseded(reqs)[i] = q
      BY <2>1, <2>2 DEF Superseded
    <3>2. q.state = "superseded" /\ q.under = r.under /\ q.at = r.at
      BY PolicyRowSuperseded
    <3> HIDE DEF q
    <3> QED
      BY <2>1, <3>1, <3>2
  <2>3. CASE r.state # "pending"
    BY <1>2, <2>1, <2>3
  <2> QED
    BY <2>2, <2>3
<1> QED
  BY <1>2, <1>3

LEMMA StartChangeKeeps ==
    ASSUME Inv, NEW w \in Workers, NEW ch \in Changes, StartChange(w, ch)
    PROVE  Inv'
<1> DEFINE t == Changing("plan", ch, policy, 0, [p \in Platforms |-> NoHead])
<1>0. Types /\ HeadInv /\ PolicyInv /\ ChangeInv /\ task[w].pc = "idle"
  BY DEF Inv, StartChange, At
<1>1. t \in Tasks /\ t.pc = "plan" /\ t.req = 0 /\ t.under = policy
  <2>1. [p \in Platforms |-> NoHead] \in [Platforms -> Heads] /\ policy \in Policies /\ "plan" \in ChangePCs
    BY <1>0, HeadNotNone DEF Types, ChangePCs
  <2>2. t \in ChangeTasks
    BY <2>1 DEF ChangeTasks, Changing
  <2> QED
    BY <2>2 DEF Changing, Tasks
<1>2. Become(w, t)
  BY DEF StartChange
<1> HIDE DEF t
<1>3. /\ task' \in [Workers -> Tasks] /\ task'[w] = t
      /\ \A v \in Workers \ {w} : task'[v] = task[v]
      /\ PlansMade'
  BY <1>0, <1>1, <1>2, Steps DEF StartChange
<1>4. skew' = (skew \/ \E x \in Workers \ {w} : task[x].pc \in PolicyPCs)
  BY DEF StartChange, NoteOverlap
<1>5. Types'
  BY <1>0, <1>3, <1>4 DEF Types, StartChange, channel, requests, serving
<1>6. HeadInv'
  BY <1>0, <1>1, <1>3, HeadsKept DEF StartChange, ReadyStays
<1>7. PolicyInv'
  BY <1>0, <1>1, <1>3, PolicySame DEF StartChange, requests, PolicyPCs
<1>8. ChangeInv'
  <2>1. ChangeOK(task[w])'
    BY <1>1, <1>3 DEF ChangeOK
  <2>2. ~skew' /\ ~unswept' => PendingNow'
    BY <1>0, <1>3, <1>4, PendingSame DEF ChangeInv, StartChange, channel, requests
  <2> QED
    BY <1>0, <1>1, <1>3, <1>4, <2>1, <2>2, ChangeKept DEF StartChange, channel, requests, PolicyPCs
<1> QED
  BY <1>5, <1>6, <1>7, <1>8 DEF Inv

LEMMA PlanKeeps ==
    ASSUME Inv, NEW w \in Workers, Plan(w)
    PROVE  Inv'
<1>0. Types /\ HeadInv /\ PolicyInv /\ ChangeInv /\ task[w].pc = "plan"
  BY DEF Inv, Plan, At
<1>1. task[w] \in ChangeTasks
  BY <1>0, TaskKinds DEF Types, ChangePCs
<1>2. UNCHANGED <<status, head, channel, requests, serving, stale, skew, unswept, left>>
  BY DEF Plan
<1>3. /\ task' \in [Workers -> Tasks]
      /\ \A v \in Workers \ {w} : task'[v] = task[v]
      /\ PlansMade'
      /\ \/ task'[w].pc = "idle"
         \/ task'[w].pc = "supersede" /\ task'[w].under = task[w].under /\ task'[w].req = task[w].req
         \/ /\ task'[w].pc = "write" /\ task'[w].seen = head
            /\ task'[w].ch = task[w].ch /\ task'[w].under = task[w].under /\ task'[w].req = task[w].req
            /\ task[w].ch.kind \in Stops \/ task[w].under = "open" \/ task[w].req # 0
  <2>1. CASE Become(w, Idle)
    BY <1>0, <1>2, <2>1, Rests
  <2>2. CASE Goto(w, "supersede")
    <3>1. /\ task' \in [Workers -> Tasks] /\ task'[w] = [task[w] EXCEPT !.pc = "supersede"] /\ task'[w].pc = "supersede"
          /\ \A v \in Workers \ {w} : task'[v] = task[v]
          /\ PlansMade'
      BY <1>0, <1>2, <2>2, GoesOn DEF ChangePCs
    <3> QED
      BY <1>1, <3>1 DEF ChangeTasks
  <2>3. ASSUME CanPlan(task[w].ch, head), task[w].ch.kind \in Stops \/ task[w].under = "open" \/ task[w].req # 0,
               Become(w, [task[w] EXCEPT !.pc = "write", !.seen = head])
        PROVE  <1>3!1 /\ <1>3!2 /\ <1>3!3 /\ <1>3!4
    <3> DEFINE t1 == [task[w] EXCEPT !.pc = "write"]
               t == [t1 EXCEPT !.seen = head]
    <3>1. t1 \in ChangeTasks /\ t1.pc = "write" /\ t1.ch = task[w].ch /\ t1.under = task[w].under /\ t1.req = task[w].req
      BY <1>1 DEF ChangeTasks, ChangePCs
    <3> HIDE DEF t1
    <3>2. t \in ChangeTasks /\ t.pc = "write" /\ t.ch = task[w].ch /\ t.under = task[w].under /\ t.req = task[w].req
          /\ t.seen = head
      BY <1>0, <3>1 DEF ChangeTasks, Types
    <3>3. t = [task[w] EXCEPT !.pc = "write", !.seen = head]
      BY DEF t1
    <3>4. Become(w, t)
      BY <2>3, <3>3
    <3> HIDE DEF t
    <3>5. t \in Tasks /\ CanPlan(t.ch, t.seen)
      BY <2>3, <3>2 DEF Tasks
    <3>6. /\ task' \in [Workers -> Tasks] /\ task'[w] = t
          /\ \A v \in Workers \ {w} : task'[v] = task[v]
          /\ PlansMade'
      BY <1>0, <1>2, <3>4, <3>5, Steps
    <3> QED
      BY <2>3, <3>2, <3>6
  <2> QED
    BY <2>1, <2>2, <2>3 DEF Plan
<1>4. Types'
  BY <1>0, <1>2, <1>3 DEF Types, channel, requests, serving
<1>5. HeadInv'
  BY <1>0, <1>2, <1>3, HeadsKept DEF ReadyStays
<1>6. PolicyInv'
  BY <1>0, <1>2, <1>3, PolicySame DEF requests, PolicyPCs
<1>7. ChangeInv'
  <2>1. ChangeOK(task[w])
    BY <1>0 DEF ChangeInv
  <2>2. ChangeOK(task[w])'
    BY <1>0, <1>2, <1>3, <2>1 DEF ChangeOK, requests
  <2>3. ~skew' /\ ~unswept' => PendingNow' /\ task[w].under = policy
    BY <1>0, <1>2, <1>3, PendingSame DEF ChangeInv, UnderNow, ChangePCs, channel, requests
  <2>4. ~skew' /\ task[w].req = 0 => task[w].under = policy
    BY <1>0, <1>2 DEF ChangeInv, ReadNow, ChangePCs
  <2> QED
    BY <1>0, <1>2, <1>3, <2>2, <2>3, <2>4, ChangeKept DEF channel, requests, PolicyPCs, ChangePCs
<1> QED
  BY <1>4, <1>5, <1>6, <1>7 DEF Inv

\* The write is the one step that changes the heads; the plan may be stale.
LEMMA WriteHeadsEffect ==
    ASSUME Inv, NEW w \in Workers, WriteHeads(w)
    PROVE  /\ task[w].pc = "write" /\ task'[w].pc = "invalidate"
           /\ head' \in [Platforms -> Heads]
           /\ \A p \in Platforms : Shared(head'[p]) /\ Ready(head'[p])
           /\ ~stale' => \A p \in Platforms : Ordered(head'[p]) /\ Advanced(head[p], head'[p])
<1> DEFINE ch == task[w].ch
           seen == task[w].seen
<1>0. Types /\ HeadInv /\ task[w].pc = "write"
  BY DEF Inv, WriteHeads, At
<1>1. ch \in Changes /\ seen \in [Platforms -> Heads]
  <2>1. task[w] \in ChangeTasks
    BY <1>0, TaskKinds DEF Types, ChangePCs
  <2> QED
    BY <2>1 DEF ChangeTasks
<1>2. CanPlan(ch, seen) /\ \A p \in Platforms : Ready(seen[p])
  BY <1>0 DEF Types, PlansMade, HeadInv, At
<1>3. \A p \in Platforms : head'[p] = IF p \in Touched(ch, seen) THEN Written(ch, seen[p], head[p]) ELSE head[p]
  BY DEF WriteHeads
<1>4. ~stale' => ~stale /\ seen = head
  BY DEF WriteHeads
<1>5. task'[w].pc = "invalidate"
  BY <1>0 DEF Types, WriteHeads, Become
<1>6. head' = [p \in Platforms |-> head'[p]]
  BY DEF WriteHeads
<1> HIDE DEF ch, seen
<1>7. ASSUME NEW p \in Platforms
      PROVE  /\ head'[p] \in Heads
             /\ Shared(head'[p]) /\ Ready(head'[p])
             /\ ~stale' => Ordered(head'[p]) /\ Advanced(head[p], head'[p])
  <2>1. head[p] \in Heads /\ Shared(head[p]) /\ Ready(head[p]) /\ (~stale => Ordered(head[p]))
    BY <1>0 DEF Types, HeadInv
  <2>2. CASE p \in Touched(ch, seen)
    <3>1. head'[p] = Written(ch, seen[p], head[p])
      BY <1>3, <2>2
    <3>2. GoodWrite(seen[p], head[p], head'[p])
      BY <1>1, <1>2, <2>1, <2>2, <3>1, WrittenHead
    <3> QED
      BY <1>2, <1>4, <2>1, <3>2 DEF GoodWrite
  <2>3. CASE p \notin Touched(ch, seen)
    <3>1. head'[p] = head[p]
      BY <1>3, <2>3
    <3> QED
      BY <1>4, <2>1, <3>1 DEF Advanced
  <2> QED
    BY <2>2, <2>3
<1>8. head' \in [Platforms -> Heads]
  BY <1>6, <1>7
<1> QED
  BY <1>0, <1>5, <1>7, <1>8

LEMMA WriteHeadsKeeps ==
    ASSUME Inv, NEW w \in Workers, WriteHeads(w)
    PROVE  Inv'
<1>0. Types /\ HeadInv /\ PolicyInv /\ ChangeInv /\ task[w].pc = "write"
  BY DEF Inv, WriteHeads, At
<1>1. UNCHANGED <<status, channel, requests, serving, skew, unswept, left>> /\ Become(w, Invalidating)
  BY DEF WriteHeads, Invalidating
<1>2. Invalidating \in Tasks /\ Invalidating.pc = "invalidate"
  BY DEF Invalidating, Tasks
<1>3. /\ task' \in [Workers -> Tasks] /\ task'[w].pc = "invalidate"
      /\ \A v \in Workers \ {w} : task'[v] = task[v]
      /\ PlansMade'
  BY <1>0, <1>1, <1>2, Steps
<1>4. /\ head' \in [Platforms -> Heads]
      /\ \A p \in Platforms : Shared(head'[p]) /\ Ready(head'[p])
      /\ ~stale' => \A p \in Platforms : Ordered(head'[p])
  BY WriteHeadsEffect
<1>5. Types'
  <2>1. stale' \in BOOLEAN
    BY <1>0 DEF Types, WriteHeads
  <2> QED
    BY <1>0, <1>1, <1>3, <1>4, <2>1 DEF Types, channel, requests, serving
<1>6. HeadInv'
  <2>1. \A p \in Platforms : Shared(head[p])' /\ Ready(head[p])' /\ (~stale' => Ordered(head[p])')
    BY <1>1, <1>4 DEF Shared, Ready, Ordered
  <2>2. ASSUME NEW v \in Workers, At(v, "write")', NEW p \in Platforms
        PROVE  Ready(task[v].seen[p])'
    <3>1. v # w /\ task'[v] = task[v] /\ task[v].pc = "write"
      BY <1>3, <2>2 DEF At
    <3>2. Ready(task[v].seen[p])
      BY <1>0, <3>1 DEF HeadInv, At
    <3> QED
      BY <1>1, <3>1, <3>2 DEF Ready
  <2> QED
    BY <2>1, <2>2 DEF HeadInv
<1>7. PolicyInv'
  BY <1>0, <1>1, <1>3, PolicySame DEF requests, PolicyPCs
<1>8. ChangeInv'
  <2>1. ChangeOK(task[w])'
    BY <1>3 DEF ChangeOK
  <2>2. ~skew' /\ ~unswept' => PendingNow'
    BY <1>0, <1>1, <1>3, PendingSame DEF ChangeInv, channel, requests
  <2> QED
    BY <1>0, <1>1, <1>3, <2>1, <2>2, ChangeKept DEF channel, requests, PolicyPCs, ChangePCs
<1> QED
  BY <1>5, <1>6, <1>7, <1>8 DEF Inv

\* A worker stops without a change of the rows: it is done, refused or killed.
LEMMA StopKeeps ==
    ASSUME Inv, NEW w \in Workers, Become(w, Idle),
           UNCHANGED <<status, head, channel, requests, check, device, stale>>,
           cache' \in Heads \cup {None},
           skew' = skew, unswept' = unswept \/ unswept' = TRUE,
           task[w].pc = "sweep" => unswept'
    PROVE  Inv'
<1>0. Types /\ HeadInv /\ PolicyInv /\ ChangeInv
  BY DEF Inv
<1>1. /\ task' \in [Workers -> Tasks] /\ task'[w].pc = "idle"
      /\ \A v \in Workers \ {w} : task'[v] = task[v]
      /\ PlansMade'
  BY <1>0, Rests
<1>2. Types'
  BY <1>0, <1>1 DEF Types, channel, requests
<1>3. HeadInv'
  BY <1>0, <1>1, HeadsKept DEF ReadyStays
<1>4. PolicyInv'
  BY <1>0, <1>1, PolicySame DEF requests, PolicyPCs
<1>5. ChangeInv'
  <2>1. ChangeOK(task[w])'
    BY <1>1 DEF ChangeOK
  <2>2. ~skew' /\ ~unswept' => PendingNow'
    BY <1>0, <1>1, PendingSame DEF ChangeInv, channel, requests, Types
  <2> QED
    BY <1>0, <1>1, <2>1, <2>2, ChangeKept DEF channel, requests, PolicyPCs, ChangePCs, Types
<1> QED
  BY <1>2, <1>3, <1>4, <1>5 DEF Inv

LEMMA InvalidateKeeps ==
    ASSUME Inv, NEW w \in Workers, Invalidate(w)
    PROVE  Inv'
<1>1. cache \in Heads \cup {None} /\ task[w].pc = "invalidate"
  BY DEF Inv, Types, Invalidate, At
<1> QED
  BY <1>1, StopKeeps DEF Invalidate

LEMMA KillKeeps ==
    ASSUME Inv, NEW w \in Workers, Kill(w)
    PROVE  Inv'
<1>1. cache \in Heads \cup {None} /\ unswept \in BOOLEAN
  BY DEF Inv, Types
<1> QED
  BY <1>1, StopKeeps DEF Kill, At, serving

LEMMA SupersedeChangesKeeps ==
    ASSUME Inv, NEW w \in Workers, SupersedeChanges(w)
    PROVE  Inv'
<1>0. Types /\ HeadInv /\ PolicyInv /\ ChangeInv /\ task[w].pc = "supersede" /\ task[w] \in ChangeTasks
  BY TaskKinds DEF Inv, SupersedeChanges, At, Types, ChangePCs
<1>1. UNCHANGED <<status, head, channel, policyReq, serving, stale, skew, unswept, left>> /\ Goto(w, "request")
  BY DEF SupersedeChanges
<1>2. /\ changeReq' \in Seq(ChangeRows)
      /\ DOMAIN changeReq' = DOMAIN changeReq
      /\ \A i \in DOMAIN changeReq : changeReq[i].state # "pending" => changeReq'[i] = changeReq[i]
      /\ \A i \in DOMAIN changeReq : changeReq[i].state = "pending" => changeReq'[i].state = "superseded"
  <2>1. changeReq \in Seq(ChangeRows) /\ \A i \in DOMAIN changeReq : changeReq[i] \in ChangeRows
    BY <1>0 DEF Types
  <2> QED
    BY <2>1, SupersededChanges DEF SupersedeChanges
<1>3. /\ task' \in [Workers -> Tasks] /\ task'[w] = [task[w] EXCEPT !.pc = "request"] /\ task'[w].pc = "request"
      /\ \A v \in Workers \ {w} : task'[v] = task[v]
      /\ PlansMade'
  BY <1>0, <1>1, GoesOn DEF ChangePCs
<1>4. Types'
  BY <1>0, <1>1, <1>2, <1>3 DEF Types, channel, serving
<1>5. HeadInv'
  BY <1>0, <1>1, <1>3, HeadsKept DEF ReadyStays
<1>6. PolicyInv'
  BY <1>0, <1>1, <1>3, PolicySame DEF PolicyPCs
<1>7. ChangeInv'
  <2>1. ChangeOK(task[w])'
    BY <1>3 DEF ChangeOK
  <2>2. PendingNow'
    BY <1>2 DEF PendingNow
  <2>3. task'[w].under = task[w].under /\ task'[w].req = task[w].req
    BY <1>0, <1>3 DEF ChangeTasks
  <2>4. /\ ~skew' /\ task'[w].req = 0 => task'[w].under = policy
        /\ ~skew' /\ ~unswept' => task'[w].under = policy
    BY <1>0, <1>1, <2>3 DEF ChangeInv, ReadNow, UnderNow, ChangePCs
  <2> QED
    BY <1>0, <1>1, <1>2, <1>3, <2>1, <2>2, <2>4, ChangeKept DEF channel, PolicyPCs, ChangePCs
<1> QED
  BY <1>4, <1>5, <1>6, <1>7 DEF Inv

LEMMA RequestChangeKeeps ==
    ASSUME Inv, NEW w \in Workers, RequestChange(w)
    PROVE  Inv'
<1> DEFINE r == [ch |-> task[w].ch, under |-> task[w].under, state |-> "pending"]
<1>0. Types /\ HeadInv /\ PolicyInv /\ ChangeInv /\ task[w].pc = "request" /\ task[w] \in ChangeTasks
  BY TaskKinds DEF Inv, RequestChange, At, Types, ChangePCs
<1>1. UNCHANGED <<status, head, channel, policyReq, serving, stale, skew, unswept, left>> /\ Become(w, Idle)
  BY DEF RequestChange
<1>2. r \in ChangeRows /\ r.under = task[w].under
  BY <1>0 DEF ChangeRows, ChangeTasks, RequestStates
<1>3. changeReq' = Append(changeReq, r) /\ changeReq \in Seq(ChangeRows)
  BY <1>0 DEF RequestChange, Types
<1> HIDE DEF r
<1>4. /\ changeReq' \in Seq(ChangeRows)
      /\ \A i \in DOMAIN changeReq : i \in DOMAIN changeReq' /\ changeReq'[i] = changeReq[i]
      /\ \A i \in DOMAIN changeReq' : (i \in DOMAIN changeReq /\ changeReq'[i] = changeReq[i]) \/ changeReq'[i] = r
  BY <1>2, <1>3
<1>5. /\ task' \in [Workers -> Tasks] /\ task'[w].pc = "idle"
      /\ \A v \in Workers \ {w} : task'[v] = task[v]
      /\ PlansMade'
  BY <1>0, <1>1, Rests
<1>6. Types'
  BY <1>0, <1>1, <1>4, <1>5 DEF Types, channel, serving
<1>7. HeadInv'
  BY <1>0, <1>1, <1>5, HeadsKept DEF ReadyStays
<1>8. PolicyInv'
  BY <1>0, <1>1, <1>5, PolicySame DEF PolicyPCs
<1>9. ChangeInv'
  <2>1. ChangeOK(task[w])'
    BY <1>5 DEF ChangeOK
  <2>2. ASSUME ~skew', ~unswept' PROVE PendingNow'
    <3>1. task[w].under = policy /\ PendingNow
      BY <1>0, <1>1, <2>2 DEF ChangeInv, UnderNow, ChangePCs
    <3> QED
      BY <1>0, <1>1, <1>2, <1>4, <1>5, <3>1 DEF PendingNow, At, channel
  <2> QED
    BY <1>0, <1>1, <1>4, <1>5, <2>1, <2>2, ChangeKept DEF channel, PolicyPCs, ChangePCs
<1> QED
  BY <1>6, <1>7, <1>8, <1>9 DEF Inv

\* A pending request gets its outcome; the others stay.
LEMMA ChangeResolved ==
    ASSUME Types, NEW i \in DOMAIN changeReq, changeReq[i].state = "pending", NEW to \in RequestStates,
           changeReq' = [changeReq EXCEPT ![i].state = to]
    PROVE  /\ changeReq' \in Seq(ChangeRows)
           /\ DOMAIN changeReq' = DOMAIN changeReq
           /\ \A j \in DOMAIN changeReq \ {i} : changeReq'[j] = changeReq[j]
           /\ changeReq'[i] = [ch |-> changeReq[i].ch, under |-> changeReq[i].under, state |-> to]
<1>1. changeReq \in Seq(ChangeRows) /\ changeReq[i] \in ChangeRows
  BY DEF Types
<1>2. changeReq' = [changeReq EXCEPT ![i] = [changeReq[i] EXCEPT !.state = to]]
  OBVIOUS
<1> DEFINE q == [changeReq[i] EXCEPT !.state = to]
<1>3. q = [ch |-> changeReq[i].ch, under |-> changeReq[i].under, state |-> to]
  BY <1>1 DEF ChangeRows
<1>4. q \in ChangeRows
  BY <1>1 DEF ChangeRows
<1> HIDE DEF q
<1>5. changeReq' = [changeReq EXCEPT ![i] = q]
  BY <1>2 DEF q
<1>6. /\ changeReq' \in Seq(ChangeRows) /\ DOMAIN changeReq' = DOMAIN changeReq
      /\ changeReq'[i] = q /\ \A j \in DOMAIN changeReq \ {i} : changeReq'[j] = changeReq[j]
  BY <1>1, <1>4, <1>5
<1> QED
  BY <1>3, <1>6

LEMMA ApproveChangeKeeps ==
    ASSUME Inv, NEW w \in Workers, NEW i \in DOMAIN changeReq, ApproveChange(w, i)
    PROVE  Inv'
<1> DEFINE t == Changing("plan", changeReq[i].ch, changeReq[i].under, i, [p \in Platforms |-> NoHead])
<1>0. /\ Types /\ HeadInv /\ PolicyInv /\ ChangeInv /\ task[w].pc = "idle"
      /\ changeReq[i] \in ChangeRows /\ changeReq[i].state = "pending" /\ i \in Nat
  BY DEF Inv, ApproveChange, At, Types
<1>1. UNCHANGED <<status, head, channel, policyReq, serving, stale, unswept, left>>
  BY DEF ApproveChange
<1>2. t \in Tasks /\ t.pc = "plan" /\ t.req = i /\ t.ch = changeReq[i].ch /\ t.under = changeReq[i].under
  <2>1. [p \in Platforms |-> NoHead] \in [Platforms -> Heads] /\ "plan" \in ChangePCs
    BY HeadNotNone DEF ChangePCs
  <2>2. changeReq[i].ch \in Changes /\ changeReq[i].under \in Policies
    BY <1>0 DEF ChangeRows
  <2>3. t \in ChangeTasks
    BY <1>0, <2>1, <2>2 DEF ChangeTasks, Changing
  <2> QED
    BY <2>3 DEF Changing, Tasks
<1>3. Become(w, t)
  BY DEF ApproveChange
<1> HIDE DEF t
<1>4. /\ task' \in [Workers -> Tasks] /\ task'[w] = t
      /\ \A v \in Workers \ {w} : task'[v] = task[v]
      /\ PlansMade'
  BY <1>0, <1>1, <1>2, <1>3, Steps
<1>5. /\ changeReq' \in Seq(ChangeRows)
      /\ DOMAIN changeReq' = DOMAIN changeReq
      /\ \A j \in DOMAIN changeReq \ {i} : changeReq'[j] = changeReq[j]
      /\ changeReq'[i] = [ch |-> changeReq[i].ch, under |-> changeReq[i].under, state |-> "approved"]
  <2>1. "approved" \in RequestStates
    BY DEF RequestStates
  <2> QED
    BY <1>0, <2>1, ChangeResolved DEF ApproveChange
<1>6. skew' = (skew \/ \E x \in Workers \ {w} : task[x].pc \in PolicyPCs)
  BY DEF ApproveChange, NoteOverlap
<1>7. Types'
  BY <1>0, <1>1, <1>4, <1>5, <1>6 DEF Types, channel, serving
<1>8. HeadInv'
  BY <1>0, <1>1, <1>2, <1>4, HeadsKept DEF ReadyStays
<1>9. PolicyInv'
  BY <1>0, <1>1, <1>2, <1>4, PolicySame DEF PolicyPCs
<1>10. ChangeInv'
  <2>1. ChangeOK(task[w])'
    BY <1>2, <1>4, <1>5 DEF ChangeOK
  <2>2. ASSUME ~skew', ~unswept' PROVE task'[w].under = policy /\ PendingNow'
    <3>1. ~skew /\ ~unswept /\ \A x \in Workers : task[x].pc \notin PolicyPCs
      BY <1>0, <1>1, <1>6, <2>2 DEF PolicyPCs
    <3>2. \A j \in DOMAIN changeReq : changeReq[j].state = "pending" => changeReq[j].under = policy
      BY <1>0, <3>1 DEF ChangeInv, PendingNow, At, PolicyPCs
    <3> QED
      BY <1>0, <1>1, <1>2, <1>4, <1>5, <3>2 DEF PendingNow, channel
  <2>3. \A j \in DOMAIN changeReq : changeReq[j].state = "approved" => j \in DOMAIN changeReq' /\ changeReq'[j] = changeReq[j]
    BY <1>0, <1>5
  <2>4. task'[w].req # 0
    BY <1>0, <1>2, <1>4 DEF Types
  <2> QED
    BY <1>0, <1>1, <1>2, <1>4, <1>6, <2>1, <2>2, <2>3, <2>4, ChangeKept DEF channel, PolicyPCs
<1> QED
  BY <1>7, <1>8, <1>9, <1>10 DEF Inv

LEMMA RejectChangeKeeps ==
    ASSUME Inv, NEW i \in DOMAIN changeReq, RejectChange(i)
    PROVE  Inv'
<1>0. /\ Types /\ HeadInv /\ PolicyInv /\ ChangeInv /\ changeReq[i].state = "pending"
      /\ "rejected" \in RequestStates
  BY DEF Inv, RejectChange, RequestStates
<1>1. UNCHANGED <<status, head, channel, policyReq, serving, stale, skew, unswept, left, task>>
  BY DEF RejectChange
<1>2. /\ changeReq' \in Seq(ChangeRows)
      /\ DOMAIN changeReq' = DOMAIN changeReq
      /\ \A j \in DOMAIN changeReq \ {i} : changeReq'[j] = changeReq[j]
      /\ changeReq'[i].state = "rejected"
  <2>1. changeReq' = [changeReq EXCEPT ![i].state = "rejected"]
    BY DEF RejectChange
  <2>2. changeReq'[i] = [ch |-> changeReq[i].ch, under |-> changeReq[i].under, state |-> "rejected"]
    BY <1>0, <2>1, ChangeResolved
  <2> QED
    BY <1>0, <2>1, <2>2, ChangeResolved
<1>3. Types'
  BY <1>0, <1>1, <1>2 DEF Types, channel, serving, PlansMade, CanPlan, At
<1>4. HeadInv'
  BY <1>0, <1>1, HeadsKept DEF ReadyStays
<1>5. PolicyInv'
  BY <1>0, <1>1, PolicySame
<1>6. ChangeInv'
  <2>1. ASSUME NEW w \in Workers PROVE ChangeOK(task[w])'
    <3>1. task' = task /\ ChangeOK(task[w])
      BY <1>0, <1>1 DEF ChangeInv
    <3>2. task[w].pc \in {"plan", "write"} /\ task[w].req # 0 =>
             /\ task[w].req \in DOMAIN changeReq
             /\ changeReq[task[w].req] = [ch |-> task[w].ch, under |-> task[w].under, state |-> "approved"]
             /\ changeReq[task[w].req].state = "approved"
      BY <3>1 DEF ChangeOK
    <3>3. task[w].pc \in {"plan", "write"} /\ task[w].req # 0 =>
             task[w].req \in DOMAIN changeReq' /\ changeReq'[task[w].req] = changeReq[task[w].req]
      BY <1>0, <1>2, <3>2
    <3> QED
      BY <3>1, <3>2, <3>3 DEF ChangeOK
  <2>2. PendingNow => PendingNow'
    BY <1>1, <1>2 DEF PendingNow, At, channel
  <2>3. (Solo => Solo') /\ (ReadNow => ReadNow') /\ (UnderNow => UnderNow')
    BY <1>1 DEF Solo, ReadNow, UnderNow, channel
  <2> QED
    BY <1>0, <1>1, <2>1, <2>2, <2>3 DEF ChangeInv
<1> QED
  BY <1>3, <1>4, <1>5, <1>6 DEF Inv

-----------------------------------------------------------------------------
(* Changes of the policy, statement by statement                           *)

\* A worker begins a change of the policy: if another was at work, skew tells.
LEMMA RulingStarts ==
    ASSUME Inv, NEW w \in Workers, NEW t \in PolicyTasks, At(w, "idle"), Become(w, t),
           UNCHANGED <<status, head, channel, changeReq, serving, stale, unswept>>,
           policyReq' \in Seq(PolicyRows),
           \A i \in DOMAIN policyReq' : Stamped(policyReq'[i]),
           \A i \in DOMAIN policyReq : policyReq[i].state = "approved" =>
               i \in DOMAIN policyReq' /\ policyReq'[i] = policyReq[i],
           RulingOK(task[w])',
           t.pc # "sweep",
           skew' = (skew \/ \E x \in Workers \ {w} : ~At(x, "idle"))
    PROVE  Inv'
<1>0. Types /\ HeadInv /\ PolicyInv /\ ChangeInv /\ task[w].pc = "idle"
  BY DEF Inv, At
<1>1. t \in Tasks /\ t.pc \in PolicyPCs
  BY DEF Tasks, PolicyTasks
<1>2. /\ task' \in [Workers -> Tasks] /\ task'[w] = t
      /\ \A v \in Workers \ {w} : task'[v] = task[v]
      /\ PlansMade'
  BY <1>0, <1>1, Steps DEF PolicyPCs
<1>3. Types'
  BY <1>0, <1>2 DEF Types, channel, serving
<1>4. HeadInv'
  BY <1>0, <1>1, <1>2, HeadsKept DEF ReadyStays, PolicyPCs
<1>5. PolicyInv'
  BY <1>0, <1>2, PolicyKept DEF channel
<1>6. ChangeInv'
  <2>1. ChangeOK(task[w])'
    BY <1>1, <1>2 DEF ChangeOK, PolicyPCs
  <2>2. ~skew' /\ ~unswept' => PendingNow'
    BY <1>0, <1>2, PendingSame DEF ChangeInv, channel
  <2>3. ~skew' => \A v \in Workers \ {w} : At(v, "idle") /\ task[v].pc \notin PolicyPCs
    BY DEF At, PolicyPCs
  <2> QED
    BY <1>0, <1>1, <1>2, <2>1, <2>2, <2>3, ChangeKept DEF channel, PolicyPCs, ChangePCs
<1> QED
  BY <1>3, <1>4, <1>5, <1>6 DEF Inv

LEMMA ChangePolicyKeeps ==
    ASSUME Inv, NEW w \in Workers, NEW to \in Policies, ChangePolicy(w, to)
    PROVE  Inv'
<1> DEFINE pc == IF policy = "open" THEN "setPolicy" ELSE "supersedePolicies"
           t == Ruling(pc, to, policy, stamp, 0)
<1>0. Types /\ PolicyInv /\ At(w, "idle") /\ Become(w, t)
  BY DEF Inv, ChangePolicy
<1>1. policy \in Policies /\ stamp \in Nat /\ policyReq \in Seq(PolicyRows)
  BY <1>0 DEF Types
<1>2. /\ t \in PolicyTasks /\ t.pc = pc /\ t.under = policy /\ t.at = stamp /\ t.req = 0
      /\ pc \in {"setPolicy", "supersedePolicies"} /\ (pc = "setPolicy" => policy = "open")
  <2>1. pc \in PolicyPCs
    BY DEF PolicyPCs
  <2>2. pc \in {"setPolicy", "supersedePolicies"} /\ (pc = "setPolicy" => policy = "open")
    OBVIOUS
  <2> HIDE DEF pc
  <2> QED
    BY <1>1, <2>1, <2>2 DEF PolicyTasks, Ruling
<1>3. UNCHANGED <<status, head, channel, changeReq, policyReq, serving, stale, unswept>>
      /\ skew' = (skew \/ \E x \in Workers \ {w} : ~At(x, "idle"))
  BY DEF ChangePolicy, requests
<1> HIDE DEF t, pc
<1>4. task'[w] = t
  BY <1>0 DEF Types, Become
<1>5. RulingOK(task[w])'
  BY <1>1, <1>2, <1>3, <1>4 DEF RulingOK, Stamped, channel
<1>6. \A i \in DOMAIN policyReq' : Stamped(policyReq'[i])
  BY <1>0, <1>3 DEF PolicyInv
<1>7. t.pc # "sweep"
  BY <1>2
<1> QED
  BY <1>0, <1>1, <1>2, <1>3, <1>5, <1>6, <1>7, RulingStarts

\* A pending request for a policy gets its outcome.
LEMMA PolicyResolved ==
    ASSUME Types, PolicyInv, NEW i \in DOMAIN policyReq, policyReq[i].state = "pending", NEW to \in RequestStates,
           policyReq' = [policyReq EXCEPT ![i].state = to]
    PROVE  /\ policyReq' \in Seq(PolicyRows)
           /\ DOMAIN policyReq' = DOMAIN policyReq
           /\ \A j \in DOMAIN policyReq' : Stamped(policyReq'[j])
           /\ \A j \in DOMAIN policyReq : policyReq[j].state = "approved" =>
                 j \in DOMAIN policyReq' /\ policyReq'[j] = policyReq[j]
           /\ policyReq'[i].state = to /\ policyReq'[i].under = policyReq[i].under
<1>1. policyReq \in Seq(PolicyRows) /\ policyReq[i] \in PolicyRows
  BY DEF Types
<1>2. policyReq' = [policyReq EXCEPT ![i] = [policyReq[i] EXCEPT !.state = to]]
  OBVIOUS
<1> DEFINE q == [policyReq[i] EXCEPT !.state = to]
<1>3. q \in PolicyRows /\ q.state = to /\ q.under = policyReq[i].under /\ q.at = policyReq[i].at
  BY <1>1 DEF PolicyRows
<1> HIDE DEF q
<1>4. policyReq' = [policyReq EXCEPT ![i] = q]
  BY <1>2 DEF q
<1>5. /\ policyReq' \in Seq(PolicyRows) /\ DOMAIN policyReq' = DOMAIN policyReq
      /\ policyReq'[i] = q /\ \A j \in DOMAIN policyReq \ {i} : policyReq'[j] = policyReq[j]
  BY <1>1, <1>3, <1>4
<1>6. \A j \in DOMAIN policyReq' : policyReq'[j].at = policyReq[j].at /\ policyReq'[j].under = policyReq[j].under
  BY <1>3, <1>5
<1>7. \A j \in DOMAIN policyReq' : Stamped(policyReq'[j])
  BY <1>5, <1>6 DEF PolicyInv, Stamped
<1> QED
  BY <1>3, <1>5, <1>7

LEMMA ApprovePolicyKeeps ==
    ASSUME Inv, NEW w \in Workers, NEW i \in DOMAIN policyReq, ApprovePolicy(w, i)
    PROVE  Inv'
<1> DEFINE t == Ruling("readPolicy", policyReq[i].to, policyReq[i].under, policyReq[i].at, i)
<1>0. /\ Types /\ PolicyInv /\ At(w, "idle") /\ Become(w, t) /\ policyReq[i].state = "pending"
      /\ "approved" \in RequestStates
  BY DEF Inv, ApprovePolicy, RequestStates
<1>1. policyReq[i] \in PolicyRows /\ i \in Nat /\ i # 0
  BY <1>0 DEF Types
<1>2. /\ t \in PolicyTasks /\ t.pc = "readPolicy" /\ t.under = policyReq[i].under
      /\ t.at = policyReq[i].at /\ t.req = i
  <2>1. "readPolicy" \in PolicyPCs
    BY DEF PolicyPCs
  <2> QED
    BY <1>1, <2>1 DEF PolicyTasks, PolicyRows, Ruling
<1>3. UNCHANGED <<status, head, channel, changeReq, serving, stale, unswept>>
      /\ skew' = (skew \/ \E x \in Workers \ {w} : ~At(x, "idle"))
  BY DEF ApprovePolicy
<1>4. /\ policyReq' \in Seq(PolicyRows)
      /\ DOMAIN policyReq' = DOMAIN policyReq
      /\ \A j \in DOMAIN policyReq' : Stamped(policyReq'[j])
      /\ \A j \in DOMAIN policyReq : policyReq[j].state = "approved" =>
            j \in DOMAIN policyReq' /\ policyReq'[j] = policyReq[j]
      /\ policyReq'[i].state = "approved" /\ policyReq'[i].under = policyReq[i].under
  BY <1>0, PolicyResolved DEF ApprovePolicy
<1> HIDE DEF t
<1>5. task'[w] = t
  BY <1>0 DEF Types, Become
<1>6. RulingOK(task[w])'
  <2>1. Stamped(policyReq[i])
    BY <1>0 DEF PolicyInv
  <2> QED
    BY <1>1, <1>2, <1>3, <1>4, <1>5, <2>1 DEF RulingOK, Stamped, channel
<1>7. t.pc # "sweep"
  BY <1>2
<1> QED
  BY <1>0, <1>2, <1>3, <1>4, <1>6, <1>7, RulingStarts

LEMMA RejectPolicyKeeps ==
    ASSUME Inv, NEW i \in DOMAIN policyReq, RejectPolicy(i)
    PROVE  Inv'
<1>0. /\ Types /\ HeadInv /\ PolicyInv /\ ChangeInv /\ policyReq[i].state = "pending"
      /\ "rejected" \in RequestStates
  BY DEF Inv, RejectPolicy, RequestStates
<1>1. UNCHANGED <<status, head, channel, changeReq, serving, stale, skew, unswept, left, task>>
  BY DEF RejectPolicy
<1>2. /\ policyReq' \in Seq(PolicyRows)
      /\ \A j \in DOMAIN policyReq' : Stamped(policyReq'[j])
      /\ \A j \in DOMAIN policyReq : policyReq[j].state = "approved" =>
            j \in DOMAIN policyReq' /\ policyReq'[j] = policyReq[j]
  <2>1. policyReq' = [policyReq EXCEPT ![i].state = "rejected"]
    BY DEF RejectPolicy
  <2> QED
    BY <1>0, <2>1, PolicyResolved
<1>3. Types'
  BY <1>0, <1>1, <1>2 DEF Types, channel, serving, PlansMade, CanPlan, At
<1>4. HeadInv'
  BY <1>0, <1>1, HeadsKept DEF ReadyStays
<1>5. PolicyInv'
  BY <1>0, <1>1, <1>2, PolicyKept DEF channel
<1>6. ChangeInv'
  BY <1>0, <1>1, ChangeSame DEF channel
<1> QED
  BY <1>3, <1>4, <1>5, <1>6 DEF Inv

\* A worker that changes the policy goes on; the policy itself stays.
LEMMA RulingGoesOn ==
    ASSUME Inv, NEW w \in Workers, task[w].pc \in PolicyPCs \ {"sweep"},
           NEW pc \in {"requestPolicy", "setPolicy"}, Goto(w, pc),
           pc = "setPolicy" => task[w].pc = "readPolicy",
           UNCHANGED <<status, head, channel, changeReq, serving, stale, skew, unswept>>,
           policyReq' \in Seq(PolicyRows),
           \A i \in DOMAIN policyReq' : Stamped(policyReq'[i]),
           \A i \in DOMAIN policyReq : policyReq[i].state = "approved" =>
               i \in DOMAIN policyReq' /\ policyReq'[i] = policyReq[i]
    PROVE  Inv'
<1>0. Types /\ HeadInv /\ PolicyInv /\ ChangeInv /\ task[w] \in PolicyTasks
  BY TaskKinds DEF Inv, Types
<1>1. /\ task' \in [Workers -> Tasks] /\ task'[w] = [task[w] EXCEPT !.pc = pc] /\ task'[w].pc = pc
      /\ \A v \in Workers \ {w} : task'[v] = task[v]
      /\ PlansMade'
  BY <1>0, GoesOn DEF PolicyPCs
<1>2. task'[w].at = task[w].at /\ task'[w].under = task[w].under /\ task'[w].req = task[w].req
  BY <1>0, <1>1 DEF PolicyTasks
<1>3. RulingOK(task[w])'
  <2>1. RulingOK(task[w])
    BY <1>0 DEF PolicyInv
  <2> QED
    BY <1>1, <1>2, <2>1 DEF RulingOK, Stamped, channel
<1>4. Types'
  BY <1>0, <1>1 DEF Types, channel, serving
<1>5. HeadInv'
  BY <1>0, <1>1, HeadsKept DEF ReadyStays
<1>6. PolicyInv'
  BY <1>0, <1>1, <1>3, PolicyKept DEF channel
<1>7. ChangeInv'
  <2>1. ChangeOK(task[w])'
    BY <1>1 DEF ChangeOK
  <2>2. ~skew' /\ ~unswept' => PendingNow'
    BY <1>0, <1>1, PendingSame DEF ChangeInv, channel
  <2> QED
    BY <1>0, <1>1, <2>1, <2>2, ChangeKept DEF channel, PolicyPCs, ChangePCs
<1> QED
  BY <1>4, <1>5, <1>6, <1>7 DEF Inv

LEMMA SupersedePoliciesKeeps ==
    ASSUME Inv, NEW w \in Workers, SupersedePolicies(w)
    PROVE  Inv'
<1>0. Types /\ PolicyInv /\ task[w].pc = "supersedePolicies" /\ policyReq \in Seq(PolicyRows)
  BY DEF Inv, Types, SupersedePolicies, At
<1>1. policyReq' = Superseded(policyReq) /\ Goto(w, "requestPolicy")
      /\ UNCHANGED <<status, head, channel, changeReq, serving, stale, skew, unswept>>
  BY DEF SupersedePolicies
<1>2. /\ policyReq' \in Seq(PolicyRows)
      /\ DOMAIN policyReq' = DOMAIN policyReq
      /\ \A i \in DOMAIN policyReq : policyReq[i].state # "pending" => policyReq'[i] = policyReq[i]
      /\ \A i \in DOMAIN policyReq : policyReq'[i].under = policyReq[i].under /\ policyReq'[i].at = policyReq[i].at
  BY <1>0, <1>1, SupersededPolicies
<1>3. \A i \in DOMAIN policyReq' : Stamped(policyReq'[i])
  BY <1>0, <1>2 DEF PolicyInv, Stamped
<1> QED
  BY <1>0, <1>1, <1>2, <1>3, RulingGoesOn DEF PolicyPCs

LEMMA RequestPolicyKeeps ==
    ASSUME Inv, NEW w \in Workers, RequestPolicy(w)
    PROVE  Inv'
<1> DEFINE r == [to |-> task[w].to, under |-> task[w].under, at |-> task[w].at, state |-> "pending"]
<1>0. Types /\ HeadInv /\ PolicyInv /\ ChangeInv /\ task[w].pc = "requestPolicy" /\ task[w] \in PolicyTasks
  BY TaskKinds DEF Inv, RequestPolicy, At, Types, PolicyPCs
<1>1. UNCHANGED <<status, head, channel, changeReq, serving, stale, skew, unswept, left>> /\ Become(w, Idle)
  BY DEF RequestPolicy
<1>2. r \in PolicyRows
  BY <1>0 DEF PolicyRows, PolicyTasks, RequestStates
<1>3. Stamped(r)
  <2>1. RulingOK(task[w])
    BY <1>0 DEF PolicyInv, PolicyPCs
  <2> QED
    BY <2>1 DEF RulingOK, Stamped
<1>4. policyReq' = Append(policyReq, r) /\ policyReq \in Seq(PolicyRows)
  BY <1>0 DEF RequestPolicy, Types
<1> HIDE DEF r
<1>5. /\ policyReq' \in Seq(PolicyRows)
      /\ \A i \in DOMAIN policyReq : i \in DOMAIN policyReq' /\ policyReq'[i] = policyReq[i]
      /\ \A i \in DOMAIN policyReq' : (i \in DOMAIN policyReq /\ policyReq'[i] = policyReq[i]) \/ policyReq'[i] = r
  BY <1>2, <1>4
<1>6. \A i \in DOMAIN policyReq' : Stamped(policyReq'[i])
  BY <1>0, <1>3, <1>5 DEF PolicyInv
<1>7. /\ task' \in [Workers -> Tasks] /\ task'[w].pc = "idle"
      /\ \A v \in Workers \ {w} : task'[v] = task[v]
      /\ PlansMade'
  BY <1>0, <1>1, Rests
<1>8. Types'
  BY <1>0, <1>1, <1>5, <1>7 DEF Types, channel, serving
<1>9. HeadInv'
  BY <1>0, <1>1, <1>7, HeadsKept DEF ReadyStays
<1>10. PolicyInv'
  BY <1>0, <1>1, <1>5, <1>6, <1>7, PolicyKept DEF channel, PolicyPCs
<1>11. ChangeInv'
  <2>1. ChangeOK(task[w])'
    BY <1>7 DEF ChangeOK
  <2>2. ~skew' /\ ~unswept' => PendingNow'
    BY <1>0, <1>1, <1>7, PendingSame DEF ChangeInv, channel
  <2> QED
    BY <1>0, <1>1, <1>7, <2>1, <2>2, ChangeKept DEF channel, PolicyPCs, ChangePCs
<1> QED
  BY <1>8, <1>9, <1>10, <1>11 DEF Inv

LEMMA ReadPolicyKeeps ==
    ASSUME Inv, NEW w \in Workers, ReadPolicy(w)
    PROVE  Inv'
<1>0. Types /\ PolicyInv /\ task[w].pc = "readPolicy" /\ policyReq \in Seq(PolicyRows) /\ cache \in Heads \cup {None}
  BY DEF Inv, Types, ReadPolicy, At
<1>1. UNCHANGED <<status, head, channel, requests, serving, stale, skew, unswept, left>>
  BY DEF ReadPolicy
<1>2. CASE Goto(w, "setPolicy")
  <2>1. \A i \in DOMAIN policyReq' : Stamped(policyReq'[i])
    BY <1>0, <1>1 DEF PolicyInv, requests
  <2> QED
    BY <1>0, <1>1, <1>2, <2>1, RulingGoesOn DEF PolicyPCs, requests
<1>3. CASE Become(w, Idle)
  BY <1>0, <1>1, <1>3, StopKeeps DEF serving
<1> QED
  BY <1>2, <1>3 DEF ReadPolicy

\* What SetPolicy does when it changes the policy: the worker is alone unless skew tells.
LEMMA PolicySet ==
    ASSUME Inv, NEW w \in Workers, task[w].pc = "setPolicy",
           stamp = task[w].at, policy' = task[w].to, stamp' = stamp + 1, Goto(w, "sweep"),
           UNCHANGED <<status, head, requests, serving, stale, skew, unswept, left>>
    PROVE  Inv'
<1>0. Types /\ HeadInv /\ PolicyInv /\ ChangeInv /\ task[w] \in PolicyTasks /\ stamp \in Nat
  BY TaskKinds DEF Inv, Types, PolicyPCs
<1>1. /\ task' \in [Workers -> Tasks] /\ task'[w] = [task[w] EXCEPT !.pc = "sweep"] /\ task'[w].pc = "sweep"
      /\ \A v \in Workers \ {w} : task'[v] = task[v]
      /\ PlansMade'
  BY <1>0, GoesOn DEF PolicyPCs
<1>2. Types'
  BY <1>0, <1>1 DEF Types, requests, serving, PolicyTasks
<1>3. HeadInv'
  BY <1>0, <1>1, HeadsKept DEF ReadyStays
<1>4. PolicyInv'
  <2>1. ASSUME NEW i \in DOMAIN policyReq PROVE Stamped(policyReq[i])'
    <3>1. policyReq[i].at \in Nat
      <4>1. policyReq[i] \in PolicyRows
        BY <1>0 DEF Types
      <4> QED
        BY <4>1 DEF PolicyRows
    <3>2. policyReq[i].at <= stamp
      BY <1>0 DEF PolicyInv, Stamped
    <3> QED
      BY <1>0, <3>1, <3>2 DEF Stamped, requests
  <2>2. ASSUME NEW v \in Workers, task'[v].pc \in PolicyPCs PROVE RulingOK(task[v])'
    <3>1. task[v].pc \in PolicyPCs
      BY <1>1, <2>2 DEF PolicyPCs
    <3>2. task[v] \in PolicyTasks /\ RulingOK(task[v])
      BY <1>0, <3>1, TaskKinds DEF PolicyInv, Types
    <3>3. task'[v].at = task[v].at
      BY <1>0, <1>1 DEF PolicyTasks
    <3>4. Stamped(task[v])'
      BY <1>0, <3>2, <3>3 DEF Stamped, RulingOK, PolicyTasks
    <3> QED
      BY <1>1, <3>2, <3>4 DEF RulingOK, requests
  <2>3. policyReq' = policyReq
    BY DEF requests
  <2> QED
    BY <2>1, <2>2, <2>3 DEF PolicyInv
<1>5. ChangeInv'
  <2>1. ASSUME NEW v \in Workers PROVE ChangeOK(task[v])'
    <3>1. ChangeOK(task[v])
      BY <1>0 DEF ChangeInv
    <3> QED
      BY <1>1, <3>1 DEF ChangeOK, requests
  <2>2. ASSUME ~skew' PROVE Solo' /\ ReadNow' /\ UnderNow' /\ PendingNow'
    <3>1. \A v \in Workers \ {w} : task'[v].pc = "idle"
      BY <1>0, <1>1, <2>2 DEF ChangeInv, Solo, PolicyPCs
    <3>2. At(w, "sweep")'
      BY <1>1 DEF At
    <3> QED
      BY <1>1, <3>1, <3>2 DEF Solo, ReadNow, UnderNow, PendingNow, PolicyPCs, ChangePCs
  <2> QED
    BY <2>1, <2>2 DEF ChangeInv
<1> QED
  BY <1>2, <1>3, <1>4, <1>5 DEF Inv

LEMMA SetPolicyKeeps ==
    ASSUME Inv, NEW w \in Workers, SetPolicy(w)
    PROVE  Inv'
<1>1. task[w].pc = "setPolicy" /\ cache \in Heads \cup {None}
  BY DEF SetPolicy, At, Inv, Types
<1>2. CASE stamp = task[w].at
  BY <1>1, <1>2, PolicySet DEF SetPolicy
<1>3. CASE stamp # task[w].at
  BY <1>1, <1>3, StopKeeps DEF SetPolicy, serving
<1> QED
  BY <1>2, <1>3

LEMMA SweepKeeps ==
    ASSUME Inv, NEW w \in Workers, Sweep(w)
    PROVE  Inv'
<1>0. Types /\ HeadInv /\ PolicyInv /\ ChangeInv /\ task[w].pc = "sweep"
  BY DEF Inv, Sweep, At
<1>1. UNCHANGED <<status, head, channel, policyReq, serving, stale, skew, unswept, left>> /\ Become(w, Idle)
  BY DEF Sweep
<1>2. /\ changeReq' \in Seq(ChangeRows)
      /\ DOMAIN changeReq' = DOMAIN changeReq
      /\ \A i \in DOMAIN changeReq : changeReq[i].state # "pending" => changeReq'[i] = changeReq[i]
      /\ \A i \in DOMAIN changeReq : changeReq[i].state = "pending" => changeReq'[i].state = "superseded"
  <2>1. changeReq \in Seq(ChangeRows)
    BY <1>0 DEF Types
  <2> QED
    BY <2>1, SupersededChanges DEF Sweep
<1>3. /\ task' \in [Workers -> Tasks] /\ task'[w].pc = "idle"
      /\ \A v \in Workers \ {w} : task'[v] = task[v]
      /\ PlansMade'
  BY <1>0, <1>1, Rests
<1>4. Types'
  BY <1>0, <1>1, <1>2, <1>3 DEF Types, channel, serving
<1>5. HeadInv'
  BY <1>0, <1>1, <1>3, HeadsKept DEF ReadyStays
<1>6. PolicyInv'
  BY <1>0, <1>1, <1>3, PolicySame DEF PolicyPCs
<1>7. ChangeInv'
  <2>1. ChangeOK(task[w])'
    BY <1>3 DEF ChangeOK
  <2>2. PendingNow'
    BY <1>2 DEF PendingNow
  <2> QED
    BY <1>0, <1>1, <1>2, <1>3, <2>1, <2>2, ChangeKept DEF channel, PolicyPCs, ChangePCs
<1> QED
  BY <1>4, <1>5, <1>6, <1>7 DEF Inv

-----------------------------------------------------------------------------
(* Releases and devices                                                    *)

LEMMA SetStatusKeeps ==
    ASSUME Inv, NEW u \in Releases, NEW from \in {"uploading", "verifying"}, NEW to \in ReleaseStates,
           SetStatus(u, from, to)
    PROVE  Inv'
<1>0. Types /\ HeadInv /\ PolicyInv /\ ChangeInv /\ status \in [Releases -> ReleaseStates]
  BY DEF Inv, Types
<1>1. UNCHANGED <<head, channel, requests, serving, stale, skew, unswept, left, task>>
  BY DEF SetStatus
<1>2. status' \in [Releases -> ReleaseStates] /\ ReadyStays
  BY <1>0 DEF SetStatus, ReadyStays
<1>3. PlansMade'
  <2>1. SUFFICES ASSUME NEW w \in Workers, task[w].pc = "write" PROVE CanPlan(task[w].ch, task[w].seen)'
    BY <1>1 DEF PlansMade, At
  <2>2. CanPlan(task[w].ch, task[w].seen) /\ task[w].ch \in Changes
    BY <1>0, <2>1, TaskKinds DEF Types, PlansMade, At, ChangePCs, ChangeTasks
  <2>3. task[w].ch.kind = "promote" => task[w].ch.u \in Releases
    BY <2>2, ChangeKinds
  <2> QED
    BY <1>1, <1>2, <2>2, <2>3 DEF CanPlan, ReadyStays
<1>4. Types'
  BY <1>0, <1>1, <1>2, <1>3 DEF Types, channel, requests, serving
<1>5. HeadInv'
  BY <1>0, <1>1, <1>2, HeadsKept
<1>6. PolicyInv'
  BY <1>0, <1>1, PolicySame DEF requests
<1>7. ChangeInv'
  BY <1>0, <1>1, ChangeSame DEF channel, requests
<1> QED
  BY <1>4, <1>5, <1>6, <1>7 DEF Inv

\* What a device is offered, it may run.
LEMMA DeviceLoads ==
    ASSUME device \in Updates \cup {None}, NEW h \in Heads, Loads(h)
    PROVE  device' \in Updates \cup {None}
<1>1. Offer(h, device) \in Updates \cup {None}
  BY HeadFields DEF Offer
<1> QED
  BY <1>1 DEF Loads

\* A step of a device changes only what is served to it.
LEMMA ServingKeeps ==
    ASSUME Inv, UNCHANGED <<status, head, channel, requests, stale, skew, unswept, left, task>>,
           cache' \in Heads \cup {None}, check' \in Heads \cup {None}, device' \in Updates \cup {None}
    PROVE  Inv'
<1>0. Types /\ HeadInv /\ PolicyInv /\ ChangeInv
  BY DEF Inv
<1>1. Types'
  BY <1>0 DEF Types, channel, requests, PlansMade, CanPlan, At
<1>2. HeadInv'
  BY <1>0, HeadsKept DEF ReadyStays
<1>3. PolicyInv'
  BY <1>0, PolicySame DEF requests
<1>4. ChangeInv'
  BY <1>0, ChangeSame DEF channel, requests
<1> QED
  BY <1>1, <1>2, <1>3, <1>4 DEF Inv

LEMMA ServingSteps ==
    ASSUME Inv, CheckStep \/ Forget
    PROVE  Inv'
<1>0. /\ cache \in Heads \cup {None} /\ check \in Heads \cup {None} /\ device \in Updates \cup {None}
      /\ head[Device] \in Heads
  BY OtaAssumption DEF Inv, Types
<1>1. CASE CheckCached
  <2>1. device' \in Updates \cup {None}
    BY <1>0, <1>1, DeviceLoads DEF CheckCached
  <2> QED
    BY <1>0, <1>1, <2>1, ServingKeeps DEF CheckCached
<1>2. CASE FindServingState
  BY <1>0, <1>2, ServingKeeps DEF FindServingState
<1>3. CASE Remember
  <2>1. device' \in Updates \cup {None}
    BY <1>0, <1>3, DeviceLoads DEF Remember
  <2> QED
    BY <1>0, <1>3, <2>1, ServingKeeps DEF Remember
<1>4. CASE Forget
  BY <1>0, <1>4, ServingKeeps DEF Forget
<1> QED
  BY <1>1, <1>2, <1>3, <1>4 DEF CheckStep

-----------------------------------------------------------------------------
(* The invariant                                                           *)

LEMMA InitInv == Init => Inv
<1>1. SUFFICES ASSUME Init PROVE Inv
  OBVIOUS
<1>2. PICK l \in Workloads : /\ status = l.status
                             /\ head = [p \in Platforms |-> l.head]
                             /\ policy \in l.policy
  BY <1>1 DEF Init
<1>3. /\ l.status \in [Releases -> ReleaseStates] /\ l.head \in Heads /\ l.policy \subseteq Policies
      /\ \A u \in {l.head.active, l.head.previous, l.head.candidate} \ {None} : l.status[ReleaseOf(u)] = "ready"
      /\ l.head.candidate # None =>
            l.head.bp > 0 /\ (l.head.candidate = l.head.active \/ Time(l.head.candidate) > Time(l.head.active))
  BY WorkloadsAssumption
<1>4. \A w \in Workers : task[w] = Idle /\ task[w].pc = "idle"
  BY <1>1 DEF Init, Idle
<1>5. task \in [Workers -> Tasks]
  BY <1>1 DEF Init, Tasks
<1>6. changeReq \in Seq(ChangeRows) /\ policyReq \in Seq(PolicyRows) /\ DOMAIN changeReq = {} /\ DOMAIN policyReq = {}
  BY <1>1 DEF Init
<1>7. Types
  <2>1. status \in [Releases -> ReleaseStates] /\ head \in [Platforms -> Heads] /\ policy \in Policies
    BY <1>2, <1>3
  <2> QED
    BY <1>1, <1>4, <1>5, <1>6, <2>1 DEF Init, Types, PlansMade, At
<1>8. HeadInv
  <2>1. ASSUME NEW p \in Platforms PROVE Shared(head[p]) /\ Ready(head[p]) /\ Ordered(head[p])
    <3>1. head[p] = l.head /\ l.head.bp \in 0..Full - 1
      BY <1>2, <1>3, HeadFields
    <3> QED
      BY <1>2, <1>3, <3>1, OtaAssumption DEF Shared, Ready, Ordered
  <2> QED
    BY <1>4, <2>1 DEF HeadInv, At
<1>9. PolicyInv
  BY <1>4, <1>6 DEF PolicyInv, PolicyPCs
<1>10. ChangeInv
  BY <1>4, <1>6 DEF ChangeInv, ChangeOK, Solo, ReadNow, UnderNow, PendingNow, PolicyPCs, ChangePCs
<1> QED
  BY <1>7, <1>8, <1>9, <1>10 DEF Inv

\* The changes that are asked for are changes.
LEMMA AskedChanges ==
    /\ \A u \in Releases, bp \in 1..Full : Change("promote", u, bp, Platforms) \in Changes
    /\ \A kind \in {"rollout", "complete", "resume"}, bp \in 1..Full : RolloutChange(kind, bp) \in Changes
    /\ \A kind \in Stops, on \in SUBSET Platforms : Change(kind, None, 0, on) \in Changes
<1>1. \A u \in Releases, bp \in 1..Full : Change("promote", u, bp, Platforms) \in Changes
  BY DEF Change, Changes
<1>2. \A kind \in StopKinds, on \in SUBSET Platforms : Change(kind, None, 0, on) \in Changes
  BY DEF Change, Changes
<1>3. ASSUME NEW kind \in {"rollout", "complete", "resume"}, NEW bp \in 1..Full
      PROVE  RolloutChange(kind, bp) \in Changes
  <2>1. CASE kind = "rollout" /\ bp < Full
    <3>1. bp \in 1..Full - 1
      BY <2>1, OtaAssumption
    <3> QED
      BY <2>1, <3>1 DEF RolloutChange, Change, Changes
  <2>2. CASE ~(kind = "rollout" /\ bp < Full)
    <3>1. "resume" \in StopKinds /\ "complete" \in StopKinds
      BY DEF StopKinds
    <3> QED
      BY <1>2, <2>2, <3>1 DEF RolloutChange
  <2> QED
    BY <2>1, <2>2
<1> QED
  BY <1>1, <1>2, <1>3 DEF StopKinds

LEMMA ReleaseKeeps ==
    ASSUME Inv, NEW u \in Releases, Finalize(u) \/ Abandon(u) \/ VerifyAssets(u)
    PROVE  Inv'
<1>1. {"verifying", "ready", "failed"} \subseteq ReleaseStates
  BY DEF ReleaseStates
<1> QED
  BY <1>1, SetStatusKeeps DEF Finalize, Abandon, VerifyAssets

LEMMA WorkerStepKeeps ==
    ASSUME Inv, NEW w \in Workers, WorkerStep(w)
    PROVE  Inv'
  BY PlanKeeps, WriteHeadsKeeps, InvalidateKeeps, SupersedeChangesKeeps, RequestChangeKeeps,
     SupersedePoliciesKeeps, RequestPolicyKeeps, ReadPolicyKeeps, SetPolicyKeeps, SweepKeeps DEF WorkerStep

LEMMA NextInv == Inv /\ [Next]_vars => Inv'
<1>1. SUFFICES ASSUME Inv, [Next]_vars PROVE Inv'
  OBVIOUS
<1>2. ASSUME NEW w \in Workers, NEW u \in Releases, NEW bp \in 1..Full, Promote(w, u, bp) PROVE Inv'
  BY <1>1, <1>2, AskedChanges, StartChangeKeeps DEF Promote
<1>3. ASSUME NEW w \in Workers, NEW kind \in {"rollout", "complete", "resume"}, NEW bp \in 1..Full, ChangeRollout(w, kind, bp)
      PROVE  Inv'
  BY <1>1, <1>3, AskedChanges, StartChangeKeeps DEF ChangeRollout
<1>4. ASSUME NEW w \in Workers, NEW kind \in Stops, NEW on \in {Platforms} \cup {{p} : p \in Platforms}, Stop(w, kind, on)
      PROVE  Inv'
  <2> DEFINE all == IF kind = "pause" THEN Platforms ELSE on
  <2>1. all \in SUBSET Platforms
    OBVIOUS
  <2>2. StartChange(w, Change(kind, None, 0, all))
    BY <1>4 DEF Stop
  <2> HIDE DEF all
  <2> QED
    BY <1>1, <2>1, <2>2, AskedChanges, StartChangeKeeps
<1>5. CASE UNCHANGED vars
  <2>1. UNCHANGED <<status, head, channel, requests, stale, skew, unswept, left, task>> /\ UNCHANGED <<cache, check, device>>
    BY <1>5 DEF vars, serving
  <2> QED
    BY <1>1, <2>1, ServingKeeps DEF Inv, Types
<1> QED
  BY <1>1, <1>2, <1>3, <1>4, <1>5, WorkerStepKeeps, KillKeeps, ChangePolicyKeeps, ApproveChangeKeeps,
     ApprovePolicyKeeps, RejectChangeKeeps, RejectPolicyKeeps, ReleaseKeeps, ServingSteps DEF Next

LEMMA AlwaysInv == Spec => []Inv
  BY InitInv, NextInv, PTL DEF Spec

-----------------------------------------------------------------------------
(* Theorems                                                                *)

\* The rows of a channel, its requests and what is served keep their types; a rollout
\* never writes the share of all devices (the schemas of channel changes), whatever plans
\* were written over each other.
THEOREM TypeSafety == Spec => []TypeOK
<1>1. Inv => TypeOK
  <2>1. SUFFICES ASSUME Inv PROVE TypeOK
    OBVIOUS
  <2>2. Types
    BY <2>1 DEF Inv
  <2>3. \A i \in DOMAIN changeReq : changeReq[i].state \in RequestStates /\ changeReq[i].under \in Policies
    <3>1. \A i \in DOMAIN changeReq : changeReq[i] \in ChangeRows
      BY <2>2 DEF Types
    <3>2. \A r \in ChangeRows : r.state \in RequestStates /\ r.under \in Policies
      BY DEF ChangeRows
    <3> QED
      BY <3>1, <3>2
  <2>4. \A i \in DOMAIN policyReq : policyReq[i].state \in RequestStates /\ policyReq[i].under \in Policies
    <3>1. \A i \in DOMAIN policyReq : policyReq[i] \in PolicyRows
      BY <2>2 DEF Types
    <3>2. \A r \in PolicyRows : r.state \in RequestStates /\ r.under \in Policies
      BY DEF PolicyRows
    <3> QED
      BY <3>1, <3>2
  <2>5. \A w \in Workers : task[w].pc \in PCs
    BY <2>2, TaskKinds DEF Types
  <2> QED
    BY <2>2, <2>3, <2>4, <2>5 DEF Types, TypeOK
<1> QED
  BY <1>1, AlwaysInv, PTL

\* OtaChannelService.writeHeads: a candidate always has some devices and not all of them,
\* for any changes, any number of invocations and any stale plans.
THEOREM RolloutsBounded == Spec => []RolloutBounded
<1>1. Inv => RolloutBounded
  BY DEF Inv, HeadInv, Shared, RolloutBounded
<1> QED
  BY <1>1, AlwaysInv, PTL

\* OtaChannelService.planPromotion and rollbackOf: only releases whose assets UploadService
\* verified are served, rolled out or gone back to, though the plan that serves them may be
\* written long after it was made.
THEOREM ServesVerified == Spec => []ServedReady
<1>1. Inv => ServedReady
  BY DEF Inv, HeadInv, Ready, ServedReady
<1> QED
  BY <1>1, AlwaysInv, PTL

\* What changes the heads, and the policy.
LEMMA HeadWriters ==
    ASSUME [Next]_vars, head' # head
    PROVE  \E w \in Workers : WriteHeads(w)
  BY DEF Next, vars, WorkerStep, Plan, WriteHeads, Invalidate, SupersedeChanges, RequestChange,
         SupersedePolicies, RequestPolicy, ReadPolicy, SetPolicy, Sweep, Kill, Promote, ChangeRollout, Stop,
         StartChange, ChangePolicy, ApproveChange, ApprovePolicy, RejectChange, RejectPolicy,
         Finalize, Abandon, VerifyAssets, SetStatus, CheckStep, CheckCached, FindServingState, Remember, Forget

LEMMA PolicyWriters ==
    ASSUME [Next]_vars, policy' # policy
    PROVE  \E w \in Workers : SetPolicy(w) /\ stamp = task[w].at
  BY DEF Next, vars, channel, WorkerStep, Plan, WriteHeads, Invalidate, SupersedeChanges, RequestChange,
         SupersedePolicies, RequestPolicy, ReadPolicy, SetPolicy, Sweep, Kill, Promote, ChangeRollout, Stop,
         StartChange, ChangePolicy, ApproveChange, ApprovePolicy, RejectChange, RejectPolicy,
         Finalize, Abandon, VerifyAssets, SetStatus, CheckStep, CheckCached, FindServingState, Remember, Forget

\* OtaChannelService.planPromotion and rollbackOf: unless a plan was written over heads it
\* was not made for, what becomes active is newer than what was, and no older than what
\* was rolled out.
THEOREM ActiveAdvances == Spec => HeadAdvances
<1> DEFINE A == ~stale' => \A p \in Platforms : head'[p].active # head[p].active =>
                  /\ Time(head'[p].active) > Time(head[p].active)
                  /\ Time(head'[p].active) >= Time(head[p].candidate)
<1>1. Inv /\ [Next]_vars => [A]_vars
  <2>1. SUFFICES ASSUME Inv, [Next]_vars, ~stale', NEW p \in Platforms, head'[p].active # head[p].active
                 PROVE  /\ Time(head'[p].active) > Time(head[p].active)
                        /\ Time(head'[p].active) >= Time(head[p].candidate)
    OBVIOUS
  <2>2. PICK w \in Workers : WriteHeads(w)
    BY <2>1, HeadWriters
  <2>3. Advanced(head[p], head'[p])
    BY <2>1, <2>2, WriteHeadsEffect
  <2> QED
    BY <2>1, <2>3 DEF Advanced
<1>2. [][A]_vars => HeadAdvances
  BY PTL DEF HeadAdvances
<1> HIDE DEF A
<1> QED
  BY <1>1, <1>2, AlwaysInv, PTL DEF Spec

\* OtaHostingService.applyApprovedPolicy with setPolicyIfUnchanged: a protected channel's
\* policy changes only by a request that was approved under that very policy.
THEOREM PolicyByApproval == Spec => PolicyGoverned
<1> DEFINE A == policy' # policy /\ policy # "open" =>
                  \E w \in Workers : /\ task[w].pc = "setPolicy" /\ task[w].req # 0
                                     /\ policyReq[task[w].req].state = "approved"
                                     /\ policyReq[task[w].req].under = policy
<1>1. Inv /\ [Next]_vars => [A]_vars
  <2>1. SUFFICES ASSUME Inv, [Next]_vars, policy' # policy, policy # "open"
                 PROVE  \E w \in Workers : /\ task[w].pc = "setPolicy" /\ task[w].req # 0
                                           /\ policyReq[task[w].req].state = "approved"
                                           /\ policyReq[task[w].req].under = policy
    OBVIOUS
  <2>2. PICK w \in Workers : task[w].pc = "setPolicy" /\ stamp = task[w].at
    BY <2>1, PolicyWriters DEF SetPolicy, At
  <2>3. RulingOK(task[w])
    BY <2>1, <2>2 DEF Inv, PolicyInv, PolicyPCs
  <2> QED
    BY <2>1, <2>2, <2>3 DEF RulingOK, Stamped
<1>2. [][A]_vars => PolicyGoverned
  BY PTL DEF PolicyGoverned
<1> HIDE DEF A
<1> QED
  BY <1>1, <1>2, AlwaysInv, PTL DEF Spec

\* OtaChannelService.changeOrRequest and applyApproved: unless a change of the policy
\* overlapped another change, a protected channel moves forward only by an approved request
\* for this very change, whatever is killed; and unless an invocation was killed between
\* setting a policy and its sweep, the request was made under the policy in force.
THEOREM ForwardByApproval == Spec => ForwardApproved
<1> DEFINE A == head' # head /\ policy # "open" /\ ~skew =>
                  \E w \in Workers : /\ task[w].pc = "write" /\ task'[w].pc = "invalidate"
                                     /\ \/ task[w].ch.kind \in Stops
                                        \/ /\ task[w].req # 0
                                           /\ changeReq[task[w].req].ch = task[w].ch
                                           /\ changeReq[task[w].req].state = "approved"
                                           /\ unswept \/ changeReq[task[w].req].under = policy
<1>1. Inv /\ [Next]_vars => [A]_vars
  <2>1. SUFFICES ASSUME Inv, [Next]_vars, head' # head, policy # "open", ~skew PROVE A
    OBVIOUS
  <2>2. PICK w \in Workers : WriteHeads(w)
    BY <2>1, HeadWriters
  <2>3. task[w].pc = "write" /\ task'[w].pc = "invalidate"
    BY <2>1, <2>2, WriteHeadsEffect
  <2>4. /\ ChangeOK(task[w])
        /\ task[w].req = 0 => task[w].under = policy
        /\ unswept \/ task[w].under = policy
    BY <2>1, <2>3 DEF Inv, ChangeInv, ReadNow, UnderNow, ChangePCs
  <2> QED
    BY <2>1, <2>3, <2>4 DEF ChangeOK
<1>2. [][A]_vars => ForwardApproved
  BY PTL DEF ForwardApproved
<1> HIDE DEF A
<1> QED
  BY <1>1, <1>2, AlwaysInv, PTL DEF Spec

-----------------------------------------------------------------------------
(* Both kinds of requests keep the contract of module DecidedOnce.  A       *)
(* request is its number; those not yet opened are "none".                  *)

Numbers == Nat \ {0}
StateOf(reqs) == [i \in Numbers |-> IF i \in DOMAIN reqs THEN reqs[i].state ELSE "none"]

\* The requests whose handler is about to begin: a change at its plan, a policy at the
\* read of the channel.  Without a request, a plan acts for the number 0.
Holds(w, pc) == task[w].pc = pc /\ task[w].req \in Numbers
Begins(pc) == {i \in Numbers : \E w \in Workers : task[w].pc = pc /\ task[w].req = i}

CD == INSTANCE DecidedOnce WITH
         Asked <- Numbers, Acting <- Numbers, decision <- StateOf(changeReq), granted <- Begins("plan")
PD == INSTANCE DecidedOnce WITH
         Asked <- Numbers, Acting <- Numbers, decision <- StateOf(policyReq), granted <- Begins("readPolicy")

\* A request is opened.
LEMMA StateAppended ==
    ASSUME NEW Rows, NEW reqs \in Seq(Rows), NEW r \in Rows
    PROVE  /\ Len(reqs) + 1 \in Numbers
           /\ StateOf(reqs)[Len(reqs) + 1] = "none"
           /\ StateOf(Append(reqs, r)) = [StateOf(reqs) EXCEPT ![Len(reqs) + 1] = r.state]
<1> DEFINE n == Len(reqs) + 1
<1>1. n \in Numbers /\ DOMAIN reqs = 1..Len(reqs) /\ Len(reqs) \in Nat
  BY DEF Numbers
<1>2. /\ DOMAIN Append(reqs, r) = 1..n /\ Append(reqs, r)[n] = r
      /\ \A i \in 1..Len(reqs) : Append(reqs, r)[i] = reqs[i]
  BY <1>1
<1>3. \A i \in Numbers : i \in 1..n <=> i \in 1..Len(reqs) \/ i = n
  BY <1>1 DEF Numbers
<1>4. n \notin 1..Len(reqs)
  BY <1>1
<1> HIDE DEF n
<1>5. \A i \in Numbers : StateOf(Append(reqs, r))[i] = [StateOf(reqs) EXCEPT ![n] = r.state][i]
  BY <1>1, <1>2, <1>3, <1>4 DEF StateOf
<1>6. StateOf(Append(reqs, r)) = [StateOf(reqs) EXCEPT ![n] = r.state]
  BY <1>5 DEF StateOf
<1> QED
  BY <1>1, <1>4, <1>6 DEF StateOf, n

\* How a step of one worker changes which handlers are about to begin.
LEMMA BeginsStep ==
    ASSUME NEW pc, NEW w \in Workers, \A v \in Workers \ {w} : task'[v] = task[v]
    PROVE  /\ ~Holds(w, pc) /\ ~Holds(w, pc)' => Begins(pc)' = Begins(pc)
           /\ ~Holds(w, pc) /\ Holds(w, pc)' => Begins(pc)' = Begins(pc) \cup {task'[w].req}
           /\ Holds(w, pc) /\ ~Holds(w, pc)' =>
                  /\ task[w].req \in Begins(pc)
                  /\ Begins(pc)' = Begins(pc) \/ Begins(pc)' = Begins(pc) \ {task[w].req}
<1>1. CASE ~Holds(w, pc)
  BY <1>1 DEF Holds, Begins
<1>2. CASE Holds(w, pc) /\ ~Holds(w, pc)'
  <2>1. task[w].req \in Begins(pc)
    BY <1>2 DEF Holds, Begins
  <2>2. \A i \in Numbers \ {task[w].req} : i \in Begins(pc)' <=> i \in Begins(pc)
    BY <1>2 DEF Holds, Begins
  <2>3. Begins(pc) \subseteq Numbers /\ Begins(pc)' \subseteq Numbers
    BY DEF Begins
  <2> QED
    BY <1>2, <2>1, <2>2, <2>3
<1> QED
  BY <1>1, <1>2

\* No statement of a task leads to the first statement of a handler.
LEMMA Moves ==
    ASSUME Types, NEW w \in Workers, WorkerStep(w) \/ Kill(w)
    PROVE  /\ \A v \in Workers \ {w} : task'[v] = task[v]
           /\ task'[w].pc \notin {"plan", "readPolicy"}
<1> DEFINE Goal == /\ \A v \in Workers \ {w} : task'[v] = task[v]
                   /\ task'[w].pc \notin {"plan", "readPolicy"}
<1>1. ASSUME NEW t, Become(w, t), t.pc \notin {"plan", "readPolicy"} PROVE Goal
  BY <1>1 DEF Types, Become
<1>2. ASSUME NEW pc, Goto(w, pc), pc \notin {"plan", "readPolicy"} PROVE Goal
  <2>1. task[w] \in Tasks
    BY DEF Types
  <2>2. [task[w] EXCEPT !.pc = pc].pc = pc
    BY <2>1 DEF Tasks, ChangeTasks, PolicyTasks, Idle, Invalidating
  <2> DEFINE t == [task[w] EXCEPT !.pc = pc]
  <2>3. Become(w, t) /\ t.pc \notin {"plan", "readPolicy"}
    BY <1>2, <2>2 DEF Goto
  <2> HIDE DEF t
  <2> QED
    BY <1>1, <2>3
<1>3. Idle.pc = "idle"
  BY DEF Idle
<1>4. ASSUME Plan(w) PROVE Goal
  <2> DEFINE t1 == [task[w] EXCEPT !.pc = "write"]
             t2 == [t1 EXCEPT !.seen = head]
  <2>1. Become(w, Idle) \/ Become(w, t2) \/ Goto(w, "supersede")
    BY <1>4 DEF Plan
  <2>2. task[w] \in ChangeTasks
    BY <1>4, TaskKinds DEF Plan, At, Types, ChangePCs
  <2>3. t1 \in ChangeTasks /\ t1.pc = "write"
    BY <2>2 DEF ChangeTasks, ChangePCs
  <2> HIDE DEF t1
  <2>4. t2.pc = "write"
    BY <2>3 DEF ChangeTasks
  <2> HIDE DEF t2, Goal
  <2> QED
    BY <1>1, <1>2, <1>3, <2>1, <2>4
<1>5. ASSUME WriteHeads(w) PROVE Goal
  <2>1. Become(w, Invalidating) /\ Invalidating.pc = "invalidate"
    BY <1>5 DEF WriteHeads, Invalidating
  <2> HIDE DEF Goal
  <2> QED
    BY <1>1, <2>1
<1>6. ASSUME \/ Invalidate(w) \/ SupersedeChanges(w) \/ RequestChange(w) \/ SupersedePolicies(w)
             \/ RequestPolicy(w) \/ ReadPolicy(w) \/ SetPolicy(w) \/ Sweep(w) \/ Kill(w)
      PROVE  Goal
  <2>1. \/ Become(w, Idle) \/ Goto(w, "request") \/ Goto(w, "requestPolicy")
        \/ Goto(w, "setPolicy") \/ Goto(w, "sweep")
    BY <1>6 DEF Invalidate, SupersedeChanges, RequestChange, SupersedePolicies, RequestPolicy,
                ReadPolicy, SetPolicy, Sweep, Kill
  <2> HIDE DEF Goal
  <2> QED
    BY <1>1, <1>2, <1>3, <2>1
<1> HIDE DEF Goal
<1>7. Goal
  BY <1>4, <1>5, <1>6 DEF WorkerStep
<1> QED
  BY <1>7 DEF Goal

\* What an idle worker takes up acts for no request.
LEMMA TakesUp ==
    ASSUME Types, NEW w \in Workers,
           (\E ch : StartChange(w, ch)) \/ (\E to \in Policies : ChangePolicy(w, to))
    PROVE  /\ \A v \in Workers \ {w} : task'[v] = task[v]
           /\ ~Holds(w, "plan")' /\ ~Holds(w, "readPolicy")'
           /\ UNCHANGED requests
<1>1. ASSUME NEW ch, StartChange(w, ch)
      PROVE  /\ \A v \in Workers \ {w} : task'[v] = task[v]
             /\ task'[w].pc = "plan" /\ task'[w].req = 0
             /\ UNCHANGED requests
  BY <1>1 DEF StartChange, Types, Become, Changing
<1>2. ASSUME NEW to \in Policies, ChangePolicy(w, to)
      PROVE  /\ \A v \in Workers \ {w} : task'[v] = task[v]
             /\ task'[w].pc \in {"setPolicy", "supersedePolicies"}
             /\ UNCHANGED requests
  BY <1>2 DEF ChangePolicy, Types, Become, Ruling
<1> QED
  BY <1>1, <1>2 DEF Holds, Numbers

\* A worker that goes on, or starts something of its own: a change handler begins or
\* dies, or nothing happens to the contract.
LEMMA ChangeLeaves ==
    ASSUME NEW w \in Workers, \A v \in Workers \ {w} : task'[v] = task[v],
           changeReq' = changeReq, ~Holds(w, "plan")'
    PROVE  [CD!Next]_(CD!contractVars)
<1>1. StateOf(changeReq)' = StateOf(changeReq)
  BY DEF StateOf
<1>2. CASE Begins("plan")' = Begins("plan")
  BY <1>1, <1>2 DEF CD!contractVars
<1>3. CASE Holds(w, "plan") /\ task[w].req \in Begins("plan")
           /\ Begins("plan")' = Begins("plan") \ {task[w].req}
  <2>1. CD!UseOrLose(task[w].req)
    BY <1>1, <1>3 DEF CD!UseOrLose
  <2> QED
    BY <1>3, <2>1 DEF CD!Next, Holds
<1> QED
  BY <1>2, <1>3, BeginsStep

\* One change request gets its outcome.
LEMMA ChangeRow ==
    ASSUME Types, NEW i \in DOMAIN changeReq, NEW to, changeReq' = [changeReq EXCEPT ![i].state = to]
    PROVE  /\ DOMAIN changeReq' = DOMAIN changeReq /\ changeReq'[i].state = to
           /\ \A j \in DOMAIN changeReq \ {i} : changeReq'[j] = changeReq[j]
<1> DEFINE q == [changeReq[i] EXCEPT !.state = to]
<1>1. changeReq \in Seq(ChangeRows) /\ changeReq[i] \in ChangeRows
  BY DEF Types
<1>2. q.state = to
  BY <1>1 DEF ChangeRows
<1>3. changeReq' = [changeReq EXCEPT ![i] = q]
  OBVIOUS
<1> HIDE DEF q
<1> QED
  BY <1>1, <1>2, <1>3

\* Pending change requests get their outcome together.
ChangeOutcome(S, how) ==
    /\ S \subseteq DOMAIN changeReq
    /\ DOMAIN changeReq' = DOMAIN changeReq
    /\ \A i \in S : changeReq[i].state = "pending" /\ changeReq'[i].state = how
    /\ \A i \in DOMAIN changeReq \ S : changeReq'[i] = changeReq[i]

LEMMA ChangeStates ==
    ASSUME Types, NEW S, NEW how, ChangeOutcome(S, how)
    PROVE  /\ S \in SUBSET Numbers
           /\ \A i \in S : StateOf(changeReq)[i] = "pending"
           /\ StateOf(changeReq)' = [i \in Numbers |-> IF i \in S THEN how ELSE StateOf(changeReq)[i]]
<1>1. DOMAIN changeReq \subseteq Numbers
  BY DEF Types, Numbers
<1> QED
  BY <1>1 DEF StateOf, ChangeOutcome

\* Requests that close together.
LEMMA ChangeClosing ==
    ASSUME Types, NEW S, NEW how \in {"rejected", "superseded"}, ChangeOutcome(S, how),
           Begins("plan")' = Begins("plan")
    PROVE  [CD!Next]_(CD!contractVars)
<1>1. /\ S \in SUBSET Numbers
      /\ \A i \in S : StateOf(changeReq)[i] = "pending"
      /\ StateOf(changeReq)' = [i \in Numbers |-> IF i \in S THEN how ELSE StateOf(changeReq)[i]]
  BY ChangeStates
<1>2. CD!Close(S, how)
  BY <1>1 DEF CD!Close
<1> QED
  BY <1>1, <1>2 DEF CD!Next

\* Every step, for the change requests.
LEMMA ChangeContract ==
    ASSUME Types, [Next]_vars
    PROVE  [CD!Next]_(CD!contractVars)
<1> DEFINE Goal == [CD!Next]_(CD!contractVars)
<1>1. ASSUME NEW w \in Workers, SupersedeChanges(w) \/ Sweep(w) PROVE Goal
  <2> DEFINE S == {i \in DOMAIN changeReq : changeReq[i].state = "pending"}
  <2>1. changeReq' = Superseded(changeReq) /\ task[w].pc # "plan" /\ WorkerStep(w)
    BY <1>1 DEF SupersedeChanges, Sweep, At, WorkerStep
  <2>2. /\ DOMAIN changeReq' = DOMAIN changeReq
        /\ \A i \in DOMAIN changeReq : changeReq[i].state # "pending" => changeReq'[i] = changeReq[i]
        /\ \A i \in DOMAIN changeReq : changeReq[i].state = "pending" => changeReq'[i].state = "superseded"
    BY <2>1, SupersededChanges DEF Types
  <2>3. Begins("plan")' = Begins("plan")
    BY <2>1, Moves, BeginsStep DEF Holds
  <2>4. ChangeOutcome(S, "superseded")
    BY <2>2 DEF ChangeOutcome
  <2> HIDE DEF S
  <2> QED
    BY <2>3, <2>4, ChangeClosing
<1>2. ASSUME NEW w \in Workers, RequestChange(w) PROVE Goal
  <2>1. PICK r \in ChangeRows : changeReq' = Append(changeReq, r) /\ r.state = "pending"
    <3>1. task[w] \in ChangeTasks
      BY <1>2, TaskKinds DEF RequestChange, At, Types, ChangePCs
    <3> QED
      BY <1>2, <3>1 DEF RequestChange, ChangeRows, ChangeTasks, RequestStates
  <2>2. changeReq \in Seq(ChangeRows)
    BY DEF Types
  <2>3. task[w].pc # "plan" /\ WorkerStep(w)
    BY <1>2 DEF RequestChange, At, WorkerStep
  <2>4. Begins("plan")' = Begins("plan")
    BY <2>3, Moves, BeginsStep DEF Holds
  <2>5. /\ Len(changeReq) + 1 \in Numbers
        /\ StateOf(changeReq)[Len(changeReq) + 1] = "none"
        /\ StateOf(changeReq') = [StateOf(changeReq) EXCEPT ![Len(changeReq) + 1] = "pending"]
    BY <2>1, <2>2, StateAppended
  <2>6. StateOf(changeReq)' = StateOf(changeReq')
    BY DEF StateOf
  <2>7. CD!Open(Len(changeReq) + 1)
    BY <2>4, <2>5, <2>6 DEF CD!Open
  <2> QED
    BY <2>5, <2>7 DEF CD!Next
<1>3. ASSUME NEW w \in Workers, NEW i \in DOMAIN changeReq, ApproveChange(w, i) PROVE Goal
  <2>1. /\ task[w].pc # "plan" /\ changeReq[i].state = "pending"
        /\ changeReq' = [changeReq EXCEPT ![i].state = "approved"]
        /\ task'[w].pc = "plan" /\ task'[w].req = i
        /\ \A v \in Workers \ {w} : task'[v] = task[v]
    BY <1>3 DEF ApproveChange, At, Types, Become, Changing
  <2>2. /\ DOMAIN changeReq' = DOMAIN changeReq /\ changeReq'[i].state = "approved"
        /\ \A j \in DOMAIN changeReq \ {i} : changeReq'[j] = changeReq[j]
    BY <2>1, ChangeRow
  <2>3. ChangeOutcome({i}, "approved")
    BY <2>1, <2>2 DEF ChangeOutcome
  <2>4. /\ {i} \in SUBSET Numbers
        /\ \A j \in {i} : StateOf(changeReq)[j] = "pending"
        /\ StateOf(changeReq)' = [j \in Numbers |-> IF j \in {i} THEN "approved" ELSE StateOf(changeReq)[j]]
    BY <2>3, ChangeStates
  <2>5. Begins("plan")' = Begins("plan") \cup {i}
    BY <2>1, <2>4, BeginsStep DEF Holds
  <2>6. StateOf(changeReq)' = [StateOf(changeReq) EXCEPT ![i] = "approved"]
    BY <2>4 DEF StateOf
  <2>7. CD!Approve(i)
    BY <2>4, <2>5, <2>6 DEF CD!Approve
  <2> QED
    BY <2>4, <2>7 DEF CD!Next
<1>4. ASSUME NEW i \in DOMAIN changeReq, RejectChange(i) PROVE Goal
  <2>1. changeReq[i].state = "pending" /\ changeReq' = [changeReq EXCEPT ![i].state = "rejected"] /\ task' = task
    BY <1>4 DEF RejectChange
  <2>2. /\ DOMAIN changeReq' = DOMAIN changeReq /\ changeReq'[i].state = "rejected"
        /\ \A j \in DOMAIN changeReq \ {i} : changeReq'[j] = changeReq[j]
    BY <2>1, ChangeRow
  <2>3. ChangeOutcome({i}, "rejected")
    BY <2>1, <2>2 DEF ChangeOutcome
  <2>4. Begins("plan")' = Begins("plan")
    BY <2>1 DEF Begins
  <2> QED
    BY <2>3, <2>4, ChangeClosing
<1>5. ASSUME NEW w \in Workers, WorkerStep(w) \/ Kill(w), changeReq' = changeReq PROVE Goal
  BY <1>5, Moves, ChangeLeaves DEF Holds
<1>6. ASSUME NEW w \in Workers, (\E ch : StartChange(w, ch)) \/ (\E to \in Policies : ChangePolicy(w, to))
      PROVE  Goal
  <2>1. changeReq' = changeReq
    BY <1>6, TakesUp DEF requests
  <2> QED
    BY <1>6, <2>1, TakesUp, ChangeLeaves
<1>7. ASSUME NEW w \in Workers, NEW i, ApprovePolicy(w, i) PROVE Goal
  <2>1. changeReq' = changeReq /\ task'[w].pc # "plan" /\ \A v \in Workers \ {w} : task'[v] = task[v]
    BY <1>7 DEF ApprovePolicy, Types, Become, Ruling
  <2> QED
    BY <2>1, ChangeLeaves DEF Holds
<1>8. ASSUME changeReq' = changeReq, task' = task PROVE Goal
  BY <1>8 DEF CD!contractVars, StateOf, Begins
<1> HIDE DEF Goal
<1>9. ASSUME NEW w \in Workers, WorkerStep(w) \/ Kill(w) PROVE Goal
  <2>1. changeReq' = changeReq \/ SupersedeChanges(w) \/ Sweep(w) \/ RequestChange(w)
    BY <1>9 DEF WorkerStep, Plan, WriteHeads, Invalidate, SupersedePolicies, RequestPolicy,
                ReadPolicy, SetPolicy, Sweep, Kill, requests
  <2> QED
    BY <1>1, <1>2, <1>5, <1>9, <2>1
<1>10. ASSUME \/ \E i : RejectPolicy(i)
              \/ \E u \in Releases : Finalize(u) \/ Abandon(u) \/ VerifyAssets(u)
              \/ CheckStep \/ Forget \/ UNCHANGED vars
       PROVE  Goal
  <2>1. changeReq' = changeReq /\ task' = task
    BY <1>10 DEF RejectPolicy, Finalize, Abandon, VerifyAssets, SetStatus,
                 CheckStep, CheckCached, FindServingState, Remember, Forget, vars, requests
  <2> QED
    BY <1>8, <2>1
<1>11. Goal
  BY <1>3, <1>4, <1>6, <1>7, <1>9, <1>10 DEF Next, Promote, ChangeRollout, Stop
<1> QED
  BY <1>11 DEF Goal

\* A worker that goes on, or starts something of its own: a policy handler begins or
\* dies, or nothing happens to the contract.
LEMMA PolicyLeaves ==
    ASSUME NEW w \in Workers, \A v \in Workers \ {w} : task'[v] = task[v],
           policyReq' = policyReq, ~Holds(w, "readPolicy")'
    PROVE  [PD!Next]_(PD!contractVars)
<1>1. StateOf(policyReq)' = StateOf(policyReq)
  BY DEF StateOf
<1>2. CASE Begins("readPolicy")' = Begins("readPolicy")
  BY <1>1, <1>2 DEF PD!contractVars
<1>3. CASE Holds(w, "readPolicy") /\ task[w].req \in Begins("readPolicy")
           /\ Begins("readPolicy")' = Begins("readPolicy") \ {task[w].req}
  <2>1. PD!UseOrLose(task[w].req)
    BY <1>1, <1>3 DEF PD!UseOrLose
  <2> QED
    BY <1>3, <2>1 DEF PD!Next, Holds
<1> QED
  BY <1>2, <1>3, BeginsStep

\* One policy request gets its outcome.
LEMMA PolicyRow ==
    ASSUME Types, NEW i \in DOMAIN policyReq, NEW to, policyReq' = [policyReq EXCEPT ![i].state = to]
    PROVE  /\ DOMAIN policyReq' = DOMAIN policyReq /\ policyReq'[i].state = to
           /\ \A j \in DOMAIN policyReq \ {i} : policyReq'[j] = policyReq[j]
<1> DEFINE q == [policyReq[i] EXCEPT !.state = to]
<1>1. policyReq \in Seq(PolicyRows) /\ policyReq[i] \in PolicyRows
  BY DEF Types
<1>2. q.state = to
  BY <1>1 DEF PolicyRows
<1>3. policyReq' = [policyReq EXCEPT ![i] = q]
  OBVIOUS
<1> HIDE DEF q
<1> QED
  BY <1>1, <1>2, <1>3

\* Pending policy requests get their outcome together.
PolicyOutcome(S, how) ==
    /\ S \subseteq DOMAIN policyReq
    /\ DOMAIN policyReq' = DOMAIN policyReq
    /\ \A i \in S : policyReq[i].state = "pending" /\ policyReq'[i].state = how
    /\ \A i \in DOMAIN policyReq \ S : policyReq'[i] = policyReq[i]

LEMMA PolicyStates ==
    ASSUME Types, NEW S, NEW how, PolicyOutcome(S, how)
    PROVE  /\ S \in SUBSET Numbers
           /\ \A i \in S : StateOf(policyReq)[i] = "pending"
           /\ StateOf(policyReq)' = [i \in Numbers |-> IF i \in S THEN how ELSE StateOf(policyReq)[i]]
<1>1. DOMAIN policyReq \subseteq Numbers
  BY DEF Types, Numbers
<1> QED
  BY <1>1 DEF StateOf, PolicyOutcome

\* Requests that close together.
LEMMA PolicyClosing ==
    ASSUME Types, NEW S, NEW how \in {"rejected", "superseded"}, PolicyOutcome(S, how),
           Begins("readPolicy")' = Begins("readPolicy")
    PROVE  [PD!Next]_(PD!contractVars)
<1>1. /\ S \in SUBSET Numbers
      /\ \A i \in S : StateOf(policyReq)[i] = "pending"
      /\ StateOf(policyReq)' = [i \in Numbers |-> IF i \in S THEN how ELSE StateOf(policyReq)[i]]
  BY PolicyStates
<1>2. PD!Close(S, how)
  BY <1>1 DEF PD!Close
<1> QED
  BY <1>1, <1>2 DEF PD!Next

\* Every step, for the policy requests.
LEMMA PolicyContract ==
    ASSUME Types, [Next]_vars
    PROVE  [PD!Next]_(PD!contractVars)
<1> DEFINE Goal == [PD!Next]_(PD!contractVars)
<1>1. ASSUME NEW w \in Workers, SupersedePolicies(w) PROVE Goal
  <2> DEFINE S == {i \in DOMAIN policyReq : policyReq[i].state = "pending"}
  <2>1. policyReq' = Superseded(policyReq) /\ task[w].pc # "readPolicy" /\ WorkerStep(w)
    BY <1>1 DEF SupersedePolicies, At, WorkerStep
  <2>2. /\ DOMAIN policyReq' = DOMAIN policyReq
        /\ \A i \in DOMAIN policyReq : policyReq[i].state # "pending" => policyReq'[i] = policyReq[i]
        /\ \A i \in DOMAIN policyReq : policyReq[i].state = "pending" => policyReq'[i].state = "superseded"
    BY <2>1, SupersededPolicies DEF Types
  <2>3. Begins("readPolicy")' = Begins("readPolicy")
    BY <2>1, Moves, BeginsStep DEF Holds
  <2>4. PolicyOutcome(S, "superseded")
    BY <2>2 DEF PolicyOutcome
  <2> HIDE DEF S
  <2> QED
    BY <2>3, <2>4, PolicyClosing
<1>2. ASSUME NEW w \in Workers, RequestPolicy(w) PROVE Goal
  <2>1. PICK r \in PolicyRows : policyReq' = Append(policyReq, r) /\ r.state = "pending"
    <3>1. task[w] \in PolicyTasks
      BY <1>2, TaskKinds DEF RequestPolicy, At, Types, PolicyPCs
    <3> QED
      BY <1>2, <3>1 DEF RequestPolicy, PolicyRows, PolicyTasks, RequestStates
  <2>2. policyReq \in Seq(PolicyRows)
    BY DEF Types
  <2>3. task[w].pc # "readPolicy" /\ WorkerStep(w)
    BY <1>2 DEF RequestPolicy, At, WorkerStep
  <2>4. Begins("readPolicy")' = Begins("readPolicy")
    BY <2>3, Moves, BeginsStep DEF Holds
  <2>5. /\ Len(policyReq) + 1 \in Numbers
        /\ StateOf(policyReq)[Len(policyReq) + 1] = "none"
        /\ StateOf(policyReq') = [StateOf(policyReq) EXCEPT ![Len(policyReq) + 1] = "pending"]
    BY <2>1, <2>2, StateAppended
  <2>6. StateOf(policyReq)' = StateOf(policyReq')
    BY DEF StateOf
  <2>7. PD!Open(Len(policyReq) + 1)
    BY <2>4, <2>5, <2>6 DEF PD!Open
  <2> QED
    BY <2>5, <2>7 DEF PD!Next
<1>3. ASSUME NEW w \in Workers, NEW i \in DOMAIN policyReq, ApprovePolicy(w, i) PROVE Goal
  <2>1. /\ task[w].pc # "readPolicy" /\ policyReq[i].state = "pending"
        /\ policyReq' = [policyReq EXCEPT ![i].state = "approved"]
        /\ task'[w].pc = "readPolicy" /\ task'[w].req = i
        /\ \A v \in Workers \ {w} : task'[v] = task[v]
    BY <1>3 DEF ApprovePolicy, At, Types, Become, Ruling
  <2>2. /\ DOMAIN policyReq' = DOMAIN policyReq /\ policyReq'[i].state = "approved"
        /\ \A j \in DOMAIN policyReq \ {i} : policyReq'[j] = policyReq[j]
    BY <2>1, PolicyRow
  <2>3. PolicyOutcome({i}, "approved")
    BY <2>1, <2>2 DEF PolicyOutcome
  <2>4. /\ {i} \in SUBSET Numbers
        /\ \A j \in {i} : StateOf(policyReq)[j] = "pending"
        /\ StateOf(policyReq)' = [j \in Numbers |-> IF j \in {i} THEN "approved" ELSE StateOf(policyReq)[j]]
    BY <2>3, PolicyStates
  <2>5. Begins("readPolicy")' = Begins("readPolicy") \cup {i}
    BY <2>1, <2>4, BeginsStep DEF Holds
  <2>6. StateOf(policyReq)' = [StateOf(policyReq) EXCEPT ![i] = "approved"]
    BY <2>4 DEF StateOf
  <2>7. PD!Approve(i)
    BY <2>4, <2>5, <2>6 DEF PD!Approve
  <2> QED
    BY <2>4, <2>7 DEF PD!Next
<1>4. ASSUME NEW i \in DOMAIN policyReq, RejectPolicy(i) PROVE Goal
  <2>1. policyReq[i].state = "pending" /\ policyReq' = [policyReq EXCEPT ![i].state = "rejected"] /\ task' = task
    BY <1>4 DEF RejectPolicy
  <2>2. /\ DOMAIN policyReq' = DOMAIN policyReq /\ policyReq'[i].state = "rejected"
        /\ \A j \in DOMAIN policyReq \ {i} : policyReq'[j] = policyReq[j]
    BY <2>1, PolicyRow
  <2>3. PolicyOutcome({i}, "rejected")
    BY <2>1, <2>2 DEF PolicyOutcome
  <2>4. Begins("readPolicy")' = Begins("readPolicy")
    BY <2>1 DEF Begins
  <2> QED
    BY <2>3, <2>4, PolicyClosing
<1>5. ASSUME NEW w \in Workers, WorkerStep(w) \/ Kill(w), policyReq' = policyReq PROVE Goal
  BY <1>5, Moves, PolicyLeaves DEF Holds
<1>6. ASSUME NEW w \in Workers, (\E ch : StartChange(w, ch)) \/ (\E to \in Policies : ChangePolicy(w, to))
      PROVE  Goal
  <2>1. policyReq' = policyReq
    BY <1>6, TakesUp DEF requests
  <2> QED
    BY <1>6, <2>1, TakesUp, PolicyLeaves
<1>7. ASSUME NEW w \in Workers, NEW i, ApproveChange(w, i) PROVE Goal
  <2>1. policyReq' = policyReq /\ task'[w].pc # "readPolicy" /\ \A v \in Workers \ {w} : task'[v] = task[v]
    BY <1>7 DEF ApproveChange, Types, Become, Changing
  <2> QED
    BY <2>1, PolicyLeaves DEF Holds
<1>8. ASSUME policyReq' = policyReq, task' = task PROVE Goal
  BY <1>8 DEF PD!contractVars, StateOf, Begins
<1> HIDE DEF Goal
<1>9. ASSUME NEW w \in Workers, WorkerStep(w) \/ Kill(w) PROVE Goal
  <2>1. policyReq' = policyReq \/ SupersedePolicies(w) \/ RequestPolicy(w)
    BY <1>9 DEF WorkerStep, Plan, WriteHeads, Invalidate, SupersedeChanges, RequestChange,
                ReadPolicy, SetPolicy, Sweep, Kill, requests
  <2> QED
    BY <1>1, <1>2, <1>5, <1>9, <2>1
<1>10. ASSUME \/ \E i : RejectChange(i)
              \/ \E u \in Releases : Finalize(u) \/ Abandon(u) \/ VerifyAssets(u)
              \/ CheckStep \/ Forget \/ UNCHANGED vars
       PROVE  Goal
  <2>1. policyReq' = policyReq /\ task' = task
    BY <1>10 DEF RejectChange, Finalize, Abandon, VerifyAssets, SetStatus,
                 CheckStep, CheckCached, FindServingState, Remember, Forget, vars, requests
  <2> QED
    BY <1>8, <2>1
<1>11. Goal
  BY <1>3, <1>4, <1>6, <1>7, <1>9, <1>10 DEF Next, Promote, ChangeRollout, Stop
<1> QED
  BY <1>11 DEF Goal

\* Whatever changes, newer changes, changes of the policy, votes and deaths interleave,
\* the requests of a channel, for changes of its heads and for its policy, keep the
\* promise of DecidedOnce: each is decided once, and only its approval starts
\* applyApproved or applyApprovedPolicy, once.
THEOREM RequestsKeepContract == Spec => CD!Spec /\ PD!Spec
<1>1. Init => CD!Init /\ PD!Init
  BY DEF Init, CD!Init, PD!Init, StateOf, Begins, Idle
<1>2. Inv /\ [Next]_vars => [CD!Next]_(CD!contractVars) /\ [PD!Next]_(PD!contractVars)
  BY ChangeContract, PolicyContract DEF Inv
<1> QED
  BY <1>1, <1>2, AlwaysInv, PTL DEF Spec, CD!Spec, PD!Spec
=============================================================================
