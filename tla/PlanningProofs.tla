---------------------------- MODULE PlanningProofs ----------------------------
(***************************************************************************)
(* Theorems about Planning, for any machines, recordings and catalogue: a  *)
(* run is as it was agreed, and a machine that got no worse is admitted    *)
(* again; about Timeline, for any audio, engine and diarizer: what was     *)
(* heard is kept, up to the chunks that are searched, and is read under    *)
(* those who spoke; about Languages and MediaProbe; about Retrieval, for   *)
(* any documents, chunks and scores: an answer is what was found.  What a  *)
(* fold of the community modules computes is shown by induction on how far *)
(* it is, with a set in the place of the predicate.                        *)
(***************************************************************************)
EXTENDS Planning, SpeakerPresentation, Languages, MediaProbe, Retrieval, FiniteSetTheorems, SequenceTheorems, NaturalsInduction, TLAPS

-----------------------------------------------------------------------------
(* Least and greatest.                                                      *)

Below == {p \in Nat \X Nat : p[1] < p[2]}

LEMMA BelowIsWellFounded == IsWellFoundedOn(Below, Nat)
<1>1. OpToRel(<, Nat) = Below
  BY DEF OpToRel, Below
<1> QED BY <1>1, NatLessThanWellFounded

\* A set of numbers has a least one.
LEMMA LeastNumber ==
  ASSUME NEW T \in SUBSET Nat, T # {}
  PROVE  \E x \in T : \A y \in T : x <= y
<1>1. PICK x \in T : \A y \in T : ~(<<y, x>> \in Below)
  BY BelowIsWellFounded, WFMin
<1>2. ASSUME NEW y \in T PROVE x <= y
  <2>1. <<y, x>> \in Nat \X Nat /\ <<y, x>>[1] = y /\ <<y, x>>[2] = x
    OBVIOUS
  <2>2. ~(y < x)
    BY <1>1, <2>1 DEF Below
  <2> QED BY <2>2
<1> QED BY <1>2

\* Induction, with a set for the predicate.
LEMMA Induction ==
  ASSUME NEW A, 0 \in A, \A n \in Nat : n \in A => n + 1 \in A
  PROVE  \A n \in Nat : n \in A
<1> DEFINE T == {n \in Nat : n \notin A}
<1> SUFFICES ASSUME T # {} PROVE FALSE
  OBVIOUS
<1>1. PICK x \in T : \A y \in T : x <= y
  BY LeastNumber
<1>2. x # 0 /\ x \in Nat
  OBVIOUS
<1>3. x - 1 \in Nat /\ ~(x <= x - 1)
  BY <1>2
<1>4. x - 1 \in A
  BY <1>1, <1>3
<1>5. (x - 1) + 1 \in A
  BY <1>3, <1>4
<1> QED BY <1>2, <1>5

\* What has a number has an element with a least number ...
LEMMA Smallest ==
  ASSUME NEW S, S # {}, NEW f \in [S -> Nat]
  PROVE  \E x \in S : \A y \in S : f[x] <= f[y]
<1> DEFINE T == {f[x] : x \in S}
<1>1. T \in SUBSET Nat /\ T # {}
  OBVIOUS
<1>2. PICK n \in T : \A m \in T : n <= m
  BY <1>1, LeastNumber
<1> QED BY <1>2

\* ... and, if there are finitely many, one with a greatest.  By induction on how
\* many there are: of the sets without one take a smallest, and leave out an element.
LEMMA Largest ==
  ASSUME NEW S, IsFiniteSet(S), S # {}, NEW f \in [S -> Nat]
  PROVE  \E x \in S : \A y \in S : f[x] >= f[y]
<1> DEFINE Has(T) == \E x \in T : \A y \in T : f[x] >= f[y]
           Without == {Cardinality(T) : T \in {U \in SUBSET S : U # {} /\ ~Has(U)}}
<1>1. CASE Without = {}
  BY <1>1
<1>2. CASE Without # {}
  <2>1. \A T \in SUBSET S : IsFiniteSet(T) /\ Cardinality(T) \in Nat
    BY FS_Subset, FS_CardinalityType
  <2>2. Without \in SUBSET Nat
    BY <2>1
  <2>3. PICK n \in Without : \A m \in Without : n <= m
    BY <1>2, <2>2, LeastNumber
  <2>4. PICK T \in SUBSET S : T # {} /\ ~Has(T) /\ n = Cardinality(T)
    BY <2>3
  <2>5. PICK x \in T : TRUE
    BY <2>4
  <2> DEFINE U == T \ {x}
  <2>6. U \in SUBSET S /\ Cardinality(U) = n - 1 /\ n \in Nat
    BY <2>1, <2>4, <2>5, FS_RemoveElement
  <2>7. CASE U = {}
    <3>1. T = {x} /\ f[x] \in Nat
      BY <2>5, <2>7
    <3> QED BY <2>4, <3>1
  <2>8. CASE U # {}
    <3>1. Cardinality(U) \notin Without
      BY <2>3, <2>6
    <3>2. Has(U)
      BY <2>6, <2>8, <3>1
    <3>3. PICK y \in U : \A z \in U : f[y] >= f[z]
      BY <3>2
    <3>4. f[x] \in Nat /\ f[y] \in Nat /\ \A z \in U : f[z] \in Nat
      BY <2>5, <2>6, <3>3
    <3>5. CASE f[x] >= f[y]
      <4>1. \A z \in T : f[x] >= f[z]
        BY <3>3, <3>4, <3>5
      <4> QED BY <2>4, <2>5, <4>1
    <3>6. CASE ~(f[x] >= f[y])
      <4>1. \A z \in T : f[y] >= f[z]
        BY <3>3, <3>4, <3>6
      <4> QED BY <2>4, <3>3, <4>1
    <3> QED BY <3>5, <3>6
  <2> QED BY <2>7, <2>8
<1> QED BY <1>1, <1>2

LEMMA MinIsLeast ==
  ASSUME NEW T \in SUBSET Nat, T # {}
  PROVE  Min(T) \in T /\ \A y \in T : Min(T) <= y
BY LeastNumber DEF Min

LEMMA MaxOfTwo ==
  ASSUME NEW a \in Nat, NEW b \in Nat
  PROVE  Max({a, b}) \in {a, b} /\ Max({a, b}) >= a /\ Max({a, b}) >= b
<1>1. \E x \in {a, b} : \A y \in {a, b} : x >= y
  <2>1. CASE a >= b
    BY <2>1
  <2>2. CASE ~(a >= b)
    BY <2>2
  <2> QED BY <2>1, <2>2
<1>2. Max({a, b}) \in {a, b} /\ \A y \in {a, b} : Max({a, b}) >= y
  BY <1>1 DEF Max
<1> QED BY <1>2

-----------------------------------------------------------------------------
(* What the planner chooses.                                                *)

USE PlanningAssumption DEF StrategyDefinition

LEMMA MachineFacts ==
  ASSUME NEW m \in Machines
  PROVE  /\ m.logical \in Nat \ {0} /\ m.quota \in Nat /\ m.available \in Nat
         /\ m.room \in Nat /\ m.free \in Nat /\ m.disk \in Nat
OBVIOUS

LEMMA ThreadsFacts ==
  ASSUME NEW m \in Machines
  PROVE  Threads(m) \in Nat /\ Threads(m) >= 1
<1>1. m.logical \in Nat /\ m.quota \in Nat /\ CpuLimit \in Nat
  BY MachineFacts
<1>2. Max({1, m.quota}) \in Nat
  BY <1>1, MaxOfTwo
<1>3. EffectiveCpus(m) \in Nat
  <2>1. {m.logical, Max({1, m.quota})} \in SUBSET Nat
    BY <1>1, <1>2
  <2> QED BY <2>1, MinIsLeast DEF EffectiveCpus
<1>4. Min({EffectiveCpus(m), CpuLimit}) \in Nat
  <2>1. {EffectiveCpus(m), CpuLimit} \in SUBSET Nat
    BY <1>1, <1>3
  <2> QED BY <2>1, MinIsLeast
<1> DEFINE k == Min({EffectiveCpus(m), CpuLimit})
<1>5. k \in Nat /\ Threads(m) = Max({1, k})
  BY <1>4 DEF Threads
<1> HIDE DEF k
<1>6. Max({1, k}) \in {1, k} /\ Max({1, k}) >= 1
  BY <1>5, MaxOfTwo
<1> QED BY <1>5, <1>6

\* More free memory of the device is no smaller a budget.
LEMMA DeviceBudgetGrows ==
  ASSUME NEW m \in Machines, NEW n \in Machines, m.free >= n.free
  PROVE  DeviceBudget(m) >= DeviceBudget(n) /\ DeviceBudget(m) \in Nat /\ DeviceBudget(n) \in Nat
<1>1. m.free \in Nat /\ n.free \in Nat
  BY MachineFacts
<1>2. \A a, b \in Nat : a >= b => (4 * a) \div 5 >= (4 * b) \div 5
  OBVIOUS
<1>3. \A a \in Nat : (4 * a) \div 5 \in Nat
  OBVIOUS
<1> QED BY <1>1, <1>2, <1>3 DEF DeviceBudget

\* There is a preferred strategy and a fastest one wherever there is one at all.
LEMMA PreferredFacts ==
  ASSUME NEW S \in SUBSET Strategies, S # {}, NEW profile \in Profiles
  PROVE  Preferred(S, profile) \in SUBSET S /\ Preferred(S, profile) # {}
<1>1. IsFiniteSet(S)
  BY FS_Subset
<1>2. \A T \in SUBSET Strategies : T # {} =>
        /\ \E s \in T : \A t \in T : s.quality <= t.quality
        /\ IsFiniteSet(T) => \E s \in T : \A t \in T : s.quality >= t.quality
  <2> SUFFICES ASSUME NEW T \in SUBSET Strategies, T # {}
               PROVE  /\ \E s \in T : \A t \in T : s.quality <= t.quality
                      /\ IsFiniteSet(T) => \E s \in T : \A t \in T : s.quality >= t.quality
    OBVIOUS
  <2> DEFINE f == [s \in T |-> s.quality]
  <2>1. f \in [T -> Nat]
    OBVIOUS
  <2>2. \A s \in T : f[s] = s.quality
    OBVIOUS
  <2> HIDE DEF f
  <2>3. \E x \in T : \A y \in T : f[x] <= f[y]
    BY <2>1, Smallest
  <2>4. IsFiniteSet(T) => \E x \in T : \A y \in T : f[x] >= f[y]
    BY <2>1, Largest
  <2> QED BY <2>2, <2>3, <2>4
<1>3. CASE profile = "screening"
  BY <1>2, <1>3 DEF Preferred
<1>4. CASE profile = "accuracy"
  BY <1>1, <1>2, <1>4 DEF Preferred
<1>5. CASE profile = "balanced"
  <2> DEFINE near == {s \in S : \A t \in S : Distance(s) <= Distance(t)}
             f == [s \in S |-> Distance(s)]
  <2>1. f \in [S -> Nat]
    BY DEF Distance
  <2>2. PICK x \in S : \A y \in S : f[x] <= f[y]
    BY <2>1, Smallest
  <2>3. x \in near
    BY <2>2
  <2>4. near \in SUBSET Strategies /\ IsFiniteSet(near)
    BY <1>1, FS_Subset
  <2> HIDE DEF near
  <2>5. \E s \in near : \A t \in near : s.quality >= t.quality
    BY <1>2, <2>3, <2>4
  <2>6. Preferred(S, profile) = {s \in near : \A t \in near : s.quality >= t.quality}
    BY <1>5 DEF Preferred, near
  <2>7. near \subseteq S
    BY DEF near
  <2> QED BY <2>5, <2>6, <2>7
<1> QED BY <1>3, <1>4, <1>5

LEMMA FastestFacts ==
  ASSUME NEW S \in SUBSET Strategies, S # {}
  PROVE  Fastest(S) \in S
<1> DEFINE f == [s \in S |-> s.speed]
<1>1. f \in [S -> Nat]
  OBVIOUS
<1>2. \A s \in S : f[s] = s.speed
  OBVIOUS
<1>3. IsFiniteSet(S)
  BY FS_Subset
<1> HIDE DEF f
<1>4. \E x \in S : \A y \in S : f[x] >= f[y]
  BY <1>1, <1>3, Largest
<1> QED BY <1>2, <1>4 DEF Fastest

LEMMA SelectedFacts ==
  ASSUME NEW m \in Machines, NEW src \in Sources, NEW r \in Requests, CanPlan(r, src, m)
  PROVE  Selected(m, r) \in FeasibleOn(m)
<1>1. CASE r.strategy # None
  BY <1>1 DEF Selected, CanPlan
<1>2. CASE r.strategy = None
  <2>1. r.profile \in Profiles
    BY DEF Requests
  <2>2. FeasibleOn(m) \in SUBSET Strategies /\ FeasibleOn(m) # {}
    BY DEF FeasibleOn, CanPlan
  <2> DEFINE P == Preferred(FeasibleOn(m), r.profile)
  <2>3. P \in SUBSET FeasibleOn(m) /\ P # {}
    BY <2>1, <2>2, PreferredFacts
  <2> HIDE DEF P
  <2>4. Fastest(P) \in P
    BY <2>2, <2>3, FastestFacts
  <2>5. Selected(m, r) = Fastest(P)
    BY <1>2 DEF Selected, P
  <2> QED BY <2>3, <2>4, <2>5
<1> QED BY <1>1, <1>2

-----------------------------------------------------------------------------
(* Plans.                                                                   *)

\* What every plan is, new or made from a contract.
GoodPlan(p) ==
  /\ p.settings.source \in Sources /\ p.settings.track \in p.settings.source.tracks
  /\ p.settings.strategy \in Strategies /\ p.settings.threads \in Nat
  /\ p.runner \in Machines /\ p.budget = Budget(p.runner)
  /\ p.settings.threads <= Threads(p.runner)
  /\ Feasible(p.settings.strategy, p.runner, p.budget)
  /\ p.policy = IF p.settings.strategy.cuda THEN Threads(p.runner) ELSE p.settings.threads
  /\ p.ahead = PrefetchDepth(p.settings.strategy, p.policy, p.settings.threads)
  /\ p.space = Space(p.settings.source, p.settings.enhance, p.ahead)

\* A new plan is one.
LEMMA NewPlanIsGood ==
  ASSUME NEW m \in Machines, NEW src \in Sources, NEW r \in Requests, CanPlan(r, src, m)
  PROVE  GoodPlan(NewPlan(r, src, m))
<1> DEFINE s == Selected(m, r)
           c == [source |-> src, track |-> Track(src, r), profile |-> r.profile, strategy |-> s,
                 threads |-> EngineThreads(m, s), enhance |-> r.enhance]
           p == Planned(src, m, c, Threads(m))
<1>1. NewPlan(r, src, m) = p
  BY DEF NewPlan
<1>2. /\ c.source = src /\ c.track = Track(src, r) /\ c.strategy = s
      /\ c.threads = EngineThreads(m, s)
  OBVIOUS
<1>3. s \in Strategies /\ Feasible(s, m, Budget(m))
  BY SelectedFacts DEF FeasibleOn
<1>4. Track(src, r) \in src.tracks
  <2>1. src.tracks \in SUBSET Nat /\ src.tracks # {}
    OBVIOUS
  <2>2. Min(src.tracks) \in src.tracks
    BY <2>1, MinIsLeast
  <2> QED BY <2>2 DEF Track, CanPlan
<1> HIDE DEF c, s
<1>5. /\ p.settings = c /\ p.policy = Threads(m) /\ p.runner = m /\ p.budget = Budget(m)
      /\ p.ahead = PrefetchDepth(c.strategy, p.policy, c.threads)
      /\ p.space = Space(c.source, c.enhance, p.ahead)
  BY <1>2 DEF Planned
<1> HIDE DEF p
<1>6. s.cuda \in BOOLEAN
  BY <1>3
<1>7. /\ EngineThreads(m, s) \in Nat /\ EngineThreads(m, s) <= Threads(m)
      /\ ~s.cuda => EngineThreads(m, s) = Threads(m)
  BY <1>6, ThreadsFacts DEF EngineThreads
<1> QED BY <1>1, <1>2, <1>3, <1>4, <1>5, <1>6, <1>7 DEF GoodPlan

\* A contract is resumed under the same settings.
LEMMA ResumePlanIsGood ==
  ASSUME NEW m \in Machines, NEW src \in Sources, NEW b, GoodPlan(b),
         CanResume(b.settings, src, m)
  PROVE  GoodPlan(ResumePlan(b.settings, src, m)) /\ ResumePlan(b.settings, src, m).settings = b.settings
<1> DEFINE c == b.settings
           policy == IF c.strategy.cuda THEN Threads(m) ELSE c.threads
           p == Planned(src, m, c, policy)
<1>1. ResumePlan(b.settings, src, m) = p
  BY DEF ResumePlan
<1>2. /\ c.source = src /\ c.track \in src.tracks /\ c.threads <= Threads(m)
      /\ c.strategy \in Strategies /\ c.threads \in Nat
      /\ c.strategy.memory <= Budget(m)
      /\ c.strategy.cuda => Feasible(c.strategy, m, Budget(m))
  BY DEF CanResume, GoodPlan
<1> HIDE DEF c
<1>3. Feasible(c.strategy, m, Budget(m))
  BY <1>2 DEF Feasible
<1>4. /\ p.settings = c /\ p.policy = policy /\ p.runner = m /\ p.budget = Budget(m)
      /\ p.ahead = PrefetchDepth(c.strategy, p.policy, c.threads)
      /\ p.space = Space(c.source, c.enhance, p.ahead)
  BY <1>2 DEF Planned
<1> HIDE DEF p
<1>5. GoodPlan(p)
  BY <1>2, <1>3, <1>4 DEF GoodPlan
<1> QED BY <1>1, <1>4, <1>5 DEF c

-----------------------------------------------------------------------------
(* A run, and the runs after it.                                            *)

Kept == contract # None => GoodPlan(began) /\ contract = began.settings

PlanInv ==
  /\ machine \in Machines /\ source \in Sources
  /\ stage = "idle" => plan = None
  /\ stage # "idle" => GoodPlan(plan)
  /\ Kept
  /\ stage \in {"readmit", "load", "run"} => plan.settings = began.settings
  /\ stage # "run" => depth = 0
  /\ stage = "run" => depth = 0 \/ (depth = 1 /\ plan.policy > plan.settings.threads)

LEMMA PlanInvInit == Init => PlanInv
BY DEF Init, PlanInv, Kept

LEMMA LeaveKeeps == ASSUME PlanInv, Leave PROVE PlanInv'
BY DEF PlanInv, Kept, Leave, kept, world

\* The stages before the contract is written or compared.
LEMMA PassEarly ==
  ASSUME PlanInv, stage # "idle", NEW next \in {"verify", "store", "prepare"}, stage # "run", Pass(next)
  PROVE  PlanInv'
BY DEF PlanInv, Kept, Pass, kept, world

LEMMA PassLate ==
  ASSUME PlanInv, stage # "idle", plan.settings = began.settings, stage # "run",
         NEW next \in {"readmit", "load"}, Pass(next)
  PROVE  PlanInv'
BY DEF PlanInv, Kept, Pass, kept, world

LEMMA PlanStep == PlanInv /\ [Next]_vars => PlanInv'
<1> SUFFICES ASSUME PlanInv, [Next]_vars PROVE PlanInv'
  OBVIOUS
<1>1. CASE Start
  <2>1. PICK r \in Requests : CanPlan(r, source, machine) /\ plan' = NewPlan(r, source, machine)
    BY <1>1 DEF Start
  <2>2. GoodPlan(plan')
    BY <2>1, NewPlanIsGood DEF PlanInv
  <2> QED BY <1>1, <2>2 DEF Start, PlanInv, Kept, GoodPlan, kept, world
<1>2. CASE Resume
  <2>1. GoodPlan(began) /\ contract = began.settings /\ machine \in Machines /\ source \in Sources
    BY <1>2 DEF Resume, PlanInv, Kept
  <2>2. CanResume(contract, source, machine) /\ plan' = ResumePlan(contract, source, machine)
    BY <1>2 DEF Resume
  <2>3. GoodPlan(plan')
    BY <2>1, <2>2, ResumePlanIsGood
  <2> QED BY <1>2, <2>3 DEF Resume, PlanInv, Kept, GoodPlan, kept, world
<1>3. CASE Admit
  BY <1>3, LeaveKeeps, PassEarly DEF Admit
<1>4. CASE Verify
  BY <1>4, LeaveKeeps, PassEarly DEF Verify
<1>5. CASE AdmitStorage
  BY <1>5, LeaveKeeps, PassEarly DEF AdmitStorage
<1>6. CASE Prepare
  <2>1. CASE contract = None
    BY <1>6, <2>1 DEF Prepare, Contract, PlanInv, Kept, world
  <2>2. CASE contract # None
    <3>1. stage = "prepare" /\ ((Contract(plan) = contract /\ Pass("readmit")) \/ Leave)
      BY <1>6, <2>2 DEF Prepare
    <3>2. Contract(plan) = contract => plan.settings = began.settings
      BY <2>2 DEF Contract, PlanInv, Kept
    <3> QED BY <3>1, <3>2, LeaveKeeps, PassLate
  <2> QED BY <2>1, <2>2
<1>7. CASE Readmit
  <2>1. stage = "readmit" /\ (Pass("load") \/ Leave)
    BY <1>7 DEF Readmit
  <2>2. plan.settings = began.settings
    BY <2>1 DEF PlanInv
  <2> QED BY <2>1, <2>2, LeaveKeeps, PassLate
<1>8. CASE Load
  <2>1. depth' = 0 \/ (depth' = 1 /\ plan.policy > plan.settings.threads)
    BY <1>8 DEF Load, ExecutionDepth
  <2> QED BY <1>8, <2>1 DEF Load, PlanInv, Kept, kept, world
<1>9. CASE Stop
  BY <1>9, LeaveKeeps DEF Stop
<1>10. CASE Finish
  BY <1>10 DEF Finish, PlanInv, Kept, world
<1>11. CASE Discard
  BY <1>11 DEF Discard, PlanInv, Kept, world
<1>12. CASE MachineChanges
  BY <1>12 DEF MachineChanges, PlanInv, Kept, kept
<1>13. CASE RecordingChanges
  BY <1>13 DEF RecordingChanges, PlanInv, Kept, kept
<1>14. CASE UNCHANGED vars
  BY <1>14 DEF vars, PlanInv, Kept
<1> QED
  BY <1>1, <1>2, <1>3, <1>4, <1>5, <1>6, <1>7, <1>8, <1>9, <1>10, <1>11, <1>12, <1>13,
     <1>14 DEF Next

\* Segments held ahead cost what the plan counted for them.
LEMMA SpaceFacts ==
  ASSUME NEW p, GoodPlan(p), NEW d \in {0, 1}, d = 1 => p.policy > p.settings.threads
  PROVE  /\ p.settings.threads + d <= p.policy
         /\ Space(p.settings.source, p.settings.enhance, d) <= p.space
<1>1. p.settings.threads \in Nat /\ p.policy \in Nat /\ p.settings.threads <= p.policy
  BY ThreadsFacts DEF GoodPlan
<1>2. p.settings.threads + d <= p.policy
  BY <1>1
<1>3. p.policy > p.settings.threads => p.settings.strategy.cuda
  BY <1>1 DEF GoodPlan
<1>4. p.ahead \in {0, 1} /\ d <= p.ahead
  BY <1>3 DEF GoodPlan, PrefetchDepth
<1>5. p.settings.source.size \in Nat
  BY DEF GoodPlan
<1>6. Space(p.settings.source, p.settings.enhance, d) <= Space(p.settings.source, p.settings.enhance, p.ahead)
  BY <1>4, <1>5 DEF Space
<1> QED BY <1>2, <1>6 DEF GoodPlan

LEMMA Agreed == PlanInv => RunsAsAgreed
<1> SUFFICES ASSUME PlanInv, stage \in {"load", "run"} PROVE
        /\ plan.settings = began.settings
        /\ plan.settings.threads + depth <= plan.policy
        /\ Space(plan.settings.source, plan.settings.enhance, depth) <= plan.space
  BY DEF RunsAsAgreed
<1>1. GoodPlan(plan) /\ plan.settings = began.settings
  BY DEF PlanInv
<1>2. depth \in {0, 1} /\ (depth = 1 => plan.policy > plan.settings.threads)
  BY DEF PlanInv
<1> QED BY <1>1, <1>2, SpaceFacts

\* For any machines, recordings and catalogue, and however they change between any
\* two steps, a run has the settings of the first run, and its threads and the
\* audio it holds stay within what its plan was given.
THEOREM AgreementHolds == Spec => []RunsAsAgreed
BY PlanInvInit, PlanStep, Agreed, PTL DEF Spec

\* What a strategy needs, a machine that is no worse has.
LEMMA FeasibleAgain ==
  ASSUME NEW s \in Strategies, NEW m \in Machines, NEW n \in Machines, NoWorse(m, n),
         NEW low, NEW high, Feasible(s, n, low), s.memory <= high
  PROVE  Feasible(s, m, high)
<1>1. s.cuda => Supports(m, s)
  BY DEF Feasible, Supports, NoWorse
<1>2. s.cuda => s.device <= DeviceBudget(m)
  <2>1. DeviceBudget(m) >= DeviceBudget(n) /\ DeviceBudget(m) \in Nat /\ DeviceBudget(n) \in Nat
    BY DeviceBudgetGrows DEF NoWorse
  <2>2. s.device \in Nat
    OBVIOUS
  <2> QED BY <2>1, <2>2 DEF Feasible
<1> QED BY <1>1, <1>2 DEF Feasible

LEMMA BudgetType ==
  ASSUME NEW m \in Machines
  PROVE  Budget(m) \in Nat
<1>1. m.available \in Nat /\ m.room \in Nat /\ MemoryLimit \in Nat
  BY MachineFacts
<1>2. EffectiveMemory(m) \in Nat
  <2>1. {m.available, m.room} \in SUBSET Nat
    BY <1>1
  <2> QED BY <2>1, MinIsLeast DEF EffectiveMemory
<1>3. (3 * EffectiveMemory(m)) \div 4 \in Nat
  BY <1>2
<1>4. {(3 * EffectiveMemory(m)) \div 4, MemoryLimit} \in SUBSET Nat
  BY <1>1, <1>3
<1> QED BY <1>4, MinIsLeast DEF Budget

\* What was feasible is admitted on a machine that is no worse.
LEMMA AdmittedAgain ==
  ASSUME NEW p, GoodPlan(p), NEW m \in Machines, NoWorse(m, p.runner)
  PROVE  Admitted(p, m)
<1> DEFINE s == p.settings.strategy
<1>1. s \in Strategies /\ p.runner \in Machines /\ Feasible(s, p.runner, p.budget)
  BY DEF GoodPlan
<1>2. p.settings.threads \in Nat /\ p.settings.threads <= Threads(p.runner) /\ p.budget = Budget(p.runner)
  BY DEF GoodPlan
<1> HIDE DEF s
<1>3. s.memory <= p.budget /\ s.memory \in Nat
  BY <1>1 DEF Feasible
<1>4. s.memory <= Budget(m)
  BY <1>1, <1>2, <1>3, BudgetType DEF NoWorse
<1>5. Feasible(s, m, p.budget)
  BY <1>1, <1>3, FeasibleAgain
<1>6. p.settings.threads <= Threads(m)
  BY <1>1, <1>2, ThreadsFacts DEF NoWorse
<1> QED BY <1>3, <1>4, <1>5, <1>6 DEF Admitted, s

\* An interrupted job is planned, admitted and restored again there.
LEMMA ResumedAgain ==
  ASSUME NEW b, GoodPlan(b), NEW src \in Sources, NEW m \in Machines,
         src = b.settings.source, NoWorse(m, b.runner)
  PROVE  LET again == ResumePlan(b.settings, src, m)
         IN /\ CanResume(b.settings, src, m)
            /\ Admitted(again, m) /\ Contract(again) = b.settings
            /\ Threads(m) = Threads(b.runner) => again.space <= b.space
<1> DEFINE c == b.settings
           again == ResumePlan(c, src, m)
<1>1. /\ c.source = src /\ c.track \in src.tracks /\ c.strategy \in Strategies
      /\ c.threads \in Nat /\ c.threads <= Threads(b.runner) /\ b.runner \in Machines
      /\ Feasible(c.strategy, b.runner, b.budget) /\ b.budget = Budget(b.runner)
  BY DEF GoodPlan
<1>2. /\ b.policy = IF c.strategy.cuda THEN Threads(b.runner) ELSE c.threads
      /\ b.ahead = PrefetchDepth(c.strategy, b.policy, c.threads)
      /\ b.space = Space(c.source, c.enhance, b.ahead)
  BY DEF GoodPlan
<1>3. c.strategy.memory \in Nat /\ c.strategy.memory <= Budget(m)
  BY <1>1, BudgetType DEF Feasible, NoWorse
<1>4. Feasible(c.strategy, m, Budget(m))
  BY <1>1, <1>3, FeasibleAgain
<1>5. c.threads <= Threads(m)
  BY <1>1, ThreadsFacts DEF NoWorse
<1>6. CanResume(c, src, m)
  BY <1>1, <1>3, <1>4, <1>5 DEF CanResume
<1>7. GoodPlan(again) /\ again.settings = c
  BY <1>6, ResumePlanIsGood
<1>8. again.runner = m /\ again.budget = Budget(m)
  BY DEF ResumePlan, Planned
<1>9. Admitted(again, m)
  <2>1. /\ again.settings.strategy.memory <= again.budget
        /\ again.settings.strategy.memory <= Budget(m)
        /\ again.settings.threads <= Threads(m)
        /\ Feasible(again.settings.strategy, m, again.budget)
    BY <1>3, <1>4, <1>5, <1>7, <1>8
  <2> HIDE DEF again
  <2> QED BY <2>1 DEF Admitted
<1>10. ASSUME Threads(m) = Threads(b.runner) PROVE again.space <= b.space
  <2>1. again.policy = b.policy
    BY <1>2, <1>10 DEF ResumePlan, Planned
  <2>2. again.ahead = b.ahead
    BY <1>2, <1>7, <2>1 DEF GoodPlan
  <2>3. again.space = b.space
    BY <1>2, <1>7, <2>2 DEF GoodPlan
  <2>4. b.ahead \in Nat /\ c.source.size \in Nat
    BY <1>1, <1>2 DEF PrefetchDepth
  <2>5. b.space \in Nat
    BY <1>2, <2>4 DEF Space
  <2> QED BY <2>3, <2>5
<1>11. Contract(again) = c
  BY <1>7 DEF Contract
<1> QED BY <1>6, <1>9, <1>10, <1>11

LEMMA Readmits == PlanInv => ReadmitsUnchanged
<1> SUFFICES ASSUME PlanInv PROVE ReadmitsUnchanged
  OBVIOUS
<1>1. machine \in Machines /\ source \in Sources
  BY DEF PlanInv
<1>2. ASSUME plan # None, NoWorse(machine, plan.runner) PROVE Admitted(plan, machine)
  <2>1. GoodPlan(plan)
    BY <1>2 DEF PlanInv
  <2> QED BY <1>1, <1>2, <2>1, AdmittedAgain
<1>3. ASSUME contract # None, source = contract.source, NoWorse(machine, began.runner)
      PROVE  LET again == ResumePlan(contract, source, machine)
             IN /\ CanResume(contract, source, machine)
                /\ Admitted(again, machine) /\ Contract(again) = contract
                /\ Threads(machine) = Threads(began.runner) => again.space <= began.space
  <2>1. GoodPlan(began) /\ contract = began.settings
    BY <1>3 DEF PlanInv, Kept
  <2> QED BY <1>1, <1>3, <2>1, ResumedAgain
<1> QED BY <1>2, <1>3 DEF ReadmitsUnchanged

\* The planner, the executor's two admissions and the resume agree: for any
\* machines and catalogue, what a machine was planned for, a machine that is no
\* worse admits, and what it began, such a machine resumes.
THEOREM ReadmissionHolds == Spec => []ReadmitsUnchanged
BY PlanInvInit, PlanStep, Readmits, PTL DEF Spec

-----------------------------------------------------------------------------
(* Folds: the functions that the folds' definitions choose exist.           *)

HIDE PlanningAssumption DEF StrategyDefinition

LEMMA NextPlace ==
  ASSUME NEW n \in Nat, NEW k \in Nat, k + 1 <= n
  PROVE  k \in 0 .. n /\ k <= n /\ k + 1 \in 1 .. n /\ (k + 1) - 1 = k
  OBVIOUS

LEMMA NewPlace ==
  ASSUME NEW n \in Nat
  PROVE  n + 1 \in 1 .. n + 1 /\ (n + 1) - 1 = n /\ \A k \in 1 .. n : k \in 1 .. n + 1
  OBVIOUS

LEMMA PreviousPlace ==
  ASSUME NEW n \in Nat, NEW d \in 1 .. n
  PROVE  d - 1 \in 0 .. n /\ (d > 1 => d - 1 \in 1 .. n)
  OBVIOUS

LEMMA FirstPlaces ==
  ASSUME NEW n \in Nat, NEW k \in Nat, k + 1 <= n
  PROVE  /\ 1 .. k + 1 \in SUBSET (1 .. n) /\ k + 1 \in 1 .. k + 1 /\ k + 1 \in 1 .. n
         /\ (1 .. k + 1) \ {k + 1} = 1 .. k
<1>1. 1 .. k + 1 \in SUBSET (1 .. n)
  OBVIOUS
<1>2. (1 .. k + 1) \ {k + 1} = 1 .. k
  OBVIOUS
<1> QED BY <1>1, <1>2, NextPlace, NewPlace

\* What a recursion from one number to the next computes.
Recurs(F, n, B, b, G) ==
  /\ F \in [0 .. n -> B] /\ F[0] = b
  /\ \A k \in 1 .. n : F[k] = G[k][F[k - 1]]

LEMMA Recursion ==
  ASSUME NEW n \in Nat, NEW B, NEW b \in B, NEW G \in [1 .. n -> [B -> B]]
  PROVE  \E F : Recurs(F, n, B, b, G)
<1> DEFINE Upto(m) == \E F \in [0 .. m -> B] : F[0] = b /\ \A k \in 1 .. m : F[k] = G[k][F[k - 1]]
           A == {m \in Nat : m <= n => Upto(m)}
<1>1. 0 \in A
  <2> DEFINE F == [i \in 0 .. 0 |-> b]
  <2>1. F \in [0 .. 0 -> B] /\ F[0] = b /\ \A k \in 1 .. 0 : F[k] = G[k][F[k - 1]]
    OBVIOUS
  <2> QED BY <2>1
<1>2. ASSUME NEW m \in Nat, m \in A PROVE m + 1 \in A
  <2> SUFFICES ASSUME m + 1 <= n PROVE Upto(m + 1)
    OBVIOUS
  <2>1. PICK F \in [0 .. m -> B] : F[0] = b /\ \A k \in 1 .. m : F[k] = G[k][F[k - 1]]
    BY <1>2
  <2> DEFINE E == [i \in 0 .. m + 1 |-> IF i <= m THEN F[i] ELSE G[m + 1][F[m]]]
  <2>2. G[m + 1] \in [B -> B] /\ F[m] \in B
    OBVIOUS
  <2>3. E \in [0 .. m + 1 -> B]
    BY <2>2
  <2>4. E[0] = b
    BY <2>1
  <2>5. ASSUME NEW k \in 1 .. m + 1 PROVE E[k] = G[k][E[k - 1]]
    <3>1. k - 1 \in 0 .. m /\ E[k - 1] = F[k - 1]
      OBVIOUS
    <3>2. CASE k <= m
      <4>1. k \in 1 .. m /\ E[k] = F[k]
        BY <3>2
      <4> QED BY <2>1, <3>1, <4>1
    <3>3. CASE k = m + 1
      <4>1. E[k] = G[m + 1][F[m]]
        BY <3>3
      <4> QED BY <3>1, <3>3, <4>1
    <3> QED BY <3>2, <3>3
  <2> QED BY <2>3, <2>4, <2>5
<1> HIDE DEF A
<1>3. \A m \in Nat : m \in A
  BY <1>1, <1>2, Induction
<1>4. Upto(n)
  <2>1. n \in A /\ n <= n
    BY <1>3
  <2> QED BY <2>1 DEF A
<1> QED BY <1>4 DEF Recurs

\* The greatest element of a set whose greatest element is known.
LEMMA MaxIs ==
  ASSUME NEW s \in SUBSET Nat, NEW m \in s, \A i \in s : i <= m
  PROVE  Max(s) = m
<1>1. \A y \in s : m >= y
  OBVIOUS
<1>2. Max(s) \in s /\ \A y \in s : Max(s) >= y
  BY <1>1 DEF Max
<1>3. Max(s) \in Nat /\ m \in Nat /\ Max(s) <= m /\ Max(s) >= m
  BY <1>2
<1> QED BY <1>3

LEMMA LastPlace ==
  ASSUME NEW n \in Nat, NEW s \in SUBSET (1 .. n), s # {}
  PROVE  Max(s) \in s
<1> DEFINE T == {n - i : i \in s}
<1>1. T \in SUBSET Nat /\ T # {}
  <2>1. \A i \in s : n - i \in Nat
    OBVIOUS
  <2>2. PICK i \in s : TRUE
    OBVIOUS
  <2>3. n - i \in T
    BY <2>2
  <2> QED BY <2>1, <2>3
<1>2. PICK x \in T : \A y \in T : x <= y
  BY <1>1, LeastNumber
<1>3. PICK i \in s : x = n - i
  BY <1>2
<1>4. \A j \in s : n - i <= n - j
  BY <1>2, <1>3
<1>5. \A j \in s : j <= i
  BY <1>4
<1> QED BY <1>5, MaxIs

\* Recursion over the sets of places of a sequence, the last place first.
Iterates(it, n, B, b, G) ==
  /\ it \in [SUBSET (1 .. n) -> B]
  /\ \A s \in SUBSET (1 .. n) : it[s] = IF s = {} THEN b ELSE G[Max(s)][it[s \ {Max(s)}]]

\* What the community modules' fold computes on the way, for each set of places.
LEMMA Iteration ==
  ASSUME NEW n \in Nat, NEW B, NEW b \in B, NEW G \in [1 .. n -> [B -> B]]
  PROVE  \E it : Iterates(it, n, B, b, G)
<1> DEFINE Solves(it, m) == \A s \in SUBSET (1 .. m) :
                              it[s] = IF s = {} THEN b ELSE G[Max(s)][it[s \ {Max(s)}]]
           Upto(m) == \E it \in [SUBSET (1 .. m) -> B] : Solves(it, m)
<1>1. Upto(0)
  <2> DEFINE it == [s \in SUBSET (1 .. 0) |-> b]
  <2>1. it \in [SUBSET (1 .. 0) -> B]
    OBVIOUS
  <2>2. \A s \in SUBSET (1 .. 0) : s = {} /\ it[s] = b
    OBVIOUS
  <2> QED BY <2>1, <2>2
<1>2. ASSUME NEW m \in Nat, m + 1 <= n, Upto(m) PROVE Upto(m + 1)
  <2>1. PICK it \in [SUBSET (1 .. m) -> B] : Solves(it, m)
    BY <1>2
  <2> DEFINE e == [s \in SUBSET (1 .. m + 1) |->
                     IF m + 1 \in s THEN G[m + 1][it[s \ {m + 1}]] ELSE it[s]]
  <2>2. ASSUME NEW s \in SUBSET (1 .. m + 1) PROVE s \ {m + 1} \in SUBSET (1 .. m)
    OBVIOUS
  <2>3. \A s \in SUBSET (1 .. m + 1) : m + 1 \notin s => s \in SUBSET (1 .. m)
    OBVIOUS
  <2>4. G[m + 1] \in [B -> B]
    BY <1>2
  <2>5. e \in [SUBSET (1 .. m + 1) -> B]
    BY <2>2, <2>3, <2>4
  <2>6. ASSUME NEW s \in SUBSET (1 .. m + 1)
        PROVE  e[s] = IF s = {} THEN b ELSE G[Max(s)][e[s \ {Max(s)}]]
    <3>1. CASE m + 1 \in s
      <4>1. Max(s) = m + 1
        BY <3>1, MaxIs
      <4>2. e[s \ {m + 1}] = it[s \ {m + 1}]
        BY <2>2
      <4>3. e[s] = G[m + 1][it[s \ {m + 1}]] /\ s # {}
        BY <3>1
      <4> QED BY <4>1, <4>2, <4>3
    <3>2. CASE m + 1 \notin s
      <4>1. s \in SUBSET (1 .. m) /\ e[s] = it[s]
        BY <2>3, <3>2
      <4>2. s \ {Max(s)} \in SUBSET (1 .. m + 1) /\ m + 1 \notin s \ {Max(s)}
        BY <3>2
      <4>3. e[s \ {Max(s)}] = it[s \ {Max(s)}]
        BY <4>2
      <4>4. it[s] = IF s = {} THEN b ELSE G[Max(s)][it[s \ {Max(s)}]]
        BY <2>1, <4>1
      <4> QED BY <4>1, <4>3, <4>4
    <3> QED BY <3>1, <3>2
  <2> QED BY <2>5, <2>6
<1> HIDE DEF Upto
<1> DEFINE A == {m \in Nat : m <= n => Upto(m)}
<1>3. 0 \in A /\ \A m \in Nat : m \in A => m + 1 \in A
  BY <1>1, <1>2
<1> HIDE DEF A
<1>4. n \in A
  BY <1>3, Induction
<1>5. Upto(n)
  BY <1>4 DEF A
<1> QED BY <1>5 DEF Upto, Iterates

-----------------------------------------------------------------------------
(* Chunks.                                                                  *)

\* The words of a chunk are counted segment by segment.
Weights(T) == \A s \in T : Weight(s) \in Nat \ {0}

LEMMA Counting ==
  ASSUME NEW T, Weights(T), NEW c \in Seq(T)
  PROVE  \E F \in [0 .. Len(c) -> Nat] :
           /\ F[0] = 0 /\ \A k \in 1 .. Len(c) : F[k] = F[k - 1] + Weight(c[k])
           /\ WordsOf(c) = F[Len(c)]
<1> DEFINE n == Len(c)
           Eq(it) == it = [s \in SUBSET (1 .. n) |->
                             IF s = {} THEN 0 ELSE it[s \ {Max(s)}] + Weight(c[Max(s)])]
           G == [k \in 1 .. n |-> [x \in Nat |-> x + Weight(c[k])]]
<1>1. n \in Nat /\ DOMAIN c = 1 .. n /\ \A k \in 1 .. n : Weight(c[k]) \in Nat
  BY DEF Weights
<1>2. G \in [1 .. n -> [Nat -> Nat]]
  BY <1>1
<1> HIDE DEF n
<1> HIDE DEF G
<1>3. PICK it : Iterates(it, n, Nat, 0, G)
  BY <1>1, <1>2, Iteration
<1>4. ASSUME NEW s \in SUBSET (1 .. n), s # {}
      PROVE  Max(s) \in 1 .. n
  BY <1>1, <1>4, LastPlace
<1>5. \A k \in 1 .. n, x \in Nat : G[k][x] = x + Weight(c[k])
  BY DEF G
<1>6. Eq(it)
  BY <1>3, <1>4, <1>5 DEF Iterates
<1> DEFINE fold == CHOOSE f : Eq(f)
<1>7. Eq(fold)
  BY <1>6
<1>8. WordsOf(c) = fold[1 .. n]
  BY <1>1 DEF WordsOf, FoldLeft, MapThenFoldSet
<1> HIDE DEF fold, Eq
<1>9. \A s \in SUBSET (1 .. n) :
        fold[s] = IF s = {} THEN 0 ELSE fold[s \ {Max(s)}] + Weight(c[Max(s)])
  BY <1>7 DEF Eq
<1> HIDE DEF fold, Eq
<1>10. fold[1 .. 0] = 0
  <2>1. 1 .. 0 = {} /\ {} \in SUBSET (1 .. n)
    OBVIOUS
  <2> QED BY <1>9, <2>1
<1>11. ASSUME NEW k \in 1 .. n PROVE fold[1 .. k] = fold[1 .. k - 1] + Weight(c[k])
  <2>1. 1 .. k \in SUBSET (1 .. n) /\ k \in 1 .. k /\ (1 .. k) \ {k} = 1 .. k - 1
    BY <1>1
  <2>2. Max(1 .. k) = k
    BY <1>1, <2>1, MaxIs
  <2> QED BY <1>9, <2>1, <2>2
<1> DEFINE A == {k \in Nat : k <= n => fold[1 .. k] \in Nat}
<1>12. 0 \in A
  BY <1>10
<1>13. ASSUME NEW k \in Nat, k \in A PROVE k + 1 \in A
  <2>1. k + 1 <= n => fold[1 .. k + 1] = fold[1 .. k] + Weight(c[k + 1]) /\ Weight(c[k + 1]) \in Nat
    <3> SUFFICES ASSUME k + 1 <= n
                 PROVE  fold[1 .. k + 1] = fold[1 .. k] + Weight(c[k + 1]) /\ Weight(c[k + 1]) \in Nat
      OBVIOUS
    <3>1. k + 1 \in 1 .. n /\ (k + 1) - 1 = k
      BY <1>1
    <3> QED BY <1>1, <1>11, <3>1
  <2>2. k <= n => fold[1 .. k] \in Nat
    BY <1>13
  <2> QED BY <1>1, <2>1, <2>2
<1>14. \A k \in 0 .. n : fold[1 .. k] \in Nat
  <2> HIDE DEF A
  <2>1. \A k \in Nat : k \in A
    BY <1>12, <1>13, Induction
  <2> QED BY <1>1, <2>1 DEF A
<1> DEFINE F == [k \in 0 .. n |-> fold[1 .. k]]
<1>15. F \in [0 .. n -> Nat] /\ F[0] = 0 /\ WordsOf(c) = F[n]
  BY <1>1, <1>8, <1>10, <1>14
<1>16. \A k \in 1 .. n : F[k] = F[k - 1] + Weight(c[k])
  BY <1>1, <1>11
<1> QED BY <1>15, <1>16 DEF n

LEMMA CountEmpty == WordsOf(<<>>) = 0
<1>1. Weights({}) /\ <<>> \in Seq({}) /\ Len(<<>>) = 0
  BY EmptySeq DEF Weights
<1> QED BY <1>1, Counting

LEMMA CountAppend ==
  ASSUME NEW T, Weights(T), NEW c \in Seq(T), NEW s \in T
  PROVE  WordsOf(c) \in Nat /\ WordsOf(Append(c, s)) = WordsOf(c) + Weight(s)
<1> DEFINE n == Len(c)  d == Append(c, s)
<1>1. /\ d \in Seq(T) /\ Len(d) = n + 1 /\ d[n + 1] = s
      /\ \A k \in 1 .. n : d[k] = c[k]
  BY AppendProperties
<1>2. n \in Nat
  OBVIOUS
<1>3. PICK F \in [0 .. n -> Nat] :
        /\ F[0] = 0 /\ \A k \in 1 .. n : F[k] = F[k - 1] + Weight(c[k])
        /\ WordsOf(c) = F[n]
  BY Counting
<1>4. PICK E \in [0 .. Len(d) -> Nat] :
        /\ E[0] = 0 /\ \A k \in 1 .. Len(d) : E[k] = E[k - 1] + Weight(d[k])
        /\ WordsOf(d) = E[Len(d)]
  BY <1>1, Counting
<1> HIDE DEF n, d
<1> DEFINE A == {k \in Nat : k <= n => E[k] = F[k]}
<1>5. 0 \in A
  BY <1>3, <1>4
<1>6. ASSUME NEW k \in Nat, k \in A PROVE k + 1 \in A
  <2> SUFFICES ASSUME k + 1 <= n PROVE E[k + 1] = F[k + 1]
    OBVIOUS
  <2>1. k + 1 \in 1 .. n /\ k + 1 \in 1 .. Len(d) /\ (k + 1) - 1 = k /\ k <= n
    <3>1. k + 1 \in 1 .. n /\ (k + 1) - 1 = k /\ k <= n
      BY <1>2, NextPlace
    <3> QED BY <1>1, <1>2, <3>1, NewPlace
  <2>2. F[k + 1] = F[k] + Weight(c[k + 1]) /\ E[k + 1] = E[k] + Weight(d[k + 1])
    BY <1>3, <1>4, <2>1
  <2>3. E[k] = F[k]
    BY <1>2, <1>6, <2>1
  <2>4. d[k + 1] = c[k + 1]
    BY <1>1, <2>1
  <2> QED BY <2>2, <2>3, <2>4
<1>7. E[n] = F[n]
  <2> HIDE DEF A
  <2>1. n \in A
    BY <1>2, <1>5, <1>6, Induction
  <2> QED BY <1>2, <2>1 DEF A
<1>8. E[n + 1] = E[n] + Weight(s)
  <2>1. n + 1 \in 1 .. Len(d) /\ (n + 1) - 1 = n
    BY <1>1, <1>2, NewPlace
  <2> QED BY <1>1, <1>4, <2>1
<1>9. WordsOf(c) = F[n] /\ F[n] \in Nat /\ WordsOf(d) = E[n + 1]
  BY <1>1, <1>2, <1>3, <1>4
<1> QED BY <1>7, <1>8, <1>9 DEF d

\* Chunks laid end to end.
LEMMA Flattening ==
  ASSUME NEW T, NEW q \in Seq(Seq(T))
  PROVE  \E F \in [0 .. Len(q) -> Seq(T)] :
           /\ F[0] = <<>> /\ \A k \in 1 .. Len(q) : F[k] = F[k - 1] \o q[k]
           /\ FlattenSeq(q) = F[Len(q)]
<1> DEFINE n == Len(q)
           G == [k \in 1 .. n |-> [x \in Seq(T) |-> x \o q[k]]]
           Eq(f) == f = [i \in 1 .. n |-> IF i = 1 THEN q[i] ELSE f[i - 1] \o q[i]]
<1>1. n \in Nat /\ \A k \in 1 .. n : q[k] \in Seq(T)
  OBVIOUS
<1>2. <<>> \in Seq(T)
  OBVIOUS
<1>3. G \in [1 .. n -> [Seq(T) -> Seq(T)]]
  BY <1>1
<1> HIDE DEF n, G
<1>4. PICK F : Recurs(F, n, Seq(T), <<>>, G)
  BY <1>1, <1>2, <1>3, Recursion
<1>5. \A k \in 1 .. n : F[k] = F[k - 1] \o q[k]
  <2> SUFFICES ASSUME NEW k \in 1 .. n PROVE F[k] = F[k - 1] \o q[k]
    OBVIOUS
  <2>1. k - 1 \in 0 .. n
    BY <1>1
  <2>2. F[k - 1] \in Seq(T)
    BY <1>4, <2>1 DEF Recurs
  <2>3. G[k][F[k - 1]] = F[k - 1] \o q[k]
    BY <2>2 DEF G
  <2> QED BY <1>4, <2>3 DEF Recurs
<1>6. CASE n = 0
  <2>1. q = <<>> /\ FlattenSeq(q) = q
    BY <1>6 DEF FlattenSeq, n
  <2> QED BY <1>4, <1>5, <1>6, <2>1 DEF n, Recurs
<1>7. CASE n # 0
  <2> DEFINE flat == CHOOSE f : Eq(f)
  <2>1. Eq([i \in 1 .. n |-> F[i]])
    <3> DEFINE f == [i \in 1 .. n |-> F[i]]
    <3>1. ASSUME NEW i \in 1 .. n PROVE f[i] = IF i = 1 THEN q[i] ELSE f[i - 1] \o q[i]
      <4>1. CASE i = 1
        <5>1. 1 \in 1 .. n /\ 1 - 1 = 0
          BY <4>1
        <5>2. F[1] = F[0] \o q[1] /\ q[1] \in Seq(T)
          BY <1>1, <1>5, <5>1
        <5>3. F[1] = q[1]
          BY <1>4, <5>2, ConcatEmptySeq DEF Recurs
        <5> QED BY <4>1, <5>3
      <4>2. CASE i # 1
        <5>1. i - 1 \in 1 .. n
          BY <1>1, <4>2
        <5> QED BY <1>5, <4>2, <5>1
      <4> QED BY <4>1, <4>2
    <3> QED BY <3>1
  <2>2. Eq(flat)
    BY <2>1
  <2>3. FlattenSeq(q) = flat[n]
    BY <1>7 DEF FlattenSeq, n
  <2> HIDE DEF flat
  <2> DEFINE A == {k \in Nat : k + 1 <= n => flat[k + 1] = F[k + 1]}
  <2>4. 0 \in A
    <3>1. 1 \in 1 .. n /\ flat[1] = q[1]
      BY <1>1, <1>7, <2>2
    <3>2. 1 - 1 = 0 /\ q[1] \in Seq(T)
      BY <1>1, <3>1
    <3>3. F[1] = F[0] \o q[1]
      BY <1>5, <3>1, <3>2
    <3>4. F[1] = q[1]
      BY <1>4, <3>2, <3>3, ConcatEmptySeq DEF Recurs
    <3> QED BY <3>1, <3>4
  <2>5. ASSUME NEW k \in Nat, k \in A PROVE k + 1 \in A
    <3> SUFFICES ASSUME (k + 1) + 1 <= n PROVE flat[(k + 1) + 1] = F[(k + 1) + 1]
      OBVIOUS
    <3> DEFINE i == (k + 1) + 1
    <3>1. i \in 1 .. n /\ i # 1 /\ i - 1 = k + 1 /\ k + 1 <= n
      BY <1>1
    <3>2. flat[i] = flat[i - 1] \o q[i]
      BY <2>2, <3>1
    <3>3. F[i] = F[i - 1] \o q[i]
      BY <1>5, <3>1
    <3> QED BY <2>5, <3>1, <3>2, <3>3
  <2>6. flat[n] = F[n]
    <3> HIDE DEF A
    <3>1. n - 1 \in Nat /\ (n - 1) + 1 = n
      BY <1>1, <1>7
    <3>2. n - 1 \in A
      BY <2>4, <2>5, <3>1, Induction
    <3> QED BY <3>1, <3>2 DEF A
  <2> QED BY <1>4, <1>5, <2>3, <2>6 DEF n, Recurs
<1> QED BY <1>6, <1>7

LEMMA FlattenEmpty == FlattenSeq(<<>>) = <<>>
  BY DEF FlattenSeq

LEMMA FlattenAppend ==
  ASSUME NEW T, NEW q \in Seq(Seq(T)), NEW o \in Seq(T)
  PROVE  FlattenSeq(q) \in Seq(T) /\ FlattenSeq(Append(q, o)) = FlattenSeq(q) \o o
<1> DEFINE n == Len(q)  d == Append(q, o)
<1>1. /\ d \in Seq(Seq(T)) /\ Len(d) = n + 1 /\ d[n + 1] = o
      /\ \A k \in 1 .. n : d[k] = q[k]
  BY AppendProperties
<1>2. n \in Nat
  OBVIOUS
<1>3. PICK F \in [0 .. n -> Seq(T)] :
        /\ F[0] = <<>> /\ \A k \in 1 .. n : F[k] = F[k - 1] \o q[k]
        /\ FlattenSeq(q) = F[n]
  BY Flattening
<1>4. PICK E \in [0 .. Len(d) -> Seq(T)] :
        /\ E[0] = <<>> /\ \A k \in 1 .. Len(d) : E[k] = E[k - 1] \o d[k]
        /\ FlattenSeq(d) = E[Len(d)]
  BY <1>1, Flattening
<1> HIDE DEF n, d
<1> DEFINE A == {k \in Nat : k <= n => E[k] = F[k]}
<1>5. 0 \in A
  BY <1>3, <1>4
<1>6. ASSUME NEW k \in Nat, k \in A PROVE k + 1 \in A
  <2> SUFFICES ASSUME k + 1 <= n PROVE E[k + 1] = F[k + 1]
    OBVIOUS
  <2>1. k + 1 \in 1 .. n /\ k + 1 \in 1 .. Len(d) /\ (k + 1) - 1 = k /\ k <= n
    <3>1. k + 1 \in 1 .. n /\ (k + 1) - 1 = k /\ k <= n
      BY <1>2, NextPlace
    <3> QED BY <1>1, <1>2, <3>1, NewPlace
  <2>2. F[k + 1] = F[k] \o q[k + 1] /\ E[k + 1] = E[k] \o d[k + 1]
    BY <1>3, <1>4, <2>1
  <2>3. E[k] = F[k]
    BY <1>2, <1>6, <2>1
  <2>4. d[k + 1] = q[k + 1]
    BY <1>1, <2>1
  <2> QED BY <2>2, <2>3, <2>4
<1>7. E[n] = F[n]
  <2> HIDE DEF A
  <2>1. n \in A
    BY <1>2, <1>5, <1>6, Induction
  <2> QED BY <1>2, <2>1 DEF A
<1>8. E[n + 1] = E[n] \o o
  <2>1. n + 1 \in 1 .. Len(d) /\ (n + 1) - 1 = n
    BY <1>1, <1>2, NewPlace
  <2> QED BY <1>1, <1>4, <2>1
<1>9. FlattenSeq(q) = F[n] /\ F[n] \in Seq(T) /\ FlattenSeq(d) = E[n + 1]
  BY <1>1, <1>2, <1>3, <1>4
<1> QED BY <1>7, <1>8, <1>9 DEF d

\* The chunks that are closed and the one that is open, while segments are added.
Piles(T) == [done : Seq(Seq(T)), open : Seq(T), words : Nat]
Pile(done, open, words) == [done |-> done, open |-> open, words |-> words]

Laid(c) == FlattenSeq(c.done) \o c.open

\* A chunk that is followed by one that begins with s could not take s too.
Ends(chunk, s) == WordsOf(chunk) >= TargetWords \/ WordsOf(chunk) + Weight(s) > MaxWords
Sized(chunk) == chunk # <<>> /\ (WordsOf(chunk) <= MaxWords \/ Len(chunk) = 1)

Closed(done) ==
  \A d \in DOMAIN done : Sized(done[d]) /\ (d > 1 => Ends(done[d - 1], Head(done[d])))

Well(c) ==
  /\ Closed(c.done) /\ WordsOf(c.open) = c.words /\ c.words < MaxWords
  /\ c.done # <<>> => IF c.open = <<>> THEN WordsOf(c.done[Len(c.done)]) >= MaxWords
                                       ELSE Ends(c.done[Len(c.done)], Head(c.open))

LEMMA ClosedAppend ==
  ASSUME NEW T, NEW done \in Seq(Seq(T)), NEW o \in Seq(T), Closed(done), Sized(o),
         done # <<>> => Ends(done[Len(done)], Head(o))
  PROVE  Closed(Append(done, o))
<1> DEFINE n == Len(done)  e == Append(done, o)
<1>1. /\ e \in Seq(Seq(T)) /\ Len(e) = n + 1 /\ e[n + 1] = o
      /\ \A k \in 1 .. n : e[k] = done[k]
  BY AppendProperties
<1>2. n \in Nat /\ DOMAIN e = 1 .. n + 1 /\ DOMAIN done = 1 .. n /\ (n > 0 => done # <<>>)
  BY <1>1
<1> HIDE DEF n, e
<1>3. ASSUME NEW d \in DOMAIN e
      PROVE  Sized(e[d]) /\ (d > 1 => Ends(e[d - 1], Head(e[d])))
  <2>1. CASE d \in 1 .. n
    <3>1. d > 1 => d - 1 \in 1 .. n
      BY <1>2, <2>1, PreviousPlace
    <3>2. e[d] = done[d] /\ (d > 1 => e[d - 1] = done[d - 1])
      BY <1>1, <2>1, <3>1
    <3> QED BY <1>2, <2>1, <3>1, <3>2 DEF Closed
  <2>2. CASE d = n + 1
    <3>1. e[d] = o /\ d - 1 = n /\ (d > 1 => n \in 1 .. n /\ e[n] = done[n] /\ done # <<>>)
      BY <1>1, <1>2, <2>2
    <3> QED BY <3>1 DEF n
  <2> QED BY <1>2, <2>1, <2>2
<1> QED BY <1>3 DEF Closed, e

LEMMA CloseIs ==
  ASSUME NEW T, NEW c \in Piles(T)
  PROVE  /\ Close(c) = Pile(IF c.open = <<>> THEN c.done ELSE Append(c.done, c.open), <<>>, 0)
         /\ Close(c) \in Piles(T) /\ Laid(Close(c)) = Laid(c)
<1>1. c.done \in Seq(Seq(T)) /\ c.open \in Seq(T) /\ <<>> \in Seq(T)
  BY DEF Piles
<1>2. Close(c) = Pile(IF c.open = <<>> THEN c.done ELSE Append(c.done, c.open), <<>>, 0)
  BY DEF Close, NoChunk, Pile
<1>3. Append(c.done, c.open) \in Seq(Seq(T))
  BY <1>1, AppendProperties
<1>4. Close(c) \in Piles(T)
  BY <1>1, <1>2, <1>3 DEF Piles, Pile
<1>5. Laid(Close(c)) = Laid(c)
  <2>1. CASE c.open = <<>>
    BY <1>2, <2>1 DEF Laid, Pile
  <2>2. CASE c.open # <<>>
    <3>1. Laid(Close(c)) = FlattenSeq(Append(c.done, c.open)) \o <<>>
      BY <1>2, <2>2 DEF Laid, Pile
    <3>2. /\ FlattenSeq(c.done) \in Seq(T)
          /\ FlattenSeq(Append(c.done, c.open)) = FlattenSeq(c.done) \o c.open
      BY <1>1, FlattenAppend
    <3>3. FlattenSeq(c.done) \o c.open \in Seq(T)
      BY <1>1, <3>2, ConcatProperties
    <3> QED BY <3>1, <3>2, <3>3, ConcatEmptySeq DEF Laid
  <2> QED BY <2>1, <2>2
<1> QED BY <1>2, <1>4, <1>5

LEMMA Heap ==
  ASSUME NEW T, NEW c \in Piles(T), NEW x, NEW y
  PROVE  [c EXCEPT !.open = x, !.words = y] = Pile(c.done, x, y)
<1>1. [c EXCEPT !.open = x] = Pile(c.done, x, c.words)
  BY DEF Piles, Pile
<1>2. [Pile(c.done, x, c.words) EXCEPT !.words = y] = Pile(c.done, x, y)
  BY DEF Pile
<1>3. [c EXCEPT !.open = x, !.words = y] = [[c EXCEPT !.open = x] EXCEPT !.words = y]
  OBVIOUS
<1> QED BY <1>1, <1>2, <1>3

\* Adding a segment lays it behind the others and ends a chunk only where it may.
LEMMA AddIs ==
  ASSUME NEW T, Weights(T), NEW c \in Piles(T), NEW s \in T, Well(c)
  PROVE  /\ AddSegment(c, s) \in Piles(T) /\ Well(AddSegment(c, s))
         /\ Laid(AddSegment(c, s)) = Append(Laid(c), s)
<1> DEFINE full == c.words >= TargetWords \/ c.words + Weight(s) > MaxWords
           into == IF full THEN Close(c) ELSE c
           with == Pile(into.done, Append(into.open, s), into.words + Weight(s))
<1>0. TargetWords \in Nat \ {0} /\ MaxWords \in Nat \ {0} /\ Weight(s) \in Nat \ {0}
  BY TimelineAssumption DEF Weights
<1>1. into \in Piles(T) /\ Laid(into) = Laid(c)
  BY CloseIs
<1>2. into.done \in Seq(Seq(T)) /\ into.open \in Seq(T) /\ into.words \in Nat
  BY <1>1 DEF Piles
<1>3. AddSegment(c, s) = IF with.words >= MaxWords THEN Close(with) ELSE with
  <2>1. into = Pile(into.done, into.open, into.words)
    BY <1>1 DEF Piles, Pile
  <2> HIDE DEF into
  <2>2. [into EXCEPT !.open = Append(@, s), !.words = @ + Weight(s)] = with
    <3>1. [into EXCEPT !.open = Append(@, s), !.words = @ + Weight(s)]
            = [into EXCEPT !.open = Append(into.open, s), !.words = into.words + Weight(s)]
      BY <1>1 DEF Piles
    <3> QED BY <1>1, <3>1, Heap
  <2>3. AddSegment(c, s) =
          LET w == [into EXCEPT !.open = Append(@, s), !.words = @ + Weight(s)]
          IN IF w.words >= MaxWords THEN Close(w) ELSE w
    BY DEF AddSegment, into
  <2> QED BY <2>2, <2>3
<1>4. /\ Append(into.open, s) \in Seq(T) /\ Append(into.open, s) # <<>>
      /\ Head(Append(into.open, s)) = IF into.open = <<>> THEN s ELSE Head(into.open)
      /\ Len(Append(into.open, s)) = Len(into.open) + 1
      /\ into.open = <<>> => Len(into.open) = 0
  <2> HIDE DEF into
  <2>1. /\ Append(into.open, s) \in Seq(T) /\ Append(into.open, s) # <<>>
        /\ Len(Append(into.open, s)) = Len(into.open) + 1
    BY <1>2, AppendProperties
  <2>2. Head(Append(into.open, s)) = IF into.open = <<>> THEN s ELSE Head(into.open)
    BY <1>2, HeadTailAppend
  <2> QED BY <2>1, <2>2
<1>5. with \in Piles(T) /\ Laid(with) = Append(Laid(c), s)
  <2>1. FlattenSeq(into.done) \in Seq(T)
    BY <1>2, FlattenAppend
  <2>2. Laid(with) = FlattenSeq(into.done) \o Append(into.open, s)
    BY DEF Laid, Pile
  <2>3. FlattenSeq(into.done) \o Append(into.open, s) = Append(Laid(into), s)
    <3> HIDE DEF into
    <3>1. <<s>> \in Seq(T)
      OBVIOUS
    <3>2. Append(into.open, s) = into.open \o <<s>>
      BY <1>2, AppendIsConcat
    <3>3. FlattenSeq(into.done) \o into.open \in Seq(T)
      BY <1>2, <2>1, ConcatProperties
    <3>4. Append(Laid(into), s) = (FlattenSeq(into.done) \o into.open) \o <<s>>
      BY <3>3, AppendIsConcat DEF Laid
    <3>5. FlattenSeq(into.done) \o (into.open \o <<s>>) = (FlattenSeq(into.done) \o into.open) \o <<s>>
      <4> DEFINE f == FlattenSeq(into.done)  o == into.open  l == <<s>>
      <4>1. f \in Seq(T) /\ o \in Seq(T) /\ l \in Seq(T)
        BY <1>2, <2>1, <3>1
      <4> HIDE DEF f, o, l
      <4>2. (f \o o) \o l = f \o (o \o l)
        BY <4>1, ConcatAssociative, SMTT(60)
      <4> QED BY <4>2 DEF f, o, l
    <3> QED BY <3>2, <3>4, <3>5
  <2>4. Laid(with) = Append(Laid(c), s)
    BY <1>1, <2>2, <2>3
  <2>5. with \in Piles(T)
    <3> HIDE DEF into
    <3> QED BY <1>0, <1>2, <1>4 DEF Piles, Pile
  <2> QED BY <2>4, <2>5
<1>6. /\ Closed(into.done) /\ WordsOf(into.open) = into.words
      /\ into.words + Weight(s) <= MaxWords \/ into.open = <<>>
      /\ into.done # <<>> => IF into.open = <<>> THEN Ends(into.done[Len(into.done)], s)
                                                 ELSE Ends(into.done[Len(into.done)], Head(into.open))
  <2>1. /\ c.done \in Seq(Seq(T)) /\ c.open \in Seq(T) /\ c.words \in Nat
        /\ c.done # <<>> => c.done[Len(c.done)] \in Seq(T)
    BY DEF Piles
  <2>2. \A o \in Seq(T) : WordsOf(o) \in Nat
    BY CountAppend
  <2>3. /\ Closed(c.done) /\ WordsOf(c.open) = c.words /\ c.words < MaxWords
        /\ c.done # <<>> => IF c.open = <<>> THEN WordsOf(c.done[Len(c.done)]) >= MaxWords
                                             ELSE Ends(c.done[Len(c.done)], Head(c.open))
    BY DEF Well
  <2>4. c.done # <<>> /\ c.open = <<>> => Ends(c.done[Len(c.done)], s)
    BY <1>0, <2>1, <2>2, <2>3 DEF Ends
  <2>5. CASE ~full
    <3>1. into = c /\ c.words + Weight(s) <= MaxWords
      BY <1>0, <2>1, <2>5
    <3> QED BY <2>3, <2>4, <3>1
  <2>6. CASE full /\ c.open = <<>>
    <3>1. into = Pile(c.done, <<>>, 0)
      BY <2>6, CloseIs
    <3> QED BY <2>3, <2>4, <2>6, <3>1, CountEmpty DEF Pile
  <2>7. CASE full /\ c.open # <<>>
    <3>1. into = Pile(Append(c.done, c.open), <<>>, 0)
      BY <2>7, CloseIs
    <3>2. Sized(c.open)
      BY <2>1, <2>3, <2>7, <1>0 DEF Sized
    <3>3. Closed(Append(c.done, c.open))
      BY <2>1, <2>3, <2>7, <3>2, ClosedAppend
    <3>4. Append(c.done, c.open)[Len(Append(c.done, c.open))] = c.open
      BY <2>1, AppendProperties
    <3>5. Ends(c.open, s)
      BY <2>3, <2>7 DEF Ends
    <3>6. into.done = Append(c.done, c.open) /\ into.open = <<>> /\ into.words = 0
      BY <3>1 DEF Pile
    <3> HIDE DEF into
    <3> QED BY <1>0, <3>3, <3>4, <3>5, <3>6, CountEmpty
  <2> QED BY <2>5, <2>6, <2>7
<1>7. WordsOf(with.open) = with.words
  <2>1. WordsOf(Append(into.open, s)) = WordsOf(into.open) + Weight(s)
    BY <1>2, CountAppend
  <2> QED BY <1>6, <2>1 DEF Pile
<1>8. with.done # <<>> => Ends(with.done[Len(with.done)], Head(with.open))
  BY <1>4, <1>6 DEF Pile
<1>9. Sized(with.open)
  <2>1. with.open = Append(into.open, s) /\ with.words = into.words + Weight(s)
    BY DEF Pile
  <2> HIDE DEF with, into
  <2> QED BY <1>2, <1>4, <1>6, <1>7, <2>1 DEF Sized
<1> HIDE DEF with
<1>10. CASE with.words >= MaxWords
  <2>1. Close(with) = Pile(Append(with.done, with.open), <<>>, 0)
    BY <1>5, <1>9, CloseIs DEF Sized
  <2>2. with.done \in Seq(Seq(T)) /\ with.open \in Seq(T)
    BY <1>5 DEF Piles
  <2>3. Closed(Append(with.done, with.open))
    BY <1>6, <1>8, <1>9, <2>2, ClosedAppend DEF with, Pile
  <2>4. /\ Append(with.done, with.open) # <<>>
        /\ Append(with.done, with.open)[Len(Append(with.done, with.open))] = with.open
    <3> DEFINE o == with.open  d == with.done
    <3>1. d \in Seq(Seq(T)) /\ o \in Seq(T)
      BY <2>2
    <3> HIDE DEF o, d
    <3>2. Append(d, o) # <<>> /\ Append(d, o)[Len(Append(d, o))] = o
      BY <3>1, AppendProperties
    <3> QED BY <3>2 DEF o, d
  <2>5. Well(Close(with))
    BY <1>0, <1>7, <1>10, <2>1, <2>3, <2>4, CountEmpty DEF Well, Pile
  <2> QED BY <1>3, <1>5, <1>10, <2>5, CloseIs
<1>11. CASE ~(with.words >= MaxWords)
  <2>1. with.words \in Nat /\ with.open # <<>>
    BY <1>5, <1>9 DEF Piles, Sized
  <2>2. Closed(with.done)
    BY <1>6 DEF with, Pile
  <2>3. Well(with)
    BY <1>0, <1>7, <1>8, <1>11, <2>1, <2>2 DEF Well
  <2> QED BY <1>3, <1>5, <1>11, <2>3
<1> QED BY <1>10, <1>11

\* Closing the last chunk leaves every segment in a chunk, in order.
LEMMA CloseEnds ==
  ASSUME NEW T, NEW c \in Piles(T), Well(c)
  PROVE  /\ Close(c).done \in Seq(Seq(T)) /\ Closed(Close(c).done)
         /\ FlattenSeq(Close(c).done) = Laid(c)
<1>1. /\ c.done \in Seq(Seq(T)) /\ c.open \in Seq(T) /\ c.words \in Nat
      /\ MaxWords \in Nat
  BY TimelineAssumption DEF Piles
<1>2. /\ Closed(c.done) /\ WordsOf(c.open) = c.words /\ c.words < MaxWords
      /\ c.done # <<>> /\ c.open # <<>> => Ends(c.done[Len(c.done)], Head(c.open))
  BY DEF Well
<1>3. Close(c).done = IF c.open = <<>> THEN c.done ELSE Append(c.done, c.open)
  <2>1. \A d : Pile(d, <<>>, 0).done = d
    BY DEF Pile
  <2>2. Close(c) = Pile(IF c.open = <<>> THEN c.done ELSE Append(c.done, c.open), <<>>, 0)
    BY CloseIs
  <2> QED BY <2>1, <2>2
<1>4. CASE c.open = <<>>
  <2>1. FlattenSeq(c.done) \in Seq(T)
    BY <1>1, FlattenAppend
  <2>2. Laid(c) = FlattenSeq(c.done)
    BY <1>4, <2>1, ConcatEmptySeq DEF Laid
  <2> QED BY <1>1, <1>2, <1>3, <1>4, <2>2
<1>5. CASE c.open # <<>>
  <2>1. Sized(c.open)
    BY <1>1, <1>2, <1>5 DEF Sized
  <2>2. Closed(Append(c.done, c.open)) /\ Append(c.done, c.open) \in Seq(Seq(T))
    BY <1>1, <1>2, <1>5, <2>1, ClosedAppend, AppendProperties
  <2>3. FlattenSeq(Append(c.done, c.open)) = Laid(c)
    BY <1>1, FlattenAppend DEF Laid
  <2> QED BY <1>3, <1>5, <2>2, <2>3
<1> QED BY <1>4, <1>5

\* Whatever the segments, the chunks hold all of them in order, and no chunk is
\* too long or ends too early.
LEMMA ChunksHoldAll ==
  ASSUME NEW T, Weights(T), NEW q \in Seq(T)
  PROVE  Chunks(q) \in Seq(Seq(T)) /\ Closed(Chunks(q)) /\ FlattenSeq(Chunks(q)) = q
<1> DEFINE n == Len(q)
           B == {c \in Piles(T) : Well(c)}
           Eq(it) == it = [s \in SUBSET (1 .. n) |->
                             IF s = {} THEN NoChunk ELSE AddSegment(it[s \ {Max(s)}], q[Max(s)])]
           G == [k \in 1 .. n |-> [x \in B |-> AddSegment(x, q[k])]]
<1>1. n \in Nat /\ DOMAIN q = 1 .. n /\ \A k \in 1 .. n : q[k] \in T
  OBVIOUS
<1>2. \A x \in B, k \in 1 .. n :
        AddSegment(x, q[k]) \in B /\ Laid(AddSegment(x, q[k])) = Append(Laid(x), q[k])
  BY <1>1, AddIs
<1>3. NoChunk \in B /\ Laid(NoChunk) = <<>>
  <2>1. NoChunk.done = <<>> /\ NoChunk.open = <<>> /\ NoChunk.words = 0
    BY DEF NoChunk
  <2>2. NoChunk \in Piles(T)
    BY DEF NoChunk, Piles
  <2>3. MaxWords \in Nat \ {0}
    BY TimelineAssumption
  <2>4. Well(NoChunk)
    BY <2>1, <2>3, CountEmpty DEF Well, Closed
  <2>5. Laid(NoChunk) = <<>> \o <<>>
    BY <2>1, FlattenEmpty DEF Laid
  <2> QED BY <2>2, <2>4, <2>5
<1> HIDE DEF n, B
<1>4. G \in [1 .. n -> [B -> B]]
  BY <1>2
<1> HIDE DEF G
<1>5. PICK it : Iterates(it, n, B, NoChunk, G)
  BY <1>1, <1>3, <1>4, Iteration
<1>6. ASSUME NEW s \in SUBSET (1 .. n), s # {} PROVE Max(s) \in 1 .. n
  BY <1>1, <1>6, LastPlace
<1>7. \A k \in 1 .. n, x \in B : G[k][x] = AddSegment(x, q[k])
  BY DEF G
<1>8. Eq(it)
  BY <1>5, <1>6, <1>7 DEF Iterates
<1> DEFINE fold == CHOOSE f : Eq(f)
<1>9. Eq(fold)
  BY <1>8
<1>10. FoldLeft(AddSegment, NoChunk, q) = fold[1 .. n]
  BY <1>1 DEF FoldLeft, MapThenFoldSet
<1> HIDE DEF fold
<1>11. \A s \in SUBSET (1 .. n) :
         fold[s] = IF s = {} THEN NoChunk ELSE AddSegment(fold[s \ {Max(s)}], q[Max(s)])
  BY <1>9 DEF Eq
<1> HIDE DEF Eq
<1> DEFINE A == {k \in Nat : k <= n => fold[1 .. k] \in B /\ Laid(fold[1 .. k]) = SubSeq(q, 1, k)}
<1>12. 0 \in A
  <2>1. 1 .. 0 = {} /\ {} \in SUBSET (1 .. n)
    OBVIOUS
  <2>2. fold[1 .. 0] = NoChunk
    BY <1>11, <2>1
  <2>3. SubSeq(q, 1, 0) = <<>>
    BY SubSeqEmpty
  <2> QED BY <1>3, <2>2, <2>3
<1>13. ASSUME NEW k \in Nat, k \in A PROVE k + 1 \in A
  <2> SUFFICES ASSUME k + 1 <= n
               PROVE  /\ fold[1 .. k + 1] \in B
                      /\ Laid(fold[1 .. k + 1]) = SubSeq(q, 1, k + 1)
    OBVIOUS
  <2>1. /\ 1 .. k + 1 \in SUBSET (1 .. n) /\ 1 .. k + 1 # {}
        /\ k + 1 \in 1 .. k + 1 /\ (1 .. k + 1) \ {k + 1} = 1 .. k
        /\ k + 1 \in 1 .. n
    BY <1>1, FirstPlaces
  <2>2. Max(1 .. k + 1) = k + 1
    BY <1>1, <2>1, MaxIs
  <2>3. fold[1 .. k + 1] = AddSegment(fold[1 .. k], q[k + 1])
    BY <1>11, <2>1, <2>2
  <2>4. fold[1 .. k] \in B /\ Laid(fold[1 .. k]) = SubSeq(q, 1, k)
    BY <1>1, <1>13, <2>1
  <2>5. SubSeq(q, 1, k + 1) = Append(SubSeq(q, 1, k), q[k + 1])
    BY <1>1, <2>1, SubSeqRecursiveSecond
  <2> QED BY <1>2, <2>1, <2>3, <2>4, <2>5
<1>14. fold[1 .. n] \in B /\ Laid(fold[1 .. n]) = q
  <2> HIDE DEF A
  <2>1. n \in A
    BY <1>1, <1>12, <1>13, Induction
  <2>2. SubSeq(q, 1, n) = q
    BY SubSeqFull DEF n
  <2> QED BY <1>1, <2>1, <2>2 DEF A
<1>15. Chunks(q) = Close(fold[1 .. n]).done
  BY <1>10 DEF Chunks
<1> QED BY <1>14, <1>15, CloseEnds DEF B

-----------------------------------------------------------------------------
(* Windows, segments and words.                                             *)

Times == [start : Nat, end : Nat]

\* No window ends before it starts, the last one included.

LEMMA WindowIs ==
  ASSUME length \in Nat \ {0}
  PROVE  Windows \in Nat /\ \A k \in 1 .. Windows : Window(k) \in Times /\ Ordered(Window(k))
<1>0. Span \in Nat \ {0}
  BY TimelineAssumption
<1> DEFINE q == (length + Span - 1) \div Span
<1>1. q \in Nat /\ q * Span <= length + Span - 1
  BY <1>0
<1> HIDE DEF q
<1>2. ASSUME NEW k \in 1 .. q PROVE Window(k) \in Times /\ Ordered(Window(k))
  <2>1. k * Span <= q * Span
    BY <1>0, <1>1
  <2>2. /\ k * Span \in Nat /\ (k - 1) * Span \in Nat /\ q * Span \in Nat
        /\ (k - 1) * Span = k * Span - Span
    BY <1>0, <1>1
  <2>3. (k - 1) * Span <= length
    BY <1>0, <1>1, <2>1, <2>2
  <2>4. (k - 1) * Span <= k * Span
    BY <1>0, <2>2
  <2> QED BY <2>2, <2>3, <2>4 DEF Window, Least, Ordered, Times
<1> QED BY <1>1, <1>2 DEF Windows, q

Word == [start : Nat, end : Nat, speaker : {Nobody}]
Words == Seq(Word)
Segments == [start : Nat, end : Nat, speaker : {Nobody}, words : Words]

\* Rebasing and clipping keep every order that the validators ask for.
LEMMA WordRebased ==
  ASSUME NEW w \in Times, Ordered(w), NEW word \in Word
  PROVE  /\ RebaseWord(word, w) \in Word
         /\ RebaseWord(word, w).start = Clip(word.start, w)
         /\ RebaseWord(word, w).end = Clip(word.end, w)
<1>1. Clip(word.start, w) \in Nat /\ Clip(word.end, w) \in Nat
  BY DEF Clip, Least, Times, Ordered, Word
<1> QED BY <1>1 DEF RebaseWord, Word

LEMMA RebaseKeeps ==
  ASSUME NEW w \in Times, Ordered(w), NEW s \in Segments, Sound(s), InAudio(s, w)
  PROVE  Rebase(s, w) \in Segments /\ Sound(Rebase(s, w)) /\ Within(Rebase(s, w), w)
<1> DEFINE b == Clip(s.start, w)
           e == IF s.end >= Duration(w) THEN w.end ELSE w.start + s.end
           words == [k \in DOMAIN s.words |-> RebaseWord(s.words[k], w)]
           n == Len(s.words)
           r == Rebase(s, w)
<1>1. /\ w.start \in Nat /\ w.end \in Nat /\ w.start <= w.end /\ Tolerance \in Nat
      /\ s.start \in Nat /\ s.end \in Nat /\ s.start <= s.end /\ s.speaker = Nobody
      /\ Duration(w) = w.end - w.start /\ s.end <= w.end - w.start + Tolerance
  BY TimelineAssumption DEF Times, Ordered, Segments, Sound, InAudio, Duration
<1>2. s.words \in Words /\ n \in Nat /\ DOMAIN s.words = 1 .. n
  BY DEF Segments, Words
<1>3. ASSUME NEW k \in 1 .. n
      PROVE  /\ s.words[k].start \in Nat /\ s.words[k].end \in Nat
             /\ s.words[k].start <= s.words[k].end
             /\ s.words[k].start >= s.start - Tolerance
             /\ s.words[k].end <= s.end + Tolerance
             /\ \A j \in 1 .. k - 1 : s.words[k].start >= s.words[j].end - Tolerance
             /\ words[k] \in Word
             /\ words[k].start = Clip(s.words[k].start, w)
             /\ words[k].end = Clip(s.words[k].end, w)
  <2>1. s.words[k] \in Word
    BY <1>2, ElementOfSeq DEF Words
  <2>2. words[k] = RebaseWord(s.words[k], w)
    BY <1>2
  <2>3. WordsFit(s)
    BY DEF Sound
  <2> HIDE DEF words
  <2>4. /\ s.words[k].start \in Nat /\ s.words[k].end \in Nat
        /\ s.words[k].start <= s.words[k].end
        /\ s.words[k].start >= s.start - Tolerance
        /\ s.words[k].end <= s.end + Tolerance
        /\ \A j \in 1 .. k - 1 : s.words[k].start >= s.words[j].end - Tolerance
    BY <1>2, <2>1, <2>3 DEF WordsFit, Ordered, Word
  <2>5. /\ words[k] \in Word
        /\ words[k].start = Clip(s.words[k].start, w)
        /\ words[k].end = Clip(s.words[k].end, w)
    BY <2>1, <2>2, WordRebased
  <2> QED BY <2>4, <2>5
<1>4. words \in Words /\ DOMAIN words = 1 .. n
  <2>1. DOMAIN words = 1 .. n
    BY <1>2
  <2>2. words = [k \in 1 .. n |-> words[k]]
    BY <2>1
  <2> HIDE DEF words
  <2>3. words \in [1 .. n -> Word]
    BY <1>3, <2>2
  <2> QED BY <1>2, <2>1, <2>3 DEF Words
<1>5. b \in Nat /\ e \in Nat /\ b <= e /\ w.start <= b /\ e <= w.end
  BY <1>1 DEF Clip, Least
<1>6. r = [s EXCEPT !.start = b, !.end = e, !.words = words]
  BY DEF Rebase
<1> HIDE DEF b, e, words, r, n
<1>7. /\ r \in Segments
      /\ r.start = b /\ r.end = e /\ r.words = words /\ r.speaker = Nobody
  BY <1>1, <1>4, <1>5, <1>6 DEF Segments
<1>8. ASSUME NEW k \in 1 .. n
      PROVE  /\ words[k].start <= words[k].end
             /\ words[k].start >= b - Tolerance
             /\ words[k].end <= e + Tolerance
             /\ words[k].end <= w.end
  BY <1>1, <1>3 DEF b, e, Clip, Least
<1>9. ASSUME NEW k \in 1 .. n, NEW j \in 1 .. k - 1
      PROVE  words[k].start >= words[j].end - Tolerance
  <2>1. j \in 1 .. n
    BY <1>2
  <2>2. s.words[k].start >= s.words[j].end - Tolerance
    BY <1>3
  <2> QED BY <1>1, <1>3, <2>1, <2>2 DEF Clip, Least
<1>10. Sound(r)
  BY <1>4, <1>5, <1>7, <1>8, <1>9 DEF Sound, Ordered, WordsFit, OneVoice
<1>11. Within(r, w)
  BY <1>4, <1>5, <1>7, <1>8 DEF Within
<1> QED BY <1>7, <1>10, <1>11 DEF r

\* Labels change no time, and a segment's label is that of all its words.
LEMMA LabelledKeeps ==
  ASSUME NEW S, NEW s \in Segments, Sound(s)
  PROVE  /\ Sound(Labelled(S, s))
         /\ Labelled(S, s).start = s.start /\ Labelled(S, s).end = s.end
         /\ DOMAIN Labelled(S, s).words = DOMAIN s.words
         /\ Len(Labelled(S, s).words) = Len(s.words)
         /\ \A k \in DOMAIN s.words : /\ Labelled(S, s).words[k].start = s.words[k].start
                                      /\ Labelled(S, s).words[k].end = s.words[k].end
<1> DEFINE words == LabelWords(S, s)
           named == {words[k].speaker : k \in DOMAIN words}
           voice == IF words = <<>> THEN SpeakerFor(S, s)
                    ELSE IF Cardinality(named) = 1 THEN CHOOSE n \in named : TRUE ELSE Nobody
           n == Len(s.words)
           r == Labelled(S, s)
<1>1. s.words \in Words /\ n \in Nat /\ DOMAIN s.words = 1 .. n
  BY DEF Segments, Words
<1>2. DOMAIN words = 1 .. n /\ Len(words) = n
  <2> DEFINE V == {words[k] : k \in 1 .. n}
  <2>1. DOMAIN words = 1 .. n /\ words = [k \in 1 .. n |-> words[k]]
    BY <1>1 DEF LabelWords
  <2> HIDE DEF words
  <2>2. words \in [1 .. n -> V]
    BY <2>1
  <2> HIDE DEF V
  <2>3. words \in Seq(V)
    BY <1>1, <2>2
  <2> QED BY <1>1, <2>1, <2>3
<1>3. ASSUME NEW k \in 1 .. n
      PROVE words[k].start = s.words[k].start /\ words[k].end = s.words[k].end
  <2>1. s.words[k] \in Word
    BY <1>1, ElementOfSeq DEF Words
  <2>2. words[k] = [s.words[k] EXCEPT !.speaker = SpeakerFor(S, s.words[k])]
    BY <1>1 DEF LabelWords
  <2> HIDE DEF words
  <2> QED BY <2>1, <2>2 DEF Word
<1> HIDE DEF words
<1>4. r = [s EXCEPT !.words = words, !.speaker = voice]
  BY DEF Labelled, words
<1> HIDE DEF voice, r
<1>5. r.start = s.start /\ r.end = s.end /\ r.words = words /\ r.speaker = voice
  BY <1>4 DEF Segments
<1>6. OneVoice(r)
  <2> SUFFICES ASSUME voice # Nobody, NEW k \in 1 .. n PROVE words[k].speaker = voice
    BY <1>2, <1>5 DEF OneVoice
  <2>1. words # <<>> /\ words[k].speaker \in named
    BY <1>2
  <2>2. Cardinality(named) = 1 /\ voice = CHOOSE m \in named : TRUE
    BY <2>1 DEF voice
  <2>3. IsFiniteSet(named)
    <3> DEFINE f == [i \in 1 .. n |-> words[i].speaker]
    <3>1. IsFiniteSet(1 .. n)
      <4>1. 1 \in Int /\ n \in Int
        BY <1>1
      <4> QED BY <4>1, FS_Interval
    <3>2. f \in Surjection(1 .. n, named)
      BY <1>2 DEF Surjection
    <3> QED BY <3>1, <3>2, FS_Surjection
  <2> HIDE DEF named
  <2>4. PICK m : named = {m}
    BY <2>2, <2>3, FS_Singleton
  <2> QED BY <2>1, <2>2, <2>4
<1>7. Ordered(r) /\ WordsFit(r)
  <2>1. Ordered(s) /\ WordsFit(s)
    BY DEF Sound
  <2>2. \A k \in 1 .. n : \A j \in 1 .. k - 1 : j \in 1 .. n
    BY <1>1
  <2>3. ASSUME NEW k \in 1 .. n
        PROVE  /\ words[k].start <= words[k].end
               /\ words[k].start >= s.start - Tolerance
               /\ words[k].end <= s.end + Tolerance
               /\ \A j \in 1 .. k - 1 : words[k].start >= words[j].end - Tolerance
    <3>1. /\ s.words[k].start <= s.words[k].end
          /\ s.words[k].start >= s.start - Tolerance
          /\ s.words[k].end <= s.end + Tolerance
          /\ \A j \in 1 .. k - 1 : s.words[k].start >= s.words[j].end - Tolerance
      BY <1>1, <2>1 DEF WordsFit, Ordered
    <3> QED BY <1>3, <2>2, <3>1
  <2> QED BY <1>2, <1>5, <2>1, <2>3 DEF WordsFit, Ordered
<1> QED BY <1>1, <1>2, <1>3, <1>5, <1>6, <1>7 DEF Sound, r

\* A segment is as wide as its earliest and its latest word.
LEMMA HasGreatest ==
  ASSUME NEW n \in Nat, NEW f \in [1 .. n -> Nat], NEW a \in Nat
  PROVE  LET T == {a} \cup {f[k] : k \in 1 .. n} IN Max(T) \in T
<1> DEFINE T(m) == {a} \cup {f[k] : k \in 1 .. m}
           Has(m) == \E x \in T(m) : \A y \in T(m) : y <= x
           A == {m \in Nat : m <= n => Has(m)}
<1>1. 0 \in A
  <2>1. T(0) = {a} /\ a <= a
    OBVIOUS
  <2> QED BY <2>1
<1>2. ASSUME NEW m \in Nat, m \in A PROVE m + 1 \in A
  <2> HIDE DEF Has
  <2> SUFFICES ASSUME m + 1 <= n PROVE Has(m + 1)
    OBVIOUS
  <2> USE DEF Has
  <2>1. PICK x \in T(m) : \A y \in T(m) : y <= x
    BY <1>2
  <2>2. T(m + 1) = T(m) \cup {f[m + 1]} /\ f[m + 1] \in Nat /\ T(m) \subseteq Nat
    OBVIOUS
  <2> HIDE DEF T
  <2>3. CASE f[m + 1] <= x
    <3>1. x \in T(m + 1) /\ \A y \in T(m + 1) : y <= x
      BY <2>1, <2>2, <2>3
    <3> QED BY <3>1
  <2>4. CASE ~(f[m + 1] <= x)
    <3>1. f[m + 1] \in T(m + 1) /\ \A y \in T(m + 1) : y <= f[m + 1]
      BY <2>1, <2>2, <2>4
    <3> QED BY <3>1
  <2> QED BY <2>3, <2>4
<1>3. Has(n)
  <2> HIDE DEF A
  <2>1. n \in A
    BY <1>1, <1>2, Induction
  <2> QED BY <2>1 DEF A
<1>4. T(n) \subseteq Nat
  OBVIOUS
<1> HIDE DEF T
<1>5. PICK x \in T(n) : \A y \in T(n) : y <= x
  BY <1>3
<1>6. Max(T(n)) = x
  BY <1>4, <1>5, MaxIs
<1> QED BY <1>5, <1>6 DEF T

LEMMA HasLeast ==
  ASSUME NEW T \in SUBSET Nat, T # {}
  PROVE  Min(T) \in T
<1>1. PICK x \in T : \A y \in T : x <= y
  BY LeastNumber
<1> QED BY <1>1 DEF Min

\* Whatever the engine returns, its widened segment is one of the timeline's.
LEMMA AlignedIs ==
  ASSUME NEW r \in Raw
  PROVE  Aligned(r) \in Segments
<1> DEFINE n == Len(r.words)
           starts == {r.words[k].start : k \in DOMAIN r.words}
           ends == {r.words[k].end : k \in DOMAIN r.words}
           words == [k \in DOMAIN r.words |->
                       [start |-> r.words[k].start, end |-> r.words[k].end, speaker |-> Nobody]]
           ended == [k \in 1 .. n |-> r.words[k].end]
<1>1. r \in [start : Nat, end : Nat, words : Seq(Times)]
  BY TimelineAssumption DEF Times
<1>2. /\ r.words \in Seq(Times) /\ n \in Nat /\ DOMAIN r.words = 1 .. n
      /\ r.start \in Nat /\ r.end \in Nat
  BY <1>1
<1>3. ASSUME NEW k \in 1 .. n
      PROVE  r.words[k].start \in Nat /\ r.words[k].end \in Nat
  <2>1. r.words[k] \in Times
    BY <1>2, ElementOfSeq
  <2> QED BY <2>1 DEF Times
<1> HIDE DEF n
<1>4. words \in Words
  <2>1. words \in [1 .. n -> Word]
    BY <1>2, <1>3 DEF Word
  <2> QED BY <1>2, <2>1 DEF Words
<1>5. Min({r.start} \cup starts) \in Nat
  <2>1. {r.start} \cup starts \in SUBSET Nat /\ {r.start} \cup starts # {}
    BY <1>2, <1>3
  <2> HIDE DEF starts
  <2>2. Min({r.start} \cup starts) \in {r.start} \cup starts
    BY <2>1, HasLeast
  <2> QED BY <2>1, <2>2
<1>6. Max({r.end} \cup ends) \in Nat
  <2>1. ended \in [1 .. n -> Nat] /\ ends = {ended[k] : k \in 1 .. n}
    BY <1>2, <1>3
  <2>2. {r.end} \cup {ended[k] : k \in 1 .. n} \subseteq Nat
    BY <1>2, <2>1
  <2> HIDE DEF ends, ended
  <2>3. Max({r.end} \cup {ended[k] : k \in 1 .. n}) \in {r.end} \cup {ended[k] : k \in 1 .. n}
    BY <1>2, <2>1, HasGreatest
  <2> QED BY <2>1, <2>2, <2>3
<1>7. Aligned(r) = [start |-> Min({r.start} \cup starts), end |-> Max({r.end} \cup ends),
                    speaker |-> Nobody, words |-> words]
  BY DEF Aligned
<1> HIDE DEF starts, ends, words
<1> QED BY <1>4, <1>5, <1>6, <1>7 DEF Segments

-----------------------------------------------------------------------------
Heard == {s \in Segments : Sound(s)}

TypeInv ==
  /\ length \in Nat \ {0}
  /\ heard \in Seq(Seq(Heard)) /\ Len(heard) <= Windows
  /\ joined \in 0 .. Windows
  /\ phase \in {"hear", "assemble", "label", "publish", "published", "failed"}
  /\ phase \in {"assemble", "label"} => Len(heard) = Windows

Placed(q, n) ==
  \A i, j \in DOMAIN q : i <= j =>
    \E k, l \in 1 .. n : k <= l /\ Within(q[i], Window(k)) /\ Within(q[j], Window(l))

Transcribed(q) == \E n \in Nat : DOMAIN q = 1 .. n /\ q = [i \in 1 .. n |-> q[i]]

TimelineInv ==
  /\ TypeInv
  /\ why \notin {"assembly", "labels"}
  /\ phase \in {"hear", "assemble", "label"} => transcript \in Seq(Heard)
  /\ Transcribed(transcript) /\ \A i \in DOMAIN transcript : Len(transcript[i].words) \in Nat
  /\ Placed(transcript, joined)

LEMMA TimelineInvInit == TimelineInit => TimelineInv
<1> SUFFICES ASSUME TimelineInit PROVE TimelineInv
  OBVIOUS
<1>1. length \in Nat \ {0} /\ heard = <<>> /\ joined = 0 /\ transcript = <<>> /\ phase = "hear" /\ why = Nobody
  BY TimelineAssumption DEF TimelineInit
<1>2. Windows \in Nat
  BY <1>1, WindowIs
<1>3. TypeInv
  BY <1>1, <1>2 DEF TypeInv
<1>4. Transcribed(transcript) /\ DOMAIN transcript = {}
  BY <1>1 DEF Transcribed
<1> QED BY <1>1, <1>3, <1>4, TimelineAssumption DEF TimelineInv, Placed

\* The next window's segments are placed after all others.
LEMMA PlacedNext ==
  ASSUME NEW n \in Nat, NEW q \in Seq(Heard), NEW e \in Seq(Heard), Placed(q, n),
         \A i \in DOMAIN e : Within(e[i], Window(n + 1))
  PROVE  Placed(q \o e, n + 1)
<1> DEFINE c == q \o e
<1>1. /\ Len(q) \in Nat /\ Len(e) \in Nat /\ DOMAIN q = 1 .. Len(q) /\ DOMAIN e = 1 .. Len(e)
      /\ DOMAIN c = 1 .. Len(q) + Len(e)
      /\ \A i \in 1 .. Len(q) + Len(e) : c[i] = IF i <= Len(q) THEN q[i] ELSE e[i - Len(q)]
  BY ConcatProperties
<1> HIDE DEF c
<1>2. ASSUME NEW i \in DOMAIN c, i <= Len(q)
      PROVE  i \in DOMAIN q /\ c[i] = q[i] /\ \E k \in 1 .. n : Within(c[i], Window(k))
  <2>1. i \in DOMAIN q /\ c[i] = q[i]
    BY <1>1, <1>2
  <2>2. i <= i
    BY <1>1
  <2> QED BY <2>1, <2>2 DEF Placed
<1>3. ASSUME NEW i \in DOMAIN c, ~(i <= Len(q)) PROVE Within(c[i], Window(n + 1))
  <2>1. i - Len(q) \in DOMAIN e /\ c[i] = e[i - Len(q)]
    BY <1>1, <1>3
  <2> QED BY <2>1
<1>4. ASSUME NEW i \in DOMAIN c, NEW j \in DOMAIN c, i <= j
      PROVE  \E k, l \in 1 .. n + 1 : k <= l /\ Within(c[i], Window(k)) /\ Within(c[j], Window(l))
  <2>1. n + 1 \in 1 .. n + 1 /\ n + 1 <= n + 1 /\ \A k \in 1 .. n : k \in 1 .. n + 1 /\ k <= n + 1
    OBVIOUS
  <2>2. CASE j <= Len(q)
    <3>1. i <= Len(q)
      BY <1>1, <1>4, <2>2
    <3>2. i \in DOMAIN q /\ c[i] = q[i] /\ j \in DOMAIN q /\ c[j] = q[j]
      BY <1>2, <2>2, <3>1
    <3>3. PICK k, l \in 1 .. n : k <= l /\ Within(q[i], Window(k)) /\ Within(q[j], Window(l))
      BY <1>4, <3>2 DEF Placed
    <3> QED BY <2>1, <3>2, <3>3
  <2>3. CASE ~(j <= Len(q)) /\ i <= Len(q)
    <3>1. PICK k \in 1 .. n : Within(c[i], Window(k))
      BY <1>2, <2>3
    <3> QED BY <1>3, <2>1, <2>3, <3>1
  <2>4. CASE ~(j <= Len(q)) /\ ~(i <= Len(q))
    BY <1>3, <2>1, <2>4
  <2> QED BY <2>2, <2>3, <2>4
<1> QED BY <1>4 DEF Placed, c

\* What Publish and the chunks need of a transcript that is made of segments.
LEMMA SegmentsCount ==
  ASSUME NEW q \in Seq(Heard)
  PROVE  Transcribed(q) /\ \A i \in DOMAIN q : Len(q[i].words) \in Nat
<1>1. DOMAIN q = 1 .. Len(q) /\ Len(q) \in Nat /\ q = [i \in 1 .. Len(q) |-> q[i]]
  OBVIOUS
<1>2. ASSUME NEW i \in DOMAIN q PROVE Len(q[i].words) \in Nat
  <2>1. q[i] \in Heard
    BY <1>1, ElementOfSeq
  <2>2. q[i].words \in Words
    BY <2>1 DEF Heard, Segments
  <2> QED BY <2>2 DEF Words
<1> QED BY <1>1, <1>2 DEF Transcribed

LEMMA FailKeeps ==
  ASSUME TimelineInv, NEW cause, Fail(cause), cause \notin {"assembly", "labels"}
  PROVE  TimelineInv'
<1>1. UNCHANGED <<length, heard, joined, transcript>> /\ phase' = "failed" /\ why' = cause
  BY DEF Fail
<1>2. Windows' = Windows /\ \A k : Window(k)' = Window(k)
  BY <1>1 DEF Windows, Window
<1>3. TypeInv'
  BY <1>1, <1>2 DEF TimelineInv, TypeInv
<1>4. Placed(transcript, joined)'
  BY <1>1, <1>2 DEF TimelineInv, Placed
<1> QED BY <1>1, <1>3, <1>4 DEF TimelineInv, Transcribed

LEMMA OpenKeeps == ASSUME TimelineInv, OpenWindow PROVE TimelineInv'
<1>1. /\ UNCHANGED <<length, joined, transcript, phase, why>> /\ phase = "hear"
      /\ Len(heard) < Windows /\ heard' = Append(heard, <<>>)
  BY DEF OpenWindow
<1>2. Windows' = Windows /\ \A k : Window(k)' = Window(k)
  BY <1>1 DEF Windows, Window
<1>3. <<>> \in Seq(Heard) /\ heard \in Seq(Seq(Heard)) /\ length \in Nat \ {0}
  BY DEF TimelineInv, TypeInv
<1>4. Windows \in Nat
  BY <1>3, WindowIs
<1>5. heard' \in Seq(Seq(Heard)) /\ Len(heard') = Len(heard) + 1
  BY <1>1, <1>3, AppendProperties
<1>6. Len(heard') <= Windows'
  BY <1>1, <1>2, <1>3, <1>4, <1>5
<1>7. TypeInv'
  BY <1>1, <1>2, <1>5, <1>6 DEF TimelineInv, TypeInv
<1>8. Placed(transcript, joined)'
  BY <1>1, <1>2 DEF TimelineInv, Placed
<1> QED BY <1>1, <1>7, <1>8 DEF TimelineInv, Transcribed

LEMMA HearKeeps == ASSUME TimelineInv, Hear PROVE TimelineInv'
<1>1. CASE \E cause \in {"engine"} : Fail(cause)
  BY <1>1, FailKeeps
<1>2. CASE \E r \in Raw : /\ Sound(Aligned(r))
                          /\ heard' = [heard EXCEPT ![Len(heard)] = Append(@, Aligned(r))]
                          /\ UNCHANGED <<length, probed, joined, transcript, turns, phase, why>>
  <2>1. PICK r \in Raw : /\ Sound(Aligned(r))
                         /\ heard' = [heard EXCEPT ![Len(heard)] = Append(@, Aligned(r))]
                         /\ UNCHANGED <<length, joined, transcript, phase, why>>
    BY <1>2
  <2>2. heard # <<>> /\ phase = "hear" /\ heard \in Seq(Seq(Heard)) /\ Len(heard) <= Windows
    BY DEF Hear, TimelineInv, TypeInv
  <2>3. Windows' = Windows /\ \A k : Window(k)' = Window(k)
    BY <2>1 DEF Windows, Window
  <2>4. Aligned(r) \in Heard
    BY <2>1, AlignedIs DEF Heard
  <2>5. Len(heard) \in 1 .. Len(heard)
    BY <2>2
  <2>6. Append(heard[Len(heard)], Aligned(r)) \in Seq(Heard)
    BY <2>2, <2>4, <2>5, ElementOfSeq, AppendProperties
  <2>7. heard' \in Seq(Seq(Heard)) /\ Len(heard') = Len(heard)
    BY <2>1, <2>2, <2>5, <2>6, ExceptSeq
  <2>8. TypeInv'
    BY <2>1, <2>2, <2>3, <2>7 DEF TimelineInv, TypeInv
  <2>9. Placed(transcript, joined)'
    BY <2>1, <2>3 DEF TimelineInv, Placed
  <2> QED BY <2>1, <2>8, <2>9 DEF TimelineInv, Transcribed
<1> QED BY <1>1, <1>2 DEF Hear

LEMMA AssembleKeeps == ASSUME TimelineInv, Assemble PROVE TimelineInv'
<1> DEFINE k == joined + 1
           w == Window(k)
<1>1. /\ phase = "assemble" /\ joined < Windows /\ length \in Nat \ {0}
      /\ joined \in 0 .. Windows /\ Len(heard) = Windows /\ heard \in Seq(Seq(Heard))
  BY DEF Assemble, TimelineInv, TypeInv
<1>2. Windows \in Nat /\ k \in 1 .. Windows /\ joined \in Nat
  BY <1>1, WindowIs
<1>3. w \in Times /\ Ordered(w)
  BY <1>1, <1>2, WindowIs
<1>4. heard[k] \in Seq(Heard)
  BY <1>1, <1>2, ElementOfSeq
<1>5. ASSUME NEW i \in DOMAIN heard[k], InAudio(heard[k][i], w)
      PROVE  /\ Rebase(heard[k][i], w) \in Heard
             /\ Within(Rebase(heard[k][i], w), w)
  <2>1. heard[k][i] \in Heard
    BY <1>4, ElementOfSeq
  <2> QED BY <1>3, <1>5, <2>1, RebaseKeeps DEF Heard
<1>6. Rebased(k) = [i \in DOMAIN heard[k] |-> Rebase(heard[k][i], w)]
  BY DEF Rebased
<1>7. CASE Fail("outside")
  BY <1>7, FailKeeps
<1>8. ASSUME \A i \in DOMAIN heard[k] : InAudio(heard[k][i], w)
      PROVE  Rebased(k) \in Seq(Heard) /\ \A i \in DOMAIN Rebased(k) : Within(Rebased(k)[i], w)
  <2> HIDE DEF k, w
  <2>1. DOMAIN heard[k] = 1 .. Len(heard[k]) /\ Len(heard[k]) \in Nat
    BY <1>4
  <2>2. \A i \in DOMAIN heard[k] : Rebase(heard[k][i], w) \in Heard
    BY <1>5, <1>8
  <2>3. Rebased(k) \in [1 .. Len(heard[k]) -> Heard]
    BY <1>6, <2>1, <2>2
  <2> QED BY <1>5, <1>6, <1>8, <2>1, <2>3
<1>9. CASE /\ \A i \in DOMAIN heard[k] : InAudio(heard[k][i], w)
           /\ \E i \in DOMAIN heard[k] : ~Sound(Rebased(k)[i])
  <2> HIDE DEF k, w
  <2> SUFFICES ASSUME NEW i \in DOMAIN heard[k], ~Sound(Rebased(k)[i]) PROVE FALSE
    BY <1>9
  <2>1. Rebased(k)[i] \in Heard
    BY <1>5, <1>6, <1>9
  <2> QED BY <2>1 DEF Heard
<1>10. CASE /\ \A i \in DOMAIN heard[k] : InAudio(heard[k][i], w)
            /\ transcript' = transcript \o Rebased(k) /\ joined' = k
            /\ UNCHANGED <<length, probed, heard, turns, phase, why>>
  <2>1. Rebased(k) \in Seq(Heard) /\ \A i \in DOMAIN Rebased(k) : Within(Rebased(k)[i], w)
    BY <1>8, <1>10
  <2>2. transcript \in Seq(Heard) /\ Placed(transcript, joined)
    BY <1>1 DEF TimelineInv
  <2>3. transcript' \in Seq(Heard)
    BY <1>10, <2>1, <2>2, ConcatProperties
  <2>4. Placed(transcript \o Rebased(k), k)
    BY <1>2, <2>1, <2>2, PlacedNext
  <2>5. Windows' = Windows /\ \A m : Window(m)' = Window(m)
    BY <1>10 DEF Windows, Window
  <2>6. Placed(transcript, joined)'
    <3> HIDE DEF k, w
    <3> QED BY <1>10, <2>4, <2>5 DEF Placed
  <2>7. TypeInv'
    BY <1>1, <1>2, <1>10, <2>5 DEF TypeInv
  <2>8. Transcribed(transcript)' /\ (\A i \in DOMAIN transcript : Len(transcript[i].words) \in Nat)'
    BY <2>3, SegmentsCount DEF Transcribed
  <2> QED BY <1>10, <2>3, <2>6, <2>7, <2>8 DEF TimelineInv
<1> QED BY <1>7, <1>9, <1>10 DEF Assemble

LEMMA DiarizeKeeps == ASSUME TimelineInv, Diarize PROVE TimelineInv'
<1>1. PICK S \in Turns :
        LET labelled == [i \in DOMAIN transcript |-> Labelled(S, transcript[i])]
        IN \/ Fail("turns")
           \/ (\E i \in DOMAIN labelled : ~Sound(labelled[i])) /\ Fail("labels")
           \/ /\ transcript' = labelled /\ phase' = "publish"
              /\ UNCHANGED <<length, heard, joined, why>>
  BY DEF Diarize
<1> DEFINE q == [i \in DOMAIN transcript |-> Labelled(S, transcript[i])]
<1>2. phase = "label" /\ transcript \in Seq(Heard)
  BY DEF Diarize, TimelineInv
<1>3. ASSUME NEW i \in DOMAIN transcript
      PROVE  /\ Sound(q[i]) /\ Len(q[i].words) \in Nat
             /\ \A w : Within(transcript[i], w) => Within(q[i], w)
  <2>1. transcript[i] \in Heard
    BY <1>2, ElementOfSeq
  <2>2. q[i] = Labelled(S, transcript[i])
    OBVIOUS
  <2>3. /\ Sound(q[i])
        /\ q[i].start = transcript[i].start /\ q[i].end = transcript[i].end
        /\ DOMAIN q[i].words = DOMAIN transcript[i].words
        /\ Len(q[i].words) = Len(transcript[i].words)
        /\ \A n \in DOMAIN transcript[i].words : q[i].words[n].end = transcript[i].words[n].end
    BY <2>1, <2>2, LabelledKeeps DEF Heard
  <2>4. Len(q[i].words) \in Nat
    <3>1. transcript[i].words \in Words
      BY <2>1 DEF Heard, Segments
    <3> QED BY <2>3, <3>1 DEF Words
  <2> HIDE DEF q
  <2>5. ASSUME NEW w, Within(transcript[i], w) PROVE Within(q[i], w)
    BY <2>3, <2>5 DEF Within
  <2> QED BY <2>3, <2>4, <2>5
<1>4. CASE Fail("turns")
  BY <1>4, FailKeeps
<1>5. CASE \E i \in DOMAIN q : ~Sound(q[i])
  BY <1>3, <1>5
<1>6. CASE transcript' = q /\ phase' = "publish" /\ UNCHANGED <<length, heard, joined, why>>
  <2>1. Windows' = Windows /\ \A m : Window(m)' = Window(m)
    BY <1>6 DEF Windows, Window
  <2>2. TypeInv'
    BY <1>6, <2>1 DEF TimelineInv, TypeInv
  <2>3. Placed(q, joined)
    <3>1. DOMAIN q = DOMAIN transcript /\ Placed(transcript, joined)
      BY DEF TimelineInv
    <3> HIDE DEF q
    <3> QED BY <1>3, <3>1 DEF Placed
  <2>4. Placed(transcript, joined)'
    <3> HIDE DEF q
    <3> QED BY <1>6, <2>1, <2>3 DEF Placed
  <2>5. Transcribed(transcript')
    <3>1. DOMAIN transcript = 1 .. Len(transcript) /\ Len(transcript) \in Nat
      BY <1>2
    <3> QED BY <1>6, <3>1 DEF Transcribed
  <2>6. \A i \in DOMAIN transcript' : Len(transcript'[i].words) \in Nat
    BY <1>3, <1>6
  <2> QED BY <1>6, <2>2, <2>4, <2>5, <2>6 DEF TimelineInv, Transcribed
<1> QED BY <1>1, <1>4, <1>5, <1>6

LEMMA PhaseKeeps ==
  ASSUME TimelineInv, AllHeard \/ Assembled \/ NotAsked \/ (Publish /\ phase' = "published")
                      \/ UNCHANGED timelineVars
  PROVE  TimelineInv'
<1>1. UNCHANGED <<length, heard, joined, transcript, why>>
  BY DEF AllHeard, Assembled, NotAsked, Publish, Fail, timelineVars
<1>2. Windows' = Windows /\ \A k : Window(k)' = Window(k)
  BY <1>1 DEF Windows, Window
<1>3. TypeInv'
  BY <1>1, <1>2 DEF AllHeard, Assembled, NotAsked, Publish, Fail, timelineVars, TimelineInv, TypeInv
<1>4. Placed(transcript, joined)'
  BY <1>1, <1>2 DEF TimelineInv, Placed
<1>5. (phase \in {"hear", "assemble", "label"})' => phase \in {"hear", "assemble", "label"}
  BY DEF AllHeard, Assembled, NotAsked, Publish, Fail, timelineVars
<1> QED BY <1>1, <1>3, <1>4, <1>5 DEF TimelineInv, Transcribed

LEMMA TimelineStep == TimelineInv /\ [TimelineNext]_timelineVars => TimelineInv'
<1> SUFFICES ASSUME TimelineInv, [TimelineNext]_timelineVars PROVE TimelineInv'
  OBVIOUS
<1>1. CASE OpenWindow
  BY <1>1, OpenKeeps
<1>2. CASE Hear
  BY <1>2, HearKeeps
<1>3. CASE Assemble
  BY <1>3, AssembleKeeps
<1>4. CASE Diarize
  BY <1>4, DiarizeKeeps
<1>5. CASE Publish
  <2>1. CASE phase' = "published"
    BY <1>5, <2>1, PhaseKeeps
  <2>2. CASE Fail("source")
    BY <2>2, FailKeeps
  <2> QED BY <1>5, <2>1, <2>2 DEF Publish
<1>6. CASE AllHeard \/ Assembled \/ NotAsked \/ UNCHANGED timelineVars
  BY <1>6, PhaseKeeps
<1> QED BY <1>1, <1>2, <1>3, <1>4, <1>5, <1>6 DEF TimelineNext

\* HeardIsKept: rebasing and labelling never make a segment that is refused, the
\* segments keep the order of their windows, and the chunks that are searched hold
\* all of them in order (assembly.py, diarization.py, semantic.py).
THEOREM NothingHeardIsLost == TimelineSpec => []HeardIsKept
<1>1. ASSUME TimelineInv PROVE HeardIsKept
  <2> DEFINE T == {transcript[i] : i \in DOMAIN transcript}
  <2>1. transcript \in Seq(T)
    <3>1. PICK n \in Nat : DOMAIN transcript = 1 .. n /\ transcript = [i \in 1 .. n |-> transcript[i]]
      BY <1>1 DEF TimelineInv, Transcribed
    <3>2. transcript \in [1 .. n -> T]
      BY <3>1
    <3> HIDE DEF T
    <3>3. [1 .. n -> T] \subseteq Seq(T)
      BY SeqDef
    <3> QED BY <3>2, <3>3
  <2>2. Weights(T)
    <3>1. ASSUME NEW i \in DOMAIN transcript PROVE Weight(transcript[i]) \in Nat \ {0}
      <4>1. Len(transcript[i].words) \in Nat
        BY <1>1 DEF TimelineInv
      <4> QED BY <4>1 DEF Weight, Greatest
    <3> QED BY <3>1 DEF Weights
  <2>3. /\ Chunks(transcript) \in Seq(Seq(T)) /\ Closed(Chunks(transcript))
        /\ FlattenSeq(Chunks(transcript)) = transcript
    BY <2>1, <2>2, ChunksHoldAll
  <2>4. WellChunked(Chunks(transcript))
    <3> DEFINE chunks == Chunks(transcript)
    <3> HIDE DEF chunks
    <3> QED BY <2>3 DEF WellChunked, Closed, Sized, Ends, chunks
  <2> QED BY <1>1, <2>4 DEF TimelineInv, Placed, HeardIsKept
<1> QED BY <1>1, TimelineInvInit, TimelineStep, PTL DEF TimelineSpec

-----------------------------------------------------------------------------
(* How a transcript is read with its speakers.                              *)

\* A picture of a finite set is finite.
LEMMA FinitePicture ==
  ASSUME NEW S, IsFiniteSet(S), NEW f, DOMAIN f = S
  PROVE  IsFiniteSet({f[x] : x \in S}) /\ Cardinality({f[x] : x \in S}) \in Nat
<1> DEFINE T == {f[x] : x \in S}
           g == [x \in S |-> f[x]]
<1>1. g \in Surjection(S, T)
  BY DEF Surjection
<1> QED BY <1>1, FS_Surjection, FS_CardinalityType

\* More than one is two of them.
LEMMA TwoOrMore ==
  ASSUME NEW A, IsFiniteSet(A)
  PROVE  /\ Cardinality(A) > 1 <=> \E x, y \in A : x # y
         /\ Cardinality(A) < 2 <=> ~(Cardinality(A) > 1)
         /\ Cardinality(A) = 1 => \E x : A = {x}
         /\ Cardinality(A) # 1 /\ ~(Cardinality(A) > 1) => A = {}
<1>1. /\ Cardinality(A) \in Nat
      /\ Cardinality(A) = 0 <=> A = {}
      /\ Cardinality(A) = 1 <=> \E x : A = {x}
  BY FS_CardinalityType, FS_EmptySet, FS_Singleton
<1>2. (\E x, y \in A : x # y) <=> A # {} /\ ~\E x : A = {x}
  OBVIOUS
<1>3. Cardinality(A) > 1 <=> Cardinality(A) # 0 /\ Cardinality(A) # 1
  BY <1>1
<1>4. Cardinality(A) < 2 <=> ~(Cardinality(A) > 1)
  BY <1>1
<1>5. Cardinality(A) > 1 <=> \E x, y \in A : x # y
  BY <1>1, <1>2, <1>3, Zenon
<1>6. Cardinality(A) # 1 /\ ~(Cardinality(A) > 1) => A = {}
  BY <1>1, <1>3, Zenon
<1>7. Cardinality(A) = 1 => \E x : A = {x}
  BY <1>1, Zenon
<1> QED BY <1>4, <1>5, <1>6, <1>7, Zenon

TurnsKnown == turns = Nobody \/ turns \in Turns

Timed(i) == i.start \in Nat /\ i.end \in Nat /\ i.start <= i.end

LEMMA TurnFacts ==
  ASSUME TurnsKnown
  PROVE  /\ IsFiniteSet(SpeakerTurns)
         /\ \A t \in SpeakerTurns : t.start \in Nat /\ t.end \in Nat /\ t.start < t.end
  BY TimelineAssumption, FS_EmptySet DEF TurnsKnown, SpeakerTurns

LEMMA NumberIs ==
  ASSUME NEW S, IsFiniteSet(S), NEW v
  PROVE  Number(S, v) \in Nat
<1> DEFINE U == {u \in S : ~Precedes(FirstTurn(S, v), FirstTurn(S, u.voice))}
           f == [u \in U |-> u.voice]
<1>1. IsFiniteSet(U)
  BY FS_Subset
<1>2. {f[u] : u \in U} = {u.voice : u \in U}
  OBVIOUS
<1>3. Cardinality({f[u] : u \in U}) \in Nat
  <2> HIDE DEF U
  <2>1. DOMAIN f = U
    OBVIOUS
  <2> HIDE DEF f
  <2> QED BY <1>1, <2>1, FinitePicture
<1> QED BY <1>2, <1>3 DEF Number

\* Two intervals overlap if they share a moment.
LEMMA SharedMoment ==
  ASSUME NEW i, Timed(i), NEW t, t.start \in Nat, t.end \in Nat, t.start < t.end
  PROVE  Overlap(i, t) > 0 <=> \E n \in Moments(i) : t.start <= n /\ n < t.end
<1>1. ASSUME Overlap(i, t) > 0
      PROVE  \E n \in Moments(i) : t.start <= n /\ n < t.end
  <2> DEFINE n == Greatest(i.start, t.start)
  <2>1. n \in i.start .. i.end - 1 /\ t.start <= n /\ n < t.end
    BY <1>1 DEF Overlap, Least, Greatest, Timed
  <2> QED BY <2>1 DEF Moments
<1>2. ASSUME NEW n \in Moments(i), t.start <= n, n < t.end
      PROVE  Overlap(i, t) > 0
  BY <1>2 DEF Overlap, Least, Greatest, Timed, Moments
<1> QED BY <1>1, <1>2

\* Those whose turns overlap an interval are those who speak in it.
LEMMA VoicesSpeak ==
  ASSUME TurnsKnown, NEW i, Timed(i)
  PROVE  /\ Voices(SpeakerTurns, i) = SpeakingIn(i)
         /\ IsFiniteSet(SpeakingIn(i)) /\ SpeakingIn(i) \subseteq Nat
         /\ \A n \in Moments(i) : Speaking(n) \subseteq SpeakingIn(i) /\ IsFiniteSet(Speaking(n))
<1> DEFINE S == SpeakerTurns
           H == {t \in S : Overlap(i, t) > 0}
           f == [t \in H |-> Number(S, t.voice)]
<1>1. IsFiniteSet(S) /\ \A t \in S : t.start \in Nat /\ t.end \in Nat /\ t.start < t.end
  BY TurnFacts
<1>2. \A t \in S : Overlap(i, t) > 0 <=> \E n \in Moments(i) : t.start <= n /\ n < t.end
  BY <1>1, SharedMoment
<1>3. \A v : v \in SpeakingIn(i) <=>
               \E t \in S : v = Number(S, t.voice) /\ \E n \in Moments(i) : t.start <= n /\ n < t.end
  BY DEF SpeakingIn, Speaking
<1>4. \A v : v \in Voices(S, i) <=> \E t \in S : v = Number(S, t.voice) /\ Overlap(i, t) > 0
  BY DEF Voices
<1>5. Voices(S, i) = SpeakingIn(i)
  <2> HIDE DEF S
  <2> QED BY <1>2, <1>3, <1>4
<1>6. IsFiniteSet(Voices(S, i))
  <2>1. IsFiniteSet(H) /\ DOMAIN f = H /\ {f[t] : t \in H} = Voices(S, i)
    BY <1>1, FS_Subset DEF Voices
  <2> HIDE DEF H, f
  <2> QED BY <2>1, FinitePicture
<1>7. Voices(S, i) \subseteq Nat
  BY <1>1, <1>4, NumberIs
<1>8. \A n \in Moments(i) : Speaking(n) \subseteq SpeakingIn(i)
  BY DEF SpeakingIn
<1> QED BY <1>5, <1>6, <1>7, <1>8, FS_Subset

\* Two overlap each other within an interval if some moment of it has them both.
LEMMA SimultaneousIs ==
  ASSUME TurnsKnown, NEW i, Timed(i)
  PROVE  Simultaneous(i) <=> Together(i)
<1> DEFINE S == SpeakerTurns
           Both(t, u) == Least(i.end, Least(t.end, u.end)) > Greatest(i.start, Greatest(t.start, u.start))
           At(t, n) == t.start <= n /\ n < t.end
<1>1. ASSUME NEW t \in S, NEW u \in S
      PROVE  Both(t, u) <=> \E n \in Moments(i) : At(t, n) /\ At(u, n)
  <2>0. t.start \in Nat /\ t.end \in Nat /\ u.start \in Nat /\ u.end \in Nat
    BY TurnFacts
  <2>1. ASSUME Both(t, u) PROVE \E n \in Moments(i) : At(t, n) /\ At(u, n)
    <3> DEFINE n == Greatest(i.start, Greatest(t.start, u.start))
    <3>1. n \in i.start .. i.end - 1 /\ At(t, n) /\ At(u, n)
      BY <2>0, <2>1 DEF Least, Greatest, Timed
    <3> QED BY <3>1 DEF Moments
  <2>2. ASSUME NEW n \in Moments(i), At(t, n), At(u, n) PROVE Both(t, u)
    BY <2>0, <2>2 DEF Least, Greatest, Timed, Moments
  <2> QED BY <2>1, <2>2
<1>2. ASSUME NEW n \in Moments(i)
      PROVE  Cardinality(Speaking(n)) > 1 <=>
               \E t, u \in S : Number(S, t.voice) # Number(S, u.voice) /\ At(t, n) /\ At(u, n)
  <2>1. Cardinality(Speaking(n)) > 1 <=> \E x, y \in Speaking(n) : x # y
    BY <1>2, VoicesSpeak, TwoOrMore
  <2>2. \A x : x \in Speaking(n) <=> \E t \in S : x = Number(S, t.voice) /\ At(t, n)
    BY DEF Speaking
  <2> HIDE DEF S, At
  <2> QED BY <2>1, <2>2
<1>3. Simultaneous(i) <=> \E t, u \in S : Number(S, t.voice) # Number(S, u.voice) /\ Both(t, u)
  BY DEF Simultaneous
<1>4. Together(i) <=> \E n \in Moments(i) : Cardinality(Speaking(n)) > 1
  BY DEF Together
<1> HIDE DEF S, Both, At
<1> QED BY <1>1, <1>2, <1>3, <1>4

\* The label of an interval is the only one who speaks in it.
LEMMA LabelIs ==
  ASSUME TurnsKnown, NEW i, Timed(i)
  PROVE  /\ Cardinality(SpeakingIn(i)) = 1 =>
              SpeakerFor(SpeakerTurns, i) # Nobody /\ SpeakingIn(i) = {SpeakerFor(SpeakerTurns, i)}
         /\ Cardinality(SpeakingIn(i)) # 1 => SpeakerFor(SpeakerTurns, i) = Nobody
<1>1. Voices(SpeakerTurns, i) = SpeakingIn(i) /\ IsFiniteSet(SpeakingIn(i)) /\ SpeakingIn(i) \subseteq Nat
  BY VoicesSpeak
<1>2. ASSUME Cardinality(SpeakingIn(i)) = 1
      PROVE  SpeakerFor(SpeakerTurns, i) # Nobody /\ SpeakingIn(i) = {SpeakerFor(SpeakerTurns, i)}
  <2>1. PICK n : SpeakingIn(i) = {n}
    BY <1>1, <1>2, TwoOrMore
  <2>2. SpeakerFor(SpeakerTurns, i) = n
    BY <1>1, <1>2, <2>1 DEF SpeakerFor
  <2>3. n # Nobody
    BY <1>1, <2>1, TimelineAssumption
  <2> QED BY <2>1, <2>2, <2>3
<1> QED BY <1>1, <1>2 DEF SpeakerFor

\* A word's evidence is who speaks in it.
LEMMA EvidenceIs ==
  ASSUME TurnsKnown, NEW w, Timed(w), w.speaker = SpeakerFor(SpeakerTurns, w)
  PROVE  /\ Evidence(w).speakers = SpeakingIn(w)
         /\ Evidence(w).kind = "single" => Cardinality(SpeakingIn(w)) = 1
         /\ Evidence(w).kind = "overlap" => Cardinality(SpeakingIn(w)) > 1
         /\ Evidence(w).kind = "unattributed" => SpeakingIn(w) = {}
<1> DEFINE A == SpeakingIn(w)
           e == Evidence(w)
<1>1. Voices(SpeakerTurns, w) = A /\ IsFiniteSet(A)
  BY VoicesSpeak
<1>2. e = IF Cardinality(A) > 1 THEN [speakers |-> A, kind |-> "overlap"]
          ELSE IF w.speaker # Nobody THEN [speakers |-> {w.speaker}, kind |-> "single"]
          ELSE [speakers |-> {}, kind |-> "unattributed"]
  BY <1>1 DEF Evidence
<1>3. /\ Cardinality(A) = 1 => w.speaker # Nobody /\ A = {w.speaker}
      /\ Cardinality(A) # 1 => w.speaker = Nobody
  BY LabelIs
<1>4. Cardinality(A) # 1 /\ ~(Cardinality(A) > 1) => A = {}
  BY <1>1, TwoOrMore
<1> HIDE DEF A, e
<1>5. CASE Cardinality(A) > 1
  <2>1. e.speakers = A /\ e.kind = "overlap"
    BY <1>2, <1>5
  <2> QED BY <1>5, <2>1 DEF A, e
<1>6. CASE ~(Cardinality(A) > 1) /\ w.speaker # Nobody
  <2>1. e.speakers = {w.speaker} /\ e.kind = "single" /\ Cardinality(A) = 1 /\ A = {w.speaker}
    BY <1>2, <1>3, <1>6
  <2> QED BY <2>1 DEF A, e
<1>7. CASE ~(Cardinality(A) > 1) /\ w.speaker = Nobody
  <2>1. e.speakers = {} /\ e.kind = "unattributed" /\ A = {}
    BY <1>2, <1>3, <1>4, <1>7
  <2> QED BY <2>1 DEF A, e
<1> QED BY <1>5, <1>6, <1>7

\* What is said of a segment without words.
LEMMA SegmentEvidenceIs ==
  ASSUME TurnsKnown, NEW s, Timed(s), s.speaker = SpeakerFor(SpeakerTurns, s)
  PROVE  /\ SegmentSpan(s).speakers = SpeakingIn(s)
         /\ Accepted(SegmentSpan(s))
         /\ SegmentSpan(s).kind = "overlap" <=> Together(s)
         /\ SegmentSpan(s).kind = "mixed" <=> ~Together(s) /\ Cardinality(SpeakingIn(s)) > 1
<1> DEFINE A == SpeakingIn(s)
           e == SegmentEvidence(s)
           x == SegmentSpan(s)
<1>1. Voices(SpeakerTurns, s) = A /\ IsFiniteSet(A) /\ (Simultaneous(s) <=> Together(s))
  BY VoicesSpeak, SimultaneousIs
<1>2. e = IF s.speaker # Nobody THEN [speakers |-> {s.speaker}, kind |-> "single"]
          ELSE IF Cardinality(A) < 2 THEN [speakers |-> {}, kind |-> "unattributed"]
          ELSE [speakers |-> A, kind |-> IF Simultaneous(s) THEN "overlap" ELSE "mixed"]
  BY <1>1 DEF SegmentEvidence
<1>3. /\ Cardinality(A) = 1 => s.speaker # Nobody /\ A = {s.speaker}
      /\ Cardinality(A) # 1 => s.speaker = Nobody
  BY LabelIs
<1>4. /\ Cardinality(A) # 1 /\ ~(Cardinality(A) > 1) => A = {}
      /\ Cardinality(A) < 2 <=> ~(Cardinality(A) > 1)
      /\ Cardinality(A) > 1 <=> \E v, w \in A : v # w
  BY <1>1, TwoOrMore
<1>5. x.start = s.start /\ x.end = s.end /\ x.speakers = e.speakers /\ x.kind = e.kind
  BY DEF SegmentSpan, Present
<1>6. Together(s) => Cardinality(A) > 1
  <2> SUFFICES ASSUME NEW n \in Moments(s), Cardinality(Speaking(n)) > 1 PROVE Cardinality(A) > 1
    BY DEF Together
  <2>1. Speaking(n) \subseteq A /\ IsFiniteSet(Speaking(n))
    BY VoicesSpeak
  <2>2. PICK v, w \in Speaking(n) : v # w
    BY <2>1, TwoOrMore
  <2> QED BY <1>4, <2>1, <2>2
<1>7. x.start <= x.end
  BY <1>5 DEF Timed
<1> HIDE DEF A, e, x
<1>8. CASE s.speaker # Nobody
  <2>1. e.speakers = {s.speaker} /\ e.kind = "single" /\ Cardinality(A) = 1 /\ A = {s.speaker}
    BY <1>2, <1>3, <1>8
  <2>2. ~(Cardinality(A) > 1)
    BY <2>1
  <2>3. Accepted(x)
    BY <1>5, <1>7, <2>1 DEF Accepted
  <2> QED BY <1>5, <1>6, <2>1, <2>2, <2>3 DEF A, x
<1>9. CASE s.speaker = Nobody /\ Cardinality(A) < 2
  <2>1. e.speakers = {} /\ e.kind = "unattributed" /\ A = {} /\ ~(Cardinality(A) > 1)
    BY <1>2, <1>3, <1>4, <1>9
  <2>2. Accepted(x)
    BY <1>5, <1>7, <2>1 DEF Accepted
  <2> QED BY <1>5, <1>6, <2>1, <2>2 DEF A, x
<1>10. CASE s.speaker = Nobody /\ ~(Cardinality(A) < 2)
  <2>1. e.speakers = A /\ e.kind = (IF Simultaneous(s) THEN "overlap" ELSE "mixed") /\ Cardinality(A) > 1
    BY <1>2, <1>4, <1>10
  <2>2. Accepted(x)
    BY <1>5, <1>7, <2>1 DEF Accepted
  <2> QED BY <1>1, <1>5, <2>1, <2>2 DEF A, x
<1> QED BY <1>8, <1>9, <1>10

\* Cut where neighbours differ, a row falls into pieces, and each place is in one.
Runs(e, n) ==
  {g \in (1 .. n) \X (1 .. n) :
     /\ g[1] <= g[2] /\ \A k \in g[1] .. g[2] : e[g[1]] = e[k]
     /\ g[1] > 1 => ~(e[g[1]] = e[g[1] - 1])
     /\ g[2] < n => ~(e[g[1]] = e[g[2] + 1])}

LEMMA OneRun ==
  ASSUME NEW n \in Nat, NEW e, NEW k \in 1 .. n
  PROVE  \E g \in Runs(e, n) : /\ g[1] <= k /\ k <= g[2]
                               /\ \A h \in Runs(e, n) : h[1] <= k /\ k <= h[2] => h = g
<1> DEFINE A == {a \in 1 .. k : \A j \in a .. k : e[j] = e[k]}
           B == {n - b : b \in {b \in k .. n : \A j \in k .. b : e[j] = e[k]}}
<1>1. PICK a \in A : \A y \in A : a <= y
  <2>1. A \in SUBSET Nat /\ k \in A
    OBVIOUS
  <2> HIDE DEF A
  <2> QED BY <2>1, LeastNumber
<1>2. PICK b \in k .. n : /\ \A j \in k .. b : e[j] = e[k]
                          /\ \A c \in k .. n : (\A j \in k .. c : e[j] = e[k]) => c <= b
  <2>1. B \in SUBSET Nat /\ n - k \in B
    OBVIOUS
  <2>2. PICK m \in B : \A y \in B : m <= y
    <3> HIDE DEF B
    <3> QED BY <2>1, LeastNumber
  <2>3. PICK b \in k .. n : m = n - b /\ \A j \in k .. b : e[j] = e[k]
    BY <2>2
  <2>4. ASSUME NEW c \in k .. n, \A j \in k .. c : e[j] = e[k] PROVE c <= b
    <3>1. n - c \in B
      BY <2>4
    <3>2. m <= n - c
      BY <2>2, <3>1
    <3> QED BY <2>3, <3>2
  <2> QED BY <2>3, <2>4
<1>3. a \in 1 .. k /\ \A j \in a .. k : e[j] = e[k]
  BY <1>1
<1>4. a > 1 => e[a - 1] # e[k]
  <2> SUFFICES ASSUME a > 1, e[a - 1] = e[k] PROVE FALSE
    OBVIOUS
  <2>1. a - 1 \in 1 .. k /\ \A j \in a - 1 .. k : j = a - 1 \/ j \in a .. k
    BY <1>3
  <2>2. a - 1 \in A
    BY <1>3, <2>1
  <2> QED BY <1>1, <1>3, <2>2
<1>5. b < n => e[b + 1] # e[k]
  <2> SUFFICES ASSUME b < n, e[b + 1] = e[k] PROVE FALSE
    OBVIOUS
  <2>1. b + 1 \in k .. n /\ \A j \in k .. b + 1 : j = b + 1 \/ j \in k .. b
    BY <1>2
  <2>2. b + 1 <= b
    BY <1>2, <2>1
  <2> QED BY <2>2
<1> HIDE DEF A, B
<1>6. \A j \in a .. b : e[j] = e[k]
  BY <1>2, <1>3
<1>7. a \in a .. b /\ e[a] = e[k]
  BY <1>3, <1>6
<1> DEFINE g == <<a, b>>
<1>8. g \in Runs(e, n) /\ g[1] <= k /\ k <= g[2]
  <2>1. g \in (1 .. n) \X (1 .. n) /\ g[1] = a /\ g[2] = b
    BY <1>2, <1>3
  <2>2. a <= b /\ a <= k /\ k <= b
    BY <1>3
  <2> HIDE DEF g
  <2> QED BY <1>4, <1>5, <1>6, <1>7, <2>1, <2>2 DEF Runs
<1>9. ASSUME NEW h \in Runs(e, n), h[1] <= k, k <= h[2] PROVE h = g
  <2> DEFINE c == h[1]
             d == h[2]
  <2>1. /\ h \in (1 .. n) \X (1 .. n) /\ h = <<c, d>> /\ c \in 1 .. n /\ d \in 1 .. n
        /\ \A j \in c .. d : e[c] = e[j]
        /\ c > 1 => e[c] # e[c - 1]
        /\ d < n => e[c] # e[d + 1]
    BY <1>9 DEF Runs
  <2>2. c <= k /\ k <= d
    BY <1>9
  <2> HIDE DEF c, d
  <2>3. e[c] = e[k]
    BY <2>1, <2>2
  <2>4. ~(a < c)
    <3> SUFFICES ASSUME a < c PROVE FALSE
      OBVIOUS
    <3>1. c > 1 /\ c - 1 \in a .. b
      BY <1>3, <2>1, <2>2
    <3> QED BY <1>6, <2>1, <2>3, <3>1
  <2>5. ~(c < a)
    <3> SUFFICES ASSUME c < a PROVE FALSE
      OBVIOUS
    <3>1. a > 1 /\ a - 1 \in c .. d
      BY <1>3, <2>1, <2>2
    <3> QED BY <1>4, <2>1, <2>3, <3>1
  <2>6. ~(d < b)
    <3> SUFFICES ASSUME d < b PROVE FALSE
      OBVIOUS
    <3>1. d < n /\ d + 1 \in a .. b
      BY <1>3, <2>1, <2>2
    <3> QED BY <1>6, <2>1, <2>3, <3>1
  <2>7. ~(b < d)
    <3> SUFFICES ASSUME b < d PROVE FALSE
      OBVIOUS
    <3>1. b < n /\ b + 1 \in c .. d
      BY <1>3, <2>1, <2>2
    <3> QED BY <1>5, <2>1, <2>3, <3>1
  <2>8. a = c /\ b = d
    BY <1>3, <2>1, <2>4, <2>5, <2>6, <2>7
  <2> QED BY <2>1, <2>8
<1> QED BY <1>8, <1>9

\* A published segment: its times are in order, and its labels are those of its turns.
Attributed(S, s) ==
  /\ Timed(s) /\ Len(s.words) \in Nat /\ DOMAIN s.words = 1 .. Len(s.words)
  /\ \A k \in DOMAIN s.words :
       Timed(s.words[k]) /\ s.words[k].speaker = SpeakerFor(S, s.words[k])
  /\ s.words = <<>> => s.speaker = SpeakerFor(S, s)

ReadInv ==
  /\ TurnsKnown
  /\ phase \in {"hear", "assemble", "label"} => turns = Nobody
  /\ phase \in {"publish", "published"} => \A i \in DOMAIN transcript : Attributed(SpeakerTurns, transcript[i])

\* Who is heard in an interval is a matter of its bounds.
LEMMA SameVoices ==
  ASSUME NEW S, NEW i, NEW j, i.start = j.start, i.end = j.end
  PROVE  SpeakerFor(S, i) = SpeakerFor(S, j)
<1>1. \A t : Overlap(i, t) = Overlap(j, t)
  BY DEF Overlap
<1>2. Voices(S, i) = Voices(S, j)
  BY <1>1 DEF Voices
<1> QED BY <1>2 DEF SpeakerFor

LEMMA SegmentIs ==
  ASSUME NEW s \in Heard
  PROVE  /\ Timed(s) /\ Len(s.words) \in Nat /\ DOMAIN s.words = 1 .. Len(s.words)
         /\ s.speaker = Nobody
         /\ \A k \in DOMAIN s.words : Timed(s.words[k]) /\ s.words[k].speaker = Nobody
<1>1. s \in Segments /\ Ordered(s) /\ WordsFit(s)
  BY DEF Heard, Sound
<1>2. s.words \in Seq(Word) /\ s.start \in Nat /\ s.end \in Nat /\ s.speaker = Nobody
  BY <1>1 DEF Segments, Words
<1>3. ASSUME NEW k \in DOMAIN s.words PROVE Timed(s.words[k]) /\ s.words[k].speaker = Nobody
  <2>1. s.words[k] \in Word
    BY <1>2, ElementOfSeq
  <2> QED BY <1>1, <2>1 DEF Word, WordsFit, Ordered, Timed
<1> QED BY <1>1, <1>2, <1>3 DEF Ordered, Timed

\* Without turns nobody speaks.
LEMMA Unlabelled ==
  ASSUME NEW s \in Heard
  PROVE  Attributed({}, s)
<1>1. \A i : SpeakerFor({}, i) = Nobody
  <2>1. \A i : Voices({}, i) = {}
    BY DEF Voices
  <2>2. Cardinality({}) # 1
    BY FS_EmptySet
  <2> QED BY <2>1, <2>2 DEF SpeakerFor
<1> QED BY <1>1, SegmentIs DEF Attributed

\* With turns, the labels are theirs.
LEMMA LabelledAttributed ==
  ASSUME NEW S, NEW s \in Heard
  PROVE  Attributed(S, Labelled(S, s))
<1> DEFINE r == Labelled(S, s)
<1>1. /\ Timed(s) /\ Len(s.words) \in Nat /\ DOMAIN s.words = 1 .. Len(s.words)
      /\ \A k \in DOMAIN s.words : Timed(s.words[k])
  BY SegmentIs
<1>2. /\ r.start = s.start /\ r.end = s.end
      /\ DOMAIN r.words = DOMAIN s.words /\ Len(r.words) = Len(s.words)
      /\ \A k \in DOMAIN s.words : r.words[k].start = s.words[k].start /\ r.words[k].end = s.words[k].end
  BY LabelledKeeps DEF Heard
<1>3. r.words = LabelWords(S, s) /\ (r.words = <<>> => r.speaker = SpeakerFor(S, s))
  BY DEF Labelled, Heard, Segments
<1>4. ASSUME NEW k \in DOMAIN s.words PROVE r.words[k].speaker = SpeakerFor(S, s.words[k])
  <2>1. s.words[k] \in Word
    BY ElementOfSeq DEF Heard, Segments, Words
  <2>2. r.words[k] = [s.words[k] EXCEPT !.speaker = SpeakerFor(S, s.words[k])]
    BY <1>3 DEF LabelWords
  <2> QED BY <2>1, <2>2 DEF Word
<1> HIDE DEF r
<1>5. ASSUME NEW k \in DOMAIN r.words
      PROVE  Timed(r.words[k]) /\ r.words[k].speaker = SpeakerFor(S, r.words[k])
  <2>1. SpeakerFor(S, r.words[k]) = SpeakerFor(S, s.words[k])
    BY <1>2, SameVoices
  <2> QED BY <1>1, <1>2, <1>4, <2>1 DEF Timed
<1>6. Timed(r) /\ SpeakerFor(S, r) = SpeakerFor(S, s)
  BY <1>1, <1>2, SameVoices DEF Timed
<1> QED BY <1>1, <1>2, <1>3, <1>5, <1>6 DEF Attributed, r

LEMMA ReadStep == TimelineInv /\ ReadInv /\ [TimelineNext]_timelineVars => ReadInv'
<1> SUFFICES ASSUME TimelineInv, ReadInv, [TimelineNext]_timelineVars PROVE ReadInv'
  OBVIOUS
<1>1. CASE phase' \in {"hear", "assemble", "label"} /\ UNCHANGED turns /\ phase \in {"hear", "assemble", "label"}
  BY <1>1 DEF ReadInv, TurnsKnown
<1>2. CASE phase' = "failed" /\ UNCHANGED turns
  BY <1>2 DEF ReadInv, TurnsKnown
<1>3. CASE UNCHANGED <<turns, transcript>> /\ (phase' = phase \/ (phase = "publish" /\ phase' = "published"))
  <2>1. SpeakerTurns' = SpeakerTurns
    BY <1>3 DEF SpeakerTurns
  <2> QED BY <1>3, <2>1 DEF ReadInv, TurnsKnown
<1>4. CASE OpenWindow \/ Hear \/ AllHeard \/ Assemble \/ Assembled
  BY <1>1, <1>2, <1>4 DEF OpenWindow, Hear, AllHeard, Assemble, Assembled, Fail
<1>5. CASE Publish \/ UNCHANGED timelineVars
  BY <1>2, <1>3, <1>5 DEF Publish, Fail, timelineVars
<1>6. CASE NotAsked
  <2>1. turns' = Nobody /\ UNCHANGED transcript /\ transcript \in Seq(Heard) /\ turns = Nobody
    BY <1>6 DEF NotAsked, ReadInv, TimelineInv
  <2>2. \A i \in DOMAIN transcript : transcript[i] \in Heard
    BY <2>1, ElementOfSeq
  <2>3. SpeakerTurns' = {} /\ \A i \in DOMAIN transcript : Attributed({}, transcript[i])
    BY <2>1, <2>2, Unlabelled DEF SpeakerTurns
  <2>4. phase' = "publish"
    BY <1>6 DEF NotAsked
  <2> QED BY <2>1, <2>3, <2>4 DEF ReadInv, TurnsKnown
<1>7. CASE Diarize
  <2>1. CASE phase' = "failed" /\ UNCHANGED turns
    BY <1>2, <2>1
  <2>2. CASE \E S \in Turns : /\ turns' = S /\ phase' = "publish"
                              /\ transcript' = [i \in DOMAIN transcript |-> Labelled(S, transcript[i])]
    <3>1. PICK S \in Turns : /\ turns' = S /\ phase' = "publish"
                             /\ transcript' = [i \in DOMAIN transcript |-> Labelled(S, transcript[i])]
      BY <2>2
    <3>2. transcript \in Seq(Heard)
      BY <1>7 DEF Diarize, TimelineInv
    <3>3. \A i \in DOMAIN transcript : transcript[i] \in Heard
      BY <3>2, ElementOfSeq
    <3>4. \A i \in DOMAIN transcript : Attributed(S, Labelled(S, transcript[i]))
      BY <3>3, LabelledAttributed
    <3>5. SpeakerTurns' = S
      BY <3>1, TimelineAssumption DEF SpeakerTurns
    <3> QED BY <3>1, <3>4, <3>5 DEF ReadInv, TurnsKnown
  <2> QED BY <1>7, <2>1, <2>2 DEF Diarize, Fail
<1> QED BY <1>4, <1>5, <1>6, <1>7 DEF TimelineNext

\* Words that follow each other end after they begin, from the first to the last.
LEMMA InOrder ==
  ASSUME NEW s, NEW S, Attributed(S, s), OneAfterTheOther(s), NEW g \in Groups(s)
  PROVE  s.words[g[1]].start <= s.words[g[2]].end
<1>1. g[1] \in DOMAIN s.words /\ g[2] \in DOMAIN s.words /\ g[1] <= g[2] /\ g[1] \in Nat /\ g[2] \in Nat
  BY DEF Groups, Attributed
<1>2. Timed(s.words[g[1]]) /\ Timed(s.words[g[2]])
  BY <1>1 DEF Attributed
<1>3. g[1] < g[2] => s.words[g[1]].end <= s.words[g[2]].start
  BY <1>1 DEF OneAfterTheOther
<1>4. CASE g[1] = g[2]
  BY <1>2, <1>4 DEF Timed
<1>5. CASE g[1] < g[2]
  BY <1>2, <1>3, <1>5 DEF Timed
<1> QED BY <1>1, <1>4, <1>5

LEMMA GroupsAreRuns ==
  ASSUME NEW s
  PROVE  Groups(s) = Runs([k \in 1 .. Len(s.words) |-> Evidence(s.words[k])], Len(s.words))
  BY DEF Groups, Runs

\* PresentsTheEvidence: however the windows, the segments and the turns lie, a
\* published transcript is read with its words each in one span, under those who
\* speak in it and nobody else (speaker_presentation.py).
THEOREM EvidenceIsPresented == TimelineSpec => []PresentsTheEvidence
<1>1. TimelineInit => ReadInv
  BY DEF TimelineInit, ReadInv, TurnsKnown
<1>2. ReadInv => PresentsTheEvidence
  <2> SUFFICES ASSUME ReadInv, phase = "published", NEW i \in DOMAIN transcript
               PROVE  LET s == transcript[i]
                          groups == Groups(s)
                      IN /\ \A k \in DOMAIN s.words :
                              \E g \in groups :
                                /\ g[1] <= k /\ k <= g[2]
                                /\ \A h \in groups : h[1] <= k /\ k <= h[2] => h = g
                                /\ WordSpan(s, g).speakers = SpeakingIn(s.words[k])
                         /\ OneAfterTheOther(s) => \A g \in groups : Accepted(WordSpan(s, g))
                         /\ s.words = <<>> =>
                              /\ SegmentSpan(s).speakers = SpeakingIn(s)
                              /\ Accepted(SegmentSpan(s))
                              /\ SegmentSpan(s).kind = "overlap" <=> Together(s)
                              /\ SegmentSpan(s).kind = "mixed" <=> ~Together(s) /\ Cardinality(SpeakingIn(s)) > 1
    BY DEF PresentsTheEvidence
  <2> DEFINE s == transcript[i]
             n == Len(s.words)
             e == [k \in 1 .. n |-> Evidence(s.words[k])]
  <2>1. Attributed(SpeakerTurns, s) /\ TurnsKnown
    BY DEF ReadInv
  <2>2. n \in Nat /\ DOMAIN s.words = 1 .. n /\ Groups(s) = Runs(e, n)
    BY <2>1, GroupsAreRuns DEF Attributed
  <2>3. \A k \in 1 .. n : /\ e[k] = Evidence(s.words[k])
                           /\ Timed(s.words[k]) /\ s.words[k].speaker = SpeakerFor(SpeakerTurns, s.words[k])
    BY <2>1, <2>2 DEF Attributed
  <2>4. Timed(s) /\ (s.words = <<>> => s.speaker = SpeakerFor(SpeakerTurns, s))
    BY <2>1 DEF Attributed
  <2> HIDE DEF s, n, e
  <2>5. \A g \in Groups(s) : /\ g[1] \in 1 .. n /\ g[2] \in 1 .. n
                              /\ \A k \in g[1] .. g[2] : e[g[1]] = e[k]
    BY <2>2 DEF Runs
  <2>6. \A g \in Groups(s) : /\ WordSpan(s, g).start = s.words[g[1]].start
                              /\ WordSpan(s, g).end = s.words[g[2]].end
                              /\ WordSpan(s, g).speakers = e[g[1]].speakers
                              /\ WordSpan(s, g).kind = e[g[1]].kind
    BY <2>3, <2>5 DEF WordSpan, Present
  <2>7. ASSUME NEW k \in DOMAIN s.words
        PROVE  \E g \in Groups(s) :
                 /\ g[1] <= k /\ k <= g[2]
                 /\ \A h \in Groups(s) : h[1] <= k /\ k <= h[2] => h = g
                 /\ WordSpan(s, g).speakers = SpeakingIn(s.words[k])
    <3>1. k \in 1 .. n
      BY <2>2
    <3>2. PICK g \in Groups(s) : /\ g[1] <= k /\ k <= g[2]
                                 /\ \A h \in Groups(s) : h[1] <= k /\ k <= h[2] => h = g
      BY <2>2, <3>1, OneRun
    <3>3. e[g[1]] = e[k]
      <4>1. k \in g[1] .. g[2]
        BY <2>5, <3>1, <3>2
      <4> QED BY <2>5, <4>1
    <3>4. e[k].speakers = SpeakingIn(s.words[k])
      BY <2>1, <2>3, <3>1, EvidenceIs
    <3> QED BY <2>6, <3>2, <3>3, <3>4
  <2>8. ASSUME OneAfterTheOther(s), NEW g \in Groups(s) PROVE Accepted(WordSpan(s, g))
    <3>1. s.words[g[1]].start <= s.words[g[2]].end
      BY <2>1, <2>8, InOrder
    <3>2. /\ e[g[1]].speakers = SpeakingIn(s.words[g[1]])
          /\ e[g[1]].kind = "single" => Cardinality(e[g[1]].speakers) = 1
          /\ e[g[1]].kind = "overlap" => Cardinality(e[g[1]].speakers) > 1
          /\ e[g[1]].kind = "unattributed" => e[g[1]].speakers = {}
      BY <2>1, <2>3, <2>5, EvidenceIs
    <3> QED BY <2>6, <3>1, <3>2 DEF Accepted
  <2>9. ASSUME s.words = <<>>
        PROVE  /\ SegmentSpan(s).speakers = SpeakingIn(s)
               /\ Accepted(SegmentSpan(s))
               /\ SegmentSpan(s).kind = "overlap" <=> Together(s)
               /\ SegmentSpan(s).kind = "mixed" <=> ~Together(s) /\ Cardinality(SpeakingIn(s)) > 1
    BY <2>1, <2>4, <2>9, SegmentEvidenceIs
  <2> QED BY <2>7, <2>8, <2>9 DEF s
<1> QED BY <1>1, <1>2, TimelineInvInit, TimelineStep, ReadStep, PTL DEF TimelineSpec

-----------------------------------------------------------------------------
(* Languages: the document, line by line.                                   *)

AddLine(d, t) == IF d = <<>> THEN t ELSE Append(d, "break") \o t

LEMMA LineAdded ==
  ASSUME NEW C, "break" \in C, NEW d \in Seq(C), NEW t \in Seq(C)
  PROVE  AddLine(d, t) \in Seq(C)
<1>1. Append(d, "break") \in Seq(C)
  BY AppendProperties
<1> QED BY <1>1, ConcatProperties DEF AddLine

\* What joining the texts of the segments computes on the way.
LEMMA Joining ==
  ASSUME NEW C, "break" \in C, texts \in Seq(Seq(C)), NEW n \in Nat, n <= Len(texts)
  PROVE  \E F \in [0 .. n -> Seq(C)] :
           /\ F[0] = <<>> /\ \A k \in 1 .. n : F[k] = AddLine(F[k - 1], texts[k])
           /\ Document(n) = F[n]
<1> DEFINE q == SubSeq(texts, 1, n)
           B == Seq(C)
           Eq(it) == it = [s \in SUBSET (1 .. n) |->
                             IF s = {} THEN <<>> ELSE AddLine(it[s \ {Max(s)}], q[Max(s)])]
           G == [k \in 1 .. n |-> [x \in B |-> AddLine(x, q[k])]]
<1>1. /\ q \in Seq(Seq(C)) /\ Len(q) = n /\ DOMAIN q = 1 .. n
      /\ \A k \in 1 .. n : q[k] = texts[k] /\ q[k] \in B
  BY SubSeqProperties
<1> HIDE DEF q
<1>2. <<>> \in B /\ \A x \in B, k \in 1 .. n : AddLine(x, q[k]) \in B
  BY <1>1, LineAdded
<1> HIDE DEF B
<1>3. G \in [1 .. n -> [B -> B]]
  BY <1>2
<1> HIDE DEF G
<1>4. PICK it : Iterates(it, n, B, <<>>, G)
  BY <1>2, <1>3, Iteration
<1>5. ASSUME NEW s \in SUBSET (1 .. n), s # {} PROVE Max(s) \in 1 .. n
  BY <1>5, LastPlace
<1>6. \A k \in 1 .. n, x \in B : G[k][x] = AddLine(x, q[k])
  BY DEF G
<1>7. Eq(it)
  BY <1>4, <1>5, <1>6 DEF Iterates
<1> DEFINE fold == CHOOSE f : Eq(f)
<1>8. Eq(fold)
  BY <1>7
<1>9. Document(n) = fold[1 .. n]
  BY <1>1 DEF Document, FoldLeft, MapThenFoldSet, AddLine, q
<1> HIDE DEF fold
<1>10. \A s \in SUBSET (1 .. n) :
         fold[s] = IF s = {} THEN <<>> ELSE AddLine(fold[s \ {Max(s)}], q[Max(s)])
  BY <1>8 DEF Eq
<1> HIDE DEF Eq
<1>11. fold[1 .. 0] = <<>>
  <2>1. 1 .. 0 = {} /\ {} \in SUBSET (1 .. n)
    OBVIOUS
  <2> QED BY <1>10, <2>1
<1>12. ASSUME NEW k \in Nat, k + 1 <= n
       PROVE  fold[1 .. k + 1] = AddLine(fold[1 .. k], q[k + 1])
  <2>1. /\ 1 .. k + 1 \in SUBSET (1 .. n) /\ k + 1 \in 1 .. k + 1 /\ (1 .. k + 1) \ {k + 1} = 1 .. k
    BY <1>12, FirstPlaces
  <2>2. Max(1 .. k + 1) = k + 1
    <3>1. 1 .. k + 1 \in SUBSET Nat /\ \A i \in 1 .. k + 1 : i <= k + 1
      OBVIOUS
    <3> QED BY <2>1, <3>1, MaxIs
  <2> QED BY <1>10, <2>1, <2>2
<1> DEFINE A == {k \in Nat : k <= n => fold[1 .. k] \in B}
<1>13. 0 \in A
  BY <1>2, <1>11
<1>14. ASSUME NEW k \in Nat, k \in A PROVE k + 1 \in A
  <2> SUFFICES ASSUME k + 1 <= n PROVE fold[1 .. k + 1] \in B
    OBVIOUS
  <2>1. k <= n /\ k + 1 \in 1 .. n
    BY NextPlace
  <2> QED BY <1>2, <1>12, <1>14, <2>1
<1>15. \A k \in 0 .. n : fold[1 .. k] \in B
  <2> HIDE DEF A
  <2>1. \A k \in Nat : k \in A
    BY <1>13, <1>14, Induction
  <2> QED BY <2>1 DEF A
<1> DEFINE F == [k \in 0 .. n |-> fold[1 .. k]]
<1>16. F \in [0 .. n -> B] /\ F[0] = <<>> /\ Document(n) = F[n]
  BY <1>9, <1>11, <1>15
<1>17. ASSUME NEW k \in 1 .. n PROVE F[k] = AddLine(F[k - 1], texts[k])
  <2>1. k - 1 \in Nat /\ (k - 1) + 1 = k /\ k - 1 \in 0 .. n /\ k \in 0 .. n /\ k <= n
    OBVIOUS
  <2>2. fold[1 .. k] = AddLine(fold[1 .. k - 1], q[k])
    BY <1>12, <2>1
  <2> QED BY <1>1, <2>1, <2>2
<1> HIDE DEF F
<1> QED BY <1>16, <1>17 DEF B

LEMMA JoiningNothing ==
  ASSUME NEW C, "break" \in C, texts \in Seq(Seq(C))
  PROVE  Document(0) = <<>>
<1>1. 0 \in Nat /\ 0 <= Len(texts)
  OBVIOUS
<1> QED BY <1>1, Joining

LEMMA JoiningNext ==
  ASSUME NEW C, "break" \in C, texts \in Seq(Seq(C)), NEW n \in Nat, n + 1 <= Len(texts)
  PROVE  /\ Document(n) \in Seq(C)
         /\ Document(n + 1) = AddLine(Document(n), texts[n + 1])
<1>1. n <= Len(texts) /\ n + 1 \in Nat
  OBVIOUS
<1>2. PICK F \in [0 .. n -> Seq(C)] :
        /\ F[0] = <<>> /\ \A k \in 1 .. n : F[k] = AddLine(F[k - 1], texts[k])
        /\ Document(n) = F[n]
  BY <1>1, Joining
<1>3. PICK E \in [0 .. n + 1 -> Seq(C)] :
        /\ E[0] = <<>> /\ \A k \in 1 .. n + 1 : E[k] = AddLine(E[k - 1], texts[k])
        /\ Document(n + 1) = E[n + 1]
  BY <1>1, Joining
<1> DEFINE A == {k \in Nat : k <= n => E[k] = F[k]}
<1>4. 0 \in A
  BY <1>2, <1>3
<1>5. ASSUME NEW k \in Nat, k \in A PROVE k + 1 \in A
  <2> SUFFICES ASSUME k + 1 <= n PROVE E[k + 1] = F[k + 1]
    OBVIOUS
  <2>1. k + 1 \in 1 .. n /\ (k + 1) - 1 = k /\ k <= n /\ k + 1 \in 1 .. n + 1
    BY NextPlace, NewPlace
  <2>2. F[k + 1] = AddLine(F[k], texts[k + 1]) /\ E[k + 1] = AddLine(E[k], texts[k + 1])
    BY <1>2, <1>3, <2>1
  <2>3. E[k] = F[k]
    BY <1>5, <2>1
  <2> QED BY <2>2, <2>3
<1>6. E[n] = F[n]
  <2> HIDE DEF A
  <2>1. n \in A
    BY <1>4, <1>5, Induction
  <2>2. n <= n
    OBVIOUS
  <2> QED BY <2>1, <2>2 DEF A
<1>7. E[n + 1] = AddLine(E[n], texts[n + 1])
  <2>1. n + 1 \in 1 .. n + 1 /\ (n + 1) - 1 = n
    BY NewPlace
  <2> QED BY <1>3, <2>1
<1>8. n \in 0 .. n
  OBVIOUS
<1> QED BY <1>2, <1>3, <1>6, <1>7, <1>8

\* Where the texts lie in the first n lines of the document.
Lines(n, d) ==
  /\ Len(d) = Offset(n) + Len(texts[n])
  /\ \A k \in 1 .. n :
       /\ Offset(k) \in Nat /\ Offset(k) + Len(texts[k]) <= Len(d)
       /\ \A i \in 1 .. Len(texts[k]) : d[Offset(k) + i] = texts[k][i]
       /\ k > 1 => d[Offset(k)] = "break"
       /\ k < n => Offset(k + 1) = Offset(k) + Len(texts[k]) + 1
  /\ \A i \in 1 .. Len(d) : \E k \in 1 .. n :
       i \in Offset(k) + 1 .. Offset(k) + Len(texts[k]) \/ (k > 1 /\ i = Offset(k))

LEMMA Behind ==
  ASSUME NEW C, NEW b \in Seq(C), NEW t \in Seq(C), NEW o, Len(b) = o
  PROVE  /\ b \o t \in Seq(C) /\ Len(b \o t) = o + Len(t)
         /\ \A i \in 1 .. o + Len(t) : (b \o t)[i] = IF i <= o THEN b[i] ELSE t[i - o]
<1>1. /\ b \o t \in Seq(C) /\ Len(b \o t) = Len(b) + Len(t)
      /\ \A i \in 1 .. Len(b) + Len(t) : (b \o t)[i] = IF i <= Len(b) THEN b[i] ELSE t[i - Len(b)]
  BY ConcatProperties, Zenon
<1> QED BY <1>1

LEMMA BehindPlaces ==
  ASSUME NEW l \in Nat, NEW m \in Nat, NEW o, o = l + 1, NEW i \in Nat, ~(i <= l), i <= o + m
  PROVE  i \in o + 1 .. o + m \/ i = o
  OBVIOUS

LEMMA InsidePlaces ==
  ASSUME NEW o \in Nat, NEW m \in Nat, NEW l \in Nat, o + m <= l
  PROVE  \A i \in 1 .. m : o + i \in 1 .. l
  OBVIOUS

LEMMA Layout ==
  ASSUME NEW C, "break" \in C, texts \in Seq(Seq(C)), \A k \in DOMAIN texts : texts[k] # <<>>,
         NEW n \in 1 .. Len(texts)
  PROVE  Document(n) \in Seq(C) /\ Document(n) # <<>> /\ Lines(n, Document(n))
<1> DEFINE A == {m \in Nat : m + 1 <= Len(texts) =>
                    /\ Document(m + 1) \in Seq(C) /\ Document(m + 1) # <<>>
                    /\ Lines(m + 1, Document(m + 1))}
<1>0. Len(texts) \in Nat /\ DOMAIN texts = 1 .. Len(texts) /\ \A k \in 1 .. Len(texts) : texts[k] \in Seq(C)
  OBVIOUS
<1>1. 0 \in A
  <2> SUFFICES ASSUME 1 <= Len(texts)
               PROVE Document(1) \in Seq(C) /\ Document(1) # <<>> /\ Lines(1, Document(1))
    BY 0 + 1 = 1
  <2>1. 1 \in 1 .. Len(texts)
    BY <1>0
  <2>2. 0 \in Nat /\ 0 + 1 <= Len(texts) /\ 0 + 1 = 1
    BY <1>0
  <2>3. Document(1) = texts[1]
    <3>1. Document(0 + 1) = AddLine(Document(0), texts[0 + 1])
      BY <2>2, JoiningNext
    <3>2. Document(1) = AddLine(<<>>, texts[1])
      BY <2>2, <3>1, JoiningNothing
    <3> QED BY <3>2 DEF AddLine
  <2>4. texts[1] \in Seq(C) /\ texts[1] # <<>>
    BY <1>0, <2>1
  <2>5. Lines(1, texts[1])
    BY <2>4 DEF Lines, Offset
  <2> QED BY <2>3, <2>4, <2>5
<1>2. ASSUME NEW m \in Nat, m \in A PROVE m + 1 \in A
  <2> DEFINE n1 == m + 1
             n2 == n1 + 1
             d == Document(n1)
             t == texts[n2]
             e == Document(n2)
             o == Len(d) + 1
  <2> SUFFICES ASSUME n2 <= Len(texts)
               PROVE  e \in Seq(C) /\ e # <<>> /\ Lines(n2, e)
    OBVIOUS
  <2>1. n1 \in 1 .. Len(texts) /\ n2 \in 1 .. Len(texts) /\ n1 \in Nat /\ n1 <= Len(texts)
    BY <1>0
  <2>2. d \in Seq(C) /\ d # <<>> /\ Lines(n1, d)
    BY <1>2, <2>1
  <2>3. e = AddLine(d, t)
    BY <2>1, JoiningNext
  <2>4. t \in Seq(C) /\ t # <<>>
    BY <1>0, <2>1
  <2>5. e = Append(d, "break") \o t
    BY <2>2, <2>3 DEF AddLine
  <2>6. Offset(n2) = o
    BY <2>1 DEF Offset
  <2> HIDE DEF d, t, e
  <2>7. Len(d) \in Nat /\ Len(t) \in Nat \ {0} /\ o \in Nat
    BY <2>2, <2>4
  <2>8. /\ e \in Seq(C) /\ Len(e) = o + Len(t)
        /\ \A i \in 1 .. Len(d) : e[i] = d[i]
        /\ e[o] = "break" /\ \A i \in 1 .. Len(t) : e[o + i] = t[i]
    <3>1. /\ Append(d, "break") \in Seq(C) /\ Len(Append(d, "break")) = o
          /\ \A i \in 1 .. Len(d) : Append(d, "break")[i] = d[i]
          /\ Append(d, "break")[o] = "break"
      BY <2>2, AppendProperties
    <3> DEFINE b == Append(d, "break")
    <3> HIDE DEF b, o
    <3>2. /\ b \o t \in Seq(C) /\ Len(b \o t) = o + Len(t)
          /\ \A i \in 1 .. o + Len(t) : (b \o t)[i] = IF i <= o THEN b[i] ELSE t[i - o]
      <4>1. b \in Seq(C) /\ Len(b) = o
        BY <3>1 DEF b
      <4> QED BY <2>4, <4>1, Behind, SMTT(60)
    <3>3. \A i \in 1 .. Len(d) : i \in 1 .. o + Len(t) /\ i <= o
      BY <2>7 DEF o
    <3>4. o \in 1 .. o + Len(t)
      BY <2>7 DEF o
    <3>5. \A i \in 1 .. Len(t) : o + i \in 1 .. o + Len(t) /\ ~(o + i <= o) /\ (o + i) - o = i
      BY <2>7 DEF o
    <3>6. e = b \o t
      BY <2>5 DEF b
    <3>7. \A i \in 1 .. Len(d) : e[i] = d[i]
      BY <3>1, <3>2, <3>3, <3>6 DEF b
    <3>8. e[o] = "break"
      <4>1. o <= o
        BY <2>7
      <4> QED BY <3>1, <3>2, <3>4, <3>6, <4>1 DEF b
    <3>9. \A i \in 1 .. Len(t) : e[o + i] = t[i]
      BY <3>2, <3>5, <3>6
    <3> QED BY <3>2, <3>6, <3>7, <3>8, <3>9
  <2>9. e # <<>>
    BY <2>7, <2>8
  <2> HIDE DEF o
  <2>10. Len(d) = Offset(n1) + Len(texts[n1]) /\ o = Len(d) + 1
    BY <2>2 DEF Lines, o
  <2> HIDE DEF n1
  <2>14. Len(e) \in Nat /\ Len(d) <= Len(e)
    BY SMTT(60), <2>7, <2>8, <2>10
  <2>11. ASSUME NEW k \in 1 .. n2
         PROVE  /\ Offset(k) \in Nat /\ Offset(k) + Len(texts[k]) <= Len(e)
                /\ \A i \in 1 .. Len(texts[k]) : e[Offset(k) + i] = texts[k][i]
                /\ k > 1 => e[Offset(k)] = "break"
                /\ k < n2 => Offset(k + 1) = Offset(k) + Len(texts[k]) + 1
    <3>1. CASE k \in 1 .. n1
      <4>1. /\ Offset(k) \in Nat /\ Offset(k) + Len(texts[k]) <= Len(d)
            /\ \A i \in 1 .. Len(texts[k]) : d[Offset(k) + i] = texts[k][i]
            /\ k > 1 => d[Offset(k)] = "break"
            /\ k < n1 => Offset(k + 1) = Offset(k) + Len(texts[k]) + 1
        BY <2>2, <3>1 DEF Lines
      <4>2. Len(texts[k]) \in Nat
        BY <1>0, <2>1, <3>1
      <4>3. Offset(k) + Len(texts[k]) <= Len(e)
        BY <2>7, <2>14, <4>1, <4>2
      <4>4. \A i \in 1 .. Len(texts[k]) : Offset(k) + i \in 1 .. Len(d)
        BY <2>7, <4>1, <4>2, InsidePlaces
      <4>5. \A i \in 1 .. Len(texts[k]) : e[Offset(k) + i] = texts[k][i]
        BY <2>8, <4>1, <4>4
      <4>6. k > 1 => Offset(k) \in 1 .. Len(d)
        <5> SUFFICES ASSUME k > 1 PROVE Offset(k) # 0
          BY SMTT(60), <2>7, <4>1, <4>2
        <5>1. k # 1 /\ k - 1 \in 1 .. Len(texts)
          BY <2>1, <3>1
        <5>2. Document(k - 1) \in Seq(C)
          <6>1. (k - 1) + 1 <= Len(texts) /\ k - 1 \in Nat
            BY <2>1, <3>1
          <6> QED BY <6>1, JoiningNext
        <5> QED BY <5>1, <5>2 DEF Offset
      <4>7. k < n2 => Offset(k + 1) = Offset(k) + Len(texts[k]) + 1
        <5>1. CASE k = n1
          BY <2>6, <2>10, <5>1
        <5>2. CASE k # n1
          BY <3>1, <4>1, <5>2, <2>1
        <5> QED BY <5>1, <5>2
      <4> QED BY <2>8, <4>1, <4>3, <4>5, <4>6, <4>7
    <3>2. CASE k = n2
      <4>1. texts[k] = t /\ Offset(k) = o
        BY <2>6, <3>2 DEF t
      <4>2. ~(k < n2)
        BY <2>1, <3>2
      <4>3. o + Len(t) <= Len(e)
        BY <2>7, <2>8
      <4> HIDE DEF n2
      <4> QED BY <2>7, <2>8, <3>2, <4>1, <4>2, <4>3
    <3> QED BY <2>1, <3>1, <3>2
  <2>12. ASSUME NEW i \in 1 .. Len(e)
         PROVE  \E k \in 1 .. n2 : i \in Offset(k) + 1 .. Offset(k) + Len(texts[k]) \/ (k > 1 /\ i = Offset(k))
    <3>1. CASE i \in 1 .. Len(d)
      <4>1. PICK k \in 1 .. n1 : i \in Offset(k) + 1 .. Offset(k) + Len(texts[k]) \/ (k > 1 /\ i = Offset(k))
        BY <2>2, <3>1 DEF Lines
      <4>2. k \in 1 .. n2
        BY <2>1
      <4> QED BY <4>1, <4>2
    <3>2. CASE ~(i \in 1 .. Len(d))
      <4>1. n2 \in 1 .. n2 /\ n2 > 1
        BY <2>1
      <4>2. i \in o + 1 .. o + Len(t) \/ i = o
        <5>1. i \in Nat /\ 1 <= i /\ i <= o + Len(t) /\ ~(i <= Len(d))
          BY <2>7, <2>8, <3>2
        <5>2. o = Len(d) + 1
          BY <2>10
        <5> QED BY <2>7, <5>1, <5>2, BehindPlaces
      <4> QED BY <2>6, <4>1, <4>2 DEF t
    <3> QED BY <3>1, <3>2
  <2>13. Lines(n2, e)
    <3>1. Len(e) = Offset(n2) + Len(texts[n2])
      BY <2>6, <2>8 DEF t
    <3> HIDE DEF n2
    <3> QED BY <2>11, <2>12, <3>1 DEF Lines
  <2> QED BY <2>8, <2>9, <2>13
<1>3. n - 1 \in Nat /\ (n - 1) + 1 = n /\ n <= Len(texts)
  BY <1>0
<1> HIDE DEF A
<1>4. n - 1 \in A
  BY <1>1, <1>2, <1>3, Induction
<1> QED BY <1>3, <1>4 DEF A

-----------------------------------------------------------------------------
(* Clauses: the pieces between two cuts, trimmed.                           *)

SolidIn(t, a, b) == {i \in a + 1 .. b : t[i] \notin {"space", "break"}}

LEMMA MinIs ==
  ASSUME NEW s \in SUBSET Nat, NEW m \in s, \A i \in s : m <= i
  PROVE  Min(s) = m
<1>1. Min(s) \in s /\ \A y \in s : Min(s) <= y
  BY DEF Min
<1>2. Min(s) \in Nat /\ m \in Nat /\ Min(s) <= m /\ m <= Min(s)
  BY <1>1
<1> QED BY <1>2

LEMMA Extremes ==
  ASSUME NEW a \in Nat, NEW b \in Nat, NEW s \in SUBSET (a + 1 .. b), s # {}
  PROVE  \E lo, hi \in s : \A i \in s : lo <= i /\ i <= hi
<1>1. s \in SUBSET (1 .. b) /\ s \in SUBSET Nat
  OBVIOUS
<1>2. PICK lo \in s : \A i \in s : lo <= i
  BY <1>1, LeastNumber
<1> DEFINE T == {b - i : i \in s}
<1>3. T \in SUBSET Nat /\ T # {}
  OBVIOUS
<1>4. PICK x \in T : \A y \in T : x <= y
  BY <1>3, LeastNumber
<1>5. PICK hi \in s : x = b - hi
  BY <1>4
<1>6. \A i \in s : b - hi <= b - i
  BY <1>4, <1>5
<1>7. \A i \in s : i <= hi
  BY <1>6
<1> QED BY <1>2, <1>7

\* Trimming leaves a piece from its first to its last letter or sign.
LEMMA TrimIs ==
  ASSUME NEW t, NEW a \in Nat, NEW b \in Nat, NEW lo \in SolidIn(t, a, b), NEW hi \in SolidIn(t, a, b),
         \A i \in SolidIn(t, a, b) : lo <= i /\ i <= hi
  PROVE  Trim(t, Piece(a, b)) = Piece(lo - 1, hi)
<1> DEFINE s == SolidIn(t, a, b)
<1>1. Piece(a, b).start = a /\ Piece(a, b).end = b
  BY DEF Piece
<1>2. Trim(t, Piece(a, b)) = IF s = {} THEN Piece(b, b) ELSE Piece(Min(s) - 1, Max(s))
  BY <1>1 DEF Trim, SolidIn
<1>3. s \in SUBSET Nat
  BY DEF SolidIn
<1> HIDE DEF s
<1>4. s # {} /\ Min(s) = lo /\ Max(s) = hi
  BY <1>3, MinIs, MaxIs DEF s
<1> QED BY <1>2, <1>4

LEMMA TrimNothing ==
  ASSUME NEW t, NEW a \in Nat, NEW b \in Nat, SolidIn(t, a, b) = {}
  PROVE  Trim(t, Piece(a, b)) = Piece(b, b)
<1>1. Piece(a, b).start = a /\ Piece(a, b).end = b
  BY DEF Piece
<1> QED BY <1>1 DEF Trim, SolidIn

\* A clause: the piece that is trimmed, and what is left of it.
Trimmed(t, a, b, u) ==
  /\ SolidIn(t, a, b) # {} /\ u = Trim(t, Piece(a, b))
  /\ u.start \in Nat /\ u.end \in Nat /\ u.start < u.end /\ u = Piece(u.start, u.end)
  /\ a <= u.start /\ u.end <= b
  /\ u.start + 1 \in SolidIn(t, a, b) /\ u.end \in SolidIn(t, a, b)
  /\ \A i \in SolidIn(t, a, b) : u.start + 1 <= i /\ i <= u.end

LEMMA TrimmedIs ==
  ASSUME NEW t, NEW a \in Nat, NEW b \in Nat
  PROVE  LET u == Trim(t, Piece(a, b))
         IN /\ SolidIn(t, a, b) # {} => Trimmed(t, a, b, u)
            /\ u.start < u.end => Trimmed(t, a, b, u)
<1> DEFINE s == SolidIn(t, a, b)
           u == Trim(t, Piece(a, b))
<1>0. s \in SUBSET (a + 1 .. b)
  BY DEF SolidIn
<1> HIDE DEF s
<1>1. ASSUME s # {} PROVE Trimmed(t, a, b, u)
  <2>1. PICK lo, hi \in s : \A i \in s : lo <= i /\ i <= hi
    BY <1>0, <1>1, Extremes
  <2>2. u = Piece(lo - 1, hi)
    BY <2>1, TrimIs DEF s
  <2>3. u.start = lo - 1 /\ u.end = hi
    BY <2>2 DEF Piece
  <2>4. lo \in a + 1 .. b /\ hi \in a + 1 .. b /\ lo <= hi
    BY <1>0, <2>1
  <2> HIDE DEF u
  <2>5. u.start \in Nat /\ u.end \in Nat /\ u.start < u.end /\ a <= u.start /\ u.end <= b
    BY <2>3, <2>4
  <2>6. u.start + 1 = lo
    BY <2>3, <2>4
  <2> QED BY <1>1, <2>1, <2>2, <2>3, <2>5, <2>6 DEF Trimmed, s, u
<1>2. ASSUME s = {} PROVE ~(u.start < u.end)
  <2>1. u = Piece(b, b)
    BY <1>2, TrimNothing DEF s
  <2>2. u.start = b /\ u.end = b
    BY <2>1 DEF Piece
  <2> QED BY <2>2
<1> QED BY <1>1, <1>2 DEF s

Moved(t, a, b, d, e, c, o) ==
  /\ \A i \in SolidIn(t, a, b) : o + i \in SolidIn(d, e, c)
  /\ \A j \in SolidIn(d, e, c) : \E i \in SolidIn(t, a, b) : j = o + i

\* What lies elsewhere, letter by letter, is trimmed to what lies elsewhere.
LEMMA TrimMoved ==
  ASSUME NEW t, NEW a \in Nat, NEW b \in Nat, NEW d, NEW e \in Nat, NEW c \in Nat, NEW o \in Nat, NEW u,
         Moved(t, a, b, d, e, c, o), Trimmed(t, a, b, u)
  PROVE  Trim(d, Piece(e, c)) = Piece(o + u.start, o + u.end)
<1> DEFINE s == SolidIn(t, a, b)  lo == o + (u.start + 1)  hi == o + u.end
<1>1. /\ u.start \in Nat /\ u.end \in Nat /\ u.start + 1 \in s /\ u.end \in s
      /\ \A i \in s : u.start + 1 <= i /\ i <= u.end
      /\ s \in SUBSET Nat
  BY DEF Trimmed, SolidIn
<1>2. lo \in SolidIn(d, e, c) /\ hi \in SolidIn(d, e, c)
  BY <1>1 DEF Moved
<1>3. ASSUME NEW j \in SolidIn(d, e, c) PROVE lo <= j /\ j <= hi
  <2>1. PICK i \in s : j = o + i
    BY <1>3 DEF Moved
  <2>2. i \in Nat /\ u.start + 1 <= i /\ i <= u.end
    BY <1>1
  <2> QED BY <1>1, <2>1, <2>2
<1>4. lo \in Nat /\ lo - 1 = o + u.start
  BY <1>1
<1> HIDE DEF lo, hi, s
<1>5. Trim(d, Piece(e, c)) = Piece(lo - 1, hi)
  BY <1>2, <1>3, <1>4, TrimIs
<1> QED BY <1>4, <1>5 DEF hi

\* What is trimmed stays as it is.
LEMMA TrimTwice ==
  ASSUME NEW t, NEW a \in Nat, NEW b \in Nat, NEW u, Trimmed(t, a, b, u)
  PROVE  Trim(t, u) = u
<1> DEFINE s == SolidIn(t, u.start, u.end)
<1>1. /\ u.start \in Nat /\ u.end \in Nat /\ u.start < u.end /\ u = Piece(u.start, u.end)
      /\ u.start + 1 \in SolidIn(t, a, b) /\ u.end \in SolidIn(t, a, b)
  BY DEF Trimmed
<1>2. u.start + 1 \in s /\ u.end \in s
  BY <1>1 DEF SolidIn
<1>3. \A i \in s : u.start + 1 <= i /\ i <= u.end
  BY <1>1 DEF SolidIn
<1> HIDE DEF s
<1>4. Trim(t, Piece(u.start, u.end)) = Piece((u.start + 1) - 1, u.end)
  BY <1>1, <1>2, <1>3, TrimIs DEF s
<1>5. (u.start + 1) - 1 = u.start
  BY <1>1
<1> QED BY <1>1, <1>4, <1>5

Cuts(t) == {0, Len(t)} \cup {i \in DOMAIN t : t[i] \in {"stop", "break"}}

Adjacent(t, a, b) ==
  a \in Cuts(t) /\ b \in Cuts(t) /\ a < b /\ \A x \in Cuts(t) : x <= a \/ x >= b

LEMMA UnitIs ==
  ASSUME NEW t, NEW u
  PROVE  u \in TextUnits(t) <=>
           \E a, b \in Cuts(t) : Adjacent(t, a, b) /\ u = Trim(t, Piece(a, b)) /\ u.start < u.end
<1> DEFINE cuts == Cuts(t)
           pairs == {c \in cuts \X cuts : c[1] < c[2] /\ \A x \in cuts : x <= c[1] \/ x >= c[2]}
           pieces == {Piece(c[1], c[2]) : c \in pairs}
<1>1. TextUnits(t) = {v \in {Trim(t, p) : p \in pieces} : v.start < v.end}
  BY DEF TextUnits, Cuts
<1>2. \A a, b \in cuts : <<a, b>> \in pairs <=> Adjacent(t, a, b)
  BY DEF Adjacent
<1>3. ASSUME NEW a \in cuts, NEW b \in cuts, Adjacent(t, a, b) PROVE Piece(a, b) \in pieces
  <2>1. <<a, b>> \in pairs /\ <<a, b>>[1] = a /\ <<a, b>>[2] = b
    BY <1>2, <1>3
  <2> HIDE DEF pairs
  <2> QED BY <2>1
<1>4. ASSUME NEW p \in pieces
      PROVE  \E a, b \in cuts : Adjacent(t, a, b) /\ p = Piece(a, b)
  <2>1. PICK c \in pairs : p = Piece(c[1], c[2])
    OBVIOUS
  <2>2. c[1] \in cuts /\ c[2] \in cuts /\ c = <<c[1], c[2]>>
    OBVIOUS
  <2> QED BY <1>2, <2>1, <2>2
<1> HIDE DEF pieces, cuts
<1> QED BY <1>1, <1>3, <1>4 DEF cuts

LEMMA CutFacts ==
  ASSUME NEW C, NEW t \in Seq(C)
  PROVE  /\ Cuts(t) \in SUBSET (0 .. Len(t)) /\ 0 \in Cuts(t) /\ Len(t) \in Cuts(t)
         /\ \A i \in 1 .. Len(t) : t[i] \in {"stop", "break"} => i \in Cuts(t)
         /\ \A x \in Cuts(t) : x = 0 \/ x = Len(t) \/ (x \in 1 .. Len(t) /\ t[x] \in {"stop", "break"})
<1>1. DOMAIN t = 1 .. Len(t) /\ Len(t) \in Nat
  OBVIOUS
<1>2. \A x \in Cuts(t) : x = 0 \/ x = Len(t) \/ (x \in 1 .. Len(t) /\ t[x] \in {"stop", "break"})
  BY <1>1 DEF Cuts
<1>3. \A i \in 1 .. Len(t) : t[i] \in {"stop", "break"} => i \in Cuts(t)
  BY <1>1 DEF Cuts
<1>4. 0 \in Cuts(t) /\ Len(t) \in Cuts(t)
  BY DEF Cuts
<1>5. Cuts(t) \in SUBSET (0 .. Len(t))
  BY <1>1, <1>2
<1> QED BY <1>2, <1>3, <1>4, <1>5

-----------------------------------------------------------------------------
(* A text inside a document, between line breaks.                           *)

Holds(d, t, o) ==
  /\ o + Len(t) <= Len(d) /\ \A i \in 1 .. Len(t) : d[o + i] = t[i]
  /\ o \in Cuts(d)
  /\ o + Len(t) # Len(d) => o + Len(t) + 1 \in Cuts(d) /\ d[o + Len(t) + 1] = "break"

LEMMA SolidMoved ==
  ASSUME NEW C, NEW t \in Seq(C), NEW d, NEW o \in Nat, Holds(d, t, o),
         NEW a \in 0 .. Len(t), NEW b \in 0 .. Len(t), NEW c \in Nat,
         c = o + b \/ (b = Len(t) /\ c = o + Len(t) + 1 /\ d[c] = "break")
  PROVE  Moved(t, a, b, d, o + a, c, o)
<1> DEFINE l == Len(t)
<1>1. l \in Nat /\ a \in Nat /\ b \in Nat /\ a <= l /\ b <= l
  OBVIOUS
<1>2. \A i \in 1 .. l : d[o + i] = t[i]
  BY DEF Holds
<1> HIDE DEF l
<1>3. ASSUME NEW j \in SolidIn(d, o + a, c)
      PROVE  \E i \in SolidIn(t, a, b) : j = o + i
  <2>1. j \in (o + a) + 1 .. c /\ d[j] \notin {"space", "break"}
    BY DEF SolidIn
  <2>2. j \in (o + a) + 1 .. o + b
    <3>1. CASE c = o + b
      BY <2>1, <3>1
    <3>2. CASE b = l /\ c = o + l + 1 /\ d[c] = "break"
      <4>1. j # c
        BY <2>1, <3>2
      <4> QED BY <1>1, <2>1, <3>2, <4>1
    <3> QED BY <3>1, <3>2 DEF l
  <2>3. j - o \in a + 1 .. b /\ j - o \in 1 .. l /\ o + (j - o) = j
    BY <1>1, <2>2
  <2>4. j - o \in SolidIn(t, a, b)
    BY <1>2, <2>1, <2>3 DEF SolidIn
  <2> QED BY <2>3, <2>4
<1>4. ASSUME NEW i \in SolidIn(t, a, b) PROVE o + i \in SolidIn(d, o + a, c)
  <2>1. i \in a + 1 .. b /\ t[i] \notin {"space", "break"}
    BY DEF SolidIn
  <2>2. i \in 1 .. l /\ d[o + i] = t[i]
    BY <1>1, <1>2, <2>1
  <2>3. o + i \in (o + a) + 1 .. c
    BY <1>1, <2>1 DEF l
  <2> QED BY <2>1, <2>2, <2>3 DEF SolidIn
<1> QED BY <1>3, <1>4 DEF Moved

LEMMA CutsMoved ==
  ASSUME NEW C, NEW t \in Seq(C), NEW d \in Seq(C), NEW o \in Nat, Holds(d, t, o)
  PROVE  /\ \A x \in 1 .. Len(t) : o + x \in Cuts(d) => x \in Cuts(t)
         /\ \A x \in Cuts(t) : x # Len(t) => o + x \in Cuts(d)
<1> DEFINE l == Len(t)
<1>1. /\ l \in Nat /\ Len(d) \in Nat /\ o + l <= Len(d) /\ o \in Cuts(d)
      /\ \A i \in 1 .. l : d[o + i] = t[i]
  BY DEF Holds
<1>2. ASSUME NEW x \in 1 .. l, o + x \in Cuts(d) PROVE x \in Cuts(t)
  <2>1. o + x = 0 \/ o + x = Len(d) \/ d[o + x] \in {"stop", "break"}
    BY <1>2, CutFacts
  <2>2. CASE o + x = Len(d)
    <3>1. x = l
      BY <1>1, <2>2
    <3> QED BY <3>1, CutFacts
  <2>3. CASE d[o + x] \in {"stop", "break"}
    <3>1. t[x] \in {"stop", "break"}
      BY <1>1, <2>3
    <3> QED BY <3>1, CutFacts
  <2>4. o + x # 0
    BY <1>1
  <2> QED BY <2>1, <2>2, <2>3, <2>4
<1>3. ASSUME NEW x \in Cuts(t), x # l PROVE o + x \in Cuts(d)
  <2>1. x = 0 \/ (x \in 1 .. l /\ t[x] \in {"stop", "break"})
    BY <1>3, CutFacts
  <2>2. CASE x = 0
    BY <1>1, <2>2
  <2>3. CASE x \in 1 .. l /\ t[x] \in {"stop", "break"}
    <3>1. o + x \in 1 .. Len(d) /\ d[o + x] \in {"stop", "break"}
      BY <1>1, <2>3
    <3> QED BY <3>1, CutFacts
  <2> QED BY <2>1, <2>2, <2>3
<1> QED BY <1>2, <1>3

\* A clause of a line is a clause of the document ...
LEMMA UnitMoved ==
  ASSUME NEW C, NEW t \in Seq(C), NEW d \in Seq(C), NEW o \in Nat, Holds(d, t, o),
         NEW v \in TextUnits(t)
  PROVE  Piece(o + v.start, o + v.end) \in TextUnits(d)
<1> DEFINE l == Len(t)
<1>1. /\ l \in Nat /\ Len(d) \in Nat /\ o + l <= Len(d) /\ o \in Cuts(d)
      /\ o + l # Len(d) => o + l + 1 \in Cuts(d) /\ d[o + l + 1] = "break"
  BY DEF Holds
<1>2. PICK a, b \in Cuts(t) : Adjacent(t, a, b) /\ v = Trim(t, Piece(a, b)) /\ v.start < v.end
  BY UnitIs
<1>3. a \in 0 .. l /\ b \in 0 .. l /\ a < b /\ \A x \in Cuts(t) : x <= a \/ x >= b
  BY <1>2, CutFacts DEF Adjacent
<1>4. a \in Nat /\ b \in Nat
  BY <1>1, <1>3
<1>5. Trimmed(t, a, b, v)
  BY <1>2, <1>4, TrimmedIs
<1> DEFINE c == IF o + b \in Cuts(d) THEN o + b ELSE o + l + 1
<1>6. o + a \in Cuts(d)
  <2>1. a # l
    BY <1>1, <1>3
  <2> QED BY <2>1, CutsMoved
<1>7. c = o + b \/ (b = l /\ c = o + l + 1 /\ d[c] = "break")
  <2> SUFFICES ASSUME o + b \notin Cuts(d) PROVE b = l /\ d[o + l + 1] = "break"
    OBVIOUS
  <2>1. b = l
    BY CutsMoved
  <2>2. o + l # Len(d)
    BY <2>1, CutFacts
  <2> QED BY <1>1, <2>1, <2>2
<1>8. c \in Cuts(d)
  <2> SUFFICES ASSUME o + b \notin Cuts(d) PROVE o + l + 1 \in Cuts(d)
    OBVIOUS
  <2>1. b = l
    BY CutsMoved
  <2>2. o + l # Len(d)
    BY <2>1, CutFacts
  <2> QED BY <1>1, <2>2
<1>9. ASSUME NEW x \in Cuts(d), ~(x <= o + a), ~(x >= c) PROVE FALSE
  <2>0. x \in Nat
    BY CutFacts
  <2>1. x - o \in 1 .. l /\ o + (x - o) = x
    <3>1. c <= o + l + 1 /\ c \in Nat
      BY <1>1, <1>3, <1>4
    <3> HIDE DEF c, l
    <3> QED BY <1>1, <1>4, <1>9, <2>0, <3>1
  <2>2. x - o \in Cuts(t)
    BY <2>1, CutsMoved
  <2>3. x - o <= a \/ x - o >= b
    BY <1>3, <2>2
  <2>4. x - o >= b
    BY <1>4, <1>9, <2>0, <2>3
  <2>5. o + b \notin Cuts(d) /\ b = l
    BY <1>7, <1>9, <2>0, <2>4, <1>4
  <2>6. x = o + b
    BY <1>4, <2>0, <2>1, <2>4, <2>5
  <2> QED BY <2>5, <2>6
<1>10. o + a < c
  BY <1>1, <1>3, <1>4
<1>11. Adjacent(d, o + a, c)
  BY <1>6, <1>8, <1>9, <1>10 DEF Adjacent
<1>12. c \in Nat
  BY <1>1, <1>4
<1> HIDE DEF c
<1>13. Moved(t, a, b, d, o + a, c, o)
  BY <1>3, <1>7, <1>12, SolidMoved
<1>14. Trim(d, Piece(o + a, c)) = Piece(o + v.start, o + v.end)
  <2>1. o + a \in Nat
    BY <1>4
  <2> QED BY <1>4, <1>5, <1>12, <1>13, <2>1, TrimMoved
<1> DEFINE u == Piece(o + v.start, o + v.end)
<1>15. u.start < u.end
  <2>1. v.start \in Nat /\ v.end \in Nat /\ v.start < v.end
    BY <1>5 DEF Trimmed
  <2>2. u.start = o + v.start /\ u.end = o + v.end
    BY DEF Piece
  <2> HIDE DEF u
  <2> QED BY <2>1, <2>2
<1> QED BY <1>6, <1>8, <1>11, <1>14, <1>15, UnitIs

\* ... and a clause of the document that ends in a line is one of the line.
LEMMA UnitFound ==
  ASSUME NEW C, NEW t \in Seq(C), NEW d \in Seq(C), NEW o \in Nat, Holds(d, t, o),
         NEW u \in TextUnits(d), u.end \in o + 1 .. o + Len(t)
  PROVE  \E v \in TextUnits(t) : u = Piece(o + v.start, o + v.end)
<1> DEFINE l == Len(t)
<1>1. /\ l \in Nat /\ Len(d) \in Nat /\ o + l <= Len(d) /\ o \in Cuts(d)
      /\ o + l # Len(d) => o + l + 1 \in Cuts(d) /\ d[o + l + 1] = "break"
  BY DEF Holds
<1>2. PICK e, c \in Cuts(d) : Adjacent(d, e, c) /\ u = Trim(d, Piece(e, c)) /\ u.start < u.end
  BY UnitIs
<1>3. /\ e \in Nat /\ c \in Nat /\ c <= Len(d) /\ e < c
      /\ \A x \in Cuts(d) : x <= e \/ x >= c
  BY <1>1, <1>2, CutFacts DEF Adjacent
<1>4. Trimmed(d, e, c, u)
  BY <1>2, <1>3, TrimmedIs
<1>5. u.end \in e + 1 .. c /\ u.end \in Nat /\ o < u.end /\ u.end <= o + l
  BY <1>1, <1>4 DEF Trimmed, SolidIn
<1>6. o <= e
  BY <1>1, <1>3, <1>5
<1>7. c <= o + l + 1 /\ (c = o + l + 1 => o + l # Len(d))
  <2>1. CASE o + l = Len(d)
    BY <1>1, <1>3, <2>1
  <2>2. CASE o + l # Len(d)
    <3>1. o + l + 1 <= e \/ o + l + 1 >= c
      BY <1>1, <1>3, <2>2
    <3> QED BY <1>1, <1>3, <1>5, <2>2, <3>1
  <2> QED BY <2>1, <2>2
<1> DEFINE a == e - o
           b == IF c = o + l + 1 THEN l ELSE c - o
<1>8. /\ a \in Nat /\ b \in Nat /\ a < b /\ b <= l /\ o + a = e
      /\ c = o + b \/ (b = l /\ c = o + l + 1 /\ d[c] = "break")
  BY <1>1, <1>3, <1>5, <1>6, <1>7
<1>9. a \in Cuts(t)
  <2>1. CASE a = 0
    BY <2>1, CutFacts
  <2>2. CASE a # 0
    <3>1. a \in 1 .. l
      BY <1>1, <1>8, <2>2
    <3> HIDE DEF a
    <3> QED BY <1>2, <1>8, <3>1, CutsMoved
  <2> QED BY <2>1, <2>2
<1>10. b \in Cuts(t)
  <2>1. CASE b = l
    BY <2>1, CutFacts
  <2>2. CASE b # l
    <3>1. b \in 1 .. l /\ c = o + b
      BY <1>1, <1>8, <2>2
    <3> HIDE DEF b
    <3> QED BY <1>2, <3>1, CutsMoved
  <2> QED BY <2>1, <2>2
<1>11. ASSUME NEW x \in Cuts(t) PROVE x <= a \/ x >= b
  <2>1. x \in 0 .. l
    BY CutFacts
  <2>2. CASE x = l
    BY <1>1, <1>8, <2>2
  <2>3. CASE x # l
    <3>1. o + x \in Cuts(d)
      BY <2>3, CutsMoved
    <3>2. o + x <= e \/ o + x >= c
      BY <1>3, <3>1
    <3> HIDE DEF a, b
    <3> QED BY <1>1, <1>3, <1>8, <2>1, <3>2
  <2> QED BY <2>2, <2>3
<1> HIDE DEF a, b
<1>12. Adjacent(t, a, b)
  BY <1>8, <1>9, <1>10, <1>11 DEF Adjacent
<1>13. a \in 0 .. l /\ b \in 0 .. l
  BY <1>1, <1>8
<1>14. Moved(t, a, b, d, o + a, c, o)
  BY <1>3, <1>8, <1>13, SolidMoved
<1> DEFINE v == Trim(t, Piece(a, b))
<1>15. SolidIn(t, a, b) # {}
  <2>1. SolidIn(d, e, c) # {}
    BY <1>4 DEF Trimmed
  <2> QED BY <1>8, <1>14, <2>1 DEF Moved
<1>16. Trimmed(t, a, b, v)
  BY <1>8, <1>15, TrimmedIs
<1>17. u = Piece(o + v.start, o + v.end)
  <2> HIDE DEF v
  <2>1. Trim(d, Piece(o + a, c)) = Piece(o + v.start, o + v.end)
    BY <1>3, <1>8, <1>14, <1>16, TrimMoved
  <2> QED BY <1>2, <1>8, <2>1
<1>18. v \in TextUnits(t)
  <2>1. v.start < v.end
    BY <1>16 DEF Trimmed
  <2> QED BY <1>9, <1>10, <1>12, <2>1, UnitIs
<1> QED BY <1>17, <1>18

-----------------------------------------------------------------------------
(* The lines of the document.                                               *)

\* What the document is made of: texts that are not empty.
Texted(C) ==
  /\ "break" \in C /\ texts \in Seq(Seq(C)) /\ texts # <<>>
  /\ \A k \in DOMAIN texts : texts[k] # <<>>

Whole == Document(Len(texts))

LEMMA LineHeld ==
  ASSUME NEW C, Texted(C), NEW k \in 1 .. Len(texts)
  PROVE  /\ Whole \in Seq(C) /\ Offset(k) \in Nat /\ texts[k] \in Seq(C)
         /\ Holds(Whole, texts[k], Offset(k))
<1> DEFINE n == Len(texts)  d == Whole  t == texts[k]  o == Offset(k)
<1>1. n \in Nat /\ n \in 1 .. n /\ \A j \in 1 .. n : texts[j] \in Seq(C)
  BY DEF Texted
<1>2. d \in Seq(C) /\ Lines(n, d)
  BY <1>1, Layout DEF Texted, Whole
<1> HIDE DEF n, d
<1>3. /\ o \in Nat /\ o + Len(t) <= Len(d)
      /\ \A i \in 1 .. Len(t) : d[o + i] = t[i]
      /\ k > 1 => d[o] = "break"
      /\ k < n => Offset(k + 1) = o + Len(t) + 1
      /\ k = n => Len(d) = o + Len(t)
  BY <1>2 DEF Lines, n
<1>4. k \in 1 .. n /\ t \in Seq(C) /\ Len(t) \in Nat /\ Len(d) \in Nat
  BY <1>1, <1>2 DEF n
<1> HIDE DEF t
<1>5. o \in Cuts(d)
  <2>1. CASE k = 1
    <3>1. o = 0
      BY <2>1 DEF Offset
    <3> QED BY <1>2, <3>1, CutFacts
  <2>2. CASE k # 1
    <3>1. k > 1 /\ k - 1 \in Nat /\ (k - 1) + 1 <= n
      BY <1>1, <1>4, <2>2
    <3>2. Document(k - 1) \in Seq(C)
      BY <3>1, JoiningNext DEF Texted, n
    <3>3. o = Len(Document(k - 1)) + 1
      BY <2>2 DEF Offset
    <3>4. o >= 1
      BY <3>2, <3>3
    <3> HIDE DEF o
    <3>5. o \in 1 .. Len(d) /\ d[o] \in {"stop", "break"}
      BY <1>3, <1>4, <3>1, <3>4
    <3> QED BY <1>2, <3>5, CutFacts
  <2> QED BY <2>1, <2>2
<1>6. ASSUME o + Len(t) # Len(d)
      PROVE  o + Len(t) + 1 \in Cuts(d) /\ d[o + Len(t) + 1] = "break"
  <2>1. k < n
    BY <1>1, <1>3, <1>4, <1>6
  <2>2. Offset(k + 1) = o + Len(t) + 1
    BY <1>3, <2>1
  <2>3. k + 1 \in 1 .. n /\ k + 1 > 1
    BY <1>1, <1>4, <2>1
  <2>4. d[Offset(k + 1)] = "break" /\ Offset(k + 1) + Len(texts[k + 1]) <= Len(d)
    BY <1>2, <2>3 DEF Lines
  <2>5. Len(texts[k + 1]) \in Nat
    BY <1>1, <2>3
  <2>6. o + Len(t) + 1 \in 1 .. Len(d)
    <3> HIDE DEF o
    <3> QED BY <1>3, <1>4, <2>2, <2>4, <2>5
  <2>7. d[o + Len(t) + 1] \in {"stop", "break"}
    BY <2>2, <2>4
  <2> QED BY <1>2, <2>2, <2>4, <2>6, <2>7, CutFacts
<1> QED BY <1>2, <1>3, <1>4, <1>5, <1>6 DEF Holds, d, t

\* A letter of the document is in a line.
LEMMA LetterInLine ==
  ASSUME NEW C, Texted(C), NEW i \in 1 .. Len(Whole), Whole[i] # "break"
  PROVE  \E k \in 1 .. Len(texts) : i \in Offset(k) + 1 .. Offset(k) + Len(texts[k])
<1> DEFINE n == Len(texts)
<1>1. n \in 1 .. n
  BY DEF Texted
<1>2. Lines(n, Whole)
  BY <1>1, Layout DEF Texted, Whole
<1>3. PICK k \in 1 .. n : i \in Offset(k) + 1 .. Offset(k) + Len(texts[k]) \/ (k > 1 /\ i = Offset(k))
  BY <1>2 DEF Lines
<1>4. ~(k > 1 /\ i = Offset(k))
  BY <1>2 DEF Lines
<1> QED BY <1>3, <1>4

LEMMA OffsetsGrow ==
  ASSUME NEW C, Texted(C), NEW j \in 1 .. Len(texts), NEW k \in 1 .. Len(texts), j < k
  PROVE  Offset(j) + Len(texts[j]) < Offset(k)
<1> DEFINE n == Len(texts)
           A == {m \in Nat : j < m /\ m <= n => Offset(j) + Len(texts[j]) < Offset(m)}
<1>1. n \in Nat /\ n \in 1 .. n
  BY DEF Texted
<1>2. Lines(n, Whole)
  BY <1>1, Layout DEF Texted, Whole
<1>3. ASSUME NEW m \in 1 .. n
      PROVE  /\ Offset(m) \in Nat /\ Len(texts[m]) \in Nat
             /\ m < n => Offset(m + 1) = Offset(m) + Len(texts[m]) + 1
  <2>1. Len(texts[m]) \in Nat
    BY <1>3 DEF Texted
  <2> QED BY <1>2, <2>1 DEF Lines
<1> HIDE DEF n
<1>4. 0 \in A
  BY DEF n
<1>5. ASSUME NEW m \in Nat, m \in A PROVE m + 1 \in A
  <2> SUFFICES ASSUME j < m + 1, m + 1 <= n PROVE Offset(j) + Len(texts[j]) < Offset(m + 1)
    OBVIOUS
  <2>1. m \in 1 .. n /\ m < n /\ j \in 1 .. n
    BY <1>1 DEF n
  <2>2. Offset(m + 1) = Offset(m) + Len(texts[m]) + 1 /\ Offset(m) \in Nat /\ Len(texts[m]) \in Nat
    BY <1>3, <2>1
  <2>3. CASE j = m
    BY <2>2, <2>3
  <2>4. CASE j # m
    <3>1. j < m /\ m <= n
      BY <1>1, <2>1, <2>4
    <3>2. Offset(j) + Len(texts[j]) < Offset(m)
      BY <1>5, <3>1
    <3>3. Offset(j) \in Nat /\ Len(texts[j]) \in Nat
      BY <1>3, <2>1
    <3> QED BY <2>2, <3>2, <3>3
  <2> QED BY <2>3, <2>4
<1> HIDE DEF A
<1>6. k \in A
  BY <1>4, <1>5, Induction
<1>7. k <= n
  BY DEF n
<1> QED BY <1>6, <1>7 DEF A

-----------------------------------------------------------------------------
(* What the classifier says, of a line and of the document.                 *)

LEMMA UnitFacts ==
  ASSUME NEW C, NEW t \in Seq(C), NEW u \in TextUnits(t)
  PROVE  /\ u.start \in Nat /\ u.end \in 1 .. Len(t) /\ u.start < u.end /\ u = Piece(u.start, u.end)
         /\ Trim(t, u) = u /\ t[u.end] \notin {"space", "break"}
<1>1. PICK a, b \in Cuts(t) : Adjacent(t, a, b) /\ u = Trim(t, Piece(a, b)) /\ u.start < u.end
  BY UnitIs
<1>2. a \in Nat /\ b \in 0 .. Len(t)
  BY CutFacts
<1>3. b \in Nat /\ Len(t) \in Nat /\ b <= Len(t)
  BY <1>2
<1>4. Trimmed(t, a, b, u)
  BY <1>1, <1>2, <1>3, TrimmedIs
<1>5. Trim(t, u) = u
  BY <1>2, <1>3, <1>4, TrimTwice
<1>6. u.end \in a + 1 .. b /\ t[u.end] \notin {"space", "break"}
  BY <1>4 DEF Trimmed, SolidIn
<1>7. u.end \in 1 .. Len(t)
  BY <1>2, <1>3, <1>6
<1> QED BY <1>4, <1>5, <1>6, <1>7 DEF Trimmed

LEMMA SliceMoved ==
  ASSUME NEW C, NEW t \in Seq(C), NEW d \in Seq(C), NEW o \in Nat, Holds(d, t, o),
         NEW a \in Nat, NEW b \in 1 .. Len(t), a < b
  PROVE  Slice(d, Piece(o + a, o + b)) = Slice(t, Piece(a, b))
<1> DEFINE x == SubSeq(d, (o + a) + 1, o + b)
           y == SubSeq(t, a + 1, b)
<1>1. Slice(d, Piece(o + a, o + b)) = x /\ Slice(t, Piece(a, b)) = y
  BY DEF Slice, Piece
<1>2. /\ Len(t) \in Nat /\ Len(d) \in Nat /\ o + Len(t) <= Len(d)
      /\ \A i \in 1 .. Len(t) : d[o + i] = t[i]
  BY DEF Holds
<1>3. /\ b \in Nat /\ b <= Len(t) /\ (o + a) + 1 <= (o + b) + 1 /\ a + 1 <= b + 1
      /\ o + b <= Len(d) /\ a + 1 \in 1 .. Len(t) + 1 /\ (o + a) + 1 \in 1 .. Len(d) + 1
      /\ o + b \in Nat
  BY <1>2
<1>4. y \in Seq(C) /\ Len(y) = b - a /\ \A i \in 1 .. b - a : y[i] = t[a + i]
  <2>1. Len(y) = (b - (a + 1)) + 1 /\ \A i \in 1 .. (b - (a + 1)) + 1 : y[i] = t[((a + 1) + i) - 1]
    BY SMTT(60), <1>2, <1>3, SubSeqProperties
  <2>2. (b - (a + 1)) + 1 = b - a /\ \A i \in 1 .. b - a : ((a + 1) + i) - 1 = a + i
    BY <1>3
  <2>3. y \in Seq(C)
    BY <1>2, <1>3, SubSeqProperties
  <2> HIDE DEF y
  <2> QED BY <2>1, <2>2, <2>3
<1>5. x \in Seq(C) /\ Len(x) = b - a /\ \A i \in 1 .. b - a : x[i] = d[o + (a + i)]
  <2>1. Len(x) = ((o + b) - ((o + a) + 1)) + 1
        /\ \A i \in 1 .. ((o + b) - ((o + a) + 1)) + 1 : x[i] = d[(((o + a) + 1) + i) - 1]
    BY <1>2, <1>3, SubSeqProperties
  <2>2. /\ ((o + b) - ((o + a) + 1)) + 1 = b - a
        /\ \A i \in 1 .. b - a : (((o + a) + 1) + i) - 1 = o + (a + i)
    BY SMTT(60), <1>3
  <2>3. x \in Seq(C)
    BY <1>2, <1>3, SubSeqProperties
  <2> HIDE DEF x
  <2> QED BY <2>1, <2>2, <2>3
<1>6. \A i \in 1 .. b - a : a + i \in 1 .. Len(t)
  BY <1>2, <1>3
<1>7. \A i \in 1 .. b - a : x[i] = y[i]
  BY <1>2, <1>4, <1>5, <1>6
<1> HIDE DEF x, y
<1>8. x = y
  BY <1>4, <1>5, <1>7, SeqEqual
<1> QED BY <1>1, <1>8

\* What the classifier says of a clause.
SpanOf(t, u) == [start |-> u.start, end |-> u.end, tongue |-> ear[ToSet(Slice(t, u)) \cap Letters]]

LEMMA JudgedIs ==
  ASSUME NEW t, NEW s
  PROVE  s \in Judged(t) <=> \E u \in TextUnits(t) : s = SpanOf(t, u) /\ s.tongue # Unclear
BY DEF Judged, SpanOf

LEMMA SpanFacts ==
  ASSUME NEW C, NEW t \in Seq(C), NEW s \in Judged(t)
  PROVE  /\ s.start \in Nat /\ s.end \in 1 .. Len(t) /\ s.start < s.end
         /\ s = [start |-> s.start, end |-> s.end, tongue |-> s.tongue]
         /\ Trim(t, Piece(s.start, s.end)) = Piece(s.start, s.end)
         /\ t[s.end] \notin {"space", "break"}
<1>1. PICK u \in TextUnits(t) : s = SpanOf(t, u)
  BY JudgedIs
<1>2. /\ u.start \in Nat /\ u.end \in 1 .. Len(t) /\ u.start < u.end /\ u = Piece(u.start, u.end)
      /\ Trim(t, u) = u /\ t[u.end] \notin {"space", "break"}
  BY UnitFacts
<1>3. s.start = u.start /\ s.end = u.end /\ s = [start |-> s.start, end |-> s.end, tongue |-> s.tongue]
  BY <1>1 DEF SpanOf
<1> QED BY <1>2, <1>3

Shift(s, o) == [start |-> o + s.start, end |-> o + s.end, tongue |-> s.tongue]

LEMMA SpanMoved ==
  ASSUME NEW C, NEW t \in Seq(C), NEW d \in Seq(C), NEW o \in Nat, Holds(d, t, o),
         NEW u \in TextUnits(t)
  PROVE  SpanOf(d, Piece(o + u.start, o + u.end)) = Shift(SpanOf(t, u), o)
<1>1. u.start \in Nat /\ u.end \in 1 .. Len(t) /\ u.start < u.end /\ u = Piece(u.start, u.end)
  BY UnitFacts
<1> DEFINE v == Piece(o + u.start, o + u.end)
<1>2. Slice(d, v) = Slice(t, u)
  BY <1>1, SliceMoved
<1>3. v.start = o + u.start /\ v.end = o + u.end
  BY DEF Piece
<1> HIDE DEF v
<1>4. SpanOf(d, v) = Shift(SpanOf(t, u), o)
  BY <1>2, <1>3 DEF SpanOf, Shift
<1> QED BY <1>4 DEF v

LEMMA JudgedMoved ==
  ASSUME NEW C, NEW t \in Seq(C), NEW d \in Seq(C), NEW o \in Nat, Holds(d, t, o),
         NEW s \in Judged(t)
  PROVE  Shift(s, o) \in Judged(d)
<1>1. PICK u \in TextUnits(t) : s = SpanOf(t, u) /\ s.tongue # Unclear
  BY JudgedIs
<1>2. Piece(o + u.start, o + u.end) \in TextUnits(d)
  BY UnitMoved
<1>3. SpanOf(d, Piece(o + u.start, o + u.end)) = Shift(s, o)
  BY <1>1, SpanMoved
<1>4. Shift(s, o).tongue # Unclear
  BY <1>1 DEF Shift
<1> QED BY <1>2, <1>3, <1>4, JudgedIs

LEMMA JudgedFound ==
  ASSUME NEW C, NEW t \in Seq(C), NEW d \in Seq(C), NEW o \in Nat, Holds(d, t, o),
         NEW x \in Judged(d), x.end \in o + 1 .. o + Len(t)
  PROVE  \E s \in Judged(t) : x = Shift(s, o)
<1>1. PICK u \in TextUnits(d) : x = SpanOf(d, u) /\ x.tongue # Unclear
  BY JudgedIs
<1>2. u.end \in o + 1 .. o + Len(t)
  BY <1>1 DEF SpanOf
<1>3. PICK v \in TextUnits(t) : u = Piece(o + v.start, o + v.end)
  BY SMTT(60), <1>2, UnitFound
<1>4. x = Shift(SpanOf(t, v), o)
  BY <1>1, <1>3, SpanMoved
<1>5. SpanOf(t, v).tongue # Unclear
  BY <1>1, <1>4 DEF Shift
<1> QED BY <1>4, <1>5, JudgedIs

-----------------------------------------------------------------------------
(* The way back.                                                            *)

LEMMA LargerOfTwo ==
  ASSUME NEW a \in Nat, NEW b \in Nat
  PROVE  Max({a, b}) = IF a <= b THEN b ELSE a
<1>1. CASE a <= b
  <2>1. {a, b} \in SUBSET Nat /\ b \in {a, b} /\ \A i \in {a, b} : i <= b
    BY <1>1
  <2> QED BY <1>1, <2>1, MaxIs
<1>2. CASE ~(a <= b)
  <2>1. {a, b} \in SUBSET Nat /\ a \in {a, b} /\ \A i \in {a, b} : i <= a
    BY <1>2
  <2> QED BY <1>2, <2>1, MaxIs
<1> QED BY <1>1, <1>2

LEMMA SmallerOfTwo ==
  ASSUME NEW a \in Nat, NEW b \in Nat
  PROVE  Min({a, b}) = IF a <= b THEN a ELSE b
<1>1. CASE a <= b
  <2>1. {a, b} \in SUBSET Nat /\ a \in {a, b} /\ \A i \in {a, b} : a <= i
    BY <1>1
  <2> QED BY <1>1, <2>1, MinIs
<1>2. CASE ~(a <= b)
  <2>1. {a, b} \in SUBSET Nat /\ b \in {a, b} /\ \A i \in {a, b} : b <= i
    BY <1>2
  <2> QED BY <1>2, <2>1, MinIs
<1> QED BY <1>1, <1>2

\* What of a span lies in segment k, with the bounds worked out.
LEMMA ProjectIs ==
  ASSUME NEW x, NEW k, x.start \in Nat, x.end \in Nat, Offset(k) \in Nat, Len(texts[k]) \in Nat,
         NEW from, from = Max({x.start, Offset(k)}), NEW to, to = Min({x.end, Offset(k) + Len(texts[k])})
  PROVE  /\ ~(from < to) => Project(x, k).start = 0 /\ Project(x, k).end = 0
         /\ from < to => LET own == Trim(texts[k], Piece(from - Offset(k), to - Offset(k)))
                         IN Project(x, k) = [start |-> own.start, end |-> own.end, tongue |-> x.tongue]
BY DEF Project, Piece

\* A clause comes back to the line it is from as it was ...
LEMMA ComesBack ==
  ASSUME NEW C, Texted(C), NEW k \in 1 .. Len(texts), NEW s \in Judged(texts[k])
  PROVE  Project(Shift(s, Offset(k)), k) = s
<1> DEFINE o == Offset(k)  t == texts[k]  x == Shift(s, o)
<1>1. o \in Nat /\ t \in Seq(C) /\ Len(t) \in Nat
  BY LineHeld
<1>2. /\ s.start \in Nat /\ s.end \in 1 .. Len(t) /\ s.start < s.end
      /\ s = [start |-> s.start, end |-> s.end, tongue |-> s.tongue]
      /\ Trim(t, Piece(s.start, s.end)) = Piece(s.start, s.end)
  BY <1>1, SpanFacts
<1>3. x.start = o + s.start /\ x.end = o + s.end /\ x.tongue = s.tongue
  BY DEF Shift
<1> HIDE DEF o, t, x
<1>4. /\ s.end \in Nat /\ s.end <= Len(t) /\ x.start \in Nat /\ x.end \in Nat /\ o + Len(t) \in Nat
  BY <1>1, <1>2, <1>3
<1> DEFINE from == Max({x.start, o})  to == Min({x.end, o + Len(t)})
<1>5. from = o + s.start
  <2>1. from = IF x.start <= o THEN o ELSE x.start
    BY <1>1, <1>4, LargerOfTwo
  <2> HIDE DEF from
  <2> QED BY <1>1, <1>2, <1>3, <2>1
<1>6. to = o + s.end
  <2>1. to = IF x.end <= o + Len(t) THEN x.end ELSE o + Len(t)
    BY <1>4, SmallerOfTwo
  <2> HIDE DEF to
  <2> QED BY <1>1, <1>3, <1>4, <2>1
<1> DEFINE own == Trim(t, Piece(from - o, to - o))
<1>7. own = Piece(s.start, s.end)
  <2>1. from - o = s.start /\ to - o = s.end
    <3> HIDE DEF from, to
    <3> QED BY <1>1, <1>2, <1>4, <1>5, <1>6
  <2> HIDE DEF from, to
  <2> QED BY <1>2, <2>1
<1>8. from < to
  <2> HIDE DEF from, to
  <2> QED BY <1>1, <1>2, <1>4, <1>5, <1>6
<1>9. Project(x, k) = [start |-> own.start, end |-> own.end, tongue |-> x.tongue]
  BY <1>1, <1>4, <1>8, ProjectIs DEF o, t
<1> HIDE DEF own
<1>10. own.start = s.start /\ own.end = s.end
  BY <1>7 DEF Piece
<1> QED BY <1>2, <1>3, <1>9, <1>10 DEF x, o

\* ... and leaves nothing in another.
LEMMA LeavesNothing ==
  ASSUME NEW C, Texted(C), NEW j \in 1 .. Len(texts), NEW k \in 1 .. Len(texts), j # k,
         NEW s \in Judged(texts[j])
  PROVE  ~(Project(Shift(s, Offset(j)), k).start < Project(Shift(s, Offset(j)), k).end)
<1> DEFINE o == Offset(k)  l == Len(texts[k])  p == Offset(j)  m == Len(texts[j])  x == Shift(s, p)
<1>1. o \in Nat /\ l \in Nat /\ p \in Nat /\ m \in Nat /\ texts[j] \in Seq(C)
  BY LineHeld
<1>2. s.start \in Nat /\ s.end \in 1 .. m /\ s.start < s.end
  BY <1>1, SpanFacts
<1>3. x.start = p + s.start /\ x.end = p + s.end
  BY DEF Shift
<1>4. p + m < o \/ o + l < p
  <2>1. j < k \/ k < j
    OBVIOUS
  <2> QED BY <2>1, OffsetsGrow
<1> HIDE DEF o, l, p, m, x
<1>5. x.start \in Nat /\ x.end \in Nat /\ o + l \in Nat /\ s.end \in Nat /\ s.end <= m
  BY SMTT(60), <1>1, <1>2, <1>3
<1> DEFINE from == Max({x.start, o})  to == Min({x.end, o + l})
<1>6. from = IF x.start <= o THEN o ELSE x.start
  BY <1>1, <1>5, LargerOfTwo
<1>7. to = IF x.end <= o + l THEN x.end ELSE o + l
  BY <1>5, SmallerOfTwo
<1>8. ~(from < to)
  <2> HIDE DEF from, to
  <2>1. CASE p + m < o
    <3>1. x.end <= o /\ to <= x.end /\ o <= from
      BY SMTT(60), <1>1, <1>3, <1>5, <1>6, <1>7, <2>1
    <3> QED BY <1>1, <1>5, <1>6, <1>7, <3>1
  <2>2. CASE o + l < p
    <3>1. o + l <= x.start /\ to <= o + l /\ x.start <= from
      BY SMTT(60), <1>1, <1>2, <1>3, <1>5, <1>6, <1>7, <2>2
    <3> QED BY <1>1, <1>5, <1>6, <1>7, <3>1
  <2> QED BY <1>4, <2>1, <2>2
<1>9. Project(x, k).start = 0 /\ Project(x, k).end = 0
  BY <1>1, <1>5, <1>8, ProjectIs DEF o, l
<1> QED BY <1>9 DEF x, p

\* Every clause of the document is one of a line.
LEMMA ClausesAreOfLines ==
  ASSUME NEW C, Texted(C), NEW x \in Judged(Whole)
  PROVE  \E k \in 1 .. Len(texts) : \E s \in Judged(texts[k]) : x = Shift(s, Offset(k))
<1>1. 1 \in 1 .. Len(texts)
  BY DEF Texted
<1>2. Whole \in Seq(C)
  BY <1>1, LineHeld
<1>3. x.end \in 1 .. Len(Whole) /\ Whole[x.end] \notin {"space", "break"}
  BY <1>2, SpanFacts
<1>4. PICK k \in 1 .. Len(texts) : x.end \in Offset(k) + 1 .. Offset(k) + Len(texts[k])
  BY <1>3, LetterInLine
<1>5. Offset(k) \in Nat /\ texts[k] \in Seq(C) /\ Holds(Whole, texts[k], Offset(k))
  BY LineHeld
<1>6. \E s \in Judged(texts[k]) : x = Shift(s, Offset(k))
  BY <1>2, <1>4, <1>5, JudgedFound
<1> QED BY <1>6

\* The detour by the document changes nothing.
LEMMA Projected ==
  ASSUME NEW C, Texted(C), NEW k \in 1 .. Len(texts)
  PROVE  ProjectSpans(Judged(Whole), k) = Judged(texts[k])
<1>1. Offset(k) \in Nat /\ texts[k] \in Seq(C) /\ Whole \in Seq(C) /\ Holds(Whole, texts[k], Offset(k))
  BY LineHeld
<1>2. ASSUME NEW s \in Judged(texts[k]) PROVE s \in ProjectSpans(Judged(Whole), k)
  <2>1. Shift(s, Offset(k)) \in Judged(Whole)
    BY <1>1, JudgedMoved
  <2>2. Project(Shift(s, Offset(k)), k) = s
    BY ComesBack
  <2>3. s.start < s.end
    BY <1>1, SpanFacts
  <2> QED BY <2>1, <2>2, <2>3 DEF ProjectSpans
<1>3. ASSUME NEW p \in ProjectSpans(Judged(Whole), k) PROVE p \in Judged(texts[k])
  <2>1. PICK x \in Judged(Whole) : p = Project(x, k) /\ p.start < p.end
    BY <1>3 DEF ProjectSpans
  <2>2. PICK j \in 1 .. Len(texts) : \E s \in Judged(texts[j]) : x = Shift(s, Offset(j))
    BY ClausesAreOfLines
  <2>3. PICK s \in Judged(texts[j]) : x = Shift(s, Offset(j))
    BY <2>2
  <2>4. j = k
    BY <2>1, <2>3, LeavesNothing
  <2>5. p = s
    BY <2>1, <2>3, <2>4, ComesBack
  <2> QED BY <2>4, <2>5
<1> QED BY <1>2, <1>3

\* Clauses of one text do not overlap.
LEMMA ClausesApart ==
  ASSUME NEW C, NEW t \in Seq(C), NEW u \in TextUnits(t), NEW v \in TextUnits(t), u # v
  PROVE  u.end <= v.start \/ v.end <= u.start
<1>1. PICK a, b \in Cuts(t) : Adjacent(t, a, b) /\ u = Trim(t, Piece(a, b)) /\ u.start < u.end
  BY UnitIs
<1>2. PICK c, e \in Cuts(t) : Adjacent(t, c, e) /\ v = Trim(t, Piece(c, e)) /\ v.start < v.end
  BY UnitIs
<1>3. Cuts(t) \in SUBSET Nat
  <2>1. Cuts(t) \in SUBSET (0 .. Len(t))
    BY CutFacts
  <2> QED BY <2>1
<1>4. a \in Nat /\ b \in Nat /\ c \in Nat /\ e \in Nat
  BY <1>3
<1>5. Trimmed(t, a, b, u) /\ Trimmed(t, c, e, v)
  BY <1>1, <1>2, <1>4, TrimmedIs
<1>6. /\ u.start \in Nat /\ u.end \in Nat /\ a <= u.start /\ u.end <= b
      /\ v.start \in Nat /\ v.end \in Nat /\ c <= v.start /\ v.end <= e
  BY <1>5 DEF Trimmed
<1>7. b <= c \/ e <= a \/ (a = c /\ b = e)
  BY <1>1, <1>2, <1>4 DEF Adjacent
<1>8. ~(a = c /\ b = e)
  BY <1>1, <1>2
<1> QED BY <1>4, <1>6, <1>7, <1>8

LEMMA JudgedFits ==
  ASSUME NEW C, NEW t \in Seq(C)
  PROVE  SpansFit(Judged(t), t)
<1>1. ASSUME NEW s \in Judged(t) PROVE s.end <= Len(t)
  <2>1. s.end \in 1 .. Len(t)
    BY SpanFacts
  <2> QED BY <2>1
<1>2. ASSUME NEW r \in Judged(t), NEW s \in Judged(t), r # s
      PROVE  r.end <= s.start \/ s.end <= r.start
  <2>1. PICK u \in TextUnits(t) : r = SpanOf(t, u)
    BY JudgedIs
  <2>2. PICK v \in TextUnits(t) : s = SpanOf(t, v)
    BY JudgedIs
  <2>3. u.end <= v.start \/ v.end <= u.start
    BY <1>2, <2>1, <2>2, ClausesApart
  <2> QED BY <2>1, <2>2, <2>3 DEF SpanOf
<1> QED BY <1>1, <1>2 DEF SpansFit

-----------------------------------------------------------------------------
(* Attribution.                                                             *)

AllSpoken == UNION {Spoken(k) : k \in DOMAIN texts}

\* What holds of the transcript at every step.
LanguagesInv ==
  /\ Texted(Characters)
  /\ step \in {"heard", "attributed", "summed", "unavailable"}
  /\ DOMAIN spans = DOMAIN texts
  /\ \/ \A k \in DOMAIN texts : spans[k] = {}
     \/ step # "heard" /\ \A k \in DOMAIN texts : spans[k] = Judged(texts[k])
  /\ step = "heard" => summary.language = Unclear
  /\ summary.language # Unclear => \A k \in DOMAIN texts : Spoken(k) \subseteq {summary.language}

LEMMA LanguagesInvInit == LanguagesInit => LanguagesInv
<1> SUFFICES ASSUME LanguagesInit PROVE LanguagesInv
  OBVIOUS
<1>1. PICK n \in 1 .. MaxSegments : texts \in [1 .. n -> Texts]
  BY DEF LanguagesInit
<1>2. n \in Nat \ {0} /\ Texts \subseteq Seq(Characters)
  BY LanguagesAssumption
<1>3. \A t \in Texts : t # <<>> 
  BY LanguagesAssumption
<1>4. texts \in Seq(Seq(Characters)) /\ texts # <<>> /\ \A k \in DOMAIN texts : texts[k] # <<>>
  <2>1. texts \in [1 .. n -> Seq(Characters)]
    BY <1>1, <1>2
  <2>2. texts \in Seq(Seq(Characters)) /\ Len(texts) = n
    BY <1>2, <2>1
  <2>3. \A k \in DOMAIN texts : texts[k] \in Texts
    BY <1>1
  <2> QED BY <1>2, <1>3, <2>2, <2>3
<1>5. "break" \in Characters
  BY DEF Characters
<1>6. spans = [k \in DOMAIN texts |-> {}] /\ summary.language = Unclear /\ step = "heard"
  BY DEF LanguagesInit, NoSummary
<1> QED BY <1>4, <1>5, <1>6 DEF LanguagesInv, Texted

\* A name alone: what is spoken is nothing else.
LEMMA OnlyIs ==
  ASSUME NEW S, Only(S) # Unclear
  PROVE  S = {Only(S)}
<1>1. PICK x \in S : S = {x}
  BY DEF Only
<1> QED BY <1>1 DEF Only

LEMMA AttributeStep == LanguagesInv /\ Attribute => LanguagesInv'
<1> SUFFICES ASSUME LanguagesInv, Attribute PROVE LanguagesInv'
  OBVIOUS
<1>1. texts' = texts /\ ear' = ear /\ summary' = summary /\ step = "heard"
  BY DEF Attribute
<1>2. texts \in Seq(Seq(Characters)) /\ Texted(Characters) /\ DOMAIN texts = 1 .. Len(texts)
  BY DEF LanguagesInv, Texted
<1> DEFINE document == Judged(Document(Len(texts)))
           projected == [k \in DOMAIN texts |-> ProjectSpans(document, k)]
<1>3. \A k \in DOMAIN texts : projected[k] = Judged(texts[k])
  BY <1>2, Projected DEF Whole
<1>4. \A k \in DOMAIN texts : SpansFit(projected[k], texts[k])
  BY <1>2, <1>3, JudgedFits
<1>5. /\ spans' = projected
      /\ step' = IF \A k \in DOMAIN texts : SpansFit(projected[k], texts[k]) THEN "attributed" ELSE "failed"
  BY DEF Attribute
<1>6. DOMAIN spans' = DOMAIN texts
  BY <1>5
<1> HIDE DEF projected
<1>7. step' = "attributed"
  BY <1>4, <1>5
<1>8. \A k \in DOMAIN texts : Judged(texts[k])' = Judged(texts[k])
  BY <1>1 DEF Judged, TextUnits, Trim, Slice, Piece
<1>9. \A k \in DOMAIN texts : spans'[k] = Judged(texts[k])'
  BY <1>3, <1>5, <1>8
<1>10. Texted(Characters)'
  BY <1>1, <1>2 DEF Texted
<1>11. summary'.language = Unclear
  BY <1>1 DEF LanguagesInv
<1> QED BY <1>1, <1>6, <1>7, <1>9, <1>10, <1>11 DEF LanguagesInv

LEMMA OtherSteps ==
  LanguagesInv /\ (NotAttributed \/ Summarise \/ UNCHANGED languageVars) => LanguagesInv'
<1> SUFFICES ASSUME LanguagesInv, NotAttributed \/ Summarise \/ UNCHANGED languageVars
             PROVE  LanguagesInv'
  OBVIOUS
<1>1. texts' = texts /\ ear' = ear /\ spans' = spans
  BY DEF NotAttributed, Summarise, languageVars
<1>2. \A k \in DOMAIN texts : Judged(texts[k])' = Judged(texts[k])
  BY <1>1 DEF Judged, TextUnits, Trim, Slice, Piece
<1>3. Texted(Characters)'
  BY <1>1 DEF LanguagesInv, Texted
<1>4. \A k : Spoken(k)' = Spoken(k)
  BY <1>1 DEF Spoken
<1>5. CASE NotAttributed
  BY <1>1, <1>2, <1>3, <1>4, <1>5 DEF LanguagesInv, NotAttributed
<1>6. CASE UNCHANGED languageVars
  BY <1>1, <1>2, <1>3, <1>4, <1>6 DEF LanguagesInv, languageVars
<1>7. CASE Summarise
  <2> DEFINE all == IF AllSpoken # {} THEN AllSpoken ELSE {requested} \ {Unclear}
  <2>1. summary'.language = Only(all) /\ step = "attributed" /\ step' = "summed"
    BY <1>7 DEF Summarise, AllSpoken
  <2>2. ASSUME summary'.language # Unclear, NEW k \in DOMAIN texts
        PROVE  Spoken(k) \subseteq {summary'.language}
    <3>1. all = {summary'.language}
      BY <2>1, <2>2, OnlyIs
    <3>2. Spoken(k) \subseteq AllSpoken
      BY DEF AllSpoken
    <3> QED BY <3>1, <3>2
  <2>3. \/ \A k \in DOMAIN texts : spans[k] = {}
        \/ \A k \in DOMAIN texts : spans[k] = Judged(texts[k])
    BY DEF LanguagesInv
  <2>4. DOMAIN spans = DOMAIN texts
    BY DEF LanguagesInv
  <2> QED BY <1>1, <1>2, <1>3, <1>4, <2>1, <2>2, <2>3, <2>4 DEF LanguagesInv
<1> QED BY <1>5, <1>6, <1>7

\* A segment has the spans of its own clauses or none, no transcript is refused
\* for its spans, and one language is named only if nothing was judged another:
\* for any texts, and any classifier that goes by the letters of a clause
\* (language.py, _attribute_languages, _transcript).
THEOREM NothingIsMisattributed == LanguagesSpec => []SpansAreWhatWasJudged
<1>1. LanguagesInv => SpansAreWhatWasJudged
  BY DEF LanguagesInv, SpansAreWhatWasJudged
<1>2. LanguagesInv /\ [LanguagesNext]_languageVars => LanguagesInv'
  BY AttributeStep, OtherSteps DEF LanguagesNext
<1> QED BY <1>1, <1>2, LanguagesInvInit, PTL DEF LanguagesSpec

-----------------------------------------------------------------------------
(* The probe.                                                               *)

\* As long as the stamp is the one that was taken first, what was read is what is
\* there: each edit has a stamp of its own.
Unchanged ==
  stamp = before =>
    /\ probing \in {"name", "digest", "compare"} => payload = recording
    /\ probing \in {"digest", "compare"} => naming = IF Several(recording) THEN recording ELSE Nothing
    /\ probing = "name" => Several(recording)
    /\ digest = [k \in 1 .. Len(digest) |-> recording]

ProbeInv ==
  /\ recording \in Recordings /\ stamp \in Nat /\ before \in Nat /\ before <= stamp
  /\ probing \in {"idle", "inspect", "name", "digest", "compare"}
  /\ digest \in Seq(Recordings)
  /\ probing \in {"name", "digest", "compare"} => payload \in Recordings
  /\ probing \in {"inspect", "name"} => digest = <<>> /\ naming = Nothing
  /\ probing = "compare" => Len(digest) = Blocks
  /\ probing # "idle" => Unchanged

LEMMA FirstAudioIs ==
  ASSUME NEW r \in Recordings, Audio(r) # {}
  PROVE  FirstAudio(r) \in Audio(r)
<1>1. Audio(r) \in SUBSET Nat
  <2>1. r.streams \in Seq(Streams)
    BY ProbeAssumption
  <2> QED BY <2>1, DOMAIN r.streams = 1 .. Len(r.streams), Len(r.streams) \in Nat DEF Audio
<1>2. \E i \in Audio(r) : \A j \in Audio(r) : i <= j
  BY <1>1, LeastNumber
<1> QED BY <1>2 DEF FirstAudio

LEMMA ProbeInvInit == ProbeInit => ProbeInv
<1> SUFFICES ASSUME ProbeInit PROVE ProbeInv
  OBVIOUS
<1>1. digest = <<>> /\ digest \in Seq(Recordings)
  BY DEF ProbeInit
<1> QED BY <1>1 DEF ProbeInit, ProbeInv

LEMMA ProbeStep == ProbeInv /\ [ProbeNext]_probeVars => ProbeInv'
<1> SUFFICES ASSUME ProbeInv, [ProbeNext]_probeVars PROVE ProbeInv'
  OBVIOUS
<1>r. CASE Refuse
  BY <1>r DEF Refuse, Reply, ProbeInv
<1>1. CASE Look
  <2>1. digest' = <<>> /\ <<>> \in Seq(Recordings) /\ Len(digest') = 0
    BY <1>1 DEF Look
  <2>2. <<>> = [k \in 1 .. 0 |-> recording]
    OBVIOUS
  <2>3. CASE recording.empty
    BY <1>1, <2>1, <2>3 DEF Look, ProbeInv
  <2>4. CASE ~recording.empty
    <3>1. Unchanged'
      BY <1>1, <2>1, <2>2, <2>4 DEF Look, Unchanged
    <3> QED BY <1>1, <2>1, <2>4, <3>1 DEF Look, ProbeInv
  <2> QED BY <2>3, <2>4
<1>2. CASE Inspect /\ ~Refuse
  <2>1. Unchanged'
    BY <1>2 DEF Inspect, ProbeInv, Unchanged
  <2> QED BY <1>2, <2>1 DEF Inspect, ProbeInv
<1>3. CASE NameTracks /\ ~Refuse
  <2>1. Unchanged'
    BY <1>3 DEF NameTracks, ProbeInv, Unchanged
  <2> QED BY <1>3, <2>1 DEF NameTracks, ProbeInv
<1>4. CASE Fingerprint /\ ~Refuse
  <2>1. digest \in Seq(Recordings) /\ digest' = Append(digest, recording) /\ recording \in Recordings
    BY <1>4 DEF Fingerprint, ProbeInv
  <2>2. digest' \in Seq(Recordings) /\ Len(digest') = Len(digest) + 1 /\ Len(digest) \in Nat
    BY <2>1
  <2>3. ASSUME digest = [k \in 1 .. Len(digest) |-> recording]
        PROVE  digest' = [k \in 1 .. Len(digest') |-> recording]
    <3>1. ASSUME NEW k \in 1 .. Len(digest') PROVE digest'[k] = recording
      <4>1. CASE k = Len(digest) + 1
        BY <2>1, <4>1
      <4>2. CASE k \in 1 .. Len(digest)
        <5>1. digest'[k] = digest[k]
          BY <2>1, <4>2
        <5> QED BY <2>3, <4>2, <5>1
      <4> QED BY <2>2, <4>1, <4>2
    <3> QED BY <2>2, <3>1
  <2>4. Unchanged'
    BY <1>4, <2>2, <2>3 DEF Fingerprint, ProbeInv, Unchanged
  <2>5. probing' \in {"digest", "compare"} /\ (probing' = "compare" => Len(digest') = Blocks)
    BY <1>4, <2>2 DEF Fingerprint
  <2> QED BY <1>4, <2>2, <2>4, <2>5 DEF Fingerprint, ProbeInv
<1>5. CASE Compare
  BY <1>5 DEF Compare, Reply, ProbeInv
<1>6. CASE EditRecording
  <2>1. stamp' # before' /\ stamp' \in Nat /\ before' <= stamp'
    BY <1>6 DEF EditRecording, ProbeInv
  <2> QED BY <1>6, <2>1 DEF EditRecording, ProbeInv, Unchanged
<1>7. CASE UNCHANGED probeVars
  BY <1>7 DEF probeVars, ProbeInv, Unchanged
<1> QED BY <1>r, <1>1, <1>2, <1>3, <1>4, <1>5, <1>6, <1>7 DEF ProbeNext, Inspect, NameTracks, Fingerprint

\* Whatever a probe answers is true of the recording at the moment it answers, for
\* a fingerprint of any number of blocks and any edits between its readings.
THEOREM ProbeIsAtomic == ProbeSpec => ProbesAtOnce
<1> DEFINE Told == media' \notin {Nothing, media} =>
                     /\ Supported(recording) /\ media' = Described(recording)
                     /\ \E i \in Audio(recording) : media'.primary = recording.streams[i].index
<1>1. ASSUME ProbeInv, ProbeNext PROVE Told
  <2> SUFFICES ASSUME media' \notin {Nothing, media} PROVE Told
    OBVIOUS
  <2>1. Compare /\ stamp = before /\ Supported(payload) /\ media' = Parse(payload, naming, digest)
    BY <1>1 DEF ProbeNext, Look, Inspect, NameTracks, Fingerprint, Compare, EditRecording, Refuse, Reply
  <2>2. payload = recording /\ naming = (IF Several(recording) THEN recording ELSE Nothing)
        /\ digest = [k \in 1 .. Blocks |-> recording]
    BY <1>1, <2>1 DEF Compare, ProbeInv, Unchanged
  <2>3. media' = Described(recording) /\ Supported(recording)
    BY <2>1, <2>2 DEF Described
  <2>4. FirstAudio(recording) \in Audio(recording)
    BY <1>1, <2>3, FirstAudioIs DEF Supported, ProbeInv
  <2>5. media'.primary = recording.streams[FirstAudio(recording)].index
    BY <2>3 DEF Described, Parse
  <2> QED BY <2>3, <2>4, <2>5
<1>2. ASSUME ProbeInv, [ProbeNext]_probeVars PROVE [Told]_probeVars
  BY <1>1, <1>2
<1> QED BY <1>2, ProbeInvInit, ProbeStep, PTL DEF ProbeSpec, ProbesAtOnce

-----------------------------------------------------------------------------
(* Searches: what is found, in some order.                                  *)

\* A sequence of different elements of a set, not too many.
Lists(s, S, n) ==
  /\ s \in Seq(S) /\ Len(s) <= n
  /\ \A i, j \in DOMAIN s : s[i] = s[j] => i = j

LEMMA FiniteImage ==
  ASSUME NEW S, IsFiniteSet(S), NEW f, DOMAIN f = S
  PROVE  IsFiniteSet({f[x] : x \in S})
<1> DEFINE T == {f[x] : x \in S}
           g == [x \in S |-> f[x]]
<1>1. g \in Surjection(S, T)
  BY DEF Surjection
<1> QED BY <1>1, FS_Surjection

LEMMA PlacesFinite ==
  ASSUME NEW n \in Nat
  PROVE  IsFiniteSet(1 .. n) /\ Cardinality(1 .. n) = n
BY FS_Interval

\* A sequence of all of a finite set, each once.
LEMMA PermutationIs ==
  ASSUME NEW S, IsFiniteSet(S), NEW s \in SetToSeqs(S)
  PROVE  /\ Lists(s, S, Cardinality(S)) /\ Len(s) = Cardinality(S)
         /\ \A x \in S : \E n \in DOMAIN s : s[n] = x
<1> DEFINE N == Cardinality(S)
<1>1. N \in Nat
  BY FS_CardinalityType
<1>2. s \in [1 .. N -> S] /\ \A i, j \in 1 .. N : i # j => s[i] # s[j]
  BY DEF SetToSeqs
<1> HIDE DEF N
<1>3. s \in Seq(S) /\ Len(s) = N /\ DOMAIN s = 1 .. N
  BY <1>1, <1>2
<1>4. s \in Injection(1 .. N, S)
  BY <1>2 DEF Injection, IsInjective
<1>5. Cardinality(1 .. N) = N
  BY <1>1, FS_Interval
<1>6. s \in Surjection(1 .. N, S)
  BY <1>4, <1>5, FS_Injection DEF N
<1> QED BY <1>1, <1>2, <1>3, <1>6 DEF N, Lists, Surjection

LEMMA MinOfTwo ==
  ASSUME NEW a \in Nat, NEW b \in Nat
  PROVE  \E m \in Nat : m = Min({a, b}) /\ m <= a /\ m <= b /\ (m = a \/ m = b)
<1> DEFINE T == {a, b}
<1>1. T \in SUBSET Nat /\ T # {}
  OBVIOUS
<1>2. Min(T) \in T /\ \A y \in T : Min(T) <= y
  BY <1>1, MinIsLeast
<1> QED BY <1>2

LEMMA FirstOfIs ==
  ASSUME NEW S, NEW s \in Seq(S), NEW n \in Nat
  PROVE  /\ FirstOf(s, n) \in Seq(S) /\ Len(FirstOf(s, n)) <= n /\ Len(FirstOf(s, n)) <= Len(s)
         /\ \A i \in DOMAIN FirstOf(s, n) : i \in DOMAIN s /\ FirstOf(s, n)[i] = s[i]
         /\ \A i \in DOMAIN s : i <= n => i \in DOMAIN FirstOf(s, n)
<1> DEFINE f == FirstOf(s, n)
<1>1. Len(s) \in Nat /\ DOMAIN s = 1 .. Len(s)
  OBVIOUS
<1>2. PICK m \in Nat : m = Min({n, Len(s)}) /\ m <= n /\ m <= Len(s) /\ (m = n \/ m = Len(s))
  BY <1>1, MinOfTwo
<1>3. f = SubSeq(s, 1, m)
  BY <1>2 DEF FirstOf
<1> HIDE DEF f
<1>4. \A i \in 1 .. m : i \in 1 .. Len(s) /\ s[i] \in S
  BY <1>1, <1>2
<1>5. f \in Seq(S) /\ Len(f) = m /\ \A i \in 1 .. m : f[i] = s[i]
  BY <1>3, <1>4, SubSeqProperties
<1>6. DOMAIN f = 1 .. m
  BY <1>5
<1>7. \A i \in DOMAIN f : i \in DOMAIN s /\ f[i] = s[i]
  BY <1>1, <1>4, <1>5, <1>6
<1>8. \A i \in DOMAIN s : i <= n => i \in DOMAIN f
  BY <1>1, <1>2, <1>6
<1> QED BY <1>2, <1>5, <1>7, <1>8 DEF f

LEMMA FirstLists ==
  ASSUME NEW S, NEW s, NEW k, Lists(s, S, k), NEW n \in Nat
  PROVE  Lists(FirstOf(s, n), S, n)
<1>1. s \in Seq(S)
  BY DEF Lists
<1> QED BY <1>1, FirstOfIs DEF Lists

\* Whatever the order, a search lists what it finds, up to its limit.
LEMMA OrdersList ==
  ASSUME NEW S, IsFiniteSet(S), Limit \in Nat, NEW s \in Orders(S)
  PROVE  Lists(s, S, Limit)
<1>1. PICK r \in SetToSeqs(S) : s = FirstOf(r, Limit)
  BY DEF Orders
<1> QED BY <1>1, PermutationIs, FirstLists

LEMMA TimelineLists ==
  ASSUME NEW S, IsFiniteSet(S), Limit \in Nat, NEW s \in InTimeline(S)
  PROVE  Lists(s, S, Limit)
<1>1. PICK r \in SetToSeqs(S) : s = FirstOf(r, Limit)
  BY DEF InTimeline, Sorted
<1> QED BY <1>1, PermutationIs, FirstLists

-----------------------------------------------------------------------------
(* The chunks of a transcript.                                              *)

LEMMA TranscriptIs ==
  ASSUME NEW t \in Transcripts
  PROVE  /\ Len(t) \in Nat /\ DOMAIN t = 1 .. Len(t) /\ (t # <<>> => Len(t) > 0)
         /\ \A i \in DOMAIN t :
              /\ t[i].start \in Nat /\ t[i].end \in Nat /\ DOMAIN t[i].text = 1 .. Len(t[i].text)
              /\ Len(t[i].text) \in Nat /\ Len(t[i].text) = t[i].end - t[i].start
              /\ \A j \in DOMAIN t : i <= j => t[i].start <= t[j].start /\ t[i].end <= t[j].end
<1>1. /\ t \in Seq(ToSet(t))
      /\ \A i \in DOMAIN t :
           /\ t[i].text \in Seq(ToSet(t[i].text)) /\ t[i].start \in Nat /\ t[i].end \in Nat
           /\ Len(t[i].text) = t[i].end - t[i].start
           /\ \A j \in DOMAIN t : i < j => t[i].start <= t[j].start /\ t[i].end <= t[j].end
  BY RetrievalAssumption
<1>2. Len(t) \in Nat /\ DOMAIN t = 1 .. Len(t) /\ (t # <<>> => Len(t) > 0)
  BY <1>1, EmptySeq, LenProperties
<1>3. \A x : x \in Seq(ToSet(x)) => Len(x) \in Nat /\ DOMAIN x = 1 .. Len(x)
  BY LenProperties
<1>4. ASSUME NEW i \in DOMAIN t
      PROVE  /\ t[i].start \in Nat /\ t[i].end \in Nat /\ DOMAIN t[i].text = 1 .. Len(t[i].text)
             /\ Len(t[i].text) \in Nat /\ Len(t[i].text) = t[i].end - t[i].start
  BY <1>1, <1>3
<1>5. ASSUME NEW i \in DOMAIN t, NEW j \in DOMAIN t, i <= j
      PROVE  t[i].start <= t[j].start /\ t[i].end <= t[j].end
  <2>1. CASE i = j
    BY <1>1, <2>1
  <2>2. CASE i < j
    BY <1>1, <2>2
  <2> QED BY <1>2, <1>5, <2>1, <2>2
<1> QED BY <1>2, <1>4, <1>5

LEMMA MaxIsGreatest ==
  ASSUME NEW n \in Nat, NEW T \in SUBSET (0 .. n), T # {}
  PROVE  Max(T) \in T /\ \A y \in T : Max(T) >= y
<1> DEFINE D == {n - y : y \in T}
<1>1. D \in SUBSET Nat /\ D # {}
  OBVIOUS
<1>2. PICK x \in D : \A y \in D : x <= y
  BY <1>1, LeastNumber
<1>3. PICK m \in T : x = n - m
  BY <1>2
<1>4. \A y \in T : n - m <= n - y
  BY <1>2, <1>3
<1>5. \A y \in T : m >= y
  BY <1>4
<1> QED BY <1>5 DEF Max

\* The chunks cover the segments of a transcript, each once.
Cut(t, d, C) ==
  /\ \A c \in C :
       /\ c = [doc |-> d, first |-> c.first, last |-> c.last]
       /\ c.first \in DOMAIN t /\ c.last \in DOMAIN t /\ c.first <= c.last
  /\ \A c, e \in C : Members(c) \cap Members(e) # {} => c = e
  /\ \A i \in DOMAIN t : \E c \in C : i \in Members(c)

LEMMA ChunksCut ==
  ASSUME NEW t \in Transcripts, NEW d, NEW C \in ChunkSets(t, d)
  PROVE  Cut(t, d, C)
<1> DEFINE N == Len(t)
<1>1. N \in Nat /\ DOMAIN t = 1 .. N /\ (t # <<>> => N > 0)
  BY TranscriptIs
<1>2. PICK ends \in SUBSET DOMAIN t :
        /\ t # <<>> => N \in ends
        /\ C = {[doc |-> d, first |-> 1 + Max({0} \cup {x \in ends : x < e}), last |-> e] : e \in ends}
  BY DEF ChunkSets
<1> DEFINE Since(e) == {0} \cup {x \in ends : x < e}
           Chunk(e) == [doc |-> d, first |-> 1 + Max(Since(e)), last |-> e]
<1>3. ASSUME NEW e \in ends
      PROVE  /\ e \in 1 .. N /\ Max(Since(e)) \in 0 .. N /\ Max(Since(e)) < e
             /\ \A x \in ends : x < e => x <= Max(Since(e))
  <2>1. e \in 1 .. N /\ ends \in SUBSET (1 .. N)
    BY <1>1
  <2>2. Since(e) \in SUBSET (0 .. N) /\ Since(e) # {}
    BY <1>1, <2>1
  <2>3. Max(Since(e)) \in Since(e) /\ \A x \in Since(e) : Max(Since(e)) >= x
    BY <1>1, <2>2, MaxIsGreatest
  <2>4. \A x \in ends : x < e => x \in Since(e)
    OBVIOUS
  <2>5. \A x \in Since(e) : x < e
    BY <2>1
  <2> HIDE DEF Since
  <2>6. Max(Since(e)) \in 0 .. N /\ Max(Since(e)) < e
    BY <2>2, <2>3, <2>5
  <2>7. ASSUME NEW x \in ends, x < e PROVE x <= Max(Since(e))
    BY <2>1, <2>3, <2>4, <2>6, <2>7
  <2> QED BY <2>1, <2>6, <2>7
<1> HIDE DEF Since
<1>4. ASSUME NEW e \in ends PROVE Members(Chunk(e)) = 1 + Max(Since(e)) .. e
  BY DEF Members
<1>5. C = {Chunk(e) : e \in ends}
  BY <1>2 DEF Since
<1>6. ASSUME NEW c \in C
      PROVE  /\ c = [doc |-> d, first |-> c.first, last |-> c.last]
             /\ c.first \in DOMAIN t /\ c.last \in DOMAIN t /\ c.first <= c.last
  <2>1. PICK e \in ends : c = Chunk(e)
    BY <1>5
  <2>2. c.first = 1 + Max(Since(e)) /\ c.last = e
    BY <2>1
  <2>3. 1 + Max(Since(e)) \in 1 .. N /\ 1 + Max(Since(e)) <= e /\ e \in 1 .. N
    BY <1>1, <1>3
  <2> QED BY <1>1, <2>1, <2>2, <2>3
<1>7. ASSUME NEW c \in C, NEW e \in C, Members(c) \cap Members(e) # {} PROVE c = e
  <2>1. PICK a, b \in ends : c = Chunk(a) /\ e = Chunk(b)
    BY <1>5
  <2>2. PICK i \in Members(c) : i \in Members(e)
    BY <1>7
  <2>3. i \in 1 + Max(Since(a)) .. a /\ i \in 1 + Max(Since(b)) .. b
    BY <1>4, <2>1, <2>2
  <2>4. /\ a \in Nat /\ b \in Nat /\ Max(Since(a)) \in Nat /\ Max(Since(b)) \in Nat
        /\ (a < b => a <= Max(Since(b))) /\ (b < a => b <= Max(Since(a)))
    BY <1>1, <1>3
  <2>5. a = b
    BY <2>3, <2>4
  <2> QED BY <2>1, <2>5
<1>8. ASSUME NEW i \in DOMAIN t PROVE \E c \in C : i \in Members(c)
  <2> DEFINE After == {e \in ends : i <= e}
  <2>1. N \in After /\ After \in SUBSET Nat
    BY <1>1, <1>2, EmptySeq
  <2>2. PICK e \in After : \A x \in After : e <= x
    BY <2>1, LeastNumber
  <2>3. e \in ends /\ i <= e /\ e \in Nat /\ i \in Nat /\ Max(Since(e)) \in Nat
    BY <1>1, <1>3, <2>2
  <2>4. Max(Since(e)) < i
    <3>1. Max(Since(e)) \in {0} \cup {x \in ends : x < e}
      <4>1. Since(e) \in SUBSET (0 .. N) /\ Since(e) # {}
        BY <1>1, <1>3 DEF Since
      <4> QED BY <1>1, <4>1, MaxIsGreatest DEF Since
    <3>2. CASE Max(Since(e)) = 0
      BY <1>1, <3>2
    <3>3. CASE Max(Since(e)) \in ends /\ Max(Since(e)) < e
      <4>1. Max(Since(e)) \notin After
        BY <2>2, <2>3, <3>3
      <4> QED BY <2>3, <3>3, <4>1
    <3> QED BY <3>1, <3>2, <3>3
  <2>5. i \in Members(Chunk(e))
    BY <1>4, <2>3, <2>4
  <2> QED BY <1>5, <2>3, <2>5
<1> QED BY <1>6, <1>7, <1>8 DEF Cut

-----------------------------------------------------------------------------
(* What a search ranges over.                                               *)

Corpus ==
  /\ indexed \in [Documents -> Transcripts] /\ file \in [Documents -> Transcripts]
  /\ query \in Queries /\ mode \in {"lexical", "semantic", "hybrid"}
  /\ \A c \in chunked : c.doc \in Documents
  /\ \A d \in Documents : Cut(indexed[d], d, {c \in chunked : c.doc = d})

LEMMA CorpusInit == RetrievalInit => Corpus
<1> SUFFICES ASSUME RetrievalInit PROVE Corpus
  OBVIOUS
<1>1. indexed \in [Documents -> Transcripts] /\ file \in [Documents -> Transcripts]
  BY DEF RetrievalInit
<1>2. PICK f : /\ \A d \in Documents : f[d] \in ChunkSets(indexed[d], d)
               /\ chunked = UNION {f[d] : d \in Documents}
  BY DEF RetrievalInit
<1>3. ASSUME NEW d \in Documents PROVE Cut(indexed[d], d, f[d])
  BY <1>1, <1>2, ChunksCut
<1>4. \A d \in Documents : \A c \in f[d] : c.doc = d
  BY <1>3 DEF Cut
<1>5. ASSUME NEW d \in Documents PROVE {c \in chunked : c.doc = d} = f[d]
  BY <1>2, <1>4
<1>6. \A c \in chunked : c.doc \in Documents
  BY <1>2, <1>4
<1> QED BY <1>1, <1>3, <1>5, <1>6 DEF Corpus, RetrievalInit

LEMMA ChunkIs ==
  ASSUME Corpus, NEW c \in chunked
  PROVE  /\ c.doc \in Documents /\ c = [doc |-> c.doc, first |-> c.first, last |-> c.last]
         /\ c.first \in DOMAIN indexed[c.doc] /\ c.last \in DOMAIN indexed[c.doc]
         /\ c.first \in Nat /\ c.last \in Nat /\ c.first <= c.last
<1>1. c.doc \in Documents /\ indexed[c.doc] \in Transcripts
  BY DEF Corpus
<1>2. Cut(indexed[c.doc], c.doc, {e \in chunked : e.doc = c.doc})
  BY <1>1 DEF Corpus
<1>3. DOMAIN indexed[c.doc] = 1 .. Len(indexed[c.doc]) /\ Len(indexed[c.doc]) \in Nat
  BY <1>1, TranscriptIs
<1>4. /\ c = [doc |-> c.doc, first |-> c.first, last |-> c.last] /\ c.first <= c.last
      /\ c.first \in DOMAIN indexed[c.doc] /\ c.last \in DOMAIN indexed[c.doc]
  BY <1>2 DEF Cut
<1>5. c.first \in Nat /\ c.last \in Nat
  BY <1>3, <1>4
<1> QED BY <1>1, <1>4, <1>5

\* Two chunks of a document share no segment.
LEMMA ChunksApart ==
  ASSUME Corpus, NEW c \in chunked, NEW e \in chunked, c.doc = e.doc,
         Members(c) \cap Members(e) # {}
  PROVE  c = e
<1>1. Cut(indexed[c.doc], c.doc, {x \in chunked : x.doc = c.doc})
  BY ChunkIs DEF Corpus
<1> QED BY <1>1 DEF Cut

LEMMA FirstIsMember ==
  ASSUME Corpus, NEW c \in chunked
  PROVE  c.first \in Members(c)
BY ChunkIs DEF Members

\* A chunk is known by its document and its first segment.
LEMMA ChunkKey ==
  ASSUME Corpus, NEW c \in chunked, NEW e \in chunked, c.doc = e.doc, c.first = e.first
  PROVE  c = e
<1>1. c.first \in Members(c) \cap Members(e)
  BY FirstIsMember
<1> QED BY <1>1, ChunksApart

\* Each segment has its chunk.
LEMMA ChunkOfIs ==
  ASSUME Corpus, NEW x \in AllSegments
  PROVE  /\ ChunkOf(x) \in chunked /\ ChunkOf(x).doc = x[1] /\ x[2] \in Members(ChunkOf(x))
         /\ \A c \in chunked : c.doc = x[1] /\ x[2] \in Members(c) => c = ChunkOf(x)
<1>1. PICK d \in Documents : \E i \in DOMAIN indexed[d] : x = <<d, i>>
  BY DEF AllSegments
<1>2. x[1] = d /\ x[2] \in DOMAIN indexed[d]
  BY <1>1
<1>3. Cut(indexed[d], d, {c \in chunked : c.doc = d})
  BY DEF Corpus
<1>4. \E c \in chunked : c.doc = x[1] /\ x[2] \in Members(c)
  BY <1>2, <1>3 DEF Cut
<1>5. ChunkOf(x) \in chunked /\ ChunkOf(x).doc = x[1] /\ x[2] \in Members(ChunkOf(x))
  BY <1>4 DEF ChunkOf
<1>6. ASSUME NEW c \in chunked, c.doc = x[1], x[2] \in Members(c) PROVE c = ChunkOf(x)
  BY <1>5, <1>6, ChunksApart
<1> QED BY <1>5, <1>6

LEMMA SegmentsFinite == ASSUME Corpus PROVE IsFiniteSet(AllSegments)
<1> DEFINE Of(d) == {<<d, i>> : i \in DOMAIN indexed[d]}
           f == [d \in Documents |-> Of(d)]
<1>1. ASSUME NEW d \in Documents PROVE IsFiniteSet(Of(d))
  <2> DEFINE g == [i \in DOMAIN indexed[d] |-> <<d, i>>]
  <2>1. indexed[d] \in Transcripts
    BY DEF Corpus
  <2>2. IsFiniteSet(DOMAIN indexed[d])
    BY <2>1, TranscriptIs, FS_Interval
  <2>3. IsFiniteSet({g[i] : i \in DOMAIN indexed[d]})
    BY <2>2, FiniteImage
  <2>4. {g[i] : i \in DOMAIN indexed[d]} = Of(d)
    OBVIOUS
  <2> QED BY <2>3, <2>4
<1> HIDE DEF Of
<1>2. IsFiniteSet({f[d] : d \in Documents})
  BY RetrievalAssumption, FiniteImage
<1>3. \A T \in {f[d] : d \in Documents} : IsFiniteSet(T)
  BY <1>1
<1>4. IsFiniteSet(UNION {f[d] : d \in Documents})
  BY <1>2, <1>3, FS_UNION
<1>5. AllSegments = UNION {f[d] : d \in Documents}
  BY DEF AllSegments, Of
<1> QED BY <1>4, <1>5

LEMMA ChunksFinite == ASSUME Corpus PROVE IsFiniteSet(chunked)
<1> DEFINE g == [c \in chunked |-> <<c.doc, c.first>>]
<1>1. ASSUME NEW c \in chunked PROVE <<c.doc, c.first>> \in AllSegments
  BY ChunkIs DEF AllSegments
<1>2. ASSUME NEW c \in chunked, NEW e \in chunked, g[c] = g[e] PROVE c = e
  BY <1>2, ChunkKey
<1>3. g \in Injection(chunked, AllSegments)
  BY <1>1, <1>2 DEF Injection, IsInjective
<1> QED BY <1>3, SegmentsFinite, FS_Injection

LEMMA LimitIs ==
  ASSUME Corpus
  PROVE  Limit \in Nat /\ query.limit \in Nat /\ (mode # "hybrid" => Limit = query.limit)
<1>1. query.limit \in Nat /\ query.limit * Multiplier \in Nat /\ MinCandidates \in Nat /\ MaxCandidates \in Nat
  BY RetrievalAssumption DEF Corpus
<1>2. Max({query.limit * Multiplier, MinCandidates}) \in Nat
  BY <1>1, MaxOfTwo
<1>3. CandidateLimit \in Nat
  BY <1>1, <1>2, MinOfTwo DEF CandidateLimit
<1> QED BY <1>1, <1>3 DEF Limit

-----------------------------------------------------------------------------
(* Fractions.                                                               *)

LEMMA ProductGrows ==
  ASSUME NEW a \in Nat, NEW b \in Nat, NEW k \in Nat, a <= b
  PROVE  /\ a * k \in Nat /\ b * k \in Nat /\ a * k <= b * k
         /\ k * a \in Nat /\ k * b \in Nat /\ k * a <= k * b
         /\ a < b /\ k > 0 => a * k < b * k /\ k * a < k * b
<1>1. b * k = a * k + (b - a) * k /\ k * a = a * k /\ k * b = b * k
  OBVIOUS
<1>2. (b - a) * k >= 0 /\ (a < b /\ k > 0 => (b - a) * k > 0)
  OBVIOUS
<1>3. a * k \in Nat /\ (b - a) * k \in Int
  OBVIOUS
<1> QED BY <1>1, <1>2, <1>3

\* One of two parts that shrinks leaves more of the whole.
LEMMA LargerSum ==
  ASSUME NEW a \in Nat \ {0}, NEW b \in Nat \ {0}, NEW x \in Nat \ {0}, NEW y \in Nat \ {0},
         a <= x, b <= y, a < x \/ b < y
  PROVE  (b + a) * (x * y) > (y + x) * (a * b)
<1> DEFINE u == a * x
           v == b * y
<1>1. u \in Nat /\ v \in Nat /\ u > 0 /\ v > 0
  OBVIOUS
<1>2. (b + a) * (x * y) = v * x + u * y /\ (y + x) * (a * b) = v * a + u * b
  OBVIOUS
<1> HIDE DEF u, v
<1>3. v * a <= v * x /\ u * b <= u * y /\ (a < x => v * a < v * x) /\ (b < y => u * b < u * y)
      /\ {v * a, v * x, u * b, u * y} \subseteq Nat
  BY <1>1, ProductGrows
<1> QED BY <1>2, <1>3

\* A rank's reciprocal, or nothing.
Reciprocals == {<<0, 1>>} \cup {<<1, k>> : k \in Nat \ {0}}
AsMuch(a, b) == b[1] = 0 \/ (a[1] = 1 /\ a[2] <= b[2])
Exceeds(a, b) == a[1] = 1 /\ (b[1] = 0 \/ a[2] < b[2])

LEMMA ReciprocalIs ==
  ASSUME NEW a \in Reciprocals
  PROVE  a[2] \in Nat \ {0} /\ (a[1] = 1 \/ (a[1] = 0 /\ a[2] = 1))
<1>1. CASE a = <<0, 1>>
  BY <1>1
<1>2. CASE \E k \in Nat \ {0} : a = <<1, k>>
  <2>1. PICK k \in Nat \ {0} : a = <<1, k>>
    BY <1>2
  <2>2. a[1] = 1
    BY <2>1
  <2>3. a[2] \in Nat \ {0}
    BY <2>1
  <2> QED BY <2>2, <2>3
<1> QED BY <1>1, <1>2 DEF Reciprocals

LEMMA SumExceeds ==
  ASSUME NEW a \in Reciprocals, NEW b \in Reciprocals, NEW x \in Reciprocals, NEW y \in Reciprocals,
         AsMuch(a, x), AsMuch(b, y), Exceeds(a, x) \/ Exceeds(b, y)
  PROVE  (a[1] * b[2] + b[1] * a[2]) * (x[2] * y[2]) > (x[1] * y[2] + y[1] * x[2]) * (a[2] * b[2])
<1>1. a[2] \in Nat \ {0} /\ b[2] \in Nat \ {0} /\ x[2] \in Nat \ {0} /\ y[2] \in Nat \ {0}
  BY ReciprocalIs
<1> DEFINE A == a[2]
           B == b[2]
           X == x[2]
           Y == y[2]
<1>2. X * Y \in Nat /\ X * Y > 0 /\ A * B \in Nat
  BY <1>1
<1>3. CASE x[1] = 0 /\ y[1] = 0
  <2>1. (x[1] * Y + y[1] * X) * (A * B) = 0
    BY <1>1, <1>2, <1>3
  <2>2. a[1] * B + b[1] * A \in Nat /\ a[1] * B + b[1] * A > 0
    BY <1>1, ReciprocalIs DEF Exceeds
  <2>3. (a[1] * B + b[1] * A) * (X * Y) > 0
    BY <1>2, <2>2
  <2> QED BY <2>1, <2>3
<1>4. CASE x[1] = 1 /\ y[1] = 0
  <2>1. a[1] = 1 /\ A <= X /\ Y = 1
    BY <1>4, ReciprocalIs DEF AsMuch
  <2>2. (x[1] * Y + y[1] * X) * (A * B) = A * B
    BY <1>1, <1>2, <1>4, <2>1
  <2>3. CASE b[1] = 0
    <3>1. A < X /\ B = 1
      BY <1>4, <2>1, <2>3, ReciprocalIs DEF Exceeds
    <3>2. (a[1] * B + b[1] * A) * (X * Y) = X /\ A * B = A
      BY <1>1, <2>1, <2>3, <3>1
    <3> QED BY <1>1, <2>2, <3>1, <3>2
  <2>4. CASE b[1] = 1
    <3>1. (a[1] * B + b[1] * A) * (X * Y) = X * B + X * A
      BY <1>1, <2>1, <2>4
    <3>2. A * B <= X * B /\ X * B \in Nat /\ X * A \in Nat /\ X * A > 0
      BY <1>1, <2>1, ProductGrows
    <3> QED BY <1>2, <2>2, <3>1, <3>2
  <2> QED BY <2>3, <2>4, ReciprocalIs
<1>5. CASE x[1] = 0 /\ y[1] = 1
  <2>1. b[1] = 1 /\ B <= Y /\ X = 1
    BY <1>5, ReciprocalIs DEF AsMuch
  <2>2. (x[1] * Y + y[1] * X) * (A * B) = A * B
    BY <1>1, <1>2, <1>5, <2>1
  <2>3. CASE a[1] = 0
    <3>1. B < Y /\ A = 1
      BY <1>5, <2>1, <2>3, ReciprocalIs DEF Exceeds
    <3>2. (a[1] * B + b[1] * A) * (X * Y) = Y /\ A * B = B
      BY <1>1, <2>1, <2>3, <3>1
    <3> QED BY <1>1, <2>2, <3>1, <3>2
  <2>4. CASE a[1] = 1
    <3>1. (a[1] * B + b[1] * A) * (X * Y) = A * Y + B * Y
      BY <1>1, <2>1, <2>4
    <3>2. A * B <= A * Y /\ A * Y \in Nat /\ B * Y \in Nat /\ B * Y > 0
      BY <1>1, <2>1, ProductGrows
    <3> QED BY <1>2, <2>2, <3>1, <3>2
  <2> QED BY <2>3, <2>4, ReciprocalIs
<1>6. CASE x[1] = 1 /\ y[1] = 1
  <2>1. a[1] = 1 /\ b[1] = 1 /\ A <= X /\ B <= Y /\ (A < X \/ B < Y)
    BY <1>6 DEF AsMuch, Exceeds
  <2>2. a[1] * B + b[1] * A = B + A /\ x[1] * Y + y[1] * X = Y + X
    BY <1>1, <1>6, <2>1
  <2>3. (B + A) * (X * Y) > (Y + X) * (A * B)
    BY <1>1, <2>1, LargerSum
  <2> QED BY <2>2, <2>3
<1> QED BY <1>3, <1>4, <1>5, <1>6, ReciprocalIs

-----------------------------------------------------------------------------
(* How early a chunk was found, and how it ranks.                           *)

Matching == {x \in AllSegments : SegmentMatches(x)}
Fitting == {c \in chunked : ChunkMatches(c)}

\* What the two indexes gave.
Gathered == Corpus /\ Lists(lexical, Matching, Limit) /\ Lists(semantic, Fitting, Limit)

\* Of the places where something was found, the first; where nothing was, the one
\* after the last.
Earliest(S, n) == Min(S \cup {n + 1})

LEMMA EarliestIs ==
  ASSUME NEW n \in Nat, NEW S \in SUBSET (1 .. n)
  PROVE  /\ Earliest(S, n) \in 1 .. n + 1
         /\ (S # {}) <=> Earliest(S, n) <= n
         /\ S # {} => Earliest(S, n) \in S /\ Earliest(S, n) = Min(S)
         /\ \A i \in S : Earliest(S, n) <= i
<1> DEFINE T == S \cup {n + 1}
           m == Min(T)
<1>1. T \in SUBSET Nat /\ T # {} /\ T \in SUBSET (1 .. n + 1)
  OBVIOUS
<1>2. m \in T /\ \A y \in T : m <= y
  BY <1>1, MinIsLeast
<1>3. Earliest(S, n) = m
  BY DEF Earliest
<1> HIDE DEF m
<1>4. m \in 1 .. n + 1 /\ \A i \in S : m <= i
  BY <1>1, <1>2
<1>5. ASSUME S # {} PROVE m <= n /\ m \in S /\ m = Min(S)
  <2>1. PICK i \in S : TRUE
    BY <1>5
  <2>2. i \in Nat /\ i <= n /\ m <= i /\ m \in Nat
    BY <1>4, <2>1
  <2>3. m <= n /\ m # n + 1
    BY <2>2
  <2>4. m \in S
    BY <1>2, <2>3
  <2>5. S \in SUBSET Nat
    OBVIOUS
  <2>6. Min(S) = m
    BY <1>4, <2>4, <2>5, MinIs
  <2> QED BY <2>3, <2>4, <2>6
<1>6. ASSUME S = {} PROVE ~(m <= n)
  <2>1. m = n + 1
    BY <1>2, <1>6
  <2> QED BY <2>1
<1> QED BY <1>3, <1>4, <1>5, <1>6

LEMMA ListIs ==
  ASSUME NEW s, NEW S, NEW n, Lists(s, S, n)
  PROVE  /\ Len(s) \in Nat /\ DOMAIN s = 1 .. Len(s) /\ \A i \in DOMAIN s : s[i] \in S
BY ElementOfSeq DEF Lists

HitsOf(c) == {n \in DOMAIN lexical : lexical[n][1] = c.doc /\ lexical[n][2] \in Members(c)}

LEMMA HitsAre ==
  ASSUME Gathered, NEW c \in chunked
  PROVE  /\ HitsOf(c) = {n \in DOMAIN lexical : ChunkOf(lexical[n]) = c}
         /\ c \in Collapsed <=> HitsOf(c) # {}
         /\ FirstFound(c) = Earliest(HitsOf(c), Len(lexical))
         /\ Len(lexical) \in Nat /\ HitsOf(c) \in SUBSET (1 .. Len(lexical))
<1>1. /\ Len(lexical) \in Nat /\ DOMAIN lexical = 1 .. Len(lexical)
      /\ \A n \in DOMAIN lexical : lexical[n] \in AllSegments
  BY ListIs DEF Gathered, Matching
<1>2. ASSUME NEW n \in DOMAIN lexical
      PROVE  lexical[n][1] = c.doc /\ lexical[n][2] \in Members(c) <=> ChunkOf(lexical[n]) = c
  BY <1>1, ChunkOfIs DEF Gathered
<1>3. HitsOf(c) = {n \in DOMAIN lexical : ChunkOf(lexical[n]) = c}
  BY <1>2 DEF HitsOf
<1>4. FirstFound(c) = Earliest(HitsOf(c), Len(lexical))
  BY DEF FirstFound, Earliest, HitsOf
<1> QED BY <1>1, <1>3, <1>4 DEF Collapsed

LEMMA CollapsedAre ==
  ASSUME Gathered
  PROVE  Collapsed \in SUBSET chunked /\ IsFiniteSet(Collapsed)
<1>1. \A n \in DOMAIN lexical : lexical[n] \in AllSegments
  BY ListIs DEF Gathered, Matching
<1>2. Collapsed \in SUBSET chunked
  BY <1>1, ChunkOfIs DEF Collapsed, Gathered
<1> QED BY <1>2, ChunksFinite, FS_Subset DEF Gathered

LEMMA RawRankIs ==
  ASSUME Gathered, NEW c \in Collapsed
  PROVE  RawRank(c) = FirstFound(c) /\ FirstFound(c) \in Nat /\ FirstFound(c) <= Len(lexical)
<1>1. c \in chunked
  BY CollapsedAre
<1>2. RawRank(c) = Min(HitsOf(c))
  BY <1>1, HitsAre DEF RawRank
<1>3. HitsOf(c) # {} /\ FirstFound(c) = Earliest(HitsOf(c), Len(lexical))
      /\ Len(lexical) \in Nat /\ HitsOf(c) \in SUBSET (1 .. Len(lexical))
  BY <1>1, HitsAre
<1> QED BY <1>2, <1>3, EarliestIs

LEMMA FirstFoundIs ==
  ASSUME Gathered, NEW c \in chunked
  PROVE  FirstFound(c) \in Nat /\ Len(lexical) \in Nat /\ FirstFound(c) <= Len(lexical) + 1
         /\ (c \in Collapsed <=> FirstFound(c) <= Len(lexical))
<1>1. /\ c \in Collapsed <=> HitsOf(c) # {}
      /\ FirstFound(c) = Earliest(HitsOf(c), Len(lexical))
      /\ Len(lexical) \in Nat /\ HitsOf(c) \in SUBSET (1 .. Len(lexical))
  BY HitsAre
<1> QED BY <1>1, EarliestIs

\* What was found earlier by its words has the better rank.
LEMMA LexicalWeight ==
  ASSUME Gathered, NEW c \in chunked, NEW e \in chunked, FirstFound(c) <= FirstFound(e)
  PROVE  LET a == Reciprocal(LexicalRank(c))  x == Reciprocal(LexicalRank(e))
         IN  /\ a \in Reciprocals /\ x \in Reciprocals /\ AsMuch(a, x)
             /\ FirstFound(c) < FirstFound(e) => Exceeds(a, x)
<1> DEFINE Upto(b) == {f \in Collapsed : RawRank(f) <= RawRank(b)}
           Rank(b) == Cardinality(Upto(b))
<1>1. \A b \in Collapsed : b \in chunked /\ RawRank(b) = FirstFound(b) /\ FirstFound(b) \in Nat
  BY CollapsedAre, RawRankIs
<1>2. ASSUME NEW b \in Collapsed
      PROVE  IsFiniteSet(Upto(b)) /\ Rank(b) \in Nat \ {0}
  <2>1. IsFiniteSet(Upto(b))
    BY CollapsedAre, FS_Subset
  <2>2. b \in Upto(b)
    BY <1>1
  <2> QED BY <2>1, <2>2, FS_CardinalityType, FS_EmptySet
<1>3. RrfK \in Nat /\ NoRank \notin Nat
  BY RetrievalAssumption
<1>4. ASSUME NEW b \in Collapsed
      PROVE  Reciprocal(LexicalRank(b)) = <<1, RrfK + Rank(b)>>
  BY <1>2, <1>3 DEF Reciprocal, LexicalRank
<1>5. \A b : b \notin Collapsed => Reciprocal(LexicalRank(b)) = <<0, 1>>
  BY DEF Reciprocal, LexicalRank
<1>6. FirstFound(c) \in Nat /\ FirstFound(e) \in Nat /\ (e \in Collapsed => c \in Collapsed)
      /\ (FirstFound(c) < FirstFound(e) => c \in Collapsed)
  BY FirstFoundIs
<1>7. ASSUME e \in Collapsed
      PROVE  Rank(c) <= Rank(e) /\ (FirstFound(c) < FirstFound(e) => Rank(c) < Rank(e))
  <2>1. c \in Collapsed /\ Upto(c) \in SUBSET Upto(e)
    BY <1>1, <1>6, <1>7
  <2>2. IsFiniteSet(Upto(e)) /\ Rank(c) \in Nat /\ Rank(e) \in Nat /\ e \in Upto(e)
    BY <1>1, <1>2, <1>7, <2>1
  <2>3. Rank(c) <= Rank(e) /\ (Rank(e) = Rank(c) => Upto(e) = Upto(c))
    BY <2>1, <2>2, FS_Subset
  <2>4. FirstFound(c) < FirstFound(e) => e \notin Upto(c)
    BY <1>1, <1>6, <1>7, <2>1
  <2>5. FirstFound(c) < FirstFound(e) => Rank(c) # Rank(e)
    BY <2>2, <2>3, <2>4
  <2> QED BY <2>2, <2>3, <2>5
<1> HIDE DEF Rank
<1>8. CASE e \in Collapsed
  <2>1. c \in Collapsed
    BY <1>6, <1>8
  <2>2. Rank(c) \in Nat \ {0} /\ Rank(e) \in Nat \ {0}
    BY <1>2, <1>8, <2>1 DEF Rank
  <2>3. Reciprocal(LexicalRank(c)) = <<1, RrfK + Rank(c)>> /\ Reciprocal(LexicalRank(e)) = <<1, RrfK + Rank(e)>>
    BY <1>4, <1>8, <2>1
  <2>4. RrfK + Rank(c) \in Nat \ {0} /\ RrfK + Rank(e) \in Nat \ {0}
    BY <1>3, <2>2
  <2>5. RrfK + Rank(c) <= RrfK + Rank(e) /\ (FirstFound(c) < FirstFound(e) => RrfK + Rank(c) < RrfK + Rank(e))
    BY <1>3, <1>7, <1>8, <2>2
  <2> QED BY <2>3, <2>4, <2>5 DEF Reciprocals, AsMuch, Exceeds
<1>9. CASE e \notin Collapsed
  <2>1. Reciprocal(LexicalRank(e)) = <<0, 1>>
    BY <1>5, <1>9
  <2>2. CASE c \in Collapsed
    <3>1. Rank(c) \in Nat \ {0}
      BY <1>2, <2>2 DEF Rank
    <3>2. Reciprocal(LexicalRank(c)) = <<1, RrfK + Rank(c)>> /\ RrfK + Rank(c) \in Nat \ {0}
      BY <1>3, <1>4, <2>2, <3>1
    <3> QED BY <2>1, <3>2 DEF Reciprocals, AsMuch, Exceeds
  <2>3. CASE c \notin Collapsed
    <3>1. Reciprocal(LexicalRank(c)) = <<0, 1>> /\ ~(FirstFound(c) < FirstFound(e))
      BY <1>5, <1>6, <2>3
    <3> QED BY <2>1, <3>1 DEF Reciprocals, AsMuch
  <2> QED BY <2>2, <2>3
<1> QED BY <1>8, <1>9

\* And what was found earlier by its meaning.
LEMMA SemanticWeight ==
  ASSUME Gathered, NEW c, NEW e, RankOf(c) <= RankOf(e)
  PROVE  LET a == Reciprocal(SemanticRank(c))  x == Reciprocal(SemanticRank(e))
         IN  /\ a \in Reciprocals /\ x \in Reciprocals /\ AsMuch(a, x)
             /\ RankOf(c) < RankOf(e) => Exceeds(a, x) /\ Contains(semantic, c)
             /\ Contains(semantic, e) => Contains(semantic, c)
<1>1. Len(semantic) \in Nat /\ DOMAIN semantic = 1 .. Len(semantic)
  BY ListIs DEF Gathered
<1>2. \A i, j \in DOMAIN semantic : semantic[i] = semantic[j] => i = j
  BY DEF Gathered, Lists
<1> DEFINE Spots(b) == {n \in DOMAIN semantic : semantic[n] = b}
<1>3. ASSUME NEW b
      PROVE  /\ RankOf(b) \in Nat /\ RankOf(b) <= Len(semantic) + 1
             /\ Contains(semantic, b) <=> RankOf(b) <= Len(semantic)
             /\ Contains(semantic, b) => RankOf(b) \in DOMAIN semantic /\ semantic[RankOf(b)] = b
  <2>1. Spots(b) \in SUBSET (1 .. Len(semantic))
    BY <1>1
  <2>2. RankOf(b) = Earliest(Spots(b), Len(semantic))
    BY DEF RankOf, Earliest
  <2>3. Contains(semantic, b) <=> Spots(b) # {}
    BY DEF Contains
  <2>4. /\ RankOf(b) \in 1 .. Len(semantic) + 1
        /\ (Spots(b) # {}) <=> RankOf(b) <= Len(semantic)
        /\ Spots(b) # {} => RankOf(b) \in Spots(b)
    BY <1>1, <2>1, <2>2, EarliestIs
  <2> QED BY <1>1, <2>3, <2>4
<1>4. ASSUME NEW b, Contains(semantic, b) PROVE SemanticRank(b) = RankOf(b)
  BY <1>2, <1>3, <1>4 DEF SemanticRank
<1>5. RrfK \in Nat \ {0} /\ NoRank \notin Nat
  BY RetrievalAssumption
<1>6. \A b : Contains(semantic, b) => Reciprocal(SemanticRank(b)) = <<1, RrfK + RankOf(b)>>
  BY <1>3, <1>4, <1>5 DEF Reciprocal
<1>7. \A b : ~Contains(semantic, b) => Reciprocal(SemanticRank(b)) = <<0, 1>>
  BY DEF Reciprocal, SemanticRank
<1>8. /\ Contains(semantic, e) => Contains(semantic, c)
      /\ RankOf(c) < RankOf(e) => Contains(semantic, c)
  BY <1>1, <1>3
<1>9. RankOf(c) \in Nat /\ RankOf(e) \in Nat /\ RrfK + RankOf(c) \in Nat \ {0} /\ RrfK + RankOf(e) \in Nat \ {0}
  BY <1>3, <1>5
<1>10. RrfK + RankOf(c) <= RrfK + RankOf(e)
       /\ (RankOf(c) < RankOf(e) => RrfK + RankOf(c) < RrfK + RankOf(e))
  BY <1>5, <1>9
<1>11. CASE Contains(semantic, e)
  BY <1>6, <1>8, <1>9, <1>10, <1>11 DEF Reciprocals, AsMuch, Exceeds
<1>12. CASE ~Contains(semantic, e) /\ Contains(semantic, c)
  BY <1>6, <1>7, <1>9, <1>12 DEF Reciprocals, AsMuch, Exceeds
<1>13. CASE ~Contains(semantic, e) /\ ~Contains(semantic, c)
  BY <1>7, <1>8, <1>13 DEF Reciprocals, AsMuch
<1> QED BY <1>11, <1>12, <1>13

\* What both indexes found earlier is ahead.
LEMMA BetterIsAhead ==
  ASSUME Gathered, NEW c \in chunked, NEW e \in chunked, Better(c, e)
  PROVE  /\ Ahead(c, e)
         /\ e \in Collapsed \cup ToSet(semantic) => c \in Collapsed \cup ToSet(semantic)
<1>1. FirstFound(c) <= FirstFound(e) /\ RankOf(c) <= RankOf(e)
      /\ (FirstFound(c) < FirstFound(e) \/ RankOf(c) < RankOf(e))
  BY DEF Better
<1> DEFINE a == Reciprocal(LexicalRank(c))
           b == Reciprocal(SemanticRank(c))
           x == Reciprocal(LexicalRank(e))
           y == Reciprocal(SemanticRank(e))
<1>2. a \in Reciprocals /\ x \in Reciprocals /\ AsMuch(a, x)
      /\ (FirstFound(c) < FirstFound(e) => Exceeds(a, x))
  BY <1>1, LexicalWeight
<1>3. b \in Reciprocals /\ y \in Reciprocals /\ AsMuch(b, y)
      /\ (RankOf(c) < RankOf(e) => Exceeds(b, y))
      /\ (Contains(semantic, e) => Contains(semantic, c))
  BY <1>1, SemanticWeight
<1>4. Score(c) = <<a[1] * b[2] + b[1] * a[2], a[2] * b[2]>>
      /\ Score(e) = <<x[1] * y[2] + y[1] * x[2], x[2] * y[2]>>
  BY DEF Score
<1> HIDE DEF a, b, x, y
<1>5. (a[1] * b[2] + b[1] * a[2]) * (x[2] * y[2]) > (x[1] * y[2] + y[1] * x[2]) * (a[2] * b[2])
  BY <1>1, <1>2, <1>3, SumExceeds
<1>6. Ahead(c, e)
  BY <1>4, <1>5 DEF Ahead
<1>7. e \in Collapsed => c \in Collapsed
  BY <1>1, FirstFoundIs
<1>8. \A z : z \in ToSet(semantic) <=> Contains(semantic, z)
  BY DEF ToSet, Contains
<1> QED BY <1>3, <1>6, <1>7, <1>8

-----------------------------------------------------------------------------
(* What a search answers.                                                   *)

Passages == [doc : Documents, first : Nat, last : Nat, matched : SUBSET Nat, rank : Nat]

\* A passage is a run of segments, and what is matched in it has a word asked for.
Cites(p) ==
  /\ p.first \in DOMAIN indexed[p.doc] /\ p.last \in DOMAIN indexed[p.doc] /\ p.first <= p.last
  /\ p.matched \subseteq Members(p)
  /\ \A i \in p.matched : Asked \cap ToSet(Segment(p.doc, i).text) # {}

\* No two passages begin at one segment.
Different(R) == \A m, n \in DOMAIN R : R[m].doc = R[n].doc /\ R[m].first = R[n].first => m = n

\* An answer, whatever its order.
Truthful(R) ==
  /\ R \in Seq(Passages) /\ Len(R) <= query.limit /\ Different(R)
  /\ \A n \in DOMAIN R : Cites(R[n]) /\ InScope(R[n].doc, Speakers(R[n]))

\* What both indexes found earlier comes first.
Fair(R) ==
  \A c, e \in chunked : Better(c, e) =>
    \A k \in DOMAIN R : R[k].doc = e.doc /\ R[k].first = e.first =>
      \E m \in DOMAIN R : R[m].doc = c.doc /\ R[m].first = c.first /\ R[m].rank < R[k].rank

LEMMA PassageIs ==
  ASSUME NEW c, NEW M, NEW n
  PROVE  LET p == Passage(c, M, n)
         IN  /\ p.doc = c.doc /\ p.first = c.first /\ p.last = c.last /\ p.matched = M /\ p.rank = n
             /\ Members(p) = Members(c) /\ Speakers(p) = Speakers(c)
BY DEF Passage, Members, Speakers

\* Another order of an answer is as sound and as fair.
LEMMA FinalOrderKeeps ==
  ASSUME NEW R, NEW r \in FinalOrder(R), Truthful(R), query.limit \in Nat
  PROVE  Truthful(r) /\ (Fair(R) => Fair(r))
<1>1. CASE r = R
  BY <1>1
<1>2. CASE r \in SetToSeqs(ToSet(R))
  <2>1. R \in Seq(Passages) /\ Len(R) \in Nat /\ DOMAIN R = 1 .. Len(R)
    BY LenProperties DEF Truthful
  <2>2. ToSet(R) = {R[n] : n \in DOMAIN R} /\ IsFiniteSet(DOMAIN R) /\ Cardinality(DOMAIN R) = Len(R)
    <3>1. IsFiniteSet(1 .. Len(R)) /\ Cardinality(1 .. Len(R)) = Len(R)
      BY <2>1, PlacesFinite
    <3> QED BY <2>1, <3>1 DEF ToSet
  <2> DEFINE g == [n \in DOMAIN R |-> R[n]]
  <2>3. g \in Surjection(DOMAIN R, ToSet(R))
    BY <2>2 DEF Surjection
  <2>4. IsFiniteSet(ToSet(R)) /\ Cardinality(ToSet(R)) <= Len(R)
    BY <2>2, <2>3, FS_Surjection
  <2>5. /\ Lists(r, ToSet(R), Cardinality(ToSet(R))) /\ Len(r) = Cardinality(ToSet(R))
        /\ \A x \in ToSet(R) : \E n \in DOMAIN r : r[n] = x
    BY <1>2, <2>4, PermutationIs
  <2>6. ToSet(R) \in SUBSET Passages
    BY <2>1, <2>2, ElementOfSeq
  <2>7. r \in Seq(Passages) /\ Len(r) \in Nat /\ DOMAIN r = 1 .. Len(r) /\ Len(r) <= query.limit
    <3>1. r \in Seq(ToSet(R)) /\ Len(R) <= query.limit
      BY <2>5 DEF Lists, Truthful
    <3>2. r \in Seq(Passages) /\ Len(r) \in Nat /\ DOMAIN r = 1 .. Len(r)
      BY <2>6, <3>1, LenProperties, SeqMonotonic
    <3> QED BY <2>1, <2>4, <2>5, <3>1, <3>2
  <2>8. ASSUME NEW n \in DOMAIN r PROVE \E m \in DOMAIN R : r[n] = R[m]
    <3>1. r[n] \in ToSet(R)
      BY <2>5, ListIs
    <3> QED BY <2>2, <3>1
  <2>9. Different(r)
    <3> SUFFICES ASSUME NEW m \in DOMAIN r, NEW n \in DOMAIN r, r[m].doc = r[n].doc, r[m].first = r[n].first
                 PROVE  m = n
      BY DEF Different
    <3>1. PICK i \in DOMAIN R : r[m] = R[i]
      BY <2>8
    <3>2. PICK j \in DOMAIN R : r[n] = R[j]
      BY <2>8
    <3>3. i = j
      BY <3>1, <3>2 DEF Truthful, Different
    <3> QED BY <2>5, <3>1, <3>2, <3>3 DEF Lists
  <2>10. ASSUME NEW n \in DOMAIN r PROVE Cites(r[n]) /\ InScope(r[n].doc, Speakers(r[n]))
    <3>1. PICK m \in DOMAIN R : r[n] = R[m]
      BY <2>8
    <3>2. Cites(R[m]) /\ InScope(R[m].doc, Speakers(R[m]))
      BY DEF Truthful
    <3> QED BY <3>1, <3>2
  <2>11. ASSUME Fair(R) PROVE Fair(r)
    <3> SUFFICES ASSUME NEW c \in chunked, NEW e \in chunked, Better(c, e),
                        NEW k \in DOMAIN r, r[k].doc = e.doc, r[k].first = e.first
                 PROVE  \E m \in DOMAIN r : r[m].doc = c.doc /\ r[m].first = c.first /\ r[m].rank < r[k].rank
      BY DEF Fair
    <3>1. PICK j \in DOMAIN R : r[k] = R[j]
      BY <2>8
    <3>2. PICK i \in DOMAIN R : R[i].doc = c.doc /\ R[i].first = c.first /\ R[i].rank < R[j].rank
      BY <2>11, <3>1 DEF Fair
    <3>3. PICK m \in DOMAIN r : r[m] = R[i]
      BY <2>2, <2>5
    <3> QED BY <3>1, <3>2, <3>3
  <2> QED BY <2>7, <2>9, <2>10, <2>11 DEF Truthful
<1> QED BY <1>1, <1>2 DEF FinalOrder, Sorted

\* Passages of different chunks that pass the filters.
LEMMA ChunksAreSound ==
  ASSUME Corpus, NEW s, Lists(s, chunked, query.limit), NEW M,
         \A n \in DOMAIN s : /\ M[n] \subseteq Members(s[n]) /\ InScope(s[n].doc, Speakers(s[n]))
                             /\ \A i \in M[n] : Asked \cap ToSet(Segment(s[n].doc, i).text) # {}
  PROVE  Truthful([n \in DOMAIN s |-> Passage(s[n], M[n], n)])
<1> DEFINE R == [n \in DOMAIN s |-> Passage(s[n], M[n], n)]
<1>1. Len(s) \in Nat /\ DOMAIN s = 1 .. Len(s) /\ \A n \in DOMAIN s : s[n] \in chunked
  BY ListIs
<1>2. ASSUME NEW n \in DOMAIN s
      PROVE  /\ R[n].doc = s[n].doc /\ R[n].first = s[n].first /\ R[n].last = s[n].last
             /\ R[n].matched = M[n] /\ Members(R[n]) = Members(s[n]) /\ Speakers(R[n]) = Speakers(s[n])
  BY PassageIs
<1>3. ASSUME NEW n \in DOMAIN s PROVE R[n] \in Passages
  <2>1. s[n].doc \in Documents /\ s[n].first \in Nat /\ s[n].last \in Nat /\ n \in Nat
    BY <1>1, ChunkIs
  <2>2. M[n] \in SUBSET Nat
    BY <2>1 DEF Members
  <2> QED BY <2>1, <2>2 DEF Passages, Passage
<1>4. R \in Seq(Passages) /\ Len(R) = Len(s) /\ DOMAIN R = DOMAIN s
  BY <1>1, <1>3
<1>5. Different(R)
  <2> SUFFICES ASSUME NEW m \in DOMAIN s, NEW n \in DOMAIN s, R[m].doc = R[n].doc, R[m].first = R[n].first
               PROVE  m = n
    BY <1>4 DEF Different
  <2>1. s[m] = s[n]
    BY <1>1, <1>2, ChunkKey
  <2> QED BY <2>1 DEF Lists
<1>6. ASSUME NEW n \in DOMAIN s PROVE Cites(R[n]) /\ InScope(R[n].doc, Speakers(R[n]))
  BY <1>1, <1>2, ChunkIs DEF Cites
<1> HIDE DEF R
<1>7. Len(s) <= query.limit
  BY DEF Lists
<1>8. Truthful(R)
  BY <1>4, <1>5, <1>6, <1>7 DEF Truthful
<1> QED BY <1>8 DEF R

SearchInv ==
  /\ Gathered
  /\ pc \in {"lexical", "semantic", "answer"} => results = <<>> /\ located = <<>>
  /\ Truthful(results) /\ (mode = "hybrid" /\ pc \in {"locate", "shown", "refused"} => Fair(results))
  /\ located \in Seq(ToSet(located)) /\ Len(located) <= Len(results)
  /\ ShowsWhatItFound

LEMMA NothingIsSound == ASSUME Corpus PROVE Truthful(<<>>)
BY LimitIs DEF Truthful, Different

LEMMA NothingIsListed == ASSUME NEW S, NEW n \in Nat PROVE Lists(<<>>, S, n)
BY DEF Lists

LEMMA SearchInvInit == RetrievalInit => SearchInv
<1> SUFFICES ASSUME RetrievalInit PROVE SearchInv
  OBVIOUS
<1>1. Corpus
  BY CorpusInit
<1>2. lexical = <<>> /\ semantic = <<>> /\ results = <<>> /\ located = <<>> /\ pc # "refused"
  BY DEF RetrievalInit
<1>3. Gathered
  BY <1>1, <1>2, LimitIs, NothingIsListed DEF Gathered
<1>4. ShowsWhatItFound
  BY <1>2 DEF ShowsWhatItFound
<1>5. <<>> \in Seq(ToSet(<<>>)) /\ Len(<<>>) <= Len(<<>>)
  OBVIOUS
<1>6. pc \in {"lexical", "semantic"}
  BY DEF RetrievalInit
<1> QED BY <1>1, <1>2, <1>3, <1>4, <1>5, <1>6, NothingIsSound DEF SearchInv

\* A lexical answer: each passage is a segment.
LEMMA LexicalAnswer ==
  ASSUME Gathered, mode = "lexical"
  PROVE  Truthful([n \in DOMAIN lexical |->
           Passage([doc |-> lexical[n][1], first |-> lexical[n][2], last |-> lexical[n][2]], {lexical[n][2]}, n)])
<1> DEFINE C(n) == [doc |-> lexical[n][1], first |-> lexical[n][2], last |-> lexical[n][2]]
           R == [n \in DOMAIN lexical |-> Passage(C(n), {lexical[n][2]}, n)]
<1>1. /\ Len(lexical) \in Nat /\ DOMAIN lexical = 1 .. Len(lexical) /\ Len(lexical) <= query.limit
      /\ \A n \in DOMAIN lexical : lexical[n] \in Matching
  BY ListIs, LimitIs DEF Gathered, Lists
<1>2. ASSUME NEW n \in DOMAIN lexical
      PROVE  /\ lexical[n] = <<lexical[n][1], lexical[n][2]>>
             /\ lexical[n][1] \in Documents /\ lexical[n][2] \in DOMAIN indexed[lexical[n][1]] /\ lexical[n][2] \in Nat
             /\ SegmentMatches(lexical[n])
  <2>1. PICK d \in Documents : \E i \in DOMAIN indexed[d] : lexical[n] = <<d, i>>
    BY <1>1 DEF Matching, AllSegments
  <2>2. indexed[d] \in Transcripts
    BY DEF Gathered, Corpus
  <2>3. DOMAIN indexed[d] = 1 .. Len(indexed[d]) /\ Len(indexed[d]) \in Nat
    BY <2>2, TranscriptIs
  <2>4. SegmentMatches(lexical[n])
    BY <1>1 DEF Matching
  <2> QED BY <2>1, <2>3, <2>4
<1>3. ASSUME NEW n \in DOMAIN lexical
      PROVE  /\ R[n].doc = lexical[n][1] /\ R[n].first = lexical[n][2] /\ R[n].last = lexical[n][2]
             /\ R[n].matched = {lexical[n][2]} /\ Members(R[n]) = {lexical[n][2]}
             /\ Speakers(R[n]) = {Segment(lexical[n][1], lexical[n][2]).speaker}
  <2>1. R[n] = Passage(C(n), {lexical[n][2]}, n)
    OBVIOUS
  <2>2. R[n].doc = lexical[n][1] /\ R[n].first = lexical[n][2] /\ R[n].last = lexical[n][2] /\ R[n].matched = {lexical[n][2]}
    BY <2>1 DEF Passage
  <2>3. Members(R[n]) = {lexical[n][2]}
    BY <1>2, <2>2 DEF Members
  <2> HIDE DEF R
  <2>4. Speakers(R[n]) = {Segment(lexical[n][1], lexical[n][2]).speaker}
    BY <2>2, <2>3 DEF Speakers
  <2> QED BY <2>2, <2>3, <2>4
<1>4. ASSUME NEW n \in DOMAIN lexical PROVE R[n] \in Passages
  BY <1>1, <1>2 DEF Passages, Passage
<1>5. R \in Seq(Passages) /\ Len(R) = Len(lexical) /\ DOMAIN R = DOMAIN lexical
  BY <1>1, <1>4
<1>6. Different(R)
  <2> SUFFICES ASSUME NEW m \in DOMAIN lexical, NEW n \in DOMAIN lexical, R[m].doc = R[n].doc, R[m].first = R[n].first
               PROVE  m = n
    BY <1>5 DEF Different
  <2>1. lexical[m][1] = lexical[n][1] /\ lexical[m][2] = lexical[n][2]
    BY <1>3
  <2>2. lexical[m] = lexical[n]
    BY <1>2, <2>1
  <2> QED BY <2>2 DEF Gathered, Lists
<1>7. ASSUME NEW n \in DOMAIN lexical PROVE Cites(R[n]) /\ InScope(R[n].doc, Speakers(R[n]))
  <2>1. /\ Asked \cap ToSet(Segment(lexical[n][1], lexical[n][2]).text) # {}
        /\ InScope(lexical[n][1], {Segment(lexical[n][1], lexical[n][2]).speaker})
    BY <1>2 DEF SegmentMatches
  <2>2. Cites(R[n])
    BY <1>2, <1>3, <2>1 DEF Cites
  <2> QED BY <1>3, <2>1, <2>2
<1> HIDE DEF R
<1>8. Truthful(R)
  BY <1>1, <1>5, <1>6, <1>7 DEF Truthful
<1> QED BY <1>8 DEF R

LEMMA SemanticAnswer ==
  ASSUME Gathered, mode = "semantic"
  PROVE  Truthful([n \in DOMAIN semantic |-> Passage(semantic[n], {}, n)])
<1>1. Lists(semantic, chunked, query.limit)
  <2>1. Limit = query.limit /\ Fitting \in SUBSET chunked
    BY LimitIs DEF Gathered, Fitting
  <2>2. semantic \in Seq(chunked)
    BY <2>1, SeqMonotonic DEF Gathered, Lists
  <2> QED BY <2>1, <2>2 DEF Gathered, Lists
<1> DEFINE M == [n \in DOMAIN semantic |-> {}]
<1>2. ASSUME NEW n \in DOMAIN semantic
      PROVE  /\ M[n] \subseteq Members(semantic[n]) /\ InScope(semantic[n].doc, Speakers(semantic[n]))
             /\ \A i \in M[n] : Asked \cap ToSet(Segment(semantic[n].doc, i).text) # {}
  <2>1. ChunkMatches(semantic[n])
    BY ListIs DEF Gathered, Fitting
  <2> QED BY <2>1 DEF ChunkMatches
<1> DEFINE R == [n \in DOMAIN semantic |-> Passage(semantic[n], M[n], n)]
<1>3. [n \in DOMAIN semantic |-> Passage(semantic[n], {}, n)] = R
  OBVIOUS
<1> HIDE DEF M
<1>4. Truthful(R)
  BY <1>1, <1>2, ChunksAreSound DEF Gathered
<1> QED BY <1>3, <1>4

LEMMA HybridAnswer ==
  ASSUME Gathered, NEW s \in Fused
  PROVE  LET R == [n \in DOMAIN s |-> Passage(s[n], MatchedIn(s[n]), n)]
         IN  Truthful(R) /\ Fair(R)
<1> DEFINE Found == Collapsed \cup ToSet(semantic)
           M == [n \in DOMAIN s |-> MatchedIn(s[n])]
           R == [n \in DOMAIN s |-> Passage(s[n], M[n], n)]
<1>1. Corpus /\ query.limit \in Nat
  BY LimitIs DEF Gathered
<1>2. \A n \in DOMAIN semantic : semantic[n] \in chunked /\ ChunkMatches(semantic[n])
  BY ListIs DEF Gathered, Fitting
<1>3. Found \in SUBSET chunked /\ IsFiniteSet(Found)
  <2>1. ToSet(semantic) \in SUBSET chunked
    BY <1>2 DEF ToSet
  <2>2. Found \in SUBSET chunked
    BY <2>1, CollapsedAre
  <2> QED BY <1>1, <2>2, ChunksFinite, FS_Subset
<1>4. PICK r \in SetToSeqs(Found) :
        /\ \A m, n \in DOMAIN r : Ahead(r[m], r[n]) => m < n
        /\ s = FirstOf(r, query.limit)
  BY DEF Fused, Sorted
<1>5. /\ Lists(r, Found, Cardinality(Found)) /\ r \in Seq(Found)
      /\ \A x \in Found : \E n \in DOMAIN r : r[n] = x
  BY <1>3, <1>4, PermutationIs DEF Lists
<1>6. Lists(s, Found, query.limit)
  BY <1>1, <1>4, <1>5, FirstLists
<1>7. /\ \A i \in DOMAIN s : i \in DOMAIN r /\ s[i] = r[i] /\ i <= query.limit
      /\ \A i \in DOMAIN r : i <= query.limit => i \in DOMAIN s
  <2>1. Len(s) \in Nat /\ DOMAIN s = 1 .. Len(s) /\ Len(s) <= query.limit
    BY <1>6, ListIs DEF Lists
  <2>2. \A i \in DOMAIN s : i <= query.limit
    BY <1>1, <2>1
  <2> QED BY <1>1, <1>4, <1>5, <2>2, FirstOfIs
<1>8. Lists(s, chunked, query.limit)
  BY <1>3, <1>6, SeqMonotonic DEF Lists
<1>9. ASSUME NEW n \in DOMAIN s
      PROVE  /\ s[n] \in chunked /\ M[n] \subseteq Members(s[n]) /\ InScope(s[n].doc, Speakers(s[n]))
             /\ \A i \in M[n] : Asked \cap ToSet(Segment(s[n].doc, i).text) # {}
  <2>1. s[n] \in Found /\ s[n] \in chunked
    BY <1>3, <1>6, ListIs
  <2>2. M[n] = {i \in Members(s[n]) : Contains(lexical, <<s[n].doc, i>>)}
    BY DEF MatchedIn
  <2>3. ASSUME NEW x, Contains(lexical, x) PROVE x \in AllSegments /\ SegmentMatches(x)
    <3>1. PICK k \in DOMAIN lexical : lexical[k] = x
      BY <2>3 DEF Contains
    <3> QED BY <3>1, ListIs DEF Gathered, Matching
  <2>4. ASSUME NEW i \in M[n] PROVE Asked \cap ToSet(Segment(s[n].doc, i).text) # {}
    <3>1. SegmentMatches(<<s[n].doc, i>>)
      BY <2>2, <2>3
    <3> QED BY <3>1 DEF SegmentMatches
  <2>5. CASE s[n] \in ToSet(semantic)
    <3>1. ChunkMatches(s[n])
      BY <1>2, <2>5 DEF ToSet
    <3> QED BY <2>1, <2>2, <2>4, <3>1 DEF ChunkMatches
  <2>6. CASE s[n] \in Collapsed
    <3>1. PICK k \in DOMAIN lexical : s[n] = ChunkOf(lexical[k])
      BY <2>6 DEF Collapsed
    <3> DEFINE x == lexical[k]
    <3>2. x \in AllSegments /\ SegmentMatches(x)
      BY ListIs DEF Gathered, Matching
    <3>3. s[n].doc = x[1] /\ x[2] \in Members(s[n])
      BY <1>1, <3>1, <3>2, ChunkOfIs
    <3> HIDE DEF x
    <3>4. InScope(x[1], {Segment(x[1], x[2]).speaker})
      BY <3>2 DEF SegmentMatches
    <3>5. Segment(x[1], x[2]).speaker \in Speakers(s[n])
      BY <3>3 DEF Speakers
    <3>6. InScope(s[n].doc, Speakers(s[n]))
      BY <3>3, <3>4, <3>5 DEF InScope
    <3> QED BY <2>1, <2>2, <2>4, <3>6
  <2> QED BY <2>1, <2>5, <2>6
<1>10. R = [n \in DOMAIN s |-> Passage(s[n], MatchedIn(s[n]), n)]
  OBVIOUS
<1> HIDE DEF M, Found
<1>11. Truthful(R)
  BY <1>1, <1>8, <1>9, ChunksAreSound
<1>12. Fair(R)
  <2>1. DOMAIN R = DOMAIN s
    OBVIOUS
  <2>2. \A n \in DOMAIN s : R[n].doc = s[n].doc /\ R[n].first = s[n].first /\ R[n].rank = n
    BY DEF Passage
  <2> HIDE DEF R
  <2> SUFFICES ASSUME NEW c \in chunked, NEW e \in chunked, Better(c, e),
                      NEW k \in DOMAIN R, R[k].doc = e.doc, R[k].first = e.first
               PROVE  \E m \in DOMAIN R : R[m].doc = c.doc /\ R[m].first = c.first /\ R[m].rank < R[k].rank
    BY DEF Fair
  <2>3. s[k] = e /\ e \in Found
    <3>1. s[k] \in chunked /\ s[k].doc = e.doc /\ s[k].first = e.first
      BY <1>9, <2>1, <2>2
    <3>2. s[k] = e
      BY <1>1, <3>1, ChunkKey
    <3> QED BY <1>6, <2>1, <3>2, ListIs
  <2>4. Ahead(c, e) /\ c \in Found
    BY <2>3, BetterIsAhead DEF Found
  <2>5. PICK m \in DOMAIN r : r[m] = c
    BY <1>5, <2>4
  <2>6. k \in DOMAIN r /\ r[k] = e /\ k <= query.limit
    BY <1>7, <2>1, <2>3
  <2>7. m < k
    BY <1>4, <2>4, <2>5, <2>6
  <2>8. m \in Nat /\ k \in Nat
    BY <1>5, <2>6, LenProperties
  <2>9. m \in DOMAIN s /\ s[m] = c
    BY <1>1, <1>7, <2>5, <2>6, <2>7, <2>8
  <2> QED BY <2>1, <2>2, <2>7, <2>9
<1> QED BY <1>10, <1>11, <1>12

LEMMA AnswerIs ==
  ASSUME Gathered, Answer
  PROVE  Truthful(results') /\ (mode = "hybrid" => Fair(results'))
<1>1. query.limit \in Nat
  BY LimitIs DEF Gathered
<1>2. CASE /\ mode = "lexical"
           /\ results' = [n \in DOMAIN lexical |->
                Passage([doc |-> lexical[n][1], first |-> lexical[n][2], last |-> lexical[n][2]], {lexical[n][2]}, n)]
  BY <1>2, LexicalAnswer
<1>3. CASE /\ mode = "semantic"
           /\ results' \in FinalOrder([n \in DOMAIN semantic |-> Passage(semantic[n], {}, n)])
  BY <1>1, <1>3, SemanticAnswer, FinalOrderKeeps
<1>4. ASSUME NEW s \in Fused, results' \in FinalOrder([n \in DOMAIN s |-> Passage(s[n], MatchedIn(s[n]), n)])
      PROVE  Truthful(results') /\ Fair(results')
  BY <1>1, <1>4, HybridAnswer, FinalOrderKeeps
<1> QED BY <1>2, <1>3, <1>4 DEF Answer

-----------------------------------------------------------------------------
(* The evidence of a passage.                                               *)

\* A place in a transcript before or at another.
NoLater(m, n) == m[1] < n[1] \/ (m[1] = n[1] /\ m[2] <= n[2])

LEMMA FirstPlace ==
  ASSUME NEW S \in SUBSET (Nat \X Nat), S # {}
  PROVE  \E m \in S : \A n \in S : NoLater(m, n)
<1> DEFINE Rows == {m[1] : m \in S}
<1>1. Rows \in SUBSET Nat /\ Rows # {}
  OBVIOUS
<1>2. PICK i \in Rows : \A j \in Rows : i <= j
  BY <1>1, LeastNumber
<1> DEFINE Cols == {m[2] : m \in {x \in S : x[1] = i}}
<1>3. Cols \in SUBSET Nat /\ Cols # {}
  BY <1>2
<1>4. PICK k \in Cols : \A l \in Cols : k <= l
  BY <1>3, LeastNumber
<1>5. PICK m \in S : m[1] = i /\ m[2] = k
  BY <1>4
<1>6. ASSUME NEW n \in S PROVE NoLater(m, n)
  <2>1. n[1] \in Rows /\ n[1] \in Nat /\ i \in Nat /\ i <= n[1]
    BY <1>1, <1>2
  <2>2. CASE n[1] = i
    <3>1. n[2] \in Cols
      BY <2>2
    <3> QED BY <1>4, <1>5, <2>2, <3>1 DEF NoLater
  <2>3. CASE n[1] # i
    BY <1>5, <2>1, <2>3 DEF NoLater
  <2> QED BY <2>2, <2>3
<1> QED BY <1>5, <1>6

\* In the transcript that was indexed a passage lies whole, is opened at a place
\* inside it, and has a word marked wherever it was found by one.
LEMMA PassageOpens ==
  ASSUME Corpus, NEW p \in Passages, Cites(p)
  PROVE  LET t == indexed[p.doc]
         IN  /\ p.last <= Len(t) /\ t[p.first].start <= Seek(p, t) /\ Seek(p, t) <= t[p.last].end
             /\ ~query.phrase => \A i \in p.matched : t[i].timed => Highlighted(t[i]) # {}
<1> DEFINE t == indexed[p.doc]
<1>1. p.doc \in Documents /\ p.first \in Nat /\ p.last \in Nat /\ p.matched \in SUBSET Nat
  BY DEF Passages
<1>2. t \in Transcripts
  BY <1>1 DEF Corpus
<1>3. p.first \in DOMAIN t /\ p.last \in DOMAIN t /\ p.first <= p.last
  BY DEF Cites
<1>4. ASSUME NEW i \in p.matched
      PROVE  i \in DOMAIN t /\ i \in Nat /\ p.first <= i /\ i <= p.last /\ Asked \cap ToSet(t[i].text) # {}
  <2>1. i \in p.first .. p.last /\ Asked \cap ToSet(t[i].text) # {}
    BY DEF Cites, Members, Segment
  <2> QED BY <1>1, <1>2, <1>3, <2>1, TranscriptIs
<1> HIDE DEF t
<1>5. /\ Len(t) \in Nat /\ DOMAIN t = 1 .. Len(t)
      /\ \A i \in DOMAIN t :
           /\ t[i].start \in Nat /\ t[i].end \in Nat /\ DOMAIN t[i].text = 1 .. Len(t[i].text)
           /\ Len(t[i].text) \in Nat /\ Len(t[i].text) = t[i].end - t[i].start
           /\ \A j \in DOMAIN t : i <= j => t[i].start <= t[j].start /\ t[i].end <= t[j].end
  BY <1>2, TranscriptIs
<1>6. p.last <= Len(t)
  BY <1>3, <1>5
<1>7. \A s : Highlighted(s) \in SUBSET DOMAIN s.text
  BY DEF Highlighted
<1> DEFINE S == Marks(p, t)
<1>8. \A m \in S : m = <<m[1], m[2]>> /\ m[1] \in p.matched /\ m[2] \in Highlighted(t[m[1]])
  BY DEF Marks
<1>9. ASSUME NEW m \in S
      PROVE  /\ m \in Nat \X Nat /\ m[1] \in p.matched /\ m[2] \in 1 .. Len(t[m[1]].text)
  <2>1. m = <<m[1], m[2]>> /\ m[1] \in p.matched /\ m[2] \in DOMAIN t[m[1]].text
    BY <1>7, <1>8
  <2>2. m[1] \in DOMAIN t /\ m[1] \in Nat
    BY <1>4, <2>1
  <2>3. m[2] \in 1 .. Len(t[m[1]].text) /\ Len(t[m[1]].text) \in Nat
    BY <1>5, <2>1, <2>2
  <2> QED BY <2>1, <2>2, <2>3
<1> HIDE DEF S
<1>10. t[p.first].start <= Seek(p, t) /\ Seek(p, t) <= t[p.last].end
  <2>1. CASE S = {}
    <3>1. Seek(p, t) = t[p.first].start
      BY <2>1 DEF Seek, S
    <3>2. t[p.first].start \in Nat /\ t[p.first].end \in Nat /\ t[p.last].end \in Nat
          /\ t[p.first].end - t[p.first].start \in Nat /\ t[p.first].end <= t[p.last].end
      BY <1>3, <1>5
    <3> QED BY <3>1, <3>2
  <2>2. CASE S # {}
    <3> DEFINE first == CHOOSE m \in S : \A n \in S : m[1] < n[1] \/ (m[1] = n[1] /\ m[2] <= n[2])
    <3>1. S \in SUBSET (Nat \X Nat)
      BY <1>9
    <3>2. \E m \in S : \A n \in S : m[1] < n[1] \/ (m[1] = n[1] /\ m[2] <= n[2])
      BY <2>2, <3>1, FirstPlace DEF NoLater
    <3>3. first \in S
      BY <3>2
    <3>4. Seek(p, t) = t[first[1]].start + first[2] - 1
      BY <2>2 DEF Seek, S
    <3> HIDE DEF first
    <3> DEFINE i == first[1]
               k == first[2]
    <3>5. i \in p.matched /\ k \in 1 .. Len(t[i].text)
      BY <1>9, <3>3
    <3> HIDE DEF i, k
    <3>6. i \in DOMAIN t /\ p.first <= i /\ i <= p.last
      BY <1>4, <3>5
    <3>7. /\ t[i].start \in Nat /\ t[i].end \in Nat /\ t[p.first].start \in Nat /\ t[p.last].end \in Nat
          /\ Len(t[i].text) = t[i].end - t[i].start /\ Len(t[i].text) \in Nat
          /\ t[p.first].start <= t[i].start /\ t[i].end <= t[p.last].end
      BY <1>3, <1>5, <3>6
    <3>8. Seek(p, t) = t[i].start + k - 1
      BY <3>4 DEF i, k
    <3> QED BY <3>5, <3>7, <3>8
  <2> QED BY <2>1, <2>2
<1>11. ASSUME ~query.phrase, NEW i \in p.matched, t[i].timed PROVE Highlighted(t[i]) # {}
  <2>1. PICK k \in DOMAIN t[i].text : t[i].text[k] \in Asked
    BY <1>4 DEF ToSet
  <2>2. Highlighted(t[i]) = {j \in DOMAIN t[i].text : t[i].text[j] \in Asked}
    BY <1>11 DEF Highlighted
  <2> QED BY <2>1, <2>2
<1> QED BY <1>6, <1>10, <1>11 DEF t

-----------------------------------------------------------------------------
(* Every step of a search.                                                  *)

\* What a search asked, over what was indexed, stays as it is.
Asking == <<indexed, chunked, query, mode>>

LEMMA SameQuestion ==
  ASSUME UNCHANGED Asking
  PROVE  Matching' = Matching /\ Fitting' = Fitting /\ Limit' = Limit
<1>1. Limit' = Limit
  BY DEF Asking, Limit, CandidateLimit
<1>2. Matching' = Matching
  BY DEF Asking, Matching, AllSegments, SegmentMatches, Fits, InScope, Segment, Asked
<1>3. ASSUME NEW c PROVE ChunkMatches(c)' = ChunkMatches(c)
  BY DEF Asking, ChunkMatches, Fits, InScope, Speakers, ChunkText, Segment, Members, Asked
<1>4. Fitting' = Fitting
  BY <1>3 DEF Asking, Fitting
<1> QED BY <1>1, <1>2, <1>4

LEMMA SoundNext ==
  ASSUME UNCHANGED Asking, Truthful(results')
  PROVE  Truthful(results)'
BY DEF Asking, Truthful, Different, Cites, InScope, Speakers, Members, Segment, Asked

LEMMA FairNext ==
  ASSUME UNCHANGED Asking, UNCHANGED <<lexical, semantic>>, Fair(results')
  PROVE  Fair(results)'
BY DEF Asking, Fair, Better, FirstFound, RankOf, Members

LEMMA CorpusNext ==
  ASSUME Corpus, UNCHANGED Asking, file' \in [Documents -> Transcripts]
  PROVE  Corpus'
BY DEF Asking, Corpus, Cut, Members

LEMMA GatheredNext ==
  ASSUME Gathered, UNCHANGED Asking, UNCHANGED <<lexical, semantic>>, file' \in [Documents -> Transcripts]
  PROVE  Gathered'
<1>1. Corpus' /\ Matching' = Matching /\ Fitting' = Fitting /\ Limit' = Limit
  BY CorpusNext, SameQuestion DEF Gathered
<1> QED BY <1>1 DEF Gathered, Lists

LEMMA LexicalStep ==
  ASSUME SearchInv, SearchLexical
  PROVE  SearchInv'
<1>1. Corpus /\ Limit \in Nat /\ file \in [Documents -> Transcripts]
  BY LimitIs DEF SearchInv, Gathered, Corpus
<1>2. UNCHANGED Asking /\ UNCHANGED <<file, semantic, results, located>> /\ pc' \in {"semantic", "answer"} /\ pc = "lexical"
  BY DEF SearchLexical, Asking
<1>3. lexical' \in Orders(Matching) \/ lexical' \in InTimeline(Matching)
  BY DEF SearchLexical, Matching
<1>4. IsFiniteSet(Matching)
  BY <1>1, SegmentsFinite, FS_Subset DEF Matching
<1>5. Lists(lexical', Matching, Limit)
  BY <1>1, <1>3, <1>4, OrdersList, TimelineLists
<1>6. Corpus' /\ Matching' = Matching /\ Fitting' = Fitting /\ Limit' = Limit
  BY <1>1, <1>2, CorpusNext, SameQuestion
<1>7. Gathered'
  BY <1>2, <1>5, <1>6 DEF SearchInv, Gathered, Lists
<1>8. results = <<>> /\ located = <<>>
  BY <1>2 DEF SearchInv
<1>9. Truthful(results)'
  BY <1>2, SoundNext DEF SearchInv
<1>10. ShowsWhatItFound'
  BY <1>2, <1>8 DEF ShowsWhatItFound
<1> QED BY <1>2, <1>7, <1>8, <1>9, <1>10 DEF SearchInv

LEMMA SemanticStep ==
  ASSUME SearchInv, SearchSemantic
  PROVE  SearchInv'
<1>1. Corpus /\ Limit \in Nat /\ file \in [Documents -> Transcripts]
  BY LimitIs DEF SearchInv, Gathered, Corpus
<1>2. UNCHANGED Asking /\ UNCHANGED <<file, lexical, results, located>> /\ pc' = "answer" /\ pc = "semantic"
  BY DEF SearchSemantic, Asking
<1>3. semantic' \in Orders(Fitting)
  BY DEF SearchSemantic, Fitting
<1>4. IsFiniteSet(Fitting)
  BY <1>1, ChunksFinite, FS_Subset DEF Fitting
<1>5. Lists(semantic', Fitting, Limit)
  BY <1>1, <1>3, <1>4, OrdersList
<1>6. Corpus' /\ Matching' = Matching /\ Fitting' = Fitting /\ Limit' = Limit
  BY <1>1, <1>2, CorpusNext, SameQuestion
<1>7. Gathered'
  BY <1>2, <1>5, <1>6 DEF SearchInv, Gathered, Lists
<1>8. results = <<>> /\ located = <<>>
  BY <1>2 DEF SearchInv
<1>9. Truthful(results)'
  BY <1>2, SoundNext DEF SearchInv
<1>10. ShowsWhatItFound'
  BY <1>2, <1>8 DEF ShowsWhatItFound
<1> QED BY <1>2, <1>7, <1>8, <1>9, <1>10 DEF SearchInv

LEMMA AnswerStep ==
  ASSUME SearchInv, Answer
  PROVE  SearchInv'
<1>1. Gathered /\ file \in [Documents -> Transcripts]
  BY DEF SearchInv, Gathered, Corpus
<1>2. UNCHANGED Asking /\ UNCHANGED <<file, lexical, semantic, located>> /\ pc' = "locate" /\ pc = "answer"
  BY DEF Answer, Asking
<1>3. Gathered'
  BY <1>1, <1>2, GatheredNext
<1>4. Truthful(results') /\ (mode = "hybrid" => Fair(results'))
  BY <1>1, AnswerIs
<1>5. Truthful(results)' /\ ((mode = "hybrid")' => Fair(results)')
  BY <1>2, <1>4, SoundNext, FairNext DEF Asking
<1>6. located = <<>>
  BY <1>2 DEF SearchInv
<1>7. ShowsWhatItFound'
  BY <1>2, <1>6 DEF ShowsWhatItFound
<1>8. (Len(located) <= Len(results))' /\ (located \in Seq(ToSet(located)))'
  <2>1. Len(results') \in Nat
    BY <1>4, LenProperties DEF Truthful
  <2> QED BY <1>2, <1>6, <2>1
<1> QED BY <1>2, <1>3, <1>5, <1>7, <1>8 DEF SearchInv

\* Evidence of a verified passage is appended; otherwise its file was replaced.
LEMMA LocateStep ==
  ASSUME SearchInv, Locate
  PROVE  SearchInv'
<1>1. Gathered /\ Corpus /\ file \in [Documents -> Transcripts]
  BY DEF SearchInv, Gathered, Corpus
<1>2. /\ UNCHANGED Asking /\ UNCHANGED <<file, lexical, semantic, results>>
      /\ pc = "locate" /\ Len(located) < Len(results)
  BY DEF Locate, Asking
<1>3. Gathered' /\ Truthful(results)'
  BY <1>1, <1>2, GatheredNext, SoundNext DEF SearchInv
<1>4. mode = "hybrid" => Fair(results)'
  BY <1>2, FairNext DEF SearchInv
<1>5. /\ Len(located) \in Nat /\ DOMAIN located = 1 .. Len(located) /\ Len(results) \in Nat
      /\ DOMAIN results = 1 .. Len(results)
  BY LenProperties DEF SearchInv, Truthful
<1> DEFINE k == Len(located) + 1
           p == results[k]
           t == IF p.doc \in loaded THEN indexed[p.doc] ELSE file[p.doc]
           seek == Seek(p, t)
           good == Verified(p.doc) /\ p.last <= Len(t) /\ t[p.first].start <= seek /\ seek <= t[p.last].end
           entry == [doc |-> p.doc, seek |-> seek, shown |-> [i \in Surroundings(p, t) |-> t[i]],
                     words |-> [i \in p.matched |-> Highlighted(t[i])]]
<1>6. /\ good => located' = Append(located, entry) /\ UNCHANGED pc
      /\ ~good => pc' = "refused" /\ UNCHANGED located
  BY DEF Locate
<1>7. k \in DOMAIN results /\ p \in Passages /\ Cites(p)
  BY <1>2, <1>5, ElementOfSeq DEF SearchInv, Truthful
<1>8. p.doc \in Documents
  BY <1>7 DEF Passages
<1>9. Verified(p.doc) => t = indexed[p.doc]
  BY DEF Verified
<1> HIDE DEF p, t
<1>10. Verified(p.doc) => /\ good
                          /\ ~query.phrase => \A i \in p.matched : t[i].timed => Highlighted(t[i]) # {}
  BY <1>1, <1>7, <1>9, PassageOpens
<1> HIDE DEF seek, entry
<1>11. CASE ~good
  <2>1. file[p.doc] # indexed[p.doc]
    BY <1>10, <1>11 DEF Verified
  <2>2. ShowsWhatItFound'
    BY <1>2, <1>6, <1>8, <1>11, <2>1 DEF SearchInv, ShowsWhatItFound, Asking, Segment
  <2> QED BY <1>2, <1>3, <1>4, <1>6, <1>11, <2>2 DEF SearchInv, Asking
<1>12. CASE good
  <2>1. located' = Append(located, entry) /\ pc' = pc
    BY <1>6, <1>12
  <2>2. /\ t = indexed[p.doc]
        /\ ~query.phrase => \A i \in p.matched : t[i].timed => Highlighted(t[i]) # {}
    BY <1>9, <1>10, <1>12
  <2>3. /\ \A i \in DOMAIN entry.shown : entry.shown[i] = Segment(p.doc, i)
        /\ Segment(p.doc, p.first).start <= entry.seek /\ entry.seek <= Segment(p.doc, p.last).end
        /\ ~query.phrase => \A i \in p.matched : Segment(p.doc, i).timed => entry.words[i] # {}
    BY <1>12, <2>2 DEF entry, Segment
  <2>4. /\ located' \in Seq(ToSet(located) \cup {entry}) /\ Len(located') = k /\ located'[k] = entry
        /\ \A n \in DOMAIN located : located'[n] = located[n]
    <3>1. located \in Seq(ToSet(located) \cup {entry})
      BY SeqMonotonic DEF SearchInv
    <3> QED BY <1>5, <2>1, <3>1, AppendProperties
  <2>5. DOMAIN located' = 1 .. k /\ \A n \in DOMAIN located' : n = k \/ n \in DOMAIN located
    BY <1>5, <2>4, LenProperties
  <2>6. located' \in Seq(ToSet(located'))
    <3>1. \A n \in 1 .. k : located'[n] \in ToSet(located')
      BY <2>5 DEF ToSet
    <3>2. located' = [n \in 1 .. k |-> located'[n]] /\ k \in Nat
      BY <1>5, <2>4, <2>5
    <3> QED BY <3>1, <3>2
  <2>7. Len(located') <= Len(results')
    BY <1>2, <1>5, <2>4
  <2>8. ShowsWhatItFound'
    <3> DEFINE Right(n, e) ==
          /\ \A i \in DOMAIN e.shown : e.shown[i] = Segment(results[n].doc, i)
          /\ Segment(results[n].doc, results[n].first).start <= e.seek
          /\ e.seek <= Segment(results[n].doc, results[n].last).end
          /\ ~query.phrase => \A i \in results[n].matched : Segment(results[n].doc, i).timed => e.words[i] # {}
    <3>1. \A n \in DOMAIN located : Right(n, located[n])
      BY DEF SearchInv, ShowsWhatItFound
    <3>2. Right(k, entry)
      BY <2>3 DEF p
    <3> HIDE DEF Right
    <3>3. \A n \in DOMAIN located' : Right(n, located'[n])
      BY <2>4, <2>5, <3>1, <3>2
    <3> QED BY <1>2, <2>1, <3>3 DEF Right, ShowsWhatItFound, Segment, Asking
  <2> QED BY <1>2, <1>3, <1>4, <2>1, <2>6, <2>7, <2>8 DEF SearchInv, Asking
<1> QED BY <1>11, <1>12

LEMMA ReplaceStep ==
  ASSUME SearchInv, ReplaceFile
  PROVE  SearchInv'
<1>1. /\ UNCHANGED Asking /\ UNCHANGED <<lexical, semantic, results, located, pc>> /\ pc = "locate"
      /\ file' \in [Documents -> Transcripts]
  BY DEF ReplaceFile, Asking, SearchInv, Gathered, Corpus
<1>2. Gathered' /\ Truthful(results)'
  BY <1>1, GatheredNext, SoundNext DEF SearchInv
<1>3. mode = "hybrid" => Fair(results)'
  BY <1>1, FairNext DEF SearchInv
<1>4. ShowsWhatItFound'
  BY <1>1 DEF SearchInv, ShowsWhatItFound, Asking, Segment
<1> QED BY <1>1, <1>2, <1>3, <1>4 DEF SearchInv, Asking

\* The last passage is shown, or nothing happens.
LEMMA ShownStep ==
  ASSUME SearchInv, Shown \/ UNCHANGED retrievalVars
  PROVE  SearchInv'
<1>1. /\ UNCHANGED Asking /\ UNCHANGED <<file, lexical, semantic, results, located>>
      /\ pc' = pc \/ (pc = "locate" /\ pc' = "shown")
  BY DEF Shown, retrievalVars, Asking
<1>2. file' \in [Documents -> Transcripts]
  BY <1>1 DEF SearchInv, Gathered, Corpus
<1>3. Gathered' /\ Truthful(results)' /\ (Fair(results) => Fair(results)')
  BY <1>1, <1>2, GatheredNext, SoundNext, FairNext DEF SearchInv
<1>4. ShowsWhatItFound'
  BY <1>1 DEF SearchInv, ShowsWhatItFound, Asking, Segment
<1> QED BY <1>1, <1>3, <1>4 DEF SearchInv, Asking

LEMMA SearchInvNext == SearchInv /\ [RetrievalNext]_retrievalVars => SearchInv'
BY LexicalStep, SemanticStep, AnswerStep, LocateStep, ReplaceStep, ShownStep DEF RetrievalNext

LEMMA SearchInvIsSound == SearchInv => AnswersAreEvidence
<1> SUFFICES ASSUME SearchInv PROVE AnswersAreEvidence
  OBVIOUS
<1>1. Truthful(results) /\ ShowsWhatItFound /\ (mode = "hybrid" /\ pc \in {"locate", "shown", "refused"} => Fair(results))
  BY DEF SearchInv
<1>2. ASSUME NEW n \in DOMAIN results PROVE Cardinality(Answers(results[n])) = 1
  <2>1. Answers(results[n]) = {n}
    BY <1>1 DEF Answers, Truthful, Different
  <2> QED BY <2>1, FS_Singleton
<1>3. ASSUME mode = "hybrid", pc \in {"locate", "shown", "refused"},
             NEW c \in chunked, NEW e \in chunked, Better(c, e), Answers(e) # {}
      PROVE  \E m \in Answers(c), n \in Answers(e) : results[m].rank < results[n].rank
  <2>1. PICK k \in DOMAIN results : results[k].doc = e.doc /\ results[k].first = e.first
    BY <1>3 DEF Answers
  <2>2. PICK m \in DOMAIN results : /\ results[m].doc = c.doc /\ results[m].first = c.first
                                    /\ results[m].rank < results[k].rank
    BY <1>1, <1>3, <2>1 DEF Fair
  <2> QED BY <2>1, <2>2 DEF Answers
<1>4. RanksFairly
  BY <1>1, <1>2, <1>3 DEF RanksFairly, Truthful
<1> QED BY <1>1, <1>4 DEF AnswersAreEvidence

\* What a search answers is what its indexes found, each passage once, inside the
\* filters and the limit; what both indexes of a hybrid search found earlier comes
\* before what they found later; and every passage on screen is the indexed segments
\* themselves, opened inside the passage and with what was asked for marked, unless
\* the file was replaced (TranscriptSearch.search, EvidenceService.locate).
THEOREM EvidenceIsFound == RetrievalSpec => []AnswersAreEvidence
<1>1. RetrievalInit => SearchInv
  BY SearchInvInit
<1>2. SearchInv /\ [RetrievalNext]_retrievalVars => SearchInv'
  BY SearchInvNext
<1>3. SearchInv => AnswersAreEvidence
  BY SearchInvIsSound
<1> QED BY <1>1, <1>2, <1>3, PTL DEF RetrievalSpec
=============================================================================
