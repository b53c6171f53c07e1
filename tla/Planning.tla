------------------------------- MODULE Planning -------------------------------
(***************************************************************************)
(* What a transcription may take of the machine.  A plan is made from the   *)
(* recording and the machine as they are (planner.py, strategy.py,          *)
(* policy.py); the executor admits it again before it touches the disk and  *)
(* again before it loads the model (executor.py, adaptive_executor.py); the *)
(* checkpoint keeps the settings of the first run as a contract, and a      *)
(* resume plans from that contract instead (checkpoint.py).  The machine    *)
(* and the recording may change between any two steps.  Bytes are counted   *)
(* in the model's units; JobRun models what the run then does.              *)
(***************************************************************************)
EXTENDS Naturals, FiniteSets, FiniteSetsExt

CONSTANTS
  Machines,    \* states of the machine: logical, quota, available, room, free, computes, disk
  Sources,     \* contents of the recording: tracks, direct, size
  Strategies,  \* the catalogue: quality, speed, cuda, compute, memory, device
  Profiles,    \* "screening", "balanced", "accuracy"
  CpuLimit, MemoryLimit, \* the configured ceilings
  MinimumFree, \* disk space left alone
  MaxChanges,  \* bound: changes of the machine and of the recording
  None

\* What the catalogue accepts: positive memory, device memory of accelerators only.
StrategyDefinition(s) ==
  /\ s.cuda \in BOOLEAN /\ {s.quality, s.speed} \subseteq Nat
  /\ s.memory \in Nat \ {0} /\ s.device \in IF s.cuda THEN Nat \ {0} ELSE {0}

ASSUME PlanningAssumption ==
  /\ Machines \subseteq [logical : Nat \ {0}, quota : Nat, available : Nat, room : Nat,
                         free : Nat, computes : SUBSET {s.compute : s \in Strategies}, disk : Nat]
  /\ Sources \subseteq [tracks : (SUBSET Nat) \ {{}}, direct : BOOLEAN, size : Nat \ {0}]
  /\ IsFiniteSet(Strategies)
  /\ \A s \in Strategies : StrategyDefinition(s)
  /\ Profiles = {"screening", "balanced", "accuracy"}
  /\ CpuLimit \in Nat \ {0} /\ {MemoryLimit, MinimumFree, MaxChanges} \subseteq Nat

VARIABLES
  machine, source, \* the machine and the recording now
  stage,           \* of the run: idle, admit, verify, store, prepare, readmit, load, run
  plan,            \* the run's plan
  depth,           \* segments it prepares ahead
  contract,        \* checkpoints/manifest.json
  began,           \* history: the plan of the run that wrote it
  changes

world == <<machine, source, changes>>
kept  == <<contract, began>>
vars  == <<machine, source, stage, plan, depth, contract, began, changes>>

Init ==
  /\ machine \in Machines /\ source \in Sources /\ changes = 0
  /\ stage = "idle" /\ plan = None /\ depth = 0
  /\ contract = None /\ began = None

-----------------------------------------------------------------------------
(* The machine as the inspectors and the policy see it.                     *)

EffectiveCpus(m) == Min({m.logical, Max({1, m.quota})})
EffectiveMemory(m) == Min({m.available, m.room})

Threads(m) == Max({1, Min({EffectiveCpus(m), CpuLimit})})
Budget(m) == Min({(3 * EffectiveMemory(m)) \div 4, MemoryLimit})
DeviceBudget(m) == (4 * m.free) \div 5

\* The device is one the probe saw and the engine supports.
Supports(m, s) == s.compute \in m.computes

Feasible(s, m, budget) ==
  /\ s.memory <= budget
  /\ s.cuda => Supports(m, s) /\ s.device <= DeviceBudget(m)

FeasibleOn(m) == {s \in Strategies : Feasible(s, m, Budget(m))}

\* Of the feasible strategies, those of the quality the profile asks for.
Distance(s) == IF s.quality >= 2 THEN s.quality - 2 ELSE 2 - s.quality

Preferred(S, profile) ==
  CASE profile = "screening" -> {s \in S : \A t \in S : s.quality <= t.quality}
    [] profile = "accuracy"  -> {s \in S : \A t \in S : s.quality >= t.quality}
    [] profile = "balanced"  ->
         LET near == {s \in S : \A t \in S : Distance(s) <= Distance(t)}
         IN {s \in near : \A t \in near : s.quality >= t.quality}

Fastest(S) == CHOOSE s \in S : \A t \in S : s.speed >= t.speed

Selected(m, r) ==
  IF r.strategy # None THEN r.strategy ELSE Fastest(Preferred(FeasibleOn(m), r.profile))

-----------------------------------------------------------------------------
(* Plans.                                                                   *)

Track(src, r) == IF r.track = None THEN Min(src.tracks) ELSE r.track

\* An accelerated run leaves a thread to the segments prepared ahead.
EngineThreads(m, s) ==
  IF s.cuda /\ Threads(m) > 1 THEN Threads(m) - 1 ELSE Threads(m)

PrefetchDepth(s, policy, threads) == IF s.cuda /\ policy > threads THEN 1 ELSE 0

\* Normalised and enhanced audio, the segments held at once, and the transcript.
Space(src, enhance, ahead) ==
  (IF src.direct THEN 0 ELSE src.size) + (IF enhance THEN src.size ELSE 0) + (1 + ahead) + 1

Planned(src, m, settings, policy) ==
  LET ahead == PrefetchDepth(settings.strategy, policy, settings.threads)
  IN [settings |-> settings, policy |-> policy, runner |-> m, budget |-> Budget(m),
      ahead |-> ahead, space |-> Space(src, settings.enhance, ahead)]

CanPlan(r, src, m) ==
  /\ r.track = None \/ r.track \in src.tracks
  /\ FeasibleOn(m) # {}
  /\ r.strategy # None => r.strategy \in FeasibleOn(m)

NewPlan(r, src, m) ==
  LET s == Selected(m, r)
  IN Planned(src, m,
             [source |-> src, track |-> Track(src, r), profile |-> r.profile, strategy |-> s,
              threads |-> EngineThreads(m, s), enhance |-> r.enhance],
             Threads(m))

\* What the checkpoint keeps of a plan, and what a resume plans from it.
Contract(p) == p.settings

\* Mutant: a run that used every thread finds none to spare when it resumes.
CanResumeBelow(c, src, m) ==
  /\ c.source = src /\ c.track \in src.tracks
  /\ c.threads < Threads(m) /\ c.strategy.memory <= Budget(m)
  /\ c.strategy.cuda => Feasible(c.strategy, m, Budget(m))

CanResume(c, src, m) ==
  /\ c.source = src /\ c.track \in src.tracks
  /\ c.threads <= Threads(m) /\ c.strategy.memory <= Budget(m)
  /\ c.strategy.cuda => Feasible(c.strategy, m, Budget(m))

ResumePlan(c, src, m) == Planned(src, m, c, IF c.strategy.cuda THEN Threads(m) ELSE c.threads)

-----------------------------------------------------------------------------
(* The run.                                                                 *)

Requests ==
  [profile : Profiles, strategy : Strategies \cup {None},
   track : {None} \cup UNION {src.tracks : src \in Sources}, enhance : BOOLEAN]

Start ==
  /\ stage = "idle" /\ contract = None
  /\ \E r \in Requests : CanPlan(r, source, machine) /\ plan' = NewPlan(r, source, machine)
  /\ stage' = "admit" /\ UNCHANGED <<depth, kept, world>>

Resume ==
  /\ stage = "idle" /\ contract # None
  /\ CanResume(contract, source, machine)
  /\ plan' = ResumePlan(contract, source, machine)
  /\ stage' = "admit" /\ UNCHANGED <<depth, kept, world>>

\* What the run is refused for, it ends with.
Leave == stage' = "idle" /\ plan' = None /\ depth' = 0 /\ UNCHANGED <<kept, world>>

Pass(next) == stage' = next /\ UNCHANGED <<plan, depth, kept, world>>

Admitted(p, m) ==
  /\ p.settings.strategy.memory <= p.budget
  /\ p.settings.strategy.memory <= Budget(m)
  /\ p.settings.threads <= Threads(m)
  /\ p.settings.strategy.cuda => Feasible(p.settings.strategy, m, p.budget)

HasSpace(p, m) == p.space + MinimumFree <= m.disk

Admit == stage = "admit" /\ IF Admitted(plan, machine) THEN Pass("verify") ELSE Leave

Verify == stage = "verify" /\ IF source = plan.settings.source THEN Pass("store") ELSE Leave

AdmitStorage == stage = "store" /\ IF HasSpace(plan, machine) THEN Pass("prepare") ELSE Leave

\* A first run writes the contract; a resumed one has to be the same as it.
Prepare ==
  /\ stage = "prepare"
  /\ \/ /\ contract = None
        /\ contract' = Contract(plan) /\ began' = plan
        /\ stage' = "readmit" /\ UNCHANGED <<plan, depth, world>>
     \/ contract # None /\ IF Contract(plan) = contract THEN Pass("readmit") ELSE Leave

Readmit == stage = "readmit" /\ IF Admitted(plan, machine) THEN Pass("load") ELSE Leave

\* Mutant: what the machine offers now is enough.
DepthByMachine(p, m) ==
  IF p.settings.strategy.cuda /\ Threads(m) > p.settings.threads THEN 1 ELSE 0

\* Segments are prepared ahead if the plan foresaw it and a thread is still free.
ExecutionDepth(p, m) ==
  IF p.policy > p.settings.threads /\ Threads(m) > p.settings.threads THEN 1 ELSE 0

Load ==
  /\ stage = "load"
  /\ stage' = "run" /\ depth' = ExecutionDepth(plan, machine)
  /\ UNCHANGED <<plan, kept, world>>

\* Anything may end the run before its end; what was kept stays.
Stop == stage # "idle" /\ Leave

Finish ==
  /\ stage = "run"
  /\ stage' = "idle" /\ plan' = None /\ depth' = 0 /\ contract' = None /\ began' = None
  /\ UNCHANGED world

\* The job is discarded, or another is planned in its place.
Discard ==
  /\ stage = "idle" /\ contract # None
  /\ contract' = None /\ began' = None /\ UNCHANGED <<stage, plan, depth, world>>

MachineChanges ==
  /\ changes < MaxChanges /\ changes' = changes + 1
  /\ machine' \in Machines \ {machine}
  /\ UNCHANGED <<source, stage, plan, depth, kept>>

RecordingChanges ==
  /\ changes < MaxChanges /\ changes' = changes + 1
  /\ source' \in Sources \ {source}
  /\ UNCHANGED <<machine, stage, plan, depth, kept>>

Next ==
  \/ Start \/ Resume \/ Admit \/ Verify \/ AdmitStorage \/ Prepare \/ Readmit \/ Load
  \/ Stop \/ Finish \/ Discard \/ MachineChanges \/ RecordingChanges

Spec == Init /\ [][Next]_vars

-----------------------------------------------------------------------------
\* A machine that is no worse than the one a run was planned on.
NoWorse(m, n) ==
  /\ Threads(m) >= Threads(n) /\ Budget(m) >= Budget(n) /\ m.free >= n.free
  /\ n.computes \subseteq m.computes

\* The planner, the executor and the checkpoint agree on what a run needs: on a
\* machine that is no worse than the planned one the executor admits the plan,
\* and an interrupted job is planned, admitted and restored again; for its disk
\* space it may need as much as a machine of as many threads did.
ReadmitsUnchanged ==
  /\ plan # None /\ NoWorse(machine, plan.runner) => Admitted(plan, machine)
  /\ stage = "idle" /\ contract # None =>
       LET again == ResumePlan(contract, source, machine)
       IN source = contract.source /\ NoWorse(machine, began.runner) =>
            /\ CanResume(contract, source, machine)
            /\ Admitted(again, machine) /\ Contract(again) = contract
            /\ Threads(machine) = Threads(began.runner) => again.space <= began.space

\* A run is as it was agreed: it has the first run's contents of the recording,
\* track, profile, strategy, engine threads and enhancement, however often it was
\* resumed (docs/architecture/processing-center.md, Resume); its threads, with the
\* one that prepares segments ahead, are within those its plan was given and the
\* audio it holds within the space it was admitted with, however the machine has
\* changed since.
RunsAsAgreed ==
  stage \in {"load", "run"} =>
    /\ plan.settings = began.settings
    /\ plan.settings.threads + depth <= plan.policy
    /\ Space(plan.settings.source, plan.settings.enhance, depth) <= plan.space
=============================================================================
