---------------------------- MODULE JobRunProofs ----------------------------
(***************************************************************************)
(* What a job owes its owner, for every number of windows, versions,       *)
(* contents, names and faults: its types, the integrity of what it         *)
(* publishes, the safety that TLC checks of JobRun, and that JobRun        *)
(* implements DurableTranscript.                                           *)
(***************************************************************************)
EXTENDS JobRunDurable, FiniteSetTheorems, TLAPS

\* The steps at which a piece is in flight, or about to be.
Recognising == {"materialize", "transcribe", "save", "note"}
InFlight    == {"transcribe", "save", "note"}

\* No piece is in flight, and what is reported is an exception.
Quiet == pc \notin Recognising /\ (pc = "report" => cause # "none")

\* What the type invariant needs to be inductive.
RunOK ==
  /\ pc = "report" => cause # "none"
  /\ Len(results) <= N
  /\ pc # "idle" => planned \in Sources
  /\ pc \in Recognising => session \in Versions /\ Len(results) # N
  /\ pc \in InFlight => slot \in Piece /\ slot.window = Len(results)

TypeInv == TypeOK /\ RunOK

USE CountsAssumption, SwitchAssumption

-----------------------------------------------------------------------------
(* Facts about the operators.                                              *)

LEMMA CountProperties ==
  ASSUME NEW S, Contiguous(S)
  PROVE  Count(S) \in 0 .. N /\ S = 0 .. (Count(S) - 1)
BY DEF Contiguous, Count

\* What restore returns is a sequence of checkpoints, no longer than the plan.
LEMMA RestoredType ==
  ASSUME DiskOK, Contiguous(Saved)
  PROVE  /\ Restored \in Seq(Piece)
         /\ Len(Restored) = Count(Saved)
         /\ Len(Restored) \in 0 .. N
         /\ Saved = 0 .. (Len(Restored) - 1)
         /\ \A i \in 1 .. Len(Restored) : /\ Restored[i] = ckpt[i - 1]
                                          /\ i - 1 \in Saved
<1>1. Count(Saved) \in 0 .. N /\ Saved = 0 .. (Count(Saved) - 1)
  BY CountProperties
<1>2. \A i \in 1 .. Count(Saved) : i - 1 \in Saved
  BY <1>1
<1>3. \A w \in Saved : ckpt[w] \in Piece
  BY DEF Saved, DiskOK
<1>4. Restored \in [1 .. Count(Saved) -> Piece]
  BY <1>2, <1>3 DEF Restored
<1>5. Restored \in Seq(Piece) /\ Len(Restored) = Count(Saved)
  BY <1>1, <1>4
<1> QED BY <1>1, <1>2, <1>5 DEF Restored

\* The ways the program updates a lifecycle record.
LEMMA RecordUpdates ==
  ASSUME rec \in Records, NEW s \in Statuses,
         NEW c \in 0 .. N, NEW a \in 0 .. MaxNames
  PROVE  /\ [rec EXCEPT !.status = s] \in Records
         /\ [rec EXCEPT !.status = s, !.artifact = a] \in Records
         /\ [rec EXCEPT !.status = s, !.total = N, !.completed = c] \in Records
         /\ [rec EXCEPT !.status = s, !.completed = c, !.artifact = a]
              \in Records
BY DEF Records

-----------------------------------------------------------------------------
(* Type correctness.                                                       *)

LEMMA TypeInit == Init => TypeInv
<1> SUFFICES ASSUME Init PROVE TypeInv
  OBVIOUS
<1>1. DiskOK
  BY DEF Init, DiskOK
<1>2. rec \in Records
  BY DEF Init, Records, Statuses
<1>3. pc \in Steps
  BY DEF Init, Steps
<1>4. cause \in Causes
  BY DEF Init, Causes
<1>5. name \in 0 .. MaxNames /\ results \in Seq(Piece)
  BY DEF Init
<1>6. WorkerOK
  BY <1>3, <1>4, <1>5 DEF Init, WorkerOK
<1>7. OthersOK
  BY DEF Init, OthersOK
<1>8. RunOK
  BY DEF Init, RunOK, Recognising, InFlight
<1> QED BY <1>1, <1>2, <1>6, <1>7, <1>8 DEF TypeInv, TypeOK

\* What an action leaves alone keeps its type.
LEMMA Frame ==
  ASSUME TypeInv
  PROVE  /\ UNCHANGED disk => DiskOK'
         /\ UNCHANGED rec => rec' \in Records
         /\ UNCHANGED <<machine, history>> => OthersOK'
         /\ UNCHANGED run /\ pc' \in Steps /\ cause' \in Causes => WorkerOK'
         /\ UNCHANGED <<pc, run, cause>> => RunOK'
         /\ /\ UNCHANGED <<planned, results>>
            /\ pc # "idle" /\ Quiet'
            => RunOK'
<1> USE DEF TypeInv, TypeOK
<1>1. UNCHANGED disk => DiskOK'
  BY DEF disk, evidence, audioFiles, DiskOK
<1>2. UNCHANGED rec => rec' \in Records
  BY DEF Records
<1>3. UNCHANGED <<machine, history>> => OthersOK'
  BY DEF machine, history, OthersOK
<1>4. UNCHANGED run /\ pc' \in Steps /\ cause' \in Causes => WorkerOK'
  BY DEF run, WorkerOK
<1>5. UNCHANGED <<pc, run, cause>> => RunOK'
  BY DEF run, RunOK
<1>6. /\ UNCHANGED <<planned, results>>
      /\ pc # "idle" /\ Quiet'
      => RunOK'
  BY DEF RunOK, Quiet, Recognising, InFlight
<1> QED BY <1>1, <1>2, <1>3, <1>4, <1>5, <1>6

\* A fault spends one of the budget.
LEMMA FaultType ==
  ASSUME TypeInv, faults < MaxFaults, faults' = faults + 1,
         clean' \in BOOLEAN, UNCHANGED machine
  PROVE  OthersOK'
BY DEF TypeInv, TypeOK, OthersOK, machine

\* An exception unwinds to the runner or to the release of the artifact.
LEMMA UnwindType ==
  ASSUME TypeInv, NEW why \in Causes, Unwind(why)
  PROVE  /\ pc' \in Steps /\ pc' # "idle" /\ pc' \notin Recognising
         /\ cause' \in Causes
         /\ why # "none" => Quiet'
<1>1. pc' \in {"report", "release"} /\ cause' = why
  BY DEF Unwind
<1>2. pc' \in Steps
  BY <1>1 DEF Steps
<1>3. pc' \notin Recognising /\ pc' # "idle"
  BY <1>1 DEF Recognising
<1>4. why # "none" => Quiet'
  BY <1>1, <1>3 DEF Quiet
<1> QED BY <1>1, <1>2, <1>3, <1>4

LEMMA RaiseType ==
  ASSUME TypeInv, Raise
  PROVE  /\ pc' \in Steps /\ pc' # "idle" /\ pc' \notin Recognising
         /\ cause' \in Causes
         /\ Quiet'
<1>1. "failed" \in Causes /\ "failed" # "none"
  BY DEF Causes
<1>2. Unwind("failed")
  BY DEF Raise
<1> QED BY <1>1, <1>2, UnwindType

\* A worker that ends forgets everything.
LEMMA ExitType ==
  ASSUME TypeInv, Exit
  PROVE  WorkerOK' /\ RunOK' /\ clean' \in BOOLEAN
<1>1. results' \in Seq(Piece) /\ Len(results') = 0 /\ name' \in 0 .. MaxNames
  BY DEF Exit
<1>2. pc' \in Steps
  BY DEF Exit, Steps
<1>3. cause' \in Causes
  BY DEF Exit, Causes
<1>4. WorkerOK'
  BY <1>1, <1>2, <1>3 DEF Exit, WorkerOK
<1>5. RunOK'
  BY <1>1 DEF Exit, RunOK, Recognising, InFlight
<1> QED BY <1>4, <1>5 DEF Exit

\* A file cut off while it was written is one the job knows.
LEMMA HalfWrittenType ==
  ASSUME TypeInv, MaybeHalfWritten
  PROVE  /\ derived' \in SUBSET Derived /\ segs' \in SUBSET Windows
         /\ stuck' \in SUBSET Windows
<1>1. /\ derived \in SUBSET Derived /\ segs \in SUBSET Windows
      /\ stuck \in SUBSET Windows
  BY DEF TypeInv, TypeOK, DiskOK
<1>2. derived' \in SUBSET Derived
  BY <1>1 DEF MaybeHalfWritten, Derived
<1>3. pc = "materialize" => Len(results) \in Windows
  BY DEF TypeInv, TypeOK, RunOK, WorkerOK, Recognising, Windows
<1> QED BY <1>1, <1>2, <1>3 DEF MaybeHalfWritten

\* ... nor does a call that an exception leaves know another.
LEMMA CutOffType ==
  ASSUME TypeInv, CutOff
  PROVE  /\ derived' \in SUBSET Derived /\ segs' \in SUBSET Windows
         /\ stuck' \in SUBSET Windows
<1>1. CASE pc # "transcribe"
  BY <1>1, HalfWrittenType DEF CutOff
<1>2. CASE pc = "transcribe"
  BY <1>2 DEF CutOff, TypeInv, TypeOK, DiskOK
<1> QED BY <1>1, <1>2

\* The lifecycle record after a progress report.
LEMMA ProgressType ==
  ASSUME TypeInv, NEW c \in 0 .. N, Progress(c)
  PROVE  rec' \in Records
<1>1. "running" \in Statuses /\ 0 \in 0 .. MaxNames /\ rec \in Records
  BY DEF Statuses, TypeInv, TypeOK
<1> QED BY <1>1, RecordUpdates DEF Progress

\* A new worker, whatever fingerprint of the source it plans for.
LEMMA LaunchType ==
  ASSUME TypeInv, NEW asResume \in BOOLEAN, NEW fingerprint \in Sources,
         Launch(asResume, fingerprint)
  PROVE  TypeInv'
<1>1. pc' \in Steps /\ Quiet'
  BY DEF Launch, Steps, Quiet, Recognising
<1>2. "running" \in Statuses /\ 0 \in 0 .. MaxNames /\ rec \in Records
  BY DEF Statuses, TypeInv, TypeOK
<1>3. rec' \in Records
  BY <1>2, RecordUpdates DEF Launch, Records
<1>4. WorkerOK'
  BY <1>1 DEF Launch, WorkerOK, TypeInv, TypeOK
<1>5. RunOK'
  BY <1>1 DEF Launch, RunOK, Recognising, InFlight, TypeInv
<1> QED BY <1>3, <1>4, <1>5, Frame DEF Launch, TypeInv, TypeOK

LEMMA TypeStep == TypeInv /\ [Next]_vars => TypeInv'
<1> SUFFICES ASSUME TypeInv, [Next]_vars PROVE TypeInv'
  OBVIOUS
<1> USE DEF TypeInv, TypeOK
<1>1. ASSUME Start PROVE TypeInv'
  BY <1>1, LaunchType DEF Start, OthersOK
<1>2. ASSUME Resume PROVE TypeInv'
  BY <1>2, LaunchType DEF Resume, OthersOK
<1>3. ASSUME Admit PROVE TypeInv'
  <2>1. pc' \in Steps /\ cause' \in Causes /\ Quiet'
    BY <1>3, RaiseType DEF Admit, Steps, Quiet, Recognising, WorkerOK
  <2>2. WorkerOK' /\ RunOK'
    BY <1>3, <2>1, Frame DEF Admit, run
  <2> QED BY <1>3, <2>2, Frame DEF Admit
<1>4. ASSUME Claim PROVE TypeInv'
  <2>1. pc' \in Steps /\ cause' \in Causes /\ Quiet'
    BY <1>4, RaiseType DEF Claim, Steps, Quiet, Recognising, WorkerOK
  <2>2. WorkerOK' /\ RunOK'
    BY <1>4, <2>1, Frame DEF Claim, run
  <2>3. DiskOK'
    BY <1>4 DEF Claim, DiskOK, audioFiles
  <2> QED BY <1>4, <2>2, <2>3, Frame DEF Claim
<1>5. ASSUME Reserve PROVE TypeInv'
  <2>1. pc' \in Steps /\ cause' \in Causes /\ Quiet'
    BY <1>5, RaiseType DEF Reserve, Steps, Quiet, Recognising, WorkerOK
  <2>2. name' \in 0 .. MaxNames
    BY <1>5 DEF Reserve, Names, WorkerOK
  <2>3. WorkerOK'
    BY <1>5, <2>1, <2>2 DEF Reserve, WorkerOK
  <2>4. RunOK'
    BY <1>5, <2>1, Frame DEF Reserve
  <2>5. DiskOK'
    BY <1>5 DEF Reserve, DiskOK, evidence, audioFiles
  <2> QED BY <1>5, <2>3, <2>4, <2>5, Frame DEF Reserve
<1>6. ASSUME NEW file \in Derived, NEW next \in {"enhance", "segment"},
             pc # "idle", Derive(file, next)
      PROVE  TypeInv'
  <2>1. pc' \in Steps /\ cause' \in Causes /\ Quiet'
    BY <1>6, RaiseType DEF Derive, Steps, Quiet, Recognising, WorkerOK
  <2>2. Heard \in Sources \cup {None}
    BY DEF Heard, WorkerOK, OthersOK
  <2>3. /\ derived' \in SUBSET Derived /\ owned' \in SUBSET Derived
        /\ audio' \in Sources \cup {None}
    BY <1>6, <2>2 DEF Derive, DiskOK, WorkerOK
  <2>4. WorkerOK'
    BY <1>6, <2>1, <2>3 DEF Derive, WorkerOK
  <2>5. RunOK'
    BY <1>6, <2>1, Frame DEF Derive
  <2>6. DiskOK'
    BY <1>6, <2>3 DEF Derive, DiskOK, evidence
  <2> QED BY <1>6, <2>4, <2>5, <2>6, Frame DEF Derive
<1>7. ASSUME Decode PROVE TypeInv'
  <2>1. CASE Normalize
    BY <1>6, <1>7, <2>1 DEF Decode, Derived
  <2>2. CASE ~Normalize
    <3>1. pc' \in Steps /\ cause' \in Causes /\ Quiet'
      BY <1>7, <2>2 DEF Decode, Steps, Quiet, Recognising, WorkerOK
    <3>2. WorkerOK' /\ RunOK'
      BY <1>7, <2>2, <3>1, Frame DEF Decode, run
    <3> QED BY <1>7, <2>2, <3>2, Frame DEF Decode
  <2> QED BY <2>1, <2>2
<1>8. ASSUME EnhanceAudio PROVE TypeInv'
  <2>1. CASE Enhance
    BY <1>6, <1>8, <2>1 DEF EnhanceAudio, Derived
  <2>2. CASE ~Enhance
    <3>1. pc' \in Steps /\ cause' \in Causes /\ Quiet'
      BY <1>8, <2>2 DEF EnhanceAudio, Steps, Quiet, Recognising, WorkerOK
    <3>2. WorkerOK' /\ RunOK'
      BY <1>8, <2>2, <3>1, Frame DEF EnhanceAudio, run
    <3> QED BY <1>8, <2>2, <3>2, Frame DEF EnhanceAudio
  <2> QED BY <2>1, <2>2
<1>9. ASSUME Segment PROVE TypeInv'
  <2>1. pc' \in Steps /\ cause' \in Causes /\ Quiet'
    BY <1>9 DEF Segment, Steps, Quiet, Recognising, WorkerOK
  <2>2. WorkerOK' /\ RunOK'
    BY <1>9, <2>1, Frame DEF Segment, run
  <2>3. rec' \in Records
    BY <1>9, ProgressType DEF Segment
  <2> QED BY <1>9, <2>2, <2>3, Frame DEF Segment
<1>10. ASSUME Prepare PROVE TypeInv'
  <2>1. pc' \in Steps /\ cause' \in Causes /\ Quiet'
    BY <1>10, RaiseType DEF Prepare, Steps, Quiet, Recognising, WorkerOK
  <2>2. results' \in Seq(Piece) /\ Len(results') \in 0 .. N
    <3>1. CASE results' = results
      BY <3>1 DEF WorkerOK, RunOK
    <3>2. CASE results' = <<>>
      BY <3>2
    <3>3. CASE Contiguous(Saved) /\ results' = Restored
      BY <3>3, RestoredType
    <3> QED BY <1>10, <3>1, <3>2, <3>3 DEF Prepare, Restorable
  <2>3. rec' \in Records
    BY <1>10, <2>2, ProgressType DEF Prepare
  <2>4. WorkerOK'
    BY <1>10, <2>1, <2>2 DEF Prepare, WorkerOK
  <2>5. RunOK'
    BY <1>10, <2>1, <2>2 DEF Prepare, RunOK, Quiet, Recognising, InFlight
  <2>6. DiskOK'
    BY <1>10 DEF Prepare, DiskOK, WorkerOK, audioFiles
  <2> QED BY <1>10, <2>3, <2>4, <2>5, <2>6, Frame DEF Prepare
<1>11. ASSUME Open PROVE TypeInv'
  <2>1. pc' \in Steps /\ cause' \in Causes
    BY <1>11, RaiseType DEF Open, Steps, WorkerOK
  <2>2. WorkerOK'
    BY <1>11, <2>1 DEF Open, WorkerOK, OthersOK
  <2>3. /\ pc' \notin InFlight
        /\ pc' \in Recognising => Len(results) # N /\ session' = installed
        /\ pc' = "report" => cause' # "none"
    BY <1>11, RaiseType DEF Open, Quiet, Recognising, InFlight
  <2>4. RunOK'
    BY <1>11, <2>3 DEF Open, RunOK, OthersOK
  <2> QED BY <1>11, <2>2, <2>4, Frame DEF Open
<1>12. ASSUME Materialize PROVE TypeInv'
  <2>1. pc' \in Steps /\ cause' \in Causes
    BY <1>12, RaiseType DEF Materialize, Steps, WorkerOK
  <2>2. Len(results) \in Windows /\ session \in Versions
    BY <1>12 DEF Materialize, RunOK, WorkerOK, Windows, Recognising
  <2>3. Heard \in Sources
    BY DEF Heard, WorkerOK, OthersOK
  <2>4. [window |-> Len(results), engine |-> session, source |-> Heard]
          \in Piece
    BY <2>2, <2>3 DEF Piece
  <2>5. WorkerOK'
    BY <1>12, <2>1, <2>4 DEF Materialize, WorkerOK
  <2>6. pc' \in InFlight => slot' = [window |-> Len(results),
                                     engine |-> session, source |-> Heard]
    BY <1>12, RaiseType DEF Materialize, InFlight, Recognising
  <2>7. pc' \in InFlight => slot' \in Piece /\ slot'.window = Len(results)
    BY <2>4, <2>6
  <2>8. RunOK'
    BY <1>12, <2>2, <2>7, RaiseType DEF Materialize, RunOK, Quiet, Recognising,
       InFlight
  <2>9. DiskOK'
    BY <1>12, <2>2 DEF Materialize, DiskOK, evidence
  <2> QED BY <1>12, <2>5, <2>8, <2>9, Frame DEF Materialize
<1>13. ASSUME Transcribe PROVE TypeInv'
  <2>1. pc' = "save" /\ pc' \in Steps
    BY <1>13 DEF Transcribe, Steps
  <2>2. WorkerOK'
    BY <1>13, <2>1, Frame DEF Transcribe, WorkerOK
  <2>3. RunOK'
    BY <1>13, <2>1 DEF Transcribe, RunOK, Recognising, InFlight, run
  <2>4. slot.window \in Windows
    BY <1>13 DEF Transcribe, RunOK, InFlight, Piece
  <2>5. DiskOK'
    BY <1>13, <2>4 DEF Transcribe, CleanupSegment, DiskOK, evidence
  <2>6. OthersOK'
    BY <1>13, Frame, FaultType DEF Transcribe, CleanupSegment, Fault
  <2> QED BY <1>13, <2>2, <2>3, <2>5, <2>6, Frame DEF Transcribe
<1>14. ASSUME SaveSegment PROVE TypeInv'
  <2>1. pc' \in Steps /\ cause' \in Causes
    BY <1>14, RaiseType DEF SaveSegment, Steps, WorkerOK
  <2>2. Quiet' \/ (pc' = "note" /\ pc' \in InFlight)
    BY <1>14, RaiseType DEF SaveSegment, InFlight
  <2>3. /\ planned \in Sources /\ session \in Versions /\ Len(results) # N
        /\ slot \in Piece /\ slot.window = Len(results)
    BY <1>14 DEF SaveSegment, RunOK, Recognising, InFlight
  <2>4. WorkerOK'
    BY <1>14, <2>1, Frame DEF SaveSegment
  <2>5. RunOK'
    BY <1>14, <2>2, <2>3 DEF SaveSegment, Quiet, RunOK, Recognising,
       InFlight, run
  <2>6. DiskOK'
    BY <1>14, <2>3 DEF SaveSegment, DiskOK, audioFiles
  <2> QED BY <1>14, <2>4, <2>5, <2>6, Frame DEF SaveSegment
<1>15. ASSUME Note PROVE TypeInv'
  <2>1. pc' \in Steps
    BY <1>15 DEF Note, Steps
  <2>2. /\ slot \in Piece /\ session \in Versions
        /\ results \in Seq(Piece) /\ Len(results) # N
    BY <1>15 DEF Note, RunOK, Recognising, InFlight, WorkerOK
  <2>3. results' \in Seq(Piece) /\ Len(results') \in 0 .. N
    BY <1>15, <2>2 DEF Note, RunOK
  <2>4. rec' \in Records
    BY <1>15, <2>3, ProgressType DEF Note
  <2>5. WorkerOK'
    BY <1>15, <2>1, <2>3 DEF Note, WorkerOK
  <2>6. pc' \notin InFlight /\ (pc' \in Recognising => Len(results') # N)
    BY <1>15 DEF Note, Recognising, InFlight
  <2>7. RunOK'
    BY <1>15, <2>2, <2>3, <2>6 DEF Note, RunOK
  <2> QED BY <1>15, <2>4, <2>5, <2>7, Frame DEF Note
<1>16. ASSUME WriteArtifact PROVE TypeInv'
  <2>1. pc' \in Steps /\ cause' \in Causes /\ Quiet'
    BY <1>16, RaiseType DEF WriteArtifact, Steps, Quiet, Recognising, WorkerOK
  <2>2. WorkerOK' /\ RunOK'
    BY <1>16, <2>1, Frame DEF WriteArtifact, run
  <2>3. Assemblable(results) =>
          [source |-> planned, engine |-> results[1].engine,
           segments |-> results] \in Transcript
    <3>1. planned \in Sources /\ results \in Seq(Piece)
      BY <1>16 DEF WriteArtifact, RunOK, WorkerOK
    <3>2. results # <<>> => results[1] \in Piece
      BY <3>1
    <3>3. results # <<>> => results[1].engine \in Versions
      BY <3>2 DEF Piece
    <3> QED BY <3>1, <3>3 DEF Assemblable, Transcript
  <2>4. DiskOK'
    BY <1>16, <2>3 DEF WriteArtifact, DiskOK, evidence, audioFiles
  <2> QED BY <1>16, <2>2, <2>4, Frame DEF WriteArtifact
<1>17. ASSUME Clear PROVE TypeInv'
  <2>1. pc' \in Steps /\ Quiet'
    BY <1>17 DEF Clear, Steps, Quiet, Recognising
  <2>2. WorkerOK' /\ RunOK'
    BY <1>17, <2>1, Frame DEF Clear, run, WorkerOK
  <2>3. DiskOK'
    BY <1>17 DEF Clear, DiskOK, audioFiles
  <2> QED BY <1>17, <2>2, <2>3, Frame DEF Clear
<1>18. ASSUME Sweep PROVE TypeInv'
  <2>1. pc' \in Steps /\ Quiet'
    BY <1>18 DEF Sweep, Steps, Quiet, Recognising
  <2>2. derived' \subseteq derived /\ owned' \subseteq owned
    BY <1>18 DEF Sweep
  <2>3. WorkerOK'
    BY <1>18, <2>1, <2>2 DEF Sweep, WorkerOK
  <2>4. RunOK'
    BY <1>18, <2>1, Frame DEF Sweep
  <2>5. DiskOK'
    BY <1>18, <2>2 DEF Sweep, DiskOK, evidence
  <2> QED BY <1>18, <2>3, <2>4, <2>5, Frame DEF Sweep
<1>19. ASSUME Release PROVE TypeInv'
  <2>1. pc' \in Steps /\ Quiet'
    BY <1>19 DEF Release, Steps, Quiet, Recognising
  <2>2. WorkerOK' /\ RunOK'
    BY <1>19, <2>1, Frame DEF Release, run, WorkerOK
  <2>3. DiskOK'
    BY <1>19 DEF Release, DiskOK, evidence, audioFiles
  <2> QED BY <1>19, <2>2, <2>3, Frame DEF Release
<1>20. ASSUME Complete PROVE TypeInv'
  <2>1. "completed" \in Statuses /\ rec.total \in 0 .. N
    BY DEF Statuses, Records
  <2>2. rec' \in Records
    BY <1>20, <2>1, RecordUpdates DEF Complete, WorkerOK
  <2> QED BY <1>20, <2>2, ExitType, Frame DEF Complete, OthersOK, machine
<1>21. ASSUME Report PROVE TypeInv'
  <2>1. cause \in Statuses /\ 0 \in 0 .. N /\ 0 \in 0 .. MaxNames
    BY <1>21 DEF Report, RunOK, WorkerOK, Causes, Statuses
  <2>2. rec' \in Records
    BY <1>21, <2>1, RecordUpdates DEF Report
  <2> QED BY <1>21, <2>2, ExitType, Frame DEF Report, OthersOK, machine
<1>22. ASSUME Worker PROVE TypeInv'
  BY <1>3, <1>4, <1>5, <1>7, <1>8, <1>9, <1>10, <1>11, <1>12, <1>13, <1>14,
     <1>15, <1>16, <1>17, <1>18, <1>19, <1>20, <1>21, <1>22 DEF Worker
<1>23. ASSUME Crash PROVE TypeInv'
  <2>1. DiskOK'
    BY <1>23, HalfWrittenType DEF Crash, DiskOK, evidence
  <2> QED BY <1>23, <2>1, ExitType, FaultType, Frame DEF Crash
<1>24. ASSUME StepFails PROVE TypeInv'
  <2>1. pc # "idle" /\ pc' \in Steps /\ cause' \in Causes /\ Quiet'
    BY <1>24, RaiseType DEF StepFails
  <2>2. WorkerOK' /\ RunOK'
    BY <1>24, <2>1, Frame DEF StepFails, run
  <2>3. DiskOK'
    BY <1>24, CutOffType DEF StepFails, DiskOK, evidence
  <2> QED BY <1>24, <2>2, <2>3, FaultType, Frame DEF StepFails, Fault
<1>25. ASSUME ClearFails \/ ReleaseFails PROVE TypeInv'
  <2>1. pc # "idle" /\ pc' \in Steps /\ Quiet'
    BY <1>25 DEF ClearFails, ReleaseFails, Steps, Quiet, Recognising
  <2>2. WorkerOK' /\ RunOK'
    BY <1>25, <2>1, Frame DEF ClearFails, ReleaseFails, run, WorkerOK
  <2> QED BY <1>25, <2>2, FaultType, Frame DEF ClearFails, ReleaseFails, Fault
<1>26. ASSUME EnhancedSweepFails PROVE TypeInv'
  <2>1. WorkerOK'
    BY <1>26 DEF EnhancedSweepFails, WorkerOK
  <2>2. RunOK'
    BY <1>26 DEF EnhancedSweepFails, RunOK
  <2> QED BY <1>26, <2>1, <2>2, FaultType, Frame DEF EnhancedSweepFails, Fault
<1>27. ASSUME DecodedSweepFails PROVE TypeInv'
  <2>1. pc # "idle" /\ pc' \in Steps /\ cause' \in Causes /\ Quiet'
    BY <1>27 DEF DecodedSweepFails, Steps, Causes, Quiet, Recognising
  <2>2. WorkerOK'
    BY <1>27, <2>1 DEF DecodedSweepFails, WorkerOK
  <2>3. RunOK'
    BY <1>27, <2>1, Frame DEF DecodedSweepFails
  <2> QED BY <1>27, <2>2, <2>3, FaultType, Frame DEF DecodedSweepFails, Fault
<1>28. ASSUME RecordFails PROVE TypeInv'
  BY <1>28, ExitType, FaultType, Frame DEF RecordFails
<1>29. ASSUME Interrupt PROVE TypeInv'
  <2>1. pc # "idle" /\ cause' # "none" /\ cause' \in Causes
    BY <1>29 DEF Interrupt, Causes
  <2>2. pc' \in Steps /\ pc' \notin Recognising
    BY <1>29 DEF Interrupt, Steps, Recognising, Unprotected
  <2>3. WorkerOK' /\ RunOK'
    BY <1>29, <2>1, <2>2, Frame DEF Interrupt, Quiet, run
  <2>4. DiskOK'
    BY <1>29, CutOffType DEF Interrupt, DiskOK, evidence
  <2> QED BY <1>29, <2>3, <2>4, FaultType, Frame DEF Interrupt, Fault
<1>30. ASSUME Faulty PROVE TypeInv'
  BY <1>23, <1>24, <1>25, <1>26, <1>27, <1>28, <1>29, <1>30 DEF Faulty
<1>31. ASSUME Reconcile PROVE TypeInv'
  <2>1. "interrupted" \in Statuses /\ 0 \in 0 .. N /\ 0 \in 0 .. MaxNames
    BY DEF Statuses
  <2>2. rec' \in Records
    BY <1>31, <2>1, RecordUpdates DEF Reconcile
  <2>3. WorkerOK'
    BY <1>31, Frame DEF Reconcile, WorkerOK
  <2> QED BY <1>31, <2>2, <2>3, Frame DEF Reconcile
<1>32. ASSUME Discard PROVE TypeInv'
  <2>1. "discarded" \in Statuses
    BY DEF Statuses
  <2>2. rec' \in Records
    BY <1>32, <2>1 DEF Discard, Records
  <2>3. DiskOK'
    BY <1>32 DEF Discard, RemoveWorkspace, DiskOK
  <2>4. WorkerOK'
    BY <1>32, Frame DEF Discard, WorkerOK
  <2> QED BY <1>32, <2>2, <2>3, <2>4, Frame DEF Discard
<1>33. ASSUME Retain PROVE TypeInv'
  <2>1. DiskOK'
    BY <1>33 DEF Retain, RemoveWorkspace, DiskOK
  <2>2. WorkerOK'
    BY <1>33, Frame DEF Retain, WorkerOK
  <2> QED BY <1>33, <2>1, <2>2, Frame DEF Retain
<1>34. ASSUME EditSource \/ UpgradeEngine PROVE TypeInv'
  <2>1. OthersOK'
    BY <1>34 DEF EditSource, UpgradeEngine, OthersOK, history
  <2>2. WorkerOK'
    BY <1>34, Frame DEF EditSource, UpgradeEngine, WorkerOK
  <2> QED BY <1>34, <2>1, <2>2, Frame DEF EditSource, UpgradeEngine
<1>35. ASSUME Environment PROVE TypeInv'
  BY <1>31, <1>32, <1>33, <1>34, <1>35 DEF Environment
<1>36. ASSUME UNCHANGED vars PROVE TypeInv'
  <2>1. WorkerOK'
    BY <1>36, Frame DEF vars, WorkerOK
  <2> QED BY <1>36, <2>1, Frame DEF vars
<1> QED BY <1>1, <1>2, <1>22, <1>30, <1>35, <1>36 DEF Next, Rest

\* Every reachable state has its type, however many windows, versions,
\* contents, names and faults there are.
THEOREM TypeCorrect == Spec => []TypeOK
<1>1. Init => TypeInv
  BY TypeInit
<1>2. TypeInv /\ [Next]_vars => TypeInv'
  BY TypeStep
<1>3. TypeInv => TypeOK
  BY DEF TypeInv
<1> QED BY <1>1, <1>2, <1>3, PTL DEF Spec

-----------------------------------------------------------------------------
(* The integrity of what is published.  Each conjunct carries the source   *)
(* contents one step further: from the fingerprint the plan names, through *)
(* the decoded audio, the piece in flight, the checkpoint and the restored *)
(* results, into the canonical transcript.                                 *)

\* The checkpoint directory is prepared: the results stand for its files.
Prepared == {"open", "write"} \cup Recognising

\* The source has been verified and is still to be listened to.
Verified == {"claim", "reserve", "decode", "enhance", "segment", "prepare"}
              \cup Prepared

CheckpointsSound ==
  \A w \in Saved : ckpt[w].window = w /\ ckpt[w].source = manifest

AudioSound ==
  /\ pc \in Verified => source = planned
  /\ audio \in {None, planned}
  /\ pc = "idle" => audio = None

ResultsSound ==
  pc \in Prepared =>
    /\ manifest = planned
    /\ \A i \in 1 .. Len(results) : /\ results[i].window = i - 1
                                    /\ results[i].source = planned
    /\ pc \in InFlight => slot.source = planned
    /\ pc = "write" => Len(results) = N

Sound == /\ CheckpointsSound /\ AudioSound /\ ResultsSound
         /\ TranscriptIntegrity

LEMMA SoundInit == Init => Sound
<1> SUFFICES ASSUME Init PROVE Sound
  OBVIOUS
<1>1. Saved = {} /\ Published = {}
  BY DEF Init, Saved, Published
<1>2. pc = "idle" /\ audio = None
  BY DEF Init
<1>3. pc \notin Verified /\ pc \notin Prepared
  BY <1>2 DEF Verified, Prepared, Recognising
<1> QED BY <1>1, <1>2, <1>3 DEF Sound, CheckpointsSound, AudioSound,
        ResultsSound, TranscriptIntegrity

\* What an action leaves alone stays sound.
LEMMA SoundFrame ==
  ASSUME Sound
  PROVE  /\ UNCHANGED <<manifest, ckpt>> => CheckpointsSound'
         /\ UNCHANGED output => TranscriptIntegrity'
         /\ /\ UNCHANGED <<source, planned, audio>>
            /\ pc' # "idle"
            /\ pc \in Verified \/ pc' \notin Verified
            => AudioSound'
         /\ pc' \notin Prepared => ResultsSound'
<1> USE DEF Sound
<1>1. UNCHANGED <<manifest, ckpt>> => CheckpointsSound'
  BY DEF CheckpointsSound, Saved
<1>2. UNCHANGED output => TranscriptIntegrity'
  BY DEF TranscriptIntegrity, Published
<1>3. /\ UNCHANGED <<source, planned, audio>>
      /\ pc' # "idle"
      /\ pc \in Verified \/ pc' \notin Verified
      => AudioSound'
  BY DEF AudioSound
<1>4. pc' \notin Prepared => ResultsSound'
  BY DEF ResultsSound
<1> QED BY <1>1, <1>2, <1>3, <1>4

\* Once it unwinds, a worker neither listens nor writes a transcript.
LEMMA UnwindSilent ==
  ASSUME Raise
  PROVE  pc' \notin Verified /\ pc' \notin Prepared /\ pc' # "idle"
<1>1. pc' \in {"report", "release"}
  BY DEF Raise, Unwind
<1> QED BY <1>1 DEF Verified, Prepared, Recognising

\* A worker that ends holds nothing that could be unsound.
LEMMA ExitSound ==
  ASSUME Exit
  PROVE  AudioSound' /\ ResultsSound'
<1>1. pc' = "idle" /\ audio' = None
  BY DEF Exit
<1>2. pc' \notin Verified /\ pc' \notin Prepared
  BY <1>1 DEF Verified, Prepared, Recognising
<1> QED BY <1>1, <1>2 DEF AudioSound, ResultsSound

\* Every checkpoint is gone with the workspace.
LEMMA RemovedSound ==
  ASSUME RemoveWorkspace
  PROVE  CheckpointsSound'
BY DEF RemoveWorkspace, CheckpointsSound, Saved

\* A whole list of sound pieces is the transcript it should be.
LEMMA WholeTranscript ==
  ASSUME NEW pieces \in Seq(Piece), Assemblable(pieces), Len(pieces) = N,
         NEW heard \in Sources,
         \A i \in 1 .. Len(pieces) : pieces[i].source = heard
  PROVE  pieces = [i \in 1 .. N |-> [window |-> i - 1,
                                     engine |-> pieces[1].engine,
                                     source |-> heard]]
<1>1. DOMAIN pieces = 1 .. N
  OBVIOUS
<1>2. \A i \in 1 .. N : pieces[i] \in Piece
  BY <1>1
<1>3. \A i \in 1 .. N : pieces[i] = [window |-> i - 1,
                                     engine |-> pieces[1].engine,
                                     source |-> heard]
  BY <1>1, <1>2 DEF Assemblable, Piece
<1> QED BY <1>1, <1>3

LEMMA SoundStep ==
  ASSUME EditDuringRun = FALSE, TypeInv, Sound, [Next]_vars
  PROVE  Sound'
<1> USE DEF Sound
<1>1. ASSUME NEW asResume \in BOOLEAN, NEW fingerprint \in Sources,
             Launch(asResume, fingerprint)
      PROVE  Sound'
  <2>1. pc' = "admit" /\ pc' # "idle" /\ audio = None
    BY <1>1 DEF Launch, AudioSound
  <2>2. pc' \notin Verified /\ pc' \notin Prepared
    BY <2>1 DEF Verified, Prepared, Recognising
  <2>3. AudioSound'
    BY <1>1, <2>1, <2>2 DEF Launch, AudioSound
  <2> QED BY <1>1, <2>2, <2>3, SoundFrame DEF Launch, disk, evidence
<1>2. ASSUME Start \/ Resume PROVE Sound'
  BY <1>1, <1>2 DEF Start, Resume, TypeInv, TypeOK, OthersOK
<1>3. ASSUME Admit PROVE Sound'
  <2>1. pc' # "idle" /\ pc' \notin Prepared
    BY <1>3, UnwindSilent DEF Admit, Prepared, Recognising
  <2>2. pc' \in Verified => source = planned
    BY <1>3, UnwindSilent DEF Admit
  <2>3. AudioSound'
    BY <1>3, <2>1, <2>2 DEF Admit, AudioSound, machine, run
  <2> QED BY <1>3, <2>1, <2>3, SoundFrame DEF Admit, disk, evidence
<1>4. ASSUME Claim \/ Reserve PROVE Sound'
  <2>1. pc' # "idle" /\ pc' \notin Prepared /\ pc \in Verified
    BY <1>4, UnwindSilent DEF Claim, Reserve, Verified, Prepared, Recognising
  <2>2. UNCHANGED <<manifest, ckpt, source, planned, audio>>
    BY <1>4 DEF Claim, Reserve, evidence, machine, run
  <2>3. TranscriptIntegrity'
    <3>1. \A n \in Names : output'[n] \notin {Free, Reserved} =>
            output'[n] = output[n] /\ n \in Published
      BY <1>4 DEF Claim, Reserve, TypeInv, TypeOK, DiskOK, Published
    <3> QED BY <3>1 DEF TranscriptIntegrity, Published
  <2> QED BY <2>1, <2>2, <2>3, SoundFrame
<1>5. ASSUME NEW file, NEW next \in {"enhance", "segment"},
             pc \in {"decode", "enhance"}, Derive(file, next)
      PROVE  Sound'
  <2>1. pc' # "idle" /\ pc' \notin Prepared /\ pc \in Verified
    BY <1>5, UnwindSilent DEF Derive, Verified, Prepared, Recognising
  <2>2. source = planned /\ Heard = planned
    BY <2>1 DEF AudioSound, Heard
  <2>3. AudioSound'
    BY <1>5, <2>1, <2>2 DEF Derive, AudioSound, machine
  <2> QED BY <1>5, <2>1, <2>3, SoundFrame DEF Derive, evidence
<1>6. ASSUME Decode \/ EnhanceAudio PROVE Sound'
  <2>1. CASE \E file \in Derived, next \in {"enhance", "segment"} :
               Derive(file, next)
    BY <1>5, <1>6, <2>1 DEF Decode, EnhanceAudio
  <2>2. CASE /\ pc' \in {"enhance", "segment"}
             /\ UNCHANGED <<disk, rec, machine, run, cause, history>>
    <3>1. pc' # "idle" /\ pc' \notin Prepared /\ pc \in Verified
      BY <1>6, <2>2 DEF Decode, EnhanceAudio, Verified, Prepared, Recognising
    <3> QED BY <2>2, <3>1, SoundFrame DEF disk, evidence, machine, run
  <2> QED BY <1>6, <2>1, <2>2 DEF Decode, EnhanceAudio, Derived
<1>7. ASSUME Segment PROVE Sound'
  <2>1. pc' # "idle" /\ pc' \notin Prepared /\ pc \in Verified
    BY <1>7 DEF Segment, Verified, Prepared, Recognising
  <2> QED BY <1>7, <2>1, SoundFrame DEF Segment, disk, evidence, machine, run
<1>8. ASSUME Prepare PROVE Sound'
  <2>1. pc' # "idle" /\ pc \in Verified
    BY <1>8, UnwindSilent DEF Prepare, Verified
  <2>2. AudioSound' /\ TranscriptIntegrity'
    BY <1>8, <2>1, SoundFrame DEF Prepare, machine
  <2>3. CASE pc' = "open"
    <3>1. manifest' = planned
      BY <1>8, <2>3, UnwindSilent DEF Prepare, Prepared
    <3>2. CASE resume
      <4>1. Restorable /\ results' = Restored
        BY <1>8, <2>3, <3>2, UnwindSilent DEF Prepare, Prepared
      <4>2. \A i \in 1 .. Len(results') : /\ results'[i] = ckpt[i - 1]
                                          /\ i - 1 \in Saved
        BY <4>1, RestoredType DEF Restorable, TypeInv, TypeOK
      <4>3. manifest = planned
        BY <4>1 DEF Restorable
      <4>4. CheckpointsSound'
        BY <1>8, <3>1, <4>3, SoundFrame DEF Prepare
      <4>5. ResultsSound'
        BY <1>8, <2>3, <3>1, <4>2, <4>3 DEF Prepare, ResultsSound,
           CheckpointsSound, InFlight
      <4> QED BY <2>2, <4>4, <4>5
    <3>3. CASE ~resume
      <4>1. manifest = None /\ results' = <<>>
        BY <1>8, <2>3, <3>3, UnwindSilent DEF Prepare, Prepared
      <4>2. Saved = {}
        BY <4>1, NoneAssumption DEF CheckpointsSound, Saved, Piece, TypeInv,
           TypeOK, DiskOK
      <4>3. CheckpointsSound'
        BY <1>8, <4>2 DEF Prepare, CheckpointsSound, Saved
      <4>4. ResultsSound'
        BY <1>8, <2>3, <3>1, <4>1 DEF Prepare, ResultsSound, InFlight
      <4> QED BY <2>2, <4>3, <4>4
    <3> QED BY <3>2, <3>3 DEF TypeInv, TypeOK, WorkerOK
  <2>4. CASE Raise
    <3>1. pc' \notin Prepared /\ UNCHANGED <<manifest, ckpt>>
      BY <1>8, <2>4, UnwindSilent DEF Prepare, Prepared
    <3> QED BY <2>2, <3>1, SoundFrame
  <2> QED BY <1>8, <2>3, <2>4 DEF Prepare
<1>9. ASSUME Open PROVE Sound'
  <2>1. pc' # "idle" /\ pc \in Verified /\ pc \in Prepared
    BY <1>9, UnwindSilent DEF Open, Verified, Prepared
  <2>2. pc' \in Prepared => pc' \notin InFlight /\ (pc' = "write" =>
                                                    Len(results) = N)
    BY <1>9, UnwindSilent DEF Open, InFlight
  <2>3. ResultsSound'
    BY <1>9, <2>1, <2>2 DEF Open, ResultsSound, disk, evidence
  <2> QED BY <1>9, <2>1, <2>3, SoundFrame DEF Open, disk, evidence, machine
<1>10. ASSUME Materialize PROVE Sound'
  <2>1. pc' # "idle" /\ pc \in Verified /\ pc \in Prepared
    BY <1>10, UnwindSilent DEF Materialize, Verified, Prepared, Recognising
  <2>2. Heard = planned
    BY <2>1 DEF AudioSound, Heard
  <2>3. pc' \in Prepared => slot'.source = planned /\ pc' # "write"
    BY <1>10, <2>2, UnwindSilent DEF Materialize
  <2>4. ResultsSound'
    BY <1>10, <2>1, <2>3 DEF Materialize, ResultsSound, evidence
  <2> QED BY <1>10, <2>1, <2>4, SoundFrame DEF Materialize, evidence, machine
<1>11. ASSUME Transcribe PROVE Sound'
  <2>1. /\ pc = "transcribe" /\ pc' = "save" /\ pc' # "idle"
        /\ pc \in Verified /\ pc \in Prepared /\ pc \in InFlight
    BY <1>11 DEF Transcribe, Verified, Prepared, Recognising, InFlight
  <2>2. ResultsSound'
    BY <1>11, <2>1 DEF Transcribe, ResultsSound, evidence, run
  <2> QED BY <1>11, <2>1, <2>2, SoundFrame DEF Transcribe, evidence, machine,
          run
<1>12. ASSUME SaveSegment PROVE Sound'
  <2>1. /\ pc = "save" /\ pc' # "idle" /\ pc' # "write"
        /\ pc \in Verified /\ pc \in Prepared /\ pc \in InFlight
    BY <1>12, UnwindSilent DEF SaveSegment, Verified, Prepared, Recognising,
       InFlight
  <2>2. ResultsSound'
    BY <1>12, <2>1 DEF SaveSegment, ResultsSound, run
  <2>3. slot \in Piece /\ slot.source = manifest
    BY <2>1 DEF ResultsSound, TypeInv, RunOK
  <2>4. CheckpointsSound'
    BY <1>12, <2>3 DEF SaveSegment, CheckpointsSound, Saved, TypeInv, TypeOK,
       DiskOK
  <2> QED BY <1>12, <2>1, <2>2, <2>4, SoundFrame DEF SaveSegment, machine, run
<1>13. ASSUME Note PROVE Sound'
  <2>1. /\ pc = "note" /\ pc' # "idle" /\ pc' \notin InFlight
        /\ pc \in Verified /\ pc \in Prepared /\ pc \in InFlight
    BY <1>13 DEF Note, Verified, Prepared, Recognising, InFlight
  <2>2. /\ results \in Seq(Piece) /\ slot \in Piece
        /\ slot.window = Len(results) /\ slot.source = planned
    BY <2>1 DEF ResultsSound, TypeInv, TypeOK, RunOK, WorkerOK
  <2>3. /\ results' = Append(results, slot)
        /\ Len(results') = Len(results) + 1
        /\ results'[Len(results) + 1] = slot
        /\ \A i \in 1 .. Len(results) : results'[i] = results[i]
    BY <1>13, <2>2 DEF Note
  <2>4. \A i \in 1 .. Len(results') : /\ results'[i].window = i - 1
                                      /\ results'[i].source = planned
    BY <2>1, <2>2, <2>3 DEF ResultsSound
  <2>5. pc' = "write" => Len(results') = N
    BY <1>13 DEF Note
  <2>6. ResultsSound'
    BY <1>13, <2>1, <2>4, <2>5 DEF Note, ResultsSound, disk, evidence
  <2> QED BY <1>13, <2>1, <2>6, SoundFrame DEF Note, disk, evidence, machine
<1>14. ASSUME WriteArtifact PROVE Sound'
  <2>1. /\ pc = "write" /\ pc' # "idle" /\ pc' \notin Prepared
        /\ pc \in Verified /\ pc \in Prepared
    BY <1>14, UnwindSilent DEF WriteArtifact, Verified, Prepared, Recognising
  <2>2. /\ results \in Seq(Piece) /\ planned \in Sources /\ Len(results) = N
        /\ \A i \in 1 .. Len(results) : results[i].source = planned
    BY <2>1 DEF ResultsSound, TypeInv, TypeOK, RunOK, WorkerOK
  <2>3. CASE Assemblable(results)
    <3>1. results = [i \in 1 .. N |-> [window |-> i - 1,
                                       engine |-> results[1].engine,
                                       source |-> planned]]
      BY <2>2, <2>3, WholeTranscript
    <3>2. ASSUME UNCHANGED output PROVE TranscriptIntegrity'
      BY <3>2, SoundFrame
    <3> DEFINE t == [source |-> planned, engine |-> results[1].engine,
                     segments |-> results]
    <3>3. ASSUME output' = [output EXCEPT ![name] = t]
          PROVE  TranscriptIntegrity'
      <4>1. t.segments = [i \in 1 .. N |-> [window |-> i - 1,
                                            engine |-> t.engine,
                                            source |-> t.source]]
        BY <3>1
      <4> HIDE DEF t
      <4>2. \A n \in Names : output'[n] = output[n] \/ output'[n] = t
        BY <3>3 DEF TypeInv, TypeOK, DiskOK
      <4> DEFINE Right(u) == u.segments = [i \in 1 .. N |->
                                             [window |-> i - 1,
                                              engine |-> u.engine,
                                              source |-> u.source]]
      <4>3. \A n \in Names : output[n] \notin {Free, Reserved} =>
              Right(output[n])
        BY DEF TranscriptIntegrity, Published
      <4>4. Right(t)
        BY <4>1
      <4> HIDE DEF Right
      <4>5. \A n \in Names : output'[n] \notin {Free, Reserved} =>
              Right(output'[n])
        BY <4>2, <4>3, <4>4
      <4> QED BY <4>5 DEF Right, TranscriptIntegrity, Published
    <3>4. TranscriptIntegrity'
      BY <1>14, <3>2, <3>3 DEF WriteArtifact
    <3> QED BY <1>14, <2>1, <3>4, SoundFrame DEF WriteArtifact, evidence,
            machine, run
  <2>4. CASE ~Assemblable(results)
    BY <1>14, <2>1, <2>4, SoundFrame DEF WriteArtifact, evidence, machine, run
  <2> QED BY <2>3, <2>4
<1>15. ASSUME Clear PROVE Sound'
  <2>1. pc' \in {"clear", "sweep"}
    BY <1>15 DEF Clear
  <2>2. pc' # "idle" /\ pc' \notin Verified /\ pc' \notin Prepared
    BY <2>1 DEF Verified, Prepared, Recognising
  <2>3. CheckpointsSound'
    BY <1>15 DEF Clear, CheckpointsSound, Saved, TypeInv, TypeOK, DiskOK
  <2> QED BY <1>15, <2>2, <2>3, SoundFrame DEF Clear, machine, run
<1>16. ASSUME Sweep PROVE Sound'
  <2>1. pc' # "idle" /\ pc' \notin Verified /\ pc' \notin Prepared
    BY <1>16 DEF Sweep, Verified, Prepared, Recognising
  <2> QED BY <1>16, <2>1, SoundFrame DEF Sweep, evidence, machine
<1>17. ASSUME Release PROVE Sound'
  <2>1. pc' # "idle" /\ pc' \notin Verified /\ pc' \notin Prepared
    BY <1>17 DEF Release, Verified, Prepared, Recognising
  <2>2. \A n \in Names : output'[n] \notin {Free, Reserved} =>
          output'[n] = output[n] /\ n \in Published
    BY <1>17 DEF Release, TypeInv, TypeOK, DiskOK, Published
  <2>3. TranscriptIntegrity'
    BY <2>2 DEF TranscriptIntegrity, Published
  <2> QED BY <1>17, <2>1, <2>3, SoundFrame DEF Release, evidence, machine, run
<1>18. ASSUME Complete \/ Report \/ RecordFails \/ Crash PROVE Sound'
  <2>1. Exit /\ UNCHANGED <<manifest, ckpt, output>>
    BY <1>18 DEF Complete, Report, RecordFails, Crash, disk, evidence
  <2> QED BY <2>1, ExitSound, SoundFrame
<1>19. ASSUME Worker PROVE Sound'
  BY <1>3, <1>4, <1>6, <1>7, <1>8, <1>9, <1>10, <1>11, <1>12, <1>13, <1>14,
     <1>15, <1>16, <1>17, <1>18, <1>19 DEF Worker
<1>20. ASSUME \/ StepFails \/ ClearFails \/ ReleaseFails
              \/ EnhancedSweepFails \/ DecodedSweepFails \/ Interrupt
       PROVE  Sound'
  <2>1. UNCHANGED <<manifest, ckpt, output, source, planned, audio>>
    BY <1>20 DEF StepFails, ClearFails, ReleaseFails, EnhancedSweepFails,
       DecodedSweepFails, Interrupt, disk, evidence, machine, run
  <2>2. pc' \in {"report", "release", "sweep"}
    BY <1>20 DEF StepFails, Raise, Unwind, ClearFails, ReleaseFails,
       EnhancedSweepFails, DecodedSweepFails, Interrupt
  <2>3. pc' # "idle" /\ pc' \notin Verified /\ pc' \notin Prepared
    BY <2>2 DEF Verified, Prepared, Recognising
  <2> QED BY <2>1, <2>3, SoundFrame
<1>21. ASSUME Faulty PROVE Sound'
  BY <1>18, <1>20, <1>21 DEF Faulty
<1>22. ASSUME pc = "idle", UNCHANGED <<pc, planned, audio>>
       PROVE  AudioSound' /\ ResultsSound'
  <2>1. pc' \notin Verified /\ pc' \notin Prepared
    BY <1>22 DEF Verified, Prepared, Recognising
  <2> QED BY <1>22, <2>1 DEF AudioSound, ResultsSound
<1>23. ASSUME Reconcile \/ UpgradeEngine PROVE Sound'
  BY <1>22, <1>23, SoundFrame DEF Reconcile, UpgradeEngine, disk, evidence, run
<1>24. ASSUME Discard \/ Retain PROVE Sound'
  BY <1>22, <1>24, RemovedSound, SoundFrame DEF Discard, Retain, Settled, run
<1>25. ASSUME EditSource PROVE Sound'
  <2>1. pc' = pc /\ pc' \notin Verified /\ pc' \notin Prepared
    BY <1>25 DEF EditSource, Verified, Prepared, Recognising
  <2>2. AudioSound'
    BY <1>25, <2>1 DEF EditSource, AudioSound, run
  <2> QED BY <1>25, <2>1, <2>2, SoundFrame DEF EditSource, disk, evidence
<1>26. ASSUME Environment PROVE Sound'
  BY <1>23, <1>24, <1>25, <1>26 DEF Environment
<1>27. ASSUME UNCHANGED vars PROVE Sound'
  <2>1. AudioSound' /\ ResultsSound'
    BY <1>27 DEF vars, disk, evidence, machine, run, AudioSound, ResultsSound
  <2> QED BY <1>27, <2>1, SoundFrame DEF vars, disk, evidence
<1> QED BY <1>2, <1>19, <1>21, <1>26, <1>27 DEF Next, Rest

\* If nobody edits the recording while a worker listens to it, every published
\* transcript is whole, in order, of one engine version, and was heard from
\* the bytes whose fingerprint it claims.
THEOREM Integrity ==
  ASSUME EditDuringRun = FALSE
  PROVE  Spec => []TranscriptIntegrity
<1>1. Init => TypeInv /\ Sound
  BY TypeInit, SoundInit
<1>2. TypeInv /\ Sound /\ [Next]_vars => (TypeInv /\ Sound)'
  BY TypeStep, SoundStep
<1>3. Sound => TranscriptIntegrity
  BY DEF Sound
<1> QED BY <1>1, <1>2, <1>3, PTL DEF Spec

-----------------------------------------------------------------------------
(* What is kept, restored and given back.                                   *)

\* The steps at which the worker holds a reserved, empty artifact.
Claimed == {"decode", "enhance", "segment", "prepare"} \cup Prepared

\* The steps after its transcript was published.
Closing == pc = "clear" \/ pc = "complete" \/ (pc = "sweep" /\ cause = "none")

\* Which artifact name is the worker's, and what lies under it.
Holding ==
  /\ pc \in Claimed => name \in Names /\ output[name] = Reserved
  /\ Closing => name \in Published
  /\ pc = "release" => /\ name \in Names /\ cause # "none"
                       /\ output[name] = Reserved \/ Interruptible

\* An action that leaves the artifacts alone only has to go the right way.
LEMMA HoldingFrame ==
  ASSUME Holding, UNCHANGED <<output, name>>,
         pc' \in Claimed => pc \in Claimed,
         Closing' => Closing,
         pc' = "release" => /\ cause' # "none"
                            /\ \/ pc \in Claimed \/ pc = "release"
                               \/ pc = "clear" /\ Interruptible
  PROVE  Holding'
<1>1. Published' = Published
  BY DEF Published
<1>2. pc = "clear" => name \in Published
  BY DEF Holding, Closing
<1>3. name \in Published => name \in Names
  BY DEF Published
<1> QED BY <1>1, <1>2, <1>3 DEF Holding

\* A step that ends in neither of these places keeps it whatever it does.
LEMMA HoldingElsewhere ==
  ASSUME pc' \in {"idle", "admit", "claim", "reserve", "report"}
  PROVE  Holding'
<1>1. pc' \notin Claimed
  BY DEF Claimed, Prepared, Recognising
<1> QED BY <1>1 DEF Holding, Closing

LEMMA RaiseWhere ==
  ASSUME Raise
  PROVE  /\ cause' = "failed"
         /\ pc \in Unprotected => pc' = "report"
         /\ pc \notin Unprotected => pc' = "release"
BY DEF Raise, Unwind

LEMMA RaiseHolding ==
  ASSUME Holding, Raise, pc \in Claimed, UNCHANGED <<output, name>>
  PROVE  Holding'
<1>1. pc \notin Unprotected
  BY DEF Claimed, Unprotected, Prepared, Recognising
<1>2. pc' = "release" /\ cause' # "none"
  BY <1>1, RaiseWhere
<1>3. pc' \notin Claimed /\ ~Closing'
  BY <1>2 DEF Claimed, Prepared, Recognising, Closing
<1> QED BY <1>2, <1>3, HoldingFrame

\* A piece of transcript is no reservation.
LEMMA WrittenIsPublished ==
  ASSUME TypeInv, pc = "write", Assemblable(results)
  PROVE  [source |-> planned, engine |-> results[1].engine,
          segments |-> results] \notin {Free, Reserved}
<1>1. results \in Seq(Piece) /\ planned \in Sources /\ results # <<>>
  BY DEF Assemblable, TypeInv, TypeOK, RunOK, WorkerOK
<1>2. results[1] \in Piece
  BY <1>1
<1>3. results[1].engine \in Versions
  BY <1>2 DEF Piece
<1> QED BY <1>1, <1>3, NamesAssumption DEF Transcript

LEMMA HoldingStep ==
  ASSUME TypeInv, Holding, [Next]_vars
  PROVE  Holding'
<1>1. ASSUME Start \/ Resume \/ Admit \/ Claim PROVE Holding'
  <2>1. pc' \in {"admit", "claim", "reserve", "report"}
    BY <1>1, RaiseWhere DEF Start, Resume, Launch, Admit, Claim, Unprotected
  <2> QED BY <2>1, HoldingElsewhere
<1>2. ASSUME Reserve PROVE Holding'
  <2>1. CASE Raise
    BY <1>2, <2>1, RaiseWhere, HoldingElsewhere DEF Reserve, Unprotected
  <2>2. CASE \E n \in Names : /\ name' = n
                              /\ output' = [output EXCEPT ![n] = Reserved]
                              /\ pc' = "decode"
    <3>1. name' \in Names /\ output'[name'] = Reserved
      BY <2>2 DEF TypeInv, TypeOK, DiskOK
    <3> QED BY <2>2, <3>1 DEF Holding, Closing
  <2> QED BY <1>2, <2>1, <2>2 DEF Reserve
<1>3. ASSUME NEW file, NEW next \in {"enhance", "segment"},
             pc \in Claimed, Derive(file, next)
      PROVE  Holding'
  <2>1. UNCHANGED <<output, name>>
    BY <1>3 DEF Derive
  <2>2. CASE Raise
    BY <1>3, <2>1, <2>2, RaiseHolding
  <2>3. CASE pc' = next
    BY <1>3, <2>1, <2>3, HoldingFrame DEF Closing
  <2> QED BY <1>3, <2>2, <2>3 DEF Derive
<1>4. ASSUME Decode \/ EnhanceAudio PROVE Holding'
  <2>1. pc \in Claimed
    BY <1>4 DEF Decode, EnhanceAudio, Claimed
  <2>2. CASE \E file \in Derived, next \in {"enhance", "segment"} :
               Derive(file, next)
    BY <1>3, <2>1, <2>2
  <2>3. CASE /\ pc' \in {"enhance", "segment"}
             /\ UNCHANGED <<disk, rec, machine, run, cause, history>>
    BY <2>1, <2>3, HoldingFrame DEF disk, run, Closing
  <2> QED BY <1>4, <2>2, <2>3 DEF Decode, EnhanceAudio, Derived
<1>5. ASSUME Segment \/ Prepare \/ Open \/ Materialize \/ Transcribe
               \/ SaveSegment \/ Note
      PROVE  Holding'
  <2>1. pc \in Claimed
    BY <1>5 DEF Segment, Prepare, Open, Materialize, Transcribe, SaveSegment,
       Note, Claimed, Prepared, Recognising
  <2>2. UNCHANGED <<output, name>>
    BY <1>5 DEF Segment, Prepare, Open, Materialize, Transcribe, SaveSegment,
       Note, disk, run
  <2>3. \/ Raise
        \/ pc' \in {"prepare", "open", "materialize", "transcribe", "save",
                    "note", "write"}
    BY <1>5 DEF Segment, Prepare, Open, Materialize, Transcribe, SaveSegment,
       Note
  <2>4. CASE Raise
    BY <2>1, <2>2, <2>4, RaiseHolding
  <2>5. CASE pc' \in {"prepare", "open", "materialize", "transcribe", "save",
                      "note", "write"}
    BY <2>1, <2>2, <2>5, HoldingFrame DEF Closing
  <2> QED BY <2>3, <2>4, <2>5
<1>6. ASSUME WriteArtifact PROVE Holding'
  <2>1. pc = "write" /\ pc \in Claimed /\ name' = name
    BY <1>6 DEF WriteArtifact, run, Claimed, Prepared
  <2>2. CASE Raise /\ UNCHANGED output
    BY <2>1, <2>2, RaiseHolding
  <2>3. CASE Assemblable(results)
    <3>1. /\ pc' = "clear" /\ name \in Names
          /\ output'[name] \notin {Free, Reserved}
      BY <1>6, <2>1, <2>3, WrittenIsPublished
         DEF WriteArtifact, Holding, TypeInv, TypeOK, DiskOK
    <3>2. name' \in Published'
      BY <2>1, <3>1 DEF Published
    <3>3. pc' \notin Claimed
      BY <3>1 DEF Claimed, Prepared, Recognising
    <3> QED BY <3>1, <3>2, <3>3 DEF Holding
  <2> QED BY <1>6, <2>2, <2>3 DEF WriteArtifact
<1>7. ASSUME Clear \/ ClearFails PROVE Holding'
  <2>1. pc = "clear" /\ pc' \in {"clear", "sweep"} /\ UNCHANGED <<output, name>>
    BY <1>7 DEF Clear, ClearFails, disk, run
  <2>2. pc' \notin Claimed
    BY <2>1 DEF Claimed, Prepared, Recognising
  <2>3. Closing
    BY <2>1 DEF Closing
  <2> QED BY <2>1, <2>2, <2>3, HoldingFrame
<1>8. ASSUME Sweep \/ EnhancedSweepFails PROVE Holding'
  <2>1. /\ pc = "sweep" /\ pc' \in {"sweep", "complete", "report"}
        /\ pc' = "complete" => cause = "none"
        /\ UNCHANGED <<output, name, cause>>
    BY <1>8 DEF Sweep, EnhancedSweepFails, disk
  <2>2. pc' \notin Claimed
    BY <2>1 DEF Claimed, Prepared, Recognising
  <2>3. Closing' => Closing
    BY <2>1 DEF Closing
  <2> QED BY <2>1, <2>2, <2>3, HoldingFrame
<1>9. ASSUME Release \/ ReleaseFails PROVE Holding'
  <2>1. cause # "none" /\ cause' = cause /\ pc' = "sweep"
    BY <1>9 DEF Release, ReleaseFails, Holding
  <2>2. pc' \notin Claimed
    BY <2>1 DEF Claimed, Prepared, Recognising
  <2> QED BY <2>1, <2>2 DEF Holding, Closing
<1>10. ASSUME Complete \/ Report \/ RecordFails \/ Crash \/ DecodedSweepFails
       PROVE  Holding'
  <2>1. pc' \in {"idle", "report"}
    BY <1>10 DEF Complete, Report, RecordFails, Crash, DecodedSweepFails, Exit
  <2> QED BY <2>1, HoldingElsewhere
<1>11. ASSUME StepFails PROVE Holding'
  <2>1. Raise /\ UNCHANGED <<output, name>>
    BY <1>11 DEF StepFails, run
  <2>2. CASE pc \in Unprotected
    BY <2>1, <2>2, RaiseWhere, HoldingElsewhere
  <2>3. CASE pc \notin Unprotected
    <3>1. pc \in Claimed
      BY <1>11, <2>3 DEF StepFails, Unprotected, Claimed, Prepared, Recognising
    <3> QED BY <2>1, <3>1, RaiseHolding
  <2> QED BY <2>2, <2>3
<1>12. ASSUME Interrupt PROVE Holding'
  <2>1. UNCHANGED <<output, name>> /\ cause' # "none" /\ Interruptible
    BY <1>12 DEF Interrupt, run
  <2>2. \/ pc' = "report"
        \/ pc = "release" /\ pc' = "sweep"
        \/ pc' = "release" /\ (pc \in Claimed \/ pc = "clear")
    <3>1. pc \in Steps
      BY DEF TypeInv, TypeOK, WorkerOK
    <3> QED BY <1>12, <3>1 DEF Interrupt, Unprotected, Steps, Claimed, Prepared,
               Recognising
  <2>3. pc' # "report" => pc' \notin Claimed
    BY <2>2 DEF Claimed, Prepared, Recognising
  <2>4. pc' # "report" => ~Closing'
    BY <2>1, <2>2 DEF Closing
  <2>5. CASE pc' = "report"
    BY <2>5, HoldingElsewhere
  <2> QED BY <2>1, <2>2, <2>3, <2>4, <2>5, HoldingFrame
<1>13. ASSUME Environment \/ UNCHANGED vars PROVE Holding'
  <2>1. UNCHANGED <<output, name, pc, cause>>
    BY <1>13 DEF Environment, Reconcile, Discard, Retain, EditSource,
       UpgradeEngine, run, disk, vars
  <2> QED BY <2>1 DEF Holding, Closing, Published
<1>14. ASSUME Worker PROVE Holding'
  BY <1>1, <1>2, <1>4, <1>5, <1>6, <1>7, <1>8, <1>9, <1>10, <1>14 DEF Worker
<1>15. ASSUME Faulty PROVE Holding'
  BY <1>7, <1>8, <1>9, <1>10, <1>11, <1>12, <1>15 DEF Faulty
<1> QED BY <1>1, <1>13, <1>14, <1>15 DEF Next, Rest

-----------------------------------------------------------------------------
(* What is published.                                                      *)

\* Three actions touch the artifacts.
LEMMA OutputFrame ==
  ASSUME [Next]_vars
  PROVE  Reserve \/ WriteArtifact \/ Release \/ UNCHANGED output
<1>1. ASSUME Worker
      PROVE  Reserve \/ WriteArtifact \/ Release \/ UNCHANGED output
  BY <1>1 DEF Worker, Admit, Claim, Decode, EnhanceAudio, Derive, Segment,
     Prepare, Open, Materialize, Transcribe, SaveSegment, Note, Clear, Sweep,
     Complete, Report, disk
<1>2. ASSUME Faulty PROVE UNCHANGED output
  BY <1>2 DEF Faulty, Crash, StepFails, ClearFails, ReleaseFails,
     EnhancedSweepFails, DecodedSweepFails, RecordFails, Interrupt, disk
<1>3. ASSUME Start \/ Resume \/ Environment \/ UNCHANGED vars
      PROVE  UNCHANGED output
  BY <1>3 DEF Start, Resume, Launch, Environment, Reconcile, Discard, Retain,
     EditSource, UpgradeEngine, vars, disk
<1> QED BY <1>1, <1>2, <1>3 DEF Next, Rest

\* Reserving, publishing and releasing meet no published transcript, unless an
\* interrupt has sent the worker back from the clearing.
LEMMA PublicationStep ==
  ASSUME TypeInv, Holding, [Next]_vars, ~Interruptible \/ pc # "release"
  PROVE  \A n \in Published : output'[n] = output[n] /\ n \in Published'
<1> SUFFICES ASSUME NEW n \in Published PROVE output'[n] = output[n]
  BY DEF Published
<1>1. n \in Names /\ output[n] \notin {Free, Reserved}
  BY DEF Published
<1>2. CASE Reserve
  BY <1>1, <1>2 DEF Reserve, FirstFree, TypeInv, TypeOK, DiskOK
<1>3. CASE WriteArtifact
  <2>1. pc \in Claimed
    BY <1>3 DEF WriteArtifact, Claimed, Prepared
  <2>2. output[name] = Reserved
    BY <2>1 DEF Holding
  <2> QED BY <1>1, <1>3, <2>2 DEF WriteArtifact, TypeInv, TypeOK, DiskOK
<1>4. CASE Release
  <2>1. output[name] = Reserved
    BY <1>4 DEF Release, Holding
  <2> QED BY <1>1, <1>4, <2>1 DEF Release, TypeInv, TypeOK, DiskOK
<1> QED BY <1>2, <1>3, <1>4, OutputFrame

LEMMA HoldingInit == Init => Holding
<1> SUFFICES ASSUME Init PROVE Holding
  OBVIOUS
<1>1. pc = "idle"
  BY DEF Init
<1>2. pc \notin Claimed
  BY <1>1 DEF Claimed, Prepared, Recognising
<1> QED BY <1>1, <1>2 DEF Holding, Closing

\* The name a worker reserved stays its own: reserve_artifact's empty file lies
\* there until the transcript replaces it or the release deletes it.
THEOREM HoldingAlways == Spec => [](TypeInv /\ Holding)
<1>1. Init => TypeInv /\ Holding
  BY TypeInit, HoldingInit
<1>2. TypeInv /\ Holding /\ [Next]_vars => (TypeInv /\ Holding)'
  BY TypeStep, HoldingStep
<1> QED BY <1>1, <1>2, PTL DEF Spec

\* PublishedStays for every job of the desktop, where no Ctrl-C reaches the
\* worker: whatever crashes, fails or is resumed, save_file, reserve_file and
\* _release_failed_artifact leave published transcripts alone.
THEOREM PublicationIsFinal ==
  ASSUME Interruptible = FALSE
  PROVE  Spec => PublishedStays
<1>1. TypeInv /\ Holding /\ [Next]_vars =>
        [\A n \in Published : output'[n] = output[n]]_vars
  BY PublicationStep
<1> QED BY HoldingAlways, <1>1, PTL DEF Spec, PublishedStays

\* NoWorkLost, under Ctrl-C too: only clear deletes a checkpoint in a workspace
\* that stays, and only after the artifact was written.
THEOREM WorkIsKept == Spec => NoWorkLost
<1>1. TypeInv /\ Holding /\ [Next]_vars =>
        [\A w \in Saved : ckpt'[w] = None => Published # {} \/ ~workspace']_vars
  <2> SUFFICES ASSUME TypeInv, Holding, Next, NEW w \in Saved, ckpt'[w] = None
               PROVE  Published # {} \/ ~workspace'
    OBVIOUS
  <2>1. ckpt' # ckpt
    BY DEF Saved
  <2>2. CASE Worker
    <3>1. Clear \/ SaveSegment
      BY <2>1, <2>2 DEF Worker, Admit, Claim, Reserve, Decode, EnhanceAudio,
         Derive, Segment, Prepare, Open, Materialize, Transcribe, Note,
         WriteArtifact, Sweep, Release, Complete, Report, disk, evidence
    <3>2. CASE SaveSegment
      <4>1. ckpt' = [ckpt EXCEPT ![slot.window] = slot] /\ pc \in InFlight
        BY <2>1, <3>2 DEF SaveSegment, InFlight
      <4>2. slot \in Piece /\ ckpt \in [Windows -> Piece \cup {None}]
        BY <4>1 DEF TypeInv, TypeOK, RunOK, DiskOK
      <4> QED BY <4>1, <4>2, NoneAssumption DEF Saved
    <3>3. CASE Clear
      BY <3>3 DEF Clear, Holding, Closing
    <3> QED BY <3>1, <3>2, <3>3
  <2>3. CASE Faulty
    BY <2>1, <2>3 DEF Faulty, Crash, StepFails, ClearFails, ReleaseFails,
       EnhancedSweepFails, DecodedSweepFails, RecordFails, Interrupt, disk,
       evidence
  <2>4. CASE Start \/ Resume \/ Environment \/ Rest
    BY <2>1, <2>4 DEF Start, Resume, Launch, Environment, Reconcile, Discard,
       Retain, RemoveWorkspace, EditSource, UpgradeEngine, Rest, vars, disk,
       evidence
  <2> QED BY <2>2, <2>3, <2>4 DEF Next
<1> QED BY HoldingAlways, <1>1, PTL DEF Spec, NoWorkLost

-----------------------------------------------------------------------------
(* What the lifecycle record and the workspace say.                        *)

\* The record of a job that a worker runs, and of one that nobody ever ran.
Recorded ==
  /\ pc # "idle" => rec.status = "running"
  /\ rec.status = "absent" => rec.completed = 0
  /\ pc \in {"admit", "claim"} /\ ~resume => rec.completed = 0
  /\ CompletedIsPublished

\* Where checkpoints are, and where a worker makes them, is a workspace.
Housed ==
  /\ ~workspace => manifest = None /\ Saved = {}
  /\ pc = "reserve" \/ pc \in Claimed => workspace

LEMMA RecordedInit == Init => Recorded /\ Housed
<1> SUFFICES ASSUME Init PROVE Recorded /\ Housed
  OBVIOUS
<1>1. pc = "idle" /\ Saved = {} /\ manifest = None
  BY DEF Init, Saved
<1>2. pc \notin Claimed
  BY <1>1 DEF Claimed, Prepared, Recognising
<1> QED BY <1>1, <1>2 DEF Init, Recorded, Housed, CompletedIsPublished

\* The worker's progress reports leave the record running, and the first comes
\* after the workspace is claimed.
LEMMA RecordedStep ==
  ASSUME TypeInv, Holding, Recorded, [Next]_vars
  PROVE  Recorded'
<1> USE DEF Recorded
<1>0. rec \in Records /\ pc \in Steps
  BY DEF TypeInv, TypeOK, WorkerOK
<1>1. ASSUME Start \/ Resume PROVE Recorded'
  BY <1>0, <1>1 DEF Start, Resume, Launch, Records, CompletedIsPublished
<1>2. ASSUME Complete PROVE Recorded'
  <2>1. name \in Published' /\ pc' = "idle"
    BY <1>2 DEF Complete, Holding, Closing, Published, disk, Exit
  <2>2. rec'.status = "completed" /\ rec'.artifact = name
    BY <1>0, <1>2 DEF Complete, Records
  <2> QED BY <2>1, <2>2 DEF CompletedIsPublished
<1>3. ASSUME Report PROVE Recorded'
  <2>1. rec'.status \in {"none", "failed", "interrupted"} /\ pc' = "idle"
    BY <1>0, <1>3 DEF Report, Records, TypeInv, TypeOK, WorkerOK, Causes, Exit
  <2> QED BY <2>1 DEF CompletedIsPublished
<1>4. ASSUME RecordFails \/ Crash PROVE Recorded'
  <2>1. UNCHANGED <<rec, output>> /\ pc' = "idle"
    BY <1>4 DEF RecordFails, Crash, Exit, disk
  <2> QED BY <2>1 DEF CompletedIsPublished, Published
<1>5. ASSUME pc # "idle", UNCHANGED rec,
             pc' \in {"admit", "claim"} => /\ pc \in {"admit", "claim"}
                                          /\ resume' = resume
      PROVE  Recorded'
  <2>1. rec'.status = "running"
    BY <1>5
  <2> QED BY <1>5, <2>1 DEF CompletedIsPublished
<1>6. ASSUME pc # "idle", NEW c \in 0 .. N, Progress(c),
             pc' \notin {"admit", "claim"}
      PROVE  Recorded'
  <2>1. rec'.status = "running"
    BY <1>0, <1>6 DEF Progress, Records
  <2> QED BY <1>6, <2>1 DEF CompletedIsPublished
<1>7. ASSUME Segment \/ Prepare \/ Note PROVE Recorded'
  <2>1. pc # "idle" /\ pc' \notin {"admit", "claim"}
    BY <1>7, RaiseWhere DEF Segment, Prepare, Note
  <2>2. TypeInv'
    BY TypeStep
  <2>3. 0 \in 0 .. N /\ Len(results') \in 0 .. N
    BY <2>2, CountsAssumption DEF TypeInv, TypeOK, WorkerOK, RunOK
  <2>4. (\E c \in 0 .. N : Progress(c)) \/ UNCHANGED rec
    BY <1>7, <2>3 DEF Segment, Prepare, Note
  <2> QED BY <1>5, <1>6, <2>1, <2>4
<1>8. ASSUME Admit \/ Claim \/ Reserve \/ Decode \/ EnhanceAudio \/ Open
               \/ Materialize \/ Transcribe \/ SaveSegment \/ WriteArtifact
               \/ Clear \/ Sweep \/ Release
      PROVE  Recorded'
  <2>1. pc # "idle" /\ UNCHANGED rec
    BY <1>8 DEF Admit, Claim, Reserve, Decode, EnhanceAudio, Derive, Open,
       Materialize, Transcribe, SaveSegment, WriteArtifact, Clear, Sweep,
       Release
  <2>2. CASE Admit
    BY <1>5, <2>1, <2>2 DEF Admit, run
  <2>3. CASE ~Admit
    <3>1. pc' \notin {"admit", "claim"}
      BY <1>8, <2>3, RaiseWhere DEF Claim, Reserve, Decode, EnhanceAudio,
         Derive, Open, Materialize, Transcribe, SaveSegment, WriteArtifact,
         Clear, Sweep, Release
    <3> QED BY <1>5, <2>1, <3>1
  <2> QED BY <2>2, <2>3
<1>9. ASSUME StepFails \/ ClearFails \/ ReleaseFails \/ EnhancedSweepFails
               \/ DecodedSweepFails \/ Interrupt
      PROVE  Recorded'
  <2>1. pc # "idle" /\ UNCHANGED rec
    BY <1>9 DEF StepFails, ClearFails, ReleaseFails, EnhancedSweepFails,
       DecodedSweepFails, Interrupt
  <2>2. pc' \notin {"admit", "claim"}
    BY <1>9, RaiseWhere DEF StepFails, ClearFails, ReleaseFails,
       EnhancedSweepFails, DecodedSweepFails, Interrupt
  <2> QED BY <1>5, <2>1, <2>2
<1>10. ASSUME Environment \/ UNCHANGED vars PROVE Recorded'
  <2>1. UNCHANGED <<output, pc, resume>> /\ (Environment => pc = "idle" \/
                                             UNCHANGED rec)
    BY <1>10 DEF Environment, Reconcile, Discard, Settled, Retain, EditSource,
       UpgradeEngine, run, disk, vars
  <2>2. CASE UNCHANGED rec
    BY <2>1, <2>2 DEF CompletedIsPublished, Published
  <2>3. CASE Reconcile \/ Discard
    BY <1>0, <2>3 DEF Reconcile, Discard, Settled, Records, run,
       CompletedIsPublished
  <2> QED BY <1>10, <2>2, <2>3 DEF Environment, Retain, EditSource,
             UpgradeEngine, vars
<1>11. ASSUME Worker PROVE Recorded'
  BY <1>2, <1>3, <1>7, <1>8, <1>11 DEF Worker
<1>12. ASSUME Faulty PROVE Recorded'
  BY <1>4, <1>9, <1>12 DEF Faulty
<1> QED BY <1>1, <1>10, <1>11, <1>12 DEF Next, Rest

\* CompletedIsPublished for every job, crash and Ctrl-C: complete() runs only
\* for an artifact that save_file has replaced and nobody withdraws any more.
THEOREM CompletionIsTrue == Spec => []CompletedIsPublished
<1>1. Init => Recorded
  BY RecordedInit
<1>2. TypeInv /\ Holding /\ Recorded /\ [Next]_vars => Recorded'
  BY RecordedStep
<1>3. Recorded => CompletedIsPublished
  BY DEF Recorded
<1> QED BY HoldingAlways, <1>1, <1>2, <1>3, PTL DEF Spec

-----------------------------------------------------------------------------
(* What a resume finds.                                                    *)

\* The results are the checkpoints, in order; one recognised piece is saved
\* before it becomes a result.
Mirrored ==
  /\ pc \in Prepared =>
       \A i \in 1 .. Len(results) : i - 1 \in Saved /\ ckpt[i - 1] = results[i]
  /\ pc \in Prepared \ {"note"} => Saved = 0 .. (Len(results) - 1)
  /\ pc = "note" => Saved = 0 .. Len(results) /\ ckpt[Len(results)] = slot
  /\ pc = "write" => Len(results) = N

\* One engine version speaks in all of them.
Uniform == \A v, w \in Saved : ckpt[v].engine = ckpt[w].engine

SameEngine ==
  /\ Published = {} \/ pc \in Prepared => Uniform
  /\ pc \in Recognising => \A w \in Saved : ckpt[w].engine = session
  /\ pc \in InFlight => slot.engine = session

\* Checkpoints belong to a contract, and are a prefix of the plan.
Contracted == manifest = None => Saved = {}
Kept == Contracted /\ (Published = {} => Contiguous(Saved))

Durably == Housed /\ Kept /\ Mirrored /\ SameEngine

LEMMA DurablyInit == Init => Durably
<1> SUFFICES ASSUME Init PROVE Durably
  OBVIOUS
<1>1. pc = "idle" /\ Saved = {} /\ manifest = None
  BY DEF Init, Saved
<1>2. pc \notin Claimed /\ pc \notin Prepared /\ pc \notin Recognising
      /\ pc \notin InFlight
  BY <1>1 DEF Claimed, Prepared, Recognising, InFlight
<1>3. Housed
  BY <1>1, <1>2 DEF Housed
<1>4. {} = 0 .. (0 - 1) /\ 0 \in 0 .. N
  BY CountsAssumption
<1>5. Kept
  BY <1>1, <1>4 DEF Kept, Contracted, Contiguous
<1>6. Mirrored
  BY <1>1, <1>2 DEF Mirrored
<1>7. SameEngine
  BY <1>1, <1>2 DEF SameEngine, Uniform
<1> QED BY <1>3, <1>5, <1>6, <1>7 DEF Durably

\* An exception takes the worker away from the audio and the checkpoints.
LEMMA RaiseLeaves ==
  ASSUME Raise
  PROVE  pc' \notin {"reserve"} \cup Claimed
<1>1. pc' \in {"report", "release"}
  BY DEF Raise, Unwind
<1> QED BY <1>1 DEF Claimed, Prepared, Recognising

\* Who touches the workspace, the contract or the checkpoints.
LEMMA EvidenceFrame ==
  ASSUME [Next]_vars
  PROVE  \/ Claim \/ Prepare \/ SaveSegment \/ Clear
         \/ Discard \/ Retain \/ UNCHANGED evidence
<1>1. ASSUME Worker
      PROVE  Claim \/ Prepare \/ SaveSegment \/ Clear \/ UNCHANGED evidence
  BY <1>1 DEF Worker, Admit, Reserve, Decode, EnhanceAudio, Derive, Segment,
     Open, Materialize, Transcribe, Note, WriteArtifact, Sweep, Release,
     Complete, Report, disk
<1>2. ASSUME Faulty PROVE UNCHANGED evidence
  BY <1>2 DEF Faulty, Crash, StepFails, ClearFails, ReleaseFails,
     EnhancedSweepFails, DecodedSweepFails, RecordFails, Interrupt, disk
<1>3. ASSUME Start \/ Resume \/ Environment \/ UNCHANGED vars
      PROVE  Discard \/ Retain \/ UNCHANGED evidence
  BY <1>3 DEF Start, Resume, Launch, Environment, Reconcile, EditSource,
     UpgradeEngine, vars, disk
<1> QED BY <1>1, <1>2, <1>3 DEF Next, Rest

\* How a worker comes to where it works on the checkpoints, or for them.
LEMMA PreparedFrom ==
  ASSUME [Next]_vars, TypeInv, pc' \in Prepared
  PROVE  \/ Prepare \/ Open \/ Materialize \/ Transcribe \/ SaveSegment \/ Note
         \/ UNCHANGED <<pc, run, evidence>>
<1> DEFINE Goal ==
      \/ Prepare \/ Open \/ Materialize \/ Transcribe \/ SaveSegment \/ Note
      \/ UNCHANGED <<pc, run, evidence>>
<1>1. pc' \in {"open", "write", "materialize", "transcribe", "save", "note"}
  BY DEF Prepared, Recognising
<1>2. ~Raise
  BY <1>1 DEF Raise, Unwind
<1>3. ASSUME Worker PROVE Goal
  BY <1>1, <1>2, <1>3 DEF Worker, Admit, Claim, Reserve, Decode, EnhanceAudio,
     Derive, Segment, WriteArtifact, Clear, Sweep, Release, Complete, Report,
     Exit
<1>4. ASSUME Faulty PROVE FALSE
  BY <1>1, <1>2, <1>4 DEF Faulty, Crash, StepFails, ClearFails, ReleaseFails,
     EnhancedSweepFails, DecodedSweepFails, RecordFails, Interrupt, Exit
<1>5. ASSUME Start \/ Resume PROVE FALSE
  BY <1>1, <1>5 DEF Start, Resume, Launch
<1>6. ASSUME Environment PROVE UNCHANGED <<pc, run, evidence>>
  BY <1>1, <1>6 DEF Environment, Reconcile, Discard, Retain, Settled,
     EditSource, UpgradeEngine, disk
<1>7. ASSUME UNCHANGED vars PROVE UNCHANGED <<pc, run, evidence>>
  BY <1>7 DEF vars, disk
<1> QED BY <1>3, <1>4, <1>5, <1>6, <1>7 DEF Next, Rest

LEMMA ClaimedFrom ==
  ASSUME [Next]_vars, TypeInv, pc' \in {"reserve"} \cup Claimed
  PROVE  Claim \/ pc \in {"reserve"} \cup Claimed
<1>1. CASE pc' \in Prepared
  BY <1>1, PreparedFrom DEF Prepare, Open, Materialize, Transcribe,
     SaveSegment, Note, Claimed, Prepared, Recognising
<1>2. CASE pc' \in {"reserve", "decode", "enhance", "segment", "prepare"}
  <2>1. ~Raise
    BY <1>2 DEF Raise, Unwind
  <2>2. ASSUME Worker PROVE Claim \/ pc \in {"reserve"} \cup Claimed
    BY <1>2, <2>1, <2>2 DEF Worker, Admit, Reserve, Decode, EnhanceAudio,
       Derive, Segment, Prepare, Open, Materialize, Transcribe, SaveSegment,
       Note, WriteArtifact, Clear, Sweep, Release, Complete, Report, Exit,
       Claimed
  <2>3. ASSUME Faulty PROVE FALSE
    BY <1>2, <2>1, <2>3 DEF Faulty, Crash, StepFails, ClearFails, ReleaseFails,
       EnhancedSweepFails, DecodedSweepFails, RecordFails, Interrupt, Exit
  <2>4. ASSUME Start \/ Resume PROVE FALSE
    BY <1>2, <2>4 DEF Start, Resume, Launch
  <2>5. ASSUME Environment \/ UNCHANGED vars PROVE UNCHANGED pc
    BY <2>5 DEF Environment, Reconcile, Discard, Retain, EditSource,
       UpgradeEngine, vars
  <2> QED BY <1>2, <2>2, <2>3, <2>4, <2>5 DEF Next, Rest, Claimed
<1> QED BY <1>1, <1>2 DEF Claimed

LEMMA HousedStep ==
  ASSUME TypeInv, Housed, [Next]_vars
  PROVE  Housed'
<1>1. CASE UNCHANGED evidence
  <2>1. Saved' = Saved /\ UNCHANGED <<workspace, manifest>>
    BY <1>1 DEF evidence, Saved
  <2>2. pc' \in {"reserve"} \cup Claimed => workspace
    BY <1>1, ClaimedFrom, RaiseLeaves DEF Housed, Claim, evidence
  <2> QED BY <2>1, <2>2 DEF Housed
<1>2. CASE Claim
  <2>1. CASE Raise
    BY <1>2, <2>1, RaiseLeaves DEF Claim, Housed, Saved
  <2>2. CASE workspace'
    BY <2>2 DEF Housed
  <2> QED BY <1>2, <2>1, <2>2 DEF Claim
<1>3. CASE Prepare \/ SaveSegment
  <2>1. pc \in Claimed /\ workspace' = workspace
    BY <1>3 DEF Prepare, SaveSegment, Claimed, Prepared, Recognising
  <2> QED BY <2>1 DEF Housed
<1>4. CASE Clear
  <2>1. pc' \notin {"reserve"} \cup Claimed
    BY <1>4 DEF Clear, Claimed, Prepared, Recognising
  <2>2. ~workspace => manifest' = None /\ Saved' = {}
    BY <1>4 DEF Clear, Housed, NextToClear, Saved
  <2>3. workspace' = workspace
    BY <1>4 DEF Clear
  <2> QED BY <2>1, <2>2, <2>3 DEF Housed
<1>5. CASE Discard \/ Retain
  <2>1. pc' = "idle"
    BY <1>5 DEF Discard, Retain, Settled
  <2>2. pc' \notin {"reserve"} \cup Claimed
    BY <2>1 DEF Claimed, Prepared, Recognising
  <2>3. manifest' = None /\ Saved' = {}
    BY <1>5 DEF Discard, Retain, RemoveWorkspace, Saved
  <2> QED BY <2>2, <2>3 DEF Housed
<1> QED BY <1>1, <1>2, <1>3, <1>4, <1>5, EvidenceFrame

\* A step into the recognition loop, or round it, is one of the loop's own.
LEMMA SaveGrows ==
  ASSUME TypeInv, Mirrored, SaveSegment, ~Raise
  PROVE  /\ pc = "save" /\ pc' = "note" /\ UNCHANGED <<run, manifest, output>>
         /\ manifest # None
         /\ Len(results) \in Windows /\ slot \in Piece
         /\ Saved = 0 .. (Len(results) - 1) /\ Saved' = 0 .. Len(results)
         /\ ckpt' = [ckpt EXCEPT ![Len(results)] = slot]
<1>1. pc = "save" /\ pc' = "note" /\ UNCHANGED <<run, manifest, output>>
  BY DEF SaveSegment
<1>2. pc \in InFlight /\ pc \in Recognising /\ pc \in Prepared \ {"note"}
  BY <1>1 DEF InFlight, Recognising, Prepared
<1>3. slot \in Piece /\ slot.window = Len(results) /\ Len(results) \in Windows
  BY <1>2, CountsAssumption DEF TypeInv, TypeOK, RunOK, WorkerOK, Windows
<1>4. manifest # None /\ ckpt' = [ckpt EXCEPT ![Len(results)] = slot]
  BY <1>3 DEF SaveSegment
<1>5. Saved = 0 .. (Len(results) - 1)
  BY <1>2 DEF Mirrored
<1>6. Saved' = Saved \cup {Len(results)}
  BY <1>3, <1>4, NoneAssumption DEF Saved, TypeInv, TypeOK, DiskOK
<1>7. Saved' = 0 .. Len(results)
  BY <1>3, <1>5, <1>6 DEF Windows
<1> QED BY <1>1, <1>3, <1>4, <1>5, <1>7

LEMMA MirroredStep ==
  ASSUME TypeInv, Contracted, Mirrored, [Next]_vars
  PROVE  Mirrored'
<1>1. CASE pc' \notin Prepared
  <2>1. pc' # "note" /\ pc' # "write"
    BY <1>1 DEF Prepared, Recognising
  <2> QED BY <1>1, <2>1 DEF Mirrored
<1> SUFFICES ASSUME pc' \in Prepared PROVE Mirrored'
  BY <1>1
<1>2. ~Raise
  BY RaiseLeaves DEF Claimed
<1>3. CASE Prepare
  <2>1. pc' = "open" /\ ckpt' = ckpt /\ Saved' = Saved
    BY <1>2, <1>3 DEF Prepare, Saved
  <2>2. CASE resume
    <3>1. Contiguous(Saved) /\ results' = Restored
      BY <1>2, <1>3, <2>2 DEF Prepare, Restorable
    <3> QED BY <2>1, <3>1, RestoredType DEF Mirrored, TypeInv, TypeOK
  <2>3. CASE ~resume
    <3>1. results' = <<>> /\ Saved = {}
      BY <1>2, <1>3, <2>3 DEF Prepare, Contracted
    <3> QED BY <2>1, <3>1 DEF Mirrored
  <2> QED BY <2>2, <2>3
<1>4. CASE Open \/ Materialize \/ Transcribe
  <2>1. /\ pc \in Prepared \ {"note"} /\ pc' # "note"
        /\ UNCHANGED <<ckpt, results>>
        /\ pc' = "write" => Len(results) = N
    BY <1>2, <1>4 DEF Open, Materialize, Transcribe, Prepared, Recognising,
       disk, evidence, run
  <2>2. Saved' = Saved
    BY <2>1 DEF Saved
  <2> QED BY <2>1, <2>2 DEF Mirrored
<1>5. CASE SaveSegment
  <2>1. /\ pc = "save" /\ pc' = "note" /\ UNCHANGED run
        /\ Len(results) \in Windows /\ slot \in Piece
        /\ Saved = 0 .. (Len(results) - 1) /\ Saved' = 0 .. Len(results)
        /\ ckpt' = [ckpt EXCEPT ![Len(results)] = slot]
    BY <1>2, <1>5, SaveGrows
  <2>2. results' = results /\ slot' = slot /\ pc \in Prepared
    BY <2>1 DEF run, Prepared, Recognising
  <2>3. ckpt \in [Windows -> Piece \cup {None}]
    BY DEF TypeInv, TypeOK, DiskOK
  <2>4. ckpt'[Len(results)] = slot
    BY <2>1, <2>3
  <2>5. \A i \in 1 .. Len(results) : ckpt'[i - 1] = results[i]
    BY <2>1, <2>2, <2>3 DEF Mirrored, Windows, Saved
  <2>6. \A i \in 1 .. Len(results) : i - 1 \in Saved'
    BY <2>1 DEF Windows
  <2> QED BY <2>1, <2>2, <2>4, <2>5, <2>6 DEF Mirrored
<1>6. CASE Note
  <2>1. /\ pc = "note" /\ results' = Append(results, slot)
        /\ UNCHANGED ckpt /\ pc' # "note"
        /\ pc' = "write" => Len(results') = N
    BY <1>6 DEF Note, disk, evidence
  <2>2. pc \in InFlight /\ pc \in Prepared
    BY <2>1 DEF InFlight, Prepared, Recognising
  <2>3. slot \in Piece /\ results \in Seq(Piece)
    BY <2>2 DEF TypeInv, TypeOK, RunOK, WorkerOK
  <2>4. Saved' = Saved /\ Saved = 0 .. Len(results)
    BY <2>1 DEF Saved, Mirrored
  <2>5. Len(results') = Len(results) + 1 /\ results'[Len(results')] = slot
        /\ \A i \in 1 .. Len(results) : results'[i] = results[i]
    BY <2>1, <2>3
  <2>6. Len(results) \in Nat
    BY <2>3
  <2>7. \A i \in 1 .. Len(results) : ckpt[i - 1] = results[i]
    BY <2>2 DEF Mirrored
  <2>8. ckpt[Len(results)] = slot
    BY <2>1 DEF Mirrored
  <2>9. \A i \in 1 .. Len(results') : ckpt[i - 1] = results'[i]
    <3> TAKE i \in 1 .. Len(results')
    <3>1. CASE i = Len(results')
      BY <2>5, <2>6, <2>8, <3>1
    <3>2. CASE i # Len(results')
      BY <2>5, <2>6, <2>7, <3>2
    <3> QED BY <3>1, <3>2
  <2>10. Saved = 0 .. (Len(results') - 1)
    BY <2>4, <2>5, <2>6
  <2>11. \A i \in 1 .. Len(results') : i - 1 \in Saved
    BY <2>5, <2>6, <2>10
  <2> QED BY <2>1, <2>4, <2>9, <2>10, <2>11 DEF Mirrored
<1>7. CASE UNCHANGED <<pc, run, evidence>>
  BY <1>7 DEF Mirrored, run, evidence, Saved
<1> QED BY <1>3, <1>4, <1>5, <1>6, <1>7, PreparedFrom

\* Without Ctrl-C, a job that has published keeps having published.
LEMMA StaysPublic ==
  ASSUME TypeInv, Holding, [Next]_vars, ~Interruptible, Published' = {}
  PROVE  Published = {}
BY PublicationStep

\* Only an owner's deletion, or clear() once every checkpoint is gone, removes
\* the contract.
LEMMA ContractedStep ==
  ASSUME TypeInv, Contracted, Mirrored, [Next]_vars
  PROVE  Contracted'
<1>1. CASE UNCHANGED evidence
  BY <1>1 DEF evidence, Contracted, Saved
<1>2. CASE Claim \/ Prepare \/ (SaveSegment /\ Raise)
  <2>1. ckpt' = ckpt /\ Saved' = Saved
    BY <1>2 DEF Claim, Prepare, SaveSegment, Raise, Unwind, Saved
  <2>2. manifest' = manifest \/ manifest' # None
    <3>1. pc = "prepare" => planned # None
      BY NoneAssumption DEF TypeInv, RunOK
    <3> QED BY <1>2, <3>1 DEF Claim, Prepare, SaveSegment
  <2> QED BY <2>1, <2>2 DEF Contracted
<1>3. CASE SaveSegment /\ ~Raise
  BY <1>3, SaveGrows DEF Contracted
<1>4. CASE Clear
  BY <1>4 DEF Clear, Contracted, NextToClear, Saved
<1>5. CASE Discard \/ Retain
  BY <1>5 DEF Discard, Retain, RemoveWorkspace, Saved, Contracted
<1> QED BY <1>1, <1>2, <1>3, <1>4, <1>5, EvidenceFrame

LEMMA KeptStep ==
  ASSUME TypeInv, Holding, Kept, Mirrored, [Next]_vars, ~Interruptible
  PROVE  Kept'
<1> SUFFICES ASSUME Published' = {} PROVE Contiguous(Saved')
  BY ContractedStep DEF Kept
<1>1. CASE UNCHANGED evidence \/ Claim \/ Prepare \/ (SaveSegment /\ Raise)
  <2>1. Saved' = Saved
    BY <1>1 DEF evidence, Claim, Prepare, SaveSegment, Raise, Unwind, Saved
  <2> QED BY <2>1, StaysPublic DEF Kept
<1>2. CASE SaveSegment /\ ~Raise
  <2>1. Len(results) \in Windows /\ Saved' = 0 .. Len(results)
    BY <1>2, SaveGrows
  <2>2. Len(results) + 1 \in 0 .. N /\ Saved' = 0 .. ((Len(results) + 1) - 1)
    BY <2>1, CountsAssumption DEF Windows
  <2> QED BY <2>2 DEF Contiguous
<1>3. CASE Clear
  <2>1. Published # {} /\ output' = output
    BY <1>3 DEF Clear, Holding, Closing
  <2> QED BY <2>1 DEF Published
<1>4. CASE Discard \/ Retain
  <2>1. Saved' = {}
    BY <1>4 DEF Discard, Retain, RemoveWorkspace, Saved
  <2>2. {} = 0 .. (0 - 1) /\ 0 \in 0 .. N
    BY CountsAssumption
  <2> QED BY <2>1, <2>2 DEF Contiguous
<1> QED BY <1>1, <1>2, <1>3, <1>4, EvidenceFrame

\* Outside the recognition loop checkpoints only disappear.
LEMMA OnlyShrinks ==
  ASSUME TypeInv, [Next]_vars, ~(SaveSegment /\ ~Raise)
  PROVE  \A w \in Saved' : w \in Saved /\ ckpt'[w] = ckpt[w]
<1>1. CASE UNCHANGED ckpt
  BY <1>1 DEF Saved
<1>2. CASE Clear
  BY <1>2 DEF Clear, Saved, TypeInv, TypeOK, DiskOK
<1>3. CASE Discard \/ Retain
  BY <1>3 DEF Discard, Retain, RemoveWorkspace, Saved
<1> QED BY <1>1, <1>2, <1>3, EvidenceFrame DEF Claim, Prepare, SaveSegment,
       Raise, Unwind, evidence

LEMMA SameEngineStep ==
  ASSUME TypeInv, Holding, Kept, Mirrored, SameEngine, [Next]_vars,
         ~Interruptible
  PROVE  SameEngine'
<1>1. CASE pc' \notin Prepared
  <2>1. ~(SaveSegment /\ ~Raise)
    BY <1>1 DEF SaveSegment, Prepared, Recognising
  <2>2. \A w \in Saved' : w \in Saved /\ ckpt'[w] = ckpt[w]
    BY <2>1, OnlyShrinks
  <2>3. Published' = {} => Uniform'
    BY <2>2, StaysPublic DEF SameEngine, Uniform
  <2>4. pc' \notin Recognising /\ pc' \notin InFlight
    BY <1>1 DEF Prepared, Recognising, InFlight
  <2> QED BY <1>1, <2>3, <2>4 DEF SameEngine
<1> SUFFICES ASSUME pc' \in Prepared PROVE SameEngine'
  BY <1>1
<1>2. ~Raise
  BY RaiseLeaves DEF Claimed
<1>3. CASE Prepare
  <2>1. ckpt' = ckpt /\ Saved' = Saved /\ pc' = "open"
    BY <1>2, <1>3 DEF Prepare, Saved
  <2>2. Uniform
    BY <1>2, <1>3 DEF Prepare, Restorable, Kept, Contracted, Uniform
  <2>3. Uniform'
    BY <2>1, <2>2 DEF Uniform
  <2> QED BY <2>1, <2>3 DEF SameEngine, Recognising, InFlight
<1>4. CASE Open
  <2>1. pc = "open" /\ ckpt' = ckpt /\ Saved' = Saved /\ pc \in Prepared
    BY <1>4 DEF Open, disk, evidence, Saved, Prepared
  <2>2. Uniform /\ Uniform'
    BY <2>1 DEF SameEngine, Uniform
  <2>3. CASE pc' = "write"
    BY <2>2, <2>3 DEF SameEngine, Recognising, InFlight
  <2>4. CASE pc' = "materialize"
    <3>1. /\ session' = installed
          /\ results = <<>> \/ results[1].engine = installed
      BY <1>2, <1>4, <2>4 DEF Open
    <3>2. /\ Saved = 0 .. (Len(results) - 1) /\ results \in Seq(Piece)
          /\ \A i \in 1 .. Len(results) : ckpt[i - 1] = results[i]
      BY <2>1 DEF Mirrored, Prepared, Recognising, TypeInv, TypeOK, WorkerOK
    <3>3. CASE results = <<>>
      <4>1. Saved = {}
        BY <3>2, <3>3
      <4> QED BY <2>1, <2>2, <2>4, <4>1 DEF SameEngine, InFlight
    <3>4. CASE results # <<>>
      <4>1. 1 \in 1 .. Len(results) /\ 0 \in Saved
        BY <3>2, <3>4
      <4>2. ckpt[0].engine = installed
        BY <3>1, <3>2, <3>4, <4>1
      <4>3. \A w \in Saved : ckpt[w].engine = installed
        BY <2>2, <4>1, <4>2 DEF Uniform
      <4> QED BY <2>1, <2>2, <2>4, <3>1, <4>3 DEF SameEngine, InFlight
    <3> QED BY <3>3, <3>4
  <2> QED BY <1>2, <1>4, <2>3, <2>4 DEF Open
<1>5. CASE Materialize \/ Transcribe \/ Note
  <2>1. /\ pc \in Recognising /\ pc \in Prepared
        /\ ckpt' = ckpt /\ session' = session
    BY <1>5 DEF Materialize, Transcribe, Note, Recognising, Prepared, disk,
       evidence, run
  <2>2. Saved' = Saved
    BY <2>1 DEF Saved
  <2>3. Uniform' /\ \A w \in Saved' : ckpt'[w].engine = session'
    BY <2>1, <2>2 DEF SameEngine, Uniform
  <2>4. pc' \in InFlight => slot'.engine = session'
    BY <1>2, <1>5 DEF Materialize, Transcribe, Note, InFlight, SameEngine, run
  <2> QED BY <2>3, <2>4 DEF SameEngine
<1>6. CASE SaveSegment
  <2>1. /\ pc = "save" /\ UNCHANGED run /\ Len(results) \in Windows
        /\ Saved = 0 .. (Len(results) - 1) /\ Saved' = 0 .. Len(results)
        /\ ckpt' = [ckpt EXCEPT ![Len(results)] = slot]
    BY <1>2, <1>6, SaveGrows
  <2>2. session' = session /\ slot' = slot
    BY <2>1 DEF run
  <2>3. pc \in InFlight /\ pc \in Recognising
    BY <2>1 DEF InFlight, Recognising
  <2>4. slot.engine = session /\ \A w \in Saved : ckpt[w].engine = session
    BY <2>3 DEF SameEngine
  <2>5. ckpt \in [Windows -> Piece \cup {None}]
    BY DEF TypeInv, TypeOK, DiskOK
  <2>6. \A w \in Saved' : ckpt'[w].engine = session
    <3> TAKE w \in Saved'
    <3>1. w \in Windows /\ (w = Len(results) \/ w \in Saved)
      BY <2>1, CountsAssumption DEF Windows
    <3> QED BY <2>1, <2>4, <2>5, <3>1
  <2>7. Uniform'
    BY <2>6 DEF Uniform
  <2> QED BY <2>2, <2>4, <2>6, <2>7 DEF SameEngine
<1>7. CASE UNCHANGED <<pc, run, evidence>>
  <2>1. UNCHANGED <<pc, session, slot, ckpt>> /\ Saved' = Saved
    BY <1>7 DEF run, evidence, Saved
  <2> QED BY <2>1 DEF SameEngine, Uniform
<1> QED BY <1>3, <1>4, <1>5, <1>6, <1>7, PreparedFrom

\* Everything that stands between a job and the loss of its work.
JobInv == TypeInv /\ Holding /\ Recorded /\ Durably

\* Without Ctrl-C that invariant holds of every job: checkpoints, results,
\* record and artifact agree at every call of TranscriptionExecutor.execute.
THEOREM JobInvAlways ==
  ASSUME Interruptible = FALSE
  PROVE  Spec => []JobInv
<1>1. Init => JobInv
  BY TypeInit, HoldingInit, RecordedInit, DurablyInit DEF JobInv
<1>2. JobInv /\ [Next]_vars => JobInv'
  BY TypeStep, HoldingStep, RecordedStep, HousedStep, KeptStep, MirroredStep,
     SameEngineStep DEF JobInv, Durably, Kept
<1> QED BY <1>1, <1>2, PTL DEF Spec

\* AlwaysRestorable for every job of the desktop whose recording nobody edits
\* while a worker listens to it: LocalCheckpointStore.restore never meets a
\* gap, two versions, or a window of other contents.
THEOREM RestoreSucceeds ==
  ASSUME Interruptible = FALSE, EditDuringRun = FALSE
  PROVE  Spec => []AlwaysRestorable
<1>1. Init => Sound
  BY SoundInit
<1>2. JobInv /\ Sound /\ [Next]_vars => Sound'
  BY SoundStep DEF JobInv
<1>3. JobInv /\ Sound => AlwaysRestorable
  BY DEF JobInv, Durably, Kept, SameEngine, Uniform, Sound, CheckpointsSound,
     AlwaysRestorable
<1> QED BY JobInvAlways, <1>1, <1>2, <1>3, PTL DEF Spec

-----------------------------------------------------------------------------
(* The audio a job leaves in its workspace.                                *)

\* Where no segment file is left, and where the decoded audio is the worker's.
Emptied == Closing \/ pc \in {"save", "note", "write"}
Decoded == Closing \/ pc \in {"enhance", "segment", "prepare"} \cup Prepared

\* A segment file that is there is the one after the checkpoints: the window a
\* worker was cut off in, or is in; or its unlink failed after it was heard.
\* Only such a one is left when a window is saved.
SegmentsTrail == /\ \A w \in segs \ stuck : Saved = 0 .. (w - 1)
                 /\ Emptied => segs \subseteq stuck

\* From the decoder on, an unharmed worker owns the decoded file it would find.
DecodedOwned ==
  /\ "normalized" \in derived => Normalize
  /\ Decoded /\ "normalized" \in derived => "normalized" \in owned
  /\ pc = "complete" => owned = {}

\* What NoAudioLeftBehind needs to be inductive.
AudioInv == /\ TypeInv /\ Holding /\ Recorded /\ Contracted /\ Mirrored
            /\ SegmentsTrail /\ DecodedOwned /\ NoAudioLeftBehind

\* A worker that ends or unwinds is bound by neither.
LEMMA Aside ==
  ASSUME \/ pc' \in {"idle", "admit", "claim", "reserve", "decode", "release",
                     "report"}
         \/ pc' = "sweep" /\ cause' # "none"
  PROVE  ~Emptied' /\ ~Decoded' /\ pc' # "complete"
BY DEF Emptied, Decoded, Closing, Prepared, Recognising

LEMMA RaiseAside ==
  ASSUME Raise PROVE ~Emptied' /\ ~Decoded' /\ pc' # "complete"
BY RaiseWhere, Aside

\* A step that makes no file, no checkpoint and no owner.
LEMMA AudioFrame ==
  ASSUME SegmentsTrail, DecodedOwned, segs' \ stuck' \subseteq segs \ stuck,
         derived' \subseteq derived, Saved' = Saved,
         Emptied' => Emptied \/ segs \subseteq stuck,
         Decoded' => Decoded /\ owned' = owned,
         pc' = "complete" => owned' = {}
  PROVE  SegmentsTrail' /\ DecodedOwned'
<1>1. SegmentsTrail'
  BY DEF SegmentsTrail
<1>2. DecodedOwned'
  BY DEF DecodedOwned
<1> QED BY <1>1, <1>2

\* The deletions of a workspace leave nothing to ask about.
LEMMA RemovedAudio ==
  ASSUME Discard \/ Retain PROVE SegmentsTrail' /\ DecodedOwned'
<1>1. segs' = {} /\ derived' = {} /\ pc' = "idle"
  BY DEF Discard, Retain, RemoveWorkspace, Settled
<1> QED BY <1>1 DEF SegmentsTrail, DecodedOwned

\* Faults end or unwind the worker; what they leave half-written is the window
\* after the checkpoints, or a derived file of this plan.
LEMMA FaultyAudio ==
  ASSUME TypeInv, Holding, Mirrored, SegmentsTrail, DecodedOwned, Faulty
  PROVE  SegmentsTrail' /\ DecodedOwned'
<1>1. UNCHANGED ckpt /\ Saved' = Saved
  BY DEF Faulty, Crash, StepFails, ClearFails, ReleaseFails,
     EnhancedSweepFails, DecodedSweepFails, RecordFails, Interrupt, disk,
     evidence, Saved
<1>2. CASE ClearFails \/ EnhancedSweepFails
  <2>1. /\ Closing' => Closing
        /\ pc' = "sweep" /\ UNCHANGED <<segs, stuck, derived, cause>>
        /\ "normalized" \in owned => "normalized" \in owned'
    BY <1>2 DEF ClearFails, EnhancedSweepFails, Closing, disk, audioFiles, run
  <2>2. Emptied' => Emptied
    BY <2>1 DEF Emptied
  <2>3. Decoded' => Decoded
    BY <2>1 DEF Decoded, Prepared, Recognising
  <2>4. SegmentsTrail'
    BY <1>1, <2>1, <2>2 DEF SegmentsTrail
  <2> QED BY <2>1, <2>3, <2>4 DEF DecodedOwned
<1>3. CASE ReleaseFails \/ DecodedSweepFails \/ RecordFails
  <2>1. UNCHANGED <<segs, stuck, derived>>
    BY <1>3 DEF ReleaseFails, DecodedSweepFails, RecordFails, disk, audioFiles
  <2>2. \/ pc' \in {"idle", "report", "release"}
        \/ pc' = "sweep" /\ cause' # "none"
    BY <1>3 DEF ReleaseFails, DecodedSweepFails, RecordFails, Exit, Holding
  <2>3. ~Emptied' /\ ~Decoded' /\ pc' # "complete"
    BY <2>2, Aside
  <2> QED BY <1>1, <2>1, <2>3, AudioFrame
<1>4. CASE Crash \/ StepFails \/ Interrupt
  <2>1. /\ segs' \subseteq segs \/ (pc = "materialize"
                                      /\ segs' \subseteq segs \cup {Len(results)})
        /\ stuck' = stuck
        /\ "normalized" \in derived' => "normalized" \in derived \/ Normalize
    BY <1>4 DEF Crash, StepFails, Interrupt, CutOff, MaybeHalfWritten
  <2>2. \/ pc' \in {"idle", "report", "release"}
        \/ pc' = "sweep" /\ cause' # "none"
    BY <1>4, RaiseWhere DEF Crash, StepFails, Interrupt, Exit
  <2>3. ~Emptied' /\ ~Decoded' /\ pc' # "complete"
    BY <2>2, Aside
  <2>4. pc = "materialize" => Saved = 0 .. (Len(results) - 1)
    BY DEF Mirrored, Prepared, Recognising
  <2>5. SegmentsTrail'
    BY <1>1, <2>1, <2>3, <2>4 DEF SegmentsTrail
  <2> QED BY <2>1, <2>3, <2>5 DEF DecodedOwned
<1> QED BY <1>2, <1>3, <1>4 DEF Faulty

\* Before the recognition loop.
LEMMA EarlyAudio ==
  ASSUME TypeInv, SegmentsTrail, DecodedOwned,
         Admit \/ Claim \/ Reserve \/ Decode \/ EnhanceAudio \/ Segment
           \/ Prepare
  PROVE  SegmentsTrail' /\ DecodedOwned'
<1>1. UNCHANGED <<ckpt, segs, stuck>> /\ Saved' = Saved
  BY DEF Admit, Claim, Reserve, Decode, EnhanceAudio, Derive, Segment,
     Prepare, disk, evidence, audioFiles, Saved
<1>2. CASE (Decode \/ EnhanceAudio) /\ Raise
  <2>1. derived' \subseteq derived
    BY <1>2 DEF Decode, EnhanceAudio, Derive, Raise, Unwind, disk, audioFiles
  <2> QED BY <1>1, <1>2, <2>1, RaiseAside, AudioFrame
<1>3. CASE UNCHANGED <<derived, owned>>
  <2>1. CASE Raise
    BY <1>1, <1>3, <2>1, RaiseAside, AudioFrame
  <2>2. CASE ~Raise
    <3>1. ~Emptied' /\ pc' # "complete"
      BY <2>2 DEF Admit, Claim, Reserve, Decode, EnhanceAudio, Derive, Segment,
         Prepare, Emptied, Closing
    <3>2. Decoded' => Decoded \/ "normalized" \notin derived
      <4>1. CASE Admit \/ Claim \/ Reserve
        BY <2>2, <4>1, Aside DEF Admit, Claim, Reserve
      <4>2. CASE EnhanceAudio \/ Segment \/ Prepare
        BY <4>2 DEF EnhanceAudio, Segment, Prepare, Decoded
      <4>3. CASE Decode
        BY <1>3, <2>2, <4>3 DEF Decode, Derive, DecodedOwned
      <4> QED BY <4>1, <4>2, <4>3
    <3>3. SegmentsTrail'
      BY <1>1, <3>1 DEF SegmentsTrail
    <3> QED BY <1>3, <3>1, <3>2, <3>3 DEF DecodedOwned
  <2> QED BY <2>1, <2>2
<1>4. CASE (Decode \/ EnhanceAudio) /\ ~Raise
  <2>1. CASE UNCHANGED <<disk, rec, machine, run, cause, history>>
    BY <1>3, <2>1 DEF disk, audioFiles, run
  <2>2. CASE ~UNCHANGED <<disk, rec, machine, run, cause, history>>
    <3>1. /\ pc' \in {"enhance", "segment"}
          /\ \/ /\ Normalize
                /\ derived' = derived \cup {"normalized"}
                /\ owned' = owned \cup {"normalized"}
             \/ /\ pc = "enhance"
                /\ derived' = derived \cup {"enhanced"}
                /\ owned' = owned \cup {"enhanced"}
      BY <1>4, <2>2 DEF Decode, EnhanceAudio, Derive
    <3>2. ~Emptied' /\ pc' # "complete" /\ (pc = "enhance" => Decoded)
      BY <3>1 DEF Emptied, Decoded, Closing
    <3>3. SegmentsTrail'
      BY <1>1, <3>2 DEF SegmentsTrail
    <3> QED BY <3>1, <3>2, <3>3 DEF DecodedOwned
  <2> QED BY <2>1, <2>2
<1>5. CASE Admit \/ Claim \/ Reserve \/ Segment \/ Prepare
  BY <1>3, <1>5 DEF Admit, Claim, Reserve, Segment, Prepare, disk, audioFiles,
     run
<1> QED BY <1>2, <1>4, <1>5

\* The recognition loop.
LEMMA LoopAudio ==
  ASSUME TypeInv, Mirrored, Mirrored', SegmentsTrail, DecodedOwned,
         Open \/ Materialize \/ Transcribe \/ SaveSegment \/ Note
  PROVE  SegmentsTrail' /\ DecodedOwned'
<1>0. /\ pc \in Prepared /\ Decoded /\ UNCHANGED <<derived, owned>>
      /\ segs \in SUBSET Windows
  BY DEF Open, Materialize, Transcribe, SaveSegment, Note, Prepared,
     Recognising, Decoded, disk, audioFiles, run, TypeInv, TypeOK, DiskOK
<1>1. CASE Raise
  <2>1. segs' \ stuck' \subseteq segs \ stuck /\ Saved' = Saved
    BY <1>1 DEF Open, Materialize, Transcribe, SaveSegment, Note, Raise,
       Unwind, disk, audioFiles, evidence, Saved
  <2> QED BY <1>0, <1>1, <2>1, RaiseAside, AudioFrame
<1>2. CASE ~Raise /\ (Open \/ Note)
  <2>1. /\ UNCHANGED <<segs, stuck>> /\ Saved' = Saved
        /\ pc' \in {"write", "materialize"}
    BY <1>2 DEF Open, Note, disk, audioFiles, evidence, Saved
  <2>2. pc' = "write" => segs \subseteq stuck
    <3> SUFFICES ASSUME pc' = "write", NEW w \in segs \ stuck PROVE FALSE
      OBVIOUS
    <3>1. Saved = 0 .. (N - 1)
      BY <2>1 DEF Mirrored, Prepared
    <3>2. Saved = 0 .. (w - 1) /\ w \in 0 .. (N - 1)
      BY <1>0 DEF SegmentsTrail, Windows
    <3>3. w \in Saved /\ w \in Nat
      BY <3>1, <3>2, CountsAssumption
    <3> QED BY <3>2, <3>3
  <2>3. pc' # "complete" /\ (Emptied' => pc' = "write")
    BY <2>1 DEF Emptied, Closing
  <2> QED BY <1>0, <2>1, <2>2, <2>3, AudioFrame
<1>3. CASE ~Raise /\ Materialize
  <2>1. /\ segs' = segs \cup {Len(results)} /\ UNCHANGED stuck
        /\ pc = "materialize" /\ pc' = "transcribe" /\ Saved' = Saved
    BY <1>3 DEF Materialize, evidence, Saved
  <2>2. Saved = 0 .. (Len(results) - 1)
    BY <2>1 DEF Mirrored, Prepared, Recognising
  <2>3. ~Emptied' /\ pc' # "complete"
    BY <2>1 DEF Emptied, Closing
  <2>4. SegmentsTrail'
    BY <2>1, <2>2, <2>3 DEF SegmentsTrail
  <2> QED BY <1>0, <2>3, <2>4 DEF DecodedOwned
<1>4. CASE Transcribe
  <2>1. /\ \/ segs' = segs \ {slot.window} /\ UNCHANGED stuck
           \/ stuck' = stuck \cup {slot.window} /\ UNCHANGED segs
        /\ pc = "transcribe" /\ pc' = "save" /\ Saved' = Saved
    BY <1>4 DEF Transcribe, CleanupSegment, evidence, Saved
  <2>2. /\ Saved = 0 .. (Len(results) - 1) /\ slot.window = Len(results)
        /\ Len(results) \in Nat
    BY <2>1 DEF Mirrored, Prepared, Recognising, TypeInv, TypeOK, WorkerOK,
       RunOK, InFlight
  <2>3. \A w \in segs \ stuck : w = Len(results)
    <3> TAKE w \in segs \ stuck
    <3>1. Saved = 0 .. (w - 1) /\ w \in Nat
      BY <1>0 DEF SegmentsTrail, Windows
    <3> QED BY <2>2, <3>1
  <2>4. segs' \subseteq stuck'
    BY <2>1, <2>2, <2>3
  <2>5. pc' # "complete"
    BY <2>1
  <2> QED BY <1>0, <2>4, <2>5 DEF SegmentsTrail, DecodedOwned
<1>5. CASE ~Raise /\ SaveSegment
  <2>1. UNCHANGED <<segs, stuck>> /\ pc = "save" /\ pc' = "note"
    BY <1>5 DEF SaveSegment, audioFiles
  <2>2. segs' \subseteq stuck' /\ pc' # "complete"
    BY <2>1 DEF SegmentsTrail, Emptied
  <2> QED BY <1>0, <2>2 DEF SegmentsTrail, DecodedOwned
<1> QED BY <1>1, <1>2, <1>3, <1>4, <1>5

\* Publication and what follows it.
LEMMA ClosingAudio ==
  ASSUME TypeInv, Holding, SegmentsTrail, DecodedOwned,
         WriteArtifact \/ Clear \/ Sweep \/ Release \/ Complete \/ Report
  PROVE  SegmentsTrail' /\ DecodedOwned'
<1>1. CASE WriteArtifact /\ Raise
  <2>1. UNCHANGED <<segs, stuck, derived, ckpt>> /\ Saved' = Saved
    BY <1>1 DEF WriteArtifact, evidence, audioFiles, Saved
  <2> QED BY <1>1, <2>1, RaiseAside, AudioFrame
<1>2. CASE (WriteArtifact /\ ~Raise) \/ Clear
  <2>1. /\ UNCHANGED <<segs, stuck, derived, owned, cause>>
        /\ pc \in {"write", "clear"} /\ pc' \in {"clear", "sweep"}
    BY <1>2 DEF WriteArtifact, Clear, audioFiles, run
  <2>2. Emptied /\ Decoded /\ pc' # "complete"
    BY <2>1 DEF Emptied, Decoded, Closing, Prepared
  <2> QED BY <2>1, <2>2 DEF SegmentsTrail, DecodedOwned
<1>3. CASE Sweep
  <2>1. /\ pc = "sweep" /\ UNCHANGED <<segs, stuck, cause>> /\ Saved' = Saved
        /\ owned \in SUBSET {"normalized", "enhanced"}
    BY <1>3 DEF Sweep, evidence, Saved, TypeInv, TypeOK, WorkerOK, Derived
  <2>2. pc' = "complete" => owned' = {}
    BY <1>3 DEF Sweep
  <2>3. CASE cause # "none"
    <3>1. pc' \in {"sweep", "report"} /\ derived' \subseteq derived
      BY <1>3, <2>3 DEF Sweep
    <3>2. ~Emptied' /\ ~Decoded' /\ pc' # "complete"
      BY <2>1, <2>3, <3>1, Aside
    <3> QED BY <2>1, <3>1, <3>2, AudioFrame
  <2>4. CASE cause = "none"
    <3>1. Emptied /\ Decoded
      BY <2>1, <2>4 DEF Emptied, Decoded, Closing
    <3>2. SegmentsTrail'
      BY <2>1, <3>1 DEF SegmentsTrail
    <3>3. "normalized" \in derived' =>
            "normalized" \in derived /\ "normalized" \in owned'
      BY <1>3, <2>1, <3>1 DEF Sweep, DecodedOwned
    <3> QED BY <2>2, <3>2, <3>3 DEF DecodedOwned
  <2> QED BY <2>3, <2>4
<1>4. CASE Release \/ Complete \/ Report
  <2>1. UNCHANGED <<segs, stuck, derived>> /\ Saved' = Saved
    BY <1>4 DEF Release, Complete, Report, disk, evidence, audioFiles, Saved
  <2>2. pc' = "idle" \/ (pc' = "sweep" /\ cause' # "none")
    BY <1>4 DEF Release, Complete, Report, Exit, Holding
  <2>3. ~Emptied' /\ ~Decoded' /\ pc' # "complete"
    BY <2>2, Aside
  <2> QED BY <2>1, <2>3, AudioFrame
<1> QED BY <1>1, <1>2, <1>3, <1>4

LEMMA AudioStep ==
  ASSUME TypeInv, Holding, Mirrored, Mirrored', SegmentsTrail, DecodedOwned,
         [Next]_vars
  PROVE  SegmentsTrail' /\ DecodedOwned'
<1>1. ASSUME Worker PROVE SegmentsTrail' /\ DecodedOwned'
  BY <1>1, EarlyAudio, LoopAudio, ClosingAudio DEF Worker
<1>2. ASSUME Start \/ Resume PROVE SegmentsTrail' /\ DecodedOwned'
  <2>1. pc' = "admit" /\ UNCHANGED <<segs, stuck, derived>> /\ Saved' = Saved
    BY <1>2 DEF Start, Resume, Launch, disk, audioFiles, evidence, Saved
  <2> QED BY <2>1, Aside, AudioFrame
<1>3. ASSUME Reconcile \/ EditSource \/ UpgradeEngine \/ UNCHANGED vars
      PROVE  SegmentsTrail' /\ DecodedOwned'
  <2>1. UNCHANGED <<segs, stuck, derived, owned, pc, cause>> /\ Saved' = Saved
    BY <1>3 DEF Reconcile, EditSource, UpgradeEngine, vars, disk, audioFiles,
       evidence, run, Saved
  <2> QED BY <2>1 DEF SegmentsTrail, DecodedOwned, Emptied, Decoded, Closing
<1> QED BY <1>1, <1>2, <1>3, FaultyAudio, RemovedAudio DEF Next, Environment,
       Rest

\* A record says completed only after a run that left no segment it could
\* unlink, and removed the decoded file it made; until the next run nobody makes
\* another.
LEMMA NoAudioStep ==
  ASSUME AudioInv, [Next]_vars PROVE NoAudioLeftBehind'
<1> USE DEF AudioInv
<1> SUFFICES ASSUME rec'.status = "completed"
             PROVE  segs' \subseteq stuck' /\ "normalized" \notin derived'
  BY DEF NoAudioLeftBehind
<1>0. rec \in Records
  BY DEF TypeInv, TypeOK
<1>1. CASE Complete
  BY <1>1 DEF Complete, SegmentsTrail, DecodedOwned, Emptied, Decoded, Closing,
     disk, audioFiles
<1>2. CASE Discard \/ Retain
  BY <1>2 DEF Discard, Retain, RemoveWorkspace
<1>3. CASE ~Complete /\ ~Discard /\ ~Retain
  <2>1. rec.status = "completed" /\ pc = "idle"
    <3>1. Recorded'
      BY RecordedStep
    <3>2. pc' = "idle"
      BY <3>1 DEF Recorded
    <3>3. CASE Worker
      BY <1>0, <1>3, <3>2, <3>3, RaiseWhere DEF Worker, Admit, Claim, Reserve,
         Decode, EnhanceAudio, Derive, Segment, Prepare, Open, Materialize,
         Transcribe, SaveSegment, Note, WriteArtifact, Clear, Sweep, Release,
         Report, Records, TypeInv, TypeOK, WorkerOK, Causes
    <3>4. CASE Faulty
      <4>1. rec' = rec /\ pc # "idle"
        BY <3>4 DEF Faulty, Crash, StepFails, ClearFails, ReleaseFails,
           EnhancedSweepFails, DecodedSweepFails, RecordFails, Interrupt
      <4> QED BY <4>1 DEF Recorded
    <3>5. CASE Start \/ Resume
      BY <3>2, <3>5 DEF Start, Resume, Launch
    <3>6. CASE Environment \/ UNCHANGED vars
      BY <1>0, <1>3, <3>2, <3>6 DEF Environment, Reconcile, EditSource,
         UpgradeEngine, vars, Records
    <3> QED BY <3>3, <3>4, <3>5, <3>6 DEF Next, Rest
  <2>2. UNCHANGED <<segs, stuck, derived>>
    BY <1>3, <2>1 DEF Next, Rest, Start, Resume, Launch, Worker, Admit, Claim,
       Reserve, Decode, EnhanceAudio, Segment, Prepare, Open, Materialize,
       Transcribe, SaveSegment, Note, WriteArtifact, Clear, Sweep, Release,
       Report, Faulty, Crash, StepFails, ClearFails, ReleaseFails,
       EnhancedSweepFails, DecodedSweepFails, RecordFails, Interrupt,
       Environment, Reconcile, EditSource, UpgradeEngine, vars, disk,
       audioFiles
  <2> QED BY <2>1, <2>2 DEF NoAudioLeftBehind
<1> QED BY <1>1, <1>2, <1>3

LEMMA AudioInit == Init => AudioInv
<1> SUFFICES ASSUME Init PROVE AudioInv
  OBVIOUS
<1>1. TypeInv /\ Holding /\ Recorded /\ Contracted /\ Mirrored
  BY TypeInit, HoldingInit, RecordedInit, DurablyInit DEF Durably, Kept
<1>2. segs = {} /\ derived = {} /\ pc = "idle"
  BY DEF Init
<1> QED BY <1>1, <1>2 DEF AudioInv, SegmentsTrail, DecodedOwned,
           NoAudioLeftBehind

\* NoAudioLeftBehind for every job, crash, error, Ctrl-C and failed unlink: a
\* leftover that a cut-off run made stops the runs after it until it is gone, and
\* those it does not stop own what they decoded.  What is left is a segment whose
\* unlink failed after it was heard, and an enhanced copy whose unlink failed.
THEOREM AudioIsSwept == Spec => []NoAudioLeftBehind
<1>1. AudioInv /\ [Next]_vars => AudioInv'
  BY TypeStep, HoldingStep, RecordedStep, ContractedStep, MirroredStep,
     AudioStep, NoAudioStep DEF AudioInv
<1>2. AudioInv => NoAudioLeftBehind
  BY DEF AudioInv
<1> QED BY AudioInit, <1>1, <1>2, PTL DEF Spec

-----------------------------------------------------------------------------
(* What the record counts as completed.                                    *)

\* Every other write of the record keeps the count.
LEMMA CountFrame ==
  ASSUME TypeInv, [Next]_vars
  PROVE  \/ Segment \/ Prepare \/ Note \/ Complete \/ Discard
         \/ rec'.completed = rec.completed
<1>0. rec \in Records
  BY DEF TypeInv, TypeOK
<1>1. ASSUME Worker
      PROVE  \/ Segment \/ Prepare \/ Note \/ Complete
             \/ UNCHANGED rec \/ Report
  BY <1>1 DEF Worker, Admit, Claim, Reserve, Decode, EnhanceAudio, Derive,
     Open, Materialize, Transcribe, SaveSegment, WriteArtifact, Clear, Sweep,
     Release
<1>2. ASSUME Faulty PROVE UNCHANGED rec
  BY <1>2 DEF Faulty, Crash, StepFails, ClearFails, ReleaseFails,
     EnhancedSweepFails, DecodedSweepFails, RecordFails, Interrupt
<1>3. ASSUME Environment \/ UNCHANGED vars
      PROVE  Discard \/ Reconcile \/ UNCHANGED rec
  BY <1>3 DEF Environment, Retain, EditSource, UpgradeEngine, vars
<1>4. ASSUME Start \/ Resume \/ Report \/ Reconcile
      PROVE  rec'.completed = rec.completed
  BY <1>0, <1>4 DEF Start, Resume, Launch, Report, Reconcile, Records
<1> QED BY <1>1, <1>2, <1>3, <1>4 DEF Next, Rest

LEMMA ProgressStep ==
  ASSUME JobInv, ProgressIsDurable, [Next]_vars, ~Interruptible, JobInv'
  PROVE  ProgressIsDurable'
<1> SUFFICES ASSUME workspace', Published' = {}
             PROVE  0 .. (rec'.completed - 1) \subseteq Saved'
  BY DEF ProgressIsDurable
<1> DEFINE Goal == 0 .. (rec'.completed - 1) \subseteq Saved'
<1>1. Published = {} /\ ~Clear
  BY StaysPublic DEF JobInv, Clear, Holding, Closing
<1>2. rec \in Records /\ rec' \in Records
  BY DEF JobInv, TypeInv, TypeOK
<1>3. ASSUME rec'.completed = 0 PROVE Goal
  BY <1>3
<1>4. CASE Claim
  <2>1. CASE resume
    <3>1. workspace /\ rec' = rec /\ Saved' = Saved
      BY <1>4, <2>1 DEF Claim, Raise, Unwind, Saved, JobInv, TypeInv, TypeOK,
         DiskOK
    <3> QED BY <1>1, <3>1 DEF ProgressIsDurable
  <2>2. CASE ~resume
    <3>1. rec'.completed = 0
      BY <1>4, <2>2 DEF Claim, JobInv, Recorded
    <3> QED BY <1>3, <3>1
  <2> QED BY <2>1, <2>2
<1>5. CASE Discard \/ Retain
  BY <1>5 DEF Discard, Retain, RemoveWorkspace
<1>6. ASSUME ~Claim, ~Discard, ~Retain PROVE workspace
  BY <1>1, <1>6, EvidenceFrame DEF evidence, Prepare, SaveSegment
<1>7. ASSUME ~Claim, ~Discard, ~Retain PROVE Saved \subseteq Saved'
  <2>1. CASE SaveSegment
    BY <2>1 DEF SaveSegment, Saved, JobInv, TypeInv, TypeOK, DiskOK
  <2>2. CASE ~SaveSegment
    BY <1>1, <1>7, <2>2, EvidenceFrame DEF Prepare, Saved, evidence
  <2> QED BY <2>1, <2>2
<1>8. ASSUME ~Claim, ~Discard, ~Retain, rec'.completed = rec.completed
      PROVE  Goal
  BY <1>1, <1>6, <1>7, <1>8 DEF ProgressIsDurable
<1>9. CASE Segment
  BY <1>2, <1>3, <1>9 DEF Segment, Progress, Records
<1>10. CASE Prepare \/ Note
  <2>1. CASE Raise
    <3>1. rec' = rec /\ ~Claim /\ ~Discard /\ ~Retain
      BY <1>10, <2>1 DEF Prepare, Note, Claim, Discard, Retain, Settled, Raise,
         Unwind
    <3> QED BY <1>8, <3>1
  <2>2. CASE ~Raise
    <3>1. pc' \in Prepared \ {"note"} /\ Progress(Len(results'))
      BY <1>10, <2>2 DEF Prepare, Note, Prepared, Recognising
    <3>2. rec'.completed = Len(results')
      BY <1>2, <3>1 DEF Progress, Records
    <3>3. Saved' = 0 .. (Len(results') - 1)
      BY <3>1 DEF JobInv, Durably, Mirrored
    <3> QED BY <3>2, <3>3
  <2> QED BY <2>1, <2>2
<1>11. CASE Complete
  <2>1. name \in Published
    BY <1>11 DEF Complete, JobInv, Holding, Closing
  <2> QED BY <1>1, <2>1
<1>12. CASE rec'.completed = rec.completed
  BY <1>4, <1>5, <1>8, <1>12
<1> QED BY <1>5, <1>9, <1>10, <1>11, <1>12, CountFrame DEF JobInv

\* ProgressIsDurable for every job of the desktop: the count is raised only
\* after the checkpoint is in place, and no checkpoint leaves before the
\* transcript is published.
THEOREM ProgressIsKept ==
  ASSUME Interruptible = FALSE
  PROVE  Spec => []ProgressIsDurable
<1>1. Init => ProgressIsDurable
  BY DEF Init, ProgressIsDurable
<1>2. JobInv /\ JobInv' /\ ProgressIsDurable /\ [Next]_vars =>
        ProgressIsDurable'
  BY ProgressStep
<1> QED BY JobInvAlways, <1>1, <1>2, PTL DEF Spec

-----------------------------------------------------------------------------
(* How often a job is published.                                           *)

\* The steps before the contract is written or restored.
Early == {"admit", "claim", "reserve", "decode", "enhance", "segment",
          "prepare"}

\* A worker that has not failed has no cause to report.
Calm == pc \notin {"release", "sweep", "report"} => cause = "none"

\* A job that nobody ran, and one on its first run, has published nothing.
Unpublished ==
  rec.status = "absent" \/ (pc \in Early /\ ~resume) => Published = {}

\* Where a run or a resume may still publish, a fault has paid for every
\* transcript there is.  One is not paid for while its worker clears up, and
\* after that only if the contract is gone.
Over == manifest = None /\ (Closing \/ (pc = "idle" /\ rec.status # "absent"))

Spare ==
  /\ Cardinality(Published) <= 1 + faults
  /\ Cardinality(Published) <= faults \/ pc = "clear" \/ Over

\* The contract, while there is one, names the recording of every transcript.
OneSource ==
  /\ \A m, n \in Published : output[m].source = output[n].source
  /\ manifest # None => \A n \in Published : output[n].source = manifest
  /\ pc \in Prepared => manifest = planned

RepeatInv == /\ TypeInv /\ Holding /\ Recorded
             /\ Calm /\ Unpublished /\ Spare /\ OneSource

Publishes == WriteArtifact /\ ~Raise

LEMMA PublishedCount ==
  IsFiniteSet(Published) /\ Cardinality(Published) \in Nat
<1>1. IsFiniteSet(Names)
  BY FS_Interval DEF Names
<1>2. Published \subseteq Names
  BY DEF Published
<1> QED BY <1>1, <1>2, FS_Subset, FS_CardinalityType

\* Only the assembly of a whole transcript publishes, and it publishes one.
LEMMA PublishedFrom ==
  ASSUME TypeInv, [Next]_vars
  PROVE  /\ Published' \subseteq Published \cup {name}
         /\ ~Publishes =>
              \A n \in Published' : n \in Published /\ output'[n] = output[n]
<1>0. output \in [Names -> Transcript \cup {Free, Reserved}]
  BY DEF TypeInv, TypeOK, DiskOK
<1>1. CASE UNCHANGED output
  BY <1>1 DEF Published
<1>2. CASE Reserve \/ Release
  BY <1>0, <1>2 DEF Reserve, Release, Published
<1>3. CASE Publishes
  <2>1. \A n \in Names : n = name \/ output'[n] = output[n]
    <3> DEFINE t == [source |-> planned, engine |-> results[1].engine,
                     segments |-> results]
    <3>1. output' = [output EXCEPT ![name] = t]
      BY <1>3 DEF Publishes, WriteArtifact
    <3> HIDE DEF t
    <3> QED BY <1>0, <3>1
  <2> QED BY <1>3, <2>1 DEF Published
<1>4. CASE WriteArtifact /\ Raise
  BY <1>1, <1>4 DEF WriteArtifact, Raise, Unwind
<1> QED BY <1>1, <1>2, <1>3, <1>4, OutputFrame DEF Publishes

LEMMA CountStep ==
  ASSUME TypeInv, [Next]_vars
  PROVE  /\ Cardinality(Published') \in Nat
         /\ Cardinality(Published') <= Cardinality(Published) + 1
         /\ ~Publishes => Cardinality(Published') <= Cardinality(Published)
<1>1. IsFiniteSet(Published) /\ Cardinality(Published) \in Nat
  BY PublishedCount
<1>2. ASSUME Published' \subseteq Published
      PROVE  /\ Cardinality(Published') \in Nat
             /\ Cardinality(Published') <= Cardinality(Published)
  BY <1>1, <1>2, FS_Subset, FS_CardinalityType
<1>3. /\ IsFiniteSet(Published \cup {name})
      /\ Cardinality(Published \cup {name}) \in Nat
      /\ Cardinality(Published \cup {name}) <= Cardinality(Published) + 1
  <2>1. /\ IsFiniteSet(Published \cup {name})
        /\ \/ Cardinality(Published \cup {name}) = Cardinality(Published)
           \/ Cardinality(Published \cup {name}) = Cardinality(Published) + 1
    BY <1>1, FS_AddElement
  <2> QED BY <1>1, <2>1
<1>4. /\ Cardinality(Published') \in Nat
      /\ Cardinality(Published') <= Cardinality(Published \cup {name})
  BY <1>3, PublishedFrom, FS_Subset, FS_CardinalityType
<1>5. ~Publishes => Published' \subseteq Published
  BY PublishedFrom
<1> QED BY <1>1, <1>2, <1>3, <1>4, <1>5

\* Every fault is counted, and one that ends or unwinds a step publishes
\* nothing; of the steps that go on, one may count the fault it swallowed.
LEMMA FaultsCount ==
  ASSUME [Next]_vars
  PROVE  \/ Faulty /\ faults' = faults + 1 /\ Published' = Published
         \/ ~Faulty /\ faults' \in {faults, faults + 1}
<1>1. ASSUME Faulty PROVE faults' = faults + 1 /\ UNCHANGED output
  BY <1>1 DEF Faulty, Crash, StepFails, ClearFails, ReleaseFails,
     EnhancedSweepFails, DecodedSweepFails, RecordFails, Interrupt, Fault, disk
<1>2. ASSUME Start \/ Resume \/ Environment \/ UNCHANGED vars
      PROVE  faults' = faults
  BY <1>2 DEF Start, Resume, Launch, Environment, Reconcile, Discard, Retain,
     EditSource, UpgradeEngine, vars, history
<1>3. ASSUME Worker PROVE faults' \in {faults, faults + 1}
  BY <1>3 DEF Worker, Admit, Claim, Reserve, Decode, EnhanceAudio, Derive,
     Segment, Prepare, Open, Materialize, Transcribe, CleanupSegment, Fault,
     SaveSegment, Note, WriteArtifact, Clear, Sweep, Release, Complete, Report,
     history
<1> QED BY <1>1, <1>2, <1>3 DEF Next, Rest, Published

LEMMA CalmStep ==
  ASSUME TypeInv, Calm, [Next]_vars PROVE Calm'
<1>1. CASE Raise
  BY <1>1 DEF Raise, Unwind, Calm
<1>2. ASSUME Worker, ~Raise PROVE Calm'
  BY <1>2 DEF Worker, Admit, Claim, Reserve, Decode, EnhanceAudio, Derive,
     Segment, Prepare, Open, Materialize, Transcribe, SaveSegment, Note,
     WriteArtifact, Clear, Sweep, Release, Complete, Report, Exit, Calm
<1>3. ASSUME Faulty, ~Raise PROVE Calm'
  BY <1>3 DEF Faulty, Crash, StepFails, ClearFails, ReleaseFails,
     EnhancedSweepFails, DecodedSweepFails, RecordFails, Interrupt, Exit, Calm,
     Unprotected
<1>4. ASSUME Start \/ Resume \/ Environment \/ UNCHANGED vars PROVE Calm'
  BY <1>4 DEF Start, Resume, Launch, Environment, Reconcile, Discard, Retain,
     EditSource, UpgradeEngine, vars, Calm
<1> QED BY <1>1, <1>2, <1>3, <1>4 DEF Next, Rest

LEMMA UnpublishedStep ==
  ASSUME TypeInv, Recorded, Unpublished, [Next]_vars PROVE Unpublished'
<1> SUFFICES ASSUME rec'.status = "absent" \/ (pc' \in Early /\ ~resume')
             PROVE  Published' = {}
  BY DEF Unpublished
<1>0. rec \in Records
  BY DEF TypeInv, TypeOK
<1>1. ASSUME Worker
      PROVE  ~Publishes /\ pc \in Early /\ ~resume
  <2>1. rec'.status # "absent"
    <3>1. rec.status = "running"
      BY <1>1 DEF Recorded, Worker, Admit, Claim, Reserve, Decode,
         EnhanceAudio, Segment, Prepare, Open, Materialize, Transcribe,
         SaveSegment, Note, WriteArtifact, Clear, Sweep, Release, Complete,
         Report
    <3>2. CASE Segment \/ Prepare \/ Note \/ Complete \/ Report
      BY <1>0, <3>1, <3>2 DEF Segment, Prepare, Note, Complete, Report,
         Progress, Records, TypeInv, TypeOK, WorkerOK, Causes
    <3>3. CASE ~(Segment \/ Prepare \/ Note \/ Complete \/ Report)
      BY <1>1, <3>1, <3>3 DEF Worker, Admit, Claim, Reserve, Decode,
         EnhanceAudio, Derive, Open, Materialize, Transcribe, SaveSegment,
         WriteArtifact, Clear, Sweep, Release
    <3> QED BY <3>2, <3>3
  <2>2. pc' \in Early /\ ~resume'
    BY <2>1
  <2>3. ~Raise
    BY <2>2 DEF Raise, Unwind, Early
  <2> QED BY <1>1, <2>2, <2>3 DEF Worker, Admit, Claim, Reserve, Decode,
             EnhanceAudio, Derive, Segment, Prepare, Open, Materialize,
             Transcribe, SaveSegment, Note, WriteArtifact, Clear, Sweep,
             Release, Complete, Report, Exit, Early, run, Publishes
<1>2. ASSUME Faulty PROVE FALSE
  <2>1. rec'.status = "running"
    BY <1>2 DEF Recorded, Faulty, Crash, StepFails, ClearFails, ReleaseFails,
       EnhancedSweepFails, DecodedSweepFails, RecordFails, Interrupt
  <2>2. pc' \in {"idle", "report", "release", "sweep"}
    BY <1>2 DEF Faulty, Crash, StepFails, Raise, Unwind, ClearFails,
       ReleaseFails, EnhancedSweepFails, DecodedSweepFails, RecordFails,
       Interrupt, Exit
  <2> QED BY <2>1, <2>2 DEF Early
<1>3. ASSUME Start \/ Resume PROVE Published' = {}
  <2>1. output' = output /\ rec'.status = "running" /\ (Resume => resume')
    BY <1>0, <1>3 DEF Start, Resume, Launch, disk, Records
  <2> QED BY <1>3, <2>1 DEF Start, Unpublished, Published
<1>4. ASSUME Environment \/ UNCHANGED vars PROVE Published' = {}
  <2>1. UNCHANGED <<output, pc, resume>>
    BY <1>4 DEF Environment, Reconcile, Discard, Retain, EditSource,
       UpgradeEngine, run, disk, vars
  <2>2. rec'.status = "absent" => rec.status = "absent"
    BY <1>0, <1>4 DEF Environment, Reconcile, Discard, Retain, EditSource,
       UpgradeEngine, vars, Records
  <2> QED BY <2>1, <2>2 DEF Unpublished, Published
<1>5. CASE Worker
  <2>1. Published' \subseteq Published
    BY <1>1, <1>5, PublishedFrom
  <2>2. Published = {}
    BY <1>1, <1>5 DEF Unpublished
  <2> QED BY <2>1, <2>2
<1> QED BY <1>2, <1>3, <1>4, <1>5 DEF Next, Rest

\* Once a job is over, nothing but a fault brings it back.
LEMMA OverStep ==
  ASSUME TypeInv, Recorded, Calm, pc = "clear" \/ Over, [Next]_vars, ~Faulty
  PROVE  pc' = "clear" \/ Over'
<1>0. rec \in Records /\ source # None /\ ("enhanced" \in owned => owned # {})
  BY NoneAssumption DEF TypeInv, TypeOK, OthersOK
<1>1. CASE Clear
  <2>1. pc' = "clear" \/ (manifest' = None /\ pc' = "sweep" /\ cause' = cause)
    BY <1>1 DEF Clear
  <2> QED BY <1>1, <2>1 DEF Clear, Calm, Over, Closing
<1>2. CASE Sweep
  <2>1. manifest = None /\ cause = "none"
    BY <1>2 DEF Sweep, Over, Closing
  <2>2. UNCHANGED <<manifest, cause>> /\ pc' \in {"sweep", "complete"}
    BY <1>2, <2>1 DEF Sweep, evidence
  <2> QED BY <2>1, <2>2 DEF Over, Closing
<1>3. CASE Complete
  <2>1. manifest = None /\ manifest' = None /\ pc' = "idle"
    BY <1>3 DEF Complete, Over, Closing, Exit, disk, evidence
  <2>2. rec'.status = "completed"
    BY <1>0, <1>3 DEF Complete, Records
  <2> QED BY <2>1, <2>2 DEF Over
<1>4. CASE EditSource \/ UpgradeEngine \/ UNCHANGED vars
  BY <1>4 DEF EditSource, UpgradeEngine, vars, disk, evidence, Over, Closing
<1>5. CASE Reconcile \/ Discard \/ Retain
  <2>1. pc = "idle" /\ manifest = None /\ rec.status # "absent"
    BY <1>5 DEF Reconcile, Discard, Retain, Settled, Over, Closing
  <2>2. pc' = "idle" /\ manifest' = None /\ rec'.status # "absent"
    BY <1>0, <1>5, <2>1 DEF Reconcile, Discard, Retain, RemoveWorkspace,
       Records, disk, evidence
  <2> QED BY <2>2 DEF Over
<1>6. ~Start /\ ~Resume
  BY <1>0 DEF Start, Resume, Launch, Over, Closing
<1>7. ASSUME Worker PROVE Clear \/ Sweep \/ Complete
  BY <1>7 DEF Worker, Admit, Claim, Reserve, Decode, EnhanceAudio, Segment,
     Prepare, Open, Materialize, Transcribe, SaveSegment, Note, WriteArtifact,
     Release, Report, Over, Closing
<1> QED BY <1>1, <1>2, <1>3, <1>4, <1>5, <1>6, <1>7 DEF Next, Rest,
       Environment

LEMMA SpareStep ==
  ASSUME TypeInv, Recorded, Calm, Spare, [Next]_vars PROVE Spare'
<1>0. faults \in Nat /\ Cardinality(Published) \in Nat
  BY PublishedCount DEF TypeInv, TypeOK, OthersOK
<1>1. CASE Faulty
  BY <1>0, <1>1, FaultsCount DEF Spare
<1>2. CASE Publishes /\ ~Faulty
  <2>1. pc = "write" /\ pc' = "clear"
    BY <1>2 DEF Publishes, WriteArtifact
  <2>2. Cardinality(Published) <= faults
    BY <2>1 DEF Spare, Over, Closing
  <2> QED BY <1>0, <1>2, <2>1, <2>2, FaultsCount, CountStep DEF Spare
<1>3. CASE ~Publishes /\ ~Faulty
  <2>1. /\ Cardinality(Published') \in Nat
        /\ Cardinality(Published') <= Cardinality(Published)
        /\ faults' \in {faults, faults + 1}
    BY <1>3, FaultsCount, CountStep
  <2>2. Cardinality(Published') <= 1 + faults'
    BY <1>0, <2>1 DEF Spare
  <2>3. CASE Cardinality(Published) <= faults
    BY <1>0, <2>1, <2>2, <2>3 DEF Spare
  <2>4. CASE pc = "clear" \/ Over
    BY <1>3, <2>2, <2>4, OverStep DEF Spare
  <2> QED BY <2>3, <2>4 DEF Spare
<1> QED BY <1>1, <1>2, <1>3

LEMMA OneSourceStep ==
  ASSUME TypeInv, Unpublished, OneSource, [Next]_vars PROVE OneSource'
<1>1. pc' \in Prepared => manifest' = planned'
  <2> SUFFICES ASSUME pc' \in Prepared PROVE manifest' = planned'
    OBVIOUS
  <2>1. ~Raise
    BY RaiseLeaves DEF Claimed
  <2>2. CASE Prepare
    BY <2>1, <2>2 DEF Prepare
  <2>3. CASE ~Prepare
    <3>1. pc \in Prepared /\ UNCHANGED <<manifest, planned>>
      BY <2>3, PreparedFrom DEF Open, Materialize, Transcribe, SaveSegment,
         Note, disk, evidence, run, Prepared, Recognising
    <3> QED BY <3>1 DEF OneSource
  <2> QED BY <2>2, <2>3
<1>2. CASE Publishes
  <2> DEFINE t == [source |-> planned, engine |-> results[1].engine,
                   segments |-> results]
  <2>1. /\ pc = "write" /\ pc \in Prepared /\ manifest' = manifest
        /\ output' = [output EXCEPT ![name] = t]
    BY <1>2 DEF Publishes, WriteArtifact, evidence, Prepared
  <2>2. manifest = planned /\ manifest # None /\ t.source = planned
    BY <2>1, NoneAssumption DEF OneSource, TypeInv, RunOK
  <2> HIDE DEF t
  <2>3. output \in [Names -> Transcript \cup {Free, Reserved}]
    BY DEF TypeInv, TypeOK, DiskOK
  <2>4. \A n \in Names : output'[n] = t \/ output'[n] = output[n]
    BY <2>1, <2>3
  <2>5. \A n \in Published' : output'[n] = t \/ (n \in Published /\
                                                 output'[n] = output[n])
    BY <2>4 DEF Published
  <2>6. \A n \in Published' : output'[n].source = manifest'
    BY <2>1, <2>2, <2>5 DEF OneSource
  <2> QED BY <1>1, <2>6 DEF OneSource
<1>3. CASE ~Publishes
  <2>1. \A n \in Published' : n \in Published /\ output'[n] = output[n]
    BY <1>3, PublishedFrom
  <2>2. manifest' \in {manifest, None} \/ Published = {}
    <3>1. CASE Prepare /\ ~resume
      BY <3>1 DEF Prepare, Unpublished, Early
    <3>2. CASE Prepare /\ resume
      BY <3>2 DEF Prepare, Restorable, Raise, Unwind
    <3>3. CASE ~Prepare
      BY <3>3, EvidenceFrame DEF Claim, SaveSegment, Clear, Discard, Retain,
         RemoveWorkspace, evidence
    <3> QED BY <3>1, <3>2, <3>3
  <2> QED BY <1>1, <2>1, <2>2 DEF OneSource
<1> QED BY <1>2, <1>3

LEMMA RepeatInit == Init => RepeatInv
<1> SUFFICES ASSUME Init PROVE RepeatInv
  OBVIOUS
<1>1. Published = {} /\ pc = "idle" /\ faults = 0 /\ cause = "none"
  BY DEF Init, Published
<1>2. pc \notin Prepared /\ Cardinality(Published) = 0
  BY <1>1, FS_EmptySet DEF Prepared, Recognising
<1>3. Calm /\ Unpublished /\ Spare /\ OneSource
  BY <1>1, <1>2 DEF Calm, Unpublished, Spare, OneSource
<1> QED BY <1>3, TypeInit, HoldingInit, RecordedInit DEF RepeatInv

\* OnlyFaultsRepeat for every job, edited recording and Ctrl-C: as long as no
\* call fails, clear() has removed the contract that a resume would need
\* before the worker reports a success.
THEOREM FaultsPayForRepeats == Spec => []OnlyFaultsRepeat
<1>1. RepeatInv /\ [Next]_vars => RepeatInv'
  BY TypeStep, HoldingStep, RecordedStep, CalmStep, UnpublishedStep, SpareStep,
     OneSourceStep DEF RepeatInv
<1>2. RepeatInv => OnlyFaultsRepeat
  BY DEF RepeatInv, Spare, OneSource, OnlyFaultsRepeat
<1> QED BY RepeatInit, <1>1, <1>2, PTL DEF Spec

-----------------------------------------------------------------------------
(* The promise to the owner.                                               *)

LEMMA PromiseInit == Init => Durable!Init
<1> SUFFICES ASSUME Init PROVE Durable!Init
  OBVIOUS
<1>1. Saved = {} /\ Published = {}
  BY DEF Init, Saved, Published
<1>2. rec.status = "absent"
  BY DEF Init
<1> QED BY <1>1, <1>2 DEF Durable!Init

\* The owner's view of the private state.
Abandoned == ~workspace /\ rec.status \notin {"absent", "running"}

\* A step that publishes nothing and saves nothing is a stutter, or the end of
\* the private state.
LEMMA AbandonOrStay ==
  ASSUME Housed', Published' = Published, Abandoned => Abandoned',
         Saved' = Saved \/ Published # {} \/ Abandoned'
  PROVE  [Durable!Next]_(Durable!vars)
<1>1. CASE Abandoned' /\ ~Abandoned
  <2>1. Saved' = {}
    BY <1>1 DEF Abandoned, Housed
  <2> QED BY <1>1, <2>1 DEF Abandoned, Durable!Next, Durable!Abandon
<1>2. CASE Abandoned' /\ Abandoned
  <2>1. Saved' = {}
    BY <1>2 DEF Abandoned, Housed
  <2> QED BY <1>2, <2>1 DEF Abandoned, Durable!Next, Durable!Abandon
<1>3. CASE ~Abandoned' /\ ~Abandoned
  BY <1>3 DEF Abandoned, Durable!vars
<1> QED BY <1>1, <1>2, <1>3

\* Only the assembly of a whole transcript publishes one.
LEMMA PublishedFrame ==
  ASSUME TypeInv, Holding, [Next]_vars, ~Interruptible,
         ~(WriteArtifact /\ ~Raise)
  PROVE  Published' = Published
<1>1. \A n \in Published : n \in Published'
  BY PublicationStep
<1>2. \A n \in Names : output'[n] \in {output[n], Free, Reserved}
  BY OutputFrame DEF Reserve, WriteArtifact, Raise, Unwind, Release, TypeInv,
     TypeOK, DiskOK
<1> QED BY <1>1, <1>2 DEF Published

\* A job whose private state is gone is never run again.
LEMMA AbandonedStays ==
  ASSUME TypeInv, Recorded, Housed, Abandoned, [Next]_vars
  PROVE  Abandoned'
<1>1. pc = "idle" /\ manifest = None
  BY DEF Recorded, Abandoned, Housed
<1>2. ~Start /\ ~Resume
  BY <1>1, NoneAssumption DEF Abandoned, Start, Resume, TypeInv, TypeOK,
     OthersOK
<1>3. ~Worker /\ ~Faulty
  BY <1>1 DEF Worker, Admit, Claim, Reserve, Decode, EnhanceAudio, Segment,
     Prepare, Open, Materialize, Transcribe, SaveSegment, Note, WriteArtifact,
     Clear, Sweep, Release, Complete, Report, Faulty, Crash, StepFails,
     ClearFails, ReleaseFails, EnhancedSweepFails, DecodedSweepFails,
     RecordFails, Interrupt
<1>4. ~Reconcile /\ ~Retain
  BY DEF Abandoned, Reconcile, Retain
<1>5. CASE Discard
  BY <1>5 DEF Discard, RemoveWorkspace, Abandoned
<1>6. CASE EditSource \/ UpgradeEngine \/ UNCHANGED vars
  BY <1>6 DEF EditSource, UpgradeEngine, vars, disk, evidence, Abandoned
<1> QED BY <1>2, <1>3, <1>4, <1>5, <1>6 DEF Next, Rest, Environment

LEMMA PromiseStep ==
  ASSUME JobInv, JobInv', [Next]_vars, ~Interruptible
  PROVE  [Durable!Next]_(Durable!vars)
<1>1. Housed' /\ (Abandoned => Abandoned')
  BY AbandonedStays DEF JobInv, Durably
<1>2. CASE SaveSegment /\ ~Raise
  <2>1. /\ pc = "save" /\ Len(results) \in Windows /\ output' = output
        /\ Saved = 0 .. (Len(results) - 1) /\ Saved' = 0 .. Len(results)
    BY <1>2, SaveGrows DEF JobInv, Durably
  <2>2. UNCHANGED <<workspace, rec>> /\ rec.status = "running"
    BY <1>2, <2>1 DEF SaveSegment, JobInv, Recorded
  <2>3. Published' = Published
    BY <2>1 DEF Published
  <2>4. CASE Published = {}
    <3>1. Saved' = Saved \cup {Len(results)}
      BY <2>1 DEF Windows
    <3>2. Durable!Recognise(Len(results))
      BY <2>1, <2>2, <2>3, <2>4, <3>1 DEF Durable!Recognise
    <3> QED BY <2>1, <3>2 DEF Durable!Next, Durable!All, Windows
  <2>5. CASE Published # {}
    BY <1>1, <2>3, <2>5, AbandonOrStay
  <2> QED BY <2>4, <2>5
<1>3. CASE WriteArtifact /\ ~Raise
  <2>1. pc = "write" /\ pc \in Claimed /\ pc \in Prepared \ {"note"}
    BY <1>3 DEF WriteArtifact, Claimed, Prepared, Recognising
  <2>2. Assemblable(results) /\ pc' = "clear"
    BY <1>3 DEF WriteArtifact
  <2>3. Published' # {}
    BY <2>2 DEF JobInv, Holding, Closing
  <2>4. Saved = Windows
    BY <2>1 DEF JobInv, Durably, Mirrored, Windows
  <2>5. UNCHANGED <<workspace, rec>> /\ rec.status = "running"
    BY <1>3, <2>1 DEF WriteArtifact, JobInv, Recorded, evidence
  <2>6. Durable!Publish
    BY <2>3, <2>4, <2>5 DEF Durable!Publish, Durable!All, Windows
  <2> QED BY <2>6 DEF Durable!Next
<1>4. CASE ~(SaveSegment /\ ~Raise) /\ ~(WriteArtifact /\ ~Raise)
  <2>1. Published' = Published
    BY <1>4, PublishedFrame DEF JobInv
  <2>2. Saved' = Saved \/ Published # {} \/ Abandoned'
    <3>1. CASE UNCHANGED ckpt
      BY <3>1 DEF Saved
    <3>2. CASE Clear
      BY <3>2 DEF Clear, JobInv, Holding, Closing
    <3>3. CASE Discard \/ Retain
      BY <3>3 DEF Discard, Retain, Settled, RemoveWorkspace, Abandoned
    <3> QED BY <1>4, <3>1, <3>2, <3>3, EvidenceFrame DEF Claim, Prepare,
               SaveSegment, Raise, Unwind, evidence, JobInv
  <2> QED BY <1>1, <2>1, <2>2, AbandonOrStay
<1> QED BY <1>2, <1>3, <1>4

\* KeepsPromise for every job of the desktop: every step of every worker,
\* crash, error, resume and deletion is a step of DurableTranscript under the
\* refinement mapping of JobRunDurable, or leaves what the owner sees alone.
THEOREM ImplementsDurable ==
  ASSUME Interruptible = FALSE
  PROVE  Spec => KeepsPromise
<1>1. Init => Durable!Init
  BY PromiseInit
<1>2. JobInv /\ JobInv' /\ [Next]_vars => [Durable!Next]_(Durable!vars)
  BY PromiseStep
<1> QED BY JobInvAlways, <1>1, <1>2, PTL DEF Spec, KeepsPromise, Durable!Spec
=============================================================================
