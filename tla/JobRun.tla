------------------------------- MODULE JobRun -------------------------------
(***************************************************************************)
(* One transcription job: the sequence of worker processes that start it   *)
(* and resume it, and the files they leave on disk.                        *)
(*                                                                         *)
(* A worker is one call of TranscriptionJobRunner.execute, which wraps one *)
(* call of TranscriptionExecutor.execute.  It keeps its progress in the    *)
(* volatile variables; a crash (the native host cancels a task by killing  *)
(* the worker) loses them and leaves every file as it is.  The next worker *)
(* is a resume that trusts nothing but the private checkpoint directory.   *)
(*                                                                         *)
(* One action is one call that changes the disk: files are replaced        *)
(* atomically (LocalFileManager.save_file), so a crash falls before or     *)
(* after each action, except where FFmpeg or the segmenter grows a file in *)
(* place, which Crash and Interrupt may leave half-written.                *)
(***************************************************************************)
EXTENDS Naturals, Sequences, FiniteSets

CONSTANTS
  N,             \* windows of the deterministic segment plan
  Versions,      \* versions of the installed transcription engine
  Sources,       \* successive contents of the source recording
  MaxNames,      \* max_collision_attempts of reserve_artifact
  MaxFaults,     \* bound: crashes, injected errors and interrupts together
  Normalize,     \* the plan decodes to normalized.wav (else DIRECT)
  Enhance,       \* the plan suppresses noise to enhanced.wav
  Interruptible, \* the CLI: Ctrl-C raises KeyboardInterrupt in the worker
  EditDuringRun, \* the source may change after the worker verified it
  None,          \* no contract, no checkpoint, no session
  Free,          \* an artifact name nobody has taken
  Reserved       \* an artifact name held by an empty file

Windows == 0 .. (N - 1)
Names   == 1 .. MaxNames
Derived == {"normalized", "enhanced"}

\* What the engine heard: the window, its version, the bytes it listened to.
Piece == [window : Windows, engine : Versions, source : Sources]

\* A canonical transcript: the fingerprint it claims, and its text.
Transcript == [source : Sources, engine : Versions, segments : Seq(Piece)]

ASSUME CountsAssumption == /\ N \in Nat \ {0}
                           /\ MaxNames \in Nat \ {0}
                           /\ MaxFaults \in Nat
ASSUME SwitchAssumption == /\ Normalize \in BOOLEAN
                           /\ Enhance \in BOOLEAN
                           /\ Interruptible \in BOOLEAN
                           /\ EditDuringRun \in BOOLEAN
ASSUME NoneAssumption == /\ None \notin Versions \cup Sources
                         /\ None \notin Piece
ASSUME NamesAssumption == /\ Free # Reserved
                          /\ {Free, Reserved} \cap Transcript = {}

VARIABLES
  \* on disk
  workspace,  \* the private job directory exists
  manifest,   \* checkpoints/manifest.json: the source its contract names
  ckpt,       \* checkpoints/audio-NNNNNN.json
  derived,    \* normalized.wav and enhanced.wav in the workspace
  segs,       \* segments/audio-NNNNNN.wav in the workspace
  stuck,      \* those of them that cleanup was to unlink, and could not
  output,     \* the canonical artifact names in the output directory
  rec,        \* the private lifecycle record
  \* the machine
  source,     \* the recording's present contents
  installed,  \* the engine version a session would report
  \* the worker
  pc,         \* the call it makes next; "idle": no worker
  resume,     \* started as a resume
  planned,    \* the fingerprint in its plan
  audio,      \* what its decoded audio was made from; None: read in place
  owned,      \* the derived files it will clean up
  session,    \* the version of its open engine session
  slot,       \* the piece in flight
  results,    \* the pieces recognised or restored so far
  name,       \* the artifact name it reserved
  cause,      \* why it is unwinding
  \* bounds and history
  faults,     \* faults so far
  clean       \* no fault hit this worker

machine  == <<source, installed>>
audioFiles == <<derived, segs, stuck>>
evidence == <<workspace, manifest, ckpt>>
disk     == <<evidence, audioFiles, output>>
run      == <<resume, planned, audio, owned, session, slot, results, name>>
history  == <<faults, clean>>
vars == <<disk, rec, machine, pc, run, cause, history>>

Statuses == {"absent", "running", "interrupted", "failed", "completed",
             "discarded"}   \* "discarded": absent, and the id is never reused

Causes == {"none", "failed", "interrupted"}   \* why a worker unwinds

Steps == {"idle", "admit", "claim", "reserve", "decode", "enhance", "segment",
          "prepare", "open", "materialize", "transcribe", "save", "note",
          "write", "clear", "sweep", "complete", "release", "report"}

-----------------------------------------------------------------------------
(* Readings of the disk.                                                   *)

Saved == {w \in Windows : ckpt[w] # None}

\* indices == range(last + 1), and how many they are.
Contiguous(S) == \E k \in 0 .. N : S = 0 .. (k - 1)
Count(S)      == CHOOSE k \in 0 .. N : S = 0 .. (k - 1)

\* LocalCheckpointStore.restore accepts what it finds.
Restorable ==
  /\ manifest = planned
  /\ Contiguous(Saved)
  /\ \A v, w \in Saved : ckpt[v].engine = ckpt[w].engine

\* ... and returns it in the order of the windows.
Restored == [i \in 1 .. Count(Saved) |-> ckpt[i - 1]]

\* The sequence TranscriptAssembler accepts: window i at place i, one version.
Assemblable(pieces) ==
  /\ pieces # <<>>
  /\ \A i \in DOMAIN pieces : /\ pieces[i].window = i - 1
                              /\ pieces[i].engine = pieces[1].engine

\* The first name reserve_file can create, in the order it tries them.
FirstFree(n) == output[n] = Free /\ \A m \in 1 .. (n - 1) : output[m] # Free

\* What the decoder, the enhancer and the segmenter read the source through.
Heard == IF audio = None THEN source ELSE audio

\* The files list_files hands to clear, in its order: the manifest is last.
NextToClear(w) == w \in Saved /\ \A v \in Saved : w <= v

-----------------------------------------------------------------------------
Init ==
  /\ workspace = FALSE /\ manifest = None /\ ckpt = [w \in Windows |-> None]
  /\ derived = {} /\ segs = {} /\ stuck = {} /\ output = [n \in Names |-> Free]
  /\ rec = [status |-> "absent", total |-> 0, completed |-> 0, artifact |-> 0]
  /\ source \in Sources /\ installed \in Versions
  /\ pc = "idle" /\ resume = FALSE /\ planned = None /\ audio = None
  /\ owned = {} /\ session = None /\ slot = None /\ results = <<>> /\ name = 0
  /\ cause = "none" /\ faults = 0 /\ clean = TRUE

\* One of the MaxFaults things that may go wrong.
Fault == faults < MaxFaults /\ faults' = faults + 1 /\ clean' = FALSE

\* The process is gone: its memory goes with it.
Exit ==
  /\ pc' = "idle" /\ resume' = FALSE /\ planned' = None /\ audio' = None
  /\ owned' = {} /\ session' = None /\ slot' = None /\ results' = <<>>
  /\ name' = 0 /\ cause' = "none" /\ clean' = TRUE

\* An exception leaves the step: before the try block it goes straight to the
\* runner, inside it the reserved artifact is deleted first.
Unprotected == {"admit", "claim", "reserve"}

Unwind(why) ==
  /\ cause' = why
  /\ pc' = IF pc \in Unprotected THEN "report" ELSE "release"

Raise == Unwind("failed")

\* A new worker: lifecycle.start writes its record before anything else.
Launch(asResume, fingerprint) ==
  /\ pc = "idle"
  /\ pc' = "admit"
  /\ resume' = asResume
  /\ planned' = fingerprint
  /\ rec' = [rec EXCEPT !.status = "running", !.artifact = 0]
  /\ UNCHANGED <<disk, machine, audio, owned, session, slot, results, name,
                 cause, history>>

Start == rec.status = "absent" /\ Launch(FALSE, source)

\* plan_resume refuses without a manifest, or one that names other contents.
Resume ==
  /\ rec.status \notin {"absent", "discarded"}
  /\ manifest = source
  /\ Launch(TRUE, manifest)

\* Mutant: the source is not probed again before it is used.
AdmitUnverified ==
  /\ pc = "admit" /\ pc' = "claim"
  /\ UNCHANGED <<disk, rec, machine, run, cause, history>>

\* media.verify: the probe must find the planned contents.
Admit ==
  /\ pc = "admit"
  /\ \/ source = planned /\ pc' = "claim" /\ UNCHANGED cause
     \/ source # planned /\ Raise
  /\ UNCHANGED <<disk, rec, machine, run, history>>

\* create_job makes the workspace, resume_job requires it.
Claim ==
  /\ pc = "claim"
  /\ \/ workspace = resume /\ workspace' = TRUE /\ pc' = "reserve"
        /\ UNCHANGED cause
     \/ workspace # resume /\ Raise /\ UNCHANGED workspace
  /\ UNCHANGED <<manifest, ckpt, audioFiles, output, rec, machine, run,
                 history>>

Reserve ==
  /\ pc = "reserve"
  /\ \/ \E n \in Names : /\ FirstFree(n)
                          /\ name' = n
                          /\ output' = [output EXCEPT ![n] = Reserved]
                          /\ pc' = "decode"
                          /\ UNCHANGED cause
     \/ /\ \A n \in Names : output[n] # Free
        /\ Raise
        /\ UNCHANGED <<output, name>>
  /\ UNCHANGED <<evidence, audioFiles, rec, machine, resume, planned, audio,
                 owned, session, slot, results, history>>

\* Mutant: the leftover of a crashed run is not unlinked.
DeriveRefuses(file, next) ==
  /\ IF file \in derived
       THEN Raise /\ UNCHANGED <<derived, owned, audio>>
       ELSE /\ pc' = next /\ audio' = Heard /\ UNCHANGED cause
            /\ derived' = derived \cup {file}
            /\ owned' = owned \cup {file}
  /\ UNCHANGED <<evidence, segs, stuck, output, rec, machine, resume, planned,
                 session, slot, results, name, history>>

\* FFmpeg runs with -n: it refuses a file that is already there, and the
\* decoder then unlinks that file before it raises.
Derive(file, next) ==
  /\ \/ /\ file \notin derived
        /\ pc' = next
        /\ derived' = derived \cup {file}
        /\ owned' = owned \cup {file}
        /\ audio' = Heard
        /\ UNCHANGED cause
     \/ /\ file \in derived
        /\ derived' = derived \ {file}
        /\ Raise
        /\ UNCHANGED <<owned, audio>>
  /\ UNCHANGED <<evidence, segs, stuck, output, rec, machine, resume, planned,
                 session, slot, results, name, history>>

Decode ==
  /\ pc = "decode"
  /\ \/ Normalize /\ Derive("normalized", "enhance")
     \/ /\ ~Normalize
        /\ pc' = "enhance"
        /\ UNCHANGED <<disk, rec, machine, run, cause, history>>

EnhanceAudio ==
  /\ pc = "enhance"
  /\ \/ Enhance /\ Derive("enhanced", "segment")
     \/ /\ ~Enhance
        /\ pc' = "segment"
        /\ UNCHANGED <<disk, rec, machine, run, cause, history>>

\* Mutant: the segment in flight is counted as completed.
ProgressAhead(done) == rec' = [rec EXCEPT !.status = "running", !.total = N,
                                          !.completed = done + 1]

Progress(done) == rec' = [rec EXCEPT !.status = "running", !.total = N,
                                     !.completed = done]

\* The plan is deterministic; its size is recorded with a count of zero.
Segment ==
  /\ pc = "segment"
  /\ Progress(0)
  /\ pc' = "prepare"
  /\ UNCHANGED <<disk, machine, run, cause, history>>

\* checkpoint.prepare: initialize a start, restore a resume.
Prepare ==
  /\ pc = "prepare"
  /\ \/ /\ IF resume THEN Restorable ELSE manifest = None
        /\ manifest' = planned
        /\ results' = IF resume THEN Restored ELSE <<>>
        /\ Progress(Len(results'))
        /\ pc' = "open"
        /\ UNCHANGED cause
     \/ /\ IF resume THEN ~Restorable ELSE manifest # None
        /\ Raise
        /\ UNCHANGED <<manifest, results, rec>>
  /\ UNCHANGED <<workspace, ckpt, audioFiles, output, machine, resume, planned,
                 audio, owned, session, slot, name, history>>

\* Mutant: the session's version is not compared with the checkpoints'.
OpenAny ==
  /\ pc = "open"
  /\ pc' = IF Len(results) = N THEN "write" ELSE "materialize"
  /\ session' = IF Len(results) = N THEN session ELSE installed
  /\ UNCHANGED <<disk, rec, machine, resume, planned, audio, owned, slot,
                 results, name, cause, history>>

\* admission.pre_model and engine.open; a fully restored job needs no engine.
Open ==
  /\ pc = "open"
  /\ \/ /\ Len(results) = N
        /\ pc' = "write"
        /\ UNCHANGED <<session, cause>>
     \/ /\ Len(results) # N
        /\ session' = installed
        /\ IF results # <<>> /\ results[1].engine # installed
             THEN Raise
             ELSE pc' = "materialize" /\ UNCHANGED cause
  /\ UNCHANGED <<disk, rec, machine, resume, planned, audio, owned, slot,
                 results, name, history>>

\* The segment file is opened "xb"; a leftover is unlinked and raised over.
Materialize ==
  LET w == Len(results) IN
  /\ pc = "materialize"
  /\ \/ /\ w \notin segs
        /\ segs' = segs \cup {w}
        /\ slot' = [window |-> w, engine |-> session, source |-> Heard]
        /\ pc' = "transcribe"
        /\ UNCHANGED <<stuck, cause>>
     \/ /\ w \in segs
        /\ segs' = segs \ {w} /\ stuck' = stuck \ {w}
        /\ Raise
        /\ UNCHANGED slot
  /\ UNCHANGED <<evidence, derived, output, rec, machine, resume, planned,
                 audio, owned, session, results, name, history>>

\* Mutant: the segment file is left to the end of the job.
TranscribeKeeps ==
  /\ pc = "transcribe" /\ pc' = "save"
  /\ UNCHANGED <<disk, rec, machine, run, cause, history>>

\* audio_segmenter.cleanup: an unlink that fails is swallowed, the file stays.
CleanupSegment ==
  \/ segs' = segs \ {slot.window} /\ UNCHANGED <<stuck, history>>
  \/ Fault /\ stuck' = stuck \cup {slot.window} /\ UNCHANGED segs

\* The engine's answer; the segment file is cleaned up whatever it was.
Transcribe ==
  /\ pc = "transcribe"
  /\ CleanupSegment
  /\ pc' = "save"
  /\ UNCHANGED <<evidence, derived, output, rec, machine, run, cause>>

SaveSegment ==
  LET w == slot.window IN
  /\ pc = "save"
  /\ \/ /\ manifest # None /\ ckpt[w] = None
        /\ ckpt' = [ckpt EXCEPT ![w] = slot]
        /\ pc' = "note"
        /\ UNCHANGED cause
     \/ /\ manifest = None \/ ckpt[w] # None
        /\ Raise
        /\ UNCHANGED ckpt
  /\ UNCHANGED <<workspace, manifest, audioFiles, output, rec, machine, run,
                 history>>

\* Mutant: the loop ends one window early.
NoteStopsEarly ==
  /\ pc = "note"
  /\ results' = Append(results, slot)
  /\ slot' = None
  /\ Progress(Len(results'))
  /\ pc' = IF Len(results') >= N - 1 THEN "write" ELSE "materialize"
  /\ UNCHANGED <<disk, machine, resume, planned, audio, owned, session, name,
                 cause, history>>

\* results.append and the progress record.
Note ==
  /\ pc = "note"
  /\ results' = Append(results, slot)
  /\ slot' = None
  /\ Progress(Len(results'))
  /\ pc' = IF Len(results') = N THEN "write" ELSE "materialize"
  /\ UNCHANGED <<disk, machine, resume, planned, audio, owned, session, name,
                 cause, history>>

\* Assembly, canonicalisation under the planned fingerprint, and the atomic
\* replacement of the reserved file.
WriteArtifact ==
  /\ pc = "write"
  /\ \/ /\ Assemblable(results)
        /\ output' = [output EXCEPT ![name] =
                        [source |-> planned, engine |-> results[1].engine,
                         segments |-> results]]
        /\ pc' = "clear"
        /\ UNCHANGED cause
     \/ ~Assemblable(results) /\ Raise /\ UNCHANGED output
  /\ UNCHANGED <<evidence, audioFiles, rec, machine, run, history>>

\* Mutant: the contract stays when its checkpoints are gone.
ClearKeepsContract ==
  /\ pc = "clear"
  /\ \/ /\ \E w \in Windows : /\ NextToClear(w)
                              /\ ckpt' = [ckpt EXCEPT ![w] = None]
        /\ UNCHANGED pc
     \/ Saved = {} /\ pc' = "sweep" /\ UNCHANGED ckpt
  /\ UNCHANGED <<workspace, manifest, audioFiles, output, rec, machine, run,
                 cause, history>>

\* One deletion of LocalCheckpointStore.clear.
Clear ==
  /\ pc = "clear"
  /\ \/ /\ \E w \in Windows : /\ NextToClear(w)
                              /\ ckpt' = [ckpt EXCEPT ![w] = None]
        /\ UNCHANGED <<manifest, pc>>
     \/ /\ Saved = {}
        /\ manifest' = None
        /\ pc' = "sweep"
        /\ UNCHANGED ckpt
  /\ UNCHANGED <<workspace, audioFiles, output, rec, machine, run, cause,
                 history>>

\* The finally block: the enhanced file, then the decoded one.
Sweep ==
  /\ pc = "sweep"
  /\ LET file == IF "enhanced" \in owned THEN {"enhanced"} ELSE owned IN
     /\ derived' = derived \ file
     /\ owned' = owned \ file
     /\ pc' = IF owned' # {} THEN "sweep"
              ELSE IF cause = "none" THEN "complete" ELSE "report"
  /\ UNCHANGED <<evidence, segs, stuck, output, rec, machine, resume, planned,
                 audio, session, slot, results, name, cause, history>>

\* _release_failed_artifact
Release ==
  /\ pc = "release"
  /\ output' = [output EXCEPT ![name] = Free]
  /\ pc' = "sweep"
  /\ UNCHANGED <<evidence, audioFiles, rec, machine, run, cause, history>>

Complete ==
  /\ pc = "complete"
  /\ rec' = [rec EXCEPT !.status = "completed", !.completed = rec.total,
                        !.artifact = name]
  /\ Exit
  /\ UNCHANGED <<disk, machine, faults>>

\* lifecycle.interrupt or lifecycle.fail
Report ==
  /\ pc = "report"
  /\ rec' = [rec EXCEPT !.status = cause]
  /\ Exit
  /\ UNCHANGED <<disk, machine, faults>>

Worker == \/ Admit \/ Claim \/ Reserve \/ Decode \/ EnhanceAudio \/ Segment
          \/ Prepare \/ Open \/ Materialize \/ Transcribe \/ SaveSegment
          \/ Note \/ WriteArtifact \/ Clear \/ Sweep \/ Release \/ Complete
          \/ Report

-----------------------------------------------------------------------------
(* Faults.                                                                 *)

\* The file that FFmpeg or the segmenter was writing when it was cut off.
MaybeHalfWritten ==
  /\ derived' \in
       {derived,
        derived \cup (CASE pc = "decode" /\ Normalize -> {"normalized"}
                        [] pc = "enhance" /\ Enhance -> {"enhanced"}
                        [] OTHER -> {})}
  /\ segs' \in {segs, IF pc = "materialize" THEN segs \cup {Len(results)}
                                            ELSE segs}
  /\ UNCHANGED stuck

\* An exception or Ctrl-C leaves a call: the handlers unlink what it was
\* writing, or the segment being transcribed, or do not: the unlink fails too,
\* and Ctrl-C passes the ones of materialize.
CutOff ==
  \/ pc # "transcribe" /\ MaybeHalfWritten
  \/ /\ pc = "transcribe" /\ segs' \in {segs, segs \ {slot.window}}
     /\ UNCHANGED <<derived, stuck>>

\* SIGKILL, power loss, or the host's cancel.
Crash ==
  /\ pc # "idle" /\ faults < MaxFaults /\ faults' = faults + 1
  /\ MaybeHalfWritten
  /\ Exit
  /\ UNCHANGED <<evidence, output, rec, machine>>

\* A call raises an Exception.
StepFails ==
  /\ pc \in {"admit", "claim", "reserve", "decode", "enhance", "segment",
             "prepare", "open", "materialize", "transcribe", "save", "note",
             "write"}
  /\ Fault
  /\ Raise
  /\ CutOff
  /\ UNCHANGED <<evidence, output, rec, machine, run>>

\* Failures the code swallows: a deletion in clear, the release of the
\* artifact, the removal of the enhanced file.
ClearFails ==
  /\ pc = "clear" /\ Fault
  /\ pc' = "sweep"
  /\ UNCHANGED <<disk, rec, machine, run, cause>>

ReleaseFails ==
  /\ pc = "release" /\ Fault
  /\ pc' = "sweep"
  /\ UNCHANGED <<disk, rec, machine, run, cause>>

EnhancedSweepFails ==
  /\ pc = "sweep" /\ "enhanced" \in owned /\ Fault
  /\ owned' = owned \ {"enhanced"}
  /\ UNCHANGED <<disk, rec, machine, pc, resume, planned, audio, session, slot,
                 results, name, cause>>

\* The removal of the decoded file is not swallowed: it fails the job.
DecodedSweepFails ==
  /\ pc = "sweep" /\ owned = {"normalized"} /\ Fault
  /\ owned' = {}
  /\ cause' = "failed"
  /\ pc' = "report"
  /\ UNCHANGED <<disk, rec, machine, resume, planned, audio, session, slot,
                 results, name>>

\* The last record is lost: the exception ends the process.
RecordFails ==
  /\ pc \in {"complete", "report"}
  /\ faults < MaxFaults /\ faults' = faults + 1
  /\ Exit
  /\ UNCHANGED <<disk, rec, machine>>

\* KeyboardInterrupt is no Exception: it passes every handler that names one.
Interrupt ==
  /\ Interruptible
  /\ pc \notin {"idle", "complete", "report"}
  /\ Fault
  /\ cause' = "interrupted"
  /\ pc' = CASE pc \in Unprotected \cup {"sweep"} -> "report"
             [] pc = "release" -> "sweep"
             [] OTHER -> "release"
  /\ CutOff
  /\ UNCHANGED <<evidence, output, rec, machine, run>>

Faulty == \/ Crash \/ StepFails \/ ClearFails \/ ReleaseFails
          \/ EnhancedSweepFails \/ DecodedSweepFails \/ RecordFails \/ Interrupt

-----------------------------------------------------------------------------
(* Everyone else.                                                          *)

\* JobLifecycleStore.get finds the recorded process gone (JobLifecycle has the
\* process it may not look at).
Reconcile ==
  /\ pc = "idle" /\ rec.status = "running"
  /\ rec' = [rec EXCEPT !.status = "interrupted"]
  /\ UNCHANGED <<disk, machine, pc, run, cause, history>>

RemoveWorkspace ==
  /\ workspace' = FALSE /\ manifest' = None
  /\ ckpt' = [w \in Windows |-> None]
  /\ derived' = {} /\ segs' = {} /\ stuck' = {}

Settled == pc = "idle" /\ rec.status \in {"interrupted", "failed", "completed"}

\* discard_job: the workspace and the record; the public artifact stays.
Discard ==
  /\ Settled
  /\ RemoveWorkspace
  /\ rec' = [status |-> "discarded", total |-> 0, completed |-> 0,
             artifact |-> 0]
  /\ UNCHANGED <<output, machine, pc, run, cause, history>>

\* execute_retention: the workspace of a job that is not running.
Retain ==
  /\ Settled /\ workspace
  /\ RemoveWorkspace
  /\ UNCHANGED <<output, rec, machine, pc, run, cause, history>>

EditSource ==
  /\ pc \in {"idle", "admit"} \/ EditDuringRun
  /\ source' \in Sources \ {source}
  /\ UNCHANGED <<disk, rec, installed, pc, run, cause, history>>

\* The application is upgraded between runs.
UpgradeEngine ==
  /\ pc = "idle"
  /\ installed' \in Versions \ {installed}
  /\ UNCHANGED <<disk, rec, source, pc, run, cause, history>>

Environment == Reconcile \/ Discard \/ Retain \/ EditSource \/ UpgradeEngine

\* Nothing is left to do for a job that is over.
Rest ==
  /\ pc = "idle" /\ rec.status # "absent" /\ manifest = None
  /\ UNCHANGED vars

Next == Start \/ Resume \/ Worker \/ Faulty \/ Environment \/ Rest

Spec == Init /\ [][Next]_vars

\* A live process takes its next step.  Nobody is obliged to do anything
\* else; a job that is polled is reconciled (list_records reads every record).
FairSpec == Spec /\ WF_vars(Worker) /\ WF_vars(Reconcile)

\* ... and a user who wants the transcript keeps pressing Resume.
PersistentSpec == FairSpec /\ WF_vars(Resume)

-----------------------------------------------------------------------------
(* Properties.                                                             *)

(* Types: a lifecycle record, the files, the worker, the rest.             *)

Records == [status : Statuses, total : {0, N}, completed : 0 .. N,
            artifact : 0 .. MaxNames]

DiskOK ==
  /\ workspace \in BOOLEAN
  /\ manifest \in Sources \cup {None}
  /\ ckpt \in [Windows -> Piece \cup {None}]
  /\ derived \in SUBSET Derived
  /\ segs \in SUBSET Windows /\ stuck \in SUBSET Windows
  /\ output \in [Names -> Transcript \cup {Free, Reserved}]

WorkerOK ==
  /\ pc \in Steps /\ resume \in BOOLEAN
  /\ planned \in Sources \cup {None} /\ audio \in Sources \cup {None}
  /\ owned \in SUBSET Derived /\ session \in Versions \cup {None}
  /\ slot \in Piece \cup {None} /\ results \in Seq(Piece)
  /\ name \in 0 .. MaxNames
  /\ cause \in Causes

OthersOK ==
  /\ source \in Sources /\ installed \in Versions
  /\ faults \in 0 .. MaxFaults /\ clean \in BOOLEAN

\* Every file, record and variable of the worker has its type.
TypeOK == DiskOK /\ rec \in Records /\ WorkerOK /\ OthersOK

Published == {n \in Names : output[n] \notin {Free, Reserved}}

\* A published transcript is whole, in order, of one engine version, and was
\* heard from the very bytes whose fingerprint it claims, however many
\* crashes, resumes, upgrades and edits went into it.
TranscriptIntegrity ==
  \A n \in Published :
    LET t == output[n] IN
    t.segments = [i \in 1 .. N |-> [window |-> i - 1, engine |-> t.engine,
                                   source |-> t.source]]

\* Until it is published, whatever a job has checkpointed can be restored: a
\* prefix of the plan, of one engine version, from the contract's source.
AlwaysRestorable ==
  Published = {} =>
    /\ Contiguous(Saved)
    /\ \A v, w \in Saved : ckpt[v].engine = ckpt[w].engine
    /\ \A w \in Saved : ckpt[w].window = w /\ ckpt[w].source = manifest

\* A window that the record counts as completed is on disk until the
\* transcript is.
ProgressIsDurable ==
  workspace /\ Published = {} => 0 .. (rec.completed - 1) \subseteq Saved

\* A job that is recorded as completed names a transcript that exists.
CompletedIsPublished ==
  rec.status = "completed" => rec.artifact \in Published

\* A completed job has left no recording of anyone's voice in its workspace,
\* the crashed, failed and interrupted runs before it included.  Only what a
\* removal that fails silently left is excepted: a segment that was to be
\* unlinked after its transcription and could not be, and the enhanced copy.
NoAudioLeftBehind ==
  rec.status = "completed" => segs \subseteq stuck /\ "normalized" \notin derived

\* No step but the owner's own deletion takes a recognised window off the
\* disk before the transcript is published.
NoWorkLost ==
  [][\A w \in Saved : ckpt'[w] = None => Published # {} \/ ~workspace']_vars

\* A published transcript is never altered nor withdrawn by the program.
PublishedStays == [][\A n \in Published : output'[n] = output[n]]_vars

\* Faults being finite, a checkpointed job whose owner keeps resuming it, and
\* does not delete it, is eventually published: unless Ctrl-C met clear() half
\* way, the one thing that leaves what cannot be restored (AlwaysRestorable).
EventuallyPublished ==
  manifest # None ~> Published # {} \/ ~workspace \/ ~AlwaysRestorable

\* A job is published again only after a fault: nothing asks at a resume
\* whether it was, and only clear() takes the contract away, so no sequence of
\* calls that succeed publishes twice.  All its transcripts name one recording.
OnlyFaultsRepeat ==
  /\ Cardinality(Published) <= 1 + faults
  /\ \A m, n \in Published : output[m].source = output[n].source

(* What the documentation says, and the runs refute.                       *)

\* SECURITY.md: interrupted jobs retain their checkpoint payloads.
InterruptedKeepsWork ==
  pc = "idle" /\ rec.status = "interrupted" /\ workspace =>
    Published # {} \/ 0 .. (rec.completed - 1) \subseteq Saved

\* SECURITY.md: segment and derived audio files are disposable: a resume no
\* fault disturbs is not failed by the ones it finds.
ScratchIsDisposable == resume /\ clean => cause = "none"

\* TranscriptLibraryService: a canonical transcript job ID is unique.
OneTranscriptPerJob == \A m, n \in Published : m = n
=============================================================================
