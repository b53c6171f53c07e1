# Scholion in TLA+

Scholion transcribes recordings on the computer it runs on. A React front end in
a Tauri host asks short-lived Python processes for everything; long work runs in
a worker process that the host supervises. Jobs and transcripts are
files, replaced one at a time, with no transaction and no lock between the
processes that share them; what is derived from them lies in two DuckDB indexes,
and what the owner writes in SQLite, with no transaction across the three. This directory models the parts in which that is hard to get
right, checks them with TLC, and proves the central results with TLAPS.

    tlc -config JobRun_desktop.cfg JobRunDurable     one run
    tlapm JobRunProofs.tla                           one module of proofs

`PROJECT.json` lists the runs, the mutants, the hazards, the theorems, and for
every definition that models code the lines it stands for.

## 1. The system

Python paths are under `src/src/scholion/`, Rust under
`src/frontend/src-tauri/src/`, React under `src/frontend/src/`.

### Who calls whom

    React view  --Tauri command-->  host (backend.rs, processing.rs, ...)
      host --one process per request, one at a time (bridge lock)-->  desktop/bridge.py
      host --one supervised child-->  desktop/processing_worker.py
        worker --> TranscriptionJobRunner --> TranscriptionExecutor
          --> workspace, checkpoints, lifecycle record, artifact   (files)
          --> FFmpeg, faster-whisper                               (external)
    cli.py --> the same runner, in its own process; Ctrl-C reaches it

Bridge, worker and CLI share nothing but files. The bridge lock serialises
bridge processes; it does not cover the worker, nor the CLI. Whoever has the indexes
open holds DuckDB's lock on them.

### Inventory

| Component | State it keeps | Operations | What makes it correct |
|---|---|---|---|
| Transcription execution (`transcription/executor.py`, `app/job_runner.py`) | a worker's memory; reserved artifact | execute a plan, resume it | what is published is whole and honest; nothing recognised is lost before; nothing published is withdrawn |
| Accelerated execution (`adaptive_executor.py`, `pipeline.py`) | one pending future, segment files | prefetch, yield, clean up | plan order, one segment ahead, nothing left, no deadlock |
| Checkpoints (`checkpoint.py`) | `manifest.json`, one file per window | initialize, restore, save, clear | a prefix of the plan, of one contract and one engine |
| Decoding, enhancement, segmentation, assembly | derived audio in the workspace | derive, slice, join | exclusive creation; leftovers never feed a transcript |
| Workspaces and names (`workspace/service.py`) | private job directory, numbered names | create, require, reserve | a name is given once |
| Lifecycle record (`workspace/lifecycle.py`) | one JSON file per job | start, progress, complete, interrupt, fail, get, discard | says what happened, and does not say running for ever |
| Processing centre (`app/processing_center.py`) | none | list, preflight, discard | a discard deletes what was shown |
| Native supervisor (`processing.rs`) | task id to child and verdict, under a mutex | start, status, cancel, drop | one task; true and final verdicts; no escaped child |
| Processing view (`ProcessingCenter.tsx`) | the task card | poll, start, stop | shows what the host knows |
| Update channel (`update_channel/service.py`, `update_manifest.py`) | `trust-state.json`, staged packages | check, stage, grant a ticket | trust only grows; what is opened is what was granted |
| Update activation (`update_activation.rs`) | a ticket | parse, open | as above, after the lock |
| Library custody (`library/custody.py`) | deletion plans and tokens | plan, confirm, execute | deletes what was confirmed; spares what runs |
| Library and search (`library/service.py`, DuckDB indexes) | projections of canonical transcripts | refresh, rebuild, search | projection equals the files; stale embeddings are never served |
| Research state (`sqlite_research_*.py`, projector) | notes, anchors, events, projection checkpoint | revise, project, review | projection follows the authority in order |
| Locations, metadata, saved searches | small JSON or SQLite stores | create, change, remove | unique names, revision checks |
| Speaker labels, transcript tools | labels bound to a transcript generation | name, merge, read with speakers, export | a label never lands on another generation; what is read is who was heard |
| Playback (`playback.rs`, `library/playback.py`) | media sessions | open, seek by range, close | only the granted file, only while granted |
| Model management (`model_management/service.py`) | snapshots and manifests | install, verify, remove | a manifest names files that are there |
| Planner, strategy, policy | none | preflight, rank, admit | deterministic; a resume's contract is honoured |
| Media probe (`media/probe.py`) | none | inspect, name tracks, fingerprint | all readings of one and the same contents |
| Language, alignment, diarization | none | project a transcript | order and coverage of spans |
| Supply chain, CLI, core services, benchmarks | none of their own | verify, parse, print | pure |

### What is hard here

Workers are cancelled by killing them, so every two writes may be separated by a
crash. FFmpeg and the segmenter grow files in place. A `KeyboardInterrupt`
passes every `except Exception`. The lifecycle record is read, judged and
replaced by processes that do not exclude each other. Answers of asynchronous
commands reach a view that may show something else by then, or be gone. The
update channel reads its trust before the network answers and writes it after.
Indexes and projections are brought up to date in steps while what they follow
changes, by processes that may be killed between two of them. A plan is made on one
machine state, admitted on a second and resumed on a third. Times and offsets are
rebased, clipped and validated by different parts, and a validator that disagrees
throws the whole work away at its end.
The list, line by line, is `hazards` in `PROJECT.json`.

## 2. The modules

| Module | Models | Composed in |
|---|---|---|
| `JobRun`, `DurableTranscript`, `JobRunDurable` | one job over all its workers; the promise to the owner; the refinement | |
| `JobLifecycle` | the record and the processes that share it | |
| `ProcessingTasks`, `SegmentPrefetch`, `UpdateChannel`, `TrustedReleases` | supervisor and card; accelerated loop; updates; what they promise the user | `MCHost` |
| `MediaProbe`, `Planning`, `Timeline`, `SpeakerPresentation`, `Languages`, `Retrieval` | the look at a recording; resources and admission; the timeline of a transcript; its reading with speakers; its languages; a search | `MCPlanning` |
| `Library` | discovery, the lexical and the semantic index | `MCLibrary` |
| `ResearchState` | notes, journal, projection, anchors | `MCResearchState` |
| `Custody`, `ModelCustody` | deletion of a transcript's material; models | `MCCustody` |
| `Reader`, `ResearchView`, `SetupPage` | the desktop's pages | `MCReader`, `MCDesktop` |
| `...Proofs` | the theorems of section 4 | |

A composing module puts side by side parts that share no state in the code: a
variable says which part is followed, the others stay in an initial state. That
shares a run, and claims nothing of the parts together. Components that do share
state (worker, record and workspace; host and card; page, backend and host;
both indexes and the files; authority and projection) are in one module.

### JobRun: one job, all its workers

Disk: `workspace`, `manifest`, `ckpt`, `derived`, `segs`, `output`, `rec`. Worker:
`pc` and what `TranscriptionExecutor.execute` holds in local variables. One
action is one call that changes the disk, in the order of the code: `Launch`
(`lifecycle.start`), `Admit` (`media.verify`), `Claim`, `Reserve`, `Decode`,
`EnhanceAudio`, `Segment`, `Prepare`, `Open`, then `Materialize`, `Transcribe`,
`SaveSegment`, `Note` for each window, `WriteArtifact`, `Clear`, `Sweep`,
`Complete`; `Release` and `Report` on the way out of a failure.

What the engine heard is a record of a window, an engine version and the source
contents that its audio was made from. A transcript is the sequence of those
plus what it *claims*: so honesty is a statement about two different things, and
a step that joined pieces of two runs wrongly would be seen.

Faults are steps of their own, counted by `faults`: `Crash` (with or without a
half-written file), `StepFails` (any call raises), the failures that the code
swallows (`ClearFails`, `ReleaseFails`, `EnhancedSweepFails`, and the unlink of a
segment in `CleanupSegment`), the one it does not (`DecodedSweepFails`), a lost last
record, and `Interrupt` under the CLI. What a failing or interrupted call was writing
may stay (`CutOff`): its own unlink can fail, and Ctrl-C passes the handlers of
`materialize`. `stuck` is the segments whose unlink after transcription failed: nothing
comes back to them, so a completed job may keep them, and `NoAudioLeftBehind` names them.
Around the job: reconciliation, discard, retention, an edited source
(`EditSource`), an upgraded engine (`UpgradeEngine`).

`DurableTranscript` is the promise made to the owner in three variables and three
actions. `JobRunDurable` maps a job to it: what is safe is what is checkpointed,
or everything once it is published; the refinement is the property `KeepsPromise`.

### JobLifecycle: the record and those who share it

Here each read, each probe of the process table and each replacement is a step,
for any number of workers and clients. `current` is the set of copies that carry
the record's present `updated_at`: the screen's (`ScreenCopy`), the one a request
was made with (`Asked`), the one a process holds (`Held`). That stands for time
stamps without counting them. `denied` is the dead workers whose pid now belongs to a
process that psutil may not read: `_process_is_active` takes `AccessDenied` for alive, so
their record stays `running` as long as that is so. What a transcription does in between is reduced to
its effect on the workspace.

### ProcessingTasks: supervisor and view

The host takes one mutex for each command, so a handler is one action; a
command in flight and its answer are elements of `calls`, which are handled and
delivered in any order. A worker exits when it likes. `Quit` runs `Drop`, `Die`
does not and leaves an orphan. `Navigate` unmounts the view: the answers still on
their way are heard by nobody.

### SegmentPrefetch: the accelerated loop

Two threads: the caller in `_transcribe_accelerated` and the pool in
`materialize`. `future` is the pending future; `file` is what lies in each
segment's place, `"stale"` being a leftover of a killed predecessor. `spoiled`
is the windows whose file nobody will remove any more, and `NothingLeft` excepts just those:

- an unlink failed, in `cleanup` (which swallows it) or in a handler of `materialize`;
- Ctrl-C came while the loop materialized in its own thread (depth 0): `materialize`
  catches errors, not `KeyboardInterrupt`, and leaves a part of a segment;
- Ctrl-C came between `result()` or the yield and the `try` around `transcribe`, or inside
  its `finally`: the segment in hand is nobody's, with either depth;
- Ctrl-C broke `__exit__` off: the pool finishes a segment that nobody collects.

Not modelled is Ctrl-C in the few instructions between a `submit` and the assignment of
its future, after which the pool writes a second segment for nobody. A crash leaves files too: there JobRun takes over. The depth is
chosen when the loop begins.

### UpdateChannel: trust, packages and the ticket

A bridge process is `step`, `seen` (the state it loaded) and `offer` (the document
it verified). `UpdateCall` takes the host's lock, `GiveUp` is every refusal, network
failure and kill. `Docs` is a constant set of signed documents with sequence,
version, channel, package and validity; any of them may be served at any time.
`Open` happens without the lock. `opened` and `believed` are history.
`TrustedReleases` is the promise to the user in three variables and two actions: a
release of a higher sequence is trusted, or the package of one that was trusted is handed
over. `Releases` maps the channel to it (`trust.doc`, `believed`, `opened`), and the
refinement is the property `KeepsTrust`: no rollback, no second content of a sequence,
nothing opened but what was granted. Requests
that only read (status, preparation of an activation) change nothing and have no
action; after an installation the saved status stays what it was until the next
check, as in the code.

### Library: two indexes over files that move

Disk: `file` by place, drives (`mounted`), records of published jobs, remembered
`locations`, the lexical `index` and the `semantic` one, each its own DuckDB file.
One process at a time holds them (DuckDB's lock) and runs a `job` (refresh,
rebuild, embed) step by step: `Discover`, `Load` of one file after the other,
`Removed`, `ApplyDelta`, `RebuildIndex`, `ClearSemantic`, `RebuildSemantic`.
Between any two, jobs publish, the owner edits, copies, moves or deletes,
drives come and go, and the process may be killed. A file is its document, text
and stamp (size and time): a refresh that does not verify believes the stamp.

### ResearchState: notes and what finds them

`notes`, `history`, `log` and `floor` are the SQLite authority, in which each write is
one transaction and so one action; `rows` and `through` are the DuckDB projection. A
search first follows the journal in batches (`Compare`, `Fetch`, `Read`, `Apply`,
`Settle`), rebuilds from a `Snapshot` if the journal was compacted past it or the
projection was lost, may `Trim`, then matches. Writers go on between its steps, and
it may be killed at each. A client writes from the copy it was shown (`draft`);
reviews bind a note to another generation of the transcript.

### Custody and ModelCustody: what is removed

`Custody`: the owner chooses scopes, `Review` makes the plan, `Execute` makes it again,
compares tokens, checks what the plan rests on, and `ExecuteAction` carries the
actions out one by one, with `CutShort` between any two and no way back. Files, notes
and searches change until then; files while it runs, too.

`ModelCustody`: `Install` is `Download`, then `Register`; `RemoveModel` is
`DeleteRevision`, then `DeleteManifest`. Either may be cut off, files in the cache
may change from outside, a new release brings another policy, and a job is
planned with a revision that each of its sessions loads.

### Reader, ResearchView, SetupPage: pages whose answers come late

Each keeps the page's React state, the calls in flight with what they name, and
what the backend does when a call is handled. Calls are answered in any order,
while the page shows something else or is closed.

`Reader`: results, one reader with its player, or the tools panel. Playback is
authorised by Python, opened by the host (`Open`, at most eight sessions in the
code) and bound to a player when the answer comes. An export reserves its names
one by one, writes them one by one, and takes them back on a failure. The bridge
handles one call at a time (`BRIDGE_PROCESS_LOCK`), so handling is one action where
it reads and writes once; `Publish` takes steps because it can be killed.
`ResearchView`: two lists with an editor or a confirmation open in them, each with the
version it was made from; lists are reloaded under it. `SetupPage`: picking a
recording or a retry, choices, the plan asked for, shown and started, and the one
flag `busy` that some controls do not heed.

### MediaProbe, Planning, Timeline, SpeakerPresentation, Languages, Retrieval: what a transcript is

`MediaProbe` takes the probe apart: FFprobe once, again for the names of several
tracks, the fingerprint block by block, with edits of the recording between any two.
An edit renews the `stamp`; one that restores size, modification time and inode is
noticed neither by the code nor by the model. `ProbesAtOnce` is why every other module
reads a recording in one step.

`Planning` counts threads, memory, device memory and disk through the plan
(`planner.py`, `strategy.py`, `policy.py`), the executor's admission before the disk
and before the model, and the contract that a resume is planned from. The machine
and the recording change between any two steps. Strategies are a small catalogue
with the real ranking.

`Timeline` follows times: windows, segments and words of the engine, widening,
clipping and rebasing, turns and their labels, every validator, and the chunks of the
semantic index. One tick is the validators' tolerance, 0.05 s.

`SpeakerPresentation` extends `Timeline` by the reading of a published transcript with
its speakers (`speaker_presentation.py`): the evidence of each word, the spans of words
alike, and what a span's own class refuses. The reference is written moment by moment:
who speaks between a tick and the next. A span's text is left out, and so are the names
that the owner gave the speakers, which are Reader's.

`Languages` follows offsets: the texts of all segments are joined into one document,
cut into clauses, judged, and projected back on the segments; segments and
transcript then validate what they are given. The classifier is any function of the
letters of a clause, so the reference definition is the judgement of each segment's
own text, and the property is that the detour through the document equals it.

`Retrieval` is one search: segments ranked by the lexical index, chunks by the
semantic one, gathered, fused by reciprocal rank, cut and ordered, and each passage
looked up in a file that may have been replaced. Scores are open: any order of what
matches is a result of an index. A phrase is matched by whole words, where the code
matches letters. Segments are taken to be ordered by start and by end, as the engine
hears them: the evidence of a chunk whose last segment ends first could be refused. Sums
of reciprocals are exact fractions, the code's are floating point: ranks go to
`MaxCandidates`, where two different sums are further apart than rounding.

## 3. The runs

| Run | Instance | Shows |
|---|---|---|
| `jobrun_desktop` | 3 windows, 3 faults, 2 engines, 2 contents, 2 names | `TranscriptIntegrity`, `AlwaysRestorable`, `ProgressIsDurable`, `NoAudioLeftBehind`, `OnlyFaultsRepeat`, and the refinement `KeepsPromise` |
| `jobrun_recovers` | 3 windows, 3 faults, Ctrl-C among them, fairness | `EventuallyPublished` |
| `lifecycle_shared` | two successive workers, one client, one request cut off, fairness | `CompletedIsPublished`, `OrphansSettle`; `WorkspaceIsKept` and `DiscardsWhatItShowed` as long as the job was started once; pids of dead workers are reused and released |
| `host` | 2 tasks, 2 commands in flight, 2 sessions; 3 windows, 2 faults, Ctrl-C; 4 documents of 2 sequences and 2 channels, 3 versions, 3 days; fairness | `OneSupervised`, `VerdictsAreTrue`, `EndsAreNoticed`; `InPlanOrder`, `NothingLeft`, `LoopEnds`; the refinement `KeepsTrust` |
| `library` | 2 documents of 2 texts and stamps, 2 places, one on a drive, 2 changes | `OnePlaceEach`, `RetrievesWhatIsIndexed`, `RefreshTells` |
| `research` | 2 notes, a transcript of 2 generations, 3 changes, batches of one, one kept | `SearchIsCurrent`, `EditsWhatWasSeen`, `CitationsAreKept` |
| `custody` | 2 generations, one export, 2 notes, a saved search, 3 changes; 2 models of 2 revisions, 2 upgrades | `OnlyWhatWasReviewed`, `HumanStateLast`; `RunsWhatWasAdmitted`, `ReceiptsAreEarned` |
| `reader` | 2 transcripts, 2 formats, 2 names, one session, 2 calls; a note and a search of 3 versions; 2 recordings and a user who waits | `ActsOnWhatIsShown`, `PlaybackIsVerified`, `ExportsAreWhole`; `ReplacesWhatItLoaded`; `RunsWhatWasReviewed` |
| `planning` | 8 machines that lack one thing each, 2 changes; 2 windows, up to 3 segments and turns; 2 texts, any classifier; 2 documents, 4 queries, 3 modes; 5 recordings, 2 edits | `RunsAsAgreed`, `ReadmitsUnchanged`; `HeardIsKept`, `PresentsTheEvidence`; `SpansAreWhatWasJudged`; `AnswersAreEvidence`; `ProbesAtOnce` |
| `reader_switch` | as `reader` | refutes `PlaysWhatIsShown` |
| `turns` | as `planning` | refutes `OverlapIsEvidence` |
| `hasty` | as `reader`, a user who does not wait | refutes `RunsWhatWasReviewed` |

Every property of a passing run has a mutant of the modelled code that breaks it
under the same configuration; the mutant stands beside the definition it changes.
With two workers on two cores a run takes from half a minute to three minutes.

### The three findings

1. `reader_switch`: a passage opened over another keeps the reader's player, so the
   other transcript's recording plays beside it.
2. `turns`: two voices that begin and end together, the later label heard first, are
   sorted in one order and checked in another. The `ValueError` is raised when all
   windows are transcribed, and again by each resume.
3. `hasty`: radios, discovered recordings, the strategy, the enhancement and the
   jobs' buttons stay live while a plan is made, and each call's `finally` lowers the
   one `busy` flag. The plan of one recording is shown, and started, for another.

### More counterexamples, not among the runs

Each of these configurations ends with the trace of a thing the code does and one of
its documents does not say.

| Configuration (module) | Property | What it shows |
|---|---|---|
| `JobRun_ctrlc.cfg` (`JobRun`) | `InterruptedKeepsWork` | Ctrl-C while a finished job clears its checkpoints deletes the transcript just published (`executor.py:322`; `cli.py:613` and `SECURITY.md:325` say work is kept) |
| `JobRun_scratch.cfg` (`JobRun`) | `ScratchIsDisposable` | audio left by a killed worker fails the next resume, which then removes it (`audio.py:82`; `SECURITY.md:300`) |
| `JobRun_twice.cfg` (`JobRun`) | `OneTranscriptPerJob` | a crash after publication lets a resume publish a second canonical file, and the library's refresh rejects the pair (`planner.py:176`, `library/service.py:629`) |
| `JobLifecycle_reconcile.cfg` (`JobLifecycle`) | `ReconcilesOnlyTheDead` | `get` overwrites a record that became `completed` between its read and its write (`lifecycle.py:212`) |
| `ProcessingTasks_navigate.cfg` (`ProcessingTasks`) | `RunningIsOnTheCard` | a view left and reopened does not know of the worker that runs |
| `Reader_tools.cfg` (`MCReader`) | `ToolsActOnWhatTheyShow` | the tools panel opened over another's shows A and names B until it is inspected |
| `ResearchView_notes.cfg` (`ResearchView`) | `DraftsReplaceWhatTheyCameFrom` | a note saved from an old draft names the reloaded version and replaces it unseen (`ResearchWorkspace.tsx:182-203`) |
| `Planning_words.cfg` (`MCPlanning`) | `OverlapIsSimultaneous` | a word touched by two voices one after the other is presented as their overlap (`speaker_presentation.py:236`; `docs/speaker-names.md:103` and `docs/architecture/word-alignment.md:105` keep the word for voices at one moment, which the code asks of wordless segments only) |
| `Planning_reading.cfg` (`MCPlanning`) | `PublishedIsReadable` | two words in the wrong order, within the tolerance of `alignment.py:70`, are published; their span ends before it begins, and its `ValueError` makes the whole transcript unreadable with its speakers (`speaker_presentation.py:76`) |
| `Custody_models.cfg` (`MCCustody`) | `StaysRemovable` | after an upgrade of the policy the inventory refuses the old evidence and the command line asks for admission first: an installed model cannot be removed (`cli_models.py:112`; `docs/architecture/model-management.md:325`) |

Seen while modelling and not a configuration of its own: an edit of the recording
after `media.verify` goes unnoticed when the audio is read in place or decoded later
(set `EditDuringRun`); a discard or a retention races with a resume of the job (drop `StartedOnce` from
`WorkspaceIsKept`); a
prepare answered after its reader closed keeps one of eight host sessions for good; a
late answer to a saved note erases a newer draft (`EvidenceReader.tsx:101`);
`key={workspaceRevision}` throws an open draft away; a model removal cut off before
its manifest goes stops the inventory of all models until it is installed again; a
kill during an export leaves empty reserved names; a drive unplugged at a refresh
takes its documents out of the index; a turn past the probed duration is refused after
all the work (`Publish`, cause `"source"`).

### Bounds, and why they are enough

- Three windows are the fewest with a first, a middle and a last one; two versions
  and two contents are what a comparison can tell apart.
- Three faults let a crash hit a run, the resume after it and the clean-up of that.
- Two names: one is taken by a dead worker, or by the transcript of the run before, and
  the exhaustion of names is reached.
  `jobrun_recovers` has one name more than faults, because the code really fails for
  ever when names run out.
- Two tasks suffice for pairs; the second session exists for what the first one
  leaves behind. Two commands in flight give every order of a pair of answers.
- Two sequences, one of them signed twice, give rollback and equivocation; three
  days give a document before, in and after its validity.
- Two documents and two places are what a move, a swap and a duplicate need; two
  changes let one happen on each side of a read.
- A journal of which one change is kept and one is taken at a time is compacted past
  every reader; three changes let that happen during a rebuild too. Steps of a search
  that read no file commute with changes of files, so `ReadersWait` takes these
  between searches only.
- Two changes of a machine fall between any two of plan, admission and resume, each
  machine lacking one thing, so that no lack hides another. Two windows have a
  boundary; segments of two words touch, overlap, cross it and run backwards. Three turns
  of two voices follow each other, meet in one word, and are heard at once.
- A probe of two blocks and two tracks has four readings; two edits fall between any
  of them, or put the first contents back.
- Two segments of language give one junction; the texts begin and end with spaces
  and signs on either side of it. Two documents of two segments give up to four chunks
  and segments to rank, more than the candidate limit (3) and the query limits (1, 2);
  one of the transcripts is silence.

Symmetry is used in `library` and `research` only, on texts, stamps and notes, with no
liveness property. `CHECK_DEADLOCK FALSE` stands where the system may stop for good:
a worker is launched once, a page is closed, a search has answered.

### Fairness, and why the code justifies it

`JobRun`: a live worker takes its next step, and a polled record is reconciled
(`list_records` reads each through `get`). Only `PersistentSpec` adds an owner who
keeps resuming; nothing makes a fault happen or not happen, but they are finite.
`JobLifecycle`: live processes run, and the Processing Center asks again as long as it
is shown. Pids need not be reused nor released, so `OrphansSettle` excepts a record whose
pid is denied again and again. `ProcessingTasks`: the timer ticks while a running task is on the card, each
command gets its turn at the mutex and each promise resolves; weak fairness holds for
each task and kind of command, and for answers by what they say, because the
runtime's queue starves none. Workers need not exit. `SegmentPrefetch`: both threads are
scheduled. `HostSpec` is the two together. The other modules state no liveness: a
user, a network, a publisher and an owner owe nobody anything.

## 4. The proofs

| Module | Theorems | Assumptions on constants |
|---|---|---|
| `JobRunProofs` | `TypeCorrect`, `Integrity`, `AudioIsSwept`, `FaultsPayForRepeats`, `CompletionIsTrue`, `WorkIsKept`, `PublicationIsFinal`, `ProgressIsKept`, `RestoreSucceeds`, `ImplementsDurable` | the named ones of JobRun; `PublicationIsFinal`, `ProgressIsKept`, `RestoreSucceeds`, `ImplementsDurable` need `~Interruptible`; `Integrity` and `RestoreSucceeds` `~EditDuringRun` |
| `JobLifecycleProofs` | `TypeCorrect`, `CompletedMeansPublished`, `WorkIsNotPulledAway`, `DiscardIsBound` | processes are distinct; `DiscardIsBound`: at most one client |
| `HostProofs` | `SupervisionHonest`, `OneTask`, `Finality`; `PlanOrder`, `NoResidue`, `AtMostOneAhead`; `NoRollback`, `NoEquivocation`, `HandoverIsTrue`, `StagingIsTrue`, `ImplementsReleases` | `NoTask` is no task; N positive; documents are well formed |
| `LibraryProofs` | `TypeCorrect`, `PlacesAreDistinct`, `RetrievalIsCurrent`, `RefreshIsTrue` | places, documents and the values that mean nothing are distinct |
| `ResearchStateProofs` | `TypeCorrect`, `SearchCorrect`, `EditsAreInformed`, `CitationsKept` | a positive batch size; what is retained and the bound are numbers |
| `CustodyProofs` | `DeletionIsReviewed`, `PeopleComeLast`; `AdmissionHolds`, `ReceiptsHold` | materials, models and what means none of them are distinct |
| `PlanningProofs` | `AgreementHolds`, `ReadmissionHolds`; `NothingHeardIsLost`, `EvidenceIsPresented`; `NothingIsMisattributed`; `ProbeIsAtomic`; `EvidenceIsFound` | amounts and times are numbers; the catalogue of strategies is finite, and so are the turns of a recording; a text is a sequence of characters, one of them no white space; FFprobe numbers the streams of a file; documents are finitely many, their segments and words follow each other in time, and `NoRank` is no number |
| `DesktopProofs` | `PlaybackHolds`, `ActsOnShown`, `ExportsHold`; `ChangesWhatItLoaded`; `ReviewHolds` | `None` is no session and no export, limits are numbers; `ReviewHolds` needs `Patient` |

Each is an induction over one named strengthening, with one step for each action. TLC
checked each strengthening as an invariant of the run of its module before it was
proved. Where several parts share a run (host, custody, reader), their proofs share
a module too, and each part keeps a specification and an invariant of its own.

*JobRun, what is published.* `TranscriptIntegrity` speaks of published files only.
The induction (`Sound`) has to know where a transcript comes from: `results` is
always the windows from zero, heard from the planned contents; a checkpoint on
disk agrees with its manifest; the decoded audio, or the source read in place,
still is what was planned. That there is one engine version comes from what the
assembler checks when the artifact is written. The audio is where an edit during
a run would break it, hence the assumption, and why the theorem does not hold
without it.

*JobRun, what is kept.* `JobInv` adds who holds which artifact name (`Holding`), what
the record says while a worker lives (`Recorded`), and four things about the
checkpoints: they lie in a workspace (`Housed`), belong to a contract and are a
prefix of the plan (`Kept`), are the worker's results in order, one saved piece
ahead at most (`Mirrored`), and speak with the version of the session that adds
to them (`SameEngine`). `Mirrored` is what makes the refinement work: the window
that `SaveSegment` writes is the next one, and when the loop is left all are
there. `EvidenceFrame`, `OutputFrame` and `CountFrame` name the few actions that
touch the checkpoints, the artifacts and the count; every other action is one
case of each proof. Ctrl-C is excluded where `JobRun_ctrlc.cfg` shows that it has to be;
`CompletionIsTrue` and `WorkIsKept` hold with it.

*JobRun, what is swept.* `NoAudioLeftBehind` speaks of the end of a job and is decided
long before: a leftover of a killed worker lies in the way of the next one. `AudioInv`
says that a segment on disk is the one after the checkpoints, in which a worker is or
was cut off, so that none is left once the last is saved (`SegmentsTrail`), and that
from the decoder on a worker owns the decoded audio that is there (`DecodedOwned`): a
leftover stopped it before, and what it owns its unwinding removes or fails over. Out of
`SegmentsTrail` are the segments in `stuck`, behind the checkpoints, which no later run opens;
one that is opened again before it is saved leaves `stuck`, as `materialize` unlinks it.

*JobRun, how often it publishes.* No call asks whether a job is already published, so
`OneTranscriptPerJob` is false and a resume after a fault may publish again. What keeps
a job without faults from it is an order: the contract, without which there is no
resume, is removed before the success is recorded. `RepeatInv` counts: wherever a run
or a resume can still reach the artifact there are no more transcripts than faults so
far (`Spare`); there is one more only while its worker clears up, or when the contract
is gone and no first start is left (`Over`). While there is a contract it names the
recording of every transcript (`OneSource`). All of it holds under Ctrl-C and edits.

*JobLifecycle.* A record that says completed belongs to a published transcript, and
so does a worker that is clearing, writing its last record or done. A client
never writes `completed`, and publication is never undone, so no interleaving of
the writes matters. The other two are about a job that was started once (`Once`): a
settled record means that its worker is gone (`Told`), and a client marks only what is
over (`Judged`). So a client that found the record settled, or a published transcript
(`Spent`), deletes under nobody (`Harmless`), and `WorkIsNotPulledAway` holds for any
number of clients; after a resume it is false, because a deletion decided before
remains decided. For `DiscardIsBound` nobody but the client may write between its check
and its deletion (`Bound`). With two clients it is false, as TLC shows in a dozen steps: one that read the
record before it was settled marks it once more under the other's discard. The
bridge's lock lets one in at a time; a CLI beside the desktop is a second one.

*ProcessingTasks.* The invariant ties three places together: an entry with a
verdict has no live process, a process that is alive has a running entry, and an
answer in flight that carries a verdict agrees with its entry. The last makes the
card true whatever order answers come in, the second keeps workers from escaping. For a single
worker the argument is that `HandleStart` has refreshed every entry under the same mutex.

*SegmentPrefetch.* The strengthening says, for each step of the caller and state
of the future, which files may exist: written files are the one in hand and the
future's, `next` follows the future, `saved` follows the window in hand. The
lemmas state it for each place of the loop; what an unlink that fails or Ctrl-C leaves
behind is in `spoiled` from that step on (`Accounted`), and so is the window of a future
that a broken-off `__exit__` let go (`Released`).

*UpdateChannel.* What a bridge process read is what is still on disk, because only
its own end writes; a trusted document belongs to `believed`, and no believed
document has the highest sequence but the trusted one or exceeds it. A ticket's
package stays in place: a new one of that sequence would need another document
of it, which `Fresh` refuses. The same holds of what the saved status calls
staged (`Kept`). With these `SaveChecked` is a step of `TrustedReleases` or finds the
same release again, `Open` hands one over, and every other step stutters
(`ImplementsReleases`).

*Library.* `PlaceInv`: what the running job has loaded names one place for each document
as far as the delta will use it, so that two documents at one place meet either the
rejection of duplicates or the removal of the one that is not there any more. For
retrieval the invariant says that from the clearing of the semantic rows to their
rebuilding nothing is retrievable, wherever the process ends; the theorem is the order
of these steps. `TellInv` is the same for a refresh: what it has read is still so,
except at the places it counts as touched.

*ResearchState.* Each row of the projection agrees with its note, or the journal has a
change of that note after `through`; a projection behind what was compacted
(`through < floor`) need not, and is rebuilt before it answers (`Trustworthy`). What
the searching process carries through its steps (`AtFetch` to `AtMatch`) is the same
statement for the batch or the snapshot in its hands, so that a note written
meanwhile is excused by its entry. The edits follow from versions: a draft of the
version that is there is a draft of the note that is there (`DraftInv`), because each
write gives its note the number of its own entry (`Journalled`). The many writes are
shown once to be cases of one relation (`Changed`), and only that is carried through
the invariants.

*Custody and ModelCustody.* `CustodyInv` keeps, for a deletion that runs, that its actions
are a remainder of the reviewed list in the order of the plan (`Sound`), that what it
rests on was true when it began (`Checked`), and that whatever is no longer on the
list is gone or was changed by somebody since (`Accounted`); the last gives the order of
`HumanStateLast`. `ModelInv` ties a command in the middle to what it is about
to write (`RemovesWhatIsListed`), and a job to the revision that hears it (`HeardByOne`).

*Planning.* `PlanInv` says that a plan that is carried is one the planner makes
(`GoodPlan`: within the threads, the budget and the space of the machine it was made
on), and that contract, first run and plan agree (`Kept`). Readmission needs that the
best strategy exists and that the smallest choices are what they claim: least and
greatest elements of finite sets of numbers, from the well-foundedness of `<`.

*Timeline.* What the engine heard, and what `Aligned` makes of it, is a sequence in order of
time. `TimelineInv` says that what was assembled so far is what the windows so far
heard, rebased, and that each window's segments lie in its own interval; clipping and
rebasing are monotone, so the order of one window is kept and the windows follow each
other. No validator of assembly has anything left to refuse, and labelling changes no
time. The chunks are a fold over the transcript. A fold of the community modules is a
function picked by CHOOSE, so that it exists has to be shown first: by induction
over the length, with the set of the numbers for which it does for a predicate. After
that the chunks are computed, one segment at a time, for a transcript of any length.

*SpeakerPresentation.* Turns overlap an interval if and only if they share a moment with
it (`SharedMoment`), so the voices the code counts by interval are those heard moment by
moment, and two voices are simultaneous if and only if they share a moment between
themselves too. The spans of a segment are the maximal runs of words alike: each word has
one, because there is a least place from which, and a greatest one to which, all words are
like it, and two runs that share a word are one. `ReadInv` carries the one fact of the
labelling that is needed: a word's label is the voice of its interval when there is
exactly one, and nobody otherwise.

*Languages.* The document is a fold as well, and is shown to have each text at its
offset, one to a line (`Holds`, `Lines`). The cuts of a line are the document's cuts
inside it, shifted, and so are its clauses; every clause of the document ends in the
line it begins in, because a line end is a cut. Projection therefore gives a segment
its own line's clauses, and of any other clause nothing. Clauses of one text do
not overlap, so no segment refuses its spans. The classifier is any function of a
clause's letters, which the shift leaves alone.

*MediaProbe.* While the stamp is the one taken first, whatever was read so far is of what
the recording holds now (`ProbeInv`); an edit only ends that. So equal stamps at the end
make all readings one.

*Retrieval.* The chunks of a document cut it, so that each segment has one chunk, and a
chunk is known by its document and its first segment (`ChunksCut`, `ChunkKey`). Whatever
an index returns is a sequence without repetition over what matches, cut at the limit
(`Lists`). A chunk's lexical rank is the number of chunks found no later than it, hence
no larger for one found earlier; of two reciprocals that shrink and one that does so
strictly the sum is smaller, by cases on which index missed which chunk and one
inequality of products (`LargerSum`, `SumExceeds`). A permutation that agrees with the
scores keeps that order under any cut, and the last reordering, by time, leaves each
passage its rank. The words marked in a passage have a first place in the order of
segment and word (`FirstPlace`), so it opens inside itself (`PassageOpens`). `SearchInv`
carries this from the indexes to the screen, while the file may be replaced at any moment.

*The pages.* Each invariant says of every call in flight, whatever is on the page by then,
what it was made of. `SetupInv` (SetupPage): of a user who waits at most one call is under
way, while the page is busy, and it is about the choices that the page still has. `ViewInv` (ResearchView): a change of a
saved search names no version newer than the one it was made from, and that one is
no newer than the row; so a change that is accepted meets the version it came from. `PlayInv` (Reader): sessions are
of checked recordings, and a page that waits for one has no player and waits for one
answer only; so no step drops a session that is of use (`Follows`). That the host has
a number left is the pigeonhole principle. `BenchInv`
(Reader): panel, calls, and what was written name what was shown; the names an export
has taken are reserved by it or written by it, and no one else's.

Theorems without a property of a listed run, which `KeepsPromise`, `KeepsTrust` or a
neighbour covers there: `WorkIsKept`, `PublicationIsFinal`, `CompletionIsTrue`, `Finality`,
`AtMostOneAhead`, `NoRollback`, `NoEquivocation`, `HandoverIsTrue` and the type invariants.
`StagingIsTrue` (`StagedIsThere`) stands by its proof.

### Only model-checked

Liveness (`EventuallyPublished`, `OrphansSettle`, `EndsAreNoticed`, `LoopEnds`) is out of
the prover's reach. Of a search, `EvidenceIsFound` says what any answer is; that an order
agreeing with the scores exists, so that there is an answer, only TLC shows. So it is with
the type invariants of the modules that list no `TypeCorrect`.

## 5. What the models leave out

- The deletion of a directory tree is one step; a tree half deleted looks to
  `restore` like a missing manifest or a gap, both of which it refuses.
- FFmpeg outliving its killed parent and still writing is not modelled.
- Mutex poisoning in the host is left out; `Drop` is taken to run on an orderly exit.
- One bridge process at a time is the host's lock. A bridge orphaned by a host that
  crashed, or a second host, is outside UpdateChannel and Reader; two commands that
  install or remove models at once are outside ModelCustody.
- DuckDB's exclusive file lock and SQLite's immediate transactions are taken to hold.
- Signatures, digests and encodings are equality of what they protect. A document in
  `Docs` is one whose signature verifies and that has a package for the platform;
  quarantine marks and the refusal on Windows are `DropTicket`.
- The byte ranges of the media protocol: a request is answered on the thread that
  holds the session, and keeps nothing. A recording written over in place behind an
  open handle is not noticed by the code and not modelled.
- After a canonical file moved, a plain rebuild leaves its chunks with the old path.
- The limit on the notes that a search lists (`[:limit]`, 1,000 unless the caller says
  otherwise) is taken to exceed the number of notes: `SearchIsCurrent` is about a list
  that is not cut.
- JobRun's `Reconcile` always finds a dead worker dead; a pid that is denied is in
  JobLifecycle only. No action of JobRun but a discard and a retention asks for the
  settled record, a resume does not.
- The score of a search, the confidence of a language, benchmark evidence and the
  text of an export are data that the models leave open.
- Version precedence with pre-release parts: UpdateChannel takes the order as given.
- In Planning and Timeline three refusals have an outcome that the code before them
  makes impossible: the mismatch in `Prepare`, `"assembly"` and `"labels"`. They are
  kept because the code has them, and `HeardIsKept` says that the last two never occur.
- Confidentiality, permissions and path checks are not behaviour over time.

### Not modelled

Supply chain verification (documents in, a verdict out, at build time), core services
(configuration, logging, measurement), benchmarks and the parsing and printing of the
command line keep no state that another component depends on. `components` in
`PROJECT.json` says of each part what is and what is not modelled.

## 6. Plan

Done, in this order: JobRun with its promise, JobLifecycle, ProcessingTasks,
SegmentPrefetch, UpdateChannel and their theorems; then Library, ResearchState with its
theorems, Custody, ModelCustody, the pages, Planning, Timeline, Languages, Retrieval and
MediaProbe;
then the theorems of Library, Custody, ModelCustody, the pages, Planning, Timeline,
Languages and MediaProbe; then SpeakerPresentation with its theorem; then the theorem of
Retrieval, `WorkIsNotPulledAway`, and TrustedReleases with its refinement.

Proofs worth having next: that the fused order exists; what remains of the checkpoints of
a job under Ctrl-C (under it `AlwaysRestorable` and `ProgressIsDurable` are false);
`PlaysWhatIsShown`, `OverlapIsEvidence` and `PublishedIsReadable` once the code is mended.
